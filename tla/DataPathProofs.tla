--------------------------- MODULE DataPathProofs ---------------------------
(***************************************************************************)
(* What the data of a program become on their way to the device and back,  *)
(* for any waves, captures, calls and sizes of the memory: the bytes of a  *)
(* wave, where a wave is put, how much a capture needs and what it gives,  *)
(* and what a command says.                                                *)
(***************************************************************************)
EXTENDS Integers, WaveSamples, CaptureParams, CaptureFilters, WaveStore,
        SequencerCommands, SequencesExt, SequenceTheorems, WellFoundedInduction, TLAPS

-----------------------------------------------------------------------------
(* Sums and sequences: induction over their lengths. *)

(* A set of numbers that is not empty has a least one. *)
LEMMA LeastNat ==
  ASSUME NEW T \in SUBSET Nat, T # {}
  PROVE  \E m \in T : \A k \in T : m <= k
<1> DEFINE R == OpToRel(<, Nat)
<1>1. IsWellFoundedOn(R, Nat)
  BY NatLessThanWellFounded
<1>2. \A x, y \in Nat : x < y => <<x, y>> \in R
  BY DEF OpToRel
<1> HIDE DEF R
<1>3. PICK m \in T : \A y \in T : ~ (<<y, m>> \in R)
  BY <1>1, WFMin
<1>4. ASSUME NEW k \in T PROVE m <= k
  <2>1. k \in Nat /\ m \in Nat
    OBVIOUS
  <2>2. ~(k < m)
    BY <1>2, <1>3, <2>1
  <2> QED BY <2>1, <2>2
<1> QED BY <1>4

(* Induction, for a set of numbers in place of a formula. *)
LEMMA SetInduction ==
  ASSUME NEW S, 0 \in S, \A n \in Nat : n \in S => n + 1 \in S
  PROVE  Nat \subseteq S
<1> DEFINE T == {n \in Nat : n \notin S}
<1>1. SUFFICES ASSUME T # {} PROVE FALSE
  OBVIOUS
<1>2. PICK m \in T : \A k \in T : m <= k
  <2> HIDE DEF T
  <2>1. T \in SUBSET Nat BY DEF T
  <2> QED BY <2>1, <1>1, LeastNat
<1>3. m \in Nat /\ m # 0 /\ m - 1 \in Nat /\ (m - 1) + 1 = m
  BY <1>2
<1>4. m - 1 \in S
  BY <1>2, <1>3
<1> QED BY <1>2, <1>3, <1>4

(* A function that goes on from z as h says. *)
Iterates(g, V, z, n, h) ==
  g \in [0 .. n -> V] /\ g[0] = z /\ \A i \in 1 .. n : g[i] = h[i][g[i - 1]]

(* Recursion over 0 .. n: there is a function for each way to go on. *)

LEMMA Recursion ==
  ASSUME NEW V, NEW z \in V, NEW n \in Nat, NEW h \in [1 .. n -> [V -> V]]
  PROVE  \E g : Iterates(g, V, z, n, h)
<1> DEFINE S == {m \in Nat : m <= n => \E g \in [0 .. m -> V] :
                               g[0] = z /\ \A i \in 1 .. m : g[i] = h[i][g[i - 1]]}
<1>1. 0 \in S
  <2> DEFINE k == [i \in 0 .. 0 |-> z]
  <2>1. k \in [0 .. 0 -> V] /\ k[0] = z /\ 1 .. 0 = {}
    OBVIOUS
  <2> HIDE DEF k
  <2> QED BY <2>1
<1>2. ASSUME NEW m \in Nat, m \in S PROVE m + 1 \in S
  <2> SUFFICES ASSUME m + 1 <= n
               PROVE  \E g \in [0 .. m + 1 -> V] : g[0] = z /\ \A i \in 1 .. m + 1 : g[i] = h[i][g[i - 1]]
    OBVIOUS
  <2>1. PICK g \in [0 .. m -> V] : g[0] = z /\ \A i \in 1 .. m : g[i] = h[i][g[i - 1]]
    BY <1>2
  <2>2. h[m + 1] \in [V -> V] /\ g[m] \in V /\ h[m + 1][g[m]] \in V
    OBVIOUS
  <2> DEFINE k == [i \in 0 .. m + 1 |-> IF i <= m THEN g[i] ELSE h[m + 1][g[m]]]
  <2>3. k \in [0 .. m + 1 -> V]
    BY <2>2
  <2>4. k[0] = z
    BY <2>1
  <2>5. ASSUME NEW i \in 1 .. m + 1 PROVE k[i] = h[i][k[i - 1]]
    <3>1. CASE i <= m
      <4>1. i \in 1 .. m /\ i - 1 \in 0 .. m
        BY <3>1
      <4>2. k[i] = g[i] /\ k[i - 1] = g[i - 1]
        BY <4>1
      <4> QED BY <2>1, <4>1, <4>2
    <3>2. CASE i = m + 1
      BY <3>2
    <3> QED BY <3>1, <3>2
  <2> QED BY <2>3, <2>4, <2>5
<1>3. Nat \subseteq S
  <2> HIDE DEF S
  <2> QED BY <1>1, <1>2, SetInduction
<1>4. \E g \in [0 .. n -> V] : g[0] = z /\ \A i \in 1 .. n : g[i] = h[i][g[i - 1]]
  BY <1>3
<1> QED BY <1>4 DEF Iterates

(* The running sums are the ones that their definition asks for. *)
LEMMA SumsIn ==
  ASSUME NEW V \in SUBSET Int, 0 \in V, \A x, y \in V : x + y \in V, NEW l \in Seq(V)
  PROVE  /\ Sums(l) \in [0 .. Len(l) -> V] /\ Sums(l)[0] = 0
         /\ \A i \in 1 .. Len(l) : Sums(l)[i] = Sums(l)[i - 1] + l[i]
<1>1. PICK n \in Nat : n = Len(l)
  OBVIOUS
<1>2. \A i \in 1 .. n : l[i] \in V
  BY <1>1
<1> DEFINE Eq(g) == g = [i \in 0 .. n |-> IF i = 0 THEN 0 ELSE g[i - 1] + l[i]]
<1>3. \E g : Eq(g)
  <2>1. PICK h \in [1 .. n -> [V -> V]] : \A i \in 1 .. n, v \in V : h[i][v] = v + l[i]
    <3> DEFINE h == [i \in 1 .. n |-> [v \in V |-> v + l[i]]]
    <3>1. h \in [1 .. n -> [V -> V]]
      BY <1>2
    <3>2. \A i \in 1 .. n, v \in V : h[i][v] = v + l[i]
      OBVIOUS
    <3> HIDE DEF h
    <3> QED BY <3>1, <3>2
  <2>2. PICK g \in [0 .. n -> V] : g[0] = 0 /\ \A i \in 1 .. n : g[i] = h[i][g[i - 1]]
    <3>1. 0 \in V
      OBVIOUS
    <3>2. PICK g : Iterates(g, V, 0, n, h)
      BY <3>1, Recursion
    <3> QED BY <3>2 DEF Iterates
  <2>3. \A i \in 1 .. n : g[i - 1] \in V
    OBVIOUS
  <2>4. g = [i \in 0 .. n |-> IF i = 0 THEN 0 ELSE g[i - 1] + l[i]]
    <3>1. \A i \in 1 .. n : g[i] = g[i - 1] + l[i]
      BY <2>1, <2>2, <2>3
    <3> QED BY <2>2, <3>1
  <2> HIDE DEF Eq
  <2>5. Eq(g)
    BY <2>4 DEF Eq
  <2> QED BY <2>5
<1>4. Sums(l) = CHOOSE g : Eq(g)
  BY <1>1 DEF Sums
<1>5. Eq(Sums(l))
  <2> HIDE DEF Eq
  <2> QED BY <1>3, <1>4
<1>6. PICK f : f = Sums(l)
  OBVIOUS
<1>7. f = [i \in 0 .. n |-> IF i = 0 THEN 0 ELSE f[i - 1] + l[i]]
  BY <1>5, <1>6
<1>8. f[0] = 0 /\ \A i \in 1 .. n : f[i] = f[i - 1] + l[i]
  BY <1>7
<1>9. \A i \in 0 .. n : f[i] \in V
  <2> DEFINE S == {i \in Nat : i <= n => f[i] \in V}
  <2>1. 0 \in S
    BY <1>8
  <2>2. ASSUME NEW i \in Nat, i \in S PROVE i + 1 \in S
    <3>1. SUFFICES ASSUME i + 1 <= n PROVE f[i + 1] \in V
      OBVIOUS
    <3>2. f[i] \in V /\ l[i + 1] \in V /\ i + 1 \in 1 .. n /\ (i + 1) - 1 = i
      BY <1>2, <2>2, <3>1
    <3>3. PICK k \in 1 .. n : k = i + 1 /\ k - 1 = i
      BY <3>2
    <3>4. f[k] = f[k - 1] + l[k]
      BY <1>8
    <3>5. f[k - 1] \in V /\ l[k] \in V
      BY <3>2, <3>3, Zenon
    <3>6. \A x, y \in V : x + y \in V
      OBVIOUS
    <3>7. f[k] \in V
      BY <3>4, <3>5, <3>6, Zenon
    <3> QED BY <3>3, <3>7, Zenon
  <2> HIDE DEF S
  <2>3. Nat \subseteq S
    BY <2>1, <2>2, SetInduction
  <2> QED BY <2>3 DEF S
<1>10. f \in [0 .. n -> V]
  BY <1>7, <1>9
<1> QED BY <1>1, <1>6, <1>8, <1>10

(* Sums of natural numbers. *)
LEMMA SumsAre ==
  ASSUME NEW l \in Seq(Nat)
  PROVE  /\ Sums(l) \in [0 .. Len(l) -> Nat] /\ Sums(l)[0] = 0
         /\ \A i \in 1 .. Len(l) : Sums(l)[i] = Sums(l)[i - 1] + l[i]
<1>1. Nat \in SUBSET Int /\ 0 \in Nat /\ \A x, y \in Nat : x + y \in Nat
  OBVIOUS
<1> QED BY <1>1, SumsIn

(* Sums of integers. *)
LEMMA SumsAreInt ==
  ASSUME NEW l \in Seq(Int)
  PROVE  /\ Sums(l) \in [0 .. Len(l) -> Int] /\ Sums(l)[0] = 0
         /\ \A i \in 1 .. Len(l) : Sums(l)[i] = Sums(l)[i - 1] + l[i]
<1>1. Int \in SUBSET Int /\ 0 \in Int /\ \A x, y \in Int : x + y \in Int
  OBVIOUS
<1> QED BY <1>1, SumsIn

(* Running sums never fall. *)
LEMMA SumsGrow ==
  ASSUME NEW l \in Seq(Nat), NEW i \in 0 .. Len(l), NEW j \in 0 .. Len(l), i <= j
  PROVE  Sums(l)[i] <= Sums(l)[j]
<1>0. PICK n \in Nat : n = Len(l)
  OBVIOUS
<1>1. PICK f : n = Len(l) /\ f = Sums(l)
  BY <1>0
<1>2. f \in [0 .. n -> Nat] /\ \A k \in 1 .. n : f[k] = f[k - 1] + l[k] /\ l[k] \in Nat
  <2>1. \A k \in 1 .. n : l[k] \in Nat
    BY <1>1
  <2>2. Sums(l) \in [0 .. Len(l) -> Nat] /\ \A k \in 1 .. Len(l) : Sums(l)[k] = Sums(l)[k - 1] + l[k]
    BY SumsAre
  <2> QED BY <1>1, <2>1, <2>2
<1> DEFINE S == {k \in Nat : i + k <= n => f[i] <= f[i + k]}
<1>3. 0 \in S
  <2>1. f[i] \in Nat /\ i + 0 = i
    BY <1>1, <1>2
  <2> QED BY <2>1
<1>4. ASSUME NEW k \in Nat, k \in S PROVE k + 1 \in S
  <2>1. SUFFICES ASSUME i + (k + 1) <= n PROVE f[i] <= f[i + (k + 1)]
    OBVIOUS
  <2>2. i + k <= n /\ i + k \in 0 .. n /\ i + (k + 1) \in 1 .. n /\ (i + (k + 1)) - 1 = i + k
    BY <1>1, <2>1
  <2>3. f[i + (k + 1)] = f[i + k] + l[i + (k + 1)] /\ l[i + (k + 1)] \in Nat /\ f[i + k] \in Nat
    BY <1>2, <2>2
  <2>4. f[i] <= f[i + k] /\ f[i] \in Nat
    BY <1>1, <1>2, <1>4, <2>2
  <2> QED BY <2>3, <2>4
<1>5. j - i \in Nat /\ i + (j - i) = j
  OBVIOUS
<1>6. j - i \in S
  <2> HIDE DEF S
  <2> QED BY <1>3, <1>4, <1>5, SetInduction
<1> QED BY <1>1, <1>5, <1>6

(* The sum of all is the last running sum, and no part is more than it. *)
LEMMA SumIs ==
  ASSUME NEW l \in Seq(Nat)
  PROVE  /\ SumAll(l) \in Nat /\ SumAll(l) = Sums(l)[Len(l)]
         /\ \A i \in 0 .. Len(l) : Sums(l)[i] <= SumAll(l) /\ Sums(l)[i] \in Nat
         /\ \A i \in 1 .. Len(l) : l[i] <= SumAll(l)
<1>0. PICK n \in Nat : n = Len(l)
  OBVIOUS
<1>1. PICK f : n = Len(l) /\ f = Sums(l)
  BY <1>0
<1>2. f \in [0 .. n -> Nat] /\ \A k \in 1 .. n : f[k] = f[k - 1] + l[k] /\ l[k] \in Nat
  <2>1. \A k \in 1 .. n : l[k] \in Nat
    BY <1>1
  <2>2. Sums(l) \in [0 .. Len(l) -> Nat] /\ \A k \in 1 .. Len(l) : Sums(l)[k] = Sums(l)[k - 1] + l[k]
    BY SumsAre
  <2> QED BY <1>1, <2>1, <2>2
<1>3. \A i \in 0 .. n : f[i] <= f[n]
  BY <1>1, SumsGrow
<1>4. SumAll(l) = f[n]
  BY <1>1 DEF SumAll
<1>5. ASSUME NEW i \in 1 .. n PROVE l[i] <= f[n]
  <2>1. i - 1 \in 0 .. n /\ i \in 0 .. n
    OBVIOUS
  <2>2. f[i] = f[i - 1] + l[i] /\ f[i - 1] \in Nat /\ l[i] \in Nat /\ f[i] <= f[n] /\ f[n] \in Nat
    BY <1>2, <1>3, <2>1
  <2> QED BY <2>2
<1>6. f[n] \in Nat
  BY <1>2
<1>7. SumAll(l) \in Nat /\ SumAll(l) = Sums(l)[Len(l)]
  BY <1>1, <1>4, <1>6
<1>8. ASSUME NEW i \in 0 .. Len(l) PROVE Sums(l)[i] <= SumAll(l) /\ Sums(l)[i] \in Nat
  <2>1. i \in 0 .. n
    BY <1>1
  <2>2. f[i] <= f[n]
    BY <1>3, <2>1
  <2>3. f[i] \in Nat
    BY <1>2, <2>1
  <2> QED BY <1>1, <1>4, <2>2, <2>3
<1>9. ASSUME NEW i \in 1 .. Len(l) PROVE l[i] <= SumAll(l)
  <2>1. i \in 1 .. n
    BY <1>1
  <2> QED BY <1>4, <1>5, <2>1
<1> QED BY <1>7, <1>8, <1>9

(* Running sums of smaller numbers are smaller. *)
LEMMA SumsOrdered ==
  ASSUME NEW l \in Seq(Nat), NEW k \in Seq(Nat), Len(l) = Len(k),
         \A i \in 1 .. Len(l) : l[i] <= k[i]
  PROVE  \A i \in 0 .. Len(l) : Sums(l)[i] <= Sums(k)[i]
<1>0. PICK n \in Nat : n = Len(l)
  OBVIOUS
<1>1. PICK f, g : n = Len(l) /\ f = Sums(l) /\ g = Sums(k)
  BY <1>0
<1>2. /\ f \in [0 .. n -> Nat] /\ f[0] = 0 /\ \A i \in 1 .. n : f[i] = f[i - 1] + l[i] /\ l[i] \in Nat
      /\ g \in [0 .. n -> Nat] /\ g[0] = 0 /\ \A i \in 1 .. n : g[i] = g[i - 1] + k[i] /\ k[i] \in Nat
  <2>1. /\ Sums(l) \in [0 .. Len(l) -> Nat] /\ Sums(l)[0] = 0
        /\ \A i \in 1 .. Len(l) : Sums(l)[i] = Sums(l)[i - 1] + l[i]
    BY SumsAre
  <2>2. /\ Sums(k) \in [0 .. Len(k) -> Nat] /\ Sums(k)[0] = 0
        /\ \A i \in 1 .. Len(k) : Sums(k)[i] = Sums(k)[i - 1] + k[i]
    BY SumsAre
  <2>3. \A i \in 1 .. n : l[i] \in Nat /\ k[i] \in Nat
    BY <1>1
  <2> QED BY <1>1, <2>1, <2>2, <2>3
<1> DEFINE S == {i \in Nat : i <= n => f[i] <= g[i]}
<1>3. 0 \in S
  BY <1>2
<1>4. ASSUME NEW i \in Nat, i \in S PROVE i + 1 \in S
  <2>1. SUFFICES ASSUME i + 1 <= n PROVE f[i + 1] <= g[i + 1]
    OBVIOUS
  <2>2. i \in 0 .. n /\ i + 1 \in 1 .. n /\ (i + 1) - 1 = i /\ f[i] <= g[i]
    BY <1>4, <2>1
  <2>3. /\ f[i + 1] = f[i] + l[i + 1] /\ g[i + 1] = g[i] + k[i + 1] /\ l[i + 1] <= k[i + 1]
        /\ f[i] \in Nat /\ g[i] \in Nat /\ l[i + 1] \in Nat /\ k[i + 1] \in Nat
    BY <1>1, <1>2, <2>2
  <2> QED BY <2>2, <2>3, SMTT(30)
<1>5. Nat \subseteq S
  <2> HIDE DEF S
  <2> QED BY <1>3, <1>4, SetInduction
<1> QED BY <1>1, <1>5

(* What is counted by a sum is in one of its parts. *)
LEMMA FindPart ==
  ASSUME NEW l \in Seq(Nat), NEW j \in 1 .. SumAll(l)
  PROVE  \E i \in 1 .. Len(l) : \E m \in 1 .. l[i] : j = Sums(l)[i - 1] + m
<1>0. PICK n \in Nat : n = Len(l)
  OBVIOUS
<1>1. PICK f : n = Len(l) /\ f = Sums(l)
  BY <1>0
<1>2. f \in [0 .. n -> Nat] /\ f[0] = 0 /\ \A k \in 1 .. n : f[k] = f[k - 1] + l[k] /\ l[k] \in Nat
  <2>1. \A k \in 1 .. n : l[k] \in Nat
    BY <1>1
  <2>2. /\ Sums(l) \in [0 .. Len(l) -> Nat] /\ Sums(l)[0] = 0
        /\ \A k \in 1 .. Len(l) : Sums(l)[k] = Sums(l)[k - 1] + l[k]
    BY SumsAre
  <2> QED BY <1>1, <2>1, <2>2
<1>3. j \in Nat /\ j >= 1 /\ j <= f[n]
  BY <1>1, SumIs
<1> DEFINE T == {k \in 0 .. n : j <= f[k]}
<1>4. T \in SUBSET Nat /\ n \in T
  BY <1>3
<1>5. PICK i \in T : \A k \in T : i <= k
  <2> HIDE DEF T
  <2> QED BY <1>4, LeastNat
<1>6. i \in 1 .. n
  <2>1. 0 \notin T
    BY <1>2, <1>3
  <2> QED BY <2>1
<1>7. i - 1 \in 0 .. n /\ i - 1 \notin T
  BY <1>5, <1>6
<1>8. f[i - 1] < j /\ j <= f[i - 1] + l[i] /\ f[i - 1] \in Nat /\ l[i] \in Nat
  BY <1>2, <1>3, <1>6, <1>7
<1>9. PICK m : m = j - f[i - 1]
  OBVIOUS
<1>10. m \in 1 .. l[i] /\ j = f[i - 1] + m
  BY <1>3, <1>8, <1>9, SMTT(30)
<1> QED BY <1>1, <1>6, <1>10

(* Two sequences, one after the other: the second. *)
LEMMA SecondPart ==
  ASSUME NEW V, NEW a \in Seq(V), NEW b \in Seq(V), NEW m \in 1 .. Len(b)
  PROVE  (a \o b)[Len(a) + m] = b[m]
OBVIOUS

(* The same, of all of them. *)
LEMMA SecondParts ==
  ASSUME NEW V, NEW a \in Seq(V), NEW b \in Seq(V)
  PROVE  \A m \in 1 .. Len(b) : (a \o b)[Len(a) + m] = b[m]
BY SecondPart

(* Where the elements of a sequence of sequences are when they are put one *)
(* after the other.                                                        *)
LEMMA FlattenAre ==
  ASSUME NEW V, NEW seqs \in Seq(Seq(V)), NEW lens \in Seq(Nat),
         Len(lens) = Len(seqs), \A i \in 1 .. Len(seqs) : lens[i] = Len(seqs[i])
  PROVE  /\ FlattenSeq(seqs) \in Seq(V) /\ Len(FlattenSeq(seqs)) = SumAll(lens)
         /\ \A i \in 1 .. Len(seqs) : \A m \in 1 .. lens[i] :
              FlattenSeq(seqs)[Sums(lens)[i - 1] + m] = seqs[i][m]
<1>0. PICK n \in Nat : n = Len(seqs)
  OBVIOUS
<1>1. PICK s : n = Len(seqs) /\ s = Sums(lens)
  BY <1>0
<1>2. \A i \in 1 .. n : seqs[i] \in Seq(V) /\ lens[i] = Len(seqs[i]) /\ lens[i] \in Nat
  BY <1>1
<1>3. s \in [0 .. n -> Nat] /\ s[0] = 0 /\ \A i \in 1 .. n : s[i] = s[i - 1] + lens[i]
  <2>1. /\ Sums(lens) \in [0 .. Len(lens) -> Nat] /\ Sums(lens)[0] = 0
        /\ \A i \in 1 .. Len(lens) : Sums(lens)[i] = Sums(lens)[i - 1] + lens[i]
    BY SumsAre
  <2> QED BY <1>1, <2>1
<1>4. SumAll(lens) = s[n]
  BY <1>1 DEF SumAll
<1>5. CASE n = 0
  <2>1. FlattenSeq(seqs) = seqs
    BY <1>1, <1>5 DEF FlattenSeq
  <2>2. seqs \in Seq(V) /\ Len(seqs) = 0
    <3>1. Len(seqs) = 0
      BY <1>1, <1>5
    <3>2. seqs = <<>>
      BY <3>1, EmptySeq
    <3>3. <<>> \in Seq(V)
      OBVIOUS
    <3> QED BY <3>1, <3>2, <3>3
  <2>3. 1 .. n = {}
    BY <1>5
  <2> QED BY <1>1, <1>3, <1>4, <1>5, <2>1, <2>2, <2>3
<1>6. CASE n # 0
  <2> DEFINE Eq(g) == g = [i \in 1 .. n |-> IF i = 1 THEN seqs[i] ELSE g[i - 1] \o seqs[i]]
  <2>1. \E g : Eq(g)
    <3>1. PICK h \in [1 .. n -> [Seq(V) -> Seq(V)]] :
            \A i \in 1 .. n, v \in Seq(V) : h[i][v] = IF i = 1 THEN seqs[i] ELSE v \o seqs[i]
      <4> DEFINE h == [i \in 1 .. n |-> [v \in Seq(V) |-> IF i = 1 THEN seqs[i] ELSE v \o seqs[i]]]
      <4>1. h \in [1 .. n -> [Seq(V) -> Seq(V)]]
        <5>1. \A i \in 1 .. n, v \in Seq(V) : v \o seqs[i] \in Seq(V)
          BY <1>2
        <5> QED BY <1>2, <5>1
      <4>2. \A i \in 1 .. n, v \in Seq(V) : h[i][v] = IF i = 1 THEN seqs[i] ELSE v \o seqs[i]
        OBVIOUS
      <4> HIDE DEF h
      <4> QED BY <4>1, <4>2
    <3>2. PICK g \in [0 .. n -> Seq(V)] : \A i \in 1 .. n : g[i] = h[i][g[i - 1]]
      <4>1. <<>> \in Seq(V)
        OBVIOUS
      <4>2. PICK g : Iterates(g, Seq(V), <<>>, n, h)
        BY <4>1, Recursion
      <4> QED BY <4>2 DEF Iterates
    <3> DEFINE k == [i \in 1 .. n |-> g[i]]
    <3>3. \A i \in 1 .. n : g[i] = IF i = 1 THEN seqs[i] ELSE g[i - 1] \o seqs[i]
      <4>1. \A i \in 1 .. n : g[i - 1] \in Seq(V)
        OBVIOUS
      <4> QED BY <3>1, <3>2, <4>1
    <3>4. k = [i \in 1 .. n |-> IF i = 1 THEN seqs[i] ELSE k[i - 1] \o seqs[i]]
      <4>1. \A i \in 1 .. n : i # 1 => k[i - 1] = g[i - 1]
        OBVIOUS
      <4> QED BY <3>3, <4>1
    <3> HIDE DEF Eq, k
    <3>5. Eq(k)
      BY <3>4 DEF Eq
    <3> QED BY <3>5
  <2>2. FlattenSeq(seqs) = (CHOOSE g : Eq(g))[n]
    BY <1>1, <1>6 DEF FlattenSeq
  <2>3. PICK f : Eq(f) /\ FlattenSeq(seqs) = f[n]
    <3> HIDE DEF Eq
    <3> QED BY <2>1, <2>2
  <2>4. f[1] = seqs[1] /\ \A i \in 2 .. n : f[i] = f[i - 1] \o seqs[i]
    <3>1. f = [i \in 1 .. n |-> IF i = 1 THEN seqs[i] ELSE f[i - 1] \o seqs[i]]
      BY <2>3
    <3>2. \A i \in 1 .. n : f[i] = IF i = 1 THEN seqs[i] ELSE f[i - 1] \o seqs[i]
      BY <3>1
    <3>3. 1 \in 1 .. n /\ \A i \in 2 .. n : i \in 1 .. n /\ i # 1
      BY <1>6
    <3> QED BY <3>2, <3>3
  <2> DEFINE P(k) == /\ f[k] \in Seq(V) /\ Len(f[k]) = s[k]
                     /\ \A i \in 1 .. k : \A m \in 1 .. lens[i] : f[k][s[i - 1] + m] = seqs[i][m]
             S == {j \in Nat : j + 1 <= n => P(j + 1)}
  <2> HIDE DEF Eq
  <2>5. 0 \in S
    <3>1. P(1)
      <4>1. f[1] \in Seq(V) /\ s[1] = lens[1] /\ lens[1] = Len(f[1])
        <5>1. 1 \in 1 .. n /\ 1 - 1 = 0
          BY <1>6
        <5>2. seqs[1] \in Seq(V) /\ lens[1] = Len(seqs[1]) /\ lens[1] \in Nat
          BY <1>2, <5>1
        <5>3. s[1] = s[0] + lens[1]
          BY <1>3, <5>1
        <5> QED BY <1>3, <2>4, <5>2, <5>3
      <4>2. ASSUME NEW i \in 1 .. 1, NEW m \in 1 .. lens[i] PROVE f[1][s[i - 1] + m] = seqs[i][m]
        <5>1. i = 1 /\ s[i - 1] = 0 /\ s[i - 1] + m = m
          BY <1>2, <1>3, <1>6
        <5> QED BY <2>4, <5>1
      <4> QED BY <4>1, <4>2
    <3>2. 0 + 1 = 1
      OBVIOUS
    <3> HIDE DEF P
    <3> QED BY <3>1, <3>2
  <2>6. ASSUME NEW j \in Nat, j \in S PROVE j + 1 \in S
    <3>1. SUFFICES ASSUME (j + 1) + 1 <= n PROVE P((j + 1) + 1)
      OBVIOUS
    <3>2. PICK k \in 2 .. n : k = (j + 1) + 1 /\ k - 1 = j + 1 /\ k - 1 \in 1 .. n
      BY <3>1
    <3>3. P(k - 1)
      <4> HIDE DEF P
      <4> QED BY <2>6, <3>1, <3>2
    <3>4. PICK a \in Seq(V), b \in Seq(V) : a = f[k - 1] /\ b = seqs[k] /\ f[k] = a \o b
      <4>1. f[k - 1] \in Seq(V) /\ seqs[k] \in Seq(V)
        BY <1>2, <3>2, <3>3
      <4> QED BY <2>4, <4>1
    <3>5. Len(a) = s[k - 1] /\ Len(b) = lens[k] /\ s[k] = Len(a) + Len(b) /\ s[k - 1] \in Nat
        <4>1. Len(a) = s[k - 1]
        BY <3>3, <3>4
      <4>2. k \in 1 .. n /\ k - 1 \in 0 .. n
        BY <3>2
      <4>3. Len(b) = lens[k]
        BY <1>2, <3>4, <4>2
      <4>4. s[k] = s[k - 1] + lens[k] /\ s[k - 1] \in Nat
        BY <1>3, <4>2
      <4> QED BY <4>1, <4>3, <4>4
    <3>6. f[k] \in Seq(V) /\ Len(f[k]) = s[k]
      <4>1. a \o b \in Seq(V) /\ Len(a \o b) = Len(a) + Len(b)
        OBVIOUS
      <4> QED BY <3>4, <3>5, <4>1
    <3>7. ASSUME NEW i \in 1 .. k, NEW m \in 1 .. lens[i] PROVE f[k][s[i - 1] + m] = seqs[i][m]
      <4>1. CASE i = k
        <5>1. s[i - 1] + m = Len(a) + m /\ m \in 1 .. Len(b) /\ m \in Nat
          BY <1>2, <3>2, <3>5, <4>1
        <5>2. (a \o b)[Len(a) + m] = b[m]
          BY <5>1, SecondPart
        <5> QED BY <3>4, <4>1, <5>1, <5>2
      <4>2. CASE i # k
        <5>1. i \in 1 .. k - 1 /\ i \in 1 .. n /\ i \in 0 .. n /\ k - 1 \in 0 .. n /\ i <= k - 1
          BY <3>2, <4>2
        <5>2. a[s[i - 1] + m] = seqs[i][m]
          BY <3>3, <3>4, <5>1
        <5>3. s[i] <= s[k - 1]
          BY <1>1, <5>1, SumsGrow
        <5>4. s[i] = s[i - 1] + lens[i] /\ s[i - 1] \in Nat /\ lens[i] \in Nat
          BY <1>2, <1>3, <5>1
        <5>5. s[i - 1] + m \in 1 .. Len(a)
          <6>1. \A u, v, t, w \in Nat : t = u + v /\ t <= w => \A q \in 1 .. v : u + q \in 1 .. w
            OBVIOUS
          <6>2. s[i] \in Nat /\ s[k - 1] \in Nat
            BY <1>3, <5>1
          <6>3. s[i - 1] + m \in 1 .. s[k - 1]
            BY <5>3, <5>4, <6>1, <6>2
          <6> QED BY <3>5, <6>3
        <5>6. (a \o b)[s[i - 1] + m] = a[s[i - 1] + m]
          BY <5>5
        <5> QED BY <3>4, <5>2, <5>6
      <4> QED BY <4>1, <4>2
    <3> QED BY <3>2, <3>6, <3>7
  <2>7. P(n)
    <3> HIDE DEF S
    <3>1. n - 1 \in S /\ (n - 1) + 1 = n
      <4>1. n - 1 \in Nat /\ (n - 1) + 1 = n
        BY <1>6
      <4>2. Nat \subseteq S
        BY <2>5, <2>6, SetInduction
      <4> QED BY <4>1, <4>2
    <3> HIDE DEF P
    <3> QED BY <3>1 DEF S
  <2> QED BY <1>1, <1>4, <2>3, <2>7
<1> QED BY <1>5, <1>6

-----------------------------------------------------------------------------
(* Quotients and multiples. *)

(* A function on 1 .. n is a sequence. *)
LEMMA ListIs ==
  ASSUME NEW V, NEW n \in Nat, NEW f \in [1 .. n -> V]
  PROVE  f \in Seq(V) /\ Len(f) = n /\ DOMAIN f = 1 .. n
OBVIOUS

(* The quotient of two numbers. *)
LEMMA Division ==
  ASSUME NEW m \in Nat, NEW p \in Nat \ {0}
  PROVE  m \div p \in Nat /\ p * (m \div p) <= m /\ m < p * (m \div p) + p
<1>1. m \div p \in Int /\ m \div p >= 0
  OBVIOUS
<1> DEFINE q == m \div p
<1>2. p * q <= m /\ m < p * q + p
  BY <1>1
<1> QED BY <1>1, <1>2

(* Multiples of p keep the order of what they are multiples of. *)
LEMMA Multiples ==
  ASSUME NEW p \in Nat \ {0}, NEW a \in Nat, NEW b \in Nat
  PROVE  /\ a <= b => p * a <= p * b
         /\ p * a < p * b + p => a <= b
<1>1. \A n \in Nat : p * (a + n) >= p * a /\ p * (b + n) >= p * b
  OBVIOUS
<1>2. ASSUME a <= b PROVE p * a <= p * b
  <2>1. b - a \in Nat /\ a + (b - a) = b
    BY <1>2
  <2> QED BY <1>1, <2>1
<1>3. ASSUME ~(a <= b) PROVE p * a >= p * b + p
  <2>1. a - (b + 1) \in Nat /\ (b + 1) + (a - (b + 1)) = a
    BY <1>3
  <2>2. p * (b + 1) = p * b + p
    OBVIOUS
  <2>3. p * a = p * (b + 1) + p * (a - (b + 1))
    BY <2>1
  <2> QED BY <2>1, <2>2, <2>3
<1>4. p * a \in Nat /\ p * b \in Nat
  OBVIOUS
<1> QED BY <1>2, <1>3, <1>4

(* Quotient and remainder, and that there is one pair of them. *)
LEMMA Remainder ==
  ASSUME NEW p \in Nat \ {0}, NEW a \in Nat
  PROVE  /\ a \div p \in Nat /\ a % p \in Nat /\ a % p < p /\ a = p * (a \div p) + (a % p)
         /\ \A k, m \in Nat : m < p /\ a = p * k + m => a \div p = k /\ a % p = m
<1>1. a \div p \in Nat /\ a % p \in Nat /\ a % p < p /\ a = p * (a \div p) + (a % p)
  OBVIOUS
<1>2. PICK j \in Nat, r \in Nat : j = a \div p /\ r = a % p /\ r < p /\ a = p * j + r
  BY <1>1
<1>3. ASSUME NEW k \in Nat, NEW m \in Nat, m < p, a = p * k + m PROVE j = k /\ r = m
  <2>1. p * j < p * k + p /\ p * k < p * j + p
    BY <1>2, <1>3
  <2>2. j <= k /\ k <= j
    BY <2>1, Multiples
  <2> QED BY <1>2, <1>3, <2>2
<1> QED BY <1>1, <1>2, <1>3

(* What leaves no remainder is a multiple. *)
LEMMA MultipleOf ==
  ASSUME NEW p \in Nat \ {0}, NEW a \in Nat, a % p = 0
  PROVE  \E x \in Nat : a = p * x
<1>1. a \div p \in Nat /\ a = p * (a \div p) + (a % p)
  BY Remainder
<1>2. PICK x \in Nat : x = a \div p /\ a = p * x + 0
  BY <1>1, Zenon
<1>3. p * x + 0 = p * x
  OBVIOUS
<1> QED BY <1>2, <1>3

(* The running sums of equal numbers are multiples. *)
LEMMA EvenSums ==
  ASSUME NEW l \in Seq(Nat), NEW c \in Nat, \A i \in 1 .. Len(l) : l[i] = c
  PROVE  \A i \in 0 .. Len(l) : Sums(l)[i] = c * i
<1>0. PICK n \in Nat : n = Len(l)
  OBVIOUS
<1>1. PICK f : n = Len(l) /\ f = Sums(l)
  BY <1>0
<1>2. /\ f[0] = 0 /\ \A i \in 1 .. n : f[i] = f[i - 1] + c
  <2>1. /\ Sums(l)[0] = 0
        /\ \A i \in 1 .. Len(l) : Sums(l)[i] = Sums(l)[i - 1] + l[i]
    BY SumsAre
  <2> QED BY <1>1, <2>1
<1> DEFINE S == {i \in Nat : i <= n => f[i] = c * i}
<1>3. 0 \in S
  BY <1>2
<1>4. ASSUME NEW i \in Nat, i \in S PROVE i + 1 \in S
  <2>1. SUFFICES ASSUME i + 1 <= n PROVE f[i + 1] = c * (i + 1)
    OBVIOUS
  <2>2. f[i] = c * i /\ i + 1 \in 1 .. n /\ (i + 1) - 1 = i
    BY <1>4, <2>1
  <2>3. c * (i + 1) = c * i + c
    OBVIOUS
  <2> QED BY <1>2, <2>2, <2>3
<1>5. Nat \subseteq S
  <2> HIDE DEF S
  <2> QED BY <1>3, <1>4, SetInduction
<1> QED BY <1>1, <1>5

-----------------------------------------------------------------------------
(* Waves in the memory of an AWG (WaveStore). *)

(* The sizes of the waves that a call registers, and those that count for  *)
(* an offset.                                                              *)
Sizes(l) == [i \in DOMAIN l |-> Size(l[i].wave)]
Counted(l) == [j \in DOMAIN l |-> IF l[j].key = Direct THEN 0 ELSE Size(l[j].wave)]

(* The samples of a chunk, as a call transfers them. *)
Block(l, i, n) ==
  [kind |-> "samples", wave |-> l[i].wave, no |-> n,
   chunk |-> ChunkParams(l[i].wave, Offset(l, i))[n]]

(* The transfers there are, when samples stay in the area. *)
Regions == {r \in [addr : Nat, size : Nat] : r.addr + r.size <= AreaSize}

ParamTransfers == [kind : {"param"}, key : Slots, reg : WaveRegisters, value : Nat]
SampleTransfers == [kind : {"samples"}, wave : Waves, no : Nat, chunk : Regions]
AllTransfers == ParamTransfers \cup SampleTransfers

(* The sizes of a wave's chunks, and the wave's size. *)
LEMMA ChunksAre ==
  ASSUME NEW w \in Waves
  PROVE  /\ Chunks[w] \in Seq(Nat) /\ DOMAIN Chunks[w] = 1 .. Len(Chunks[w])
         /\ \A n \in 1 .. Len(Chunks[w]) : Chunks[w][n] \in Nat
         /\ Size(w) \in Nat /\ Size(w) = Sums(Chunks[w])[Len(Chunks[w])]
<1>1. Chunks[w] \in Seq(Nat \ {0})
  BY WaveStoreAssumption
<1>2. PICK s : s = Chunks[w]
  OBVIOUS
<1>3. s \in Seq(Nat)
  BY <1>1, <1>2
<1>4. /\ DOMAIN s = 1 .. Len(s)
      /\ \A n \in 1 .. Len(s) : s[n] \in Nat
  BY <1>3
<1>5. SumAll(s) \in Nat /\ SumAll(s) = Sums(s)[Len(s)]
  BY <1>3, SumIs
<1> QED BY <1>2, <1>3, <1>4, <1>5 DEF Size

(* What a call is given: a wave for each of some slots. *)
LEMMA MapsAre ==
  ASSUME NEW l \in Maps
  PROVE  /\ l \in Seq(Entries) /\ DOMAIN l = 1 .. Len(l) /\ Len(l) \in Nat
         /\ \A i \in 1 .. Len(l) : l[i].key \in Slots /\ l[i].wave \in Waves
         /\ \A i, j \in 1 .. Len(l) : l[i].key = l[j].key => i = j
         /\ Sizes(l) \in Seq(Nat) /\ Len(Sizes(l)) = Len(l)
         /\ \A i \in 1 .. Len(l) : Sizes(l)[i] = Size(l[i].wave) /\ Size(l[i].wave) \in Nat
         /\ Counted(l) \in Seq(Nat) /\ Len(Counted(l)) = Len(l)
         /\ \A i \in 1 .. Len(l) :
              Counted(l)[i] = IF l[i].key = Direct THEN 0 ELSE Size(l[i].wave)
<1>1. l \in Seq(Entries) /\ DOMAIN l = 1 .. Len(l) /\ Len(l) \in Nat
  BY WaveStoreAssumption
<1>2. PICK n \in Nat : n = Len(l) /\ DOMAIN l = 1 .. n
  BY <1>1, Zenon
<1>3. \A i \in 1 .. n : l[i].key \in Slots /\ l[i].wave \in Waves
  <2>1. \A i \in 1 .. n : l[i] \in Entries
    BY <1>1, <1>2
  <2> QED BY <2>1 DEF Entries
<1>4. \A i, j \in 1 .. n : l[i].key = l[j].key => i = j
  BY <1>2, WaveStoreAssumption
<1>5. \A i \in 1 .. n : Size(l[i].wave) \in Nat
  BY <1>3, ChunksAre
<1>6. Sizes(l) \in [1 .. n -> Nat] /\ \A i \in 1 .. n : Sizes(l)[i] = Size(l[i].wave)
  BY <1>2, <1>5 DEF Sizes
<1>7. /\ Counted(l) \in [1 .. n -> Nat]
      /\ \A i \in 1 .. n : Counted(l)[i] = IF l[i].key = Direct THEN 0 ELSE Size(l[i].wave)
  BY <1>2, <1>5 DEF Counted
<1>8. \A f \in [1 .. n -> Nat] : f \in Seq(Nat) /\ Len(f) = n
  OBVIOUS
<1> QED BY <1>1, <1>2, <1>3, <1>4, <1>5, <1>6, <1>7, <1>8

(* A wave begins where the waves before it end. *)
LEMMA OffsetIs ==
  ASSUME NEW l \in Maps, NEW i \in 1 .. Len(l)
  PROVE  /\ Offset(l, i) = IF l[i].key = Direct THEN 0 ELSE Sums(Counted(l))[i - 1]
         /\ Offset(l, i) \in Nat
<1>1. Offset(l, i) = IF l[i].key = Direct THEN 0 ELSE Sums(Counted(l))[i - 1]
  BY DEF Offset, Counted
<1>2. PICK k \in Seq(Nat) : k = Counted(l) /\ Len(k) = Len(l)
  BY MapsAre
<1>3. i - 1 \in 0 .. Len(k)
  BY <1>2, MapsAre
<1>4. Sums(k)[i - 1] \in Nat
  BY <1>3, SumIs
<1> QED BY <1>1, <1>2, <1>4

(* A wave of a call that fits ends in the area. *)
LEMMA WaveInArea ==
  ASSUME NEW l \in Maps, Fits(l), NEW i \in 1 .. Len(l)
  PROVE  Offset(l, i) + Size(l[i].wave) <= AreaSize
<1>1. PICK n \in Nat, k \in Seq(Nat), s \in Seq(Nat) :
        n = Len(l) /\ k = Counted(l) /\ s = Sizes(l) /\ Len(k) = n /\ Len(s) = n
  BY MapsAre
<1>2. /\ \A j \in 1 .. n : s[j] = Size(l[j].wave) /\ s[j] \in Nat
      /\ \A j \in 1 .. n : k[j] = IF l[j].key = Direct THEN 0 ELSE Size(l[j].wave)
  BY <1>1, MapsAre, SMTT(30)
<1>3. SumAll(s) <= AreaSize /\ AreaSize \in Nat /\ SumAll(s) \in Nat
  <2>1. SumAll(Sizes(l)) <= AreaSize
    BY DEF Fits, Sizes
  <2>2. SumAll(s) \in Nat
    BY SumIs
  <2> QED BY <1>1, <2>1, <2>2, WaveStoreAssumption
<1>4. i \in 1 .. n /\ i \in 0 .. n /\ i - 1 \in 0 .. n
  BY <1>1
<1>5. CASE l[i].key = Direct
  <2>1. Offset(l, i) = 0
    BY <1>5, OffsetIs
  <2>2. s[i] <= SumAll(s)
    BY <1>1, <1>4, SumIs
  <2> QED BY <1>2, <1>3, <1>4, <2>1, <2>2
<1>6. CASE l[i].key # Direct
  <2>1. Offset(l, i) = Sums(k)[i - 1] /\ k[i] = Size(l[i].wave)
    BY <1>1, <1>2, <1>4, <1>6, OffsetIs
  <2>2. Sums(k)[i] = Sums(k)[i - 1] + k[i]
    BY <1>1, <1>4, SumsAre
  <2>3. Sums(k)[i] <= Sums(s)[i]
    <3>1. \A j \in 1 .. Len(k) : k[j] <= s[j]
      <4>1. \A j \in 1 .. n : s[j] \in Nat /\ (k[j] = 0 \/ k[j] = s[j])
        BY <1>2
      <4> QED BY <1>1, <4>1, SMTT(30)
    <3> QED BY <1>1, <1>4, <3>1, SumsOrdered
  <2>4. Sums(s)[i] <= SumAll(s) /\ Sums(s)[i] \in Nat
    BY <1>1, <1>4, SumIs
  <2>5. Sums(k)[i] \in Nat
    BY <1>1, <1>4, SumIs
  <2> QED BY <1>3, <2>1, <2>2, <2>3, <2>4, <2>5
<1> QED BY <1>5, <1>6

(* Where the chunks of a wave are, and how long they are. *)
LEMMA ChunkParamsAre ==
  ASSUME NEW w \in Waves, NEW offset \in Nat
  PROVE  /\ ChunkParams(w, offset) \in Seq([addr : Nat, size : Nat])
         /\ Len(ChunkParams(w, offset)) = Len(Chunks[w])
         /\ DOMAIN ChunkParams(w, offset) = 1 .. Len(Chunks[w])
         /\ \A n \in 1 .. Len(Chunks[w]) :
              /\ ChunkParams(w, offset)[n].addr = offset + Sums(Chunks[w])[n - 1]
              /\ ChunkParams(w, offset)[n].size = Chunks[w][n]
              /\ Sums(Chunks[w])[n - 1] \in Nat /\ Chunks[w][n] \in Nat
              /\ Sums(Chunks[w])[n - 1] + Chunks[w][n] <= Size(w)
<1>1. PICK s \in Seq(Nat), n \in Nat : s = Chunks[w] /\ n = Len(s) /\ DOMAIN s = 1 .. n
  BY ChunksAre
<1>2. ASSUME NEW i \in 1 .. n
      PROVE  Sums(s)[i - 1] \in Nat /\ s[i] \in Nat /\ Sums(s)[i - 1] + s[i] <= SumAll(s)
  <2>1. i \in 0 .. Len(s) /\ i - 1 \in 0 .. Len(s) /\ i \in 1 .. Len(s)
    BY <1>1
  <2>2. Sums(s)[i - 1] \in Nat /\ Sums(s)[i] <= SumAll(s)
    BY <2>1, SumIs
  <2>3. Sums(s)[i] = Sums(s)[i - 1] + s[i]
    BY <2>1, SumsAre
  <2>4. s[i] \in Nat
    BY <2>1
  <2> QED BY <2>2, <2>3, <2>4
<1>3. PICK p : p = ChunkParams(w, offset)
  OBVIOUS
<1>4. p = [i \in 1 .. n |-> [addr |-> offset + Sums(s)[i - 1], size |-> s[i]]]
  BY <1>1, <1>3 DEF ChunkParams
<1>5. p \in [1 .. n -> [addr : Nat, size : Nat]]
  <2>1. ASSUME NEW i \in 1 .. n PROVE offset + Sums(s)[i - 1] \in Nat /\ s[i] \in Nat
    <3>1. Sums(s)[i - 1] \in Nat /\ s[i] \in Nat
      BY <1>2
    <3> QED BY <3>1
  <2>2. \A i \in 1 .. n : [addr |-> offset + Sums(s)[i - 1], size |-> s[i]] \in [addr : Nat, size : Nat]
    BY <2>1
  <2> QED BY <1>4, <2>2
<1>6. p \in Seq([addr : Nat, size : Nat]) /\ Len(p) = n /\ DOMAIN p = 1 .. n
  BY <1>5, ListIs
<1>7. \A i \in 1 .. n : p[i].addr = offset + Sums(s)[i - 1] /\ p[i].size = s[i]
  BY <1>4
<1>8. Size(w) = SumAll(s)
  BY <1>1 DEF Size
<1> QED BY <1>1, <1>2, <1>3, <1>6, <1>7, <1>8

(* What a call writes to the registers of a slot, and all that it          *)
(* transfers.                                                              *)
ParamsOf(key, chunks) ==
  {Write(key, NumChunks, Len(chunks))}
  \cup {Write(key, StartAddr(n), chunks[n].addr) : n \in DOMAIN chunks}
  \cup {Write(key, PartWords(n), chunks[n].size) : n \in DOMAIN chunks}

Params(l, i) == ParamsOf(l[i].key, ChunkParams(l[i].wave, Offset(l, i)))

BlocksOf(l, i) == {Block(l, i, n) : n \in DOMAIN Chunks[l[i].wave]}

CallTransfers(l) == UNION {Params(l, i) \cup BlocksOf(l, i) : i \in DOMAIN l}

(* What is in two sequences, one after the other. *)
LEMMA ConcatRange ==
  ASSUME NEW V, NEW a \in Seq(V), NEW b \in Seq(V)
  PROVE  a \o b \in Seq(V) /\ Range(a \o b) = Range(a) \cup Range(b)
<1>1. PICK m \in Nat, n \in Nat : m = Len(a) /\ n = Len(b)
  OBVIOUS
<1>2. DOMAIN a = 1 .. m /\ DOMAIN b = 1 .. n
  BY <1>1
<1>3. PICK c : c = a \o b
  OBVIOUS
<1>4. /\ c \in Seq(V) /\ DOMAIN c = 1 .. m + n
      /\ \A i \in 1 .. m : c[i] = a[i]
      /\ \A i \in 1 .. n : c[m + i] = b[i]
  <2>1. c \in Seq(V) /\ Len(c) = m + n
    BY <1>1, <1>3
  <2>2. \A k \in 1 .. m + n : c[k] = IF k <= m THEN a[k] ELSE b[k - m]
    BY <1>1, <1>3, ConcatProperties, Zenon
  <2>3. ASSUME NEW i \in 1 .. n PROVE c[m + i] = b[i]
    <3>1. m + i \in 1 .. m + n /\ ~(m + i <= m) /\ (m + i) - m = i
      OBVIOUS
    <3> QED BY <2>2, <3>1
  <2>4. ASSUME NEW i \in 1 .. m PROVE c[i] = a[i]
    <3>1. i \in 1 .. m + n /\ i <= m
      OBVIOUS
    <3> QED BY <2>2, <3>1
  <2> QED BY <2>1, <2>3, <2>4
<1>5. ASSUME NEW x \in Range(c) PROVE x \in Range(a) \cup Range(b)
  <2>1. PICK k \in 1 .. m + n : x = c[k]
    BY <1>4 DEF Range
  <2>2. CASE k <= m
    <3>1. k \in 1 .. m
      BY <2>2
    <3> QED BY <1>2, <1>4, <2>1, <3>1 DEF Range
  <2>3. CASE ~(k <= m)
    <3>1. k - m \in 1 .. n /\ m + (k - m) = k
      BY <2>3
    <3>2. x = b[k - m]
      BY <1>4, <2>1, <3>1
    <3> QED BY <1>2, <3>1, <3>2 DEF Range
  <2> QED BY <2>2, <2>3
<1>6. Range(a) \subseteq Range(c)
  <2>1. \A i \in 1 .. m : i \in 1 .. m + n
    OBVIOUS
  <2> QED BY <1>2, <1>4, <2>1 DEF Range
<1>7. Range(b) \subseteq Range(c)
  <2>1. \A i \in 1 .. n : m + i \in 1 .. m + n
    OBVIOUS
  <2> QED BY <1>2, <1>4, <2>1 DEF Range
<1> QED BY <1>3, <1>4, <1>5, <1>6, <1>7

(* What is in sequences that are put one after the other. *)
LEMMA FlattenRange ==
  ASSUME NEW V, NEW seqs \in Seq(Seq(V))
  PROVE  /\ FlattenSeq(seqs) \in Seq(V)
         /\ Range(FlattenSeq(seqs)) = UNION {Range(seqs[i]) : i \in DOMAIN seqs}
<1>1. PICK len \in Nat : len = Len(seqs) /\ DOMAIN seqs = 1 .. len
  OBVIOUS
<1>2. \A i \in 1 .. len : seqs[i] \in Seq(V)
  BY <1>1
<1> DEFINE lens == [i \in 1 .. len |-> Len(seqs[i])]
<1>3. \A i \in 1 .. len : lens[i] = Len(seqs[i])
  OBVIOUS
<1>4. lens \in Seq(Nat) /\ Len(lens) = len
  <2>1. \A i \in 1 .. len : Len(seqs[i]) \in Nat
    BY <1>2
  <2>2. lens \in [1 .. len -> Nat]
    BY <2>1
  <2> HIDE DEF lens
  <2> QED BY <2>2, ListIs
<1> HIDE DEF lens
<1>5. PICK T : T = FlattenSeq(seqs)
  OBVIOUS
<1>6. /\ T \in Seq(V) /\ Len(T) = SumAll(lens)
      /\ \A i \in 1 .. len : \A m \in 1 .. lens[i] : T[Sums(lens)[i - 1] + m] = seqs[i][m]
  <2>1. Len(lens) = Len(seqs) /\ \A i \in 1 .. Len(seqs) : lens[i] = Len(seqs[i])
    BY <1>1, <1>3, <1>4
  <2>2. /\ FlattenSeq(seqs) \in Seq(V) /\ Len(FlattenSeq(seqs)) = SumAll(lens)
        /\ \A i \in 1 .. Len(seqs) : \A m \in 1 .. lens[i] :
             FlattenSeq(seqs)[Sums(lens)[i - 1] + m] = seqs[i][m]
    BY <1>4, <2>1, FlattenAre, ZenonT(60)
  <2> QED BY <1>1, <1>5, <2>2
<1>7. DOMAIN T = 1 .. SumAll(lens) /\ \A i \in 1 .. len : DOMAIN seqs[i] = 1 .. lens[i]
  <2>1. DOMAIN T = 1 .. Len(T)
    BY <1>6
  <2>2. \A i \in 1 .. len : DOMAIN seqs[i] = 1 .. Len(seqs[i])
    BY <1>2
  <2> QED BY <1>3, <1>6, <2>1, <2>2
<1>8. ASSUME NEW i \in 1 .. len, NEW m \in 1 .. lens[i]
      PROVE  seqs[i][m] \in Range(T)
  <2>1. i \in 0 .. Len(lens) /\ i - 1 \in 0 .. Len(lens) /\ i \in 1 .. Len(lens)
    BY <1>4
  <2>2. PICK a \in Nat, b \in Nat, z \in Nat : a = Sums(lens)[i - 1] /\ b = Sums(lens)[i] /\ z = lens[i]
    <3>1. lens[i] \in Nat
      BY <1>4, <2>1
    <3>2. Sums(lens)[i - 1] \in Nat /\ Sums(lens)[i] \in Nat
      BY <1>4, <2>1, SumIs
    <3> QED BY <3>1, <3>2
  <2>3. b <= SumAll(lens) /\ SumAll(lens) \in Nat
    BY <1>4, <2>1, <2>2, SumIs
  <2>4. b = a + z
    BY <1>4, <2>1, <2>2, SumsAre
  <2>5. a + m \in 1 .. SumAll(lens)
    BY <2>2, <2>3, <2>4
  <2>6. T[a + m] = seqs[i][m]
    BY <1>6, <2>2
  <2> QED BY <1>7, <2>5, <2>6 DEF Range
<1>9. ASSUME NEW t \in Range(T) PROVE \E i \in 1 .. len : t \in Range(seqs[i])
  <2>1. PICK j \in 1 .. SumAll(lens) : t = T[j]
    BY <1>7 DEF Range
  <2>2. PICK i \in 1 .. Len(lens) : \E m \in 1 .. lens[i] : j = Sums(lens)[i - 1] + m
    BY <1>4, FindPart
  <2>3. PICK m \in 1 .. lens[i] : j = Sums(lens)[i - 1] + m
    BY <2>2
  <2>4. i \in 1 .. len /\ t = seqs[i][m]
    BY <1>4, <1>6, <2>1, <2>3
  <2> QED BY <1>7, <2>4 DEF Range
<1>10. UNION {Range(seqs[i]) : i \in 1 .. len} \subseteq Range(T)
  <2>1. ASSUME NEW i \in 1 .. len, NEW x \in Range(seqs[i]) PROVE x \in Range(T)
    <3>1. PICK m \in 1 .. lens[i] : x = seqs[i][m]
      BY <1>7 DEF Range
    <3> QED BY <1>8, <3>1
  <2> QED BY <2>1
<1> QED BY <1>1, <1>5, <1>6, <1>9, <1>10

(* The chunks of a call that fits are in the area. *)
LEMMA RegionsInArea ==
  ASSUME NEW l \in Maps, Fits(l), NEW i \in 1 .. Len(l)
  PROVE  /\ ChunkParams(l[i].wave, Offset(l, i)) \in Seq(Regions)
         /\ Len(ChunkParams(l[i].wave, Offset(l, i))) = Len(Chunks[l[i].wave])
         /\ DOMAIN ChunkParams(l[i].wave, Offset(l, i)) = 1 .. Len(Chunks[l[i].wave])
         /\ Len(Chunks[l[i].wave]) \in Nat
         /\ DOMAIN Chunks[l[i].wave] = 1 .. Len(Chunks[l[i].wave])
<1>1. PICK w \in Waves : w = l[i].wave
  BY MapsAre
<1>2. PICK o \in Nat : o = Offset(l, i)
  BY OffsetIs
<1>3. PICK p, n : p = ChunkParams(w, o) /\ n = Len(Chunks[w])
  OBVIOUS
<1>4. p \in Seq([addr : Nat, size : Nat]) /\ Len(p) = n /\ DOMAIN p = 1 .. n
  BY <1>3, ChunkParamsAre
<1>5. n \in Nat /\ DOMAIN Chunks[w] = 1 .. n
  BY <1>3, ChunksAre
<1>6. ASSUME NEW m \in 1 .. n PROVE p[m] \in Regions
  <2>1. p[m] \in [addr : Nat, size : Nat]
    <3>1. m \in 1 .. Len(p)
      BY <1>4
    <3> QED BY <1>4, <3>1, ElementOfSeq
  <2>2. PICK a \in Nat, z \in Nat : a = Sums(Chunks[w])[m - 1] /\ z = Chunks[w][m] /\ a + z <= Size(w)
    BY <1>3, ChunkParamsAre, ZenonT(60)
  <2>3. p[m].addr = o + a /\ p[m].size = z
    BY <1>3, <2>2, ChunkParamsAre
  <2>4. PICK x \in Nat : x = Size(w)
    BY ChunksAre
  <2>5. o + x <= AreaSize /\ AreaSize \in Nat
    BY <1>1, <1>2, <2>4, WaveInArea, WaveStoreAssumption
  <2>6. p[m].addr + p[m].size <= AreaSize
    <3>1. a + z <= x
      BY <2>2, <2>4
    <3>2. (o + a) + z <= AreaSize
      BY <2>5, <3>1
    <3> QED BY <2>3, <3>2
  <2> QED BY <2>1, <2>6 DEF Regions
<1>7. p \in [1 .. n -> Regions]
  <2>1. p \in [1 .. n -> [addr : Nat, size : Nat]]
    BY <1>4, LenProperties
  <2>2. \A R : p \in [1 .. n -> R] => p = [m \in 1 .. n |-> p[m]]
    OBVIOUS
  <2>3. p = [m \in 1 .. n |-> p[m]]
    BY <2>1, <2>2
  <2> QED BY <1>6, <2>3
<1>8. p \in Seq(Regions)
  BY <1>5, <1>7, ListIs
<1> QED BY <1>1, <1>2, <1>3, <1>4, <1>5, <1>8

(* What is written for a slot is for registers that it has. *)
LEMMA ParamsAre ==
  ASSUME NEW w \in Waves, NEW key \in Slots, NEW o \in Nat, NEW p, p = ChunkParams(w, o)
  PROVE  /\ ParamWrites(key, p) \in Seq(ParamTransfers)
         /\ Range(ParamWrites(key, p)) = ParamsOf(key, p)
<1>1. PICK m : m = Len(Chunks[w])
  OBVIOUS
<1>2. /\ p \in Seq([addr : Nat, size : Nat]) /\ Len(p) = m /\ DOMAIN p = 1 .. m /\ m \in Nat
      /\ DOMAIN Chunks[w] = 1 .. m
  BY <1>1, ChunkParamsAre, ChunksAre
<1>3. \A n \in 1 .. m : p[n].addr \in Nat /\ p[n].size \in Nat
  <2>1. ASSUME NEW n \in 1 .. m PROVE p[n] \in [addr : Nat, size : Nat]
    <3>1. n \in 1 .. Len(p)
      BY <1>2
    <3> QED BY <1>2, <3>1, ElementOfSeq
  <2> QED BY <2>1
<1>4. /\ NumChunks \in WaveRegisters
      /\ \A n \in 1 .. m : StartAddr(n) \in WaveRegisters /\ PartWords(n) \in WaveRegisters
  <2>1. \A n \in 1 .. m : n \in ChunkNos
    BY <1>2 DEF ChunkNos
  <2> QED BY <2>1 DEF WaveRegisters
<1>5. \A reg \in WaveRegisters, v \in Nat : Write(key, reg, v) \in ParamTransfers
  BY DEF Write, ParamTransfers
<1> DEFINE Two(n) == <<Write(key, StartAddr(n), p[n].addr), Write(key, PartWords(n), p[n].size)>>
           seqs == [n \in 1 .. m |-> Two(n)]
<1>6. \A x, y \in ParamTransfers : <<x, y>> \in Seq(ParamTransfers) /\ Range(<<x, y>>) = {x, y}
  <2>1. ASSUME NEW x, NEW y PROVE Range(<<x, y>>) = {x, y}
    <3>1. DOMAIN <<x, y>> = {1, 2} /\ <<x, y>>[1] = x /\ <<x, y>>[2] = y
      OBVIOUS
    <3> QED BY <3>1 DEF Range
  <2> QED BY <2>1
<1>7. ASSUME NEW n \in 1 .. m
      PROVE  /\ Two(n) \in Seq(ParamTransfers)
             /\ Range(Two(n)) = {Write(key, StartAddr(n), p[n].addr), Write(key, PartWords(n), p[n].size)}
  <2>1. Write(key, StartAddr(n), p[n].addr) \in ParamTransfers /\ Write(key, PartWords(n), p[n].size) \in ParamTransfers
    BY <1>3, <1>4, <1>5
  <2> QED BY <1>6, <2>1
<1>8. seqs \in Seq(Seq(ParamTransfers)) /\ DOMAIN seqs = 1 .. m /\ \A n \in 1 .. m : seqs[n] = Two(n)
  <2>1. seqs \in [1 .. m -> Seq(ParamTransfers)] /\ \A n \in 1 .. m : seqs[n] = Two(n)
    BY <1>7
  <2> HIDE DEF seqs
  <2> QED BY <1>2, <2>1, ListIs
<1>9. PICK x : x = Write(key, NumChunks, m)
  OBVIOUS
<1>10. <<x>> \in Seq(ParamTransfers) /\ Range(<<x>>) = {x}
  <2>1. x \in ParamTransfers
    BY <1>2, <1>4, <1>5, <1>9
  <2>2. DOMAIN <<x>> = {1} /\ <<x>>[1] = x
    OBVIOUS
  <2> QED BY <2>1, <2>2 DEF Range
<1>11. ParamWrites(key, p) = <<x>> \o FlattenSeq(seqs)
  BY <1>2, <1>9 DEF ParamWrites
<1> HIDE DEF seqs
<1>12. /\ FlattenSeq(seqs) \in Seq(ParamTransfers)
       /\ Range(FlattenSeq(seqs)) = UNION {Range(seqs[n]) : n \in 1 .. m}
  BY <1>8, FlattenRange
<1>13. UNION {Range(seqs[n]) : n \in 1 .. m} =
          {Write(key, StartAddr(n), p[n].addr) : n \in 1 .. m}
          \cup {Write(key, PartWords(n), p[n].size) : n \in 1 .. m}
  <2> HIDE DEF Two
  <2>1. \A n \in 1 .. m : Range(seqs[n]) = {Write(key, StartAddr(n), p[n].addr), Write(key, PartWords(n), p[n].size)}
    BY <1>7, <1>8
  <2> QED BY <2>1
<1>14. PICK T : T = FlattenSeq(seqs)
  OBVIOUS
<1>15. <<x>> \o T \in Seq(ParamTransfers) /\ Range(<<x>> \o T) = {x} \cup Range(T)
  <2>1. T \in Seq(ParamTransfers)
    BY <1>12, <1>14
  <2>2. PICK y : y = <<x>>
    OBVIOUS
  <2>3. y \in Seq(ParamTransfers) /\ Range(y) = {x}
    BY <1>10, <2>2, Zenon
  <2>4. y \o T \in Seq(ParamTransfers) /\ Range(y \o T) = Range(y) \cup Range(T)
    BY <2>1, <2>3, ConcatRange
  <2> QED BY <2>2, <2>3, <2>4, Zenon
<1>16. Range(T) = {Write(key, StartAddr(n), p[n].addr) : n \in 1 .. m}
                  \cup {Write(key, PartWords(n), p[n].size) : n \in 1 .. m}
  BY <1>12, <1>13, <1>14, Zenon
<1>17. ParamsOf(key, p) = ({x} \cup {Write(key, StartAddr(n), p[n].addr) : n \in 1 .. m})
                          \cup {Write(key, PartWords(n), p[n].size) : n \in 1 .. m}
  <2>1. DOMAIN p = 1 .. m /\ x = Write(key, NumChunks, Len(p))
    BY <1>2, <1>9
  <2> QED BY <2>1, Zenon DEF ParamsOf
<1> HIDE DEF Two
<1>18. ParamWrites(key, p) = <<x>> \o T
  BY <1>11, <1>14, Zenon
<1>19. \A A, B, C : A \cup (B \cup C) = (A \cup B) \cup C
  OBVIOUS
<1>20. Range(<<x>> \o T) = ParamsOf(key, p)
  BY <1>15, <1>16, <1>17, <1>19, Zenon
<1> QED BY <1>15, <1>18, <1>20, Zenon

(* What a call transfers of one wave: its parameters, and its chunks. *)
LEMMA TransfersAre ==
  ASSUME NEW l \in Maps, Fits(l), NEW i \in 1 .. Len(l)
  PROVE  /\ Transfers(l, i) \in Seq(AllTransfers)
         /\ Range(Transfers(l, i)) = Params(l, i) \cup BlocksOf(l, i)
<1>1. PICK w \in Waves, key \in Slots, o \in Nat : w = l[i].wave /\ key = l[i].key /\ o = Offset(l, i)
  BY MapsAre, OffsetIs
<1>2. PICK p, m : p = ChunkParams(w, o) /\ m = Len(Chunks[w])
  OBVIOUS
<1>3. p \in Seq(Regions) /\ DOMAIN p = 1 .. m /\ m \in Nat /\ DOMAIN Chunks[w] = 1 .. m
  BY <1>1, <1>2, RegionsInArea
<1>4. PICK a : a = ParamWrites(key, p)
  OBVIOUS
<1>5. a \in Seq(ParamTransfers) /\ Range(a) = Params(l, i)
  BY <1>1, <1>2, <1>4, ParamsAre DEF Params
<1>6. a \in Seq(AllTransfers)
  BY <1>5 DEF AllTransfers
<1>7. PICK b : b = SampleWrites(w, p)
  OBVIOUS
<1>8. b = [n \in 1 .. m |-> Block(l, i, n)]
  BY <1>1, <1>2, <1>3, <1>7 DEF SampleWrites, Block
<1>9. \A n \in 1 .. m : Block(l, i, n) \in AllTransfers
  <2>1. \A n \in 1 .. m : p[n] \in Regions /\ n \in Nat
    BY <1>3
  <2> QED BY <1>1, <1>2, <2>1 DEF Block, AllTransfers, SampleTransfers
<1>10. b \in Seq(AllTransfers) /\ DOMAIN b = 1 .. m
  <2>1. b \in [1 .. m -> AllTransfers]
    BY <1>8, <1>9
  <2> QED BY <1>3, <2>1, ListIs
<1>11. Range(b) = BlocksOf(l, i)
  BY <1>1, <1>3, <1>8 DEF Range, BlocksOf
<1>12. Transfers(l, i) = a \o b
  BY <1>1, <1>2, <1>4, <1>7 DEF Transfers
<1>13. a \o b \in Seq(AllTransfers) /\ Range(a \o b) = Range(a) \cup Range(b)
  BY <1>6, <1>10, ConcatRange
<1> QED BY <1>5, <1>11, <1>12, <1>13

(* The list of what a call transfers has all of it and nothing else. *)
LEMMA CallIs ==
  ASSUME NEW l \in Maps, Fits(l), NEW T, T = FlattenSeq([i \in DOMAIN l |-> Transfers(l, i)])
  PROVE  T \in Seq(AllTransfers) /\ Range(T) = CallTransfers(l)
<1>1. PICK len \in Nat : len = Len(l) /\ DOMAIN l = 1 .. len
  BY MapsAre
<1> DEFINE seqs == [i \in 1 .. len |-> Transfers(l, i)]
<1>2. \A i \in 1 .. len : seqs[i] = Transfers(l, i)
  OBVIOUS
<1>3. T = FlattenSeq(seqs)
  BY <1>1
<1>4. seqs \in Seq(Seq(AllTransfers)) /\ DOMAIN seqs = 1 .. len
  <2>1. \A i \in 1 .. len : Transfers(l, i) \in Seq(AllTransfers)
    BY <1>1, TransfersAre
  <2>2. seqs \in [1 .. len -> Seq(AllTransfers)]
    BY <2>1
  <2> HIDE DEF seqs
  <2> QED BY <2>2, ListIs
<1> HIDE DEF seqs
<1>5. T \in Seq(AllTransfers) /\ Range(T) = UNION {Range(seqs[i]) : i \in 1 .. len}
  BY <1>3, <1>4, FlattenRange
<1>6. \A i \in 1 .. len : Range(seqs[i]) = Params(l, i) \cup BlocksOf(l, i)
  BY <1>1, <1>2, TransfersAre
<1> QED BY <1>1, <1>5, <1>6 DEF CallTransfers

(* A wave for the key None, which goes to the start of the area, is the    *)
(* only one of its call: MCWaveStoreNone has what happens otherwise.       *)
NoneAlone ==
  \A l \in Maps : \A i, j \in DOMAIN l : l[i].key = Direct => j = i

(* A transfer has been made: its register, or its samples, are there. *)
DoneIn(p, r, t) ==
  IF t.kind = "param" THEN p[t.key][t.reg] = t.value
  ELSE \A b \in 0 .. t.chunk.size - 1 : r[t.chunk.addr + b] = <<t.wave, t.no, b>>

(* Two transfers write to different places. *)
Apart(t, u) ==
  IF t.kind = "param" THEN u.kind = "param" => t.key # u.key \/ t.reg # u.reg
  ELSE u.kind = "samples" => \/ t.chunk.addr + t.chunk.size <= u.chunk.addr
                             \/ u.chunk.addr + u.chunk.size <= t.chunk.addr

(* What is sent of a chunk, and where to. *)
LEMMA BlockIs ==
  ASSUME NEW l \in Maps, NEW i \in 1 .. Len(l), NEW n \in 1 .. Len(Chunks[l[i].wave])
  PROVE  /\ Block(l, i, n).chunk.addr = Offset(l, i) + Sums(Chunks[l[i].wave])[n - 1]
         /\ Block(l, i, n).chunk.size = Chunks[l[i].wave][n]
         /\ Offset(l, i) \in Nat /\ Sums(Chunks[l[i].wave])[n - 1] \in Nat
         /\ Chunks[l[i].wave][n] \in Nat /\ Size(l[i].wave) \in Nat
         /\ Sums(Chunks[l[i].wave])[n - 1] + Chunks[l[i].wave][n] <= Size(l[i].wave)
         /\ Block(l, i, n).kind = "samples" /\ Block(l, i, n).wave = l[i].wave
         /\ Block(l, i, n).no = n
<1>1. PICK w \in Waves, o \in Nat : w = l[i].wave /\ o = Offset(l, i)
  BY MapsAre, OffsetIs
<1>2. PICK p : p = ChunkParams(w, o)[n]
  OBVIOUS
<1>3. /\ p.addr = o + Sums(Chunks[w])[n - 1] /\ p.size = Chunks[w][n]
      /\ Sums(Chunks[w])[n - 1] \in Nat /\ Chunks[w][n] \in Nat
      /\ Sums(Chunks[w])[n - 1] + Chunks[w][n] <= Size(w)
  BY <1>1, <1>2, ChunkParamsAre
<1>4. Size(w) \in Nat
  BY ChunksAre
<1>5. Block(l, i, n) = [kind |-> "samples", wave |-> w, no |-> n, chunk |-> p]
  BY <1>1, <1>2 DEF Block
<1> QED BY <1>1, <1>3, <1>4, <1>5

(* A wave of a call begins after the ones before it have ended. *)
LEMMA WavesFollow ==
  ASSUME NEW l \in Maps, NoneAlone, NEW i \in 1 .. Len(l), NEW j \in 1 .. Len(l), i < j
  PROVE  Offset(l, i) + Size(l[i].wave) <= Offset(l, j)
<1>1. l[i].key # Direct /\ l[j].key # Direct
  <2>1. i \in DOMAIN l /\ j \in DOMAIN l /\ i # j
    BY MapsAre, SMTT(30)
  <2> QED BY <2>1 DEF NoneAlone
<1>2. PICK k \in Seq(Nat), n \in Nat : k = Counted(l) /\ n = Len(l) /\ Len(k) = n
  BY MapsAre
<1>3. Offset(l, i) = Sums(k)[i - 1] /\ Offset(l, j) = Sums(k)[j - 1] /\ k[i] = Size(l[i].wave)
  BY <1>1, <1>2, OffsetIs, MapsAre
<1>4. i \in 1 .. Len(k) /\ i \in 0 .. Len(k) /\ j - 1 \in 0 .. Len(k) /\ i <= j - 1
  BY <1>2
<1>5. Sums(k)[i] = Sums(k)[i - 1] + k[i]
  BY <1>4, SumsAre
<1>6. Sums(k)[i] <= Sums(k)[j - 1]
  BY <1>4, SumsGrow
<1> QED BY <1>3, <1>5, <1>6

(* So do their chunks. *)
LEMMA BlocksApart ==
  ASSUME NEW l \in Maps, NoneAlone,
         NEW i \in 1 .. Len(l), NEW n \in 1 .. Len(Chunks[l[i].wave]),
         NEW j \in 1 .. Len(l), NEW m \in 1 .. Len(Chunks[l[j].wave]),
         i < j \/ (i = j /\ n < m)
  PROVE  Block(l, i, n).chunk.addr + Block(l, i, n).chunk.size <= Block(l, j, m).chunk.addr
<1>1. PICK o \in Nat, a \in Nat, z \in Nat, x \in Nat :
        /\ o = Offset(l, i) /\ a = Sums(Chunks[l[i].wave])[n - 1] /\ z = Chunks[l[i].wave][n]
        /\ x = Size(l[i].wave) /\ a + z <= x
  <2>1. /\ Offset(l, i) \in Nat /\ Sums(Chunks[l[i].wave])[n - 1] \in Nat
        /\ Chunks[l[i].wave][n] \in Nat /\ Size(l[i].wave) \in Nat
        /\ Sums(Chunks[l[i].wave])[n - 1] + Chunks[l[i].wave][n] <= Size(l[i].wave)
    BY BlockIs
  <2> QED BY <2>1
<1>2. PICK p \in Nat, b \in Nat : p = Offset(l, j) /\ b = Sums(Chunks[l[j].wave])[m - 1]
  BY BlockIs
<1>3. /\ Block(l, i, n).chunk.addr = o + a /\ Block(l, i, n).chunk.size = z
      /\ Block(l, j, m).chunk.addr = p + b
  BY <1>1, <1>2, BlockIs
<1>4. (o + a) + z <= p + b
  <2>1. CASE i < j
    <3>1. o + x <= p
      BY <1>1, <1>2, <2>1, WavesFollow
    <3>2. a + z <= x
      BY <1>1
    <3> QED BY <3>1, <3>2
  <2>2. CASE i = j /\ n < m
    <3>1. PICK s \in Seq(Nat) : s = Chunks[l[i].wave]
      <4>1. l[i].wave \in Waves
        BY MapsAre
      <4> QED BY <4>1, ChunksAre
    <3>2. n \in 1 .. Len(s) /\ n \in 0 .. Len(s) /\ m - 1 \in 0 .. Len(s) /\ n <= m - 1
      BY <2>2, <3>1, SMTT(30)
    <3>3. Sums(s)[n] = Sums(s)[n - 1] + s[n]
      BY <3>2, SumsAre
    <3>4. Sums(s)[n] <= Sums(s)[m - 1]
      BY <3>2, SumsGrow
    <3>5. a + z <= b /\ o = p
      BY <1>1, <1>2, <2>2, <3>1, <3>3, <3>4
    <3> QED BY <3>5
  <2> QED BY <2>1, <2>2
<1> QED BY <1>3, <1>4

(* A transfer of a call is of one of the two kinds. *)
LEMMA TransferIs ==
  ASSUME NEW l \in Maps, NEW t \in CallTransfers(l)
  PROVE  \/ \E i \in 1 .. Len(l) : t \in Params(l, i)
         \/ \E i \in 1 .. Len(l) : \E n \in 1 .. Len(Chunks[l[i].wave]) : t = Block(l, i, n)
<1>1. DOMAIN l = 1 .. Len(l) /\ \A i \in 1 .. Len(l) : l[i].wave \in Waves
  BY MapsAre
<1>2. \A i \in 1 .. Len(l) : DOMAIN Chunks[l[i].wave] = 1 .. Len(Chunks[l[i].wave])
  BY <1>1, ChunksAre
<1> QED BY <1>1, <1>2 DEF CallTransfers, BlocksOf

(* A slot is written one value for each register. *)
LEMMA OneValueEach ==
  ASSUME NEW key, NEW chunks, NEW t \in ParamsOf(key, chunks), NEW u \in ParamsOf(key, chunks),
         t.reg = u.reg
  PROVE  t = u
<1>1. \A reg, v : /\ Write(key, reg, v).reg = reg
                  /\ Write(key, reg, v) = [kind |-> "param", key |-> key, reg |-> reg, value |-> v]
  BY DEF Write
<1>2. /\ NumChunks[2] = "NUM_CHUNKS"
      /\ \A n : StartAddr(n)[1] = n /\ StartAddr(n)[2] = "CHUNK_START_ADDR"
      /\ \A n : PartWords(n)[1] = n /\ PartWords(n)[2] = "NUM_WAVE_PART_WORDS"
  BY DEF NumChunks, StartAddr, PartWords
<1>3. /\ \A n : NumChunks # StartAddr(n) /\ NumChunks # PartWords(n)
      /\ \A n, m : StartAddr(n) # PartWords(m)
      /\ \A n, m : StartAddr(n) = StartAddr(m) => n = m
      /\ \A n, m : PartWords(n) = PartWords(m) => n = m
  <2>1. "NUM_CHUNKS" # "CHUNK_START_ADDR" /\ "NUM_CHUNKS" # "NUM_WAVE_PART_WORDS"
        /\ "CHUNK_START_ADDR" # "NUM_WAVE_PART_WORDS"
    OBVIOUS
  <2>2. ASSUME NEW n PROVE NumChunks # StartAddr(n) /\ NumChunks # PartWords(n)
    BY <1>2, <2>1
  <2>3. ASSUME NEW n, NEW m PROVE StartAddr(n) # PartWords(m)
    BY <1>2, <2>1
  <2>4. ASSUME NEW n, NEW m, StartAddr(n) = StartAddr(m) PROVE n = m
    BY <1>2, <2>4
  <2>5. ASSUME NEW n, NEW m, PartWords(n) = PartWords(m) PROVE n = m
    BY <1>2, <2>5
  <2> QED BY <2>2, <2>3, <2>4, <2>5
<1> DEFINE Is(x) == \/ x = Write(key, NumChunks, Len(chunks))
                    \/ \E n \in DOMAIN chunks : x = Write(key, StartAddr(n), chunks[n].addr)
                    \/ \E n \in DOMAIN chunks : x = Write(key, PartWords(n), chunks[n].size)
<1>4. Is(t) /\ Is(u)
  BY DEF ParamsOf
<1>5. CASE t = Write(key, NumChunks, Len(chunks))
  BY <1>1, <1>3, <1>4, <1>5
<1>6. ASSUME NEW n \in DOMAIN chunks, t = Write(key, StartAddr(n), chunks[n].addr) PROVE t = u
  BY <1>1, <1>3, <1>4, <1>6
<1>7. ASSUME NEW n \in DOMAIN chunks, t = Write(key, PartWords(n), chunks[n].size) PROVE t = u
  BY <1>1, <1>3, <1>4, <1>7
<1> QED BY <1>4, <1>5, <1>6, <1>7

(* What is written for a slot names the slot. *)
LEMMA ParamKey ==
  ASSUME NEW key, NEW chunks, NEW t \in ParamsOf(key, chunks)
  PROVE  t.kind = "param" /\ t.key = key
BY DEF ParamsOf, Write

(* Two writes of a call to one register are one. *)
LEMMA ParamsApart ==
  ASSUME NEW l \in Maps, NEW t \in CallTransfers(l), NEW u \in CallTransfers(l),
         t.kind = "param", u.kind = "param", t.key = u.key, t.reg = u.reg
  PROVE  t = u
<1>1. \A i \in 1 .. Len(l) : \A n \in 1 .. Len(Chunks[l[i].wave]) : Block(l, i, n).kind = "samples"
  BY DEF Block
<1>2. PICK i \in 1 .. Len(l), j \in 1 .. Len(l) : t \in Params(l, i) /\ u \in Params(l, j)
  BY <1>1, TransferIs
<1>3. t.key = l[i].key /\ u.key = l[j].key
  BY <1>2, ParamKey DEF Params
<1>4. i = j
  BY <1>3, MapsAre
<1> QED BY <1>2, <1>4, OneValueEach DEF Params

(* Two transfers of a call write to different places. *)
LEMMA TransfersApart ==
  ASSUME NEW l \in Maps, NoneAlone, NEW t \in CallTransfers(l), NEW u \in CallTransfers(l), t # u
  PROVE  Apart(t, u)
<1>1. CASE t.kind = "param"
  BY <1>1, ParamsApart DEF Apart
<1>2. CASE t.kind # "param" /\ u.kind = "param"
  BY <1>2 DEF Apart
<1>3. CASE t.kind # "param" /\ u.kind # "param"
  <2>a. PICK i \in 1 .. Len(l) : \E n \in 1 .. Len(Chunks[l[i].wave]) : t = Block(l, i, n)
    <3>1. \A k \in 1 .. Len(l) : t \notin Params(l, k)
      BY <1>3, ParamKey DEF Params
    <3> QED BY <3>1, TransferIs
  <2>1. PICK n \in 1 .. Len(Chunks[l[i].wave]) : t = Block(l, i, n)
    BY <2>a
  <2>b. PICK j \in 1 .. Len(l) : \E m \in 1 .. Len(Chunks[l[j].wave]) : u = Block(l, j, m)
    <3>1. \A k \in 1 .. Len(l) : u \notin Params(l, k)
      BY <1>3, ParamKey DEF Params
    <3> QED BY <3>1, TransferIs
  <2>2. PICK m \in 1 .. Len(Chunks[l[j].wave]) : u = Block(l, j, m)
    BY <2>b
  <2>3. t.kind = "samples" /\ u.kind = "samples"
    BY <2>1, <2>2, BlockIs
  <2>4. i \in Nat /\ j \in Nat /\ n \in Nat /\ m \in Nat /\ (i # j \/ n # m)
    BY <2>1, <2>2
  <2>5. CASE i < j \/ (i = j /\ n < m)
    <3>1. t.chunk.addr + t.chunk.size <= u.chunk.addr
      BY <2>1, <2>2, <2>5, BlocksApart
    <3> QED BY <2>3, <3>1 DEF Apart
  <2>6. CASE j < i \/ (j = i /\ m < n)
    <3>1. u.chunk.addr + u.chunk.size <= t.chunk.addr
      BY <2>1, <2>2, <2>6, BlocksApart
    <3> QED BY <2>3, <3>1 DEF Apart
  <2> QED BY <2>4, <2>5, <2>6
<1> QED BY <1>1, <1>2, <1>3

(* The registers of a slot name these chunks. *)
Names(p, chunks) ==
  /\ p[NumChunks] = Len(chunks)
  /\ \A n \in DOMAIN chunks : p[StartAddr(n)] = chunks[n].addr /\ p[PartWords(n)] = chunks[n].size

(* They do when all that is written for the slot is there. *)
LEMMA AllWritten ==
  ASSUME NEW p, NEW r, NEW key, NEW chunks, \A t \in ParamsOf(key, chunks) : DoneIn(p, r, t)
  PROVE  Names(p[key], chunks)
<1>1. \A reg, v : DoneIn(p, r, Write(key, reg, v)) <=> p[key][reg] = v
  BY DEF DoneIn, Write
<1>2. p[key][NumChunks] = Len(chunks)
  <2>1. Write(key, NumChunks, Len(chunks)) \in ParamsOf(key, chunks)
    BY DEF ParamsOf
  <2> QED BY <1>1, <2>1
<1>3. ASSUME NEW n \in DOMAIN chunks
      PROVE  p[key][StartAddr(n)] = chunks[n].addr /\ p[key][PartWords(n)] = chunks[n].size
  <2>1. /\ Write(key, StartAddr(n), chunks[n].addr) \in ParamsOf(key, chunks)
        /\ Write(key, PartWords(n), chunks[n].size) \in ParamsOf(key, chunks)
    BY DEF ParamsOf
  <2> QED BY <1>1, <2>1
<1> QED BY <1>2, <1>3 DEF Names

(* What an AWG plays, given the registers and the memory. *)
PlayedIn(p, r, s) ==
  [i \in 1 .. p[s][NumChunks] |->
    [b \in 0 .. p[s][PartWords(i)] - 1 |-> r[p[s][StartAddr(i)] + b]]]

(* When all that a call transfers is there, each of its waves is played. *)
LEMMA AllDone ==
  ASSUME NEW l \in Maps, NEW p, NEW r, \A t \in CallTransfers(l) : DoneIn(p, r, t),
         NEW i \in 1 .. Len(l)
  PROVE  PlayedIn(p, r, l[i].key) = Samples(l[i].wave)
<1>1. PICK w \in Waves, o \in Nat, key \in Slots : w = l[i].wave /\ o = Offset(l, i) /\ key = l[i].key
  BY MapsAre, OffsetIs
<1>2. PICK q, n : q = ChunkParams(w, o) /\ n = Len(Chunks[w])
  OBVIOUS
<1>3. /\ Len(q) = n /\ DOMAIN q = 1 .. n /\ DOMAIN Chunks[w] = 1 .. n
      /\ \A m \in 1 .. n : q[m].size = Chunks[w][m]
  BY <1>2, ChunkParamsAre, ChunksAre
<1>4. i \in DOMAIN l
  BY MapsAre
<1>5. Names(p[key], q)
  <2>1. ParamsOf(key, q) \subseteq CallTransfers(l)
    BY <1>1, <1>2, <1>4 DEF CallTransfers, Params
  <2> QED BY <2>1, AllWritten
<1>6. ASSUME NEW m \in 1 .. n, NEW b \in 0 .. q[m].size - 1
      PROVE  r[q[m].addr + b] = <<w, m, b>>
  <2>1. Block(l, i, m) = [kind |-> "samples", wave |-> w, no |-> m, chunk |-> q[m]]
    BY <1>1, <1>2 DEF Block
  <2>2. Block(l, i, m) \in CallTransfers(l)
    <3>1. m \in DOMAIN Chunks[l[i].wave]
      BY <1>1, <1>3
    <3> QED BY <1>4, <3>1 DEF CallTransfers, BlocksOf
  <2>3. DoneIn(p, r, Block(l, i, m))
    BY <2>2
  <2> QED BY <2>1, <2>3 DEF DoneIn
<1>7. PlayedIn(p, r, key) = [m \in 1 .. n |-> [b \in 0 .. q[m].size - 1 |-> r[q[m].addr + b]]]
  <2>1. p[key][NumChunks] = n
    BY <1>3, <1>5 DEF Names
  <2>2. \A m \in 1 .. n : p[key][StartAddr(m)] = q[m].addr /\ p[key][PartWords(m)] = q[m].size
    BY <1>3, <1>5 DEF Names
  <2> QED BY <2>1, <2>2 DEF PlayedIn
<1>8. Samples(w) = [m \in 1 .. n |-> [b \in 0 .. Chunks[w][m] - 1 |-> <<w, m, b>>]]
  BY <1>3 DEF Samples
<1>9. \A m \in 1 .. n : [b \in 0 .. q[m].size - 1 |-> r[q[m].addr + b]]
                          = [b \in 0 .. Chunks[w][m] - 1 |-> <<w, m, b>>]
  BY <1>3, <1>6
<1> QED BY <1>1, <1>7, <1>8, <1>9

(* What a byte of the memory can be. *)
Cells == (Waves \X Nat \X Nat) \cup {Nothing}

(* Types. *)
StoreTypeOK ==
  /\ ram \in [0 .. (2 * AreaSize - 1) -> Cells]
  /\ params \in [Slots -> [WaveRegisters -> Nat]]
  /\ todo \in [Callers -> Seq(AllTransfers)]
  /\ entries \in [Callers -> Maps \cup {<<>>}]
  /\ alone \subseteq Callers
  /\ asked \in [Slots -> Waves \cup {Nothing}]
  /\ crossed \in [Callers -> SUBSET Slots]
  /\ whole \subseteq Slots

(* Nothing is written beyond the area. *)
BeyondIsFree == \A a \in AreaSize .. (2 * AreaSize - 1) : ram[a] = Nothing

(* The first of a sequence, and the others. *)
LEMMA FirstAndRest ==
  ASSUME NEW V, NEW s \in Seq(V), s # <<>>
  PROVE  /\ Head(s) \in V /\ Tail(s) \in Seq(V) /\ Head(s) \in Range(s)
         /\ \A x \in Range(s) : x = Head(s) \/ x \in Range(Tail(s))
         /\ Range(Tail(s)) \subseteq Range(s)
<1>1. PICK t : t = Tail(s)
  OBVIOUS
<1>2. PICK n \in Nat : n = Len(s) /\ n >= 1
  BY EmptySeq
<1>3. /\ Head(s) \in V /\ t \in Seq(V) /\ Len(t) = n - 1
      /\ \A i \in 1 .. Len(t) : t[i] = s[i + 1]
  BY <1>1, <1>2, HeadTailProperties
<1>4. DOMAIN s = 1 .. n /\ DOMAIN t = 1 .. n - 1
  BY <1>2, <1>3
<1>5. Head(s) = s[1]
  BY <1>2
<1>6. Range(t) \subseteq Range(s)
  <2>1. ASSUME NEW i \in 1 .. n - 1 PROVE t[i] = s[i + 1] /\ i + 1 \in 1 .. n
    BY <1>2, <1>3
  <2> QED BY <1>4, <2>1 DEF Range
<1>7. ASSUME NEW x \in Range(s) PROVE x = Head(s) \/ x \in Range(t)
  <2>1. PICK i \in 1 .. n : x = s[i]
    BY <1>4 DEF Range
  <2>2. CASE i = 1
    BY <1>5, <2>1, <2>2
  <2>3. CASE i # 1
    <3>1. i - 1 \in 1 .. n - 1 /\ (i - 1) + 1 = i
      BY <2>3
    <3>2. t[i - 1] = x
      BY <1>3, <2>1, <3>1
    <3> QED BY <1>4, <3>1, <3>2 DEF Range
  <2> QED BY <2>2, <2>3
<1>8. Head(s) \in Range(s)
  <2>1. 1 \in 1 .. n
    BY <1>2
  <2> QED BY <1>4, <1>5, <2>1 DEF Range
<1> QED BY <1>1, <1>3, <1>6, <1>7, <1>8

(* Types hold at the start. *)
LEMMA StoreStarts == StoreInit => StoreTypeOK /\ BeyondIsFree
<1> SUFFICES ASSUME StoreInit PROVE StoreTypeOK /\ BeyondIsFree
  OBVIOUS
<1>1. AreaSize \in Nat
  BY WaveStoreAssumption
<1>2. ram = [a \in 0 .. (2 * AreaSize - 1) |-> Nothing]
  BY DEF StoreInit
<1>3. ram \in [0 .. (2 * AreaSize - 1) -> Cells]
  BY <1>2 DEF Cells
<1>4. BeyondIsFree
  BY <1>1, <1>2 DEF BeyondIsFree
<1>5. /\ params \in [Slots -> [WaveRegisters -> Nat]] /\ todo \in [Callers -> Seq(AllTransfers)]
      /\ entries \in [Callers -> Maps \cup {<<>>}]
  <2>1. \A V : <<>> \in Seq(V)
    OBVIOUS
  <2> QED BY <2>1 DEF StoreInit
<1>6. /\ alone \subseteq Callers /\ asked \in [Slots -> Waves \cup {Nothing}]
      /\ crossed \in [Callers -> SUBSET Slots] /\ whole \subseteq Slots
  BY DEF StoreInit
<1> QED BY <1>3, <1>4, <1>5, <1>6 DEF StoreTypeOK

(* A call that begins keeps types. *)
LEMMA RegisterKeepsType ==
  ASSUME StoreTypeOK, BeyondIsFree, NEW c \in Callers, Register(c)
  PROVE  StoreTypeOK' /\ BeyondIsFree'
<1> USE DEF StoreTypeOK
<1>1. PICK l \in Maps : /\ Fits(l) /\ entries' = [entries EXCEPT ![c] = l]
          /\ todo' = [todo EXCEPT ![c] = FlattenSeq([i \in DOMAIN l |-> Transfers(l, i)])]
  BY DEF Register
<1>2. FlattenSeq([i \in DOMAIN l |-> Transfers(l, i)]) \in Seq(AllTransfers)
  BY <1>1, CallIs
<1>3. entries' \in [Callers -> Maps \cup {<<>>}] /\ todo' \in [Callers -> Seq(AllTransfers)]
  BY <1>1, <1>2
<1>4. /\ alone' \subseteq Callers /\ asked' \in [Slots -> Waves \cup {Nothing}]
      /\ crossed' \in [Callers -> SUBSET Slots]
  BY DEF Register
<1>5. UNCHANGED <<ram, params, whole>>
  BY DEF Register
<1> QED BY <1>3, <1>4, <1>5 DEF BeyondIsFree

(* A transfer keeps the types of all but what it writes. *)
LEMMA AdvanceKeepsType ==
  ASSUME StoreTypeOK, NEW c \in Callers, todo[c] # <<>>, Advance(c)
  PROVE  /\ todo' \in [Callers -> Seq(AllTransfers)]
         /\ entries' \in [Callers -> Maps \cup {<<>>}]
         /\ alone' \subseteq Callers /\ asked' \in [Slots -> Waves \cup {Nothing}]
<1> USE DEF StoreTypeOK
<1>1. PICK q \in Seq(AllTransfers) : q = todo[c] /\ q # <<>>
  OBVIOUS
<1>2. Tail(q) \in Seq(AllTransfers)
  BY <1>1, FirstAndRest
<1>3. todo' = [todo EXCEPT ![c] = Tail(q)]
  BY <1>1 DEF Advance
<1>4. asked' \in [Slots -> Waves \cup {Nothing}]
  <2>1. CASE todo'[c] # <<>> \/ c \notin alone
    <3>1. asked' = asked
      BY <2>1 DEF Advance
    <3> QED BY <3>1
  <2>2. CASE ~(todo'[c] # <<>> \/ c \notin alone)
    <3>1. PICK l : l = entries[c] /\ l \in Maps \cup {<<>>}
      OBVIOUS
    <3>2. asked' = [s \in Slots |->
                     IF \E i \in DOMAIN l : l[i].key = s
                     THEN LET i == CHOOSE i \in DOMAIN l : l[i].key = s IN  l[i].wave
                     ELSE Nothing]
      BY <2>2, <3>1 DEF Advance
    <3>3. \A i \in DOMAIN l : l[i].wave \in Waves
      <4>1. CASE l \in Maps
        BY <4>1, MapsAre
      <4>2. CASE l = <<>>
        BY <4>2
      <4> QED BY <3>1, <4>1, <4>2
    <3>4. \A s \in Slots : (\E i \in DOMAIN l : l[i].key = s)
             => l[CHOOSE i \in DOMAIN l : l[i].key = s].wave \in Waves
      BY <3>3
    <3> QED BY <3>2, <3>4
  <2> QED BY <2>1, <2>2
<1>5. entries' \in [Callers -> Maps \cup {<<>>}]
  BY DEF Advance
<1> QED BY <1>2, <1>3, <1>4, <1>5 DEF Advance

(* A write to a register keeps types. *)
LEMMA ParamsKeepType ==
  ASSUME StoreTypeOK, BeyondIsFree, NEW c \in Callers, SetWaveParams(c)
  PROVE  StoreTypeOK' /\ BeyondIsFree'
<1> USE DEF StoreTypeOK
<1>1. todo[c] # <<>> /\ Advance(c) /\ UNCHANGED ram
  BY DEF SetWaveParams
<1>2. PICK x \in AllTransfers : x = Head(todo[c])
  <2>1. todo[c] \in Seq(AllTransfers)
    OBVIOUS
  <2> QED BY <1>1, <2>1, FirstAndRest
<1>3. /\ x \in ParamTransfers /\ params' = [params EXCEPT ![x.key][x.reg] = x.value]
      /\ crossed' = [d \in Callers |-> IF d = c \/ todo[d] = <<>> THEN crossed[d]
                                       ELSE crossed[d] \cup {x.key}]
      /\ whole' \subseteq whole \cup {x.key}
  <2>1. x.kind = "param" /\ params' = [params EXCEPT ![x.key][x.reg] = x.value]
    BY <1>2 DEF SetWaveParams
  <2>2. x \notin SampleTransfers
    BY <2>1 DEF SampleTransfers
  <2>3. crossed' = [d \in Callers |-> IF d = c \/ todo[d] = <<>> THEN crossed[d]
                                     ELSE crossed[d] \cup {x.key}]
    BY <1>2 DEF SetWaveParams
  <2>4. whole' \subseteq whole \cup {x.key}
    BY <1>2 DEF SetWaveParams
  <2> QED BY <2>1, <2>2, <2>3, <2>4 DEF AllTransfers
<1>4. x.key \in Slots /\ x.reg \in WaveRegisters /\ x.value \in Nat
  BY <1>3 DEF ParamTransfers
<1>5. params' \in [Slots -> [WaveRegisters -> Nat]]
  BY <1>3, <1>4
<1>6. crossed' \in [Callers -> SUBSET Slots] /\ whole' \subseteq Slots
  BY <1>3, <1>4
<1> QED BY <1>1, <1>5, <1>6, AdvanceKeepsType DEF BeyondIsFree

(* What is beyond the area is beyond each of its chunks. *)
LEMMA Beyond ==
  ASSUME NEW A \in Nat, NEW a \in Nat, NEW z \in Nat, a + z <= A, NEW d \in A .. (2 * A - 1)
  PROVE  d \in 0 .. (2 * A - 1) /\ d \notin a .. (a + z - 1)
<1>1. d \in Int /\ A <= d /\ d <= 2 * A - 1
  OBVIOUS
<1>2. 0 <= d /\ ~(d <= a + z - 1)
  BY <1>1
<1> QED BY <1>1, <1>2

(* A transfer of samples keeps types, and does not leave the area. *)
LEMMA SamplesKeepType ==
  ASSUME StoreTypeOK, BeyondIsFree, NEW c \in Callers, SendWaveSamples(c)
  PROVE  StoreTypeOK' /\ BeyondIsFree'
<1>1. todo[c] # <<>> /\ Advance(c) /\ UNCHANGED <<params, crossed, whole>>
  BY DEF SendWaveSamples
<1>2. PICK x \in AllTransfers : x = Head(todo[c])
  <2>1. todo[c] \in Seq(AllTransfers)
    BY DEF StoreTypeOK
  <2> QED BY <1>1, <2>1, FirstAndRest
<1>3. x \in SampleTransfers
  <2>1. x.kind = "samples"
    BY <1>2 DEF SendWaveSamples
  <2>2. x \notin ParamTransfers
    BY <2>1 DEF ParamTransfers
  <2> QED BY <2>1, <2>2 DEF AllTransfers
<1>4. PICK w \in Waves, n \in Nat, a \in Nat, z \in Nat :
        w = x.wave /\ n = x.no /\ a = x.chunk.addr /\ z = x.chunk.size /\ a + z <= AreaSize
  <2>1. x.wave \in Waves /\ x.no \in Nat /\ x.chunk \in Regions
    BY <1>3 DEF SampleTransfers
  <2> QED BY <2>1 DEF Regions
<1>5. PICK D : D = 0 .. (2 * AreaSize - 1) /\ ram \in [D -> Cells] /\ DOMAIN ram = D
  BY DEF StoreTypeOK
<1>6. ram' = [d \in D |-> IF d \in a .. (a + z - 1) THEN <<w, n, d - a>> ELSE ram[d]]
  BY <1>2, <1>4, <1>5 DEF SendWaveSamples
<1>7. ram' \in [D -> Cells]
  <2>1. \A d \in D : d \in a .. (a + z - 1) => d - a \in Nat
    BY <1>5
  <2>2. \A d \in D : d \in a .. (a + z - 1) => <<w, n, d - a>> \in Cells
    BY <2>1 DEF Cells
  <2> QED BY <1>5, <1>6, <2>2
<1>8. BeyondIsFree'
  <2>1. ASSUME NEW d \in AreaSize .. (2 * AreaSize - 1) PROVE ram'[d] = Nothing
    <3>1. AreaSize \in Nat
      BY WaveStoreAssumption
    <3>2. d \in D /\ d \notin a .. (a + z - 1)
      BY <1>4, <1>5, <3>1, Beyond
    <3>3. ram[d] = Nothing
      BY DEF BeyondIsFree
    <3> QED BY <1>6, <3>2, <3>3
  <2> QED BY <2>1 DEF BeyondIsFree
<1> QED BY <1>1, <1>5, <1>7, <1>8, AdvanceKeepsType DEF StoreTypeOK

(* A transfer that fails keeps types. *)
LEMMA FailureKeepsType ==
  ASSUME StoreTypeOK, BeyondIsFree, NEW c \in Callers, AccessFails(c)
  PROVE  StoreTypeOK' /\ BeyondIsFree'
<1>1. <<>> \in Seq(AllTransfers)
  OBVIOUS
<1>2. entries' \in [Callers -> Maps \cup {<<>>}]
  BY DEF AccessFails, StoreTypeOK
<1> QED BY <1>1, <1>2 DEF AccessFails, StoreTypeOK, BeyondIsFree, history

(* Types hold, and nothing beyond the area is ever written                 *)
(* (set_wave_sequence and register_wave_sequences, awgctrl.py).            *)
THEOREM StoreTypeCorrect == StoreSpec => [](StoreTypeOK /\ BeyondIsFree)
<1>1. ASSUME StoreTypeOK, BeyondIsFree, [StoreNext]_storeVars
      PROVE  StoreTypeOK' /\ BeyondIsFree'
  <2>1. CASE UNCHANGED storeVars
    BY <1>1, <2>1 DEF storeVars, history, StoreTypeOK, BeyondIsFree
  <2>2. CASE StoreNext
    BY <1>1, <2>2, RegisterKeepsType, ParamsKeepType, SamplesKeepType, FailureKeepsType
       DEF StoreNext
  <2> QED BY <1>1, <2>1, <2>2
<1> QED BY <1>1, StoreStarts, PTL DEF StoreSpec

(* What a slot names is in the area. *)
InArea(p) == \A i \in 1 .. p[NumChunks] : p[StartAddr(i)] + p[PartWords(i)] <= AreaSize

(* Of each call under way: what it has still to transfer, and that in the  *)
(* slots that no other has written to, the rest of the registers is        *)
(* written.  And that whole slots name what is in the area.                *)
AreaInv ==
  /\ \A c \in Callers : todo[c] # <<>> =>
       /\ entries[c] \in Maps /\ Fits(entries[c])
       /\ Range(todo[c]) \subseteq CallTransfers(entries[c])
       /\ \A t \in CallTransfers(entries[c]) : t.kind = "param" /\ t.key \notin crossed[c] =>
            t \in Range(todo[c]) \/ params[t.key][t.reg] = t.value
  /\ \A s \in whole : InArea(params[s])

(* The invariant holds at the start. *)
LEMMA AreaStarts == StoreInit => AreaInv
<1> SUFFICES ASSUME StoreInit PROVE AreaInv
  OBVIOUS
<1>1. \A c \in Callers : todo[c] = <<>>
  BY DEF StoreInit
<1>2. NumChunks \in WaveRegisters
  BY DEF WaveRegisters
<1>3. \A s \in Slots : params[s][NumChunks] = 0
  BY <1>2 DEF StoreInit
<1>4. \A s \in Slots : InArea(params[s])
  BY <1>3 DEF InArea
<1>5. whole = Slots
  BY DEF StoreInit
<1> QED BY <1>1, <1>4, <1>5 DEF AreaInv

(* A call that begins keeps it. *)
LEMMA RegisterKeepsArea ==
  ASSUME StoreTypeOK, AreaInv, NEW c \in Callers, Register(c)
  PROVE  AreaInv'
<1>1. PICK l \in Maps : /\ Fits(l) /\ entries' = [entries EXCEPT ![c] = l]
          /\ todo' = [todo EXCEPT ![c] = FlattenSeq([i \in DOMAIN l |-> Transfers(l, i)])]
  BY DEF Register
<1>2. crossed' = [crossed EXCEPT ![c] = {}] /\ UNCHANGED <<params, whole>>
  BY DEF Register
<1>3. entries'[c] = l /\ todo'[c] = FlattenSeq([i \in DOMAIN l |-> Transfers(l, i)])
  BY <1>1 DEF StoreTypeOK
<1>4. Range(todo'[c]) = CallTransfers(l)
  BY <1>1, <1>3, CallIs
<1>5. ASSUME NEW d \in Callers, d # c
      PROVE  todo'[d] = todo[d] /\ entries'[d] = entries[d] /\ crossed'[d] = crossed[d]
  BY <1>1, <1>2, <1>5 DEF StoreTypeOK
<1>6. ASSUME NEW d \in Callers, todo'[d] # <<>>
      PROVE  /\ entries'[d] \in Maps /\ Fits(entries'[d])
             /\ Range(todo'[d]) \subseteq CallTransfers(entries'[d])
             /\ \A t \in CallTransfers(entries'[d]) : t.kind = "param" /\ t.key \notin crossed'[d] =>
                  t \in Range(todo'[d]) \/ params'[t.key][t.reg] = t.value
  <2>1. CASE d = c
    BY <1>1, <1>3, <1>4, <2>1
  <2>2. CASE d # c
    BY <1>2, <1>5, <1>6, <2>2 DEF AreaInv
  <2> QED BY <2>1, <2>2
<1> QED BY <1>2, <1>6 DEF AreaInv

(* The slot of a wave of a call that fits names what is in the area, when  *)
(* all its registers are written.                                          *)
LEMMA WrittenInArea ==
  ASSUME NEW l \in Maps, Fits(l), NEW i \in 1 .. Len(l), NEW p,
         Names(p, ChunkParams(l[i].wave, Offset(l, i)))
  PROVE  InArea(p)
<1>1. PICK q : q = ChunkParams(l[i].wave, Offset(l, i))
  OBVIOUS
<1>2. PICK m \in Nat : m = Len(q) /\ DOMAIN q = 1 .. m /\ q \in Seq(Regions)
  BY <1>1, RegionsInArea
<1>3. \A n \in 1 .. m : q[n].addr + q[n].size <= AreaSize
  <2>1. \A n \in 1 .. m : q[n] \in Regions
    BY <1>2
  <2> QED BY <2>1 DEF Regions
<1>4. p[NumChunks] = m /\ \A n \in 1 .. m : p[StartAddr(n)] = q[n].addr /\ p[PartWords(n)] = q[n].size
  BY <1>1, <1>2 DEF Names
<1> QED BY <1>3, <1>4 DEF InArea

(* A write to a register keeps it. *)
LEMMA ParamsKeepArea ==
  ASSUME StoreTypeOK, AreaInv, NEW c \in Callers, SetWaveParams(c)
  PROVE  AreaInv'
<1>1. todo[c] # <<>> /\ Advance(c)
  BY DEF SetWaveParams
<1>2. PICK q \in Seq(AllTransfers) : q = todo[c] /\ q # <<>>
  BY <1>1 DEF StoreTypeOK
<1>3. PICK x \in AllTransfers : x = Head(q)
  BY <1>2, FirstAndRest
<1>4. PICK l \in Maps :
        /\ l = entries[c] /\ Fits(l) /\ Range(q) \subseteq CallTransfers(l)
        /\ \A t \in CallTransfers(l) : t.kind = "param" /\ t.key \notin crossed[c] =>
             t \in Range(q) \/ params[t.key][t.reg] = t.value
  BY <1>1, <1>2 DEF AreaInv
<1>5. /\ x \in Range(q) /\ x \in CallTransfers(l) /\ Range(Tail(q)) \subseteq CallTransfers(l)
      /\ \A t \in Range(q) : t = x \/ t \in Range(Tail(q))
  BY <1>2, <1>3, <1>4, FirstAndRest
<1>6. x.kind = "param" /\ params' = [params EXCEPT ![x.key][x.reg] = x.value]
  BY <1>2, <1>3 DEF SetWaveParams
<1>7. crossed' = [d \in Callers |-> IF d = c \/ todo[d] = <<>> THEN crossed[d]
                                    ELSE crossed[d] \cup {x.key}]
  BY <1>2, <1>3 DEF SetWaveParams
<1>8. whole' = IF \/ x.key \in crossed[c]
                  \/ \E t \in Range(Tail(q)) : t.kind = "param" /\ t.key = x.key
               THEN whole \ {x.key} ELSE whole \cup {x.key}
  BY <1>2, <1>3 DEF SetWaveParams
<1>9. ASSUME NEW t \in AllTransfers, t.kind = "param"
      PROVE  t.key \in Slots /\ t.reg \in WaveRegisters
  <2>1. t \notin SampleTransfers
    BY <1>9 DEF SampleTransfers
  <2> QED BY <2>1 DEF AllTransfers, ParamTransfers
<1>10. ASSUME NEW k \in Maps, Fits(k) PROVE CallTransfers(k) \subseteq AllTransfers
  <2>1. PICK T \in Seq(AllTransfers) : Range(T) = CallTransfers(k)
    BY <1>10, CallIs
  <2> QED BY <2>1 DEF Range
<1>11. x.key \in Slots /\ x.reg \in WaveRegisters
  BY <1>6, <1>9
<1>12. params'[x.key][x.reg] = x.value
  BY <1>6, <1>11 DEF StoreTypeOK
<1>13. ASSUME NEW t \in AllTransfers, t.kind = "param", t.key # x.key \/ t.reg # x.reg
       PROVE  params'[t.key][t.reg] = params[t.key][t.reg]
  <2>1. t.key \in Slots /\ t.reg \in WaveRegisters
    BY <1>9, <1>13
  <2> QED BY <1>6, <1>11, <1>13, <2>1 DEF StoreTypeOK
<1>14. /\ todo'[c] = Tail(q) /\ (todo'[c] # <<>> => entries'[c] = l) /\ crossed'[c] = crossed[c]
  <2>1. todo' = [todo EXCEPT ![c] = Tail(q)]
    BY <1>1, <1>2 DEF Advance
  <2>2. entries' = [entries EXCEPT ![c] = IF todo'[c] = <<>> THEN <<>> ELSE @]
    BY <1>1 DEF Advance
  <2> QED BY <1>4, <1>7, <2>1, <2>2 DEF StoreTypeOK
<1>15. ASSUME NEW d \in Callers, d # c
       PROVE  todo'[d] = todo[d] /\ entries'[d] = entries[d]
  BY <1>1, <1>15 DEF Advance, StoreTypeOK
<1>16. ASSUME NEW t \in CallTransfers(l), t.kind = "param", t.key \notin crossed[c],
              t \notin Range(Tail(q))
       PROVE  params'[t.key][t.reg] = t.value
  <2>1. CASE t = x
    BY <1>12, <2>1
  <2>2. CASE t # x
    <3>1. params[t.key][t.reg] = t.value
      BY <1>4, <1>5, <1>16, <2>2
    <3>2. t.key # x.key \/ t.reg # x.reg
      BY <1>5, <1>6, <1>16, <2>2, ParamsApart
    <3>3. t \in AllTransfers
      BY <1>4, <1>10
    <3> QED BY <1>13, <1>16, <3>1, <3>2, <3>3
  <2> QED BY <2>1, <2>2
<1>17. ASSUME NEW d \in Callers, todo'[d] # <<>>
       PROVE  /\ entries'[d] \in Maps /\ Fits(entries'[d])
              /\ Range(todo'[d]) \subseteq CallTransfers(entries'[d])
              /\ \A t \in CallTransfers(entries'[d]) : t.kind = "param" /\ t.key \notin crossed'[d] =>
                   t \in Range(todo'[d]) \/ params'[t.key][t.reg] = t.value
  <2>1. CASE d = c
    BY <1>4, <1>5, <1>14, <1>16, <1>17, <2>1
  <2>2. CASE d # c
    <3>1. todo[d] # <<>> /\ todo'[d] = todo[d] /\ entries'[d] = entries[d]
      BY <1>15, <1>17, <2>2
    <3>2. crossed'[d] = crossed[d] \cup {x.key}
      BY <1>7, <2>2, <3>1
    <3>3. /\ entries[d] \in Maps /\ Fits(entries[d]) /\ Range(todo[d]) \subseteq CallTransfers(entries[d])
          /\ \A t \in CallTransfers(entries[d]) : t.kind = "param" /\ t.key \notin crossed[d] =>
               t \in Range(todo[d]) \/ params[t.key][t.reg] = t.value
      BY <3>1 DEF AreaInv
    <3>4. ASSUME NEW t \in CallTransfers(entries[d]), t.kind = "param", t.key \notin crossed'[d]
          PROVE  t \in Range(todo[d]) \/ params'[t.key][t.reg] = t.value
      <4>1. t.key # x.key /\ t.key \notin crossed[d]
        BY <3>2, <3>4
      <4>2. t \in AllTransfers
        BY <1>10, <3>3
      <4>3. params'[t.key][t.reg] = params[t.key][t.reg]
        BY <1>13, <3>4, <4>1, <4>2
      <4> QED BY <3>3, <3>4, <4>1, <4>3
    <3> QED BY <3>1, <3>3, <3>4
  <2> QED BY <2>1, <2>2
<1>18. ASSUME NEW s \in whole' PROVE InArea(params'[s])
  <2>1. CASE s # x.key
    <3>1. s \in whole /\ s \in Slots
      BY <1>8, <2>1 DEF StoreTypeOK
    <3>2. params'[s] = params[s]
      BY <1>6, <2>1, <3>1 DEF StoreTypeOK
    <3> QED BY <3>1, <3>2 DEF AreaInv
  <2>2. CASE s = x.key
    <3>1. s \notin crossed[c] /\ \A t \in Range(Tail(q)) : ~(t.kind = "param" /\ t.key = s)
      BY <1>8, <2>2
    <3>2. PICK i \in 1 .. Len(l) : x \in Params(l, i)
      <4>1. \A i \in 1 .. Len(l) : \A n \in 1 .. Len(Chunks[l[i].wave]) : Block(l, i, n).kind = "samples"
        BY DEF Block
      <4> QED BY <1>5, <1>6, <4>1, TransferIs
    <3>3. PICK p : p = ChunkParams(l[i].wave, Offset(l, i)) /\ Params(l, i) = ParamsOf(s, p)
      <4>1. l[i].key = s
        BY <2>2, <3>2, ParamKey DEF Params
      <4> QED BY <4>1 DEF Params
    <3>4. ASSUME NEW t \in ParamsOf(s, p) PROVE DoneIn(params', ram', t)
      <4>1. t.kind = "param" /\ t.key = s
        BY ParamKey
      <4>2. t \in CallTransfers(l)
        <5>1. i \in DOMAIN l
          BY MapsAre
        <5> QED BY <3>3, <5>1 DEF CallTransfers
      <4>3. t \notin Range(Tail(q))
        BY <3>1, <4>1
      <4>4. params'[t.key][t.reg] = t.value
        BY <1>16, <3>1, <4>1, <4>2, <4>3
      <4> QED BY <4>1, <4>4 DEF DoneIn
    <3>5. Names(params'[s], p)
      BY <3>4, AllWritten
    <3> QED BY <1>4, <3>3, <3>5, WrittenInArea
  <2> QED BY <2>1, <2>2
<1> QED BY <1>17, <1>18 DEF AreaInv

(* A transfer of samples keeps it. *)
LEMMA SamplesKeepArea ==
  ASSUME StoreTypeOK, AreaInv, NEW c \in Callers, SendWaveSamples(c)
  PROVE  AreaInv'
<1>1. todo[c] # <<>> /\ Advance(c) /\ UNCHANGED <<params, crossed, whole>>
  BY DEF SendWaveSamples
<1>2. PICK q \in Seq(AllTransfers) : q = todo[c] /\ q # <<>>
  BY <1>1 DEF StoreTypeOK
<1>3. Head(q).kind = "samples"
  BY <1>2 DEF SendWaveSamples
<1>4. /\ Range(Tail(q)) \subseteq Range(q)
      /\ \A t \in Range(q) : t = Head(q) \/ t \in Range(Tail(q))
  BY <1>2, FirstAndRest
<1>5. todo'[c] = Tail(q) /\ (todo'[c] # <<>> => entries'[c] = entries[c])
  <2>1. todo' = [todo EXCEPT ![c] = Tail(q)]
    BY <1>1, <1>2 DEF Advance
  <2>2. entries' = [entries EXCEPT ![c] = IF todo'[c] = <<>> THEN <<>> ELSE @]
    BY <1>1 DEF Advance
  <2> QED BY <2>1, <2>2 DEF StoreTypeOK
<1>6. ASSUME NEW d \in Callers, d # c
      PROVE  todo'[d] = todo[d] /\ entries'[d] = entries[d]
  BY <1>1, <1>6 DEF Advance, StoreTypeOK
<1>7. ASSUME NEW d \in Callers, todo'[d] # <<>>
      PROVE  /\ entries'[d] \in Maps /\ Fits(entries'[d])
             /\ Range(todo'[d]) \subseteq CallTransfers(entries'[d])
             /\ \A t \in CallTransfers(entries'[d]) : t.kind = "param" /\ t.key \notin crossed'[d] =>
                  t \in Range(todo'[d]) \/ params'[t.key][t.reg] = t.value
  <2>1. CASE d = c
    <3>1. /\ entries[c] \in Maps /\ Fits(entries[c]) /\ Range(q) \subseteq CallTransfers(entries[c])
          /\ \A t \in CallTransfers(entries[c]) : t.kind = "param" /\ t.key \notin crossed[c] =>
               t \in Range(q) \/ params[t.key][t.reg] = t.value
      BY <1>1, <1>2 DEF AreaInv
    <3>2. \A t : t.kind = "param" => t # Head(q)
      BY <1>3
    <3> QED BY <1>1, <1>4, <1>5, <1>7, <2>1, <3>1, <3>2
  <2>2. CASE d # c
    BY <1>1, <1>6, <1>7, <2>2 DEF AreaInv
  <2> QED BY <2>1, <2>2
<1> QED BY <1>1, <1>7 DEF AreaInv

(* A transfer that fails keeps it. *)
LEMMA FailureKeepsArea ==
  ASSUME StoreTypeOK, AreaInv, NEW c \in Callers, AccessFails(c)
  PROVE  AreaInv'
<1>1. UNCHANGED <<ram, params, crossed, whole>>
  BY DEF AccessFails, history
<1>2. todo'[c] = <<>> /\ \A d \in Callers \ {c} : todo'[d] = todo[d] /\ entries'[d] = entries[d]
  BY DEF AccessFails, StoreTypeOK
<1> QED BY <1>1, <1>2 DEF AreaInv

(* Whatever waves are registered, by whichever calls and in whichever      *)
(* order, the samples of an AWG stay in its own part of the memory, and a  *)
(* slot whose registers one call has written, all of them and with no      *)
(* other between, names no others.                                         *)
THEOREM WavesStayInTheirArea == StoreSpec => []StaysInArea
<1>1. ASSUME StoreTypeOK, AreaInv, [StoreNext]_storeVars
      PROVE  AreaInv'
  <2>1. CASE UNCHANGED storeVars
    BY <1>1, <2>1 DEF storeVars, history, AreaInv
  <2>2. CASE StoreNext
    BY <1>1, <2>2, RegisterKeepsArea, ParamsKeepArea, SamplesKeepArea, FailureKeepsArea
       DEF StoreNext
  <2> QED BY <1>1, <2>1, <2>2
<1>2. BeyondIsFree /\ AreaInv => StaysInArea
  BY DEF BeyondIsFree, AreaInv, InArea, StaysInArea
<1> QED BY <1>1, <1>2, AreaStarts, StoreTypeCorrect, PTL DEF StoreSpec

(* Of a call that no other has overlapped: what it has still to transfer,   *)
(* and that the rest is done.                                               *)
CallInv ==
  /\ \A c \in alone : \A d \in Callers \ {c} : todo[d] = <<>>
  /\ \A c \in alone : todo[c] # <<>> =>
       /\ entries[c] \in Maps /\ Fits(entries[c])
       /\ Range(todo[c]) \subseteq CallTransfers(entries[c])
       /\ \A t \in CallTransfers(entries[c]) : t \in Range(todo[c]) \/ DoneIn(params, ram, t)
  /\ \A s \in Slots : asked[s] # Nothing =>
       /\ \A d \in Callers : todo[d] = <<>>
       /\ Played(s) = Samples(asked[s])

(* What a slot plays is what its parameters and the memory say. *)
LEMMA PlayedIs == \A s \in Slots : Played(s) = PlayedIn(params, ram, s)
BY DEF Played, PlayedIn

(* The invariant holds at the start. *)
LEMMA CallStarts == StoreInit => CallInv
<1> SUFFICES ASSUME StoreInit PROVE CallInv
  OBVIOUS
<1>1. alone = {} /\ \A s \in Slots : asked[s] = Nothing
  BY DEF StoreInit
<1> QED BY <1>1 DEF CallInv

(* A call that begins keeps the invariant. *)
LEMMA RegisterKeepsCall ==
  ASSUME StoreTypeOK, CallInv, NEW c \in Callers, Register(c)
  PROVE  CallInv'
<1>1. PICK l \in Maps : /\ Fits(l) /\ entries' = [entries EXCEPT ![c] = l]
          /\ todo' = [todo EXCEPT ![c] = FlattenSeq([i \in DOMAIN l |-> Transfers(l, i)])]
  BY DEF Register
<1>2. \A s \in Slots : asked'[s] = Nothing
  BY DEF Register
<1>3. alone' = IF \A d \in Callers : todo[d] = <<>> THEN {c} ELSE {}
  BY DEF Register
<1>4. CASE \A d \in Callers : todo[d] = <<>>
  <2>1. alone' = {c}
    BY <1>3, <1>4
  <2>2. \A d \in Callers \ {c} : todo'[d] = <<>>
    BY <1>1, <1>4 DEF StoreTypeOK
  <2>3. entries'[c] = l /\ todo'[c] = FlattenSeq([i \in DOMAIN l |-> Transfers(l, i)])
    BY <1>1 DEF StoreTypeOK
  <2>4. Range(todo'[c]) = CallTransfers(l)
    BY <1>1, <2>3, CallIs
  <2> QED BY <1>1, <1>2, <2>1, <2>2, <2>3, <2>4 DEF CallInv
<1>5. CASE ~(\A d \in Callers : todo[d] = <<>>)
  <2>1. alone' = {}
    BY <1>3, <1>5
  <2> QED BY <1>2, <2>1 DEF CallInv
<1> QED BY <1>4, <1>5

(* A transfer is made: x is done, and what was done still is. *)
LEMMA TransferKeepsCall ==
  ASSUME StoreTypeOK, CallInv, NEW c \in Callers, todo[c] # <<>>, Advance(c),
         NEW x, x = Head(todo[c]), DoneIn(params', ram', x),
         \A t \in AllTransfers : Apart(t, x) /\ DoneIn(params, ram, t) => DoneIn(params', ram', t),
         NoneAlone
  PROVE  CallInv'
<1>1. PICK q \in Seq(AllTransfers) : q = todo[c] /\ q # <<>> /\ x = Head(q)
  BY DEF StoreTypeOK
<1>2. /\ todo' = [todo EXCEPT ![c] = Tail(q)] /\ UNCHANGED alone
      /\ entries' = [entries EXCEPT ![c] = IF todo'[c] = <<>> THEN <<>> ELSE @]
  BY <1>1 DEF Advance
<1>3. todo'[c] = Tail(q) /\ \A d \in Callers \ {c} : todo'[d] = todo[d]
  BY <1>2 DEF StoreTypeOK
<1>4. \A s \in Slots : asked[s] = Nothing
  BY <1>1 DEF CallInv
<1>5. CASE c \notin alone
  <2>1. alone = {}
    BY <1>1, <1>5 DEF CallInv, StoreTypeOK
  <2>2. asked' = asked
    BY <1>5 DEF Advance
  <2> QED BY <1>2, <1>4, <2>1, <2>2 DEF CallInv
<1>6. CASE c \in alone
  <2>1. PICK l \in Maps :
          /\ l = entries[c] /\ (todo'[c] # <<>> => l = entries'[c])
          /\ Fits(l) /\ Range(q) \subseteq CallTransfers(l)
          /\ \A t \in CallTransfers(l) : t \in Range(q) \/ DoneIn(params, ram, t)
    BY <1>1, <1>2, <1>6 DEF CallInv, StoreTypeOK
  <2>2. /\ x \in CallTransfers(l) /\ Range(Tail(q)) \subseteq CallTransfers(l)
        /\ \A t \in Range(q) : t = x \/ t \in Range(Tail(q))
    BY <1>1, <2>1, FirstAndRest
  <2>3. ASSUME NEW t \in CallTransfers(l), t \notin Range(Tail(q))
        PROVE  DoneIn(params', ram', t)
    <3>1. CASE t = x
      BY <3>1
    <3>2. CASE t # x
      <4>1. Apart(t, x)
        BY <2>2, <3>2, TransfersApart
      <4>2. DoneIn(params, ram, t)
        BY <2>1, <2>2, <2>3, <3>2
      <4>3. t \in AllTransfers
        <5>1. PICK T \in Seq(AllTransfers) : Range(T) = CallTransfers(l)
          BY <2>1, CallIs
        <5> QED BY <5>1 DEF Range
      <4> QED BY <4>1, <4>2, <4>3
    <3> QED BY <3>1, <3>2
  <2>4. \A e \in alone : e = c
    BY <1>1, <1>6 DEF CallInv, StoreTypeOK
  <2>5. \A d \in Callers \ {c} : todo'[d] = <<>>
    BY <1>3, <1>6 DEF CallInv
  <2>6. ASSUME NEW s \in Slots, asked'[s] # Nothing
        PROVE  (\A d \in Callers : todo'[d] = <<>>) /\ PlayedIn(params', ram', s) = Samples(asked'[s])
    <3>1. todo'[c] = <<>>
      BY <1>4, <2>6 DEF Advance
    <3>2. asked' = [r \in Slots |->
                     IF \E i \in DOMAIN l : l[i].key = r
                     THEN LET i == CHOOSE i \in DOMAIN l : l[i].key = r IN  l[i].wave
                     ELSE Nothing]
      BY <1>6, <2>1, <3>1 DEF Advance
    <3>3. PICK i : i \in DOMAIN l /\ l[i].key = s /\ asked'[s] = l[i].wave
      BY <2>6, <3>2
    <3>4. i \in 1 .. Len(l)
      BY <3>3, MapsAre
    <3>5. \A t \in CallTransfers(l) : DoneIn(params', ram', t)
      <4>1. Range(Tail(q)) = {}
        BY <1>3, <3>1 DEF Range
      <4> QED BY <2>3, <4>1
    <3>6. PlayedIn(params', ram', s) = Samples(asked'[s])
      BY <3>3, <3>4, <3>5, AllDone
    <3> QED BY <2>5, <3>1, <3>6
  <2>7. \A s \in Slots : asked'[s] # Nothing =>
          (\A d \in Callers : todo'[d] = <<>>) /\ Played(s)' = Samples(asked'[s])
    BY <2>6 DEF Played, PlayedIn
  <2> QED BY <1>2, <1>3, <2>1, <2>2, <2>3, <2>4, <2>5, <2>7 DEF CallInv
<1> QED BY <1>5, <1>6

(* A transfer of parameters keeps the invariant. *)
LEMMA ParamsKeepCall ==
  ASSUME StoreTypeOK, CallInv, NEW c \in Callers, SetWaveParams(c), NoneAlone
  PROVE  CallInv'
<1>1. todo[c] # <<>> /\ Advance(c) /\ UNCHANGED ram
  BY DEF SetWaveParams
<1>2. PICK x \in AllTransfers : x = Head(todo[c])
  <2>1. todo[c] \in Seq(AllTransfers)
    BY DEF StoreTypeOK
  <2> QED BY <1>1, <2>1, FirstAndRest
<1>3. x.kind = "param" /\ params' = [params EXCEPT ![x.key][x.reg] = x.value]
  BY <1>2 DEF SetWaveParams
<1>4. ASSUME NEW t \in AllTransfers, t.kind = "param" PROVE t.key \in Slots /\ t.reg \in WaveRegisters
  <2>1. t \notin SampleTransfers
    BY <1>4 DEF SampleTransfers
  <2> QED BY <2>1 DEF AllTransfers, ParamTransfers
<1>5. DoneIn(params', ram', x)
  <2>1. x.key \in Slots /\ x.reg \in WaveRegisters
    BY <1>3, <1>4
  <2> QED BY <1>3, <2>1 DEF DoneIn, StoreTypeOK
<1>6. ASSUME NEW t \in AllTransfers, Apart(t, x), DoneIn(params, ram, t)
      PROVE  DoneIn(params', ram', t)
  <2>1. CASE t.kind = "param"
    <3>1. t.key # x.key \/ t.reg # x.reg
      BY <1>3, <1>6, <2>1 DEF Apart
    <3>2. t.key \in Slots /\ t.reg \in WaveRegisters /\ x.key \in Slots /\ x.reg \in WaveRegisters
      BY <1>3, <1>4, <2>1
    <3>3. params'[t.key][t.reg] = params[t.key][t.reg]
      BY <1>3, <3>1, <3>2 DEF StoreTypeOK
    <3> QED BY <1>6, <2>1, <3>3 DEF DoneIn
  <2>2. CASE t.kind # "param"
    BY <1>1, <1>6, <2>2 DEF DoneIn
  <2> QED BY <2>1, <2>2
<1> QED BY <1>1, <1>2, <1>5, <1>6, TransferKeepsCall

(* A transfer that is not of parameters is of samples. *)
LEMMA SampleTransferIs ==
  ASSUME NEW t \in AllTransfers, t.kind # "param"
  PROVE  /\ t.kind = "samples" /\ t.chunk.addr \in Nat /\ t.chunk.size \in Nat
         /\ t.chunk.addr + t.chunk.size <= AreaSize
<1>1. t \in SampleTransfers
  BY DEF AllTransfers, ParamTransfers
<1> QED BY <1>1 DEF SampleTransfers, Regions

(* A transfer of samples keeps the invariant. *)
LEMMA SamplesKeepCall ==
  ASSUME StoreTypeOK, CallInv, NEW c \in Callers, SendWaveSamples(c), NoneAlone
  PROVE  CallInv'
<1>1. todo[c] # <<>> /\ Advance(c) /\ UNCHANGED <<params, crossed, whole>>
  BY DEF SendWaveSamples
<1>2. PICK x \in AllTransfers : x = Head(todo[c])
  <2>1. todo[c] \in Seq(AllTransfers)
    BY DEF StoreTypeOK
  <2> QED BY <1>1, <2>1, FirstAndRest
<1>3. x.kind = "samples" /\ x.kind # "param"
  BY <1>2 DEF SendWaveSamples
<1>4. PICK a \in Nat, z \in Nat : a = x.chunk.addr /\ z = x.chunk.size /\ a + z <= AreaSize
  BY <1>3, SampleTransferIs
<1>5. PICK D : D = 0 .. (2 * AreaSize - 1) /\ DOMAIN ram = D
  BY DEF StoreTypeOK
<1>6. AreaSize \in Nat
  BY WaveStoreAssumption
<1>7. ram' = [d \in D |-> IF d \in a .. (a + z - 1) THEN <<x.wave, x.no, d - a>> ELSE ram[d]]
  BY <1>2, <1>4, <1>5 DEF SendWaveSamples
<1>8. DoneIn(params', ram', x)
  <2>1. ASSUME NEW b \in 0 .. z - 1 PROVE ram'[a + b] = <<x.wave, x.no, b>>
    <3>1. a + b \in D /\ a + b \in a .. (a + z - 1) /\ (a + b) - a = b
      <4>1. a + z <= AreaSize
        BY <1>4
      <4> QED BY <1>5, <1>6, <4>1
    <3> QED BY <1>7, <3>1
  <2> QED BY <1>3, <1>4, <2>1 DEF DoneIn
<1>9. ASSUME NEW t \in AllTransfers, Apart(t, x), DoneIn(params, ram, t)
      PROVE  DoneIn(params', ram', t)
  <2>1. CASE t.kind = "param"
    BY <1>1, <1>9, <2>1 DEF DoneIn
  <2>2. CASE t.kind # "param"
    <3>1. PICK u \in Nat, v \in Nat : u = t.chunk.addr /\ v = t.chunk.size /\ u + v <= AreaSize
      BY <2>2, SampleTransferIs
    <3>2. u + v <= a \/ a + z <= u
      BY <1>3, <1>4, <1>9, <2>2, <3>1 DEF Apart
    <3>3. ASSUME NEW b \in 0 .. v - 1 PROVE ram'[u + b] = ram[u + b]
      <4>1. u + b \in D /\ u + b \notin a .. (a + z - 1)
        <5>1. u + v <= AreaSize
          BY <3>1
        <5> QED BY <1>5, <1>6, <3>2, <5>1
      <4> QED BY <1>7, <4>1
    <3> QED BY <1>9, <2>2, <3>1, <3>3 DEF DoneIn
  <2> QED BY <2>1, <2>2
<1> QED BY <1>1, <1>2, <1>8, <1>9, TransferKeepsCall

(* A transfer that fails keeps the invariant. *)
LEMMA FailureKeepsCall ==
  ASSUME StoreTypeOK, CallInv, NEW c \in Callers, AccessFails(c)
  PROVE  CallInv'
<1>1. /\ todo[c] # <<>> /\ todo' = [todo EXCEPT ![c] = <<>>]
      /\ entries' = [entries EXCEPT ![c] = <<>>]
      /\ UNCHANGED <<ram, params, alone, asked>>
  BY DEF AccessFails, history
<1>2. todo'[c] = <<>> /\ \A d \in Callers \ {c} : todo'[d] = todo[d]
  BY <1>1 DEF StoreTypeOK
<1>3. \A s \in Slots : asked[s] = Nothing
  BY <1>1 DEF CallInv
<1>4. \A e \in alone : e = c
  BY <1>1 DEF CallInv
<1> QED BY <1>1, <1>2, <1>3, <1>4 DEF CallInv

(* When a call that no other has overlapped returns, each of its slots     *)
(* plays the wave that was registered for it, to the last sample.          *)
THEOREM WavesAreAsRegistered ==
  ASSUME NoneAlone
  PROVE  StoreSpec => []AsRegistered
<1>1. ASSUME StoreTypeOK, CallInv, [StoreNext]_storeVars
      PROVE  CallInv'
  <2>1. CASE UNCHANGED storeVars
    BY <1>1, <2>1 DEF storeVars, history, CallInv, Played
  <2>2. CASE StoreNext
    BY <1>1, <2>2, RegisterKeepsCall, ParamsKeepCall, SamplesKeepCall, FailureKeepsCall
       DEF StoreNext
  <2> QED BY <1>1, <2>1, <2>2
<1>2. CallInv => AsRegistered
  BY DEF CallInv, AsRegistered
<1> QED BY <1>1, <1>2, CallStarts, StoreTypeCorrect, PTL DEF StoreSpec

-----------------------------------------------------------------------------
(* What a capture needs (CaptureParams). *)

(* What fits into k blocks of p fits if it is filled up to a block. *)
LEMMA FilledUp ==
  ASSUME NEW p \in Nat \ {0}, NEW m \in Nat, NEW k \in Nat, m <= p * k
  PROVE  CeilDiv(m, p) \in Nat /\ CeilDiv(m, p) <= k
<1>1. PICK x \in Nat : x = m + p - 1
  OBVIOUS
<1>2. PICK q \in Nat : q = x \div p /\ p * q <= x
  BY <1>1, Division
<1>3. p * q < p * k + p
  BY <1>1, <1>2
<1>4. q <= k
  BY <1>3, Multiples
<1> QED BY <1>1, <1>2, <1>4 DEF CeilDiv

(* The place of the k-th of S sections that are repeated N times.          *)
LEMMA PlaceIs ==
  ASSUME NEW S \in Nat \ {0}, NEW N \in Nat, NEW k \in Nat, k < N * S
  PROVE  /\ k \div S \in 0 .. N - 1 /\ k % S \in 0 .. S - 1
         /\ k = S * (k \div S) + (k % S)
<1>1. PICK q \in Nat, r \in Nat : q = k \div S /\ r = k % S /\ r < S /\ k = S * q + r
  <2>1. /\ k \div S \in Nat /\ k % S \in Nat /\ k % S < S /\ k = S * (k \div S) + (k % S)
    BY Remainder
  <2> QED BY <2>1, Zenon
<1>2. q < N
  <2>1. S * q < S * N
    <3>1. N * S = S * N /\ S * N \in Nat /\ S * q \in Nat
      OBVIOUS
    <3> QED BY <1>1, <3>1
  <2>2. CASE N <= q
    <3>1. S * N <= S * q
      BY <2>2, Multiples
    <3>2. S * N \in Nat /\ S * q \in Nat
      OBVIOUS
    <3> QED BY <2>1, <3>1, <3>2
  <2>3. CASE ~(N <= q)
    BY <2>3
  <2> QED BY <2>2, <2>3
<1>3. q \in 0 .. N - 1 /\ r \in 0 .. S - 1
  BY <1>1, <1>2
<1> QED BY <1>1, <1>3, Zenon

(* The section with the place i and j.                                     *)
AtPlace(S, N, i, j, k) ==
  k \in 1 .. N * S /\ (k - 1) \div S = i /\ ((k - 1) % S) + 1 = j

LEMMA PlaceOf ==
  ASSUME NEW S \in Nat \ {0}, NEW N \in Nat, NEW i \in 0 .. N - 1, NEW j \in 1 .. S
  PROVE  AtPlace(S, N, i, j, i * S + j)
<1>1. PICK b \in Nat : b = i * S /\ b = S * i
  OBVIOUS
<1>2. PICK c \in Nat : c = N * S /\ c = S * N
  OBVIOUS
<1>3. b + S <= c
  <2>1. S * (i + 1) <= S * N
    <3>1. i + 1 \in Nat /\ N \in Nat /\ i + 1 <= N
      OBVIOUS
    <3> QED BY <3>1, Multiples
  <2>2. S * (i + 1) = S * i + S
    OBVIOUS
  <2> QED BY <1>1, <1>2, <2>1, <2>2
<1>4. b + j \in 1 .. c
  BY <1>3
<1>5. PICK a \in Nat : a = (b + j) - 1
  BY <1>4
<1>6. PICK m \in Nat : m = j - 1 /\ m < S
  OBVIOUS
<1>7. a = S * i + m
  BY <1>1, <1>5, <1>6
<1>8. a \div S = i /\ a % S = m
  <2>1. i \in Nat
    OBVIOUS
  <2> QED BY <1>6, <1>7, <2>1, Remainder
<1>9. PICK k : k = b + j
  OBVIOUS
<1>10. AtPlace(S, N, i, j, k)
  <2>1. k \in 1 .. N * S
    BY <1>2, <1>4, <1>9
  <2>2. k - 1 = a
    BY <1>5, <1>9
  <2>3. (k - 1) \div S = i /\ (k - 1) % S = m
    BY <1>8, <2>2, Zenon
  <2>4. m + 1 = j
    BY <1>6
  <2> QED BY <2>1, <2>3, <2>4, Zenon DEF AtPlace
<1> QED BY <1>1, <1>9, <1>10

(* Numbers that are added once more, from b.                               *)
AddsUp(f, b, a, l) ==
  f[b] = a /\ \A j \in 1 .. Len(l) : f[b + j] = f[b + (j - 1)] + l[j]

LEMMA OneRound ==
  ASSUME NEW l \in Seq(Nat), NEW f, NEW b \in Nat, NEW a \in Nat, AddsUp(f, b, a, l)
  PROVE  \A j \in 0 .. Len(l) : f[b + j] = a + Sums(l)[j]
<1>0. PICK n \in Nat : n = Len(l)
  OBVIOUS
<1>1. PICK s : s = Sums(l)
  OBVIOUS
<1>2. /\ s \in [0 .. n -> Nat] /\ s[0] = 0
      /\ \A j \in 1 .. n : s[j] = s[j - 1] + l[j] /\ l[j] \in Nat
  <2>1. \A j \in 1 .. n : l[j] \in Nat
    BY <1>0
  <2> QED BY <1>0, <1>1, <2>1, SumsAre
<1> DEFINE T == {j \in Nat : j <= n => f[b + j] = a + s[j]}
<1>3. 0 \in T
  BY <1>2 DEF AddsUp
<1>4. ASSUME NEW j \in Nat, j \in T PROVE j + 1 \in T
  <2>1. SUFFICES ASSUME j + 1 <= n PROVE f[b + (j + 1)] = a + s[j + 1]
    OBVIOUS
  <2>2. f[b + j] = a + s[j] /\ j + 1 \in 1 .. n /\ (j + 1) - 1 = j
    BY <1>4, <2>1
  <2>3. f[b + (j + 1)] = f[b + j] + l[j + 1]
    BY <1>0, <2>2 DEF AddsUp
  <2>4. s[j + 1] = s[j] + l[j + 1] /\ s[j] \in Nat /\ l[j + 1] \in Nat
    BY <1>2, <2>2
  <2> QED BY <2>2, <2>3, <2>4
<1>5. Nat \subseteq T
  <2> HIDE DEF T
  <2> QED BY <1>3, <1>4, SetInduction
<1> QED BY <1>0, <1>1, <1>5

(* The sums of numbers that are repeated N times.                          *)
RepeatedList(l, S, N, k) ==
  /\ l \in Seq(Nat) /\ S = Len(l) /\ k \in Seq(Nat) /\ Len(k) = N * S
  /\ \A x \in 1 .. N * S : k[x] = l[((x - 1) % S) + 1]

SumsRepeat(l, S, N, k) ==
  /\ \A i \in 0 .. N - 1 : \A j \in 0 .. S : Sums(k)[i * S + j] = i * SumAll(l) + Sums(l)[j]
  /\ SumAll(k) = N * SumAll(l)

LEMMA RepeatedSums ==
  ASSUME NEW S \in Nat \ {0}, NEW N \in Nat, NEW l, NEW k, RepeatedList(l, S, N, k)
  PROVE  SumsRepeat(l, S, N, k)
<1>0. /\ l \in Seq(Nat) /\ S = Len(l) /\ k \in Seq(Nat) /\ Len(k) = N * S
      /\ \A x \in 1 .. N * S : k[x] = l[((x - 1) % S) + 1]
  BY DEF RepeatedList
<1>1. PICK t \in Nat : t = SumAll(l) /\ t = Sums(l)[S]
  BY <1>0, SumIs
<1>2. PICK f : f = Sums(k)
  OBVIOUS
<1>3. f[0] = 0 /\ \A x \in 1 .. N * S : f[x] = f[x - 1] + k[x]
  BY <1>0, <1>2, SumsAre
<1> DEFINE Round(i) == \A j \in 0 .. S : f[i * S + j] = i * t + Sums(l)[j]
<1>4. ASSUME NEW i \in Nat, i < N, f[i * S] = i * t PROVE Round(i)
  <2>1. PICK b \in Nat, a \in Nat : b = i * S /\ a = i * t
    OBVIOUS
  <2>2. ASSUME NEW j \in 1 .. S PROVE f[b + j] = f[b + (j - 1)] + l[j]
    <3>1. i \in 0 .. N - 1
      BY <1>4
    <3>2. AtPlace(S, N, i, j, b + j)
      BY <2>1, <3>1, PlaceOf
    <3>3. PICK x : x = b + j
      OBVIOUS
    <3>4. x \in 1 .. N * S /\ ((x - 1) % S) + 1 = j
      BY <3>2, <3>3, Zenon DEF AtPlace
    <3>5. k[x] = l[j]
      BY <1>0, <3>4, Zenon
    <3>6. x - 1 = b + (j - 1)
      BY <2>1, <3>3
    <3> QED BY <1>3, <3>3, <3>4, <3>5, <3>6
  <2>3. f[b] = a
    BY <1>4, <2>1
  <2>4. \A j \in 1 .. Len(l) : f[b + j] = f[b + (j - 1)] + l[j]
    BY <1>0, <2>2
  <2>5. \A j \in 0 .. Len(l) : f[b + j] = a + Sums(l)[j]
    <3>1. AddsUp(f, b, a, l)
      BY <2>3, <2>4 DEF AddsUp
    <3> QED BY <1>0, <3>1, OneRound
  <2>6. \A j \in 0 .. S : f[b + j] = a + Sums(l)[j]
    BY <1>0, <2>5
  <2> QED BY <2>1, <2>6
<1> DEFINE T == {i \in Nat : i <= N => f[i * S] = i * t}
<1>5. 0 \in T
  BY <1>3
<1>6. ASSUME NEW i \in Nat, i \in T PROVE i + 1 \in T
  <2>1. SUFFICES ASSUME i + 1 <= N PROVE f[(i + 1) * S] = (i + 1) * t
    OBVIOUS
  <2>2. i < N /\ f[i * S] = i * t
    BY <1>6, <2>1
  <2>3. Round(i)
    BY <1>4, <2>2
  <2>4. f[i * S + S] = i * t + t
    <3>1. PICK b \in Nat, a \in Nat : b = i * S /\ a = i * t
      OBVIOUS
    <3>2. \A j \in 0 .. S : f[b + j] = a + Sums(l)[j]
      BY <2>3, <3>1
    <3>3. S \in 0 .. S
      OBVIOUS
    <3>4. f[b + S] = a + t
      BY <1>1, <3>2, <3>3
    <3> QED BY <3>1, <3>4
  <2>5. (i + 1) * S = i * S + S /\ (i + 1) * t = i * t + t
    OBVIOUS
  <2> QED BY <2>4, <2>5
<1>7. Nat \subseteq T
  <2> HIDE DEF T
  <2> QED BY <1>5, <1>6, SetInduction
<1>8. f[N * S] = N * t
  <2> HIDE DEF Round
  <2> QED BY <1>7
<1>9. \A i \in 0 .. N - 1 : Round(i)
  <2>1. ASSUME NEW i \in 0 .. N - 1 PROVE Round(i)
    <3>1. i \in Nat /\ i < N
      OBVIOUS
    <3>2. f[i * S] = i * t
      <4> HIDE DEF Round
      <4> QED BY <1>7, <3>1
    <3> HIDE DEF Round
    <3> QED BY <1>4, <3>1, <3>2
  <2> HIDE DEF Round
  <2> QED BY <2>1
<1>10. SumAll(k) = f[N * S]
  BY <1>0, <1>2 DEF SumAll
<1> HIDE DEF T
<1> QED BY <1>1, <1>2, <1>8, <1>9, <1>10 DEF SumsRepeat

(* Sequences of the lengths lens, and what they are put together.          *)
HasLengths(seqs, lens, V) ==
  /\ seqs \in Seq(Seq(V)) /\ lens \in Seq(Nat) /\ Len(lens) = Len(seqs)
  /\ \A i \in 1 .. Len(seqs) : lens[i] = Len(seqs[i])

Together(flat, seqs, lens, V) ==
  /\ flat \in Seq(V) /\ Len(flat) = SumAll(lens)
  /\ \A i \in 1 .. Len(seqs) : \A m \in 1 .. lens[i] : flat[Sums(lens)[i - 1] + m] = seqs[i][m]

LEMMA FlatIs ==
  ASSUME NEW V, NEW seqs, NEW lens, HasLengths(seqs, lens, V)
  PROVE  Together(FlattenSeq(seqs), seqs, lens, V)
<1>1. /\ seqs \in Seq(Seq(V)) /\ lens \in Seq(Nat) /\ Len(lens) = Len(seqs)
      /\ \A i \in 1 .. Len(seqs) : lens[i] = Len(seqs[i])
  BY DEF HasLengths
<1>2. /\ FlattenSeq(seqs) \in Seq(V) /\ Len(FlattenSeq(seqs)) = SumAll(lens)
      /\ \A i \in 1 .. Len(seqs) : \A m \in 1 .. lens[i] :
           FlattenSeq(seqs)[Sums(lens)[i - 1] + m] = seqs[i][m]
  BY <1>1, FlattenAre
<1> QED BY <1>2 DEF Together

(* N sequences of S sequences, whose lengths are l.                        *)
Rows(E, N, l, V) ==
  \A i \in 1 .. N :
    /\ E[i] \in Seq(Seq(V)) /\ Len(E[i]) = Len(l)
    /\ \A j \in 1 .. Len(l) : Len(E[i][j]) = l[j]

(* All of them, as one sequence of N * S sequences.                        *)
AllRows(E, N, S, D, V) ==
  /\ D \in Seq(Seq(V)) /\ Len(D) = N * S
  /\ \A k \in 1 .. N * S : D[k] = E[((k - 1) \div S) + 1][((k - 1) % S) + 1]

(* Each of the N put together.                                             *)
LEMMA RowsFlat ==
  ASSUME NEW V, NEW N \in Nat, NEW l \in Seq(Nat), NEW E, Rows(E, N, l, V), NEW i \in 1 .. N
  PROVE  Together(FlattenSeq(E[i]), E[i], l, V) /\ Len(E[i]) = Len(l)
<1>1. HasLengths(E[i], l, V)
  BY DEF Rows, HasLengths
<1> QED BY <1>1, FlatIs DEF Rows

(* All of them put together.                                               *)
RowsTogether(flat, E, N, l, V) ==
  /\ flat \in Seq(V) /\ Len(flat) = N * SumAll(l)
  /\ \A i \in 1 .. N : \A j \in 1 .. Len(l) : \A m \in 1 .. l[j] :
       flat[(i - 1) * SumAll(l) + (Sums(l)[j - 1] + m)] = E[i][j][m]

LEMMA AllRowsFlat ==
  ASSUME NEW V, NEW N \in Nat, NEW l \in Seq(Nat), NEW E, Rows(E, N, l, V),
         NEW D, AllRows(E, N, Len(l), D, V)
  PROVE  RowsTogether(FlattenSeq(D), E, N, l, V)
<1>1. PICK S \in Nat : S = Len(l)
  OBVIOUS
<1>2. PICK t \in Nat : t = SumAll(l) /\ t = Sums(l)[S]
  BY <1>1, SumIs
<1>3. PICK M \in Nat : M = N * S
  OBVIOUS
<1>4. D \in Seq(Seq(V)) /\ Len(D) = M
  BY <1>1, <1>3 DEF AllRows
<1>5. CASE S = 0
  <2>1. M = 0
    BY <1>3, <1>5
  <2>2. /\ FlattenSeq(D) \in Seq(V) /\ Len(FlattenSeq(D)) = SumAll(l)
    <3>1. Len(l) = Len(D) /\ \A i \in 1 .. Len(D) : l[i] = Len(D[i])
      BY <1>1, <1>4, <1>5, <2>1
    <3>2. HasLengths(D, l, V)
      BY <1>4, <3>1 DEF HasLengths
    <3> QED BY <3>2, FlatIs DEF Together
  <2>3. Sums(l)[0] = 0
    BY SumsAre
  <2>4. t = 0 /\ N * t = t
    <3>1. t = 0
      BY <1>2, <1>5, <2>3
    <3> QED BY <3>1
  <2>5. Len(FlattenSeq(D)) = N * SumAll(l)
    BY <1>2, <2>2, <2>4, Zenon
  <2>6. 1 .. Len(l) = {}
    BY <1>1, <1>5
  <2> QED BY <2>2, <2>5, <2>6, Zenon DEF RowsTogether
<1>6. CASE S # 0
  <2>1. PICK k : k = [x \in 1 .. M |-> l[((x - 1) % S) + 1]]
    OBVIOUS
  <2>2. ASSUME NEW x \in 1 .. M
        PROVE  \E i \in 1 .. N, j \in 1 .. S :
                 /\ i = ((x - 1) \div S) + 1 /\ j = ((x - 1) % S) + 1
                 /\ D[x] = E[i][j] /\ Len(D[x]) = l[j]
    <3>1. PICK y \in Nat : y = x - 1 /\ y < N * S
      BY <1>3
    <3>2. y \div S \in 0 .. N - 1 /\ y % S \in 0 .. S - 1
      BY <1>6, <3>1, PlaceIs
    <3>3. PICK i \in 1 .. N, j \in 1 .. S : i = (y \div S) + 1 /\ j = (y % S) + 1
      <4>1. PICK q \in 0 .. N - 1, m \in 0 .. S - 1 : q = y \div S /\ m = y % S
        BY <3>2, Zenon
      <4>2. q + 1 \in 1 .. N /\ m + 1 \in 1 .. S
        OBVIOUS
      <4> QED BY <4>1, <4>2, Zenon
    <3>4. i = ((x - 1) \div S) + 1 /\ j = ((x - 1) % S) + 1
      BY <3>1, <3>3
    <3>5. D[x] = E[i][j]
      BY <1>1, <1>3, <3>4 DEF AllRows
    <3>6. Len(E[i][j]) = l[j]
      BY <1>1 DEF Rows
    <3> QED BY <3>4, <3>5, <3>6
  <2>3. k \in Seq(Nat) /\ Len(k) = M /\ \A x \in 1 .. M : k[x] = l[((x - 1) % S) + 1]
    <3>1. ASSUME NEW x \in 1 .. M PROVE l[((x - 1) % S) + 1] \in Nat
      <4>1. PICK j \in 1 .. S : j = ((x - 1) % S) + 1
        BY <2>2
      <4>2. l[j] \in Nat
        BY <1>1
      <4> QED BY <4>1, <4>2, Zenon
    <3>2. k \in [1 .. M -> Nat]
      BY <2>1, <3>1
    <3>3. k \in Seq(Nat) /\ Len(k) = M
      BY <3>2, ListIs
    <3> QED BY <2>1, <3>3
  <2>4. \A x \in 1 .. Len(D) : k[x] = Len(D[x])
    <3>1. ASSUME NEW x \in 1 .. M PROVE k[x] = Len(D[x])
      <4>1. PICK j : j = ((x - 1) % S) + 1 /\ Len(D[x]) = l[j]
        BY <2>2
      <4> QED BY <2>3, <4>1, Zenon
    <3> QED BY <1>4, <3>1
  <2>5. /\ FlattenSeq(D) \in Seq(V) /\ Len(FlattenSeq(D)) = SumAll(k)
        /\ \A x \in 1 .. Len(D) : \A m \in 1 .. k[x] :
             FlattenSeq(D)[Sums(k)[x - 1] + m] = D[x][m]
    <3>1. HasLengths(D, k, V)
      BY <1>4, <2>3, <2>4 DEF HasLengths
    <3> QED BY <3>1, FlatIs DEF Together
  <2>6. /\ \A i \in 0 .. N - 1 : \A j \in 0 .. S : Sums(k)[i * S + j] = i * SumAll(l) + Sums(l)[j]
        /\ SumAll(k) = N * SumAll(l)
    <3>1. Len(k) = N * S /\ \A x \in 1 .. N * S : k[x] = l[((x - 1) % S) + 1]
      BY <1>3, <2>3
    <3>2. S \in Nat \ {0}
      BY <1>6
    <3>3. RepeatedList(l, S, N, k)
      BY <1>1, <2>3, <3>1 DEF RepeatedList
    <3> QED BY <3>2, <3>3, RepeatedSums DEF SumsRepeat
  <2>7. ASSUME NEW i \in 1 .. N, NEW j \in 1 .. S, NEW m \in 1 .. l[j]
        PROVE  FlattenSeq(D)[(i - 1) * t + (Sums(l)[j - 1] + m)] = E[i][j][m]
    <3>1. PICK h \in 0 .. N - 1 : h = i - 1 /\ i = h + 1
      OBVIOUS
    <3>2. PICK x : x = h * S + j
      OBVIOUS
    <3>3. AtPlace(S, N, h, j, x)
      BY <1>6, <3>2, PlaceOf
    <3>4. x \in 1 .. M /\ (x - 1) \div S = h /\ ((x - 1) % S) + 1 = j
      BY <1>3, <3>3, Zenon DEF AtPlace
    <3>5. D[x] = E[i][j] /\ k[x] = l[j]
      <4>1. D[x] = E[((x - 1) \div S) + 1][((x - 1) % S) + 1]
        BY <1>1, <1>3, <3>4 DEF AllRows
      <4>2. k[x] = l[((x - 1) % S) + 1]
        BY <2>3, <3>4
      <4> QED BY <3>1, <3>4, <4>1, <4>2, Zenon
    <3>6. FlattenSeq(D)[Sums(k)[x - 1] + m] = E[i][j][m]
      <4>1. x \in 1 .. Len(D) /\ m \in 1 .. k[x]
        BY <1>4, <3>4, <3>5
      <4>2. FlattenSeq(D)[Sums(k)[x - 1] + m] = D[x][m]
        BY <2>5, <4>1
      <4> QED BY <3>5, <4>2, Zenon
    <3>7. Sums(k)[x - 1] = h * t + Sums(l)[j - 1]
      <4>1. j - 1 \in 0 .. S
        OBVIOUS
      <4>2. Sums(k)[h * S + (j - 1)] = h * t + Sums(l)[j - 1]
        BY <1>2, <2>6, <4>1
      <4>3. x - 1 = h * S + (j - 1)
        <5>1. PICK b \in Nat : b = h * S
          OBVIOUS
        <5> QED BY <3>2, <5>1
      <4> QED BY <4>2, <4>3, Zenon
    <3>8. Sums(l)[j - 1] \in Nat /\ h * t \in Nat
      <4>1. j - 1 \in 0 .. Len(l)
        BY <1>1
      <4>2. Sums(l)[j - 1] \in Nat
        BY <4>1, SumIs
      <4> QED BY <4>2
    <3>9. PICK u \in Nat, v \in Nat : u = h * t /\ v = Sums(l)[j - 1]
      BY <3>8
    <3>10. (u + v) + m = u + (v + m)
      OBVIOUS
    <3>11. FlattenSeq(D)[(u + v) + m] = E[i][j][m]
      BY <3>6, <3>7, <3>9, Zenon
    <3>12. FlattenSeq(D)[u + (v + m)] = E[i][j][m]
      BY <3>10, <3>11, Zenon
    <3> QED BY <3>1, <3>9, <3>12, Zenon
  <2>8. FlattenSeq(D) \in Seq(V) /\ Len(FlattenSeq(D)) = N * SumAll(l)
    BY <2>5, <2>6
  <2> QED BY <1>1, <1>2, <2>7, <2>8 DEF RowsTogether
<1> QED BY <1>5, <1>6

(* It is the same to put each of the N together first.                     *)
LEMMA FlattenTwice ==
  ASSUME NEW V, NEW N \in Nat, NEW l \in Seq(Nat), NEW E, Rows(E, N, l, V),
         NEW D, AllRows(E, N, Len(l), D, V)
  PROVE  FlattenSeq(D) = FlattenSeq([i \in 1 .. N |-> FlattenSeq(E[i])])
<1>1. PICK t \in Nat : t = SumAll(l)
  BY SumIs
<1>2. PICK M \in Nat : M = N * t
  OBVIOUS
<1>3. PICK F : F = FlattenSeq(D)
  OBVIOUS
<1>4. /\ F \in Seq(V) /\ Len(F) = M
      /\ \A i \in 1 .. N : \A j \in 1 .. Len(l) : \A m \in 1 .. l[j] :
           F[(i - 1) * t + (Sums(l)[j - 1] + m)] = E[i][j][m]
  <2>1. RowsTogether(FlattenSeq(D), E, N, l, V)
    BY AllRowsFlat
  <2> QED BY <1>1, <1>2, <1>3, <2>1 DEF RowsTogether
<1>5. PICK s : s = [i \in 1 .. N |-> FlattenSeq(E[i])]
  OBVIOUS
<1>6. \A i \in 1 .. N : FlattenSeq(E[i]) \in Seq(V) /\ Len(FlattenSeq(E[i])) = t
  BY <1>1, RowsFlat DEF Together
<1>7. s \in Seq(Seq(V)) /\ Len(s) = N /\ \A i \in 1 .. N : s[i] = FlattenSeq(E[i])
  <2>1. s \in [1 .. N -> Seq(V)]
    BY <1>5, <1>6
  <2> QED BY <1>5, <2>1, ListIs
<1>8. PICK ev : ev = [i \in 1 .. N |-> t]
  OBVIOUS
<1>9. ev \in Seq(Nat) /\ Len(ev) = N /\ \A i \in 1 .. N : ev[i] = t
  <2>1. ev \in [1 .. N -> Nat]
    BY <1>8
  <2> QED BY <1>8, <2>1, ListIs
<1>10. SumAll(ev) = M /\ \A i \in 0 .. N : Sums(ev)[i] = t * i
  <2>1. \A i \in 0 .. Len(ev) : Sums(ev)[i] = t * i
    BY <1>9, EvenSums
  <2>2. SumAll(ev) = Sums(ev)[N]
    BY <1>9 DEF SumAll
  <2>3. N \in 0 .. Len(ev)
    BY <1>9
  <2>4. SumAll(ev) = t * N
    BY <2>1, <2>2, <2>3
  <2>5. t * N = N * t
    OBVIOUS
  <2> QED BY <1>2, <1>9, <2>1, <2>4, <2>5
<1>11. PICK G : G = FlattenSeq(s)
  OBVIOUS
<1>12. /\ G \in Seq(V) /\ Len(G) = M
       /\ \A i \in 1 .. N : \A y \in 1 .. t : G[Sums(ev)[i - 1] + y] = s[i][y]
  <2>1. Len(ev) = Len(s) /\ \A i \in 1 .. Len(s) : ev[i] = Len(s[i])
    BY <1>6, <1>7, <1>9
  <2>2. /\ FlattenSeq(s) \in Seq(V) /\ Len(FlattenSeq(s)) = SumAll(ev)
        /\ \A i \in 1 .. Len(s) : \A m \in 1 .. ev[i] : FlattenSeq(s)[Sums(ev)[i - 1] + m] = s[i][m]
    <3>1. HasLengths(s, ev, V)
      BY <1>7, <1>9, <2>1 DEF HasLengths
    <3> QED BY <3>1, FlatIs DEF Together
  <2> QED BY <1>7, <1>9, <1>10, <1>11, <2>2
<1>13. ASSUME NEW x \in 1 .. M PROVE F[x] = G[x]
  <2>1. PICK z \in Nat : z = x - 1 /\ z < N * t /\ x = z + 1
    BY <1>2
  <2>2. t # 0
    <3>1. CASE t = 0
      <4>1. N * t = 0
        BY <3>1
      <4> QED BY <2>1, <4>1
    <3> QED BY <3>1
  <2>3. z \div t \in 0 .. N - 1 /\ z % t \in 0 .. t - 1 /\ z = t * (z \div t) + (z % t)
    BY <2>1, <2>2, PlaceIs
  <2>4. PICK h \in 0 .. N - 1, r \in 0 .. t - 1 : z = t * h + r
    BY <2>3, Zenon
  <2>5. PICK i \in 1 .. N : i = h + 1 /\ i - 1 = h
    BY <2>4
  <2>6. PICK y \in 1 .. t : y = r + 1
    BY <2>4
  <2>7. PICK b \in Nat : b = t * h /\ b = h * t
    OBVIOUS
  <2>8. x = b + y
    BY <2>1, <2>4, <2>6, <2>7
  <2>9. G[x] = FlattenSeq(E[i])[y]
    <3>1. i - 1 \in 0 .. N
      BY <2>5
    <3>2. Sums(ev)[i - 1] = b
      BY <1>10, <2>5, <2>7, <3>1
    <3>3. G[b + y] = s[i][y]
      BY <1>12, <3>2, Zenon
    <3> QED BY <1>7, <2>8, <3>3, Zenon
  <2>10. PICK j \in 1 .. Len(l) : \E m \in 1 .. l[j] : y = Sums(l)[j - 1] + m
    BY <1>1, FindPart
  <2>11. PICK m \in 1 .. l[j] : y = Sums(l)[j - 1] + m
    BY <2>10
  <2>12. FlattenSeq(E[i])[y] = E[i][j][m]
    <3>1. Together(FlattenSeq(E[i]), E[i], l, V) /\ Len(E[i]) = Len(l)
      BY RowsFlat
    <3> QED BY <2>11, <3>1 DEF Together
  <2>13. F[h * t + y] = E[i][j][m]
    BY <1>4, <2>5, <2>11
  <2>14. F[x] = E[i][j][m]
    BY <2>7, <2>8, <2>13, Zenon
  <2> QED BY <2>9, <2>12, <2>14, Zenon
<1>14. F = G
  <2>1. F = [x \in 1 .. M |-> F[x]] /\ G = [x \in 1 .. M |-> G[x]]
    BY <1>4, <1>12
  <2> QED BY <1>13, <2>1
<1> QED BY <1>3, <1>5, <1>11, <1>14, Zenon

(* What a parameter object can hold. *)
SectionType == (1 .. MAX_SUM_SECTION_LEN) \X (Nat \ {0})

ParamType ==
  [integ : Nat \ {0}, sections : Seq(SectionType), units : SUBSET DspUnit, delay : Nat,
   start : 0 .. MAX_SUM_SECTION_LEN, count : Nat \ {0}]

(* What is assumed of the limits and of the arguments. *)
LEMMA CaptureLimits ==
  /\ MAX_SUM_SECTION_LEN \in Nat \ {0} /\ MAX_SUM_SECTIONS \in Nat /\ MAX_INTEG_SECTIONS \in Nat
  /\ CAPTURE_START_DELAY \in Nat /\ WaveLen \in Nat /\ Sections \subseteq Int \X Int
  /\ Delays \subseteq Int /\ SumStarts \subseteq Int /\ SumCounts \subseteq Int
BY CaptureConstants

(* Decimation takes every fourth sample. *)
Stride(p) == IF Enabled(p, "DECIMATION") THEN 4 ELSE 1

(* A section, and what is kept of it. *)
LEMMA SectionKept ==
  ASSUME NEW p \in ParamType, NEW j \in 1 .. Len(p.sections)
  PROVE  /\ p.sections[j][1] \in Nat /\ p.sections[j][1] <= MAX_SUM_SECTION_LEN
         /\ p.sections[j][2] \in Nat
         /\ KeptCount(p, j) \in Nat /\ KeptCount(p, j) <= 4 * p.sections[j][1]
         /\ KeptCount(p, j) = NumWordsLeft(p, p.sections[j][1]) * 4
         /\ \A n \in Nat : n < KeptCount(p, j) =>
              n * Stride(p) \in Nat /\ n * Stride(p) < 4 * p.sections[j][1]
<1>1. p.sections \in Seq(SectionType)
  BY DEF ParamType
<1>2. p.sections[j] \in SectionType
  BY <1>1, ElementOfSeq
<1>3. PICK w \in Nat, b \in Nat :
        w = p.sections[j][1] /\ b = p.sections[j][2] /\ w <= MAX_SUM_SECTION_LEN
  <2>1. p.sections[j][1] \in 1 .. MAX_SUM_SECTION_LEN /\ p.sections[j][2] \in Nat \ {0}
    BY <1>2, Zenon DEF SectionType
  <2>2. MAX_SUM_SECTION_LEN \in Nat
    BY CaptureLimits
  <2>3. /\ p.sections[j][1] \in Nat /\ p.sections[j][1] <= MAX_SUM_SECTION_LEN
        /\ p.sections[j][2] \in Nat
    BY <2>1, <2>2
  <2> QED BY <2>3, Zenon
<1>4. CASE Enabled(p, "DECIMATION")
  <2>1. PICK q \in Nat : q = w \div 4 /\ 4 * q <= w
    OBVIOUS
  <2>2. KeptCount(p, j) = 4 * q /\ NumWordsLeft(p, w) = q /\ Stride(p) = 4
    BY <1>3, <1>4, <2>1 DEF KeptCount, NumWordsLeft, Stride
  <2>3. PICK k \in Nat : k = 4 * q /\ k = q * 4 /\ k <= 4 * w
    BY <2>1
  <2>4. \A n \in Nat : n < k => n * 4 \in Nat /\ n * 4 < 4 * w
    BY <2>1, <2>3
  <2>5. \A n \in Nat : n < k => n * Stride(p) \in Nat /\ n * Stride(p) < 4 * w
    BY <2>2, <2>4
  <2>6. KeptCount(p, j) = k /\ NumWordsLeft(p, w) * 4 = k
    BY <2>2, <2>3
  <2> QED BY <1>3, <2>3, <2>5, <2>6
<1>5. CASE ~ Enabled(p, "DECIMATION")
  <2>1. KeptCount(p, j) = 4 * w /\ NumWordsLeft(p, w) = w /\ Stride(p) = 1
    BY <1>3, <1>5 DEF KeptCount, NumWordsLeft, Stride
  <2> QED BY <1>3, <2>1, SMTT(30)
<1> QED BY <1>4, <1>5

(* The first block of the wave that does not begin within the delay. *)
DelayOf(p) == (CAPTURE_START_DELAY + p.delay + 1) * 4

FirstBlock(p) ==
  CHOOSE b \in DelayOf(p) .. DelayOf(p) + NUM_SAMPLES_IN_WAVE_BLOCK - 1 :
    b % NUM_SAMPLES_IN_WAVE_BLOCK = 0

LEMMA WasteIs ==
  ASSUME NEW p \in ParamType
  PROVE  NumSamplesToWaste(p.delay) \in Nat /\ NumSamplesToWaste(p.delay) = FirstBlock(p)
<1>1. PICK B \in Nat \ {0} : B = NUM_SAMPLES_IN_WAVE_BLOCK
  BY HwParamConstants
<1>2. PICK e \in Nat : e = DelayOf(p)
  <2>1. PICK c \in Nat, d \in Nat : c = CAPTURE_START_DELAY /\ d = p.delay
    BY CaptureLimits DEF ParamType
  <2>2. (c + d + 1) * 4 \in Nat
    OBVIOUS
  <2> QED BY <2>1, <2>2 DEF DelayOf
<1>3. PICK x \in Nat : x = e + B - 1
  OBVIOUS
<1>4. PICK q \in Nat : q = x \div B /\ B * q <= x /\ x < B * q + B
  BY Division
<1>5. PICK b \in Nat : b = B * q
  OBVIOUS
<1>6. NumSamplesToWaste(p.delay) = b
  <2>1. NumSamplesToWaste(p.delay) = (x \div B) * B
    BY <1>1, <1>2, <1>3 DEF NumSamplesToWaste, CeilDiv, NUM_SAMPLES_IN_ADC_WORD, DelayOf
  <2>2. q * B = B * q
    OBVIOUS
  <2> QED BY <1>4, <1>5, <2>1, <2>2
<1>7. b \in e .. e + B - 1 /\ b % B = 0
  <2>1. b \in e .. e + B - 1
    BY <1>3, <1>4, <1>5
  <2>2. b % B = 0
    <3>1. 0 \in Nat /\ 0 < B /\ b = B * q + 0
      BY <1>5
    <3> QED BY <3>1, Remainder
  <2> QED BY <2>1, <2>2
<1>8. ASSUME NEW c \in e .. e + B - 1, c % B = 0 PROVE c = b
  <2>1. c \in Nat
    OBVIOUS
  <2>2. PICK y \in Nat : c = B * y
    BY <1>8, <2>1, MultipleOf
  <2>3. B * y < B * q + B /\ B * q < B * y + B
    <3>1. c < b + B /\ b < c + B
      BY <1>7
    <3> QED BY <1>5, <2>2, <3>1
  <2>4. y <= q /\ q <= y
    BY <2>3, Multiples
  <2>5. y = q
    BY <2>4
  <2> QED BY <1>5, <2>2, <2>5
<1>9. b = CHOOSE c \in e .. e + B - 1 : c % B = 0
  BY <1>7, <1>8
<1>10. FirstBlock(p) = b
  BY <1>1, <1>2, <1>9 DEF FirstBlock
<1> QED BY <1>6, <1>10

(* The numbers of words of the sections, with their blanks. *)
WordsOf(p) == [j \in 1 .. Len(p.sections) |-> p.sections[j][1] + p.sections[j][2]]

LEMMA SectionWordsAre ==
  ASSUME NEW p \in ParamType
  PROVE  /\ WordsOf(p) \in Seq(Nat) /\ Len(WordsOf(p)) = Len(p.sections)
         /\ \A j \in 1 .. Len(p.sections) : p.sections[j][1] <= WordsOf(p)[j]
         /\ SumAll(WordsOf(p)) \in Nat
<1>1. PICK S \in Nat : S = Len(p.sections)
  BY DEF ParamType
<1>2. \A j \in 1 .. S : /\ p.sections[j][1] \in Nat /\ p.sections[j][2] \in Nat
                        /\ p.sections[j][1] + p.sections[j][2] \in Nat
  BY <1>1, SectionKept, SMTT(30)
<1>3. PICK l : l = WordsOf(p)
  OBVIOUS
<1>4. l = [j \in 1 .. S |-> p.sections[j][1] + p.sections[j][2]]
  BY <1>1, <1>3 DEF WordsOf
<1>5. l \in [1 .. S -> Nat]
  BY <1>2, <1>4
<1>6. l \in Seq(Nat) /\ Len(l) = S
  BY <1>5, ListIs
<1>7. \A j \in 1 .. S : p.sections[j][1] <= l[j]
  BY <1>2, <1>4
<1>8. SumAll(l) \in Nat
  BY <1>6, SumIs
<1> QED BY <1>1, <1>3, <1>6, <1>7, <1>8

(* Every section is within the samples that are processed. *)
LEMMA SectionsFit ==
  ASSUME NEW p \in ParamType, NEW k \in Nat, k < p.integ * Len(p.sections)
  PROVE  /\ SectionStart(p, k) \in Nat /\ NumSamplesToProcess(p) \in Nat
         /\ SectionStart(p, k) + 4 * p.sections[(k % Len(p.sections)) + 1][1]
              <= NumSamplesToProcess(p)
<1>1. PICK S \in Nat : S = Len(p.sections) /\ DOMAIN p.sections = 1 .. S
  <2>1. p.sections \in Seq(SectionType)
    BY DEF ParamType
  <2> QED BY <2>1
<1>2. PICK N \in Nat : N = p.integ
  BY DEF ParamType
<1>3. k < N * S
  BY <1>1, <1>2
<1>4. S \in Nat \ {0}
  <2>1. CASE S = 0
    <3>1. N * S = 0
      BY <2>1
    <3> QED BY <1>3, <3>1
  <2> QED BY <2>1
<1>5. PICK q \in 0 .. N - 1, r \in 0 .. S - 1 : q = k \div S /\ r = k % S
  BY <1>3, <1>4, PlaceIs
<1>6. PICK l : l = WordsOf(p)
  OBVIOUS
<1>7. l \in Seq(Nat) /\ Len(l) = S
  BY <1>1, <1>6, SectionWordsAre
<1>8. PICK t \in Nat : t = SumAll(l)
  BY <1>7, SumIs
<1>9. PICK a \in Nat, w \in Nat, b \in Nat :
        /\ a = Sums(l)[r] /\ w = p.sections[r + 1][1] /\ b = l[r + 1] /\ w <= b /\ a + b <= t
  <2>1. r + 1 \in 1 .. S /\ (r + 1) - 1 = r /\ r \in 0 .. S
    OBVIOUS
  <2>2. Sums(l)[r] \in Nat /\ Sums(l)[r + 1] <= t
    <3>1. \A i \in 0 .. Len(l) : Sums(l)[i] <= SumAll(l) /\ Sums(l)[i] \in Nat
      BY <1>7, SumIs
    <3>2. r + 1 \in 0 .. S
      BY <2>1
    <3> QED BY <1>7, <1>8, <2>1, <3>1, <3>2
  <2>3. Sums(l)[r + 1] = Sums(l)[r] + l[r + 1]
    <3>1. \A i \in 1 .. Len(l) : Sums(l)[i] = Sums(l)[i - 1] + l[i]
      BY <1>7, SumsAre
    <3> QED BY <1>7, <2>1, <3>1
  <2>4. l[r + 1] \in Nat
    BY <1>7, <2>1
  <2>5. p.sections[r + 1][1] \in Nat
    BY <1>1, <2>1, SectionKept
  <2>6. p.sections[r + 1][1] <= l[r + 1]
    BY <1>1, <1>6, <2>1, SectionWordsAre, SMTT(30)
  <2> QED BY <2>2, <2>3, <2>4, <2>5, <2>6
<1>10. SectionStart(p, k) = (q * t + a) * 4
  BY <1>1, <1>5, <1>6, <1>8, <1>9 DEF SectionStart, WordsOf, NUM_SAMPLES_IN_ADC_WORD
<1>11. NumSamplesToProcess(p) = (t * 4) * N
  BY <1>1, <1>2, <1>6, <1>8 DEF NumSamplesToProcess, WordsOf, NUM_SAMPLES_IN_ADC_WORD
<1>12. PICK u \in Nat, v \in Nat : u = q * t /\ v = N * t
  OBVIOUS
<1>13. u + t <= v
  <2>1. t * (q + 1) <= t * N
    <3>1. CASE t = 0
      BY <3>1
    <3>2. CASE t # 0
      <4>1. t \in Nat \ {0} /\ q + 1 \in Nat /\ q + 1 <= N
        BY <3>2
      <4> QED BY <4>1, Multiples
    <3> QED BY <3>1, <3>2
  <2>2. t * (q + 1) = q * t + t /\ t * N = N * t
    OBVIOUS
  <2> QED BY <1>12, <2>1, <2>2
<1>14. (t * 4) * N = v * 4
  BY <1>12
<1>15. (u + a) * 4 + 4 * w <= v * 4 /\ (u + a) * 4 \in Nat
  <2>1. \A x1, x2, x3, x4, x5, x6 \in Nat :
          x1 + x2 <= x3 /\ x4 + x5 <= x2 /\ x6 <= x5 =>
            (x1 + x4) * 4 + 4 * x6 <= x3 * 4 /\ (x1 + x4) * 4 \in Nat
    OBVIOUS
  <2> QED BY <1>9, <1>13, <2>1, Zenon
<1>16. NumSamplesToProcess(p) = v * 4 /\ v * 4 \in Nat
  BY <1>11, <1>14
<1>17. SectionStart(p, k) = (u + a) * 4
  BY <1>10, <1>12, Zenon
<1>18. p.sections[(k % Len(p.sections)) + 1][1] = w
  BY <1>1, <1>5, <1>9, Zenon
<1> QED BY <1>15, <1>16, <1>17, <1>18, Zenon

(* The sample of the wave at x: nothing comes after its end. *)
WaveAt(x) == IF x < WaveLen THEN {x} ELSE {}

(* SampleSets are sets of positions. *)
SampleSets == SUBSET Nat

(* Where a sample that is kept comes from. *)
LEMMA KeptIs ==
  ASSUME NEW p, NEW i, NEW j, NEW n
  PROVE  KeptSample(p, i, j, n)
         = WaveAt(FirstBlock(p) + SectionStart(p, i * Len(p.sections) + j - 1) + n * Stride(p))
BY DEF KeptSample, WaveAt, FirstBlock, DelayOf, Stride

(* The samples that are kept of a section. *)
KeptOf(p, i, j) == [n \in 1 .. KeptCount(p, j) |-> KeptSample(p, i, j, n - 1)]

(* i and j are the place of section k. *)
SectionAtPlace(p, k, i, j) ==
  /\ k \in 1 .. p.integ * Len(p.sections) /\ i \in 0 .. p.integ - 1 /\ j \in 1 .. Len(p.sections)
  /\ i = (k - 1) \div Len(p.sections) /\ j = ((k - 1) % Len(p.sections)) + 1
  /\ k - 1 = i * Len(p.sections) + j - 1

(* Where the samples of a section are, among those that are processed. *)
IsKeptAt(p, i, j, n, x) ==
  /\ x \in Nat /\ x + 1 \in 1 .. NumSamplesToProcess(p)
  /\ Input(p)[x + 1] = KeptSample(p, i, j, n)
  /\ KeptSample(p, i, j, n) \in SampleSets

LEMMA KeptAt ==
  ASSUME NEW p \in ParamType, NEW k, NEW i, NEW j, SectionAtPlace(p, k, i, j),
         NEW n \in Nat, n < KeptCount(p, j)
  PROVE  IsKeptAt(p, i, j, n, SectionStart(p, k - 1) + n * Stride(p))
<1>1. PICK h : h = k - 1
  OBVIOUS
<1>2. /\ h \in Nat /\ h < p.integ * Len(p.sections) /\ h = i * Len(p.sections) + j - 1
      /\ (h % Len(p.sections)) + 1 = j /\ j \in 1 .. Len(p.sections)
  <2>1. /\ k \in 1 .. p.integ * Len(p.sections) /\ k - 1 = i * Len(p.sections) + j - 1
        /\ j = ((k - 1) % Len(p.sections)) + 1 /\ j \in 1 .. Len(p.sections)
    BY DEF SectionAtPlace
  <2>2. p.integ * Len(p.sections) \in Int
    <3>1. PICK a \in Nat, b \in Nat : a = p.integ /\ b = Len(p.sections)
      BY DEF ParamType
    <3>2. a * b \in Int
      OBVIOUS
    <3> QED BY <3>1, <3>2
  <2>3. h \in Nat /\ h < p.integ * Len(p.sections)
    BY <1>1, <2>1, <2>2
  <2> QED BY <1>1, <2>1, <2>3, Zenon
<1>3. PICK s \in Nat, P \in Nat :
        /\ s = SectionStart(p, h) /\ P = NumSamplesToProcess(p)
        /\ s + 4 * p.sections[j][1] <= P
  <2>1. /\ SectionStart(p, h) \in Nat /\ NumSamplesToProcess(p) \in Nat
        /\ SectionStart(p, h) + 4 * p.sections[(h % Len(p.sections)) + 1][1]
             <= NumSamplesToProcess(p)
    BY <1>2, SectionsFit
  <2>2. SectionStart(p, h) + 4 * p.sections[j][1] <= NumSamplesToProcess(p)
    BY <1>2, <2>1, Zenon
  <2> QED BY <2>1, <2>2
<1>4. PICK d \in Nat, w \in Nat : d = n * Stride(p) /\ w = p.sections[j][1] /\ d < 4 * w
  BY <1>2, SectionKept
<1>5. PICK x \in Nat : x = s + d /\ x + 1 \in 1 .. P
  BY <1>3, <1>4
<1>6. PICK f \in Nat : f = NumSamplesToWaste(p.delay) /\ f = FirstBlock(p)
  BY WasteIs
<1>7. Input(p)[x + 1] = WaveAt(f + x)
  <2>1. Input(p)[x + 1] = WaveAt(f + (x + 1) - 1)
    BY <1>3, <1>5, <1>6 DEF Input, WaveAt
  <2>2. f + (x + 1) - 1 = f + x
    OBVIOUS
  <2> QED BY <2>1, <2>2, Zenon
<1>8. KeptSample(p, i, j, n) = WaveAt(f + s + d)
  BY <1>2, <1>3, <1>4, <1>6, KeptIs, Zenon
<1>9. f + s + d = f + x
  BY <1>5
<1>10. WaveAt(f + x) \in SampleSets
  BY DEF WaveAt, SampleSets
<1>11. x = SectionStart(p, k - 1) + n * Stride(p)
  BY <1>1, <1>3, <1>4, <1>5, Zenon
<1>12. IsKeptAt(p, i, j, n, x)
  BY <1>3, <1>5, <1>7, <1>8, <1>9, <1>10, Zenon DEF IsKeptAt
<1> QED BY <1>11, <1>12, Zenon

(* What is cut out of the samples is what is kept of each section. *)
LEMMA CutIs ==
  ASSUME NEW p \in ParamType, NEW k, NEW i, NEW j, SectionAtPlace(p, k, i, j)
  PROVE  Cut(p, Input(p))[k] = KeptOf(p, i, j)
<1>1. PICK s : s = SectionStart(p, k - 1)
  OBVIOUS
<1>2. PICK K \in Nat : K = KeptCount(p, j) /\ K = NumWordsLeft(p, p.sections[j][1]) * 4
  <2>1. j \in 1 .. Len(p.sections)
    BY DEF SectionAtPlace
  <2> QED BY <2>1, SectionKept
<1>3. PICK x : x = Input(p)
  OBVIOUS
<1>4. Cut(p, x)[k] = [m \in 1 .. K |-> x[s + (m - 1) * Stride(p) + 1]]
  <2>1. k \in 1 .. p.integ * Len(p.sections) /\ ((k - 1) % Len(p.sections)) + 1 = j
    BY DEF SectionAtPlace
  <2>2. PICK w : w = p.sections[j][1]
    OBVIOUS
  <2> QED BY <1>1, <1>2, <2>1, <2>2 DEF Cut, Stride, NUM_SAMPLES_IN_ADC_WORD
<1>5. ASSUME NEW m \in 1 .. K
      PROVE  x[s + (m - 1) * Stride(p) + 1] = KeptSample(p, i, j, m - 1)
  <2>1. PICK n \in Nat : n = m - 1 /\ n < K
    OBVIOUS
  <2>2. x[s + n * Stride(p) + 1] = KeptSample(p, i, j, n)
    <3>1. IsKeptAt(p, i, j, n, s + n * Stride(p))
      BY <1>1, <1>2, <2>1, KeptAt
    <3> QED BY <1>3, <3>1, Zenon DEF IsKeptAt
  <2> QED BY <2>1, <2>2, Zenon
<1>6. Cut(p, x)[k] = [m \in 1 .. K |-> KeptSample(p, i, j, m - 1)]
  BY <1>4, <1>5
<1> QED BY <1>2, <1>3, <1>6 DEF KeptOf

(* The samples that are kept of a section are a sequence. *)
LEMMA KeptAre ==
  ASSUME NEW p \in ParamType, NEW k, NEW i, NEW j, SectionAtPlace(p, k, i, j)
  PROVE  KeptOf(p, i, j) \in Seq(SampleSets) /\ Len(KeptOf(p, i, j)) = KeptCount(p, j)
<1>1. PICK K \in Nat : K = KeptCount(p, j)
  <2>1. j \in 1 .. Len(p.sections)
    BY DEF SectionAtPlace
  <2> QED BY <2>1, SectionKept
<1>2. ASSUME NEW m \in 1 .. K PROVE KeptSample(p, i, j, m - 1) \in SampleSets
  <2>1. PICK n \in Nat : n = m - 1 /\ n < K
    OBVIOUS
  <2>2. IsKeptAt(p, i, j, n, SectionStart(p, k - 1) + n * Stride(p))
    BY <1>1, <2>1, KeptAt
  <2> QED BY <2>1, <2>2, Zenon DEF IsKeptAt
<1>3. PICK s : s = KeptOf(p, i, j)
  OBVIOUS
<1>4. s \in [1 .. K -> SampleSets]
  BY <1>1, <1>2, <1>3 DEF KeptOf
<1>5. s \in Seq(SampleSets) /\ Len(s) = K
  BY <1>4, ListIs
<1> QED BY <1>1, <1>3, <1>5

(* What section j of integration section i gives. *)
Gives(p, i, j) == IF KeptCount(p, j) = 0 THEN <<>> ELSE Results(p, i, j)

(* How many samples it gives. *)
LEMMA GivesAre ==
  ASSUME NEW p \in ParamType, NEW k, NEW i, NEW j, SectionAtPlace(p, k, i, j)
  PROVE  /\ Gives(p, i, j) \in Seq(SampleSets)
         /\ Len(Gives(p, i, j)) = SamplesOfSection(p, p.sections[j])
<1>1. PICK K \in Nat : K = KeptCount(p, j) /\ K = NumWordsLeft(p, p.sections[j][1]) * 4
  <2>1. j \in 1 .. Len(p.sections)
    BY DEF SectionAtPlace
  <2> QED BY <2>1, SectionKept
<1>2. SamplesOfSection(p, p.sections[j]) = IF Enabled(p, "SUM") /\ K > 0 THEN 1 ELSE K
  BY <1>1 DEF SamplesOfSection, NUM_SAMPLES_IN_ADC_WORD
<1>3. CASE K = 0
  <2>1. Gives(p, i, j) = <<>>
    BY <1>1, <1>3 DEF Gives
  <2> QED BY <1>2, <1>3, <2>1
<1>4. CASE K # 0 /\ Enabled(p, "SUM")
  <2>1. PICK u : u = UNION {KeptSample(p, i, j, n) : n \in Summed(p, j)}
    OBVIOUS
  <2>2. Gives(p, i, j) = <<u>>
    BY <1>1, <1>4, <2>1 DEF Gives, Results
  <2>3. \A n \in Summed(p, j) : KeptSample(p, i, j, n) \in SampleSets
    <3>1. ASSUME NEW n \in Summed(p, j) PROVE KeptSample(p, i, j, n) \in SampleSets
      <4>1. n \in Nat /\ n < K
        BY <1>1 DEF Summed
      <4>2. IsKeptAt(p, i, j, n, SectionStart(p, k - 1) + n * Stride(p))
        BY <1>1, <4>1, KeptAt
      <4> QED BY <4>2, Zenon DEF IsKeptAt
    <3> QED BY <3>1
  <2>4. u \in SampleSets
    BY <2>1, <2>3 DEF SampleSets
  <2>5. <<u>> \in Seq(SampleSets) /\ Len(<<u>>) = 1
    BY <2>4
  <2>6. SamplesOfSection(p, p.sections[j]) = 1
    BY <1>2, <1>4
  <2> QED BY <2>2, <2>5, <2>6
<1>5. CASE K # 0 /\ ~ Enabled(p, "SUM")
  <2>1. Gives(p, i, j) = KeptOf(p, i, j)
    BY <1>1, <1>5 DEF Gives, Results, KeptOf
  <2>2. SamplesOfSection(p, p.sections[j]) = K
    BY <1>2, <1>5
  <2> QED BY <1>1, <2>1, <2>2, KeptAre
<1> QED BY <1>3, <1>4, <1>5

(* The sections one by one, before integration. *)
CutOrSummed(p) ==
  IF Enabled(p, "SUM") THEN Summation(p, Cut(p, Input(p))) ELSE Cut(p, Input(p))

(* Every section gives what it should. *)
LEMMA SectionGives ==
  ASSUME NEW p \in ParamType, SumReachesSections(p),
         NEW k, NEW i, NEW j, SectionAtPlace(p, k, i, j)
  PROVE  CutOrSummed(p)[k] = Gives(p, i, j)
<1>1. PICK K \in Nat : K = KeptCount(p, j) /\ K % 4 = 0
  <2>1. j \in 1 .. Len(p.sections)
    BY DEF SectionAtPlace
  <2>2. PICK K \in Nat : K = KeptCount(p, j)
    BY <2>1, SectionKept
  <2>3. K = 4 * NumWordsLeft(p, p.sections[j][1])
    BY <2>2 DEF KeptCount
  <2>4. NumWordsLeft(p, p.sections[j][1]) \in Nat
    BY <2>1, SectionKept DEF NumWordsLeft
  <2> QED BY <2>2, <2>3, <2>4
<1>2. PICK cut : cut = Cut(p, Input(p))
  OBVIOUS
<1>3. /\ cut[k] \in Seq(SampleSets) /\ Len(cut[k]) = K
      /\ \A m \in 1 .. K : cut[k][m] = KeptSample(p, i, j, m - 1)
  <2>1. cut[k] = KeptOf(p, i, j)
    BY <1>2, CutIs
  <2>2. \A m \in 1 .. K : KeptOf(p, i, j)[m] = KeptSample(p, i, j, m - 1)
    BY <1>1 DEF KeptOf
  <2> QED BY <1>1, <2>1, <2>2, KeptAre
<1>4. CASE ~ Enabled(p, "SUM")
  <2>1. CutOrSummed(p)[k] = KeptOf(p, i, j)
    BY <1>2, <1>4, CutIs DEF CutOrSummed
  <2>2. K = 0 => KeptOf(p, i, j) = <<>>
    BY <1>1 DEF KeptOf
  <2> QED BY <1>1, <1>4, <2>1, <2>2 DEF Gives, Results, KeptOf
<1>5. CASE Enabled(p, "SUM")
  <2>1. PICK b \in Nat, c \in Nat \ {0} : b = p.start /\ c = p.count
    BY CaptureLimits DEF ParamType
  <2>2. k \in DOMAIN cut
    BY <1>2 DEF Cut, SectionAtPlace
  <2>3. PICK last : last = Lowest((b + c) * 4, K)
    OBVIOUS
  <2>4. CutOrSummed(p)[k]
        = IF b * 4 < last THEN <<UNION {cut[k][m] : m \in b * 4 + 1 .. last}>> ELSE <<>>
    BY <1>2, <1>3, <1>5, <2>1, <2>2, <2>3 DEF CutOrSummed, Summation, NUM_SAMPLES_IN_ADC_WORD
  <2>5. last \in Nat /\ last <= K /\ last <= (b + c) * 4 /\ (last = K \/ last = (b + c) * 4)
    BY <2>3 DEF Lowest
  <2>6. CASE K = 0
    BY <1>1, <2>4, <2>5, <2>6 DEF Gives
  <2>7. CASE K # 0
    <3>1. b < K \div 4
      <4>1. j \in DOMAIN p.sections
        BY DEF SectionAtPlace, ParamType
      <4> QED BY <1>1, <1>5, <2>1, <2>7, <4>1 DEF SumReachesSections
    <3>2. b * 4 < last
      BY <1>1, <2>5, <3>1
    <3>3. {cut[k][m] : m \in b * 4 + 1 .. last} = {KeptSample(p, i, j, n) : n \in Summed(p, j)}
      <4>1. Summed(p, j) = {n \in 0 .. K - 1 : n \div 4 \in b .. b + c - 1}
        BY <1>1, <2>1 DEF Summed
      <4>2. \A n \in 0 .. K - 1 : n \div 4 \in b .. b + c - 1 <=> n + 1 \in b * 4 + 1 .. last
        BY <2>5
      <4>3. ASSUME NEW m \in b * 4 + 1 .. last
            PROVE  m - 1 \in Summed(p, j) /\ cut[k][m] = KeptSample(p, i, j, m - 1)
        <5>1. m \in 1 .. K /\ m - 1 \in 0 .. K - 1 /\ (m - 1) + 1 = m
          BY <2>5
        <5> QED BY <1>3, <4>1, <4>2, <5>1
      <4>4. ASSUME NEW n \in Summed(p, j)
            PROVE  n + 1 \in b * 4 + 1 .. last /\ cut[k][n + 1] = KeptSample(p, i, j, n)
        <5>1. n \in 0 .. K - 1 /\ n + 1 \in 1 .. K /\ (n + 1) - 1 = n
          BY <4>1
        <5> QED BY <1>3, <4>1, <4>2, <5>1
      <4> QED BY <4>3, <4>4
    <3> QED BY <1>1, <1>5, <2>4, <2>7, <3>2, <3>3 DEF Gives, Results
  <2> QED BY <2>6, <2>7
<1> QED BY <1>4, <1>5

(* Sections have places, and places have sections. *)
LEMMA PlaceFound ==
  ASSUME NEW p \in ParamType, NEW k \in 1 .. p.integ * Len(p.sections)
  PROVE  SectionAtPlace(p, k, (k - 1) \div Len(p.sections), ((k - 1) % Len(p.sections)) + 1)
<1>1. PICK S \in Nat, N \in Nat : S = Len(p.sections) /\ N = p.integ
  BY DEF ParamType
<1>2. PICK h \in Nat : h = k - 1 /\ h < N * S
  <2>1. N * S \in Nat /\ k \in 1 .. N * S
    BY <1>1
  <2> QED BY <2>1
<1>3. S \in Nat \ {0}
  <2>1. CASE S = 0
    <3>1. N * S = 0
      BY <2>1
    <3> QED BY <1>2, <3>1
  <2> QED BY <2>1
<1>4. h \div S \in 0 .. N - 1 /\ h % S \in 0 .. S - 1 /\ h = S * (h \div S) + (h % S)
  BY <1>2, <1>3, PlaceIs
<1>5. PICK i \in 0 .. N - 1, r \in 0 .. S - 1 : i = h \div S /\ r = h % S /\ h = S * i + r
  BY <1>4, Zenon
<1>6. PICK j \in 1 .. S : j = r + 1
  OBVIOUS
<1>7. h = i * S + j - 1
  <2>1. PICK b \in Nat : b = S * i /\ b = i * S
    OBVIOUS
  <2> QED BY <1>5, <1>6, <2>1
<1>8. (k - 1) \div Len(p.sections) = i /\ ((k - 1) % Len(p.sections)) + 1 = j
  BY <1>1, <1>2, <1>5, <1>6, Zenon
<1>9. k - 1 = i * Len(p.sections) + j - 1
  BY <1>1, <1>2, <1>7, Zenon
<1> QED BY <1>1, <1>8, <1>9, Zenon DEF SectionAtPlace

LEMMA PlaceMade ==
  ASSUME NEW p \in ParamType, NEW i \in 0 .. p.integ - 1, NEW j \in 1 .. Len(p.sections)
  PROVE  SectionAtPlace(p, i * Len(p.sections) + j, i, j)
<1>1. PICK S \in Nat, N \in Nat : S = Len(p.sections) /\ N = p.integ
  BY DEF ParamType
<1>2. PICK k : k = i * S + j
  OBVIOUS
<1>3. S # 0
  BY <1>1
<1>4. AtPlace(S, N, i, j, k)
  BY <1>1, <1>2, <1>3, PlaceOf
<1>5. k \in 1 .. N * S /\ (k - 1) \div S = i /\ ((k - 1) % S) + 1 = j
  BY <1>4, Zenon DEF AtPlace
<1>6. k - 1 = i * S + j - 1
  <2>1. PICK b \in Nat : b = i * S
    BY <1>1
  <2> QED BY <1>1, <1>2, <2>1
<1> QED BY <1>1, <1>2, <1>5, <1>6, Zenon DEF SectionAtPlace

(* How many samples each section gives. *)
CountsOf(p) == [j \in DOMAIN p.sections |-> SamplesOfSection(p, p.sections[j])]

LEMMA CountsAre ==
  ASSUME NEW p \in ParamType
  PROVE  /\ CountsOf(p) \in Seq(Nat) /\ Len(CountsOf(p)) = Len(p.sections)
         /\ \A j \in 1 .. Len(p.sections) : CountsOf(p)[j] = SamplesOfSection(p, p.sections[j])
         /\ SumAll(CountsOf(p)) \in Nat
         /\ CalcCaptureSamples(p)
            = SumAll(CountsOf(p)) * (IF Enabled(p, "INTEGRATION") THEN 1 ELSE p.integ)
<1>1. PICK S \in Nat : S = Len(p.sections) /\ DOMAIN p.sections = 1 .. S
  <2>1. p.sections \in Seq(SectionType)
    BY DEF ParamType
  <2> QED BY <2>1
<1>2. ASSUME NEW j \in 1 .. S PROVE SamplesOfSection(p, p.sections[j]) \in Nat
  <2>1. PICK K \in Nat : K = NumWordsLeft(p, p.sections[j][1]) * 4
    BY <1>1, SectionKept
  <2> QED BY <2>1 DEF SamplesOfSection, NUM_SAMPLES_IN_ADC_WORD
<1>3. PICK l : l = CountsOf(p)
  OBVIOUS
<1>4. l = [j \in 1 .. S |-> SamplesOfSection(p, p.sections[j])]
  BY <1>1, <1>3 DEF CountsOf
<1>5. l \in [1 .. S -> Nat]
  BY <1>2, <1>4
<1>6. l \in Seq(Nat) /\ Len(l) = S
  BY <1>5, ListIs
<1>7. SumAll(l) \in Nat
  BY <1>6, SumIs
<1>8. CalcCaptureSamples(p) = SumAll(l) * (IF Enabled(p, "INTEGRATION") THEN 1 ELSE p.integ)
  BY <1>3 DEF CalcCaptureSamples, CountsOf
<1> QED BY <1>1, <1>3, <1>4, <1>6, <1>7, <1>8

(* What the sections give, by integration section. *)
RowOf(p, i) == [j \in 1 .. Len(p.sections) |-> Gives(p, i, j)]
RowsOf(p) == [i \in 1 .. p.integ |-> RowOf(p, i - 1)]

LEMMA RowsAre ==
  ASSUME NEW p \in ParamType
  PROVE  Rows(RowsOf(p), p.integ, CountsOf(p), SampleSets)
<1>1. PICK S \in Nat, N \in Nat : S = Len(p.sections) /\ N = p.integ
  BY DEF ParamType
<1>2. PICK l : l = CountsOf(p)
  OBVIOUS
<1>3. Len(l) = S /\ \A j \in 1 .. S : l[j] = SamplesOfSection(p, p.sections[j])
  BY <1>1, <1>2, CountsAre
<1>4. ASSUME NEW i \in 1 .. N
      PROVE  /\ RowsOf(p)[i] \in Seq(Seq(SampleSets)) /\ Len(RowsOf(p)[i]) = S
             /\ \A j \in 1 .. S : Len(RowsOf(p)[i][j]) = l[j]
  <2>1. PICK h \in 0 .. N - 1 : h = i - 1
    OBVIOUS
  <2>2. ASSUME NEW j \in 1 .. S
        PROVE  Gives(p, h, j) \in Seq(SampleSets) /\ Len(Gives(p, h, j)) = l[j]
    <3>1. SectionAtPlace(p, h * Len(p.sections) + j, h, j)
      BY <1>1, PlaceMade
    <3>2. Gives(p, h, j) \in Seq(SampleSets) /\ Len(Gives(p, h, j)) = SamplesOfSection(p, p.sections[j])
      BY <3>1, GivesAre
    <3> QED BY <1>3, <3>2
  <2>3. PICK r : r = RowOf(p, h)
    OBVIOUS
  <2>4. r = [j \in 1 .. S |-> Gives(p, h, j)]
    BY <1>1, <2>3 DEF RowOf
  <2>5. r \in [1 .. S -> Seq(SampleSets)]
    BY <2>2, <2>4
  <2>6. r \in Seq(Seq(SampleSets)) /\ Len(r) = S
    BY <2>5, ListIs
  <2>7. RowsOf(p)[i] = r
    BY <1>1, <2>1, <2>3 DEF RowsOf
  <2> QED BY <2>2, <2>4, <2>6, <2>7
<1> QED BY <1>1, <1>2, <1>3, <1>4 DEF Rows

(* One by one, the sections are those rows. *)
LEMMA AllRowsAre ==
  ASSUME NEW p \in ParamType, SumReachesSections(p)
  PROVE  AllRows(RowsOf(p), p.integ, Len(CountsOf(p)), CutOrSummed(p), SampleSets)
<1>1. PICK S \in Nat, N \in Nat : S = Len(p.sections) /\ N = p.integ
  BY DEF ParamType
<1>2. Len(CountsOf(p)) = S
  BY <1>1, CountsAre
<1>3. PICK M \in Nat : M = N * S
  OBVIOUS
<1>4. PICK d : d = CutOrSummed(p)
  OBVIOUS
<1>5. d = [k \in 1 .. M |-> d[k]]
  <2>1. PICK cut : cut = Cut(p, Input(p))
    OBVIOUS
  <2>2. DOMAIN cut = 1 .. M /\ cut = [k \in 1 .. M |-> cut[k]]
    BY <1>1, <1>3, <2>1 DEF Cut
  <2>3. CASE Enabled(p, "SUM")
    BY <1>4, <2>1, <2>2, <2>3 DEF CutOrSummed, Summation
  <2>4. CASE ~ Enabled(p, "SUM")
    BY <1>4, <2>1, <2>2, <2>4 DEF CutOrSummed
  <2> QED BY <2>3, <2>4
<1>6. ASSUME NEW k \in 1 .. M
      PROVE  /\ d[k] = RowsOf(p)[((k - 1) \div S) + 1][((k - 1) % S) + 1]
             /\ d[k] \in Seq(SampleSets)
  <2>1. PICK i, j : i = (k - 1) \div S /\ j = ((k - 1) % S) + 1
    OBVIOUS
  <2>2. SectionAtPlace(p, k, i, j)
    BY <1>1, <1>3, <2>1, PlaceFound
  <2>3. i \in 0 .. N - 1 /\ j \in 1 .. S
    BY <1>1, <2>2 DEF SectionAtPlace
  <2>4. d[k] = Gives(p, i, j) /\ Gives(p, i, j) \in Seq(SampleSets)
    BY <1>4, <2>2, SectionGives, GivesAre
  <2>5. PICK m \in 1 .. N : m = i + 1 /\ m - 1 = i
    BY <2>3
  <2>6. RowsOf(p)[m][j] = Gives(p, i, j)
    BY <1>1, <2>3, <2>5 DEF RowsOf, RowOf
  <2> QED BY <2>1, <2>4, <2>5, <2>6, Zenon
<1>7. d \in [1 .. M -> Seq(SampleSets)]
  BY <1>5, <1>6
<1>8. d \in Seq(Seq(SampleSets)) /\ Len(d) = M
  BY <1>7, ListIs
<1>9. \A k \in 1 .. N * S : d[k] = RowsOf(p)[((k - 1) \div S) + 1][((k - 1) % S) + 1]
  BY <1>3, <1>6
<1> QED BY <1>1, <1>2, <1>3, <1>4, <1>8, <1>9, Zenon DEF AllRows

(* What the parameters mean, by rows. *)
LEMMA MeantIs ==
  ASSUME NEW p \in ParamType
  PROVE  Meant(p) = IF Enabled(p, "INTEGRATION")
                    THEN [n \in DOMAIN FlattenSeq(RowOf(p, 0)) |->
                            UNION {FlattenSeq(RowOf(p, i))[n] : i \in 0 .. p.integ - 1}]
                    ELSE FlattenSeq([i \in 1 .. p.integ |-> FlattenSeq(RowOf(p, i - 1))])
BY DEF Meant, RowOf, Gives

(* A row, put together. *)
LEMMA RowIs ==
  ASSUME NEW p \in ParamType, NEW i \in 0 .. p.integ - 1
  PROVE  /\ Together(FlattenSeq(RowOf(p, i)), RowOf(p, i), CountsOf(p), SampleSets)
         /\ Len(RowOf(p, i)) = Len(CountsOf(p))
         /\ RowsOf(p)[i + 1] = RowOf(p, i)
<1>1. PICK N \in Nat : N = p.integ
  BY DEF ParamType
<1>2. PICK h \in 1 .. N : h = i + 1 /\ h - 1 = i
  BY <1>1
<1>3. RowsOf(p)[h] = RowOf(p, i)
  BY <1>1, <1>2 DEF RowsOf
<1>4. Rows(RowsOf(p), N, CountsOf(p), SampleSets) /\ CountsOf(p) \in Seq(Nat)
  BY <1>1, RowsAre, CountsAre
<1>5. Together(FlattenSeq(RowsOf(p)[h]), RowsOf(p)[h], CountsOf(p), SampleSets)
      /\ Len(RowsOf(p)[h]) = Len(CountsOf(p))
  BY <1>4, RowsFlat
<1> QED BY <1>2, <1>3, <1>5, Zenon

(* What is integrated: section by section, or all of it. *)
LEMMA IntegratedIs ==
  ASSUME NEW p \in ParamType, SumReachesSections(p), Enabled(p, "INTEGRATION")
  PROVE  /\ Dsp(p) = Meant(p) /\ Dsp(p) \in Seq(SampleSets) /\ Len(Dsp(p)) = CalcCaptureSamples(p)
<1>1. PICK S \in Nat, N \in Nat \ {0} :
        S = Len(p.sections) /\ DOMAIN p.sections = 1 .. S /\ N = p.integ
  <2>1. p.sections \in Seq(SectionType)
    BY DEF ParamType
  <2> QED BY <2>1 DEF ParamType
<1>2. PICK l : l = CountsOf(p)
  OBVIOUS
<1>3. /\ l \in Seq(Nat) /\ Len(l) = S
      /\ \A j \in 1 .. S : l[j] \in Nat /\ l[j] = SamplesOfSection(p, p.sections[j])
  <2>1. l \in Seq(Nat) /\ Len(l) = S /\ \A j \in 1 .. S : l[j] = SamplesOfSection(p, p.sections[j])
    BY <1>1, <1>2, CountsAre
  <2>2. \A j \in 1 .. S : l[j] \in Nat
    BY <2>1
  <2> QED BY <2>1, <2>2
<1>4. PICK t \in Nat : t = SumAll(l) /\ CalcCaptureSamples(p) = t
  <2>1. SumAll(l) \in Nat /\ CalcCaptureSamples(p) = SumAll(l) * 1
    BY <1>2, CountsAre
  <2> QED BY <2>1
<1>5. PICK d : d = CutOrSummed(p)
  OBVIOUS
<1>6. \A i \in 0 .. N - 1 : \A j \in 1 .. S :
        /\ d[i * S + j] = Gives(p, i, j) /\ Gives(p, i, j) \in Seq(SampleSets)
        /\ Len(Gives(p, i, j)) = l[j]
  <2>1. ASSUME NEW i \in 0 .. N - 1, NEW j \in 1 .. S
        PROVE  /\ d[i * S + j] = Gives(p, i, j) /\ Gives(p, i, j) \in Seq(SampleSets)
               /\ Len(Gives(p, i, j)) = l[j]
    <3>1. PICK k : k = i * S + j
      OBVIOUS
    <3>2. SectionAtPlace(p, k, i, j)
      BY <1>1, <3>1, PlaceMade
    <3>3. /\ d[k] = Gives(p, i, j) /\ Gives(p, i, j) \in Seq(SampleSets)
          /\ Len(Gives(p, i, j)) = SamplesOfSection(p, p.sections[j])
      BY <1>5, <3>2, SectionGives, GivesAre
    <3> QED BY <1>3, <3>1, <3>3
  <2> QED BY <2>1
<1> DEFINE One(j) == [n \in 1 .. l[j] |-> UNION {Gives(p, i, j)[n] : i \in 0 .. N - 1}]
<1>7. PICK g : g = [j \in 1 .. S |-> One(j)]
  OBVIOUS
<1>8. Integration(p, d) = g
  <2>1. \A j \in 1 .. S : d[j] = Gives(p, 0, j) /\ DOMAIN d[j] = 1 .. l[j]
    <3>1. ASSUME NEW j \in 1 .. S PROVE d[j] = Gives(p, 0, j) /\ DOMAIN d[j] = 1 .. l[j]
      <4>1. 0 \in 0 .. N - 1 /\ 0 * S + j = j
        OBVIOUS
      <4>2. d[0 * S + j] = Gives(p, 0, j) /\ Gives(p, 0, j) \in Seq(SampleSets)
            /\ Len(Gives(p, 0, j)) = l[j]
        BY <1>6, <4>1
      <4>3. d[j] = Gives(p, 0, j)
        BY <4>1, <4>2, Zenon
      <4> QED BY <4>2, <4>3
    <3> QED BY <3>1
  <2>2. Integration(p, d) = [j \in 1 .. S |->
          [n \in DOMAIN d[j] |-> UNION {d[i * S + j][n] : i \in 0 .. N - 1}]]
    BY <1>1 DEF Integration
  <2>3. ASSUME NEW j \in 1 .. S
        PROVE  [n \in DOMAIN d[j] |-> UNION {d[i * S + j][n] : i \in 0 .. N - 1}] = One(j)
    <3>1. ASSUME NEW n PROVE {d[i * S + j][n] : i \in 0 .. N - 1}
                             = {Gives(p, i, j)[n] : i \in 0 .. N - 1}
      <4>1. \A i \in 0 .. N - 1 : d[i * S + j] = Gives(p, i, j)
        BY <1>6, Zenon
      <4> QED BY <4>1, Zenon
    <3> QED BY <2>1, <3>1
  <2> HIDE DEF One
  <2> QED BY <1>7, <2>2, <2>3
<1>9. ASSUME NEW j \in 1 .. S PROVE One(j) \in Seq(SampleSets) /\ Len(One(j)) = l[j]
  <2>1. ASSUME NEW n \in 1 .. l[j], NEW i \in 0 .. N - 1 PROVE Gives(p, i, j)[n] \in SampleSets
    <3>1. Gives(p, i, j) \in Seq(SampleSets) /\ Len(Gives(p, i, j)) = l[j]
      BY <1>6
    <3> QED BY <3>1
  <2>2. ASSUME NEW n \in 1 .. l[j]
        PROVE  UNION {Gives(p, i, j)[n] : i \in 0 .. N - 1} \in SampleSets
    BY <2>1 DEF SampleSets
  <2>3. One(j) \in [1 .. l[j] -> SampleSets]
    BY <2>2
  <2> HIDE DEF One
  <2> QED BY <1>3, <2>3, ListIs
<1>10. HasLengths(g, l, SampleSets)
  <2> HIDE DEF One
  <2>1. g \in [1 .. S -> Seq(SampleSets)]
    BY <1>7, <1>9
  <2>2. g \in Seq(Seq(SampleSets)) /\ Len(g) = S
    BY <2>1, ListIs
  <2>3. \A j \in 1 .. S : l[j] = Len(g[j])
    BY <1>7, <1>9
  <2> QED BY <1>3, <2>2, <2>3 DEF HasLengths
<1>11. PICK f : f = FlattenSeq(g)
  OBVIOUS
<1>12. /\ f \in Seq(SampleSets) /\ Len(f) = t
       /\ \A j \in 1 .. S : \A m \in 1 .. l[j] : f[Sums(l)[j - 1] + m] = One(j)[m]
  <2> HIDE DEF One
  <2>1. Together(f, g, l, SampleSets)
    BY <1>10, <1>11, FlatIs
  <2>2. Len(g) = S
    BY <1>3, <1>10 DEF HasLengths
  <2> QED BY <1>4, <1>7, <2>1, <2>2 DEF Together
<1>13. Dsp(p) = f
  <2>1. Dsp(p) = FlattenSeq(Integration(p, d))
    BY <1>5 DEF Dsp, CutOrSummed
  <2> QED BY <1>8, <1>11, <2>1, Zenon
<1> DEFINE P(i) == FlattenSeq(RowOf(p, i))
<1>14. ASSUME NEW i \in 0 .. N - 1
       PROVE  /\ P(i) \in Seq(SampleSets) /\ Len(P(i)) = t
              /\ \A j \in 1 .. S : \A m \in 1 .. l[j] : P(i)[Sums(l)[j - 1] + m] = Gives(p, i, j)[m]
  <2>1. /\ Together(P(i), RowOf(p, i), l, SampleSets) /\ Len(RowOf(p, i)) = S
    BY <1>1, <1>2, <1>3, RowIs
  <2>2. \A j \in 1 .. S : RowOf(p, i)[j] = Gives(p, i, j)
    BY <1>1 DEF RowOf
  <2> HIDE DEF P
  <2> QED BY <1>4, <2>1, <2>2 DEF Together
<1>15. Meant(p) = [n \in 1 .. t |-> UNION {P(i)[n] : i \in 0 .. N - 1}]
  <2>1. Meant(p) = [n \in DOMAIN P(0) |-> UNION {P(i)[n] : i \in 0 .. N - 1}]
    BY <1>1, MeantIs
  <2>2. 0 \in 0 .. N - 1
    OBVIOUS
  <2>3. DOMAIN P(0) = 1 .. t
    <3> HIDE DEF P
    <3> QED BY <1>14, <2>2
  <2> HIDE DEF P
  <2> QED BY <2>1, <2>3
<1>16. ASSUME NEW x \in 1 .. t PROVE f[x] = UNION {P(i)[x] : i \in 0 .. N - 1}
  <2>1. PICK j \in 1 .. S : \E m \in 1 .. l[j] : x = Sums(l)[j - 1] + m
    <3>1. \E j \in 1 .. Len(l) : \E m \in 1 .. l[j] : x = Sums(l)[j - 1] + m
      BY <1>3, <1>4, FindPart, SMTT(30)
    <3>2. Len(l) = S
      BY <1>3
    <3> QED BY <3>1, <3>2, Zenon
  <2>2. PICK m \in 1 .. l[j] : x = Sums(l)[j - 1] + m
    BY <2>1
  <2>3. f[x] = UNION {Gives(p, i, j)[m] : i \in 0 .. N - 1}
    <3>1. f[x] = One(j)[m]
      <4> HIDE DEF One
      <4> QED BY <1>12, <2>2
    <3> QED BY <3>1
  <2>4. \A i \in 0 .. N - 1 : P(i)[x] = Gives(p, i, j)[m]
    <3> HIDE DEF P
    <3> QED BY <1>14, <2>2
  <2> HIDE DEF P
  <2>5. {P(i)[x] : i \in 0 .. N - 1} = {Gives(p, i, j)[m] : i \in 0 .. N - 1}
    BY <2>4
  <2> QED BY <2>3, <2>5, Zenon
<1>17. f = [x \in 1 .. t |-> f[x]]
  BY <1>12
<1>18. f = Meant(p)
  <2> HIDE DEF P
  <2> QED BY <1>15, <1>16, <1>17
<1> HIDE DEF P, One
<1> QED BY <1>4, <1>12, <1>13, <1>18

(* What the signal processing makes of a capture is what its parameters    *)
(* mean, and as many samples as are counted.                               *)
LEMMA DspIs ==
  ASSUME NEW p \in ParamType, SumReachesSections(p)
  PROVE  /\ Dsp(p) = Meant(p) /\ Dsp(p) \in Seq(SampleSets) /\ Len(Dsp(p)) = CalcCaptureSamples(p)
<1>1. CASE ~ Enabled(p, "INTEGRATION")
  <2>1. PICK N \in Nat : N = p.integ
    BY DEF ParamType
  <2>2. PICK l : l = CountsOf(p)
    OBVIOUS
  <2>3. PICK t \in Nat : t = SumAll(l) /\ CalcCaptureSamples(p) = t * N
    BY <1>1, <2>1, <2>2, CountsAre
  <2>4. PICK d, e : d = CutOrSummed(p) /\ e = RowsOf(p)
    OBVIOUS
  <2>5. l \in Seq(Nat) /\ Rows(e, N, l, SampleSets) /\ AllRows(e, N, Len(l), d, SampleSets)
    BY <2>1, <2>2, <2>4, CountsAre, RowsAre, AllRowsAre
  <2>6. FlattenSeq(d) = FlattenSeq([i \in 1 .. N |-> FlattenSeq(e[i])])
    BY <2>5, FlattenTwice
  <2>7. FlattenSeq(d) \in Seq(SampleSets) /\ Len(FlattenSeq(d)) = t * N
    <3>1. RowsTogether(FlattenSeq(d), e, N, l, SampleSets)
      BY <2>5, AllRowsFlat
    <3>2. N * t = t * N
      OBVIOUS
    <3> QED BY <2>3, <3>1, <3>2, Zenon DEF RowsTogether
  <2>8. Dsp(p) = FlattenSeq(d)
    BY <1>1, <2>4 DEF Dsp, CutOrSummed
  <2>9. Meant(p) = FlattenSeq([i \in 1 .. N |-> FlattenSeq(e[i])])
    <3>1. Meant(p) = FlattenSeq([i \in 1 .. N |-> FlattenSeq(RowOf(p, i - 1))])
      BY <1>1, <2>1, MeantIs
    <3>2. \A i \in 1 .. N : e[i] = RowOf(p, i - 1)
      BY <2>1, <2>4 DEF RowsOf
    <3>3. [i \in 1 .. N |-> FlattenSeq(RowOf(p, i - 1))] = [i \in 1 .. N |-> FlattenSeq(e[i])]
      BY <3>2
    <3> QED BY <3>1, <3>3, Zenon
  <2> QED BY <2>3, <2>6, <2>7, <2>8, <2>9, Zenon
<1>2. CASE Enabled(p, "INTEGRATION")
  BY <1>2, IntegratedIs
<1> QED BY <1>1, <1>2

(* Whole words hold the samples, and reading them gives them back.         *)
LEMMA WordsRead ==
  ASSUME NEW p, NEW q, p.units = q.units, NEW V, NEW data \in Seq(V)
  PROVE  ReadData(q, Words(p, data), Len(data)) = data
<1>1. PICK m \in Nat \ {0} : m = SlotsInWord(p) /\ m = SlotsInWord(q)
  <2>1. PICK c \in Nat : c = CAPTURE_RAM_WORD_SIZE /\ c >= 8
    BY HwParamConstants, CaptureConstants
  <2>2. c * 4 \in Nat \ {0} /\ c \div 8 \in Nat \ {0}
    BY <2>1
  <2>3. CASE Enabled(p, "CLASSIFICATION")
    BY <2>1, <2>2, <2>3 DEF SlotsInWord, Enabled
  <2>4. CASE ~ Enabled(p, "CLASSIFICATION")
    BY <2>1, <2>2, <2>4 DEF SlotsInWord, Enabled, CAPTURED_SAMPLE_SIZE
  <2> QED BY <2>3, <2>4
<1>2. PICK n \in Nat : n = Len(data)
  OBVIOUS
<1>3. PICK x \in Nat : x = n + m - 1
  OBVIOUS
<1>4. PICK W \in Nat : W = x \div m /\ W = CeilDiv(n, m) /\ x < m * W + m
  BY <1>3, Division DEF CeilDiv
<1>5. PICK ws : ws = Words(p, data)
  OBVIOUS
<1>6. ws = [w \in 1 .. W |-> [i \in 1 .. m |->
              IF (w - 1) * m + i <= n THEN data[(w - 1) * m + i] ELSE {}]]
  BY <1>1, <1>2, <1>4, <1>5 DEF Words
<1>7. Len(ws) = W
  BY <1>6
<1>8. ASSUME NEW k \in 1 .. n
      PROVE  (IF ((k - 1) \div m) + 1 <= Len(ws)
              THEN ws[((k - 1) \div m) + 1][((k - 1) % m) + 1] ELSE {-1}) = data[k]
  <2>1. PICK h \in Nat : h = k - 1 /\ h < n
    OBVIOUS
  <2>2. h \div m \in Nat /\ h % m \in Nat /\ h % m < m /\ h = m * (h \div m) + (h % m)
    BY Remainder
  <2>3. PICK y \in Nat, r \in Nat : y = h \div m /\ r = h % m /\ r < m /\ h = m * y + r
    BY <2>2, Zenon
  <2>4. y + 1 <= W
    <3>1. y + 1 \in Nat /\ m * (y + 1) = m * y + m
      OBVIOUS
    <3>2. m * (y + 1) < m * W + m
      <4>1. PICK a \in Nat, b \in Nat : a = m * y /\ b = m * W
        OBVIOUS
      <4>2. a + m < b + m
        BY <1>3, <1>4, <2>1, <2>3, <4>1
      <4> QED BY <3>1, <4>1, <4>2
    <3> QED BY <3>1, <3>2, Multiples
  <2>5. PICK w \in 1 .. W : w = y + 1 /\ w - 1 = y
    BY <2>4
  <2>6. PICK i \in 1 .. m : i = r + 1
    BY <2>3
  <2>7. (w - 1) * m + i = k
    <3>1. PICK a \in Nat : a = m * y /\ a = (w - 1) * m
      BY <2>5
    <3> QED BY <2>1, <2>3, <2>6, <3>1
  <2>8. ws[w][i] = IF (w - 1) * m + i <= n THEN data[(w - 1) * m + i] ELSE {}
    BY <1>6
  <2>9. ws[w][i] = data[k]
    <3>1. k <= n
      OBVIOUS
    <3> QED BY <2>7, <2>8, <3>1, Zenon
  <2>10. ((k - 1) \div m) + 1 = w /\ ((k - 1) % m) + 1 = i
    BY <2>1, <2>3, <2>5, <2>6, Zenon
  <2>11. w <= Len(ws)
    BY <1>7
  <2> QED BY <2>9, <2>10, <2>11, Zenon
<1>9. ReadData(q, ws, n) = [k \in 1 .. n |->
        IF ((k - 1) \div m) + 1 <= Len(ws)
        THEN ws[((k - 1) \div m) + 1][((k - 1) % m) + 1] ELSE {-1}]
  BY <1>1 DEF ReadData
<1>10. ReadData(q, ws, n) = [k \in 1 .. n |-> data[k]]
  BY <1>8, <1>9
<1>11. data = [k \in 1 .. n |-> data[k]]
  BY <1>2
<1> QED BY <1>2, <1>5, <1>10, <1>11, Zenon

(* The same parameters, but for the number of words to sum: no more than   *)
(* there can be from the first one.                                        *)
SameButCount(p, g) ==
  /\ g.integ = p.integ /\ g.sections = p.sections /\ g.units = p.units
  /\ g.delay = p.delay /\ g.start = p.start
  /\ g.count = Lowest(p.start + p.count - 1, MAX_SUM_SECTION_LEN) - p.start + 1

(* The unit reads in its registers what was written to them. *)
LEMMA RegistersRead ==
  ASSUME NEW p \in ParamType, Len(p.sections) <= MAX_SUM_SECTIONS, NEW old
  PROVE  /\ GenCaptureParam(RegistersOf(p, old)) \in ParamType
         /\ SameButCount(p, GenCaptureParam(RegistersOf(p, old)))
<1>1. PICK S \in Nat, M \in Nat : S = Len(p.sections) /\ M = MAX_SUM_SECTIONS /\ S <= M
  BY CaptureLimits DEF ParamType
<1>2. PICK l : l = [i \in 1 .. M |-> IF i <= S THEN p.sections[i] ELSE old.sections[i]]
  OBVIOUS
<1>3. SubSeq(l, 1, S) = p.sections
  <2>1. SubSeq(l, 1, S) = [i \in 1 .. S |-> l[i]]
    <3>1. SubSeq(l, 1, S) = [i \in 1 .. S - 1 + 1 |-> l[i + 1 - 1]]
      BY DEF SubSeq
    <3>2. S - 1 + 1 = S /\ \A i \in 1 .. S : i + 1 - 1 = i
      OBVIOUS
    <3> QED BY <3>1, <3>2
  <2>2. \A i \in 1 .. S : l[i] = p.sections[i]
    BY <1>1, <1>2
  <2>3. p.sections = [i \in 1 .. S |-> p.sections[i]]
    <3>1. p.sections \in Seq(SectionType)
      BY DEF ParamType
    <3> QED BY <1>1, <3>1
  <2> QED BY <2>1, <2>2, <2>3
<1>4. PICK g : g = GenCaptureParam(RegistersOf(p, old))
  OBVIOUS
<1>5. PICK c : c = Lowest(p.start + p.count - 1, MAX_SUM_SECTION_LEN) - p.start + 1
  OBVIOUS
<1>6. g = [integ |-> p.integ, sections |-> SubSeq(l, 1, S), units |-> p.units,
           delay |-> p.delay, start |-> p.start, count |-> c]
  BY <1>1, <1>2, <1>4, <1>5 DEF GenCaptureParam, RegistersOf
<1>7. c \in Nat \ {0}
  <2>0. /\ MAX_SUM_SECTION_LEN \in Nat /\ p.start \in Nat /\ p.start <= MAX_SUM_SECTION_LEN
        /\ p.count \in Nat \ {0}
    BY CaptureLimits DEF ParamType
  <2>1. PICK L \in Nat, s \in Nat, n \in Nat \ {0} :
          L = MAX_SUM_SECTION_LEN /\ s = p.start /\ n = p.count /\ s <= L
    BY <2>0, Zenon
  <2>2. c = Lowest(s + n - 1, L) - s + 1
    BY <1>5, <2>1
  <2>3. CASE s + n - 1 <= L
    BY <2>2, <2>3 DEF Lowest
  <2>4. CASE ~(s + n - 1 <= L)
    BY <2>1, <2>2, <2>4 DEF Lowest
  <2> QED BY <2>3, <2>4
<1>8. g \in ParamType
  BY <1>3, <1>6, <1>7 DEF ParamType
<1>9. SameButCount(p, g)
  BY <1>3, <1>5, <1>6 DEF SameButCount
<1> QED BY <1>4, <1>8, <1>9

(* They count the same and mean the same. *)
LEMMA SameMeaning ==
  ASSUME NEW p \in ParamType, NEW g \in ParamType, SameButCount(p, g)
  PROVE  /\ Meant(g) = Meant(p) /\ CalcCaptureSamples(g) = CalcCaptureSamples(p)
         /\ SumReachesSections(p) => SumReachesSections(g)
<1>1. /\ g.integ = p.integ /\ g.sections = p.sections /\ g.units = p.units
      /\ g.delay = p.delay /\ g.start = p.start
  BY DEF SameButCount
<1>2. PICK S \in Nat : S = Len(p.sections) /\ DOMAIN p.sections = 1 .. S
  <2>1. p.sections \in Seq(SectionType)
    BY DEF ParamType
  <2> QED BY <2>1
<1>3. \A u : Enabled(g, u) = Enabled(p, u)
  BY <1>1 DEF Enabled
<1>4. \A w : NumWordsLeft(g, w) = NumWordsLeft(p, w)
  BY <1>3 DEF NumWordsLeft
<1>5. \A j : KeptCount(g, j) = KeptCount(p, j)
  BY <1>1, <1>4 DEF KeptCount
<1>6. \A i, j, n : KeptSample(g, i, j, n) = KeptSample(p, i, j, n)
  <2>1. \A k : SectionStart(g, k) = SectionStart(p, k)
    BY <1>1, Zenon DEF SectionStart
  <2>2. Stride(g) = Stride(p)
    BY <1>3, Zenon DEF Stride
  <2>3. FirstBlock(g) = FirstBlock(p)
    <3>1. DelayOf(g) = DelayOf(p)
      BY <1>1, Zenon DEF DelayOf
    <3> QED BY <3>1, Zenon DEF FirstBlock
  <2>4. ASSUME NEW i, NEW j, NEW n PROVE KeptSample(g, i, j, n) = KeptSample(p, i, j, n)
    <3>1. PICK k : k = i * Len(p.sections) + j - 1 /\ k = i * Len(g.sections) + j - 1
      BY <1>1, Zenon
    <3>2. KeptSample(p, i, j, n) = WaveAt(FirstBlock(p) + SectionStart(p, k) + n * Stride(p))
      BY <3>1, KeptIs, Zenon
    <3>3. KeptSample(g, i, j, n) = WaveAt(FirstBlock(g) + SectionStart(g, k) + n * Stride(g))
      BY <3>1, KeptIs, Zenon
    <3> QED BY <2>1, <2>2, <2>3, <3>2, <3>3, Zenon
  <2> QED BY <2>4, Zenon
<1>7. ASSUME NEW j \in 1 .. S PROVE Summed(g, j) = Summed(p, j)
  <2>0. /\ MAX_SUM_SECTION_LEN \in Nat /\ p.start \in Nat /\ p.start <= MAX_SUM_SECTION_LEN
        /\ p.count \in Nat \ {0}
    BY CaptureLimits DEF ParamType
  <2>1. PICK L \in Nat, s \in Nat, n \in Nat \ {0} :
          L = MAX_SUM_SECTION_LEN /\ s = p.start /\ n = p.count /\ s <= L
    BY <2>0, Zenon
  <2>2. PICK K \in Nat : K = KeptCount(p, j) /\ K <= 4 * L
    BY <1>2, <2>1, SectionKept, SMTT(30)
  <2>3. Summed(p, j) = {x \in 0 .. K - 1 : x \div 4 \in s .. s + n - 1}
    BY <2>1, <2>2 DEF Summed
  <2>4. PICK c \in Int : c = g.count /\ c = Lowest(s + n - 1, L) - s + 1
    BY <2>1 DEF SameButCount, ParamType
  <2>5. Summed(g, j) = {x \in 0 .. K - 1 : x \div 4 \in s .. s + c - 1}
    BY <1>1, <1>5, <2>1, <2>2, <2>4 DEF Summed
  <2>6. \A x \in 0 .. K - 1 : x \div 4 \in s .. s + c - 1 <=> x \div 4 \in s .. s + n - 1
    BY <2>2, <2>4 DEF Lowest
  <2> QED BY <2>3, <2>5, <2>6
<1>8. ASSUME NEW i, NEW j \in 1 .. S PROVE Gives(g, i, j) = Gives(p, i, j)
  BY <1>3, <1>5, <1>6, <1>7 DEF Gives, Results
<1>9. \A i : RowOf(g, i) = RowOf(p, i)
  BY <1>1, <1>2, <1>8 DEF RowOf
<1>10. Meant(g) = Meant(p)
  <2>1. Enabled(g, "INTEGRATION") = Enabled(p, "INTEGRATION")
    BY <1>3
  <2>2. CASE Enabled(p, "INTEGRATION")
    <3>1. Meant(p) = [n \in DOMAIN FlattenSeq(RowOf(p, 0)) |->
                        UNION {FlattenSeq(RowOf(p, i))[n] : i \in 0 .. p.integ - 1}]
      BY <2>2, MeantIs, Zenon
    <3>2. Meant(g) = [n \in DOMAIN FlattenSeq(RowOf(g, 0)) |->
                        UNION {FlattenSeq(RowOf(g, i))[n] : i \in 0 .. g.integ - 1}]
      BY <2>1, <2>2, MeantIs, Zenon
    <3>3. Meant(g) = [n \in DOMAIN FlattenSeq(RowOf(p, 0)) |->
                        UNION {FlattenSeq(RowOf(p, i))[n] : i \in 0 .. p.integ - 1}]
      BY <1>1, <1>9, <3>2
    <3> QED BY <3>1, <3>3, Zenon
  <2>3. CASE ~ Enabled(p, "INTEGRATION")
    <3>1. Meant(p) = FlattenSeq([i \in 1 .. p.integ |-> FlattenSeq(RowOf(p, i - 1))])
      BY <2>3, MeantIs, Zenon
    <3>2. Meant(g) = FlattenSeq([i \in 1 .. g.integ |-> FlattenSeq(RowOf(g, i - 1))])
      BY <2>1, <2>3, MeantIs, Zenon
    <3>3. Meant(g) = FlattenSeq([i \in 1 .. p.integ |-> FlattenSeq(RowOf(p, i - 1))])
      BY <1>1, <1>9, <3>2
    <3> QED BY <3>1, <3>3, Zenon
  <2> QED BY <2>2, <2>3
<1>11. CalcCaptureSamples(g) = CalcCaptureSamples(p)
  BY <1>1, <1>3, <1>4 DEF CalcCaptureSamples, SamplesOfSection
<1>12. SumReachesSections(p) => SumReachesSections(g)
  BY <1>1, <1>3, <1>5 DEF SumReachesSections
<1> QED BY <1>10, <1>11, <1>12

(* What check_capture_size accepts fits into the memory of a unit. *)
LEMMA SizeIsEnough ==
  ASSUME NEW p \in ParamType, CheckCaptureSize(p)
  PROVE  CalcRequiredCaptureMemSize(p) <= MAX_CAPTURE_SIZE
<1>1. PICK n \in Nat : n = CalcCaptureSamples(p)
  <2>1. PICK k \in Nat : k = IF Enabled(p, "INTEGRATION") THEN 1 ELSE p.integ
    BY DEF ParamType
  <2>2. SumAll(CountsOf(p)) \in Nat /\ CalcCaptureSamples(p) = SumAll(CountsOf(p)) * k
    BY <2>1, CountsAre
  <2>3. \A a, b \in Nat : a * b \in Nat
    OBVIOUS
  <2> QED BY <2>2, <2>3
<1>2. SizeOk(p, n)
  BY <1>1 DEF CheckCaptureSize
<1>3. PICK A \in Nat \ {0}, M \in Nat \ {0} :
        A = CAPTURE_DATA_ALIGNMENT_SIZE /\ M = MAX_CAPTURE_SIZE /\ M % A = 0
  BY HwParamConstants
<1> HIDE DEF CeilDiv
<1>6. PICK k \in Nat : M = A * k
  <2>1. PICK k \in Nat : M = A * k + (M % A) /\ A * k \in Nat
    <3>1. M \div A \in Nat /\ M = A * (M \div A) + (M % A) /\ A * (M \div A) \in Nat
      OBVIOUS
    <3> QED BY <3>1
  <2>2. M % A = 0
    BY <1>3
  <2> QED BY <2>1, <2>2
<1>4. CASE Enabled(p, "CLASSIFICATION")
  <2>1. n <= M * 4
    BY <1>2, <1>3, <1>4 DEF SizeOk
  <2>2. PICK d \in Nat \ {0} : d = A * 8 /\ d * k = M * 8
    <3>1. (A * 8) * k = (A * k) * 8
      OBVIOUS
    <3> QED BY <1>6, <3>1
  <2>3. n * 2 <= d * k
    BY <2>1, <2>2
  <2>4. PICK c \in Nat : c = CeilDiv(n * 2, d) /\ c <= k
    <3>1. PICK m \in Nat : m = n * 2
      OBVIOUS
    <3> QED BY <2>3, <3>1, FilledUp
  <2>5. A * c <= A * k
    BY <2>4, Multiples
  <2> QED BY <1>1, <1>3, <1>6, <1>4, <2>2, <2>4, <2>5
       DEF CalcRequiredCaptureMemSize, MemSize
<1>5. CASE ~ Enabled(p, "CLASSIFICATION")
  <2>1. n * 8 <= M
    <3>1. CASE Enabled(p, "INTEGRATION")
      <4>1. PICK V \in Nat : V = MAX_INTEG_VEC_ELEMS /\ (4 * V + 3) * 8 <= M
        BY <1>3, CaptureConstants
      <4>2. (IF Enabled(p, "SUM") THEN n ELSE n \div 4) <= V
        BY <1>2, <3>1, <4>1 DEF SizeOk, NUM_SAMPLES_IN_ADC_WORD
      <4>3. n <= 4 * V + 3
        <5>1. CASE Enabled(p, "SUM")
          BY <4>2, <5>1
        <5>2. CASE ~ Enabled(p, "SUM")
          BY <4>2, <5>2
        <5> QED BY <5>1, <5>2
      <4> QED BY <4>1, <4>3
    <3>2. CASE ~ Enabled(p, "INTEGRATION")
      <4>1. p.units \cap {"INTEGRATION", "CLASSIFICATION"} = {}
        BY <1>5, <3>2 DEF Enabled
      <4>2. n <= M \div 8
        BY <1>2, <1>3, <4>1 DEF SizeOk, CAPTURED_SAMPLE_SIZE
      <4> QED BY <4>2
    <3> QED BY <3>1, <3>2
  <2>2. PICK c \in Nat : c = CeilDiv(n * 8, A) /\ c <= k
    <3>1. PICK m \in Nat : m = n * 8 /\ m <= A * k
      BY <1>6, <2>1
    <3> QED BY <3>1, FilledUp
  <2>3. A * c <= A * k
    BY <2>2, Multiples
  <2> QED BY <1>1, <1>3, <1>6, <1>5, <2>2, <2>3
       DEF CalcRequiredCaptureMemSize, MemSize, CAPTURED_SAMPLE_SIZE
<1> QED BY <1>4, <1>5

(* What a unit has taken was accepted, and its registers say it. *)
TakenAsAsked(p, r) ==
  /\ p \in ParamType /\ Len(p.sections) <= MAX_SUM_SECTIONS /\ CheckCaptureSize(p)
  /\ GenCaptureParam(r) \in ParamType /\ SameButCount(p, GenCaptureParam(r))

(* What is in memory is what the unit makes of its registers. *)
IsStored(s, n, r) ==
  s = Words(GenCaptureParam(r), Dsp(GenCaptureParam(r)))
  /\ n = CalcCaptureSamples(GenCaptureParam(r))

(* Types, and how far the capture has come. *)
CaptureTypeOK == param \in ParamType /\ Len(param.sections) <= MAX_SUM_SECTIONS
TakenInv == taken # NoParam => TakenAsAsked(taken, regs)
StoredInv == stored # NothingStored => taken # NoParam /\ IsStored(stored, captured, regs)
GotInv == got # NoData => stored # NothingStored /\ got = ReadData(taken, stored, captured)
CaptureInv == CaptureTypeOK /\ TakenInv /\ StoredInv /\ GotInv

(* The invariant holds at the start. *)
LEMMA CaptureStarts == CaptureInit => CaptureInv
<1> SUFFICES ASSUME CaptureInit PROVE CaptureInv
  OBVIOUS
<1>1. <<>> \in Seq(SectionType) /\ Len(<<>>) = 0
  OBVIOUS
<1>2. MAX_SUM_SECTION_LEN \in Nat \ {0} /\ MAX_SUM_SECTIONS \in Nat
  BY CaptureLimits
<1>3. InitialParam \in ParamType
  BY <1>1, <1>2 DEF InitialParam, ParamType
<1>4. Len(InitialParam.sections) <= MAX_SUM_SECTIONS
  BY <1>1, <1>2 DEF InitialParam
<1>5. param = InitialParam /\ taken = NoParam /\ stored = NothingStored /\ got = NoData
  BY DEF CaptureInit
<1> QED BY <1>3, <1>4, <1>5, Zenon DEF CaptureInv, CaptureTypeOK, TakenInv, StoredInv, GotInv

(* A parameter object with other sections is one. *)
LEMMA SectionsChange ==
  ASSUME NEW p \in ParamType, NEW l \in Seq(SectionType), Len(l) <= MAX_SUM_SECTIONS
  PROVE  /\ [p EXCEPT !.sections = l] \in ParamType
         /\ Len([p EXCEPT !.sections = l].sections) <= MAX_SUM_SECTIONS
<1>1. [p EXCEPT !.sections = l] \in ParamType
  BY DEF ParamType
<1>2. [p EXCEPT !.sections = l].sections = l
  BY DEF ParamType
<1> QED BY <1>1, <1>2

(* A sequence without one of its elements. *)
LEMMA Removed ==
  ASSUME NEW V, NEW s \in Seq(V), NEW i \in 1 .. Len(s)
  PROVE  RemoveAt(s, i) \in Seq(V) /\ Len(RemoveAt(s, i)) <= Len(s)
<1>1. /\ SubSeq(s, 1, i - 1) \in Seq(V) /\ SubSeq(s, i + 1, Len(s)) \in Seq(V)
      /\ Len(SubSeq(s, 1, i - 1)) = i - 1 /\ Len(SubSeq(s, i + 1, Len(s))) = Len(s) - i
  OBVIOUS
<1>3. PICK a \in Seq(V), b \in Seq(V) : /\ a = SubSeq(s, 1, i - 1) /\ b = SubSeq(s, i + 1, Len(s))
                                        /\ Len(a) = i - 1 /\ Len(b) = Len(s) - i
  BY <1>1
<1>4. RemoveAt(s, i) = a \o b
  BY <1>3 DEF RemoveAt
<1>5. a \o b \in Seq(V) /\ Len(a \o b) = Len(a) + Len(b)
  OBVIOUS
<1>6. Len(a) + Len(b) <= Len(s)
  <2>1. PICK n \in Nat : n = Len(s) /\ i \in 1 .. n
    OBVIOUS
  <2>2. (i - 1) + (n - i) <= n
    BY <2>1
  <2> QED BY <1>3, <2>1, <2>2, Zenon
<1> QED BY <1>4, <1>5, <1>6, Zenon

(* A setter keeps the invariant. *)
LEMMA ChangeKeeps ==
  ASSUME CaptureInv, NEW p \in ParamType, Len(p.sections) <= MAX_SUM_SECTIONS, Change(p)
  PROVE  CaptureInv'
<1>1. param' = p /\ taken = NoParam /\ UNCHANGED <<regs, stored, captured, taken, got>>
  BY DEF Change
<1>2. CaptureTypeOK'
  BY <1>1 DEF CaptureTypeOK
<1>3. TakenInv' /\ StoredInv' /\ GotInv'
  BY <1>1 DEF CaptureInv, TakenInv, StoredInv, GotInv
<1> QED BY <1>2, <1>3 DEF CaptureInv

(* An argument is set. *)
LEMMA ArgumentKeeps ==
  ASSUME CaptureInv, NEW p \in ParamType, p.sections = param.sections, Change(p)
  PROVE  CaptureInv'
BY ChangeKeeps DEF CaptureInv, CaptureTypeOK

(* Parameters are written to the registers. *)
LEMMA SetParamsKeeps ==
  ASSUME CaptureInv, SetCaptureParams
  PROVE  CaptureInv'
<1>1. /\ taken = NoParam /\ CheckCaptureSize(param) /\ regs' = RegistersOf(param, regs)
      /\ taken' = param /\ UNCHANGED <<param, stored, captured, got>>
  BY DEF SetCaptureParams
<1>2. stored = NothingStored /\ got = NoData
  BY <1>1 DEF CaptureInv, StoredInv, GotInv
<1>3. param \in ParamType /\ Len(param.sections) <= MAX_SUM_SECTIONS
  BY DEF CaptureInv, CaptureTypeOK
<1>4. /\ GenCaptureParam(RegistersOf(param, regs)) \in ParamType
      /\ SameButCount(param, GenCaptureParam(RegistersOf(param, regs)))
  BY <1>3, RegistersRead
<1>5. TakenAsAsked(param, RegistersOf(param, regs))
  BY <1>1, <1>3, <1>4 DEF TakenAsAsked
<1>6. CaptureTypeOK' /\ TakenInv'
  <2>1. TakenInv'
    <3> SUFFICES TakenAsAsked(taken', regs')
      BY DEF TakenInv
    <3> QED BY <1>1, <1>5, Zenon
  <2> QED BY <1>1, <1>3, <2>1 DEF CaptureTypeOK
<1>7. StoredInv' /\ GotInv'
  BY <1>1, <1>2 DEF StoredInv, GotInv
<1> QED BY <1>6, <1>7 DEF CaptureInv

(* The unit captures. *)
LEMMA CaptureKeeps ==
  ASSUME CaptureInv, CaptureWave
  PROVE  CaptureInv'
<1>1. /\ taken # NoParam /\ stored = NothingStored
      /\ stored' = Words(GenCaptureParam(regs), Dsp(GenCaptureParam(regs)))
      /\ captured' = CalcCaptureSamples(GenCaptureParam(regs))
      /\ UNCHANGED <<param, regs, taken, got>>
  BY DEF CaptureWave
<1>2. IsStored(stored', captured', regs)
  BY <1>1, Zenon DEF IsStored
<1>3. StoredInv'
  BY <1>1, <1>2, Zenon DEF StoredInv
<1>4. got = NoData
  BY <1>1 DEF CaptureInv, GotInv
<1>5. CaptureTypeOK' /\ TakenInv' /\ GotInv'
  BY <1>1, <1>4, Zenon DEF CaptureInv, CaptureTypeOK, TakenInv, GotInv
<1> QED BY <1>3, <1>5 DEF CaptureInv

(* The client reads. *)
LEMMA GetKeeps ==
  ASSUME CaptureInv, GetCaptureData
  PROVE  CaptureInv'
<1>1. /\ stored # NothingStored /\ got' = ReadData(taken, stored, captured)
      /\ UNCHANGED <<param, regs, stored, captured, taken>>
  BY DEF GetCaptureData
<1>2. CaptureTypeOK' /\ TakenInv' /\ StoredInv'
  BY <1>1, Zenon DEF CaptureInv, CaptureTypeOK, TakenInv, StoredInv
<1>3. GotInv'
  BY <1>1, Zenon DEF GotInv
<1> QED BY <1>2, <1>3 DEF CaptureInv

(* Every step keeps the invariant. *)
LEMMA CaptureSteps ==
  ASSUME CaptureInv, [CaptureNext]_captureVars
  PROVE  CaptureInv'
<1>0. param \in ParamType /\ Len(param.sections) <= MAX_SUM_SECTIONS
  BY DEF CaptureInv, CaptureTypeOK
<1>1. PICK p, S : /\ p = param /\ p \in ParamType /\ S = p.sections /\ S \in Seq(SectionType)
                  /\ Len(S) <= MAX_SUM_SECTIONS /\ Len(S) \in Nat /\ MAX_SUM_SECTIONS \in Nat
  <2>1. param.sections \in Seq(SectionType)
    BY <1>0 DEF ParamType
  <2>2. Len(param.sections) \in Nat /\ MAX_SUM_SECTIONS \in Nat
    BY <2>1, CaptureLimits
  <2> QED BY <1>0, <2>1, <2>2
<1>2. CASE UNCHANGED captureVars
  BY <1>2 DEF captureVars, CaptureInv, CaptureTypeOK, TakenInv, StoredInv, GotInv
<1>3. ASSUME NEW s \in Sections, AddSumSection(s) PROVE CaptureInv'
  <2>1. s \in SectionType
    BY <1>3, CaptureLimits DEF AddSumSection, SectionType
  <2>2. Append(S, s) \in Seq(SectionType) /\ Len(Append(S, s)) = Len(S) + 1
    BY <1>1, <2>1
  <2>3. Len(S) < MAX_SUM_SECTIONS /\ Change([p EXCEPT !.sections = Append(S, s)])
    BY <1>1, <1>3 DEF AddSumSection
  <2>4. Len(Append(S, s)) <= MAX_SUM_SECTIONS
    BY <1>1, <2>2, <2>3
  <2>5. /\ [p EXCEPT !.sections = Append(S, s)] \in ParamType
        /\ Len([p EXCEPT !.sections = Append(S, s)].sections) <= MAX_SUM_SECTIONS
    BY <1>1, <2>2, <2>4, SectionsChange
  <2> QED BY <2>3, <2>5, ChangeKeeps
<1>4. ASSUME NEW i \in {-1, 0}, DelSumSection(i) PROVE CaptureInv'
  <2>1. PICK j \in 1 .. Len(S) : j = IF i < 0 THEN Len(S) + i + 1 ELSE i + 1
    BY <1>1, <1>4 DEF DelSumSection
  <2>2. RemoveAt(S, j) \in Seq(SectionType) /\ Len(RemoveAt(S, j)) <= Len(S)
    BY <1>1, <2>1, Removed
  <2>3. Len(RemoveAt(S, j)) <= MAX_SUM_SECTIONS
    BY <1>1, <2>2
  <2>4. /\ [p EXCEPT !.sections = RemoveAt(S, j)] \in ParamType
        /\ Len([p EXCEPT !.sections = RemoveAt(S, j)].sections) <= MAX_SUM_SECTIONS
    BY <1>1, <2>2, <2>3, SectionsChange
  <2>5. Change([p EXCEPT !.sections = RemoveAt(S, j)])
    BY <1>1, <1>4, <2>1 DEF DelSumSection
  <2> QED BY <2>4, <2>5, ChangeKeeps
<1>5. ASSUME ClearSumSections PROVE CaptureInv'
  <2>1. <<>> \in Seq(SectionType) /\ Len(<<>>) <= MAX_SUM_SECTIONS
    BY <1>1
  <2>2. /\ [p EXCEPT !.sections = <<>>] \in ParamType
        /\ Len([p EXCEPT !.sections = <<>>].sections) <= MAX_SUM_SECTIONS
    BY <1>1, <2>1, SectionsChange
  <2> QED BY <1>1, <1>5, <2>2, ChangeKeeps DEF ClearSumSections
<1>6. ASSUME NEW n, SetNumIntegSections(n) PROVE CaptureInv'
  <2>1. n \in Nat \ {0}
    BY <1>6, CaptureLimits DEF SetNumIntegSections
  <2>2. [p EXCEPT !.integ = n] \in ParamType /\ [p EXCEPT !.integ = n].sections = param.sections
    BY <1>1, <2>1 DEF ParamType
  <2> QED BY <1>1, <1>6, <2>2, ArgumentKeeps DEF SetNumIntegSections
<1>7. ASSUME NEW units, SelDspUnitsToEnable(units) PROVE CaptureInv'
  <2>1. /\ [p EXCEPT !.units = units] \in ParamType
        /\ [p EXCEPT !.units = units].sections = param.sections
    BY <1>1, <1>7 DEF SelDspUnitsToEnable, ParamType
  <2> QED BY <1>1, <1>7, <2>1, ArgumentKeeps DEF SelDspUnitsToEnable
<1>8. ASSUME NEW n \in Delays, SetCaptureDelay(n) PROVE CaptureInv'
  <2>1. n \in Nat
    BY <1>8, CaptureLimits DEF SetCaptureDelay
  <2>2. [p EXCEPT !.delay = n] \in ParamType /\ [p EXCEPT !.delay = n].sections = param.sections
    BY <1>1, <2>1 DEF ParamType
  <2> QED BY <1>1, <1>8, <2>2, ArgumentKeeps DEF SetCaptureDelay
<1>9. ASSUME NEW n \in SumStarts, SetSumStartWordNo(n) PROVE CaptureInv'
  <2>1. n \in 0 .. MAX_SUM_SECTION_LEN
    BY <1>9 DEF SetSumStartWordNo
  <2>2. [p EXCEPT !.start = n] \in ParamType /\ [p EXCEPT !.start = n].sections = param.sections
    BY <1>1, <2>1 DEF ParamType
  <2> QED BY <1>1, <1>9, <2>2, ArgumentKeeps DEF SetSumStartWordNo
<1>10. ASSUME NEW n \in SumCounts, SetNumWordsToSum(n) PROVE CaptureInv'
  <2>1. n \in Nat \ {0}
    BY <1>10, CaptureLimits DEF SetNumWordsToSum
  <2>2. [p EXCEPT !.count = n] \in ParamType /\ [p EXCEPT !.count = n].sections = param.sections
    BY <1>1, <2>1 DEF ParamType
  <2> QED BY <1>1, <1>10, <2>2, ArgumentKeeps DEF SetNumWordsToSum
<1>11. CASE SetCaptureParams
  BY <1>11, SetParamsKeeps
<1>12. CASE CaptureWave
  BY <1>12, CaptureKeeps
<1>13. CASE GetCaptureData
  BY <1>13, GetKeeps
<1> QED BY <1>2, <1>3, <1>4, <1>5, <1>6, <1>7, <1>8, <1>9, <1>10, <1>11, <1>12, <1>13
       DEF CaptureNext

(* What is read is what the parameters mean. *)
LEMMA ReadIsMeant == CaptureInv => DataIsTheCapture
<1> SUFFICES ASSUME CaptureInv, got # NoData, SumReachesSections(taken)
             PROVE  got = Meant(taken)
  BY DEF DataIsTheCapture
<1>1. /\ taken # NoParam /\ IsStored(stored, captured, regs)
      /\ got = ReadData(taken, stored, captured)
  BY DEF CaptureInv, GotInv, StoredInv
<1>2. PICK g : g = GenCaptureParam(regs)
  OBVIOUS
<1>3. taken \in ParamType /\ g \in ParamType /\ SameButCount(taken, g)
  BY <1>1, <1>2 DEF CaptureInv, TakenInv, TakenAsAsked
<1>4. stored = Words(g, Dsp(g)) /\ captured = CalcCaptureSamples(g)
  BY <1>1, <1>2, Zenon DEF IsStored
<1>5. Meant(g) = Meant(taken) /\ SumReachesSections(g)
  BY <1>3, SameMeaning
<1>6. /\ Dsp(g) = Meant(g) /\ Dsp(g) \in Seq(SampleSets) /\ Len(Dsp(g)) = CalcCaptureSamples(g)
  BY <1>3, <1>5, DspIs
<1>7. PICK d \in Seq(SampleSets) : d = Dsp(g)
  BY <1>6
<1>8. g.units = taken.units
  BY <1>3 DEF SameButCount
<1>9. ReadData(taken, Words(g, d), Len(d)) = d
  BY <1>8, WordsRead
<1>10. got = ReadData(taken, Words(g, d), Len(d))
  BY <1>1, <1>4, <1>6, <1>7, Zenon
<1> QED BY <1>5, <1>6, <1>7, <1>9, <1>10, Zenon

(* Whatever the sections, the sums and the DSP units, a capture whose      *)
(* parameters a unit has taken needs no more memory than the unit has      *)
(* (check_capture_size, capturectrl.py).                                   *)
THEOREM AcceptedCapturesFit == CaptureSpec => []AcceptedFits
<1>1. CaptureInv => AcceptedFits
  BY SizeIsEnough DEF CaptureInv, TakenInv, TakenAsAsked, AcceptedFits
<1> QED BY <1>1, CaptureStarts, CaptureSteps, PTL DEF CaptureSpec

(* Whatever the sections, the sums, the integration and the DSP units, and *)
(* whatever was set before: what a client reads is what the parameters     *)
(* mean, sample by sample, where the range to sum begins in each section   *)
(* (set_capture_params, dsp and get_capture_data).                         *)
THEOREM CapturedDataIsMeant == CaptureSpec => []DataIsTheCapture
<1> QED BY ReadIsMeant, CaptureStarts, CaptureSteps, PTL DEF CaptureSpec

-----------------------------------------------------------------------------
(* The bytes of a wave (WaveSamples). *)

(* What a wave sequence holds. *)
ChunkType ==
  {c \in [samples : Seq(Int \X Int), blank : Nat, repeats : Nat \ {0}] :
     c.samples # <<>> /\ Len(c.samples) % NUM_SAMPLES_IN_WAVE_BLOCK = 0}
SequenceType == [wait : Nat, repeats : Int, chunks : Seq(ChunkType)]

(* Types of a wave sequence. *)
SeqTypeOK == seq # NoSequence => seq \in SequenceType

(* Every step keeps them. *)
LEMMA SequenceSteps ==
  ASSUME SeqTypeOK, [WaveNext]_waveVars
  PROVE  SeqTypeOK'
<1>1. CASE UNCHANGED waveVars
  BY <1>1 DEF waveVars, SeqTypeOK
<1>2. ASSUME NEW w \in WaitLens, NEW n \in Repeats, NewSequence(w, n) PROVE SeqTypeOK'
  <2>1. w \in Nat /\ n \in Int
    BY <1>2, WaveConstants DEF NewSequence
  <2>2. [wait |-> w, repeats |-> n, chunks |-> <<>>] \in SequenceType
    BY <2>1 DEF SequenceType
  <2> QED BY <1>2, <2>2 DEF NewSequence, SeqTypeOK
<1>3. ASSUME NEW c \in ChunkArgs, AddChunk(c.samples, c.blank, c.repeats) PROVE SeqTypeOK'
  <2>1. PICK q \in SequenceType, l \in Seq(ChunkType) : q = seq /\ l = q.chunks
    BY <1>3 DEF AddChunk, SeqTypeOK, SequenceType
  <2>2. PICK d : d = Chunk(c.samples, c.blank, c.repeats)
    OBVIOUS
  <2>3. d \in ChunkType
    <3>1. c.samples \in Seq(Int \X Int) /\ c.blank \in Int /\ c.repeats \in Int
      BY WaveConstants
    <3>2. c.blank >= 0 /\ c.repeats >= 1 /\ c.samples # <<>>
          /\ Len(c.samples) % NUM_SAMPLES_IN_WAVE_BLOCK = 0
      BY <1>3 DEF AddChunk
    <3> QED BY <2>2, <3>1, <3>2 DEF Chunk, ChunkType
  <2>4. Append(l, d) \in Seq(ChunkType)
    BY <2>3
  <2>5. seq' = [q EXCEPT !.chunks = Append(l, d)]
    BY <1>3, <2>1, <2>2 DEF AddChunk
  <2>6. seq' \in SequenceType
    BY <2>1, <2>4, <2>5 DEF SequenceType
  <2> QED BY <2>6 DEF SeqTypeOK
<1>4. ASSUME NEW i \in Indexes, DelChunk(i) PROVE SeqTypeOK'
  <2>1. PICK q \in SequenceType, l \in Seq(ChunkType) : q = seq /\ l = q.chunks
    BY <1>4 DEF DelChunk, SeqTypeOK, SequenceType
  <2>2. PICK j \in 1 .. Len(l) : j = IF i < 0 THEN i + Len(l) + 1 ELSE i + 1
    BY <1>4, <2>1, WaveConstants DEF DelChunk
  <2>3. RemoveAt(l, j) \in Seq(ChunkType)
    BY Removed
  <2>4. seq' = [q EXCEPT !.chunks = RemoveAt(l, j)]
    BY <1>4, <2>1, <2>2 DEF DelChunk
  <2>5. seq' \in SequenceType
    BY <2>1, <2>3, <2>4 DEF SequenceType
  <2> QED BY <2>5 DEF SeqTypeOK
<1>5. ASSUME NEW n \in Repeats, SetNumRepeats(n) PROVE SeqTypeOK'
  <2>1. n \in Int /\ seq \in SequenceType
    BY <1>5, WaveConstants DEF SetNumRepeats, SeqTypeOK
  <2> QED BY <1>5, <2>1 DEF SetNumRepeats, SeqTypeOK, SequenceType
<1>6. ASSUME NEW wait \in BOOLEAN, AllSamplesLazy(wait) PROVE SeqTypeOK'
  BY <1>6 DEF AllSamplesLazy, SeqTypeOK
<1> QED BY <1>1, <1>2, <1>3, <1>4, <1>5, <1>6 DEF WaveNext

(* The four bytes of a sample. *)
BytesOf(x) ==
  LET i == x[1] % 65536
      q == x[2] % 65536
  IN  <<i % 256, i \div 256, q % 256, q \div 256>>

(* The bytes of a wave are those of its samples, in order. *)
LEMMA BytesAre ==
  ASSUME NEW s \in Seq(Int \X Int)
  PROVE  /\ Serialize(s) \in Seq(Nat) /\ Len(Serialize(s)) = 4 * Len(s)
         /\ \A n \in 1 .. Len(s), m \in 1 .. 4 : Serialize(s)[4 * n - 4 + m] = BytesOf(s[n])[m]
<1>1. PICK len \in Nat : len = Len(s) /\ DOMAIN s = 1 .. len
  OBVIOUS
<1> DEFINE parts == [n \in 1 .. len |-> BytesOf(s[n])]
           fours == [n \in 1 .. len |-> 4]
<1>2. Serialize(s) = FlattenSeq(parts)
  BY <1>1 DEF Serialize, BytesOf
<1>3. \A n \in 1 .. len : BytesOf(s[n]) \in Seq(Nat) /\ Len(BytesOf(s[n])) = 4
  <2>1. ASSUME NEW n \in 1 .. len PROVE BytesOf(s[n]) \in Seq(Nat) /\ Len(BytesOf(s[n])) = 4
    <3>1. s[n][1] \in Int /\ s[n][2] \in Int
      BY <1>1
    <3>2. PICK i \in Nat, q \in Nat : i = s[n][1] % 65536 /\ q = s[n][2] % 65536
      <4>1. \A x \in Int : x % 65536 \in Nat
        OBVIOUS
      <4> QED BY <3>1, <4>1, SMTT(30)
    <3>3. <<i % 256, i \div 256, q % 256, q \div 256>> \in Seq(Nat)
      OBVIOUS
    <3> QED BY <3>2, <3>3 DEF BytesOf
  <2> QED BY <2>1
<1>4. parts \in Seq(Seq(Nat)) /\ Len(parts) = len
  <2>1. parts \in [1 .. len -> Seq(Nat)]
    BY <1>3
  <2> HIDE DEF parts
  <2> QED BY <2>1, ListIs
<1>5. fours \in Seq(Nat) /\ Len(fours) = len
  <2>1. fours \in [1 .. len -> Nat]
    OBVIOUS
  <2> HIDE DEF fours
  <2> QED BY <2>1, ListIs
<1>6. \A n \in 1 .. len : fours[n] = 4 /\ parts[n] = BytesOf(s[n]) /\ fours[n] = Len(parts[n])
  BY <1>3
<1> HIDE DEF parts, fours
<1>7. \A n \in 0 .. len : Sums(fours)[n] = 4 * n
  BY <1>5, <1>6, EvenSums
<1>8. /\ FlattenSeq(parts) \in Seq(Nat) /\ Len(FlattenSeq(parts)) = SumAll(fours)
      /\ \A i \in 1 .. len : \A m \in 1 .. fours[i] :
           FlattenSeq(parts)[Sums(fours)[i - 1] + m] = parts[i][m]
  <2>1. Len(fours) = Len(parts) /\ \A i \in 1 .. Len(parts) : fours[i] = Len(parts[i])
    BY <1>4, <1>5, <1>6
  <2>2. /\ FlattenSeq(parts) \in Seq(Nat) /\ Len(FlattenSeq(parts)) = SumAll(fours)
        /\ \A i \in 1 .. Len(parts) : \A m \in 1 .. fours[i] :
             FlattenSeq(parts)[Sums(fours)[i - 1] + m] = parts[i][m]
    BY <1>4, <1>5, <2>1, FlattenAre, ZenonT(60)
  <2> QED BY <1>4, <2>2
<1>9. SumAll(fours) = 4 * len
  BY <1>5, <1>7 DEF SumAll
<1>10. ASSUME NEW n \in 1 .. len, NEW m \in 1 .. 4
       PROVE  Serialize(s)[4 * n - 4 + m] = BytesOf(s[n])[m]
  <2>1. n - 1 \in 0 .. len /\ 4 * (n - 1) = 4 * n - 4
    OBVIOUS
  <2>2. Sums(fours)[n - 1] = 4 * n - 4
    BY <1>7, <2>1
  <2>3. m \in 1 .. fours[n]
    BY <1>6
  <2> QED BY <1>2, <1>6, <1>8, <2>2, <2>3
<1> QED BY <1>1, <1>2, <1>8, <1>9, <1>10

(* The numbers of 16 bits. *)
LEMMA SignedAre == \A y \in Int : -32768 <= y /\ y <= 32767 => y \in Int16
<1>1. PICK a \in Int, b \in Int : a = -32768 /\ b = 32767
  OBVIOUS
<1>2. ASSUME NEW y \in Int, -32768 <= y, y <= 32767 PROVE y \in Int16
  <2>1. a <= y /\ y <= b
    BY <1>1, <1>2
  <2>2. y \in a .. b
    BY <2>1
  <2>3. Int16 = a .. b
    BY <1>1 DEF Int16
  <2> QED BY <2>2, <2>3
<1> QED BY <1>2

(* Two numbers that have the same 16 bits, the first one of 16 bits; and   *)
(* how one is written and read.                                            *)
Same16(a, x) == a \in Int16 /\ (a - x) % 65536 = 0

Mod16(x) == x % 65536
Back16(i) == ToInt16(i % 256, i \div 256)

(* What is read from two bytes has the bits of what was written. *)
LEMMA NumbersBack ==
  ASSUME NEW x \in Int
  PROVE  Same16(Back16(Mod16(x)), x)
<1>0. PICK i \in Int : i = x % 65536 /\ i = Mod16(x)
  BY DEF Mod16
<1>1. i \in Int /\ 0 <= i /\ i < 65536
  BY <1>0
<1>2. 256 * (i \div 256) + (i % 256) = i
  BY <1>1
<1> DEFINE y == ToInt16(i % 256, i \div 256)
<1>3. y = ((i + 32768) % 65536) - 32768
  BY <1>2 DEF ToInt16
<1>4. PICK k \in Int : x = 65536 * k + i
  <2>1. x = 65536 * (x \div 65536) + (x % 65536) /\ x \div 65536 \in Int
    OBVIOUS
  <2> QED BY <1>0, <2>1
<1>5. y \in Int /\ -32768 <= y /\ y <= 32767 /\ (y = i \/ y = i - 65536)
  <2>1. CASE i < 32768
    <3>1. (i + 32768) % 65536 = i + 32768
      BY <1>1, <2>1
    <3> QED BY <1>1, <1>3, <2>1, <3>1
  <2>2. CASE i >= 32768
    <3>1. (i + 32768) % 65536 = i - 32768
      BY <1>1, <2>2
    <3> QED BY <1>1, <1>3, <2>2, <3>1
  <2> QED BY <1>1, <2>1, <2>2
<1> HIDE DEF y
<1>6. PICK j \in Int : y - x = 65536 * j
  <2>1. CASE y = i
    <3>1. 0 - k \in Int /\ y - x = 65536 * (0 - k)
      BY <1>1, <1>4, <2>1
    <3> QED BY <1>5, <3>1
  <2>2. CASE y = i - 65536
    <3>1. (0 - k) - 1 \in Int /\ y - x = 65536 * ((0 - k) - 1)
      BY <1>1, <1>4, <2>2
    <3> QED BY <1>5, <3>1
  <2> QED BY <1>5, <2>1, <2>2
<1>7. (y - x) % 65536 = 0
  BY <1>6
<1>8. y \in Int16
  BY <1>5, SignedAre
<1> QED BY <1>0, <1>7, <1>8 DEF y, Same16, Back16

(* So have all samples of a wave that is written and read. *)
LEMMA BackIs ==
  ASSUME NEW s \in Seq(Int \X Int), NEW back, back = Deserialize(Serialize(s))
  PROVE  /\ Len(back) = Len(s) /\ DOMAIN back = 1 .. Len(s)
         /\ \A n \in 1 .. Len(s) : \A part \in 1 .. 2 : Same16(back[n][part], s[n][part])
<1>1. PICK len \in Nat : len = Len(s) /\ DOMAIN s = 1 .. len
  OBVIOUS
<1>2. PICK b : b = Serialize(s)
  OBVIOUS
<1>3. (Len(b) \div 4) = len
  <2>1. Len(b) = 4 * len
    BY <1>1, <1>2, BytesAre, Zenon
  <2>2. (4 * len) \div 4 = len
    OBVIOUS
  <2> QED BY <2>1, <2>2, Zenon
<1> DEFINE f(n) == <<ToInt16(b[4 * n - 3], b[4 * n - 2]), ToInt16(b[4 * n - 1], b[4 * n])>>
<1>4. back = [n \in 1 .. len |-> f(n)]
  BY <1>2, <1>3 DEF Deserialize
<1>5. ASSUME NEW n \in 1 .. len, NEW part \in 1 .. 2
      PROVE  Same16(f(n)[part], s[n][part])
  <2>1. PICK x \in Int, y \in Int : s[n] = <<x, y>>
    BY <1>1, SMTT(30)
  <2>2. PICK i \in Int, j \in Int : i = Mod16(x) /\ j = Mod16(y)
    BY DEF Mod16
  <2>3. BytesOf(s[n]) = <<i % 256, i \div 256, j % 256, j \div 256>>
    BY <2>1, <2>2 DEF BytesOf, Mod16
  <2>4. \A m \in 1 .. 4 : b[4 * n - 4 + m] = BytesOf(s[n])[m]
    BY <1>1, <1>2, BytesAre
  <2>5. b[4 * n - 3] = i % 256 /\ b[4 * n - 2] = i \div 256
    <3>1. 4 * n - 4 + 1 = 4 * n - 3 /\ 4 * n - 4 + 2 = 4 * n - 2 /\ 1 \in 1 .. 4 /\ 2 \in 1 .. 4
      OBVIOUS
    <3> QED BY <2>3, <2>4, <3>1
  <2>6. b[4 * n - 1] = j % 256 /\ b[4 * n] = j \div 256
    <3>1. 4 * n - 4 + 3 = 4 * n - 1 /\ 4 * n - 4 + 4 = 4 * n /\ 3 \in 1 .. 4 /\ 4 \in 1 .. 4
      OBVIOUS
    <3> QED BY <2>3, <2>4, <3>1
  <2>7. f(n)[1] = Back16(i) /\ f(n)[2] = Back16(j)
    BY <2>5, <2>6 DEF Back16
  <2>8. Same16(f(n)[1], x) /\ Same16(f(n)[2], y)
    <3> HIDE DEF f
    <3> QED BY <2>2, <2>7, NumbersBack
  <2>9. part = 1 \/ part = 2
    OBVIOUS
  <2> HIDE DEF f
  <2> QED BY <2>1, <2>8, <2>9
<1> HIDE DEF f
<1>6. DOMAIN back = 1 .. len /\ Len(back) = len /\ \A n \in 1 .. len : back[n] = f(n)
  BY <1>4
<1> QED BY <1>1, <1>5, <1>6

(* The bytes of a wave sequence hold its samples, for any samples: read    *)
(* back, each is the sample, or has its lowest 16 bits                     *)
(* (WaveSequence.serialize, deserialize).                                  *)
THEOREM BytesOfWavesAreTheirSamples == WaveSpec => []BytesAreTheSamples
<1>1. WaveInit => SeqTypeOK
  BY DEF WaveInit, SeqTypeOK
<1>2. SeqTypeOK => BytesAreTheSamples
  <2> SUFFICES ASSUME SeqTypeOK, seq # NoSequence PROVE BytesAreTheSamples
    BY DEF BytesAreTheSamples
  <2>1. ASSUME NEW c \in Range(seq.chunks), NEW back, back = Deserialize(Serialize(c.samples))
        PROVE  /\ Len(back) = Len(c.samples)
               /\ \A n \in DOMAIN back : \A part \in 1 .. 2 : Same16(back[n][part], c.samples[n][part])
    <3>1. c \in ChunkType
      BY DEF SeqTypeOK, SequenceType, Range
    <3>2. c.samples \in Seq(Int \X Int)
      BY <3>1 DEF ChunkType
    <3>3. PICK s \in Seq(Int \X Int) : s = c.samples /\ back = Deserialize(Serialize(s))
      BY <2>1, <3>2
    <3>4. /\ Len(back) = Len(s) /\ DOMAIN back = 1 .. Len(s)
          /\ \A n \in 1 .. Len(s) : \A part \in 1 .. 2 : Same16(back[n][part], s[n][part])
      BY <3>3, BackIs
    <3> QED BY <3>3, <3>4
  <2> QED BY <2>1 DEF BytesAreTheSamples, Same16
<1> QED BY <1>1, <1>2, SequenceSteps, PTL DEF WaveSpec

-----------------------------------------------------------------------------
(* The lazy list of a wave sequence (WaveSamples). *)

(* The chunk of a sample, by a search between first and last. *)
Search(l, idx, n, f) ==
  f = [part \in (1 .. n + 1) \X (0 .. n) |->
        LET lo == part[1]
            hi == part[2]
            target == (lo + hi) \div 2
        IN  IF lo > hi THEN 0
            ELSE IF l.ranges[target][1] <= idx /\ idx <= l.ranges[target][2] THEN target
            ELSE IF l.ranges[target][2] < idx THEN f[<<target + 1, hi>>]
            ELSE f[<<lo, target - 1>>]]

(* A search that is led to the chunk c. *)
LeadsTo(l, idx, n, c) ==
  \A t \in 1 .. n : /\ (l.ranges[t][1] <= idx /\ idx <= l.ranges[t][2]) <=> t = c
                    /\ t # c => (l.ranges[t][2] < idx <=> t < c)

(* The middle of two numbers lies between them. *)
LEMMA Middle ==
  ASSUME NEW a \in Nat, NEW b \in Nat, a <= b
  PROVE  (a + b) \div 2 \in Nat /\ a <= (a + b) \div 2 /\ (a + b) \div 2 <= b
OBVIOUS

(* There is such a search: its results, written down. *)
LEMMA SearchExists ==
  ASSUME NEW l, NEW idx, NEW n \in Nat, NEW c \in 1 .. n, LeadsTo(l, idx, n, c)
  PROVE  \E f : Search(l, idx, n, f)
<1> DEFINE D == (1 .. n + 1) \X (0 .. n)
           f == [part \in D |-> IF part[1] <= c /\ c <= part[2] THEN c ELSE 0]
           Next(part) == LET lo == part[1]
                             hi == part[2]
                             target == (lo + hi) \div 2
                         IN  IF lo > hi THEN 0
                             ELSE IF l.ranges[target][1] <= idx /\ idx <= l.ranges[target][2] THEN target
                             ELSE IF l.ranges[target][2] < idx THEN f[<<target + 1, hi>>]
                             ELSE f[<<lo, target - 1>>]
<1>1. ASSUME NEW a \in 1 .. n + 1, NEW b \in 0 .. n PROVE f[<<a, b>>] = IF a <= c /\ c <= b THEN c ELSE 0
  OBVIOUS
<1> HIDE DEF f
<1>2. ASSUME NEW a \in 1 .. n + 1, NEW b \in 0 .. n PROVE Next(<<a, b>>) = f[<<a, b>>]
  <2>1. CASE a > b
    <3>1. ~(a <= c /\ c <= b)
      BY <2>1
    <3> QED BY <1>1, <2>1, <3>1
  <2>2. CASE a <= b
    <3>1. PICK t \in Nat : t = (a + b) \div 2 /\ a <= t /\ t <= b
      BY <2>2, Middle
    <3>2. t \in 1 .. n /\ t + 1 \in 1 .. n + 1 /\ t - 1 \in 0 .. n
      BY <3>1
    <3>3. Next(<<a, b>>) =
            IF l.ranges[t][1] <= idx /\ idx <= l.ranges[t][2] THEN t
            ELSE IF l.ranges[t][2] < idx THEN f[<<t + 1, b>>] ELSE f[<<a, t - 1>>]
      BY <2>2, <3>1
    <3> HIDE DEF Next
    <3>4. CASE t = c
      <4>1. Next(<<a, b>>) = c
        BY <3>2, <3>3, <3>4 DEF LeadsTo
      <4> QED BY <1>1, <3>1, <3>4, <4>1
    <3>5. CASE t < c
      <4>1. Next(<<a, b>>) = f[<<t + 1, b>>]
        BY <3>2, <3>3, <3>5 DEF LeadsTo
      <4>2. (a <= c /\ c <= b) <=> (t + 1 <= c /\ c <= b)
        BY <3>1, <3>5
      <4> QED BY <1>1, <3>2, <4>1, <4>2
    <3>6. CASE c < t
      <4>1. Next(<<a, b>>) = f[<<a, t - 1>>]
        BY <3>2, <3>3, <3>6 DEF LeadsTo
      <4>2. (a <= c /\ c <= b) <=> (a <= c /\ c <= t - 1)
        BY <3>1, <3>6
      <4> QED BY <1>1, <3>2, <4>1, <4>2
    <3> QED BY <3>1, <3>4, <3>5, <3>6
  <2> QED BY <2>1, <2>2
<1>3. \A part \in D : Next(part) = f[part]
  <2> HIDE DEF Next
  <2>1. ASSUME NEW part \in D PROVE Next(part) = f[part]
    <3>1. PICK a \in 1 .. n + 1, b \in 0 .. n : part = <<a, b>>
      OBVIOUS
    <3> QED BY <1>2, <3>1
  <2> QED BY <2>1
<1>4. f = [part \in D |-> Next(part)]
  <2>1. f = [part \in D |-> f[part]]
    BY DEF f
  <2> HIDE DEF Next
  <2> QED BY <1>3, <2>1
<1>5. Search(l, idx, n, f)
  BY <1>4, Zenon DEF Search
<1> QED BY <1>5

(* Every one finds c, by induction on how much there is to search. *)
LEMMA SearchFinds ==
  ASSUME NEW l, NEW idx, NEW n \in Nat, NEW c \in 1 .. n, LeadsTo(l, idx, n, c),
         NEW f, Search(l, idx, n, f)
  PROVE  f[<<1, n>>] = c
<1> DEFINE S == {d \in Nat : \A a \in 1 .. n + 1, b \in 0 .. n :
                   b < a + d /\ a <= c /\ c <= b => f[<<a, b>>] = c}
<1>1. 0 \in S
  <2>1. \A a \in 1 .. n + 1, b \in 0 .. n : ~(b < a + 0 /\ a <= c /\ c <= b)
    OBVIOUS
  <2> QED BY <2>1
<1>2. ASSUME NEW d \in Nat, d \in S PROVE d + 1 \in S
  <2>1. SUFFICES ASSUME NEW a \in 1 .. n + 1, NEW b \in 0 .. n, b < a + (d + 1), a <= c, c <= b
                 PROVE  f[<<a, b>>] = c
    OBVIOUS
  <2>2. PICK t \in Nat : t = (a + b) \div 2 /\ a <= t /\ t <= b
    <3>1. a \in Nat /\ b \in Nat /\ a <= b
      BY <2>1
    <3> QED BY <3>1, Middle
  <2>3. t \in 1 .. n /\ t + 1 \in 1 .. n + 1 /\ t - 1 \in 0 .. n /\ ~(a > b)
    BY <2>1, <2>2
  <2>4. f[<<a, b>>] = IF l.ranges[t][1] <= idx /\ idx <= l.ranges[t][2] THEN t
                      ELSE IF l.ranges[t][2] < idx THEN f[<<t + 1, b>>] ELSE f[<<a, t - 1>>]
    BY <2>2, <2>3, Zenon DEF Search
  <2>5. CASE t = c
    BY <2>3, <2>4, <2>5 DEF LeadsTo
  <2>6. CASE t < c
    <3>1. f[<<a, b>>] = f[<<t + 1, b>>]
      BY <2>3, <2>4, <2>6 DEF LeadsTo
    <3>2. b < (t + 1) + d /\ t + 1 <= c
      BY <2>1, <2>2, <2>6
    <3> QED BY <1>2, <2>1, <2>3, <3>1, <3>2
  <2>7. CASE c < t
    <3>1. f[<<a, b>>] = f[<<a, t - 1>>]
      BY <2>3, <2>4, <2>7 DEF LeadsTo
    <3>2. t - 1 < a + d /\ c <= t - 1
      BY <2>1, <2>2, <2>7
    <3> QED BY <1>2, <2>1, <2>3, <3>1, <3>2
  <2> QED BY <2>2, <2>5, <2>6, <2>7
<1>3. Nat \subseteq S
  <2> HIDE DEF S
  <2> QED BY <1>1, <1>2, SetInduction
<1>4. n \in S /\ 1 \in 1 .. n + 1 /\ n \in 0 .. n /\ n < 1 + n
  BY <1>3
<1> QED BY <1>4

(* The search of the lazy list finds the chunk that it is led to. *)
LEMMA FindIs ==
  ASSUME NEW l, NEW idx, NEW n \in Nat, n = Len(l.chunks), NEW c \in 1 .. n, LeadsTo(l, idx, n, c)
  PROVE  FindChunk(l, idx) = c
<1>1. PICK f : f = CHOOSE g : Search(l, idx, n, g)
  OBVIOUS
<1>2. Search(l, idx, n, f)
  BY <1>1, SearchExists
<1>3. FindChunk(l, idx) = f[<<1, n>>]
  BY <1>1, Zenon DEF FindChunk, Search
<1> QED BY <1>2, <1>3, SearchFinds

(* Samples. *)
SampleType == Int \X Int

(* A sequence n times over: its length, and its samples. *)
LEMMA TimesAre ==
  ASSUME NEW s \in Seq(SampleType), NEW n \in Nat, NEW len \in Nat, len = Len(s)
  PROVE  /\ Times(n, s) \in Seq(SampleType) /\ Len(Times(n, s)) = len * n
         /\ \A i \in 1 .. n : \A m \in 1 .. len : Times(n, s)[len * (i - 1) + m] = s[m]
<1>1. PICK t : t = [i \in 1 .. n |-> s]
  OBVIOUS
<1>2. PICK l : l = [i \in 1 .. n |-> len]
  OBVIOUS
<1>3. t \in Seq(Seq(SampleType)) /\ Len(t) = n
  <2>1. t \in [1 .. n -> Seq(SampleType)]
    BY <1>1
  <2> QED BY <2>1, ListIs
<1>4. l \in Seq(Nat) /\ Len(l) = n
  <2>1. l \in [1 .. n -> Nat]
    BY <1>2
  <2> QED BY <2>1, ListIs
<1>5. \A i \in 1 .. n : l[i] = len /\ t[i] = s
  BY <1>1, <1>2
<1>6. /\ FlattenSeq(t) \in Seq(SampleType) /\ Len(FlattenSeq(t)) = SumAll(l)
      /\ \A i \in 1 .. n : \A m \in 1 .. l[i] : FlattenSeq(t)[Sums(l)[i - 1] + m] = t[i][m]
  <2>1. Len(l) = Len(t) /\ \A i \in 1 .. Len(t) : l[i] = Len(t[i])
    BY <1>3, <1>4, <1>5
  <2>2. /\ FlattenSeq(t) \in Seq(SampleType) /\ Len(FlattenSeq(t)) = SumAll(l)
        /\ \A i \in 1 .. Len(t) : \A m \in 1 .. l[i] : FlattenSeq(t)[Sums(l)[i - 1] + m] = t[i][m]
    BY <1>3, <1>4, <2>1, FlattenAre, ZenonT(60)
  <2> QED BY <1>3, <2>2
<1>7. \A i \in 0 .. n : Sums(l)[i] = len * i
  <2>1. \A i \in 1 .. Len(l) : l[i] = len
    BY <1>4, <1>5
  <2>2. \A i \in 0 .. Len(l) : Sums(l)[i] = len * i
    BY <1>4, <2>1, EvenSums
  <2> QED BY <1>4, <2>2
<1>8. SumAll(l) = len * n
  <2>1. SumAll(l) = Sums(l)[n]
    BY <1>4, SumIs
  <2>2. n \in 0 .. n
    OBVIOUS
  <2> QED BY <1>7, <2>1, <2>2
<1>9. Times(n, s) = FlattenSeq(t)
  BY <1>1 DEF Times
<1>10. ASSUME NEW i \in 1 .. n, NEW m \in 1 .. len PROVE FlattenSeq(t)[len * (i - 1) + m] = s[m]
  <2>1. i - 1 \in 0 .. n
    OBVIOUS
  <2>2. Sums(l)[i - 1] = len * (i - 1)
    BY <1>7, <2>1
  <2> QED BY <1>5, <1>6, <2>2
<1> QED BY <1>6, <1>8, <1>9, <1>10

(* By position from 0. *)
LEMMA TimesAt ==
  ASSUME NEW s \in Seq(SampleType), NEW n \in Nat, NEW len \in Nat \ {0}, len = Len(s)
  PROVE  \A j \in Nat : j < len * n =>
           j % len \in Nat /\ j % len < len /\ Times(n, s)[j + 1] = s[(j % len) + 1]
<1> SUFFICES ASSUME NEW j \in Nat, j < len * n
             PROVE  j % len \in Nat /\ j % len < len /\ Times(n, s)[j + 1] = s[(j % len) + 1]
  OBVIOUS
<1>1. PICK i \in Nat, m \in Nat : i = j \div len /\ m = j % len /\ m < len /\ j = len * i + m
  <2>1. j \div len \in Nat /\ j % len \in Nat /\ j % len < len /\ j = len * (j \div len) + (j % len)
    BY Remainder
  <2> QED BY <2>1, Zenon
<1>2. i < n
  <2>1. CASE n <= i
    <3>1. len * n <= len * i
      BY <2>1, Multiples
    <3>2. \A x, y \in Nat : x <= y /\ j = y + m => ~(j < x)
      OBVIOUS
    <3>3. len * n \in Nat /\ len * i \in Nat
      OBVIOUS
    <3> QED BY <1>1, <3>1, <3>2, <3>3
  <2> QED BY <2>1
<1>3. i + 1 \in 1 .. n /\ m + 1 \in 1 .. len /\ (i + 1) - 1 = i
  BY <1>1, <1>2
<1>4. Times(n, s)[len * i + (m + 1)] = s[m + 1]
  <2>1. \A k \in 1 .. n : \A x \in 1 .. len : Times(n, s)[len * (k - 1) + x] = s[x]
    <3>1. len \in Nat
      OBVIOUS
    <3>2. /\ Times(n, s) \in Seq(SampleType) /\ Len(Times(n, s)) = len * n
          /\ \A k \in 1 .. n : \A x \in 1 .. len : Times(n, s)[len * (k - 1) + x] = s[x]
      BY <3>1, TimesAre, Zenon
    <3> QED BY <3>2
  <2>2. Times(n, s)[len * ((i + 1) - 1) + (m + 1)] = s[m + 1]
    BY <1>3, <2>1, Zenon
  <2> QED BY <1>3, <2>2
<1>5. len * i + (m + 1) = j + 1
  BY <1>1
<1> QED BY <1>1, <1>4, <1>5

(* What is known of a chunk. *)
LEMMA ChunkIs ==
  ASSUME NEW c \in ChunkType
  PROVE  /\ c.samples \in Seq(SampleType) /\ c.blank \in Nat /\ c.repeats \in Nat \ {0}
         /\ Len(c.samples) \in Nat \ {0} /\ Len(c.samples) % NUM_SAMPLES_IN_WAVE_BLOCK = 0
<1>1. c.samples \in Seq(SampleType) /\ c.blank \in Nat /\ c.repeats \in Nat \ {0}
  BY DEF ChunkType, SampleType
<1>2. c.samples # <<>> /\ Len(c.samples) % NUM_SAMPLES_IN_WAVE_BLOCK = 0
  BY DEF ChunkType
<1>3. Len(c.samples) \in Nat \ {0}
  BY <1>1, <1>2, EmptySeq
<1> QED BY <1>1, <1>2, <1>3

(* The samples of a chunk are whole words. *)
LEMMA ChunkSize ==
  ASSUME NEW c \in ChunkType
  PROVE  /\ NumSamples(c) \in Nat \ {0} /\ c.blank * NUM_SAMPLES_IN_AWG_WORD \in Nat
         /\ NumSamples(c) = Len(c.samples) + c.blank * NUM_SAMPLES_IN_AWG_WORD
         /\ NumWords(c) \in Nat /\ NumSamples(c) = NumWords(c) * NUM_SAMPLES_IN_AWG_WORD
<1>1. PICK W \in Nat \ {0}, B \in Nat \ {0} :
        W = NUM_SAMPLES_IN_AWG_WORD /\ B = NUM_SAMPLES_IN_WAVE_BLOCK /\ B % W = 0
  BY WaveConstants, HwParamConstants
<1>2. PICK len \in Nat \ {0}, b \in Nat : len = Len(c.samples) /\ b = c.blank /\ len % B = 0
  BY <1>1, ChunkIs
<1>3. PICK x \in Nat : len = B * x
  BY <1>2, MultipleOf
<1>4. PICK y \in Nat : B = W * y
  BY <1>1, MultipleOf
<1>5. PICK z \in Nat : len = W * z
  <2>1. len = (W * y) * x
    BY <1>3, <1>4
  <2>2. (W * y) * x = W * (y * x) /\ y * x \in Nat
    OBVIOUS
  <2> QED BY <2>1, <2>2
<1>6. len \div W = z
  <2>1. 0 < W /\ len = W * z + 0
    BY <1>5
  <2>2. \A k, m \in Nat : m < W /\ len = W * k + m => len \div W = k
    BY Remainder
  <2> QED BY <2>1, <2>2
<1>7. NumWords(c) = z + b
  BY <1>1, <1>2, <1>6 DEF NumWords, NumWaveWords
<1>8. NumSamples(c) = (z + b) * W
  BY <1>1, <1>7 DEF NumSamples
<1>9. (z + b) * W = W * z + b * W /\ b * W \in Nat /\ z + b \in Nat
  OBVIOUS
<1> QED BY <1>1, <1>2, <1>5, <1>7, <1>8, <1>9

(* Blank samples. *)
LEMMA BlanksAre ==
  ASSUME NEW n \in Nat
  PROVE  Zeros(n) \in Seq(SampleType) /\ Len(Zeros(n)) = n /\ \A i \in 1 .. n : Zeros(n)[i] = <<0, 0>>
<1>1. Zeros(n) \in [1 .. n -> SampleType] /\ \A i \in 1 .. n : Zeros(n)[i] = <<0, 0>>
  BY DEF Zeros, SampleType
<1> QED BY <1>1, ListIs

(* Two sequences, one after the other. *)
Both(s, t) == s \o t

(* What is in them. *)
LEMMA BothAre ==
  ASSUME NEW s \in Seq(SampleType), NEW t \in Seq(SampleType)
  PROVE  /\ Both(s, t) \in Seq(SampleType) /\ Len(Both(s, t)) = Len(s) + Len(t)
         /\ \A i \in 1 .. Len(s) : Both(s, t)[i] = s[i]
         /\ \A i \in 1 .. Len(t) : Both(s, t)[Len(s) + i] = t[i]
BY DEF Both

(* A sample of a chunk, by position from 0. *)
SampleOf(c, p) == IF p >= Len(c.samples) THEN <<0, 0>> ELSE c.samples[p + 1]

(* A chunk once: its samples, then its blank. *)
LEMMA OnceIs ==
  ASSUME NEW c \in ChunkType, NEW u, u = Both(c.samples, Zeros(c.blank * NUM_SAMPLES_IN_AWG_WORD))
  PROVE  /\ u \in Seq(SampleType) /\ Len(u) = NumSamples(c)
         /\ \A p \in Nat : p < NumSamples(c) => u[p + 1] = SampleOf(c, p)
<1>1. PICK len \in Nat, z \in Nat, size \in Nat :
        /\ len = Len(c.samples) /\ z = c.blank * NUM_SAMPLES_IN_AWG_WORD /\ size = NumSamples(c)
        /\ size = len + z
  <2>1. /\ Len(c.samples) \in Nat /\ c.blank * NUM_SAMPLES_IN_AWG_WORD \in Nat /\ NumSamples(c) \in Nat
        /\ NumSamples(c) = Len(c.samples) + c.blank * NUM_SAMPLES_IN_AWG_WORD
    BY ChunkIs, ChunkSize
  <2> QED BY <2>1, Zenon
<1>2. c.samples \in Seq(SampleType)
  BY ChunkIs
<1>3. PICK t \in Seq(SampleType) : t = Zeros(z) /\ Len(t) = z /\ \A i \in 1 .. z : t[i] = <<0, 0>>
  BY BlanksAre
<1>4. /\ u \in Seq(SampleType) /\ Len(u) = len + z
      /\ \A i \in 1 .. len : u[i] = c.samples[i]
      /\ \A i \in 1 .. z : u[len + i] = t[i]
  <2>1. u = Both(c.samples, t)
    BY <1>1, <1>3
  <2>2. /\ Both(c.samples, t) \in Seq(SampleType) /\ Len(Both(c.samples, t)) = Len(c.samples) + Len(t)
        /\ \A i \in 1 .. Len(c.samples) : Both(c.samples, t)[i] = c.samples[i]
        /\ \A i \in 1 .. Len(t) : Both(c.samples, t)[Len(c.samples) + i] = t[i]
    BY <1>2, BothAre
  <2> QED BY <1>1, <1>3, <2>1, <2>2
<1>5. ASSUME NEW p \in Nat, p < len + z PROVE u[p + 1] = SampleOf(c, p)
  <2>1. CASE p >= len
    <3>1. PICK i \in 1 .. z : i = (p + 1) - len
      BY <1>5, <2>1
    <3>2. len + i = p + 1
      BY <3>1
    <3>3. u[len + i] = <<0, 0>>
      BY <1>3, <1>4
    <3> QED BY <1>1, <2>1, <3>2, <3>3 DEF SampleOf
  <2>2. CASE p < len
    <3>1. p + 1 \in 1 .. len /\ ~(p >= len)
      BY <2>2
    <3> QED BY <1>1, <1>4, <3>1 DEF SampleOf
  <2> QED BY <2>1, <2>2
<1> QED BY <1>1, <1>4, <1>5

(* A chunk as many times as it is repeated. *)
LEMMA ChunkSamplesAre ==
  ASSUME NEW c \in ChunkType
  PROVE  /\ ChunkSamples(c) \in Seq(SampleType) /\ c.repeats * NumSamples(c) \in Nat
         /\ Len(ChunkSamples(c)) = c.repeats * NumSamples(c)
         /\ \A j \in Nat : j < c.repeats * NumSamples(c) =>
              /\ j % NumSamples(c) \in Nat /\ j % NumSamples(c) < NumSamples(c)
              /\ ChunkSamples(c)[j + 1] = SampleOf(c, j % NumSamples(c))
<1>1. PICK size \in Nat \ {0}, n \in Nat \ {0} : size = NumSamples(c) /\ n = c.repeats
  BY ChunkIs, ChunkSize
<1>2. PICK u \in Seq(SampleType) :
        /\ u = Both(c.samples, Zeros(c.blank * NUM_SAMPLES_IN_AWG_WORD)) /\ Len(u) = size
        /\ \A p \in Nat : p < size => u[p + 1] = SampleOf(c, p)
  BY <1>1, OnceIs
<1>3. ChunkSamples(c) = Times(n, u)
  BY <1>1, <1>2 DEF ChunkSamples, Both
<1>4. size \in Nat /\ n \in Nat /\ Len(u) = size
  BY <1>2
<1>5. Times(n, u) \in Seq(SampleType) /\ Len(Times(n, u)) = n * size /\ n * size \in Nat
  <2>1. Times(n, u) \in Seq(SampleType) /\ Len(Times(n, u)) = size * n
    BY <1>4, TimesAre
  <2>2. size * n = n * size /\ n * size \in Nat
    BY <1>4
  <2> QED BY <2>1, <2>2
<1>6. ASSUME NEW j \in Nat, j < n * size
      PROVE  j % size \in Nat /\ j % size < size /\ Times(n, u)[j + 1] = SampleOf(c, j % size)
  <2>1. j < size * n
    BY <1>4, <1>6
  <2>2. \A x \in Nat : x < size * n =>
          x % size \in Nat /\ x % size < size /\ Times(n, u)[x + 1] = u[(x % size) + 1]
    BY <1>4, TimesAt
  <2>3. j % size \in Nat /\ j % size < size /\ Times(n, u)[j + 1] = u[(j % size) + 1]
    BY <2>1, <2>2, Zenon
  <2> QED BY <1>2, <2>3
<1> QED BY <1>1, <1>3, <1>5, <1>6

(* The samples of all chunks, and where each chunk ends.                    *)
Body(chunks) == FlattenSeq([i \in DOMAIN chunks |-> ChunkSamples(chunks[i])])
Lengths(chunks) == [i \in DOMAIN chunks |-> chunks[i].repeats * NumSamples(chunks[i])]
Ends(chunks) == Sums(Lengths(chunks))

(* The lengths of the chunks of a sequence. *)
LEMMA LengthsAre ==
  ASSUME NEW chunks \in Seq(ChunkType), NEW n \in Nat, n = Len(chunks)
  PROVE  /\ DOMAIN chunks = 1 .. n
         /\ \A i \in 1 .. n : chunks[i] \in ChunkType
         /\ Lengths(chunks) \in Seq(Nat) /\ Len(Lengths(chunks)) = n
         /\ \A i \in 1 .. n : /\ Lengths(chunks)[i] = chunks[i].repeats * NumSamples(chunks[i])
                              /\ Lengths(chunks)[i] \in Nat
<1>1. DOMAIN chunks = 1 .. n /\ \A i \in 1 .. n : chunks[i] \in ChunkType
  OBVIOUS
<1>2. \A i \in 1 .. n : chunks[i].repeats * NumSamples(chunks[i]) \in Nat
  BY <1>1, ChunkSamplesAre
<1>3. /\ Lengths(chunks) \in [1 .. n -> Nat]
      /\ \A i \in 1 .. n : Lengths(chunks)[i] = chunks[i].repeats * NumSamples(chunks[i])
  BY <1>1, <1>2 DEF Lengths
<1> QED BY <1>1, <1>2, <1>3, ListIs

(* Each sample of the chunks is the one of some chunk, and the other way about. *)
LEMMA BodyIs ==
  ASSUME NEW chunks \in Seq(ChunkType), NEW n \in Nat, n = Len(chunks)
  PROVE  /\ Body(chunks) \in Seq(SampleType) /\ Ends(chunks)[n] \in Nat
         /\ Len(Body(chunks)) = Ends(chunks)[n]
         /\ \A i \in 1 .. n : \A m \in 1 .. Lengths(chunks)[i] :
              Body(chunks)[Ends(chunks)[i - 1] + m] = ChunkSamples(chunks[i])[m]
         /\ \A j \in 1 .. Ends(chunks)[n] : \E i \in 1 .. n : \E m \in 1 .. Lengths(chunks)[i] :
              j = Ends(chunks)[i - 1] + m
         /\ \A i \in 1 .. n : Ends(chunks)[i] <= Ends(chunks)[n]
<1>1. PICK t : t = [i \in DOMAIN chunks |-> ChunkSamples(chunks[i])]
  OBVIOUS
<1>2. PICK l \in Seq(Nat) : l = Lengths(chunks) /\ Len(l) = n
  BY LengthsAre
<1>3. /\ t \in Seq(Seq(SampleType)) /\ Len(t) = n
      /\ \A i \in 1 .. n : t[i] = ChunkSamples(chunks[i]) /\ l[i] = Len(t[i])
  <2>1. DOMAIN chunks = 1 .. n /\ \A i \in 1 .. n : chunks[i] \in ChunkType
    BY LengthsAre
  <2>2. \A i \in 1 .. n : /\ ChunkSamples(chunks[i]) \in Seq(SampleType)
                          /\ Len(ChunkSamples(chunks[i])) = chunks[i].repeats * NumSamples(chunks[i])
    BY <2>1, ChunkSamplesAre
  <2>3. t \in [1 .. n -> Seq(SampleType)] /\ \A i \in 1 .. n : t[i] = ChunkSamples(chunks[i])
    BY <1>1, <2>1, <2>2
  <2>4. \A i \in 1 .. n : l[i] = chunks[i].repeats * NumSamples(chunks[i])
    BY <1>2, LengthsAre
  <2> QED BY <2>2, <2>3, <2>4, ListIs
<1>4. /\ FlattenSeq(t) \in Seq(SampleType) /\ Len(FlattenSeq(t)) = SumAll(l)
      /\ \A i \in 1 .. n : \A m \in 1 .. l[i] : FlattenSeq(t)[Sums(l)[i - 1] + m] = t[i][m]
  <2>1. Len(l) = Len(t) /\ \A i \in 1 .. Len(t) : l[i] = Len(t[i])
    BY <1>2, <1>3
  <2>2. /\ FlattenSeq(t) \in Seq(SampleType) /\ Len(FlattenSeq(t)) = SumAll(l)
        /\ \A i \in 1 .. Len(t) : \A m \in 1 .. l[i] : FlattenSeq(t)[Sums(l)[i - 1] + m] = t[i][m]
    BY <1>3, <2>1, FlattenAre, SMTT(30)
  <2> QED BY <1>3, <2>2
<1>5. Body(chunks) = FlattenSeq(t) /\ Ends(chunks) = Sums(l)
  BY <1>1, <1>2 DEF Body, Ends
<1>6. SumAll(l) = Sums(l)[n] /\ SumAll(l) \in Nat /\ \A i \in 0 .. n : Sums(l)[i] <= SumAll(l)
  <2>1. /\ SumAll(l) \in Nat /\ SumAll(l) = Sums(l)[Len(l)]
        /\ \A i \in 0 .. Len(l) : Sums(l)[i] <= SumAll(l)
    BY SumIs
  <2> QED BY <1>2, <2>1
<1>7. \A j \in 1 .. Sums(l)[n] : \E i \in 1 .. n : \E m \in 1 .. l[i] : j = Sums(l)[i - 1] + m
  <2>1. ASSUME NEW j \in 1 .. SumAll(l)
        PROVE  \E i \in 1 .. n : \E m \in 1 .. l[i] : j = Sums(l)[i - 1] + m
    <3>1. \E i \in 1 .. Len(l) : \E m \in 1 .. l[i] : j = Sums(l)[i - 1] + m
      BY FindPart
    <3> QED BY <1>2, <3>1
  <2> QED BY <1>6, <2>1
<1>8. Ends(chunks)[n] \in Nat /\ Len(Body(chunks)) = Ends(chunks)[n] /\ Body(chunks) \in Seq(SampleType)
  BY <1>4, <1>5, <1>6
<1>9. \A i \in 1 .. n : \A m \in 1 .. Lengths(chunks)[i] :
        Body(chunks)[Ends(chunks)[i - 1] + m] = ChunkSamples(chunks[i])[m]
  BY <1>2, <1>3, <1>4, <1>5
<1>10. \A j \in 1 .. Ends(chunks)[n] : \E i \in 1 .. n : \E m \in 1 .. Lengths(chunks)[i] :
         j = Ends(chunks)[i - 1] + m
  BY <1>2, <1>5, <1>7
<1>11. \A i \in 1 .. n : Ends(chunks)[i] <= Ends(chunks)[n]
  BY <1>5, <1>6
<1> QED BY <1>8, <1>9, <1>10, <1>11

(* The search of the lazy list is led to the chunk of a sample. *)
LEMMA ChunkFound ==
  ASSUME NEW chunks \in Seq(ChunkType), NEW n \in Nat, n = Len(chunks),
         NEW i \in 1 .. n, NEW m \in 1 .. Lengths(chunks)[i],
         NEW l, l.chunks = chunks, l.ranges = ChunkRanges(chunks)
  PROVE  /\ FindChunk(l, Ends(chunks)[i - 1] + m - 1) = i
         /\ l.ranges[i][1] = Ends(chunks)[i - 1] /\ Ends(chunks)[i - 1] \in Nat
<1>1. PICK e : e = Ends(chunks)
  OBVIOUS
<1>2. PICK k : k = Lengths(chunks)
  OBVIOUS
<1>3. k \in Seq(Nat) /\ Len(k) = n /\ DOMAIN chunks = 1 .. n /\ \A t \in 1 .. n : k[t] \in Nat
  BY <1>2, LengthsAre
<1>4. /\ e \in [0 .. n -> Nat] /\ \A t \in 1 .. n : e[t] = e[t - 1] + k[t]
      /\ \A a, b \in 0 .. n : a <= b => e[a] <= e[b]
  <2>1. e = Sums(k)
    BY <1>1, <1>2 DEF Ends
  <2>2. /\ Sums(k) \in [0 .. Len(k) -> Nat]
        /\ \A t \in 1 .. Len(k) : Sums(k)[t] = Sums(k)[t - 1] + k[t]
    BY <1>3, SumsAre
  <2>3. \A a, b \in 0 .. Len(k) : a <= b => Sums(k)[a] <= Sums(k)[b]
    BY <1>3, SumsGrow
  <2> QED BY <1>3, <2>1, <2>2, <2>3
<1>5. \A t \in 1 .. n : l.ranges[t][1] = e[t - 1] /\ l.ranges[t][2] = e[t] - 1
  <2>1. Lengths(chunks) = [t \in DOMAIN chunks |-> chunks[t].repeats * NumSamples(chunks[t])]
    BY DEF Lengths
  <2>2. ChunkRanges(chunks) = [t \in DOMAIN chunks |-> <<e[t - 1], e[t] - 1>>]
    BY <1>1, <2>1, Zenon DEF ChunkRanges, Ends
  <2> QED BY <1>3, <2>2
<1>6. PICK idx \in Nat : idx = e[i - 1] + m - 1 /\ e[i - 1] <= idx /\ idx < e[i]
  <2>1. i - 1 \in 0 .. n /\ i \in 0 .. n /\ k[i] \in Nat
    BY <1>3
  <2>2. e[i - 1] \in Nat /\ e[i] = e[i - 1] + k[i] /\ m \in 1 .. k[i]
    BY <1>2, <1>4, <2>1
  <2>3. \A x, y \in Nat : \A z \in 1 .. y : x + z - 1 \in Nat /\ x <= x + z - 1 /\ x + z - 1 < x + y
    OBVIOUS
  <2>4. e[i - 1] + m - 1 \in Nat /\ e[i - 1] <= e[i - 1] + m - 1 /\ e[i - 1] + m - 1 < e[i]
    BY <2>1, <2>2, <2>3
  <2> QED BY <2>4, Zenon
<1>7. LeadsTo(l, idx, n, i)
  <2>1. SUFFICES ASSUME NEW t \in 1 .. n
                 PROVE  /\ (e[t - 1] <= idx /\ idx <= e[t] - 1) <=> t = i
                        /\ t # i => (e[t] - 1 < idx <=> t < i)
    BY <1>5, SMTT(30) DEF LeadsTo
  <2>2. PICK a \in Nat, b \in Nat : a = e[t - 1] /\ b = e[t]
    BY <1>4, SMTT(30)
  <2>3. CASE t = i
    <3>1. a <= idx /\ idx < b
      BY <1>6, <2>2, <2>3
    <3> QED BY <2>2, <2>3, <3>1
  <2>4. CASE t < i
    <3>1. t \in 0 .. n /\ i - 1 \in 0 .. n /\ t <= i - 1
      BY <2>4
    <3>2. e[t] <= e[i - 1] /\ e[i - 1] \in Nat
      BY <1>4, <3>1
    <3>3. b <= idx
      BY <1>6, <2>2, <3>2
    <3> QED BY <2>2, <2>4, <3>3
  <2>5. CASE i < t
    <3>1. i \in 0 .. n /\ t - 1 \in 0 .. n /\ i <= t - 1
      BY <2>5
    <3>2. e[i] <= e[t - 1] /\ e[i] \in Nat
      BY <1>4, <3>1
    <3>3. idx < a
      BY <1>6, <2>2, <3>2
    <3>4. t - 1 \in 0 .. n /\ t \in 0 .. n /\ t - 1 <= t
      BY <3>1
    <3>5. a <= b
      BY <1>4, <2>2, <3>4
    <3> QED BY <2>2, <2>5, <3>3, <3>5
  <2> QED BY <2>3, <2>4, <2>5
<1>8. FindChunk(l, idx) = i
  BY <1>7, FindIs
<1>9. e[i - 1] \in Nat
  BY <1>4
<1> QED BY <1>1, <1>5, <1>6, <1>8, <1>9

(* Running sums of multiples. *)
LEMMA SumsScaled ==
  ASSUME NEW l \in Seq(Nat), NEW k \in Seq(Nat), NEW w \in Nat, Len(l) = Len(k),
         \A i \in 1 .. Len(l) : k[i] = l[i] * w
  PROVE  SumAll(k) = SumAll(l) * w
<1>1. PICK n \in Nat : n = Len(l)
  OBVIOUS
<1>2. PICK f, g : f = Sums(l) /\ g = Sums(k)
  OBVIOUS
<1>3. /\ f \in [0 .. n -> Nat] /\ f[0] = 0 /\ \A i \in 1 .. n : f[i] = f[i - 1] + l[i] /\ l[i] \in Nat
      /\ g[0] = 0 /\ \A i \in 1 .. n : g[i] = g[i - 1] + l[i] * w
  <2>1. /\ Sums(l) \in [0 .. Len(l) -> Nat] /\ Sums(l)[0] = 0
        /\ \A i \in 1 .. Len(l) : Sums(l)[i] = Sums(l)[i - 1] + l[i]
    BY SumsAre
  <2>2. /\ Sums(k) \in [0 .. Len(k) -> Nat] /\ Sums(k)[0] = 0
        /\ \A i \in 1 .. Len(k) : Sums(k)[i] = Sums(k)[i - 1] + k[i]
    BY SumsAre
  <2>3. \A i \in 1 .. n : l[i] \in Nat
    BY <1>1
  <2> QED BY <1>1, <1>2, <2>1, <2>2, <2>3
<1> DEFINE S == {i \in Nat : i <= n => g[i] = f[i] * w}
<1>4. 0 \in S
  BY <1>3
<1>5. ASSUME NEW i \in Nat, i \in S PROVE i + 1 \in S
  <2>1. SUFFICES ASSUME i + 1 <= n PROVE g[i + 1] = f[i + 1] * w
    OBVIOUS
  <2>2. i \in 0 .. n /\ i + 1 \in 1 .. n /\ (i + 1) - 1 = i /\ g[i] = f[i] * w
    BY <1>5, <2>1
  <2>3. /\ f[i + 1] = f[i] + l[i + 1] /\ g[i + 1] = g[i] + l[i + 1] * w
        /\ f[i] \in Nat /\ l[i + 1] \in Nat
    BY <1>3, <2>2
  <2>4. \A x, y \in Nat : (x + y) * w = x * w + y * w
    OBVIOUS
  <2>5. (f[i] + l[i + 1]) * w = f[i] * w + l[i + 1] * w
    BY <2>3, <2>4
  <2> QED BY <2>2, <2>3, <2>5, Zenon
<1>6. Nat \subseteq S
  <2> HIDE DEF S
  <2> QED BY <1>4, <1>5, SetInduction
<1>7. g[n] = f[n] * w
  BY <1>6
<1>8. SumAll(l) = f[n] /\ SumAll(k) = g[n]
  <2>1. SumAll(l) = Sums(l)[Len(l)] /\ SumAll(k) = Sums(k)[Len(k)]
    BY SumIs
  <2> QED BY <1>1, <1>2, <2>1
<1> QED BY <1>7, <1>8

(* The words of a sequence, in samples. *)
LEMMA WordsAre ==
  ASSUME NEW s \in SequenceType, s.repeats \in Nat \ {0},
         NEW B, B = Ends(s.chunks)[Len(s.chunks)]
  PROVE  /\ B \in Nat /\ NumWaitSamples(s) \in Nat /\ B * s.repeats \in Nat
         /\ NumAllSamples(s) = NumWaitSamples(s) + B * s.repeats
<1>1. PICK W \in Nat \ {0} : W = NUM_SAMPLES_IN_AWG_WORD
  BY WaveConstants
<1>2. PICK chunks \in Seq(ChunkType), r \in Nat \ {0}, w \in Nat :
        chunks = s.chunks /\ r = s.repeats /\ w = s.wait
  BY DEF SequenceType
<1>3. PICK n \in Nat : n = Len(chunks)
  OBVIOUS
<1>4. PICK ws : ws = [i \in DOMAIN chunks |-> NumWords(chunks[i]) * chunks[i].repeats]
  OBVIOUS
<1>5. PICK k : k = Lengths(chunks)
  OBVIOUS
<1>6. /\ DOMAIN chunks = 1 .. n /\ \A i \in 1 .. n : chunks[i] \in ChunkType
      /\ k \in Seq(Nat) /\ Len(k) = n
      /\ \A i \in 1 .. n : k[i] = chunks[i].repeats * NumSamples(chunks[i])
  BY <1>3, <1>5, LengthsAre
<1>7. \A i \in 1 .. n : ws[i] \in Nat /\ k[i] = ws[i] * W
  <2>1. SUFFICES ASSUME NEW i \in 1 .. n PROVE ws[i] \in Nat /\ k[i] = ws[i] * W
    OBVIOUS
  <2>2. PICK x \in Nat, y \in Nat : x = NumWords(chunks[i]) /\ y = chunks[i].repeats
    BY <1>6, ChunkIs, ChunkSize
  <2>3. NumSamples(chunks[i]) = x * W
    BY <1>1, <1>6, <2>2, ChunkSize
  <2>4. ws[i] = x * y /\ k[i] = y * (x * W)
    BY <1>4, <1>6, <2>2, <2>3
  <2>5. x * y \in Nat /\ y * (x * W) = (x * y) * W
    OBVIOUS
  <2> QED BY <2>4, <2>5
<1>8. ws \in Seq(Nat) /\ Len(ws) = n
  <2>1. ws \in [1 .. n -> Nat]
    BY <1>4, <1>6, <1>7
  <2> QED BY <2>1, ListIs
<1>9. PICK t \in Nat : t = SumAll(ws)
  BY <1>8, SumIs
<1>10. B = t * W
  <2>1. SumAll(k) = SumAll(ws) * W
    <3>1. ws \in Seq(Nat) /\ k \in Seq(Nat) /\ W \in Nat /\ Len(ws) = Len(k)
      BY <1>6, <1>8
    <3>2. \A i \in 1 .. Len(ws) : k[i] = ws[i] * W
      BY <1>7, <1>8
    <3> QED BY <3>1, <3>2, SumsScaled
  <2>2. SumAll(k) = Sums(k)[n]
    BY <1>6, SumIs
  <2>3. B = Sums(k)[n]
    BY <1>2, <1>3, <1>5 DEF Ends
  <2> QED BY <1>9, <2>1, <2>2, <2>3
<1>11. NumAllSamples(s) = (t * r + w) * W
  BY <1>1, <1>2, <1>4, <1>9 DEF NumAllSamples, NumAllWords
<1>12. NumWaitSamples(s) = w * W
  BY <1>1, <1>2 DEF NumWaitSamples
<1>13. /\ (t * r + w) * W = w * W + (t * W) * r
       /\ t * W \in Nat /\ (t * W) * r \in Nat /\ w * W \in Nat
  OBVIOUS
<1> QED BY <1>2, <1>10, <1>11, <1>12, <1>13

(* The samples before the first chunk. *)
Waits(s, wait) == IF wait THEN NumWaitSamples(s) ELSE 0

(* What the lazy list keeps. *)
LEMMA LazyIs ==
  ASSUME NEW s \in SequenceType, s.repeats \in Nat \ {0}, NEW wait \in BOOLEAN,
         NEW B, B = Ends(s.chunks)[Len(s.chunks)], NEW l, l = LazyList(s, wait)
  PROVE  /\ l.chunks = s.chunks /\ l.ranges = ChunkRanges(s.chunks)
         /\ l.waits = Waits(s, wait) /\ l.waits \in Nat
         /\ B \in Nat /\ l.len = l.waits + B * s.repeats /\ l.inSeq = B
<1>1. PICK b \in Nat, w \in Nat, r \in Nat \ {0}, p \in Nat :
        b = B /\ w = NumWaitSamples(s) /\ r = s.repeats /\ p = b * r /\ NumAllSamples(s) = w + p
  <2>1. /\ B \in Nat /\ NumWaitSamples(s) \in Nat /\ B * s.repeats \in Nat
        /\ NumAllSamples(s) = NumWaitSamples(s) + B * s.repeats
    BY WordsAre
  <2> QED BY <2>1, Zenon
<1>2. PICK waits \in Nat, len \in Nat :
        /\ waits = Waits(s, wait) /\ len = IF wait THEN NumAllSamples(s) ELSE NumAllSamples(s) - NumWaitSamples(s)
        /\ len = waits + p
  <2>1. CASE wait
    BY <1>1, <2>1 DEF Waits
  <2>2. CASE ~wait
    <3>1. (w + p) - w = p /\ 0 + p = p
      OBVIOUS
    <3> QED BY <1>1, <2>2, <3>1 DEF Waits
  <2> QED BY <2>1, <2>2
<1>3. l = [chunks |-> s.chunks, waits |-> waits, len |-> len,
           ranges |-> ChunkRanges(s.chunks), inSeq |-> (len - waits) \div r]
  BY <1>1, <1>2, Zenon DEF LazyList, Waits
<1>4. (len - waits) \div r = b
  <2>1. len - waits = r * b + 0
    <3>1. len - waits = p
      BY <1>2
    <3>2. b * r = r * b + 0
      OBVIOUS
    <3> QED BY <1>1, <3>1, <3>2
  <2>2. len - waits \in Nat /\ 0 < r
    BY <1>2
  <2>3. \A a \in Nat : \A k, m \in Nat : m < r /\ a = r * k + m => a \div r = k
    BY Remainder
  <2> QED BY <2>1, <2>2, <2>3
<1> QED BY <1>1, <1>2, <1>3, <1>4

(* A product, of which only the name matters. *)
Product(x, y) == x * y

(* t is b, of B samples, r times over. *)
Repeated(t, b, B, r) ==
  /\ t \in Seq(SampleType) /\ Product(B, r) \in Nat /\ Len(t) = Product(B, r)
  /\ \A j \in Nat : j < Product(B, r) =>
       B # 0 /\ j % B \in Nat /\ j % B < B /\ t[j + 1] = b[(j % B) + 1]

(* Times does so. *)
LEMMA RepeatedIs ==
  ASSUME NEW b \in Seq(SampleType), NEW r \in Nat \ {0}, NEW B \in Nat, B = Len(b)
  PROVE  Repeated(Times(r, b), b, B, r)
<1>1. r \in Nat
  OBVIOUS
<1>2. Times(r, b) \in Seq(SampleType) /\ Len(Times(r, b)) = B * r
  BY <1>1, TimesAre
<1>3. B * r \in Nat
  OBVIOUS
<1>4. ASSUME NEW j \in Nat, j < B * r
      PROVE  B # 0 /\ j % B \in Nat /\ j % B < B /\ Times(r, b)[j + 1] = b[(j % B) + 1]
  <2>1. B # 0
    <3>1. 0 * r = 0
      OBVIOUS
    <3> QED BY <1>4, <3>1
  <2>2. B \in Nat \ {0}
    BY <2>1
  <2>3. \A x \in Nat : x < B * r =>
          x % B \in Nat /\ x % B < B /\ Times(r, b)[x + 1] = b[(x % B) + 1]
    BY <1>1, <2>2, TimesAt, ZenonT(60)
  <2>4. j % B \in Nat /\ j % B < B /\ Times(r, b)[j + 1] = b[(j % B) + 1]
    BY <1>4, <2>3, Zenon
  <2> QED BY <2>1, <2>4
<1> QED BY <1>2, <1>3, <1>4, Zenon DEF Product, Repeated

(* All samples: those of the wait, then those of the chunks, each time.     *)
AllSamplesOf(a, waits, chunks, B, r) ==
  /\ a \in Seq(SampleType) /\ Product(B, r) \in Nat /\ Len(a) = waits + Product(B, r)
  /\ \A k \in Nat : k < waits => a[k + 1] = <<0, 0>>
  /\ \A j \in Nat : j < Product(B, r) =>
       /\ B # 0 /\ j % B \in Nat /\ j % B < B
       /\ a[waits + (j + 1)] = Body(chunks)[(j % B) + 1]

(* AllSamples is that. *)
LEMMA AllSamplesAre ==
  ASSUME NEW s \in SequenceType, NEW r \in Nat \ {0}, r = s.repeats, NEW wait \in BOOLEAN,
         NEW chunks \in Seq(ChunkType), chunks = s.chunks,
         NEW B \in Nat, B = Ends(chunks)[Len(chunks)],
         NEW waits \in Nat, waits = Waits(s, wait)
  PROVE  AllSamplesOf(AllSamples(s, wait), waits, chunks, B, r)
<1>0. PICK a : a = AllSamples(s, wait)
  OBVIOUS
<1>1. PICK b \in Seq(SampleType) : b = Body(chunks) /\ Len(b) = B
  <2>1. Body(chunks) \in Seq(SampleType) /\ Len(Body(chunks)) = Ends(chunks)[Len(chunks)]
    BY BodyIs
  <2> QED BY <2>1
<1>2. PICK z \in Seq(SampleType) : /\ z = (IF wait THEN Zeros(NumWaitSamples(s)) ELSE <<>>)
                                 /\ Len(z) = waits /\ \A i \in 1 .. waits : z[i] = <<0, 0>>
  <2>1. CASE wait
    <3>1. waits = NumWaitSamples(s)
      BY <2>1 DEF Waits
    <3> QED BY <2>1, <3>1, BlanksAre
  <2>2. CASE ~wait
    <3>1. waits = 0
      BY <2>2 DEF Waits
    <3>2. <<>> \in Seq(SampleType) /\ Len(<<>>) = 0
      OBVIOUS
    <3>3. \A i \in 1 .. 0 : FALSE
      OBVIOUS
    <3> QED BY <2>2, <3>1, <3>2, <3>3
  <2> QED BY <2>1, <2>2
<1>2a. Repeated(Times(r, b), b, B, r)
  <2>1. B = Len(b)
    BY <1>1
  <2> QED BY <2>1, RepeatedIs
<1>2b. PICK t : t = Times(r, b) /\ Repeated(t, b, B, r)
  BY <1>2a, Zenon
<1>2c. PICK p \in Nat : p = Product(B, r)
  BY <1>2a, Zenon DEF Repeated
<1>3. /\ t \in Seq(SampleType) /\ t = Times(r, b) /\ p = Product(B, r) /\ Len(t) = p
      /\ \A j \in Nat : j < p => B # 0 /\ j % B \in Nat /\ j % B < B /\ t[j + 1] = b[(j % B) + 1]
  BY <1>2b, <1>2c, Zenon DEF Repeated
<1>5. a = Both(z, t)
  BY <1>0, <1>1, <1>2, <1>3, Zenon DEF AllSamples, Body, Both
<1>6. /\ a \in Seq(SampleType) /\ Len(a) = waits + p
      /\ \A i \in 1 .. waits : a[i] = z[i]
      /\ \A i \in 1 .. p : a[waits + i] = t[i]
  <2>1. /\ Both(z, t) \in Seq(SampleType) /\ Len(Both(z, t)) = Len(z) + Len(t)
        /\ \A i \in 1 .. Len(z) : Both(z, t)[i] = z[i]
        /\ \A i \in 1 .. Len(t) : Both(z, t)[Len(z) + i] = t[i]
    BY <1>3, BothAre
  <2>2. Len(z) = waits /\ Len(t) = p
    BY <1>2, <1>3
  <2> QED BY <1>5, <2>1, <2>2
<1>7. ASSUME NEW k \in Nat, k < waits PROVE a[k + 1] = <<0, 0>>
  <2>1. k + 1 \in 1 .. waits
    BY <1>7
  <2> QED BY <1>2, <1>6, <2>1
<1>8. ASSUME NEW j \in Nat, j < p
      PROVE  /\ B # 0 /\ j % B \in Nat /\ j % B < B
             /\ a[waits + (j + 1)] = Body(chunks)[(j % B) + 1]
  <2>1. B # 0 /\ j % B \in Nat /\ j % B < B /\ t[j + 1] = b[(j % B) + 1]
    BY <1>3, <1>8
  <2>2. j + 1 \in 1 .. p
    BY <1>8
  <2>3. a[waits + (j + 1)] = t[j + 1]
    BY <1>6, <2>2
  <2> QED BY <1>1, <2>1, <2>3
<1>9. AllSamplesOf(a, waits, chunks, B, r)
  <2>1. a \in Seq(SampleType) /\ Product(B, r) \in Nat /\ Len(a) = waits + Product(B, r)
    BY <1>3, <1>6, Zenon
  <2>2. \A k \in Nat : k < waits => a[k + 1] = <<0, 0>>
    BY <1>7, Zenon
  <2>3. \A j \in Nat : j < Product(B, r) =>
          /\ B # 0 /\ j % B \in Nat /\ j % B < B
          /\ a[waits + (j + 1)] = Body(chunks)[(j % B) + 1]
    BY <1>3, <1>8, Zenon
  <2> QED BY <2>1, <2>2, <2>3, Zenon DEF AllSamplesOf
<1> QED BY <1>0, <1>9, Zenon

(* A sample that is computed is the one of the list. *)
GetAt(l, k) ==
  LET atSeq == (k - l.waits) % l.inSeq
      c == FindChunk(l, atSeq)
      inChunk == (atSeq - l.ranges[c][1]) % NumSamples(l.chunks[c])
  IN  IF k < l.waits \/ inChunk >= Len(l.chunks[c].samples)
      THEN <<0, 0>> ELSE l.chunks[c].samples[inChunk + 1]

(* and it is a sample of some chunk, or one of the wait. *)
LEMMA GetIs ==
  ASSUME NEW s \in SequenceType, NEW r \in Nat \ {0}, r = s.repeats, NEW wait \in BOOLEAN,
         NEW l, l = LazyList(s, wait), NEW a, a = AllSamples(s, wait), NEW k \in Nat, k < l.len
  PROVE  /\ GetAt(l, k) = a[k + 1]
         /\ k < l.waits => a[k + 1] = <<0, 0>>
         /\ ~(k < l.waits) => \E c \in Range(s.chunks) : \E p \in Nat :
              p < NumSamples(c) /\ a[k + 1] = SampleOf(c, p)
<1>1. PICK chunks \in Seq(ChunkType) : chunks = s.chunks
  BY DEF SequenceType
<1>2. PICK n \in Nat : n = Len(chunks) /\ DOMAIN chunks = 1 .. n
  OBVIOUS
<1>3. PICK B \in Nat, waits \in Nat, all \in Nat :
        /\ B = Ends(chunks)[n] /\ waits = l.waits /\ all = Product(B, r) /\ l.waits = Waits(s, wait)
        /\ l.chunks = chunks /\ l.ranges = ChunkRanges(chunks) /\ l.inSeq = B /\ l.len = waits + all
  <2>1. /\ l.chunks = s.chunks /\ l.ranges = ChunkRanges(s.chunks)
        /\ l.waits = Waits(s, wait) /\ l.waits \in Nat
        /\ Ends(s.chunks)[Len(s.chunks)] \in Nat
        /\ l.len = l.waits + Ends(s.chunks)[Len(s.chunks)] * s.repeats
        /\ l.inSeq = Ends(s.chunks)[Len(s.chunks)]
    BY LazyIs
  <2>2. Ends(chunks)[n] * r \in Nat
    BY <1>1, <1>2, <2>1
  <2>3. /\ Product(Ends(chunks)[n], r) \in Nat /\ Ends(chunks)[n] \in Nat
        /\ l.len = l.waits + Product(Ends(chunks)[n], r)
    BY <1>1, <1>2, <2>1, <2>2 DEF Product
  <2> QED BY <1>1, <1>2, <2>1, <2>3, Zenon
<1>4. /\ \A x \in Nat : x < waits => a[x + 1] = <<0, 0>>
      /\ \A j \in Nat : j < Product(B, r) =>
              /\ B # 0 /\ j % B \in Nat /\ j % B < B
              /\ a[waits + (j + 1)] = Body(chunks)[(j % B) + 1]
  <2>1. B = Ends(chunks)[Len(chunks)] /\ waits = Waits(s, wait)
    BY <1>2, <1>3
  <2>2. AllSamplesOf(AllSamples(s, wait), waits, chunks, B, r)
    BY <1>1, <2>1, AllSamplesAre
  <2> QED BY <2>2, Zenon DEF AllSamplesOf
<1>5. CASE k < waits
  <2>1. GetAt(l, k) = <<0, 0>>
    BY <1>3, <1>5 DEF GetAt
  <2> QED BY <1>3, <1>4, <1>5, <2>1
<1>6. CASE ~(k < waits)
  <2>1. PICK j \in Nat : j = k - waits /\ j < all /\ waits + (j + 1) = k + 1
    <3>1. k < waits + all
      BY <1>3
    <3>2. k - waits \in Nat /\ k - waits < all /\ waits + ((k - waits) + 1) = k + 1
      BY <1>6, <3>1
    <3> QED BY <3>2, Zenon
  <2>2. PICK x \in Nat : x = j % B /\ B # 0 /\ x < B /\ a[k + 1] = Body(chunks)[x + 1]
    <3>1. j < Product(B, r)
      BY <1>3, <2>1
    <3>2. B # 0 /\ j % B \in Nat /\ j % B < B /\ a[waits + (j + 1)] = Body(chunks)[(j % B) + 1]
      BY <1>4, <3>1
    <3> QED BY <2>1, <3>2
  <2>0. PICK i \in 1 .. n : \E m \in 1 .. Lengths(chunks)[i] : x + 1 = Ends(chunks)[i - 1] + m
    <3>1. x + 1 \in 1 .. B
      BY <2>2
    <3>2. \A y \in 1 .. Ends(chunks)[n] : \E i \in 1 .. n : \E m \in 1 .. Lengths(chunks)[i] :
            y = Ends(chunks)[i - 1] + m
      BY <1>2, BodyIs
    <3> QED BY <1>3, <3>1, <3>2
  <2>3. PICK m \in 1 .. Lengths(chunks)[i] : x + 1 = Ends(chunks)[i - 1] + m
    BY <2>0
  <2>4. a[k + 1] = ChunkSamples(chunks[i])[m]
    <3>1. \A u \in 1 .. n : \A v \in 1 .. Lengths(chunks)[u] :
            Body(chunks)[Ends(chunks)[u - 1] + v] = ChunkSamples(chunks[u])[v]
      BY <1>2, BodyIs
    <3>2. Body(chunks)[Ends(chunks)[i - 1] + m] = ChunkSamples(chunks[i])[m]
      BY <3>1
    <3> QED BY <2>2, <2>3, <3>2
  <2>5. PICK c \in ChunkType, size \in Nat \ {0}, len \in Nat :
          /\ c = chunks[i] /\ size = NumSamples(c) /\ len = c.repeats * size
          /\ len = Lengths(chunks)[i] /\ c \in Range(chunks)
    <3>1. chunks[i] \in ChunkType /\ Lengths(chunks)[i] = chunks[i].repeats * NumSamples(chunks[i])
          /\ Lengths(chunks)[i] \in Nat
      BY <1>2, LengthsAre
    <3>2. NumSamples(chunks[i]) \in Nat \ {0}
      BY <3>1, ChunkSize
    <3>3. chunks[i] \in Range(chunks)
      BY <1>2 DEF Range
    <3> QED BY <3>1, <3>2, <3>3
  <2>6. PICK q \in Nat : q = m - 1 /\ q < len /\ q + 1 = m
    BY <2>5
  <2>7. q % size \in Nat /\ q % size < size /\ a[k + 1] = SampleOf(c, q % size)
    <3>1. \A y \in Nat : y < c.repeats * NumSamples(c) =>
            /\ y % NumSamples(c) \in Nat /\ y % NumSamples(c) < NumSamples(c)
            /\ ChunkSamples(c)[y + 1] = SampleOf(c, y % NumSamples(c))
      BY ChunkSamplesAre
    <3>2. q < c.repeats * NumSamples(c)
      BY <2>5, <2>6
    <3>3. /\ q % NumSamples(c) \in Nat /\ q % NumSamples(c) < NumSamples(c)
          /\ ChunkSamples(c)[q + 1] = SampleOf(c, q % NumSamples(c))
      BY <3>1, <3>2
    <3> QED BY <2>4, <2>5, <2>6, <3>3
  <2>8. FindChunk(l, x) = i /\ x - l.ranges[i][1] = q
    <3>1. /\ FindChunk(l, Ends(chunks)[i - 1] + m - 1) = i
          /\ l.ranges[i][1] = Ends(chunks)[i - 1] /\ Ends(chunks)[i - 1] \in Nat
      <4>1. n = Len(chunks) /\ l.chunks = chunks /\ l.ranges = ChunkRanges(chunks)
        BY <1>2, <1>3
      <4> QED BY <4>1, ChunkFound, SMTT(30)
    <3>2. PICK e \in Nat : e = Ends(chunks)[i - 1]
      BY <3>1
    <3>3. x + 1 = e + (q + 1)
      BY <2>3, <2>6, <3>2
    <3>4. x = e + (q + 1) - 1 /\ x - e = q
      BY <3>3
    <3>5. Ends(chunks)[i - 1] + m - 1 = x
      BY <2>6, <3>2, <3>4
    <3> QED BY <3>1, <3>2, <3>4, <3>5
  <2>9. GetAt(l, k) = SampleOf(c, q % size)
    <3>1. (k - l.waits) % l.inSeq = x
      BY <1>3, <2>1, <2>2
    <3>2. ~(k < l.waits) /\ l.chunks[i] = c /\ NumSamples(c) = size
      BY <1>3, <1>6, <2>5
    <3> QED BY <2>8, <3>1, <3>2, Zenon DEF GetAt, SampleOf
  <2>10. c \in Range(s.chunks)
    BY <1>1, <2>5
  <2> QED BY <1>3, <1>6, <2>5, <2>7, <2>9, <2>10
<1> QED BY <1>3, <1>5, <1>6

(* What is less than a number is less than its multiples. *)
LEMMA Once ==
  ASSUME NEW a \in Nat, NEW n \in Nat \ {0}
  PROVE  a * n \in Nat /\ a <= a * n
<1>1. n - 1 \in Nat /\ (n - 1) + 1 = n
  OBVIOUS
<1>2. \A k \in Nat : a * (k + 1) = a * k + a /\ a * k \in Nat
  OBVIOUS
<1>3. a * ((n - 1) + 1) = a * (n - 1) + a /\ a * (n - 1) \in Nat
  BY <1>1, <1>2
<1> QED BY <1>1, <1>3

(* What is less than a number is its own remainder. *)
LEMMA Small ==
  ASSUME NEW p \in Nat, NEW b \in Nat, p < b
  PROVE  b # 0 /\ p % b = p
OBVIOUS

(* Each sample of a chunk is one of the list. *)
LEMMA EachSample ==
  ASSUME NEW s \in SequenceType, NEW r \in Nat \ {0}, r = s.repeats, NEW wait \in BOOLEAN,
         NEW a, a = AllSamples(s, wait), NEW n \in Nat, n = Len(s.chunks),
         NEW i \in 1 .. n, NEW p \in Nat, p < NumSamples(s.chunks[i])
  PROVE  SampleOf(s.chunks[i], p) \in Range(a)
<1>1. PICK chunks \in Seq(ChunkType) : chunks = s.chunks /\ n = Len(chunks)
  BY DEF SequenceType
<1>2. PICK B \in Nat : B = Ends(chunks)[n]
  BY <1>1, BodyIs
<1>3. PICK waits \in Nat : waits = Waits(s, wait)
  <2>1. Waits(s, wait) \in Nat
    BY WordsAre DEF Waits
  <2> QED BY <2>1
<1>4. /\ a \in Seq(SampleType) /\ Len(a) = waits + Product(B, r)
      /\ \A j \in Nat : j < Product(B, r) => a[waits + (j + 1)] = Body(chunks)[(j % B) + 1]
  <2>1. B = Ends(chunks)[Len(chunks)]
    BY <1>1, <1>2
  <2>2. AllSamplesOf(AllSamples(s, wait), waits, chunks, B, r)
    BY <1>1, <1>3, <2>1, AllSamplesAre
  <2> QED BY <2>2, Zenon DEF AllSamplesOf
<1>5. PICK c \in ChunkType, size \in Nat \ {0}, len \in Nat :
        /\ c = chunks[i] /\ size = NumSamples(c) /\ len = c.repeats * size
        /\ len = Lengths(chunks)[i] /\ size <= len
  <2>1. chunks[i] \in ChunkType /\ Lengths(chunks)[i] = chunks[i].repeats * NumSamples(chunks[i])
        /\ Lengths(chunks)[i] \in Nat
    BY <1>1, LengthsAre
  <2>2. PICK c \in ChunkType : c = chunks[i]
    BY <2>1
  <2>3. PICK size \in Nat \ {0} : size = NumSamples(c)
    BY ChunkSize
  <2>4. PICK k \in Nat \ {0} : k = c.repeats
    BY ChunkIs
  <2>5. size * k \in Nat /\ size <= size * k /\ size * k = k * size
    <3>1. size \in Nat
      OBVIOUS
    <3> QED BY <3>1, Once
  <2> QED BY <2>1, <2>2, <2>3, <2>4, <2>5
<1>6. PICK m \in 1 .. Lengths(chunks)[i] : m = p + 1 /\ ChunkSamples(c)[m] = SampleOf(c, p)
  <2>1. p + 1 \in 1 .. Lengths(chunks)[i] /\ p < size
    BY <1>1, <1>5
  <2>2. \A j \in Nat : j < c.repeats * NumSamples(c) =>
          ChunkSamples(c)[j + 1] = SampleOf(c, j % NumSamples(c))
    BY ChunkSamplesAre
  <2>3. p < len
    BY <1>5, <2>1
  <2>4. p % size = p
    BY <2>1, Small
  <2>5. ChunkSamples(c)[p + 1] = SampleOf(c, p)
    BY <1>5, <2>2, <2>3, <2>4
  <2> QED BY <2>1, <2>5
<1>7. PICK e \in Nat : /\ e = Ends(chunks)[i - 1] /\ e + m <= B
                       /\ Body(chunks)[e + m] = SampleOf(c, p)
  <2>1. Ends(chunks)[i - 1] \in Nat /\ Ends(chunks)[i - 1] + Lengths(chunks)[i] = Ends(chunks)[i]
    <3>1. Lengths(chunks) \in Seq(Nat) /\ Len(Lengths(chunks)) = n
      BY <1>1, LengthsAre
    <3>2. /\ Sums(Lengths(chunks)) \in [0 .. Len(Lengths(chunks)) -> Nat]
          /\ \A t \in 1 .. Len(Lengths(chunks)) :
               Sums(Lengths(chunks))[t] = Sums(Lengths(chunks))[t - 1] + Lengths(chunks)[t]
      BY <3>1, SumsAre
    <3>3. i - 1 \in 0 .. n
      OBVIOUS
    <3> QED BY <3>1, <3>2, <3>3 DEF Ends
  <2>2. Ends(chunks)[i] <= B
    BY <1>1, <1>2, BodyIs
  <2>3. \A u \in 1 .. n : \A v \in 1 .. Lengths(chunks)[u] :
          Body(chunks)[Ends(chunks)[u - 1] + v] = ChunkSamples(chunks[u])[v]
    BY <1>1, BodyIs, SMTT(30)
  <2>4. Body(chunks)[Ends(chunks)[i - 1] + m] = ChunkSamples(chunks[i])[m]
    BY <2>3
  <2>5. Ends(chunks)[i - 1] + m <= B
    BY <1>5, <2>1, <2>2, SMTT(30)
  <2> QED BY <1>5, <1>6, <2>1, <2>4, <2>5
<1>8. PICK x \in Nat : x + 1 = e + m /\ x < B
  <2>1. e + m - 1 \in Nat /\ (e + m - 1) + 1 = e + m /\ e + m - 1 < B
    <3>1. m = p + 1 /\ e + m <= B
      BY <1>6, <1>7
    <3> QED BY <3>1
  <2> QED BY <2>1
<1>9. PICK all \in Nat : all = Product(B, r) /\ B <= all
  BY Once DEF Product
<1>10. a[waits + (x + 1)] = SampleOf(c, p)
  <2>1. x < Product(B, r)
    BY <1>8, <1>9
  <2>2. a[waits + (x + 1)] = Body(chunks)[(x % B) + 1]
    BY <1>4, <2>1
  <2>3. x % B = x
    BY <1>8, Small
  <2> QED BY <1>7, <1>8, <2>2, <2>3
<1>11. waits + (x + 1) \in 1 .. Len(a)
  <2>1. x + 1 <= all
    BY <1>8, <1>9
  <2> QED BY <1>4, <1>9, <2>1
<1>12. waits + (x + 1) \in DOMAIN a
  BY <1>4, <1>11
<1> QED BY <1>1, <1>5, <1>10, <1>12 DEF Range

(* The lazy list knows which samples are in it. *)
LEMMA IncludesIs ==
  ASSUME NEW s \in SequenceType, NEW r \in Nat \ {0}, r = s.repeats, NEW wait \in BOOLEAN,
         NEW l, l = LazyList(s, wait), NEW a, a = AllSamples(s, wait), NEW x
  PROVE  Includes(l, x) <=> x \in Range(a)
<1>1. PICK chunks \in Seq(ChunkType) : chunks = s.chunks
  BY DEF SequenceType
<1>2. PICK n \in Nat : n = Len(chunks) /\ DOMAIN chunks = 1 .. n
  OBVIOUS
<1>3. PICK B \in Nat, waits \in Nat :
        B = Ends(chunks)[n] /\ waits = l.waits /\ l.waits = Waits(s, wait) /\ l.chunks = chunks
  <2>1. /\ l.chunks = s.chunks /\ l.waits = Waits(s, wait) /\ l.waits \in Nat
        /\ Ends(s.chunks)[Len(s.chunks)] \in Nat
    BY LazyIs
  <2> QED BY <1>1, <1>2, <2>1
<1>4. /\ a \in Seq(SampleType) /\ Len(a) = waits + Product(B, r) /\ Product(B, r) \in Nat
      /\ l.len = waits + Product(B, r)
      /\ \A k \in Nat : k < waits => a[k + 1] = <<0, 0>>
  <2>1. B = Ends(chunks)[Len(chunks)] /\ waits = Waits(s, wait)
    BY <1>2, <1>3
  <2>2. AllSamplesOf(AllSamples(s, wait), waits, chunks, B, r)
    BY <1>1, <2>1, AllSamplesAre
  <2>3. /\ a \in Seq(SampleType) /\ Len(a) = waits + Product(B, r) /\ Product(B, r) \in Nat
        /\ \A k \in Nat : k < waits => a[k + 1] = <<0, 0>>
    BY <2>2, Zenon DEF AllSamplesOf
  <2>4. l.len = l.waits + Ends(s.chunks)[Len(s.chunks)] * s.repeats
    BY LazyIs
  <2>5. l.len = waits + Product(B, r)
    BY <1>1, <1>2, <1>3, <2>4, Zenon DEF Product
  <2> QED BY <2>3, <2>5
<1>5. \A i \in 1 .. n : \A p \in Nat : p < NumSamples(chunks[i]) => SampleOf(chunks[i], p) \in Range(a)
  BY <1>1, <1>2, EachSample
<1>6. \A c \in Range(chunks) : c \in ChunkType /\ \E i \in 1 .. n : c = chunks[i]
  BY <1>2 DEF Range
<1>7. ASSUME NEW c \in Range(chunks), NEW y \in Range(c.samples) PROVE y \in Range(a)
  <2>1. PICK i \in 1 .. n : c = chunks[i] /\ c \in ChunkType
    BY <1>6, <1>7
  <2>2. PICK len \in Nat, b \in Nat : /\ len = Len(c.samples) /\ b = c.blank * NUM_SAMPLES_IN_AWG_WORD
                                      /\ NumSamples(c) = len + b /\ c.samples \in Seq(SampleType)
    BY <2>1, ChunkIs, ChunkSize
  <2>3. PICK q \in Nat : q < len /\ y = c.samples[q + 1]
    <3>1. PICK t \in 1 .. len : y = c.samples[t]
      BY <1>7, <2>2 DEF Range
    <3>2. t - 1 \in Nat /\ t - 1 < len /\ (t - 1) + 1 = t
      BY <2>2, <3>1, SMTT(30)
    <3> QED BY <3>1, <3>2
  <2>4. q < NumSamples(c) /\ ~(q >= len)
    BY <2>2, <2>3, SMTT(30)
  <2>5. SampleOf(c, q) = y
    BY <2>2, <2>3, <2>4 DEF SampleOf
  <2> QED BY <1>5, <2>1, <2>4, <2>5
<1>8. ASSUME waits > 0 PROVE <<0, 0>> \in Range(a)
  <2>1. PICK all \in Nat : all = Product(B, r) /\ Len(a) = waits + all
    BY <1>4
  <2>2. 1 \in 1 .. waits + all
    BY <1>8, <2>1
  <2>3. 1 \in DOMAIN a
    BY <1>4, <2>1, <2>2
  <2>4. a[0 + 1] = <<0, 0>>
    BY <1>4, <1>8
  <2> QED BY <2>3, <2>4 DEF Range
<1>9. ASSUME NEW c \in Range(chunks), c.blank > 0 PROVE <<0, 0>> \in Range(a)
  <2>1. PICK i \in 1 .. n : c = chunks[i] /\ c \in ChunkType
    BY <1>6, <1>9
  <2>2. PICK len \in Nat, b \in Nat : /\ len = Len(c.samples) /\ b = c.blank * NUM_SAMPLES_IN_AWG_WORD
                                      /\ NumSamples(c) = len + b
    BY <2>1, ChunkIs, ChunkSize
  <2>3. b > 0
    <3>1. PICK z \in Nat : z = c.blank /\ z > 0
      BY <1>9, <2>1, ChunkIs
    <3>2. PICK w \in Nat \ {0} : w = NUM_SAMPLES_IN_AWG_WORD
      BY WaveConstants, HwParamConstants
    <3>3. z <= z * w
      BY Once
    <3>4. b = z * w
      BY <2>2, <3>1, <3>2
    <3>5. z * w > 0
      BY <3>1, <3>3
    <3> QED BY <3>4, <3>5
  <2>4. len < NumSamples(c)
    BY <2>2, <2>3
  <2>5. SampleOf(c, len) = <<0, 0>>
    BY <2>2 DEF SampleOf
  <2> QED BY <1>5, <2>1, <2>4, <2>5
<1>10. ASSUME NEW t \in DOMAIN a
       PROVE  \/ a[t] = <<0, 0>> /\ (waits > 0 \/ \E c \in Range(chunks) : c.blank > 0)
              \/ \E c \in Range(chunks) : a[t] \in Range(c.samples)
  <2>1. PICK k \in Nat : k + 1 = t /\ k < l.len
    <3>1. t \in 1 .. Len(a)
      BY <1>4, <1>10
    <3>2. PICK all \in Nat : all = Product(B, r) /\ Len(a) = waits + all /\ l.len = waits + all
      BY <1>4
    <3>3. t - 1 \in Nat /\ (t - 1) + 1 = t /\ t - 1 < waits + all
      BY <3>1, <3>2
    <3> QED BY <3>2, <3>3
  <2>2. /\ k < l.waits => a[k + 1] = <<0, 0>>
        /\ ~(k < l.waits) => \E c \in Range(s.chunks) : \E p \in Nat :
             p < NumSamples(c) /\ a[k + 1] = SampleOf(c, p)
    BY <2>1, GetIs
  <2>3. CASE k < waits
    <3>1. a[t] = <<0, 0>>
      BY <1>3, <2>1, <2>2, <2>3
    <3>2. waits > 0
      BY <2>3
    <3> QED BY <3>1, <3>2
  <2>4. CASE ~(k < waits)
    <3>1. PICK c \in Range(chunks), p \in Nat : p < NumSamples(c) /\ a[t] = SampleOf(c, p)
      BY <1>1, <1>3, <2>1, <2>2, <2>4
    <3>2. PICK len \in Nat, b \in Nat : /\ len = Len(c.samples) /\ b = c.blank * NUM_SAMPLES_IN_AWG_WORD
                                        /\ NumSamples(c) = len + b /\ c.samples \in Seq(SampleType)
                                        /\ c.blank \in Nat
      <4>1. c \in ChunkType
        BY <1>6, <3>1
      <4> QED BY <4>1, ChunkIs, ChunkSize
    <3>3. CASE p >= len
      <4>1. a[t] = <<0, 0>>
        BY <3>1, <3>2, <3>3 DEF SampleOf
      <4>2. b > 0
        BY <3>1, <3>2, <3>3
      <4>3. PICK w \in Nat : w = NUM_SAMPLES_IN_AWG_WORD
        BY WaveConstants, HwParamConstants
      <4>4. 0 * w = 0
        OBVIOUS
      <4>5. c.blank # 0
        BY <3>2, <4>2, <4>3, <4>4
      <4> QED BY <3>1, <3>2, <4>1, <4>5
    <3>4. CASE ~(p >= len)
      <4>1. a[t] = c.samples[p + 1]
        BY <3>1, <3>2, <3>4 DEF SampleOf
      <4>2. p + 1 \in 1 .. len
        BY <3>4
      <4>3. p + 1 \in DOMAIN c.samples
        BY <3>2, <4>2
      <4> QED BY <3>1, <4>1, <4>3 DEF Range
    <3> QED BY <3>3, <3>4
  <2> QED BY <2>3, <2>4
<1>11. ASSUME Includes(l, x) PROVE x \in Range(a)
  <2>1. \/ x = <<0, 0>> /\ (waits > 0 \/ \E c \in Range(chunks) : c.blank > 0)
        \/ \E c \in Range(chunks) : x \in Range(c.samples)
    BY <1>3, <1>11 DEF Includes
  <2> QED BY <1>7, <1>8, <1>9, <2>1
<1>12. ASSUME x \in Range(a) PROVE Includes(l, x)
  <2>1. PICK t \in DOMAIN a : x = a[t]
    BY <1>12 DEF Range
  <2> QED BY <1>3, <1>10, <2>1 DEF Includes
<1> QED BY <1>11, <1>12

(* A key from 0, and the same one from the end. *)
LEMMA GetBoth ==
  ASSUME NEW l, NEW len \in Nat, len = l.len, NEW i \in 0 .. len - 1
  PROVE  Get(l, i) = GetAt(l, i) /\ Get(l, i - len) = GetAt(l, i)
<1>1. ~(i < 0) /\ i - len < 0 /\ (i - len) + l.len = i
  OBVIOUS
<1>2. PICK j : j = i - len /\ j < 0 /\ j + l.len = i
  BY <1>1
<1>3. Get(l, j) = GetAt(l, i)
  BY <1>2, Zenon DEF Get, GetAt
<1>4. Get(l, i) = GetAt(l, i)
  BY <1>1 DEF Get, GetAt
<1> QED BY <1>2, <1>3, <1>4

(* The list, made of a sequence of one repetition or more. *)
LazyTypeOK ==
  /\ SeqTypeOK
  /\ seq # NoSequence => seq.repeats \in Nat
  /\ list # NoList => \E s \in SequenceType, wait \in BOOLEAN :
       s.repeats # 0 /\ s.repeats \in Nat /\ list = LazyList(s, wait) /\ then = AllSamples(s, wait)

(* Such a list is the list of all samples (LazyListIsTheList). *)
LEMMA LazyMeans == LazyTypeOK => LazyListIsTheList
<1> SUFFICES ASSUME LazyTypeOK, list # NoList PROVE LazyListIsTheList
  BY DEF LazyListIsTheList
<1>1. PICK s \in SequenceType, wait \in BOOLEAN :
        s.repeats # 0 /\ s.repeats \in Nat /\ list = LazyList(s, wait) /\ then = AllSamples(s, wait)
  BY DEF LazyTypeOK
<1>2. PICK r \in Nat \ {0} : r = s.repeats
  BY <1>1
<1>3. PICK chunks \in Seq(ChunkType) : chunks = s.chunks
  BY DEF SequenceType
<1>4. PICK B \in Nat, waits \in Nat, len \in Nat :
        /\ B = Ends(chunks)[Len(chunks)] /\ waits = Waits(s, wait) /\ len = list.len
        /\ len = waits + Product(B, r)
  <2>1. /\ list.waits = Waits(s, wait) /\ list.waits \in Nat
        /\ Ends(s.chunks)[Len(s.chunks)] \in Nat
        /\ list.len = list.waits + Ends(s.chunks)[Len(s.chunks)] * s.repeats
    BY <1>1, LazyIs
  <2>2. Product(Ends(chunks)[Len(chunks)], r) \in Nat
    BY <1>3, <2>1 DEF Product
  <2>3. list.len = list.waits + Product(Ends(chunks)[Len(chunks)], r)
    BY <1>2, <1>3, <2>1, Zenon DEF Product
  <2>4. list.waits + Product(Ends(chunks)[Len(chunks)], r) \in Nat
    BY <2>1, <2>2
  <2> QED BY <1>3, <2>1, <2>2, <2>3, <2>4
<1>5. then \in Seq(SampleType) /\ Len(then) = len
  <2>1. AllSamplesOf(AllSamples(s, wait), waits, chunks, B, r)
    BY <1>2, <1>3, <1>4, AllSamplesAre
  <2>2. then \in Seq(SampleType) /\ Len(then) = waits + Product(B, r)
    BY <1>1, <2>1, Zenon DEF AllSamplesOf
  <2> QED BY <1>4, <2>2
<1>6. ASSUME NEW i \in 0 .. len - 1
      PROVE  Get(list, i) = then[i + 1] /\ Get(list, i - len) = then[i + 1]
  <2>1. i \in Nat /\ i < list.len
    BY <1>4
  <2>2. GetAt(list, i) = then[i + 1]
    BY <1>1, <1>2, <2>1, GetIs
  <2>3. Get(list, i) = GetAt(list, i) /\ Get(list, i - len) = GetAt(list, i)
    BY <1>4, GetBoth
  <2> QED BY <2>2, <2>3
<1>7. \A x : Includes(list, x) <=> x \in Range(then)
  BY <1>1, <1>2, IncludesIs
<1> QED BY <1>4, <1>5, <1>6, <1>7 DEF LazyListIsTheList

(* Every step keeps that. *)
LEMMA LazySteps ==
  ASSUME Repeats \subseteq Nat, LazyTypeOK, [WaveNext]_waveVars
  PROVE  LazyTypeOK'
<1> DEFINE IsLazy(q, a) ==
     \E s \in SequenceType, wait \in BOOLEAN :
       s.repeats # 0 /\ s.repeats \in Nat /\ q = LazyList(s, wait) /\ a = AllSamples(s, wait)
<1>1. SeqTypeOK'
  BY SequenceSteps DEF LazyTypeOK
<1>2. SeqTypeOK /\ (seq # NoSequence => seq.repeats \in Nat) /\ (list # NoList => IsLazy(list, then))
  BY DEF LazyTypeOK
<1>3. CASE UNCHANGED waveVars
  <2>1. (seq' # NoSequence => seq'.repeats \in Nat) /\ (list' # NoList => IsLazy(list', then'))
    BY <1>2, <1>3 DEF waveVars
  <2> QED BY <1>1, <2>1 DEF LazyTypeOK
<1>4. CASE WaveNext
  <2>1. CASE UNCHANGED <<list, then>> /\ seq'.repeats \in Nat
    <3>1. (seq' # NoSequence => seq'.repeats \in Nat) /\ (list' # NoList => IsLazy(list', then'))
      BY <1>2, <2>1
    <3> QED BY <1>1, <3>1 DEF LazyTypeOK
  <2>2. ASSUME NEW w \in WaitLens, NEW n \in Repeats, NewSequence(w, n) PROVE LazyTypeOK'
    <3>1. seq'.repeats = n /\ UNCHANGED <<list, then>>
      BY <2>2 DEF NewSequence
    <3> QED BY <2>1, <3>1
  <2>3. ASSUME NEW c \in ChunkArgs, AddChunk(c.samples, c.blank, c.repeats) PROVE LazyTypeOK'
    <3>1. seq # NoSequence /\ UNCHANGED <<list, then>>
          /\ seq' = [seq EXCEPT !.chunks = Append(@, Chunk(c.samples, c.blank, c.repeats))]
      BY <2>3 DEF AddChunk
    <3>2. seq \in SequenceType /\ seq.repeats \in Nat
      BY <1>2, <3>1 DEF SeqTypeOK
    <3>3. seq'.repeats = seq.repeats
      BY <3>1, <3>2 DEF SequenceType
    <3> QED BY <2>1, <3>1, <3>2, <3>3
  <2>4. ASSUME NEW i \in Indexes, DelChunk(i) PROVE LazyTypeOK'
    <3>1. PICK q : seq # NoSequence /\ UNCHANGED <<list, then>> /\ seq' = [seq EXCEPT !.chunks = q]
      BY <2>4 DEF DelChunk
    <3>2. seq \in SequenceType /\ seq.repeats \in Nat
      BY <1>2, <3>1 DEF SeqTypeOK
    <3>3. seq'.repeats = seq.repeats
      BY <3>1, <3>2 DEF SequenceType
    <3> QED BY <2>1, <3>1, <3>2, <3>3
  <2>5. ASSUME NEW n \in Repeats, SetNumRepeats(n) PROVE LazyTypeOK'
    <3>1. seq # NoSequence /\ UNCHANGED <<list, then>> /\ seq' = [seq EXCEPT !.repeats = n]
      BY <2>5 DEF SetNumRepeats
    <3>2. seq \in SequenceType
      BY <1>2, <3>1 DEF SeqTypeOK
    <3>3. seq'.repeats = n
      BY <3>1, <3>2 DEF SequenceType
    <3> QED BY <2>1, <3>1, <3>3
  <2>6. ASSUME NEW wait \in BOOLEAN, AllSamplesLazy(wait) PROVE LazyTypeOK'
    <3>1. /\ seq # NoSequence /\ seq.repeats # 0 /\ list' = LazyList(seq, wait)
          /\ then' = AllSamples(seq, wait) /\ seq' = seq
      BY <2>6 DEF AllSamplesLazy
    <3>2. seq \in SequenceType /\ seq.repeats \in Nat
      BY <1>2, <3>1 DEF SeqTypeOK
    <3>3. IsLazy(list', then')
      BY <3>1, <3>2
    <3>4. seq' # NoSequence => seq'.repeats \in Nat
      BY <3>1, <3>2
    <3> QED BY <1>1, <3>3, <3>4 DEF LazyTypeOK
  <2> QED BY <1>4, <2>2, <2>3, <2>4, <2>5, <2>6 DEF WaveNext
<1> QED BY <1>3, <1>4

(* The lazy list of a wave sequence is the list of all its samples, whatever   *)
(* was done to the sequence after it was made (wavesequence.py:313,            *)
(* __WaveSampleList): its length, the sample at each index from the front and  *)
(* from the end, and which samples are in it. The setter of the number of      *)
(* repetitions takes a negative one too, of which this says nothing: len() of  *)
(* such a list raises an exception.                                            *)
THEOREM LazyListIsTheWholeList ==
  ASSUME Repeats \subseteq Nat
  PROVE  WaveSpec => []LazyListIsTheList
<1>1. WaveInit => LazyTypeOK
  BY DEF WaveInit, LazyTypeOK, SeqTypeOK
<1>2. LazyTypeOK /\ [WaveNext]_waveVars => LazyTypeOK'
  BY LazySteps
<1> QED BY <1>1, <1>2, LazyMeans, PTL DEF WaveSpec

-----------------------------------------------------------------------------
(* The filters (CaptureFilters): sums of products. *)

(* Added up from the other end, a list has the same sum. *)
LEMMA ReversedSum ==
  ASSUME NEW n \in Nat, NEW a \in Seq(Int), NEW b \in Seq(Int), Len(a) = n, Len(b) = n,
         \A j \in 1 .. n : a[j] = b[n - j + 1]
  PROVE  SumAll(a) = SumAll(b) /\ SumAll(a) \in Int
<1>1. PICK f, g : f = Sums(a) /\ g = Sums(b)
  OBVIOUS
<1>2. /\ f \in [0 .. n -> Int] /\ f[0] = 0 /\ \A i \in 1 .. n : f[i] = f[i - 1] + a[i]
      /\ g \in [0 .. n -> Int] /\ g[0] = 0 /\ \A i \in 1 .. n : g[i] = g[i - 1] + b[i]
  <2>1. /\ Sums(a) \in [0 .. Len(a) -> Int] /\ Sums(a)[0] = 0
        /\ \A i \in 1 .. Len(a) : Sums(a)[i] = Sums(a)[i - 1] + a[i]
    BY SumsAreInt
  <2>2. /\ Sums(b) \in [0 .. Len(b) -> Int] /\ Sums(b)[0] = 0
        /\ \A i \in 1 .. Len(b) : Sums(b)[i] = Sums(b)[i - 1] + b[i]
    BY SumsAreInt
  <2> QED BY <1>1, <2>1, <2>2
<1> DEFINE S == {k \in Nat : k <= n => f[k] = g[n] - g[n - k]}
<1>3. 0 \in S
  <2>1. n \in 0 .. n /\ n - 0 = n /\ g[n] \in Int
    BY <1>2
  <2> QED BY <1>2, <2>1
<1>4. ASSUME NEW k \in Nat, k \in S PROVE k + 1 \in S
  <2>1. SUFFICES ASSUME k + 1 <= n PROVE f[k + 1] = g[n] - g[n - (k + 1)]
    OBVIOUS
  <2>2. PICK r \in 1 .. n : r = n - k
    BY <2>1
  <2>3. f[k] = g[n] - g[r]
    BY <1>4, <2>1, <2>2
  <2>4. k + 1 \in 1 .. n /\ (k + 1) - 1 = k /\ n - (k + 1) + 1 = r /\ n - (k + 1) = r - 1
    BY <2>1, <2>2
  <2>5. f[k + 1] = f[k] + a[k + 1]
    BY <1>2, <2>4
  <2>6. a[k + 1] = b[r]
    BY <2>4
  <2>7. g[r] = g[r - 1] + b[r]
    BY <1>2
  <2>8. g[n] \in Int /\ g[r] \in Int /\ g[r - 1] \in Int /\ b[r] \in Int
    <3>1. n \in 0 .. n /\ r \in 0 .. n /\ r - 1 \in 0 .. n
      OBVIOUS
    <3> QED BY <1>2, <3>1
  <2>9. f[k + 1] = g[n] - g[r - 1]
    BY <2>3, <2>5, <2>6, <2>7, <2>8, SMTT(30)
  <2> QED BY <2>4, <2>9
<1>5. Nat \subseteq S
  <2> HIDE DEF S
  <2> QED BY <1>3, <1>4, SetInduction
<1>6. f[n] = g[n] - g[0]
  <2>1. n - n = 0
    OBVIOUS
  <2> QED BY <1>5, <2>1
<1>7. n \in 0 .. n /\ f[n] \in Int /\ g[n] \in Int
  BY <1>2
<1>8. f[n] = g[n]
  BY <1>2, <1>6, <1>7
<1>9. SumAll(a) = f[n] /\ SumAll(b) = g[n]
  BY <1>1 DEF SumAll
<1> QED BY <1>7, <1>8, <1>9

LEMMA MultIs ==
  ASSUME NEW a \in SampleType, NEW b \in SampleType
  PROVE  Mult(a, b) \in SampleType
BY DEF Mult, SampleType

(* What a filter adds up, whichever end it begins at. *)
LEMMA ReversedAdded ==
  ASSUME NEW n \in Nat, NEW p \in [1 .. n -> SampleType], NEW q \in [1 .. n -> SampleType],
         \A j \in 1 .. n : p[j] = q[n - j + 1]
  PROVE  Added(p) = Added(q) /\ Added(p) \in SampleType
<1> DEFINE a(k) == [j \in 1 .. n |-> p[j][k]]
           b(k) == [j \in 1 .. n |-> q[j][k]]
<1>1. ASSUME NEW k \in 1 .. 2 PROVE SumAll(a(k)) = SumAll(b(k)) /\ SumAll(a(k)) \in Int
  <2>1. \A j \in 1 .. n : p[j][k] \in Int /\ q[j][k] \in Int
    BY DEF SampleType
  <2>2. a(k) \in Seq(Int) /\ b(k) \in Seq(Int) /\ Len(a(k)) = n /\ Len(b(k)) = n
    BY <2>1
  <2>3. \A j \in 1 .. n : n - j + 1 \in 1 .. n
    OBVIOUS
  <2>4. \A j \in 1 .. n : a(k)[j] = b(k)[n - j + 1]
    BY <2>3
  <2> HIDE DEF a, b
  <2> QED BY <2>2, <2>4, ReversedSum
<1>2. Added(p) = <<SumAll(a(1)), SumAll(a(2))>> /\ Added(q) = <<SumAll(b(1)), SumAll(b(2))>>
  BY DEF Added
<1> HIDE DEF a, b
<1>3. 1 \in 1 .. 2 /\ 2 \in 1 .. 2
  OBVIOUS
<1>4. SumAll(a(1)) = SumAll(b(1)) /\ SumAll(a(1)) \in Int
  BY <1>1, <1>3
<1>5. SumAll(a(2)) = SumAll(b(2)) /\ SumAll(a(2)) \in Int
  BY <1>1, <1>3
<1> QED BY <1>2, <1>4, <1>5 DEF SampleType

(* A sample at a position; before the first one there is nothing. *)
SampleAt(samples, at) == IF at < 0 THEN ZeroPair ELSE samples[at + 1]

LEMMA SampleAtIs ==
  ASSUME NEW samples \in Seq(SampleType), NEW at \in Int, at < Len(samples)
  PROVE  SampleAt(samples, at) \in SampleType
<1>1. CASE at < 0
  BY <1>1 DEF SampleAt, ZeroPair, SampleType
<1>2. CASE at >= 0
  <2>1. at + 1 \in 1 .. Len(samples)
    BY <1>2
  <2>2. samples[at + 1] \in SampleType
    BY <2>1
  <2> QED BY <1>2, <2>2 DEF SampleAt
<1> QED BY <1>1, <1>2

(* The complex filter at a position. *)
FirAt(samples, taps, at) ==
  Added([m \in DOMAIN taps |-> Mult(taps[m], SampleAt(samples, at - m + 1))])

LEMMA FirIs ==
  ASSUME NEW samples \in Seq(SampleType), NEW n \in Nat \ {0}, NEW taps \in [1 .. n -> SampleType]
  PROVE  /\ ComplexFir(samples, taps) \in Seq(SampleType)
         /\ Len(ComplexFir(samples, taps)) = Len(samples)
         /\ \A i \in 1 .. Len(samples) :
              ComplexFir(samples, taps)[i] = FirAt(samples, taps, i - 1)
<1> DEFINE zeros == [i \in 1 .. n - 1 |-> ZeroPair]
           all == zeros \o samples
           term(i) == [j \in 1 .. n |-> Mult(taps[n - j + 1], all[i + j - 1])]
           back(i) == [m \in 1 .. n |-> Mult(taps[m], SampleAt(samples, (i - 1) - m + 1))]
<1>1. zeros \in Seq(SampleType) /\ Len(zeros) = n - 1
  BY DEF ZeroPair, SampleType
<1>2. ASSUME NEW x \in 1 .. n - 1 + Len(samples)
      PROVE  all[x] = SampleAt(samples, x - n) /\ all[x] \in SampleType
  <2>1. CASE x <= n - 1
    <3>1. x \in 1 .. Len(zeros) /\ x - n \in Int /\ x - n < 0
      BY <1>1, <2>1
    <3>2. all[x] = zeros[x]
      <4> HIDE DEF zeros
      <4> QED BY <1>1, <3>1
    <3>3. zeros[x] = ZeroPair
      BY <1>1, <3>1
    <3> QED BY <3>1, <3>2, <3>3, SMTT(30) DEF SampleAt, ZeroPair, SampleType
  <2>2. CASE x > n - 1
    <3>1. PICK y \in 1 .. Len(samples) : x = Len(zeros) + y
      <4>1. x - (n - 1) \in 1 .. Len(samples) /\ x = Len(zeros) + (x - (n - 1))
        BY <1>1, <2>2
      <4> QED BY <4>1
    <3>2. all[Len(zeros) + y] = samples[y]
      <4> HIDE DEF zeros
      <4> QED BY <1>1, SecondPart
    <3>3. x - n = y - 1 /\ y - 1 >= 0 /\ (y - 1) + 1 = y
      BY <1>1, <3>1
    <3>4. samples[y] \in SampleType
      OBVIOUS
    <3> QED BY <3>1, <3>2, <3>3, <3>4 DEF SampleAt
  <2> QED BY <2>1, <2>2
<1>3. ASSUME NEW i \in 1 .. Len(samples)
      PROVE  Added(term(i)) = FirAt(samples, taps, i - 1) /\ Added(term(i)) \in SampleType
  <2>1. \A j \in 1 .. n : /\ n - j + 1 \in 1 .. n /\ i + j - 1 \in 1 .. n - 1 + Len(samples)
                          /\ (i + j - 1) - n = (i - 1) - (n - j + 1) + 1
    OBVIOUS
  <2>2. ASSUME NEW j \in 1 .. n
        PROVE  term(i)[j] = back(i)[n - j + 1] /\ term(i)[j] \in SampleType
    <3>1. all[i + j - 1] = SampleAt(samples, (i - 1) - (n - j + 1) + 1) /\ all[i + j - 1] \in SampleType
      <4> HIDE DEF all
      <4> QED BY <1>2, <2>1
    <3>2. taps[n - j + 1] \in SampleType
      BY <2>1
    <3>3. term(i)[j] = Mult(taps[n - j + 1], all[i + j - 1])
      OBVIOUS
    <3>4. back(i)[n - j + 1] = Mult(taps[n - j + 1], SampleAt(samples, (i - 1) - (n - j + 1) + 1))
      BY <2>1
    <3> HIDE DEF term, back, all
    <3>5. Mult(taps[n - j + 1], all[i + j - 1]) \in SampleType
      BY <3>1, <3>2, MultIs
    <3> QED BY <3>1, <3>3, <3>4, <3>5
  <2>3. term(i) \in [1 .. n -> SampleType]
    <3>1. term(i) = [j \in 1 .. n |-> term(i)[j]]
      OBVIOUS
    <3> HIDE DEF term
    <3> QED BY <2>2, <3>1
  <2>4. back(i) \in [1 .. n -> SampleType]
    <3>1. ASSUME NEW m \in 1 .. n PROVE back(i)[m] \in SampleType
      <4>1. taps[m] \in SampleType /\ (i - 1) - m + 1 \in Int /\ (i - 1) - m + 1 < Len(samples)
        OBVIOUS
      <4>2. SampleAt(samples, (i - 1) - m + 1) \in SampleType
        BY <4>1, SampleAtIs
      <4> QED BY <4>1, <4>2, MultIs
    <3>2. back(i) = [m \in 1 .. n |-> back(i)[m]]
      OBVIOUS
    <3> HIDE DEF back
    <3> QED BY <3>1, <3>2
  <2>5. Added(term(i)) = Added(back(i)) /\ Added(term(i)) \in SampleType
    <3> HIDE DEF term, back
    <3> QED BY <2>2, <2>3, <2>4, ReversedAdded
  <2>6. DOMAIN taps = 1 .. n
    OBVIOUS
  <2>7. FirAt(samples, taps, i - 1) = Added(back(i))
    BY <2>6 DEF FirAt
  <2> QED BY <2>5, <2>7
<1>4. ComplexFir(samples, taps) = [i \in 1 .. Len(samples) |-> Added(term(i))]
  <2>1. Len(taps) = n /\ DOMAIN samples = 1 .. Len(samples)
    OBVIOUS
  <2> QED BY <2>1 DEF ComplexFir
<1> HIDE DEF term
<1> QED BY <1>3, <1>4

(* One part of the samples through the real filter. *)
LEMMA RealFirIs ==
  ASSUME NEW samples \in Seq(Int), NEW n \in Nat \ {0}, NEW taps \in [1 .. n -> Int],
         Len(samples) >= n - 1
  PROVE  /\ RealFir(samples, taps) \in Seq(Int)
         /\ Len(RealFir(samples, taps)) = Len(samples) - (n - 1)
         /\ \A i \in 1 .. Len(samples) - (n - 1) :
              RealFir(samples, taps)[i] =
                SumAll([m \in 1 .. n |-> taps[m] * samples[i + (n - 1) - m + 1]])
<1> DEFINE L == Len(samples) - (n - 1)
           term(i) == [j \in 1 .. n |-> samples[i + j - 1] * taps[n - j + 1]]
           back(i) == [m \in 1 .. n |-> taps[m] * samples[i + (n - 1) - m + 1]]
<1>1. ASSUME NEW i \in 1 .. L
      PROVE  SumAll(term(i)) = SumAll(back(i)) /\ SumAll(term(i)) \in Int
  <2>1. \A j \in 1 .. n : /\ n - j + 1 \in 1 .. n /\ i + j - 1 \in 1 .. Len(samples)
                          /\ i + (n - 1) - (n - j + 1) + 1 = i + j - 1
                          /\ i + (n - 1) - j + 1 \in 1 .. Len(samples)
    OBVIOUS
  <2>2. ASSUME NEW j \in 1 .. n
        PROVE  term(i)[j] = back(i)[n - j + 1] /\ term(i)[j] \in Int /\ back(i)[j] \in Int
    <3>1. samples[i + j - 1] \in Int /\ taps[n - j + 1] \in Int
      BY <2>1
    <3>2. samples[i + (n - 1) - j + 1] \in Int /\ taps[j] \in Int
      BY <2>1
    <3>3. term(i)[j] = samples[i + j - 1] * taps[n - j + 1]
      OBVIOUS
    <3>4. back(i)[n - j + 1] = taps[n - j + 1] * samples[i + j - 1]
      BY <2>1
    <3>5. back(i)[j] = taps[j] * samples[i + (n - 1) - j + 1]
      OBVIOUS
    <3>6. \A x, y \in Int : x * y = y * x /\ x * y \in Int
      OBVIOUS
    <3> HIDE DEF term, back
    <3> QED BY <3>1, <3>2, <3>3, <3>4, <3>5, <3>6
  <2>3. /\ term(i) \in Seq(Int) /\ Len(term(i)) = n
        /\ back(i) \in Seq(Int) /\ Len(back(i)) = n
    <3>1. term(i) = [j \in 1 .. n |-> term(i)[j]] /\ back(i) = [j \in 1 .. n |-> back(i)[j]]
      OBVIOUS
    <3> HIDE DEF term, back
    <3>2. term(i) \in [1 .. n -> Int] /\ back(i) \in [1 .. n -> Int]
      BY <2>2, <3>1
    <3> QED BY <3>2, SMTT(30)
  <2> HIDE DEF term, back
  <2>4. \A j \in 1 .. n : term(i)[j] = back(i)[n - j + 1]
    BY <2>2
  <2> QED BY <2>3, <2>4, ReversedSum
<1>2. RealFir(samples, taps) = [i \in 1 .. L |-> SumAll(term(i))]
  <2>1. Len(taps) = n
    OBVIOUS
  <2> QED BY <2>1 DEF RealFir
<1>3. L \in Nat
  OBVIOUS
<1> HIDE DEF term, L
<1>4. RealFir(samples, taps) \in Seq(Int) /\ Len(RealFir(samples, taps)) = L
  <2>1. RealFir(samples, taps) \in [1 .. L -> Int]
    BY <1>1, <1>2
  <2> QED BY <1>3, <2>1
<1>5. \A i \in 1 .. L : RealFir(samples, taps)[i] = SumAll(back(i))
  <2> HIDE DEF back
  <2> QED BY <1>1, <1>2
<1> QED BY <1>4, <1>5 DEF L

(* Coefficients that a setter has taken; and sections, as they are added. *)
CoefsTyped(c) ==
  /\ c = [k \in CoefKind |-> c[k]]
  /\ \A k \in CoefKind : c[k] \in [1 .. NumCoefs[k] -> CoefIn(k)]

ShapeTyped(s) ==
  /\ s.sections \in Seq((Nat \ {0}) \X (Nat \ {0})) /\ s.sections # <<>>
  /\ s.integ \in Nat \ {0}

LEMMA TapsAre ==
  ASSUME NEW c, CoefsTyped(c)
  PROVE  /\ NumTaps \in Nat \ {0}
         /\ c.real_fir_i \in [1 .. NumTaps -> Int] /\ c.real_fir_q \in [1 .. NumTaps -> Int]
         /\ NumCoefs.complex_fir \in Nat \ {0} /\ NumCoefs.complex_window \in Nat \ {0}
         /\ c.complex_fir \in [1 .. NumCoefs.complex_fir -> SampleType]
         /\ c.complex_window \in [1 .. NumCoefs.complex_window -> SampleType]
<1>1. {"complex_fir", "complex_window", "real_fir_i", "real_fir_q"} = CoefKind
  BY DEF CoefKind, Complex
<1>2. \A k \in CoefKind : NumCoefs[k] \in Nat \ {0} /\ c[k] \in [1 .. NumCoefs[k] -> CoefIn(k)]
  BY FilterConstants DEF CoefsTyped
<1>3. /\ CoefIn("complex_fir") = SampleType /\ CoefIn("complex_window") = SampleType
      /\ CoefIn("real_fir_i") = Int /\ CoefIn("real_fir_q") = Int
  BY DEF CoefIn, Complex, SampleType
<1>4. NumCoefs.real_fir_i = NumCoefs.real_fir_q
  BY FilterConstants
<1> QED BY <1>1, <1>2, <1>3, <1>4 DEF NumTaps

(* The list of samples that goes into the real filter has as many before   *)
(* the first one as the filter looks back.  Both parts at a position:      *)
RealAt(s, c, row, at) ==
  IF "REAL_FIR" \notin s.filters THEN row[at]
  ELSE <<SumAll([m \in 1 .. NumTaps |-> c.real_fir_i[m] * row[at - m + 1][1]]),
         SumAll([m \in 1 .. NumTaps |-> c.real_fir_q[m] * row[at - m + 1][2]])>>

IsPart(s, c, row, part) ==
  /\ RealPart(s, c, row, part) \in Seq(Int)
  /\ Len(RealPart(s, c, row, part)) = Len(row) - (NumTaps - 1)
  /\ \A i \in 1 .. Len(row) - (NumTaps - 1) :
       RealPart(s, c, row, part)[i] = RealAt(s, c, row, i + (NumTaps - 1))[part]

LEMMA PartIs ==
  ASSUME NEW s, NEW c, CoefsTyped(c), NEW row \in Seq(SampleType), Len(row) >= NumTaps - 1,
         NEW part \in 1 .. 2
  PROVE  IsPart(s, c, row, part)
<1>0. SUFFICES
         /\ RealPart(s, c, row, part) \in Seq(Int)
         /\ Len(RealPart(s, c, row, part)) = Len(row) - (NumTaps - 1)
         /\ \A i \in 1 .. Len(row) - (NumTaps - 1) :
              RealPart(s, c, row, part)[i] = RealAt(s, c, row, i + (NumTaps - 1))[part]
  BY DEF IsPart
<1>1. PICK n \in Nat \ {0} : n = NumTaps
  BY TapsAre
<1>2. PICK taps \in [1 .. n -> Int] :
        taps = c[IF part = 1 THEN "real_fir_i" ELSE "real_fir_q"]
  BY <1>1, TapsAre
<1>3. PICK samples : samples = PartOf(row, part)
  OBVIOUS
<1>4. /\ samples \in Seq(Int) /\ Len(samples) = Len(row)
      /\ \A i \in 1 .. Len(row) : samples[i] = row[i][part]
  <2>1. \A i \in 1 .. Len(row) : row[i][part] \in Int
    BY DEF SampleType
  <2>2. samples = [i \in 1 .. Len(row) |-> row[i][part]]
    BY <1>3 DEF PartOf
  <2>3. samples \in [1 .. Len(row) -> Int]
    BY <2>1, <2>2
  <2> QED BY <2>2, <2>3
<1>5. CASE "REAL_FIR" \in s.filters
  <2>1. RealPart(s, c, row, part) = RealFir(samples, taps)
    BY <1>2, <1>3, <1>5 DEF RealPart
  <2>2. ASSUME NEW i \in 1 .. Len(row) - (n - 1)
        PROVE  RealAt(s, c, row, i + (n - 1))[part] =
                 SumAll([m \in 1 .. n |-> taps[m] * samples[i + (n - 1) - m + 1]])
    <3>1. \A m \in 1 .. n : samples[i + (n - 1) - m + 1] = row[i + (n - 1) - m + 1][part]
      <4>1. \A m \in 1 .. n : i + (n - 1) - m + 1 \in 1 .. Len(row)
        BY <1>1
      <4> QED BY <1>4, <4>1
    <3>2. [m \in 1 .. n |-> taps[m] * samples[i + (n - 1) - m + 1]]
          = [m \in 1 .. n |-> taps[m] * row[i + (n - 1) - m + 1][part]]
      BY <3>1
    <3>3. RealAt(s, c, row, i + (n - 1))[part]
          = SumAll([m \in 1 .. n |-> taps[m] * row[i + (n - 1) - m + 1][part]])
      <4>1. CASE part = 1
        <5>1. taps = c.real_fir_i
          BY <1>2, <4>1
        <5> QED BY <1>1, <1>5, <4>1, <5>1 DEF RealAt
      <4>2. CASE part = 2
        <5>1. taps = c.real_fir_q
          BY <1>2, <4>2
        <5> QED BY <1>1, <1>5, <4>2, <5>1 DEF RealAt
      <4> QED BY <4>1, <4>2
    <3> QED BY <3>2, <3>3
  <2>3. /\ RealFir(samples, taps) \in Seq(Int)
        /\ Len(RealFir(samples, taps)) = Len(samples) - (n - 1)
        /\ \A i \in 1 .. Len(samples) - (n - 1) :
             RealFir(samples, taps)[i] =
               SumAll([m \in 1 .. n |-> taps[m] * samples[i + (n - 1) - m + 1]])
    <3>1. Len(samples) >= n - 1
      BY <1>1, <1>4
    <3> QED BY <1>4, <3>1, RealFirIs
  <2>4. Len(samples) = Len(row)
    BY <1>4
  <2> QED BY <1>1, <2>1, <2>2, <2>3, <2>4
<1>6. CASE "REAL_FIR" \notin s.filters
  <2>1. RealPart(s, c, row, part) = SubSeq(samples, n, Len(samples))
    BY <1>1, <1>3, <1>6 DEF RealPart
  <2>2. /\ SubSeq(samples, n, Len(samples)) \in Seq(Int)
        /\ Len(SubSeq(samples, n, Len(samples))) = Len(row) - (n - 1)
        /\ \A i \in 1 .. Len(row) - (n - 1) :
             SubSeq(samples, n, Len(samples))[i] = samples[i + (n - 1)]
    <3>1. Len(samples) >= n - 1 /\ Len(samples) \in Nat
      BY <1>1, <1>4
    <3>2. SubSeq(samples, n, Len(samples))
          = [i \in 1 .. Len(samples) - n + 1 |-> samples[i + n - 1]]
      BY <1>4, <3>1 DEF SubSeq
    <3>3. \A i \in 1 .. Len(samples) - n + 1 : i + n - 1 \in 1 .. Len(samples) /\ i + n - 1 = i + (n - 1)
      BY <3>1
    <3>4. \A i \in 1 .. Len(samples) - n + 1 : samples[i + n - 1] \in Int /\ samples[i + n - 1] = samples[i + (n - 1)]
      BY <1>4, <3>3
    <3>5. Len(samples) - n + 1 \in Nat /\ Len(samples) - n + 1 = Len(row) - (n - 1)
      BY <1>4, <3>1
    <3> QED BY <3>2, <3>4, <3>5
  <2>3. \A i \in 1 .. Len(row) - (n - 1) : samples[i + (n - 1)] = row[i + (n - 1)][part]
    <3>1. \A i \in 1 .. Len(row) - (n - 1) : i + (n - 1) \in 1 .. Len(row)
      BY <1>1
    <3> QED BY <1>4, <3>1
  <2> QED BY <1>1, <1>6, <2>1, <2>2, <2>3 DEF RealAt
<1> QED BY <1>5, <1>6

(* Both parts. *)
Reals(s, c, row) == Pairs(RealPart(s, c, row, 1), RealPart(s, c, row, 2))

LEMMA RealsAre ==
  ASSUME NEW s, NEW c, CoefsTyped(c), NEW row \in Seq(SampleType), Len(row) >= NumTaps - 1
  PROVE  /\ Reals(s, c, row) \in Seq(SampleType)
         /\ Len(Reals(s, c, row)) = Len(row) - (NumTaps - 1)
         /\ \A i \in 1 .. Len(row) - (NumTaps - 1) :
              Reals(s, c, row)[i] = RealAt(s, c, row, i + (NumTaps - 1))
<1>1. PICK a, b, l : /\ a = RealPart(s, c, row, 1) /\ b = RealPart(s, c, row, 2)
                     /\ l = Len(row) - (NumTaps - 1)
  OBVIOUS
<1>2. /\ a \in Seq(Int) /\ Len(a) = l
      /\ \A i \in 1 .. l : a[i] = RealAt(s, c, row, i + (NumTaps - 1))[1]
  <2>1. 1 \in 1 .. 2
    OBVIOUS
  <2>2. IsPart(s, c, row, 1)
    BY <2>1, PartIs
  <2> QED BY <1>1, <2>2 DEF IsPart
<1>3. /\ b \in Seq(Int) /\ Len(b) = l
      /\ \A i \in 1 .. l : b[i] = RealAt(s, c, row, i + (NumTaps - 1))[2]
  <2>1. 2 \in 1 .. 2
    OBVIOUS
  <2>2. IsPart(s, c, row, 2)
    BY <2>1, PartIs
  <2> QED BY <1>1, <2>2 DEF IsPart
<1>4. Reals(s, c, row) = [i \in 1 .. l |-> <<a[i], b[i]>>]
  BY <1>1, <1>2 DEF Reals, Pairs
<1>5. l \in Nat
  BY <1>1, TapsAre
<1>6. \A i \in 1 .. l : a[i] \in Int /\ b[i] \in Int
  BY <1>2, <1>3
<1>7. ASSUME NEW i \in 1 .. l
      PROVE  <<a[i], b[i]>> = RealAt(s, c, row, i + (NumTaps - 1))
  <2>1. PICK r : r = RealAt(s, c, row, i + (NumTaps - 1))
    OBVIOUS
  <2>2. r = <<r[1], r[2]>>
    <3>1. CASE "REAL_FIR" \notin s.filters
      <4>1. r = row[i + (NumTaps - 1)]
        BY <2>1, <3>1 DEF RealAt
      <4>2. i + (NumTaps - 1) \in 1 .. Len(row)
        BY <1>1, TapsAre
      <4>3. r \in Int \X Int
        BY <4>1, <4>2 DEF SampleType
      <4> QED BY <4>3
    <3>2. CASE "REAL_FIR" \in s.filters
      BY <2>1, <3>2 DEF RealAt
    <3> QED BY <3>1, <3>2
  <2> QED BY <1>2, <1>3, <2>1, <2>2
<1>8. [i \in 1 .. l |-> <<a[i], b[i]>>] \in Seq(SampleType)
  BY <1>5, <1>6 DEF SampleType
<1> QED BY <1>1, <1>4, <1>5, <1>7, <1>8

(* Every section lies within what is processed. *)
LEMMA SectionFits ==
  ASSUME NEW s, ShapeTyped(s)
  PROVE  /\ NumSections(s) \in Nat /\ NumToProcess(s) \in Nat
         /\ \A k \in 1 .. NumSections(s) :
              /\ SectionWords(s, k) \in Nat /\ SectionAt(s, k) \in Nat
              /\ SectionAt(s, k) + SectionWords(s, k) * SAMPLES_IN_WORD <= NumToProcess(s)
<1>1. PICK n \in Nat \ {0} : n = Len(s.sections)
  BY DEF ShapeTyped
<1>2. PICK r \in Nat \ {0} : r = s.integ
  BY DEF ShapeTyped
<1>3. PICK l : l = [j \in 1 .. n |-> s.sections[j][1] + s.sections[j][2]]
  OBVIOUS
<1>4. \A j \in 1 .. n : s.sections[j][1] \in Nat /\ s.sections[j][2] \in Nat
  BY <1>1 DEF ShapeTyped
<1>5. /\ l \in Seq(Nat) /\ Len(l) = n
      /\ \A j \in 1 .. n : l[j] = s.sections[j][1] + s.sections[j][2]
  <2>1. l \in [1 .. n -> Nat]
    BY <1>3, <1>4
  <2> QED BY <1>3, <2>1
<1>6. PICK t \in Nat : t = SumAll(l)
  BY <1>5, SumIs
<1>7. /\ \A j \in 0 .. n : Sums(l)[j] \in Nat /\ Sums(l)[j] <= t
      /\ \A j \in 1 .. n : Sums(l)[j] = Sums(l)[j - 1] + l[j]
      /\ Sums(l)[0] = 0
  <2>1. \A i \in 0 .. Len(l) : Sums(l)[i] <= SumAll(l) /\ Sums(l)[i] \in Nat
    BY <1>5, SumIs
  <2>2. /\ Sums(l)[0] = 0 /\ \A i \in 1 .. Len(l) : Sums(l)[i] = Sums(l)[i - 1] + l[i]
    BY <1>5, SumsAre
  <2> QED BY <1>5, <1>6, <2>1, <2>2
<1>8. \A k \in Int : SectionAt(s, k) = (((k - 1) \div n) * t + Sums(l)[(k - 1) % n]) * 4
  BY <1>1, <1>3, <1>6 DEF SectionAt, SAMPLES_IN_WORD
<1>9. NumSections(s) = n * r /\ n * r \in Nat
  BY <1>1, <1>2 DEF NumSections
<1>10. NumToProcess(s) = (r * t) * 4 /\ r * t \in Nat
  <2>1. ((n * r + 1) - 1) \div n = r /\ ((n * r + 1) - 1) % n = 0
    <3>1. (n * r + 1) - 1 = n * r
      BY <1>9
    <3>2. (n * r) \div n \in Nat /\ n * ((n * r) \div n) <= n * r
          /\ n * r < n * ((n * r) \div n) + n
      BY <1>9, Division
    <3>3. PICK q \in Nat : q = (n * r) \div n
      BY <3>2
    <3>4. q <= r /\ r <= q
      <4>1. r \in Nat /\ n * q < n * r + n /\ n * r < n * q + n
        BY <3>2, <3>3
      <4> QED BY <4>1, Multiples
    <3>5. (n * r) % n = 0
      <4>1. n * r = n * q
        BY <3>4
      <4>2. \A x \in Nat : x % n = x - n * (x \div n)
        BY SMT
      <4> QED BY <1>9, <3>3, <4>1, <4>2, SMTT(30)
    <3> QED BY <3>1, <3>3, <3>4, <3>5
  <2>2. n * r + 1 \in Int
    BY <1>9
  <2>3. SectionAt(s, n * r + 1) = (r * t + 0) * 4
    BY <1>7, <1>8, <2>1, <2>2
  <2>4. r * t \in Nat
    OBVIOUS
  <2> QED BY <1>9, <2>3, <2>4 DEF NumToProcess
<1>11. ASSUME NEW k \in 1 .. NumSections(s)
       PROVE  /\ SectionWords(s, k) \in Nat /\ SectionAt(s, k) \in Nat
              /\ SectionAt(s, k) + SectionWords(s, k) * SAMPLES_IN_WORD <= NumToProcess(s)
  <2>1. PICK x \in Nat : x = k - 1 /\ x < n * r
    BY <1>9
  <2>2. PICK q \in Nat : q = x \div n /\ n * q <= x
    BY Division
  <2>3. PICK m \in 0 .. n - 1 : m = x % n
    OBVIOUS
  <2>4. q + 1 <= r
    <3>1. q + 1 \in Nat /\ n * (q + 1) < n * r + n
      <4>1. n * (q + 1) = n * q + n
        OBVIOUS
      <4> QED BY <1>9, <2>1, <2>2, <4>1
    <3> QED BY <3>1, Multiples
  <2>5. PICK w \in Nat : w = s.sections[m + 1][1]
    <3>1. m + 1 \in 1 .. n
      OBVIOUS
    <3> QED BY <1>4, <3>1
  <2>6. SectionWords(s, k) = w
    BY <1>1, <2>1, <2>3, <2>5 DEF SectionWords
  <2>7. PICK f \in Nat : f = Sums(l)[m]
    <3>1. m \in 0 .. n
      OBVIOUS
    <3> QED BY <1>7, <3>1
  <2>8. f + w <= t
    <3>1. m + 1 \in 1 .. n /\ m + 1 \in 0 .. n /\ (m + 1) - 1 = m
      OBVIOUS
    <3>2. Sums(l)[m + 1] = f + l[m + 1] /\ Sums(l)[m + 1] <= t
      BY <1>7, <2>7, <3>1
    <3>3. l[m + 1] = w + s.sections[m + 1][2] /\ s.sections[m + 1][2] \in Nat
      BY <1>4, <1>5, <2>5, <3>1
    <3> QED BY <3>2, <3>3
  <2>9. SectionAt(s, k) = (q * t + f) * 4
    BY <1>8, <2>1, <2>2, <2>3, <2>7
  <2>10. q * t + t <= r * t /\ q * t \in Nat
    <3>1. t * (q + 1) <= t * r
      <4>1. CASE t = 0
        BY <4>1
      <4>2. CASE t # 0
        BY <2>4, <4>2, Multiples
      <4> QED BY <4>1, <4>2
    <3>2. t * (q + 1) = q * t + t /\ t * r = r * t /\ q * t \in Nat
      OBVIOUS
    <3> QED BY <3>1, <3>2
  <2>11. PICK a \in Nat, b \in Nat : a = q * t /\ b = r * t
    BY <1>10, <2>10
  <2>12. (a + f) * 4 + w * 4 <= b * 4 /\ (a + f) * 4 \in Nat
    BY <2>8, <2>10, <2>11
  <2> QED BY <1>10, <2>6, <2>9, <2>11, <2>12 DEF SAMPLES_IN_WORD
<1> QED BY <1>9, <1>10, <1>11

(* What decimation leaves of a section, and before it what the real filter *)
(* looks back at: every fourth sample.                                     *)
LEMMA DecimationIs ==
  ASSUME NEW s, ShapeTyped(s), NEW samples \in Seq(SampleType), Len(samples) = NumToProcess(s),
         NumTaps \in Nat \ {0}, NEW k \in 1 .. NumSections(s)
  PROVE  /\ Decimation(samples, s)[k] \in Seq(SampleType)
         /\ Len(Decimation(samples, s)[k]) =
              (NumTaps - 1) + (SectionWords(s, k) \div 4) * SAMPLES_IN_WORD
         /\ \A j \in 1 .. (NumTaps - 1) + (SectionWords(s, k) \div 4) * SAMPLES_IN_WORD :
              /\ SectionAt(s, k) + 4 * (j - NumTaps) < Len(samples)
              /\ Decimation(samples, s)[k][j] = SampleAt(samples, SectionAt(s, k) + 4 * (j - NumTaps))
<1>1. PICK T \in Nat \ {0} : T = NumTaps
  OBVIOUS
<1>2. PICK from, w : from = SectionAt(s, k) /\ w = SectionWords(s, k)
  OBVIOUS
<1>3. from \in Nat /\ w \in Nat /\ from + w * 4 <= Len(samples)
  BY <1>2, SectionFits DEF SAMPLES_IN_WORD
<1>4. PICK q \in Nat : q = w \div 4 /\ q <= w
  BY <1>3
<1> DEFINE before == [j \in 1 .. T - 1 |->
                        LET at == from - (T - j) * 4
                        IN  IF at < 0 THEN ZeroPair ELSE samples[at + 1]]
           after == [i \in 1 .. q * 4 |-> samples[from + 4 * (i - 1) + 1]]
<1>5. Decimation(samples, s)[k] = before \o after
  BY <1>1, <1>2, <1>4 DEF Decimation, Preceding, SAMPLES_IN_WORD
<1>6. ASSUME NEW j \in 1 .. T - 1 + q * 4
      PROVE  from + 4 * (j - T) \in Int /\ from + 4 * (j - T) < Len(samples)
  BY <1>3, <1>4
<1>7. ASSUME NEW j \in 1 .. T - 1
      PROVE  before[j] = SampleAt(samples, from + 4 * (j - T)) /\ before[j] \in SampleType
  <2>1. from - (T - j) * 4 = from + 4 * (j - T) /\ j \in 1 .. T - 1 + q * 4
    BY <1>3
  <2>2. before[j] = SampleAt(samples, from - (T - j) * 4)
    BY DEF SampleAt
  <2> HIDE DEF before
  <2> QED BY <1>6, <2>1, <2>2, SampleAtIs
<1>8. ASSUME NEW i \in 1 .. q * 4
      PROVE  after[i] = SampleAt(samples, from + 4 * ((T - 1 + i) - T)) /\ after[i] \in SampleType
  <2>1. /\ from + 4 * ((T - 1 + i) - T) = from + 4 * (i - 1) /\ T - 1 + i \in 1 .. T - 1 + q * 4
        /\ from + 4 * (i - 1) >= 0
    BY <1>3
  <2>2. after[i] = SampleAt(samples, from + 4 * (i - 1))
    <3>1. after[i] = samples[from + 4 * (i - 1) + 1]
      OBVIOUS
    <3> HIDE DEF after
    <3>2. PICK p \in Nat : p = from + 4 * (i - 1)
      BY <1>3, <2>1
    <3>3. SampleAt(samples, p) = samples[p + 1]
      BY DEF SampleAt
    <3> QED BY <3>1, <3>2, <3>3
  <2> HIDE DEF after
  <2> QED BY <1>6, <2>1, <2>2, SampleAtIs
<1>9. before \in Seq(SampleType) /\ Len(before) = T - 1 /\ after \in Seq(SampleType) /\ Len(after) = q * 4
  <2>1. before = [j \in 1 .. T - 1 |-> before[j]] /\ after = [i \in 1 .. q * 4 |-> after[i]]
    OBVIOUS
  <2> HIDE DEF before, after
  <2>2. before \in [1 .. T - 1 -> SampleType]
    BY <1>7, <2>1
  <2>3. after \in [1 .. q * 4 -> SampleType]
    BY <1>8, <2>1
  <2> QED BY <2>2, <2>3
<1> HIDE DEF before, after
<1>10. before \o after \in Seq(SampleType) /\ Len(before \o after) = T - 1 + q * 4
  <2>1. \A a, b \in Seq(SampleType) : a \o b \in Seq(SampleType) /\ Len(a \o b) = Len(a) + Len(b)
    OBVIOUS
  <2> QED BY <1>9, <2>1, SMTT(30)
<1>11. ASSUME NEW j \in 1 .. T - 1 + q * 4
       PROVE  (before \o after)[j] = SampleAt(samples, from + 4 * (j - T))
  <2>1. CASE j <= T - 1
    <3>1. j \in 1 .. T - 1
      BY <2>1
    <3>2. (before \o after)[j] = before[j]
      BY <1>9, <3>1
    <3> QED BY <1>7, <3>1, <3>2
  <2>2. CASE j > T - 1
    <3>1. PICK i \in 1 .. q * 4 : j = T - 1 + i
      <4>1. j - (T - 1) \in 1 .. q * 4 /\ j = T - 1 + (j - (T - 1))
        BY <2>2
      <4> QED BY <4>1
    <3>2. (before \o after)[Len(before) + i] = after[i]
      <4>1. before \in Seq(SampleType) /\ after \in Seq(SampleType) /\ i \in 1 .. Len(after)
        BY <1>9, Zenon
      <4>2. \A m \in 1 .. Len(after) : (before \o after)[Len(before) + m] = after[m]
        BY <4>1, SecondParts, Zenon
      <4> QED BY <4>1, <4>2, Zenon
    <3>3. (before \o after)[j] = after[i]
      BY <1>9, <3>1, <3>2
    <3>4. PICK p : p = from + 4 * (j - T)
      OBVIOUS
    <3>5. p = from + 4 * ((T - 1 + i) - T)
      BY <3>1, <3>4
    <3>6. after[i] = SampleAt(samples, p)
      BY <1>8, <3>5
    <3> QED BY <3>3, <3>4, <3>6
  <2>3. j <= T - 1 \/ j > T - 1
    OBVIOUS
  <2> QED BY <2>1, <2>2, <2>3, Zenon
<1> QED BY <1>1, <1>2, <1>4, <1>5, <1>6, <1>10, <1>11 DEF SAMPLES_IN_WORD

(* After the complex filter, at each position. *)
FirstOf(s, c, samples) ==
  IF "COMPLEX_FIR" \in s.filters THEN ComplexFir(samples, c.complex_fir) ELSE samples

LEMMA FirstIs ==
  ASSUME NEW s, NEW c, CoefsTyped(c), input \in Seq(SampleType)
  PROVE  /\ FirstOf(s, c, input) \in Seq(SampleType) /\ Len(FirstOf(s, c, input)) = Len(input)
         /\ \A at \in Int : at < Len(input) =>
              SampleAt(FirstOf(s, c, input), at) = AfterFir(c, s, at)
<1>1. \A at \in Int : Signal(at) = SampleAt(input, at)
  BY DEF Signal, SampleAt
<1>2. CASE "COMPLEX_FIR" \notin s.filters
  BY <1>1, <1>2 DEF FirstOf, AfterFir
<1>3. CASE "COMPLEX_FIR" \in s.filters
  <2>1. PICK n \in Nat \ {0} : n = NumCoefs.complex_fir
    BY TapsAre
  <2>2. PICK taps \in [1 .. n -> SampleType] : taps = c.complex_fir
    BY <2>1, TapsAre
  <2>3. PICK f : f = FirstOf(s, c, input)
    OBVIOUS
  <2>4. /\ f \in Seq(SampleType) /\ Len(f) = Len(input)
        /\ \A i \in 1 .. Len(input) : f[i] = FirAt(input, taps, i - 1)
    <3>1. f = ComplexFir(input, taps)
      BY <1>3, <2>2, <2>3 DEF FirstOf
    <3> QED BY <3>1, FirIs
  <2>5. ASSUME NEW at \in Int, at < Len(input)
        PROVE  SampleAt(f, at) = AfterFir(c, s, at)
    <3>1. CASE at < 0
      BY <3>1 DEF SampleAt, AfterFir, Signal
    <3>2. CASE at >= 0
      <4>1. at + 1 \in 1 .. Len(input) /\ (at + 1) - 1 = at
        BY <2>5, <3>2
      <4>2. f[at + 1] = FirAt(input, taps, at)
        BY <2>4, <4>1
      <4>3. SampleAt(f, at) = f[at + 1]
        BY <3>2 DEF SampleAt
      <4>4. \A m \in DOMAIN taps : SampleAt(input, at - m + 1) = Signal(at - m + 1)
        BY <1>1
      <4>5. [m \in DOMAIN taps |-> Mult(taps[m], SampleAt(input, at - m + 1))]
            = [m \in DOMAIN taps |-> Mult(taps[m], Signal(at - m + 1))]
        BY <4>4, Zenon
      <4>6. FirAt(input, taps, at)
            = Added([m \in DOMAIN taps |-> Mult(taps[m], Signal(at - m + 1))])
        BY <4>5, Zenon DEF FirAt
      <4>7. AfterFir(c, s, at) = Added([m \in DOMAIN taps |-> Mult(taps[m], Signal(at - m + 1))])
        <5>1. ~ (at < 0) /\ taps = c.complex_fir
          BY <2>2, <3>2
        <5> QED BY <1>3, <5>1, Zenon DEF AfterFir
      <4> QED BY <4>2, <4>3, <4>6, <4>7, Zenon
    <3> QED BY <3>1, <3>2
  <2> QED BY <2>3, <2>4, <2>5
<1> QED BY <1>2, <1>3

(* The real filter, where the list has what it looks back at. *)
LEMMA RealMeans ==
  ASSUME NEW s, NEW c, NEW row, NEW at \in Int, NEW p \in Int, NEW step \in Nat,
         NumTaps \in Nat \ {0},
         \A m \in 1 .. NumTaps : row[p - m + 1] = AfterFir(c, s, at - step * (m - 1))
  PROVE  RealAt(s, c, row, p) = AfterReal(c, s, at, step)
<1>1. CASE "REAL_FIR" \notin s.filters
  <2>1. 1 \in 1 .. NumTaps /\ p - 1 + 1 = p /\ at - step * (1 - 1) = at
    OBVIOUS
  <2>2. row[p - 1 + 1] = AfterFir(c, s, at - step * (1 - 1))
    BY <2>1
  <2>3. row[p] = AfterFir(c, s, at)
    BY <2>1, <2>2, Zenon
  <2> QED BY <1>1, <2>3 DEF RealAt, AfterReal
<1>2. CASE "REAL_FIR" \in s.filters
  <2> DEFINE before(m) == AfterFir(c, s, at - step * (m - 1))
  <2>1. [m \in 1 .. NumTaps |-> c.real_fir_i[m] * row[p - m + 1][1]]
        = [m \in 1 .. NumTaps |-> c.real_fir_i[m] * before(m)[1]]
    BY Zenon
  <2>2. [m \in 1 .. NumTaps |-> c.real_fir_q[m] * row[p - m + 1][2]]
        = [m \in 1 .. NumTaps |-> c.real_fir_q[m] * before(m)[2]]
    BY Zenon
  <2>3. AfterReal(c, s, at, step)
        = <<SumAll([m \in 1 .. NumTaps |-> c.real_fir_i[m] * before(m)[1]]),
            SumAll([m \in 1 .. NumTaps |-> c.real_fir_q[m] * before(m)[2]])>>
    BY <1>2, Zenon DEF AfterReal
  <2>4. RealAt(s, c, row, p)
        = <<SumAll([m \in 1 .. NumTaps |-> c.real_fir_i[m] * row[p - m + 1][1]]),
            SumAll([m \in 1 .. NumTaps |-> c.real_fir_q[m] * row[p - m + 1][2]])>>
    BY <1>2, Zenon DEF RealAt
  <2> HIDE DEF before
  <2> QED BY <2>1, <2>2, <2>3, <2>4, Zenon
<1> QED BY <1>1, <1>2

(* The sections, with and without decimation. *)
CutOf(s, c, first) ==
  IF "DECIMATION" \in s.filters
  THEN [k \in 1 .. NumSections(s) |-> Reals(s, c, Decimation(first, s)[k])]
  ELSE RemoveBlanks(Reals(s, c, [j \in 1 .. NumTaps - 1 |-> ZeroPair] \o first), s)

StepOf(s) == IF "DECIMATION" \in s.filters THEN 4 ELSE 1

SectionIs(s, c, k, section) ==
  /\ section \in Seq(SampleType)
  /\ Len(section) = (SectionWords(s, k) \div StepOf(s)) * SAMPLES_IN_WORD
  /\ \A n \in 1 .. Len(section) :
       section[n] = AfterReal(c, s, SectionAt(s, k) + (n - 1) * StepOf(s), StepOf(s))

LEMMA DecimatedIs ==
  ASSUME NEW s, ShapeTyped(s), NEW c, CoefsTyped(c), input \in Seq(SampleType),
         Len(input) = NumToProcess(s), NEW k \in 1 .. NumSections(s),
         "DECIMATION" \in s.filters
  PROVE  SectionIs(s, c, k, CutOf(s, c, FirstOf(s, c, input))[k])
<1>1. PICK T \in Nat \ {0} : T = NumTaps
  BY TapsAre
<1>2. PICK first : first = FirstOf(s, c, input)
  OBVIOUS
<1>3. /\ first \in Seq(SampleType) /\ Len(first) = Len(input)
      /\ \A at \in Int : at < Len(input) => SampleAt(first, at) = AfterFir(c, s, at)
  BY <1>2, FirstIs
<1>4. PICK d : d = Decimation(first, s)[k]
  OBVIOUS
<1>5. PICK from \in Nat : from = SectionAt(s, k)
  BY SectionFits
<1>6. PICK len \in Nat : len = (SectionWords(s, k) \div 4) * SAMPLES_IN_WORD
  <2>1. SectionWords(s, k) \in Nat
    BY SectionFits
  <2> QED BY <2>1 DEF SAMPLES_IN_WORD
<1>7. /\ d \in Seq(SampleType) /\ Len(d) = (T - 1) + len
      /\ \A j \in 1 .. (T - 1) + len :
           from + 4 * (j - T) < Len(input) /\ d[j] = SampleAt(first, from + 4 * (j - T))
  <2>1. Len(first) = NumToProcess(s)
    BY <1>3
  <2> QED BY <1>1, <1>3, <1>4, <1>5, <1>6, <2>1, DecimationIs
<1>8. CutOf(s, c, first)[k] = Reals(s, c, d)
  BY <1>4 DEF CutOf
<1>9. /\ Reals(s, c, d) \in Seq(SampleType) /\ Len(Reals(s, c, d)) = len
      /\ \A n \in 1 .. len : Reals(s, c, d)[n] = RealAt(s, c, d, n + (T - 1))
  <2>1. Len(d) >= NumTaps - 1 /\ Len(d) - (NumTaps - 1) = len
    BY <1>1, <1>7
  <2>2. /\ Reals(s, c, d) \in Seq(SampleType)
        /\ Len(Reals(s, c, d)) = Len(d) - (NumTaps - 1)
        /\ \A i \in 1 .. Len(d) - (NumTaps - 1) :
             Reals(s, c, d)[i] = RealAt(s, c, d, i + (NumTaps - 1))
    BY <1>7, <2>1, RealsAre
  <2> QED BY <1>1, <2>1, <2>2
<1>10. ASSUME NEW n \in 1 .. len
       PROVE  RealAt(s, c, d, n + (T - 1)) = AfterReal(c, s, from + (n - 1) * 4, 4)
  <2>0. PICK b, e : b = from + (n - 1) * 4 /\ e = n + (T - 1)
    OBVIOUS
  <2>1. ASSUME NEW m \in 1 .. T
        PROVE  d[(n + (T - 1)) - m + 1] = AfterFir(c, s, (from + (n - 1) * 4) - 4 * (m - 1))
    <3>1. PICK j \in 1 .. (T - 1) + len : j = (n + (T - 1)) - m + 1
      OBVIOUS
    <3>2. PICK at \in Int : at = from + 4 * (j - T)
      OBVIOUS
    <3>3. at = (from + (n - 1) * 4) - 4 * (m - 1)
      <4>1. PICK u \in Int, v \in Int : u = n /\ v = m
        OBVIOUS
      <4>2. j - T = u - v
        BY <3>1, <4>1
      <4>3. at = from + 4 * (u - v)
        BY <3>2, <4>2, Zenon
      <4>4. from + 4 * (u - v) = (from + (u - 1) * 4) - 4 * (v - 1)
        OBVIOUS
      <4> QED BY <4>1, <4>3, <4>4, Zenon
    <3>4. at < Len(input) /\ d[j] = SampleAt(first, at)
      BY <1>7, <3>2
    <3>5. d[j] = AfterFir(c, s, at)
      BY <1>3, <3>4
    <3> QED BY <3>1, <3>3, <3>5
  <2>2. \A m \in 1 .. T : d[e - m + 1] = AfterFir(c, s, b - 4 * (m - 1))
    BY <2>0, <2>1
  <2>4. b \in Int /\ e \in Int
    <3>1. n \in Int /\ n - 1 \in Int /\ T - 1 \in Int /\ from \in Int
      OBVIOUS
    <3> QED BY <2>0, <3>1, SMTT(30)
  <2>3. RealAt(s, c, d, e) = AfterReal(c, s, b, 4)
    BY <1>1, <2>2, <2>4, RealMeans
  <2> QED BY <2>0, <2>3
<1>11. StepOf(s) = 4
  BY DEF StepOf
<1> QED BY <1>2, <1>5, <1>6, <1>8, <1>9, <1>10, <1>11 DEF SectionIs

LEMMA WholeIs ==
  ASSUME NEW s, ShapeTyped(s), NEW c, CoefsTyped(c), input \in Seq(SampleType),
         Len(input) = NumToProcess(s), NEW k \in 1 .. NumSections(s),
         "DECIMATION" \notin s.filters
  PROVE  SectionIs(s, c, k, CutOf(s, c, FirstOf(s, c, input))[k])
<1>1. PICK T \in Nat \ {0} : T = NumTaps
  BY TapsAre
<1>2. PICK first : first = FirstOf(s, c, input)
  OBVIOUS
<1>3. /\ first \in Seq(SampleType) /\ Len(first) = Len(input)
      /\ \A at \in Int : at < Len(input) => SampleAt(first, at) = AfterFir(c, s, at)
  BY <1>2, FirstIs
<1>4. PICK from \in Nat : from = SectionAt(s, k)
  BY SectionFits
<1>5. PICK w \in Nat : w = SectionWords(s, k)
  BY SectionFits
<1>6. from + w * 4 <= Len(input)
  BY <1>4, <1>5, SectionFits DEF SAMPLES_IN_WORD
<1> DEFINE zeros == [j \in 1 .. T - 1 |-> ZeroPair]
           row == zeros \o first
<1>7. zeros \in Seq(SampleType) /\ Len(zeros) = T - 1
  BY DEF ZeroPair, SampleType
<1>8. row \in Seq(SampleType) /\ Len(row) = (T - 1) + Len(input)
  <2> HIDE DEF zeros
  <2> QED BY <1>3, <1>7, SMTT(30)
<1>9. ASSUME NEW x \in 1 .. (T - 1) + Len(input) PROVE row[x] = SampleAt(first, x - T)
  <2>1. CASE x <= T - 1
    <3>1. x \in 1 .. Len(zeros) /\ x - T \in Int /\ x - T < 0
      BY <1>7, <2>1
    <3>2. row[x] = zeros[x]
      <4> HIDE DEF zeros
      <4> QED BY <1>3, <1>7, <3>1
    <3>3. zeros[x] = ZeroPair
      BY <1>7, <3>1
    <3> QED BY <3>1, <3>2, <3>3 DEF SampleAt
  <2>2. CASE x > T - 1
    <3>1. PICK y \in 1 .. Len(first) : x = Len(zeros) + y
      <4>1. x - (T - 1) \in 1 .. Len(first) /\ x = Len(zeros) + (x - (T - 1))
        BY <1>3, <1>7, <2>2
      <4> QED BY <4>1
    <3>2. row[Len(zeros) + y] = first[y]
      <4> HIDE DEF zeros
      <4>1. zeros \in Seq(SampleType) /\ first \in Seq(SampleType)
        BY <1>3, <1>7
      <4>2. \A m \in 1 .. Len(first) : (zeros \o first)[Len(zeros) + m] = first[m]
        BY <4>1, SecondParts
      <4> QED BY <4>2
    <3>3. x - T = y - 1 /\ y - 1 >= 0 /\ (y - 1) + 1 = y
      BY <1>7, <3>1
    <3>4. SampleAt(first, y - 1) = first[y]
      BY <3>3 DEF SampleAt
    <3> QED BY <3>1, <3>2, <3>3, <3>4
  <2>3. x <= T - 1 \/ x > T - 1
    OBVIOUS
  <2> QED BY <2>1, <2>2, <2>3, Zenon
<1>10. PICK r : r = Reals(s, c, row)
  OBVIOUS
<1>11. CutOf(s, c, first)[k] = SubSeq(r, from + 1, from + w * 4)
  BY <1>1, <1>4, <1>5, <1>10 DEF CutOf, RemoveBlanks, SAMPLES_IN_WORD
<1> HIDE DEF row
<1>12. /\ r \in Seq(SampleType) /\ Len(r) = Len(input)
       /\ \A i \in 1 .. Len(input) : r[i] = RealAt(s, c, row, i + (T - 1))
  <2>1. Len(row) >= NumTaps - 1 /\ Len(row) - (NumTaps - 1) = Len(input)
    BY <1>1, <1>8
  <2>2. /\ Reals(s, c, row) \in Seq(SampleType)
        /\ Len(Reals(s, c, row)) = Len(row) - (NumTaps - 1)
        /\ \A i \in 1 .. Len(row) - (NumTaps - 1) :
             Reals(s, c, row)[i] = RealAt(s, c, row, i + (NumTaps - 1))
    BY <1>8, <2>1, RealsAre
  <2> QED BY <1>1, <1>10, <2>1, <2>2
<1>13. ASSUME NEW i \in 1 .. Len(input)
       PROVE  r[i] = AfterReal(c, s, i - 1, 1)
  <2>1. ASSUME NEW m \in 1 .. T
        PROVE  row[(i + (T - 1)) - m + 1] = AfterFir(c, s, (i - 1) - 1 * (m - 1))
    <3>1. PICK x \in 1 .. (T - 1) + Len(input) : x = (i + (T - 1)) - m + 1
      OBVIOUS
    <3>2. PICK at \in Int : at = x - T
      OBVIOUS
    <3>3. at = (i - 1) - 1 * (m - 1) /\ at < Len(input)
      BY <3>1, <3>2
    <3>4. row[x] = AfterFir(c, s, at)
      BY <1>3, <1>9, <3>2, <3>3
    <3> QED BY <3>1, <3>3, <3>4
  <2>2. i - 1 \in Int /\ i + (T - 1) \in Int /\ 1 \in Nat
    OBVIOUS
  <2>3. RealAt(s, c, row, i + (T - 1)) = AfterReal(c, s, i - 1, 1)
    BY <1>1, <2>1, <2>2, RealMeans
  <2> QED BY <1>12, <2>3
<1>14. PICK cut : cut = SubSeq(r, from + 1, from + w * 4)
  OBVIOUS
<1>15. /\ cut \in Seq(SampleType) /\ Len(cut) = w * 4
       /\ \A n \in 1 .. w * 4 : cut[n] = r[from + n]
  <2>1. SubSeq(r, from + 1, from + w * 4) =
          [i \in 1 .. (from + w * 4) - (from + 1) + 1 |-> r[i + (from + 1) - 1]]
    <3>1. PICK a \in Int, z \in Int : a = from + 1 /\ z = from + w * 4
      OBVIOUS
    <3>2. SubSeq(r, a, z) = [i \in 1 .. z - a + 1 |-> r[i + a - 1]]
      BY SMTT(30) DEF SubSeq
    <3> QED BY <3>1, <3>2, Zenon
  <2>2. (from + w * 4) - (from + 1) + 1 = w * 4 /\ w * 4 \in Nat
    OBVIOUS
  <2>3. \A n \in 1 .. w * 4 : n + (from + 1) - 1 = from + n /\ from + n \in 1 .. Len(input)
    BY <1>6
  <2>4. \A n \in 1 .. w * 4 : r[from + n] \in SampleType
    BY <1>12, <2>3
  <2>5. cut = [n \in 1 .. w * 4 |-> r[from + n]]
    BY <1>14, <2>1, <2>2, <2>3
  <2>6. PICK l \in Nat : l = w * 4
    OBVIOUS
  <2>7. cut = [n \in 1 .. l |-> r[from + n]] /\ \A n \in 1 .. l : r[from + n] \in SampleType
    BY <2>4, <2>5, <2>6
  <2>8. cut \in [1 .. l -> SampleType]
    BY <2>7
  <2>9. cut \in Seq(SampleType) /\ Len(cut) = l /\ \A n \in 1 .. l : cut[n] = r[from + n]
    BY <2>7, <2>8
  <2> QED BY <2>6, <2>9
<1>16. ASSUME NEW n \in 1 .. w * 4
       PROVE  cut[n] = AfterReal(c, s, from + (n - 1) * 1, 1)
  <2>1. PICK i \in 1 .. Len(input) : i = from + n
    BY <1>6
  <2>2. i - 1 = from + (n - 1) * 1
    BY <2>1
  <2>3. cut[n] = r[i]
    BY <1>15, <2>1
  <2>4. r[i] = AfterReal(c, s, i - 1, 1)
    BY <1>13
  <2> QED BY <2>2, <2>3, <2>4
<1>17. StepOf(s) = 1 /\ w \div 1 = w
  BY DEF StepOf
<1> QED BY <1>2, <1>4, <1>5, <1>11, <1>14, <1>15, <1>16, <1>17 DEF SectionIs, SAMPLES_IN_WORD

(* What comes out of the unit: sections of convolutions. *)
FiltersFit(s, c) ==
  \A k \in 1 .. NumSections(s) :
    /\ Len(Filtered(s, c, input)[k]) = (SectionWords(s, k) \div StepOf(s)) * SAMPLES_IN_WORD
    /\ \A n \in DOMAIN Filtered(s, c, input)[k] :
         Filtered(s, c, input)[k][n] =
           LET y == AfterReal(c, s, SectionAt(s, k) + (n - 1) * StepOf(s), StepOf(s))
           IN  IF "COMPLEX_WINDOW" \in s.filters
               THEN Mult(y, c.complex_window[((n - 1) % NumCoefs.complex_window) + 1]) ELSE y

LEMMA FilteredIs ==
  ASSUME NEW s, ShapeTyped(s), NEW c, CoefsTyped(c), input \in Seq(SampleType),
         Len(input) = NumToProcess(s)
  PROVE  FiltersFit(s, c)
<1>1. PICK cut : cut = CutOf(s, c, FirstOf(s, c, input))
  OBVIOUS
<1>2. \A k \in 1 .. NumSections(s) : SectionIs(s, c, k, cut[k])
  BY <1>1, DecimatedIs, WholeIs
<1>3. DOMAIN cut = 1 .. NumSections(s)
  BY <1>1 DEF CutOf, RemoveBlanks
<1>4. Filtered(s, c, input) =
        IF "COMPLEX_WINDOW" \in s.filters
        THEN [k \in DOMAIN cut |-> Window(cut[k], c.complex_window)] ELSE cut
  BY <1>1, Zenon DEF Filtered, CutOf, FirstOf, Reals
<1>5. Len(c.complex_window) = NumCoefs.complex_window
  BY TapsAre
<1>6. ASSUME NEW k \in 1 .. NumSections(s)
      PROVE  /\ Len(Filtered(s, c, input)[k]) = (SectionWords(s, k) \div StepOf(s)) * SAMPLES_IN_WORD
             /\ \A n \in DOMAIN Filtered(s, c, input)[k] :
                  Filtered(s, c, input)[k][n] =
                    LET y == AfterReal(c, s, SectionAt(s, k) + (n - 1) * StepOf(s), StepOf(s))
                    IN  IF "COMPLEX_WINDOW" \in s.filters
                        THEN Mult(y, c.complex_window[((n - 1) % NumCoefs.complex_window) + 1]) ELSE y
  <2>1. PICK x : x = cut[k]
    OBVIOUS
  <2>2. SectionIs(s, c, k, x)
    BY <1>2, <2>1
  <2>3. PICK len \in Nat : len = Len(x) /\ DOMAIN x = 1 .. len
    BY <2>2 DEF SectionIs
  <2>4. CASE "COMPLEX_WINDOW" \notin s.filters
    <3>1. Filtered(s, c, input)[k] = x
      BY <1>4, <2>1, <2>4
    <3> QED BY <2>2, <2>3, <2>4, <3>1 DEF SectionIs
  <2>5. CASE "COMPLEX_WINDOW" \in s.filters
    <3>1. Filtered(s, c, input)[k] = Window(x, c.complex_window)
      BY <1>3, <1>4, <2>1, <2>5
    <3>2. Window(x, c.complex_window) =
            [n \in 1 .. len |->
               Mult(x[n], c.complex_window[((n - 1) % NumCoefs.complex_window) + 1])]
      BY <1>5, <2>3 DEF Window
    <3>3. Len(Window(x, c.complex_window)) = len /\ DOMAIN Window(x, c.complex_window) = 1 .. len
      BY <3>2
    <3>4. \A n \in 1 .. len :
            x[n] = AfterReal(c, s, SectionAt(s, k) + (n - 1) * StepOf(s), StepOf(s))
      BY <2>2, <2>3 DEF SectionIs
    <3>5. \A n \in 1 .. len : Window(x, c.complex_window)[n] =
            Mult(x[n], c.complex_window[((n - 1) % NumCoefs.complex_window) + 1])
      BY <3>2
    <3>6. len = (SectionWords(s, k) \div StepOf(s)) * SAMPLES_IN_WORD
      BY <2>2, <2>3 DEF SectionIs
    <3> QED BY <2>5, <3>1, <3>3, <3>4, <3>5, <3>6
  <2> QED BY <2>4, <2>5
<1> QED BY <1>6 DEF FiltersFit

(* A coefficient in its range is read as it was written, negative ones too. *)
LEMMA SignRead ==
  ASSUME NEW n \in Int, -REG_LIMIT <= n, n <= REG_LIMIT - 1
  PROVE  ToSigned(ToRegister(n)) = n
<1>1. PICK r \in Nat \ {0}, m \in Nat \ {0} : r = REG_LIMIT /\ m = 2 * REG_LIMIT /\ m = 2 * r
  <2>1. REG_LIMIT \in Nat \ {0} /\ 2 * REG_LIMIT \in Nat \ {0}
    BY FilterConstants
  <2> QED BY <2>1
<1>2. CASE n >= 0
  <2>1. n \in Nat /\ n < m /\ n = m * 0 + n /\ 0 \in Nat
    BY <1>1, <1>2
  <2>2. n % m = n
    BY <2>1, Remainder
  <2>3. n + r \in Nat /\ n + r < m /\ n + r = m * 0 + (n + r)
    BY <1>1, <1>2
  <2>4. (n + r) % m = n + r
    BY <2>1, <2>3, Remainder
  <2>5. (n + r) - r = n
    OBVIOUS
  <2> QED BY <1>1, <2>2, <2>4, <2>5 DEF ToSigned, ToRegister
<1>3. CASE n < 0
  <2>1. n % m = n + m
    <3>1. PICK q \in Int, x \in Int : q = n \div m /\ x = n % m /\ n = m * q + x /\ 0 <= x /\ x < m
      <4>1. n \div m \in Int /\ n % m \in Int /\ n = m * (n \div m) + (n % m) /\ 0 <= n % m /\ n % m < m
        OBVIOUS
      <4> QED BY <4>1
    <3>2. ~ (q >= 0)
      <4>1. q >= 0 => m * q >= 0
        OBVIOUS
      <4> QED BY <1>3, <3>1, <4>1
    <3>3. ~ (q <= -2)
      <4>1. SUFFICES ASSUME q <= -2 PROVE FALSE
        OBVIOUS
      <4>2. PICK p \in Nat : p = (-q) - 2 /\ q = (-2) - p
        BY <4>1
      <4>3. m * q = m * (-2) - m * p /\ m * p >= 0 /\ m * p \in Nat
        BY <4>2
      <4>4. m * q <= m * (-2)
        BY <4>3
      <4> QED BY <1>1, <3>1, <4>4
    <3>4. q = -1
      BY <3>2, <3>3
    <3>5. m * (-1) = -m
      OBVIOUS
    <3> QED BY <3>1, <3>4, <3>5
  <2>2. (n + m) + r = m * 1 + (n + r) /\ n + r \in Nat /\ n + r < m /\ (n + m) + r \in Nat
    BY <1>1, <1>3
  <2>3. ((n + m) + r) % m = n + r
    <3>1. PICK a \in Nat, b \in Nat : a = (n + m) + r /\ b = n + r
      BY <2>2
    <3>2. a = m * 1 + b /\ b < m /\ 1 \in Nat
      BY <2>2, <3>1
    <3>3. a % m = b
      BY <3>2, Remainder
    <3> QED BY <3>1, <3>3
  <2>4. (n + r) - r = n
    OBVIOUS
  <2> QED BY <1>1, <2>1, <2>3, <2>4 DEF ToSigned, ToRegister
<1> QED BY <1>2, <1>3

(* What a setter has taken is in its range. *)
CoefsTaken(c) ==
  /\ CoefsTyped(c)
  /\ \A k \in CoefKind : \A i \in 1 .. NumCoefs[k] :
       \A n \in Parts(k, c[k][i]) : InCoefRange(k, n)

LEMMA CoefsRead ==
  ASSUME NEW c, CoefsTaken(c)
  PROVE  ReadCoefs(WrittenCoefs(c)) = c
<1>1. ASSUME NEW k \in CoefKind, NEW i \in 1 .. NumCoefs[k], NEW n \in Parts(k, c[k][i])
      PROVE  ToSigned(ToRegister(n)) = n
  <2>1. InCoefRange(k, n)
    BY DEF CoefsTaken
  <2>2. PICK limit \in Nat : n \in -limit .. limit - 1 /\ limit <= REG_LIMIT
    <3>1. FIR_LIMIT \in Nat /\ REG_LIMIT \in Nat /\ FIR_LIMIT <= REG_LIMIT
      BY FilterConstants
    <3> QED BY <2>1, <3>1 DEF InCoefRange
  <2>3. n \in Int /\ -REG_LIMIT <= n /\ n <= REG_LIMIT - 1
    <3>1. REG_LIMIT \in Nat
      BY FilterConstants
    <3> QED BY <2>2, <3>1
  <2> QED BY <2>3, SignRead
<1>2. ASSUME NEW k \in CoefKind
      PROVE  Each(k, ToSigned, Each(k, ToRegister, c[k])) = c[k]
  <2>1. PICK l : l = NumCoefs[k]
    OBVIOUS
  <2>2. c[k] \in [1 .. l -> CoefIn(k)]
    BY <2>1 DEF CoefsTaken, CoefsTyped
  <2>3. CASE k \in Complex
    <3>1. Each(k, ToRegister, c[k])
          = [i \in 1 .. l |-> <<ToRegister(c[k][i][1]), ToRegister(c[k][i][2])>>]
      BY <2>2, <2>3 DEF Each
    <3>2. Each(k, ToSigned, Each(k, ToRegister, c[k]))
          = [i \in 1 .. l |-> <<ToSigned(ToRegister(c[k][i][1])), ToSigned(ToRegister(c[k][i][2]))>>]
      BY <2>3, <3>1 DEF Each
    <3>3. ASSUME NEW i \in 1 .. l
          PROVE  <<ToSigned(ToRegister(c[k][i][1])), ToSigned(ToRegister(c[k][i][2]))>> = c[k][i]
      <4>1. c[k][i][1] \in Parts(k, c[k][i]) /\ c[k][i][2] \in Parts(k, c[k][i])
        BY <2>3 DEF Parts
      <4>2. /\ ToSigned(ToRegister(c[k][i][1])) = c[k][i][1]
            /\ ToSigned(ToRegister(c[k][i][2])) = c[k][i][2]
        BY <1>1, <2>1, <4>1
      <4>3. c[k][i] \in Int \X Int
        BY <2>2, <2>3 DEF CoefIn
      <4>4. c[k][i] = <<c[k][i][1], c[k][i][2]>>
        BY <4>3
      <4> QED BY <4>2, <4>4, Zenon
    <3>4. c[k] = [i \in 1 .. l |-> c[k][i]]
      BY <2>2
    <3> QED BY <3>2, <3>3, <3>4, Zenon
  <2>4. CASE k \notin Complex
    <3>1. Each(k, ToRegister, c[k]) = [i \in 1 .. l |-> ToRegister(c[k][i])]
      BY <2>2, <2>4 DEF Each
    <3>2. Each(k, ToSigned, Each(k, ToRegister, c[k])) = [i \in 1 .. l |-> ToSigned(ToRegister(c[k][i]))]
      BY <2>4, <3>1 DEF Each
    <3>3. ASSUME NEW i \in 1 .. l PROVE ToSigned(ToRegister(c[k][i])) = c[k][i]
      <4>1. c[k][i] \in Parts(k, c[k][i])
        BY <2>4 DEF Parts
      <4> QED BY <1>1, <2>1, <4>1
    <3>4. c[k] = [i \in 1 .. l |-> c[k][i]]
      BY <2>2
    <3> QED BY <3>2, <3>3, <3>4, Zenon
  <2> QED BY <2>3, <2>4
<1>3. WrittenCoefs(c) = [k \in CoefKind |-> Each(k, ToRegister, c[k])]
  BY DEF WrittenCoefs
<1>4. ReadCoefs(WrittenCoefs(c)) = [k \in CoefKind |-> Each(k, ToSigned, WrittenCoefs(c)[k])]
  BY DEF ReadCoefs
<1>5. \A k \in CoefKind : Each(k, ToSigned, WrittenCoefs(c)[k]) = c[k]
  BY <1>2, <1>3
<1>6. c = [k \in CoefKind |-> c[k]]
  BY DEF CoefsTaken, CoefsTyped
<1> QED BY <1>4, <1>5, <1>6, Zenon

(* The object has coefficients in range; what is written is what it had    *)
(* then, and is read back as that; the samples stored are made with it.    *)
FilterInv ==
  /\ ShapeTyped(shape) /\ CoefsTaken(coefs)
  /\ written # NotWritten =>
       written = [coefs |-> coefs, shape |-> shape] /\ ReadCoefs(coefRegs) = coefs
  /\ input # <<>> =>
       /\ written # NotWritten
       /\ input \in Seq(SampleType) /\ Len(input) = NumToProcess(shape)
       /\ filtered = Filtered(shape, coefs, input)

LEMMA ZerosAreTaken ==
  ASSUME NEW k \in CoefKind
  PROVE  /\ ZeroOf(k) \in CoefIn(k)
         /\ \A n \in Parts(k, ZeroOf(k)) : InCoefRange(k, n)
<1>1. \A n \in Parts(k, ZeroOf(k)) : n = 0
  BY DEF Parts, ZeroOf, ZeroPair
<1>2. InCoefRange(k, 0)
  <2>1. FIR_LIMIT \in Nat \ {0} /\ REG_LIMIT \in Nat \ {0}
    BY FilterConstants
  <2> QED BY <2>1 DEF InCoefRange
<1>3. ZeroOf(k) \in CoefIn(k)
  BY DEF ZeroOf, ZeroPair, CoefIn
<1> QED BY <1>1, <1>2, <1>3

LEMMA PaddedIs ==
  ASSUME NEW k \in CoefKind, NEW row \in Seq(CoefIn(k)),
         \A i \in 1 .. Len(row) : \A n \in Parts(k, row[i]) : InCoefRange(k, n)
  PROVE  /\ Padded(k, row) \in [1 .. NumCoefs[k] -> CoefIn(k)]
         /\ \A i \in 1 .. NumCoefs[k] :
              \A n \in Parts(k, Padded(k, row)[i]) : InCoefRange(k, n)
<1>1. \A i \in 1 .. NumCoefs[k] :
        Padded(k, row)[i] = IF i <= Len(row) THEN row[i] ELSE ZeroOf(k)
  BY DEF Padded
<1>2. NumCoefs[k] \in Nat
  BY FilterConstants
<1>3. ASSUME NEW i \in 1 .. NumCoefs[k]
      PROVE  /\ Padded(k, row)[i] \in CoefIn(k)
             /\ \A n \in Parts(k, Padded(k, row)[i]) : InCoefRange(k, n)
  <2>1. CASE i <= Len(row)
    <3>1. i \in 1 .. Len(row)
      BY <1>2, <2>1
    <3>2. Padded(k, row)[i] = row[i] /\ row[i] \in CoefIn(k)
      BY <1>1, <2>1, <3>1
    <3> QED BY <3>1, <3>2
  <2>2. CASE ~ (i <= Len(row))
    <3>1. Padded(k, row)[i] = ZeroOf(k)
      BY <1>1, <2>2
    <3> QED BY <3>1, ZerosAreTaken
  <2> QED BY <2>1, <2>2
<1>4. Padded(k, row) = [i \in 1 .. NumCoefs[k] |-> Padded(k, row)[i]]
  BY DEF Padded
<1> QED BY <1>3, <1>4

LEMMA FilterStarts == FilterInit => FilterInv
<1> SUFFICES ASSUME FilterInit PROVE FilterInv
  OBVIOUS
<1>1. CoefsTaken(coefs)
  <2>1. coefs = [k \in CoefKind |-> Padded(k, <<>>)]
    BY DEF FilterInit, NoCoefs
  <2>2. ASSUME NEW k \in CoefKind
        PROVE  /\ Padded(k, <<>>) \in [1 .. NumCoefs[k] -> CoefIn(k)]
               /\ \A i \in 1 .. NumCoefs[k] :
                    \A n \in Parts(k, Padded(k, <<>>)[i]) : InCoefRange(k, n)
    <3>1. PICK row : row = <<>>
      OBVIOUS
    <3>2. row \in Seq(CoefIn(k)) /\ Len(row) = 0 /\ 1 .. 0 = {}
      BY <3>1
    <3> QED BY <3>1, <3>2, PaddedIs
  <2>3. coefs = [k \in CoefKind |-> coefs[k]] /\ \A k \in CoefKind : coefs[k] = Padded(k, <<>>)
    BY <2>1
  <2> QED BY <2>2, <2>3 DEF CoefsTaken, CoefsTyped
<1>2. ShapeTyped(shape)
  BY FilterConstants DEF FilterInit, ShapeTyped
<1>3. written = NotWritten /\ input = <<>>
  BY DEF FilterInit
<1> QED BY <1>1, <1>2, <1>3 DEF FilterInv

LEMMA SetCoefsKeeps ==
  ASSUME FilterInv, NEW kind \in CoefKind, NEW row \in CoefLists[kind], SetCoefs(kind, row)
  PROVE  FilterInv'
<1>1. /\ written = NotWritten /\ written' = written /\ shape' = shape /\ input' = input
      /\ coefs' = [coefs EXCEPT ![kind] = Padded(kind, row)]
  BY DEF SetCoefs
<1>2. row \in Seq(CoefIn(kind))
  BY FilterConstants
<1>3. /\ Padded(kind, row) \in [1 .. NumCoefs[kind] -> CoefIn(kind)]
      /\ \A i \in 1 .. NumCoefs[kind] :
           \A n \in Parts(kind, Padded(kind, row)[i]) : InCoefRange(kind, n)
  <2>1. \A i \in 1 .. Len(row) : \A n \in Parts(kind, row[i]) : InCoefRange(kind, n)
    BY <1>2 DEF SetCoefs, CoefsOk
  <2> QED BY <1>2, <2>1, PaddedIs
<1>4. CoefsTaken(coefs)
  BY DEF FilterInv
<1>5. /\ coefs' = [k \in CoefKind |-> coefs'[k]] /\ coefs'[kind] = Padded(kind, row)
      /\ \A k \in CoefKind : k # kind => coefs'[k] = coefs[k]
  <2>1. coefs = [k \in CoefKind |-> coefs[k]]
    BY <1>4 DEF CoefsTaken, CoefsTyped
  <2>2. DOMAIN coefs = CoefKind
    BY <2>1
  <2> QED BY <1>1, <2>2
<1>6. CoefsTaken(coefs')
  <2>1. ASSUME NEW k \in CoefKind
        PROVE  /\ coefs'[k] \in [1 .. NumCoefs[k] -> CoefIn(k)]
               /\ \A i \in 1 .. NumCoefs[k] :
                    \A n \in Parts(k, coefs'[k][i]) : InCoefRange(k, n)
    <3>1. CASE k = kind
      BY <1>3, <1>5, <3>1
    <3>2. CASE k # kind
      BY <1>4, <1>5, <3>2 DEF CoefsTaken, CoefsTyped
    <3> QED BY <3>1, <3>2
  <2> QED BY <1>5, <2>1 DEF CoefsTaken, CoefsTyped
<1>7. ShapeTyped(shape') /\ written' = NotWritten /\ input' = <<>>
  BY <1>1 DEF FilterInv
<1>8. CoefsTaken(coefs)' /\ ShapeTyped(shape)'
  BY <1>6, <1>7 DEF CoefsTaken, CoefsTyped, ShapeTyped
<1> QED BY <1>7, <1>8 DEF FilterInv

LEMMA WriteCoefsKeeps ==
  ASSUME FilterInv, WriteCoefs
  PROVE  FilterInv'
<1>1. /\ written = NotWritten /\ input' = input /\ coefs' = coefs /\ shape' = shape
      /\ coefRegs' = WrittenCoefs(coefs) /\ written' = [coefs |-> coefs, shape |-> shape]
  BY DEF WriteCoefs
<1>2. CoefsTaken(coefs) /\ ShapeTyped(shape) /\ input = <<>>
  BY <1>1 DEF FilterInv
<1>3. ReadCoefs(coefRegs') = coefs
  BY <1>1, <1>2, CoefsRead
<1>4. CoefsTaken(coefs)' /\ ShapeTyped(shape)' /\ (ReadCoefs(coefRegs) = coefs)'
  BY <1>1, <1>2, <1>3 DEF CoefsTaken, CoefsTyped, ShapeTyped, ReadCoefs
<1> QED BY <1>1, <1>2, <1>4 DEF FilterInv

LEMMA CaptureSamplesKeeps ==
  ASSUME FilterInv, NEW samples \in Inputs, CaptureSamples(samples)
  PROVE  FilterInv'
<1>1. /\ written # NotWritten /\ written' = written /\ coefs' = coefs /\ shape' = shape
      /\ coefRegs' = coefRegs /\ input' = Filled(shape, samples)
      /\ filtered' = Filtered(shape, ReadCoefs(coefRegs), input')
  BY DEF CaptureSamples
<1>2. /\ CoefsTaken(coefs) /\ ShapeTyped(shape) /\ ReadCoefs(coefRegs) = coefs
      /\ written = [coefs |-> coefs, shape |-> shape]
  BY <1>1 DEF FilterInv
<1>3. PICK n \in Nat : n = NumToProcess(shape)
  BY <1>2, SectionFits
<1>4. input' \in Seq(SampleType) /\ Len(input') = n
  <2>1. samples \in Seq(SampleType)
    BY FilterConstants DEF SampleType
  <2>2. input' = [i \in 1 .. n |-> IF i <= Len(samples) THEN samples[i] ELSE ZeroPair]
    BY <1>1, <1>3 DEF Filled
  <2>3. \A i \in 1 .. n : (IF i <= Len(samples) THEN samples[i] ELSE ZeroPair) \in SampleType
    <3>1. ZeroPair \in SampleType
      BY DEF ZeroPair, SampleType
    <3>2. \A i \in 1 .. n : i <= Len(samples) => samples[i] \in SampleType
      BY <2>1
    <3> QED BY <3>1, <3>2
  <2>4. input' \in [1 .. n -> SampleType]
    BY <2>2, <2>3
  <2> QED BY <2>2, <2>4
<1>5. (written # NotWritten)'
  BY <1>1
<1>6. CoefsTaken(coefs)' /\ ShapeTyped(shape)' /\ (ReadCoefs(coefRegs) = coefs)'
  BY <1>1, <1>2 DEF CoefsTaken, CoefsTyped, ShapeTyped, ReadCoefs
<1>7. (Len(input) = NumToProcess(shape))' /\ (input \in Seq(SampleType))'
  BY <1>1, <1>3, <1>4, Zenon DEF NumToProcess, NumSections, SectionAt
<1>8. filtered' = Filtered(shape, coefs, input')
  BY <1>1, <1>2
<1>9. (filtered = Filtered(shape, coefs, input))'
  BY <1>1, <1>8
<1>10. (written = [coefs |-> coefs, shape |-> shape])'
  BY <1>1, <1>2
<1> QED BY <1>5, <1>6, <1>7, <1>9, <1>10 DEF FilterInv

LEMMA FilterMeans == FilterInv => FiltersAreConvolutions
<1> SUFFICES ASSUME FilterInv, input # <<>> PROVE FiltersAreConvolutions
  BY DEF FiltersAreConvolutions
<1>1. /\ ShapeTyped(shape) /\ CoefsTyped(coefs) /\ written = [coefs |-> coefs, shape |-> shape]
      /\ input \in Seq(SampleType) /\ Len(input) = NumToProcess(shape)
      /\ filtered = Filtered(shape, coefs, input)
  BY DEF FilterInv, CoefsTaken
<1>2. FiltersFit(shape, coefs)
  BY <1>1, FilteredIs
<1>3. written.coefs = coefs /\ written.shape = shape
  BY <1>1
<1> QED BY <1>1, <1>2, <1>3 DEF FiltersAreConvolutions, FiltersFit, StepOf

(* Whatever coefficients a client gives, whatever sections and samples: a  *)
(* sample that a unit stores is the convolution that they mean, over the   *)
(* ends of sections, blanks and integration sections, with decimation and  *)
(* without (capturectrl.py, capture.py, dspmodule.py).                     *)
THEOREM StoredSamplesAreConvolutions == FilterSpec => []FiltersAreConvolutions
<1>1. ASSUME FilterInv, [FilterNext]_filterVars PROVE FilterInv'
  <2>1. CASE UNCHANGED filterVars
    BY <1>1, <2>1 DEF filterVars, FilterInv
  <2>2. CASE FilterNext
    BY <1>1, <2>2, SetCoefsKeeps, WriteCoefsKeeps, CaptureSamplesKeeps DEF FilterNext
  <2> QED BY <1>1, <2>1, <2>2
<1> QED BY <1>1, FilterStarts, FilterMeans, PTL DEF FilterSpec

-----------------------------------------------------------------------------
(* The words of commands and reports: every field is read as it was put.   *)

(* The powers of 2, as far as commands have bits.                                *)
Pow(i) == 2 ^ i

LEMMA PowerTable ==
  /\ Pow(0) = 1
  /\ Pow(1) = 2 * Pow(0) /\ Pow(2) = 2 * Pow(1) /\ Pow(3) = 2 * Pow(2)
  /\ Pow(4) = 2 * Pow(3) /\ Pow(5) = 2 * Pow(4) /\ Pow(6) = 2 * Pow(5)
  /\ Pow(7) = 2 * Pow(6) /\ Pow(8) = 2 * Pow(7) /\ Pow(9) = 2 * Pow(8)
  /\ Pow(10) = 2 * Pow(9) /\ Pow(11) = 2 * Pow(10) /\ Pow(12) = 2 * Pow(11)
  /\ Pow(13) = 2 * Pow(12) /\ Pow(14) = 2 * Pow(13) /\ Pow(15) = 2 * Pow(14)
  /\ Pow(16) = 2 * Pow(15) /\ Pow(17) = 2 * Pow(16) /\ Pow(18) = 2 * Pow(17)
  /\ Pow(19) = 2 * Pow(18) /\ Pow(20) = 2 * Pow(19) /\ Pow(21) = 2 * Pow(20)
  /\ Pow(22) = 2 * Pow(21) /\ Pow(23) = 2 * Pow(22) /\ Pow(24) = 2 * Pow(23)
  /\ Pow(25) = 2 * Pow(24) /\ Pow(26) = 2 * Pow(25) /\ Pow(27) = 2 * Pow(26)
  /\ Pow(28) = 2 * Pow(27) /\ Pow(29) = 2 * Pow(28) /\ Pow(30) = 2 * Pow(29)
  /\ Pow(31) = 2 * Pow(30) /\ Pow(32) = 2 * Pow(31) /\ Pow(33) = 2 * Pow(32)
  /\ Pow(34) = 2 * Pow(33) /\ Pow(35) = 2 * Pow(34)
BY DEF Pow

LEMMA Powers == \A i \in 0 .. 35 : Pow(i) \in Nat \ {0}
<1>1. \A i \in 0 .. 34 : Pow(i + 1) = 2 * Pow(i)
  BY PowerTable
<1> DEFINE S == {d \in Nat : d <= 35 => Pow(d) \in Nat \ {0}}
<1>2. 0 \in S
  BY PowerTable
<1>3. ASSUME NEW d \in Nat, d \in S PROVE d + 1 \in S
  <2>1. SUFFICES ASSUME d + 1 <= 35 PROVE Pow(d + 1) \in Nat \ {0}
    OBVIOUS
  <2>2. d \in 0 .. 34 /\ Pow(d) \in Nat \ {0}
    BY <1>3, <2>1
  <2> QED BY <1>1, <2>2
<1>4. Nat \subseteq S
  <2> HIDE DEF S
  <2> QED BY <1>2, <1>3, SetInduction
<1> QED BY <1>4

LEMMA Doubling ==
  ASSUME NEW i \in 0 .. 34
  PROVE  Pow(i) \in Nat \ {0} /\ Pow(i + 1) = 2 * Pow(i) /\ Pow(i + 1) \in Nat \ {0}
<1>1. Pow(i + 1) = 2 * Pow(i)
  BY PowerTable
<1>2. i \in 0 .. 35 /\ i + 1 \in 0 .. 35
  OBVIOUS
<1> QED BY <1>1, <1>2, Powers

(* A higher power of 2 is no less. *)
LEMMA PowersGrow ==
  ASSUME NEW i \in 0 .. 35, NEW j \in 0 .. 35, i <= j
  PROVE  Pow(i) <= Pow(j)
<1> DEFINE S == {d \in Nat : i + d <= 35 => Pow(i) <= Pow(i + d)}
<1>1. 0 \in S
  <2>1. i + 0 = i /\ Pow(i) \in Nat
    BY Powers
  <2> QED BY <2>1
<1>2. ASSUME NEW d \in Nat, d \in S PROVE d + 1 \in S
  <2>1. SUFFICES ASSUME i + (d + 1) <= 35 PROVE Pow(i) <= Pow(i + (d + 1))
    OBVIOUS
  <2>2. PICK k \in 0 .. 34 : k = i + d /\ k + 1 = i + (d + 1)
    BY <2>1
  <2>3. Pow(i) <= Pow(k)
    BY <1>2, <2>1, <2>2
  <2>4. Pow(k) \in Nat /\ Pow(k + 1) = 2 * Pow(k) /\ Pow(i) \in Nat
    BY Doubling, Powers
  <2>5. Pow(i) <= Pow(k + 1)
    BY <2>3, <2>4
  <2> QED BY <2>2, <2>5
<1>3. Nat \subseteq S
  <2> HIDE DEF S
  <2> QED BY <1>1, <1>2, SetInduction
<1>4. j - i \in Nat /\ i + (j - i) = j
  OBVIOUS
<1> QED BY <1>3, <1>4

(* The bits of a number that a field of w bits can have. *)
LEMMA BitsBelow ==
  ASSUME NEW n \in Nat, NEW w \in 0 .. 31, n < Pow(w)
  PROVE  BitsOf(n) \subseteq 0 .. w - 1
<1>1. ASSUME NEW i \in 0 .. 30, (n \div Pow(i)) % 2 = 1 PROVE i \in 0 .. w - 1
  <2>1. SUFFICES ASSUME w <= i PROVE FALSE
    OBVIOUS
  <2>2. Pow(w) <= Pow(i) /\ Pow(i) \in Nat \ {0} /\ Pow(w) \in Nat
    BY <2>1, Powers, PowersGrow
  <2>3. PICK p \in Nat \ {0} : p = Pow(i) /\ n < p
    BY <2>2
  <2>4. n \div p = 0
    <3>1. n = p * 0 + n
      BY <2>3
    <3> QED BY <2>3, <3>1, Remainder
  <2>5. 0 % 2 = 0
    OBVIOUS
  <2> QED BY <1>1, <2>3, <2>4, <2>5
<1> QED BY <1>1 DEF BitsOf, Pow

(* The next bit of a number. *)
LEMMA Half ==
  ASSUME NEW p \in Nat \ {0}, NEW n \in Nat
  PROVE  n % (2 * p) = (n % p) + (IF (n \div p) % 2 = 1 THEN p ELSE 0)
<1>1. PICK q \in Nat, m \in Nat : q = n \div p /\ m = n % p /\ m < p /\ n = p * q + m
  BY Remainder
<1>2. PICK h \in Nat, b \in Nat : h = q \div 2 /\ b = q % 2 /\ b < 2 /\ q = 2 * h + b
  OBVIOUS
<1>3. PICK u \in Nat \ {0} : u = 2 * p
  OBVIOUS
<1>4. CASE b = 0
  <2>1. p * q = u * h
    BY <1>2, <1>3, <1>4
  <2>2. n = u * h + m /\ m < u
    BY <1>1, <1>3, <2>1
  <2>3. n % u = m
    BY <2>2, Remainder
  <2> QED BY <1>1, <1>2, <1>3, <1>4, <2>3
<1>5. CASE b = 1
  <2>1. p * q = u * h + p
    BY <1>2, <1>3, <1>5
  <2>2. n = u * h + (m + p) /\ m + p < u /\ m + p \in Nat
    BY <1>1, <1>3, <2>1
  <2>3. n % u = m + p
    BY <2>2, Remainder
  <2> QED BY <1>1, <1>2, <1>3, <1>5, <2>3
<1> QED BY <1>2, <1>4, <1>5

(* The number that the bits of a number make is that number. *)
LEMMA NumberOfBits ==
  ASSUME NEW n \in Nat, n < Pow(31)
  PROVE  Number(BitsOf(n)) = n
<1>1. PICK l : l = [i \in 1 .. 36 |-> IF i - 1 \in BitsOf(n) THEN Pow(i - 1) ELSE 0]
  OBVIOUS
<1>1a. Number(BitsOf(n)) = SumAll(l)
  BY <1>1 DEF Number, Pow
<1>2. l \in Seq(Nat) /\ Len(l) = 36
  <2>1. \A i \in 1 .. 36 : i - 1 \in 0 .. 35
    OBVIOUS
  <2>2. \A i \in 1 .. 36 : (IF i - 1 \in BitsOf(n) THEN Pow(i - 1) ELSE 0) \in Nat
    BY <2>1, Powers
  <2> QED BY <1>1, <2>2
<1>3. PICK f : f = Sums(l)
  OBVIOUS
<1>4. f[0] = 0 /\ \A i \in 1 .. 36 : f[i] = f[i - 1] + l[i]
  BY <1>2, <1>3, SumsAre
<1>5. \A i \in 0 .. 35 : f[i + 1] = f[i] + (IF i \in BitsOf(n) THEN Pow(i) ELSE 0)
  <2>1. ASSUME NEW i \in 0 .. 35 PROVE f[i + 1] = f[i] + (IF i \in BitsOf(n) THEN Pow(i) ELSE 0)
    <3>1. i + 1 \in 1 .. 36 /\ (i + 1) - 1 = i
      OBVIOUS
    <3>2. l[i + 1] = IF i \in BitsOf(n) THEN Pow(i) ELSE 0
      BY <1>1, <3>1
    <3> QED BY <1>4, <3>1, <3>2
  <2> QED BY <2>1
<1> DEFINE S == {k \in Nat : k <= 31 => f[k] = n % Pow(k)}
<1>6. 0 \in S
  <2>1. 2 ^ 0 = 1 /\ n % 1 = 0
    OBVIOUS
  <2>2. Pow(0) = 1
    BY <2>1 DEF Pow
  <2> QED BY <1>4, <2>1, <2>2
<1>7. ASSUME NEW k \in Nat, k \in S PROVE k + 1 \in S
  <2>1. SUFFICES ASSUME k + 1 <= 31 PROVE f[k + 1] = n % Pow(k + 1)
    OBVIOUS
  <2>2. k \in 0 .. 30 /\ k \in 0 .. 35 /\ k \in 0 .. 34
    BY <2>1
  <2>3. PICK p \in Nat \ {0} : p = Pow(k) /\ Pow(k + 1) = 2 * p
    BY <2>2, Doubling
  <2>4. f[k] = n % p
    BY <1>7, <2>2, <2>3
  <2>5. k \in BitsOf(n) <=> (n \div p) % 2 = 1
    BY <2>2, <2>3 DEF BitsOf, Pow
  <2>6. f[k + 1] = (n % p) + (IF (n \div p) % 2 = 1 THEN p ELSE 0)
    BY <1>5, <2>2, <2>3, <2>4, <2>5
  <2> QED BY <2>3, <2>6, Half
<1>8. Nat \subseteq S
  <2> HIDE DEF S
  <2> QED BY <1>6, <1>7, SetInduction
<1>9. f[31] = n
  <2>1. f[31] = n % Pow(31)
    BY <1>8
  <2>2. PICK p \in Nat \ {0} : p = Pow(31)
    BY Powers
  <2>3. n = p * 0 + n /\ n < p
    BY <2>2
  <2>4. n % p = n
    BY <2>3, Remainder
  <2> QED BY <2>1, <2>2, <2>4
<1>10. f[36] = n
  <2>1. \A i \in 31 .. 35 : i \in 0 .. 35 /\ i \notin BitsOf(n)
    BY DEF BitsOf
  <2>2. \A i \in 31 .. 35 : f[i + 1] = f[i] + 0
    BY <1>5, <2>1
  <2>3. f[32] = f[31] + 0
    BY <2>2
  <2>4. f[33] = f[32] + 0
    BY <2>2
  <2>5. f[34] = f[33] + 0
    BY <2>2
  <2>6. f[35] = f[34] + 0
    BY <2>2
  <2>7. f[36] = f[35] + 0
    BY <2>2
  <2> QED BY <1>9, <2>3, <2>4, <2>5, <2>6, <2>7
<1> QED BY <1>1a, <1>2, <1>3, <1>10 DEF SumAll

(* A field has no bit beyond its width. *)
FieldFits(f) == f.at \in Nat /\ f.width \in Nat /\ f.bits \subseteq 0 .. f.width - 1

(* Fields lie between two positions, and apart from each other. *)
Within(fs, lo, hi) ==
  /\ \A f \in fs : FieldFits(f) /\ lo <= f.at /\ f.at + f.width <= hi
  /\ \A f, g \in fs : f = g \/ f.at + f.width <= g.at \/ g.at + g.width <= f.at

(* One field, none, and those of two parts of a word. *)
LEMMA OneField ==
  ASSUME NEW at \in Nat, NEW width \in Nat, NEW bits, bits \subseteq 0 .. width - 1,
         NEW lo \in Nat, NEW hi \in Nat, lo <= at, at + width <= hi
  PROVE  Within({Field(at, width, bits)}, lo, hi)
<1>1. PICK f : f = Field(at, width, bits)
  OBVIOUS
<1>2. f.at = at /\ f.width = width /\ f.bits = bits
  BY <1>1 DEF Field
<1> QED BY <1>1, <1>2 DEF Within, FieldFits

LEMMA NoField == ASSUME NEW lo, NEW hi PROVE Within({}, lo, hi)
BY DEF Within

LEMMA FieldsJoined ==
  ASSUME NEW fs, NEW gs, NEW lo \in Nat, NEW mid \in Nat, NEW hi \in Nat,
         Within(fs, lo, mid), Within(gs, mid, hi), lo <= mid, mid <= hi
  PROVE  Within(fs \cup gs, lo, hi)
<1>1. \A f \in fs : FieldFits(f) /\ lo <= f.at /\ f.at + f.width <= mid /\ f.at \in Nat /\ f.width \in Nat
  BY DEF Within, FieldFits
<1>2. \A f \in gs : FieldFits(f) /\ mid <= f.at /\ f.at + f.width <= hi /\ f.at \in Nat /\ f.width \in Nat
  BY DEF Within, FieldFits
<1>3. ASSUME NEW f \in fs \cup gs PROVE FieldFits(f) /\ lo <= f.at /\ f.at + f.width <= hi
  BY <1>1, <1>2
<1>4. ASSUME NEW f \in fs \cup gs, NEW g \in fs \cup gs
      PROVE  f = g \/ f.at + f.width <= g.at \/ g.at + g.width <= f.at
  <2>1. CASE f \in fs /\ g \in fs
    BY <2>1 DEF Within
  <2>2. CASE f \in gs /\ g \in gs
    BY <2>2 DEF Within
  <2>3. CASE f \in fs /\ g \in gs
    BY <1>1, <1>2, <2>3
  <2>4. CASE f \in gs /\ g \in fs
    BY <1>1, <1>2, <2>4
  <2> QED BY <2>1, <2>2, <2>3, <2>4
<1> QED BY <1>3, <1>4 DEF Within

(* What is in a slice of bits. *)
LEMMA InSlice ==
  ASSUME NEW r, NEW at \in Nat, NEW width \in Nat, NEW x \in 0 .. width - 1
  PROVE  x \in Slice(r, at, width) <=> at + x \in r
<1>1. ASSUME x \in Slice(r, at, width) PROVE at + x \in r
  <2>1. PICK b \in r \cap (at .. at + width - 1) : x = b - at
    BY <1>1 DEF Slice
  <2>2. at + x = b
    BY <2>1
  <2> QED BY <2>1, <2>2
<1>2. ASSUME at + x \in r PROVE x \in Slice(r, at, width)
  <2>1. at + x \in at .. at + width - 1 /\ (at + x) - at = x
    OBVIOUS
  <2> QED BY <1>2, <2>1 DEF Slice
<1> QED BY <1>1, <1>2

LEMMA SliceIn ==
  ASSUME NEW r, NEW at \in Nat, NEW width \in Nat
  PROVE  Slice(r, at, width) \subseteq 0 .. width - 1
BY DEF Slice

(* What is put into fields that lie apart is read back. *)
LEMMA ReadBack ==
  ASSUME NEW fs, NEW hi \in Nat, Within(fs, 0, hi)
  PROVE  /\ Word(fs) \subseteq 0 .. hi - 1
         /\ \A f \in fs : Slice(Word(fs), f.at, f.width) = f.bits
<1>1. \A f \in fs : f.at \in Nat /\ f.width \in Nat /\ f.bits \subseteq 0 .. f.width - 1
            /\ f.at + f.width <= hi
  BY DEF Within, FieldFits
<1>2. \A b : b \in Word(fs) <=> \E f \in fs : \E x \in f.bits : b = f.at + x
  BY DEF Word, At
<1>3. ASSUME NEW b \in Word(fs) PROVE b \in 0 .. hi - 1
  <2>1. PICK f \in fs : \E x \in f.bits : b = f.at + x
    BY <1>2
  <2>2. PICK x \in f.bits : b = f.at + x
    BY <2>1
  <2>3. x \in 0 .. f.width - 1
    BY <1>1
  <2> QED BY <1>1, <2>2, <2>3
<1>4. ASSUME NEW f \in fs PROVE Slice(Word(fs), f.at, f.width) = f.bits
  <2>1. PICK at \in Nat, width \in Nat : at = f.at /\ width = f.width
    BY <1>1
  <2>2. ASSUME NEW x \in 0 .. width - 1 PROVE x \in Slice(Word(fs), at, width) <=> x \in f.bits
    <3>1. x \in Slice(Word(fs), at, width) <=> at + x \in Word(fs)
      BY InSlice
    <3>2. ASSUME x \in f.bits PROVE at + x \in Word(fs)
      BY <1>2, <2>1, <3>2
    <3>3. ASSUME at + x \in Word(fs) PROVE x \in f.bits
      <4>1. PICK g \in fs : \E y \in g.bits : at + x = g.at + y
        BY <1>2, <3>3
      <4>2. PICK y \in g.bits : at + x = g.at + y
        BY <4>1
      <4>3. g.at \in Nat /\ g.width \in Nat /\ y \in 0 .. g.width - 1
        BY <1>1
      <4>4. f = g \/ at + width <= g.at \/ g.at + g.width <= at
        BY <2>1 DEF Within
      <4>5. ~(at + width <= g.at) /\ ~(g.at + g.width <= at)
        BY <4>2, <4>3
      <4>6. f = g
        BY <4>4, <4>5
      <4>7. x = y
        BY <2>1, <4>2, <4>3, <4>6
      <4> QED BY <4>6, <4>7
    <3> QED BY <3>1, <3>2, <3>3
  <2>3. Slice(Word(fs), at, width) \subseteq 0 .. width - 1
    BY SliceIn
  <2>4. f.bits \subseteq 0 .. width - 1
    BY <1>1, <2>1
  <2>5. Slice(Word(fs), at, width) = f.bits
    BY <2>2, <2>3, <2>4
  <2> QED BY <2>1, <2>5
<1> QED BY <1>3, <1>4

(* The fields of a table of keys. *)
LEMMA SmallBits ==
  ASSUME NEW n \in Nat, NEW w \in 0 .. 31, n < Pow(w), NEW at \in Nat
  PROVE  Within({Field(at, w, BitsOf(n))}, at, at + w)
<1>1. BitsOf(n) \subseteq 0 .. w - 1
  BY BitsBelow
<1>2. at + w \in Nat
  OBVIOUS
<1> QED BY <1>1, <1>2, OneField

(* Four keys of ten bits. *)
LEMMA KeyFieldsWithin ==
  ASSUME NEW keys, KeysOk(keys), NEW at \in Nat
  PROVE  Within(KeyFields(at, keys), at, at + 40)
<1>1. PICK k \in [1 .. 4 -> Nat] : \A i \in 1 .. 4 : k[i] = KeyTable(keys)[i] /\ k[i] < Pow(10)
  <2>1. \A i \in 1 .. 4 : KeyTable(keys)[i] \in 0 .. MaxEntries - 1
    BY DEF KeysOk, KeyTable
  <2>2. PICK m \in Nat : m = MaxEntries /\ m <= Pow(10)
    <3>1. MaxEntries \in Nat /\ MaxEntries <= 1024
      BY CommandConstants
    <3>2. Pow(10) = 1024
      BY DEF Pow
    <3> QED BY <3>1, <3>2
  <2>3. Pow(10) \in Nat
    BY Powers
  <2>4. \A i \in 1 .. 4 : KeyTable(keys)[i] \in Nat /\ KeyTable(keys)[i] < Pow(10)
    BY <2>1, <2>2, <2>3
  <2> DEFINE t == [i \in 1 .. 4 |-> KeyTable(keys)[i]]
  <2>5. t \in [1 .. 4 -> Nat] /\ \A i \in 1 .. 4 : t[i] = KeyTable(keys)[i] /\ t[i] < Pow(10)
    BY <2>4
  <2> HIDE DEF t
  <2> QED BY <2>5
<1>2. ASSUME NEW i \in 1 .. 4, NEW from \in Nat
      PROVE  Within({Field(from, 10, BitsOf(k[i]))}, from, from + 10)
  <2>1. k[i] \in Nat /\ k[i] < Pow(10)
    BY <1>1
  <2> QED BY <2>1, SmallBits
<1>3. KeyFields(at, keys) =
        (({Field(at, 10, BitsOf(k[1]))} \cup {Field(at + 10, 10, BitsOf(k[2]))})
          \cup {Field(at + 20, 10, BitsOf(k[3]))}) \cup {Field(at + 30, 10, BitsOf(k[4]))}
  <2>1. KeyFields(at, keys) = {Field(at + 10 * (i - 1), 10, BitsOf(k[i])) : i \in 1 .. 4}
    BY <1>1 DEF KeyFields
  <2>2. at + 10 * (1 - 1) = at /\ at + 10 * (2 - 1) = at + 10 /\ at + 10 * (3 - 1) = at + 20
        /\ at + 10 * (4 - 1) = at + 30
    OBVIOUS
  <2>3. 1 .. 4 = {1, 2, 3, 4}
    OBVIOUS
  <2> QED BY <2>1, <2>2, <2>3
<1>4. Within({Field(at, 10, BitsOf(k[1]))}, at, at + 10)
  BY <1>2
<1>5. Within({Field(at + 10, 10, BitsOf(k[2]))}, at + 10, at + 20)
  <2>1. PICK from \in Nat : from = at + 10 /\ from + 10 = at + 20
    OBVIOUS
  <2>2. 2 \in 1 .. 4
    OBVIOUS
  <2>3. Within({Field(from, 10, BitsOf(k[2]))}, from, from + 10)
    BY <1>2, <2>2
  <2> QED BY <2>1, <2>3
<1>6. Within({Field(at + 20, 10, BitsOf(k[3]))}, at + 20, at + 30)
  <2>1. PICK from \in Nat : from = at + 20 /\ from + 10 = at + 30
    OBVIOUS
  <2>2. 3 \in 1 .. 4
    OBVIOUS
  <2>3. Within({Field(from, 10, BitsOf(k[3]))}, from, from + 10)
    BY <1>2, <2>2
  <2> QED BY <2>1, <2>3
<1>7. Within({Field(at + 30, 10, BitsOf(k[4]))}, at + 30, at + 40)
  <2>1. PICK from \in Nat : from = at + 30 /\ from + 10 = at + 40
    OBVIOUS
  <2>2. 4 \in 1 .. 4
    OBVIOUS
  <2>3. Within({Field(from, 10, BitsOf(k[4]))}, from, from + 10)
    BY <1>2, <2>2
  <2> QED BY <2>1, <2>3
<1>8. Within({Field(at, 10, BitsOf(k[1]))} \cup {Field(at + 10, 10, BitsOf(k[2]))}, at, at + 20)
  BY <1>4, <1>5, FieldsJoined
<1>9. Within(({Field(at, 10, BitsOf(k[1]))} \cup {Field(at + 10, 10, BitsOf(k[2]))})
          \cup {Field(at + 20, 10, BitsOf(k[3]))}, at, at + 30)
  BY <1>6, <1>8, FieldsJoined
<1>10. Within((({Field(at, 10, BitsOf(k[1]))} \cup {Field(at + 10, 10, BitsOf(k[2]))})
          \cup {Field(at + 20, 10, BitsOf(k[3]))}) \cup {Field(at + 30, 10, BitsOf(k[4]))}, at, at + 40)
  BY <1>7, <1>9, FieldsJoined
<1> QED BY <1>3, <1>10

(* The class of a command, by its id. *)
LEMMA Classes ==
  ASSUME NEW c, Accepted(c)
  PROVE  /\ HeaderOk(c)
         /\ c.id = 1 => AwgStartOk(c) /\ Fields(c) = HeaderFields(c) \cup AwgStartFields(c)
         /\ c.id = 2 => CaptureEndFenceOk(c) /\ Fields(c) = HeaderFields(c) \cup CaptureEndFenceFields(c)
         /\ c.id = 3 => WaveSequenceSetOk(c) /\ Fields(c) = HeaderFields(c) \cup WaveSequenceSetFields(c)
         /\ c.id = 4 => CaptureParamSetOk(c) /\ Fields(c) = HeaderFields(c) \cup CaptureParamSetFields(c)
         /\ c.id = 5 => CaptureAddrSetOk(c) /\ Fields(c) = HeaderFields(c) \cup CaptureAddrSetFields(c)
         /\ c.id = 6 => FeedbackCalcOnClassificationOk(c)
                     /\ Fields(c) = HeaderFields(c) \cup FeedbackCalcOnClassificationFields(c)
         /\ c.id = 7 => WaveGenEndFenceOk(c) /\ Fields(c) = HeaderFields(c) \cup WaveGenEndFenceFields(c)
         /\ c.id = 8 => ResponsiveFeedbackOk(c)
                     /\ Fields(c) = HeaderFields(c) \cup ResponsiveFeedbackFields(c)
         /\ c.id = 9 => WaveSequenceSelectionOk(c)
                     /\ Fields(c) = HeaderFields(c) \cup WaveSequenceSelectionFields(c)
         /\ c.id = 10 => BranchByFlagOk(c) /\ Fields(c) = HeaderFields(c) \cup BranchByFlagFields(c)
         /\ c.id = 11 => AwgStartWithExtTrigAndClsValOk(c)
                     /\ Fields(c) = HeaderFields(c) \cup AwgStartWithExtTrigAndClsValFields(c)
<1>1. ASSUME c.id = 1 PROVE AwgStartOk(c) /\ Fields(c) = HeaderFields(c) \cup AwgStartFields(c)
  BY <1>1 DEF Accepted, Fields
<1>2. ASSUME c.id = 2
      PROVE  CaptureEndFenceOk(c) /\ Fields(c) = HeaderFields(c) \cup CaptureEndFenceFields(c)
  BY <1>2 DEF Accepted, Fields
<1>3. ASSUME c.id = 3
      PROVE  WaveSequenceSetOk(c) /\ Fields(c) = HeaderFields(c) \cup WaveSequenceSetFields(c)
  BY <1>3 DEF Accepted, Fields
<1>4. ASSUME c.id = 4
      PROVE  CaptureParamSetOk(c) /\ Fields(c) = HeaderFields(c) \cup CaptureParamSetFields(c)
  BY <1>4 DEF Accepted, Fields
<1>5. ASSUME c.id = 5
      PROVE  CaptureAddrSetOk(c) /\ Fields(c) = HeaderFields(c) \cup CaptureAddrSetFields(c)
  BY <1>5 DEF Accepted, Fields
<1>6. ASSUME c.id = 6
      PROVE  FeedbackCalcOnClassificationOk(c) /\ Fields(c) = HeaderFields(c) \cup FeedbackCalcOnClassificationFields(c)
  BY <1>6 DEF Accepted, Fields
<1>7. ASSUME c.id = 7
      PROVE  WaveGenEndFenceOk(c) /\ Fields(c) = HeaderFields(c) \cup WaveGenEndFenceFields(c)
  BY <1>7 DEF Accepted, Fields
<1>8. ASSUME c.id = 8
      PROVE  ResponsiveFeedbackOk(c) /\ Fields(c) = HeaderFields(c) \cup ResponsiveFeedbackFields(c)
  BY <1>8 DEF Accepted, Fields
<1>9. ASSUME c.id = 9
      PROVE  WaveSequenceSelectionOk(c) /\ Fields(c) = HeaderFields(c) \cup WaveSequenceSelectionFields(c)
  BY <1>9 DEF Accepted, Fields
<1>10. ASSUME c.id = 10 PROVE BranchByFlagOk(c) /\ Fields(c) = HeaderFields(c) \cup BranchByFlagFields(c)
  BY <1>10 DEF Accepted, Fields
<1>11. ASSUME c.id = 11
      PROVE  AwgStartWithExtTrigAndClsValOk(c) /\ Fields(c) = HeaderFields(c) \cup AwgStartWithExtTrigAndClsValFields(c)
  BY <1>11 DEF Accepted, Fields
<1>12. HeaderOk(c)
  BY DEF Accepted
<1> QED BY <1>1, <1>2, <1>3, <1>4, <1>5, <1>6, <1>7, <1>8, <1>9, <1>10, <1>11, <1>12

(* The widths of flags, of offsets and of all numbers. *)
LEMMA FlagBits == ASSUME NEW b PROVE Flag(b) \subseteq 0 .. 0
BY DEF Flag

LEMMA AllBits == ASSUME NEW n PROVE BitsOf(n) \subseteq 0 .. 35
BY DEF BitsOf

(* The place of an element has seven bits. *)
LEMMA ElemOffsetIs ==
  ASSUME NEW c, FeedbackCalcOnClassificationOk(c)
  PROVE  ElemOffset(c) \in Nat /\ ElemOffset(c) < Pow(7)
<1>1. PICK b \in Nat, w \in Nat \ {0} : b = BitOffset(c) /\ w = CAPTURE_RAM_WORD_SIZE * 8 /\ w <= 256
  <2>1. c.offset \in Nat /\ c.elem \in Nat
    BY HwParamConstants DEF FeedbackCalcOnClassificationOk, OffsetOk
  <2>2. BitOffset(c) \in Nat
    BY <2>1 DEF BitOffset
  <2>3. CAPTURE_RAM_WORD_SIZE * 8 \in Nat \ {0} /\ CAPTURE_RAM_WORD_SIZE * 8 <= 256
    BY HwParamConstants, CommandConstants
  <2> QED BY <2>2, <2>3
<1>2. PICK m \in Nat : m = b % w /\ m < w
  BY Remainder
<1>3. m \div 2 \in Nat /\ m \div 2 < 128
  BY <1>1, <1>2
<1>4. Pow(7) = 128
  BY DEF Pow
<1> QED BY <1>1, <1>2, <1>3, <1>4 DEF ElemOffset

(* The header is in the first three bytes, and what a class adds to it comes    *)
(* after: for each class of commands.                                            *)
LEMMA HeaderWithin ==
  ASSUME NEW c, HeaderOk(c), c.id \in 1 .. 11
  PROVE  Within(HeaderFields(c), 0, 24)
<1>1. PICK f : f = Field(0, 1, Flag(c.stop))
  OBVIOUS
<1>2. PICK g : g = Field(1, 7, BitsOf(c.id))
  OBVIOUS
<1>3. PICK h : h = Field(8, 16, BitsOf(c.no))
  OBVIOUS
<1>4. Within({f}, 0, 1)
  BY <1>1, FlagBits, OneField
<1>5. Within({g}, 1, 8)
  <2>1. c.id \in Nat /\ c.id < Pow(7)
    <3>1. Pow(7) = 128
      BY DEF Pow
    <3> QED BY <3>1
  <2>2. BitsOf(c.id) \subseteq 0 .. 7 - 1
    BY <2>1, BitsBelow
  <2> QED BY <1>2, <2>2, OneField
<1>6. Within({h}, 8, 24)
  <2>1. c.no \in Nat /\ c.no < Pow(16)
    <3>1. MAX_CMD_NO \in Nat /\ MAX_CMD_NO < Pow(16) /\ Pow(16) \in Nat
      <4>1. Pow(16) = 65536
        BY DEF Pow
      <4>2. MAX_CMD_NO \in Nat /\ MAX_CMD_NO <= 65535
        BY CommandConstants
      <4> QED BY <4>1, <4>2
    <3>2. c.no \in 0 .. MAX_CMD_NO
      BY DEF HeaderOk
    <3> QED BY <3>1, <3>2
  <2>2. BitsOf(c.no) \subseteq 0 .. 16 - 1
    BY <2>1, BitsBelow
  <2> QED BY <1>3, <2>2, OneField
<1>7. Within({f} \cup {g}, 0, 8)
  BY <1>4, <1>5, FieldsJoined
<1>8. Within(({f} \cup {g}) \cup {h}, 0, 24)
  BY <1>6, <1>7, FieldsJoined
<1>9. HeaderFields(c) = ({f} \cup {g}) \cup {h}
  BY <1>1, <1>2, <1>3 DEF HeaderFields
<1> QED BY <1>8, <1>9

LEMMA AwgStartWithin ==
  ASSUME NEW c, AwgStartOk(c)
  PROVE  Within(AwgStartFields(c), 24, 128)
<1>1. PICK f0 : f0 = Field(24, 16, c.awgs)
  OBVIOUS
<1>2. PICK f1 : f1 = Field(40, 64, StartTime(c.time))
  OBVIOUS
<1>3. PICK f2 : f2 = Field(104, 1, Flag(c.wait))
  OBVIOUS
<1>4. Within({f0}, 24, 40)
  <2>2. c.awgs \subseteq 0 .. 16 - 1
    BY DEF AwgStartOk, IdsOk, AWG, CaptureUnit, CaptureParamElem
  <2> QED BY <1>1, <2>2, OneField
<1>5. Within({f1}, 40, 104)
  <2>2. StartTime(c.time) \subseteq 0 .. 64 - 1
    BY DEF AwgStartOk, TimeOk, StartTime
  <2> QED BY <1>2, <2>2, OneField
<1>6. Within({f0} \cup {f1}, 24, 104)
  BY <1>4, <1>5, FieldsJoined
<1>7. Within({f2}, 104, 128)
  <2>2. Flag(c.wait) \subseteq 0 .. 1 - 1
    BY FlagBits
  <2> QED BY <1>3, <2>2, OneField
<1>8. Within(({f0} \cup {f1}) \cup {f2}, 24, 128)
  BY <1>6, <1>7, FieldsJoined
<1>9. AwgStartFields(c) = ({f0} \cup {f1}) \cup {f2}
  BY <1>1, <1>2, <1>3 DEF AwgStartFields
<1> QED BY <1>8, <1>9

LEMMA CaptureEndFenceWithin ==
  ASSUME NEW c, CaptureEndFenceOk(c)
  PROVE  Within(CaptureEndFenceFields(c), 24, 128)
<1>1. PICK f0 : f0 = Field(24, 10, c.units)
  OBVIOUS
<1>2. PICK f1 : f1 = Field(40, 64, c.time.bits)
  OBVIOUS
<1>3. PICK f2 : f2 = Field(104, 1, Flag(c.terminate))
  OBVIOUS
<1>4. PICK f3 : f3 = Field(105, 1, Flag(c.wait))
  OBVIOUS
<1>5. Within({f0}, 24, 40)
  <2>2. c.units \subseteq 0 .. 10 - 1
    BY DEF CaptureEndFenceOk, IdsOk, AWG, CaptureUnit, CaptureParamElem
  <2> QED BY <1>1, <2>2, OneField
<1>6. Within({f1}, 40, 104)
  <2>2. c.time.bits \subseteq 0 .. 64 - 1
    BY DEF CaptureEndFenceOk, TimeOk
  <2> QED BY <1>2, <2>2, OneField
<1>7. Within({f0} \cup {f1}, 24, 104)
  BY <1>5, <1>6, FieldsJoined
<1>8. Within({f2}, 104, 105)
  <2>2. Flag(c.terminate) \subseteq 0 .. 1 - 1
    BY FlagBits
  <2> QED BY <1>3, <2>2, OneField
<1>9. Within(({f0} \cup {f1}) \cup {f2}, 24, 105)
  BY <1>7, <1>8, FieldsJoined
<1>10. Within({f3}, 105, 128)
  <2>2. Flag(c.wait) \subseteq 0 .. 1 - 1
    BY FlagBits
  <2> QED BY <1>4, <2>2, OneField
<1>11. Within((({f0} \cup {f1}) \cup {f2}) \cup {f3}, 24, 128)
  BY <1>9, <1>10, FieldsJoined
<1>12. CaptureEndFenceFields(c) = (({f0} \cup {f1}) \cup {f2}) \cup {f3}
  BY <1>1, <1>2, <1>3, <1>4 DEF CaptureEndFenceFields
<1> QED BY <1>11, <1>12

LEMMA WaveSequenceSetWithin ==
  ASSUME NEW c, WaveSequenceSetOk(c)
  PROVE  Within(WaveSequenceSetFields(c), 24, 128)
<1>1. PICK f0 : f0 = Field(24, 16, c.awgs)
  OBVIOUS
<1>2. PICK f1 : f1 = Field(40, 4, BitsOf(c.channel))
  OBVIOUS
<1>3. Within({f0}, 24, 40)
  <2>2. c.awgs \subseteq 0 .. 16 - 1
    BY DEF WaveSequenceSetOk, IdsOk, AWG, CaptureUnit, CaptureParamElem
  <2> QED BY <1>1, <2>2, OneField
<1>4. Within({f1}, 40, 44)
  <2>1. c.channel \in Nat /\ c.channel < Pow(4)
    <3>1. Pow(4) = 16
      BY DEF Pow
    <3> QED BY <3>1 DEF WaveSequenceSetOk, FeedbackChannel, FourClassifierChannel
  <2>2. BitsOf(c.channel) \subseteq 0 .. 4 - 1
    BY <2>1, BitsBelow
  <2> QED BY <1>2, <2>2, OneField
<1>5. Within({f0} \cup {f1}, 24, 44)
  BY <1>3, <1>4, FieldsJoined
<1>6. Within(KeyFields(44, c.keys), 44, 84)
  <2>1. KeysOk(c.keys)
    BY DEF WaveSequenceSetOk
  <2>2. Within(KeyFields(44, c.keys), 44, 44 + 40)
    BY <2>1, KeyFieldsWithin
  <2> QED BY <2>2
<1>7. Within(({f0} \cup {f1}) \cup KeyFields(44, c.keys), 24, 84)
  BY <1>5, <1>6, FieldsJoined
<1>8. WaveSequenceSetFields(c) = ({f0} \cup {f1}) \cup KeyFields(44, c.keys)
  BY <1>1, <1>2 DEF WaveSequenceSetFields
<1>9. Within((({f0} \cup {f1}) \cup KeyFields(44, c.keys)) \cup {}, 24, 128)
  BY <1>7, NoField, FieldsJoined
<1>10. (({f0} \cup {f1}) \cup KeyFields(44, c.keys)) \cup {} = ({f0} \cup {f1}) \cup KeyFields(44, c.keys)
  OBVIOUS
<1> QED BY <1>8, <1>9, <1>10

LEMMA CaptureParamSetWithin ==
  ASSUME NEW c, CaptureParamSetOk(c)
  PROVE  Within(CaptureParamSetFields(c), 24, 128)
<1>1. PICK f0 : f0 = Field(24, 10, c.units)
  OBVIOUS
<1>2. PICK f1 : f1 = Field(40, 4, BitsOf(c.channel))
  OBVIOUS
<1>3. PICK f2 : f2 = Field(44, 16, c.elems)
  OBVIOUS
<1>4. Within({f0}, 24, 40)
  <2>2. c.units \subseteq 0 .. 10 - 1
    BY DEF CaptureParamSetOk, IdsOk, AWG, CaptureUnit, CaptureParamElem
  <2> QED BY <1>1, <2>2, OneField
<1>5. Within({f1}, 40, 44)
  <2>1. c.channel \in Nat /\ c.channel < Pow(4)
    <3>1. Pow(4) = 16
      BY DEF Pow
    <3> QED BY <3>1 DEF CaptureParamSetOk, FeedbackChannel, FourClassifierChannel
  <2>2. BitsOf(c.channel) \subseteq 0 .. 4 - 1
    BY <2>1, BitsBelow
  <2> QED BY <1>2, <2>2, OneField
<1>6. Within({f0} \cup {f1}, 24, 44)
  BY <1>4, <1>5, FieldsJoined
<1>7. Within({f2}, 44, 60)
  <2>2. c.elems \subseteq 0 .. 16 - 1
    BY DEF CaptureParamSetOk, IdsOk, AWG, CaptureUnit, CaptureParamElem
  <2> QED BY <1>3, <2>2, OneField
<1>8. Within(({f0} \cup {f1}) \cup {f2}, 24, 60)
  BY <1>6, <1>7, FieldsJoined
<1>9. Within(KeyFields(60, c.keys), 60, 100)
  <2>1. KeysOk(c.keys)
    BY DEF CaptureParamSetOk
  <2>2. Within(KeyFields(60, c.keys), 60, 60 + 40)
    BY <2>1, KeyFieldsWithin
  <2> QED BY <2>2
<1>10. Within((({f0} \cup {f1}) \cup {f2}) \cup KeyFields(60, c.keys), 24, 100)
  BY <1>8, <1>9, FieldsJoined
<1>11. CaptureParamSetFields(c) = (({f0} \cup {f1}) \cup {f2}) \cup KeyFields(60, c.keys)
  BY <1>1, <1>2, <1>3 DEF CaptureParamSetFields
<1>12. Within(((({f0} \cup {f1}) \cup {f2}) \cup KeyFields(60, c.keys)) \cup {}, 24, 128)
  BY <1>10, NoField, FieldsJoined
<1>13. ((({f0} \cup {f1}) \cup {f2}) \cup KeyFields(60, c.keys)) \cup {}
            = (({f0} \cup {f1}) \cup {f2}) \cup KeyFields(60, c.keys)
  OBVIOUS
<1> QED BY <1>11, <1>12, <1>13

LEMMA CaptureAddrSetWithin ==
  ASSUME NEW c, CaptureAddrSetOk(c)
  PROVE  Within(CaptureAddrSetFields(c), 24, 128)
<1>1. PICK f0 : f0 = Field(24, 10, c.units)
  OBVIOUS
<1>2. PICK f1 : f1 = Field(40, 36, BitsOf(c.offset))
  OBVIOUS
<1>3. Within({f0}, 24, 40)
  <2>2. c.units \subseteq 0 .. 10 - 1
    BY DEF CaptureAddrSetOk, IdsOk, AWG, CaptureUnit, CaptureParamElem
  <2> QED BY <1>1, <2>2, OneField
<1>4. Within({f1}, 40, 128)
  <2>2. BitsOf(c.offset) \subseteq 0 .. 36 - 1
    BY AllBits
  <2> QED BY <1>2, <2>2, OneField
<1>5. Within({f0} \cup {f1}, 24, 128)
  BY <1>3, <1>4, FieldsJoined
<1>6. CaptureAddrSetFields(c) = {f0} \cup {f1}
  BY <1>1, <1>2 DEF CaptureAddrSetFields
<1> QED BY <1>5, <1>6

LEMMA FeedbackCalcOnClassificationWithin ==
  ASSUME NEW c, FeedbackCalcOnClassificationOk(c)
  PROVE  Within(FeedbackCalcOnClassificationFields(c), 24, 128)
<1>1. PICK f0 : f0 = Field(24, 10, c.units)
  OBVIOUS
<1>2. PICK f1 : f1 = Field(40, 36, BitsOf(WordOffset(c)))
  OBVIOUS
<1>3. PICK f2 : f2 = Field(76, 7, BitsOf(ElemOffset(c)))
  OBVIOUS
<1>4. Within({f0}, 24, 40)
  <2>2. c.units \subseteq 0 .. 10 - 1
    BY DEF FeedbackCalcOnClassificationOk, IdsOk, AWG, CaptureUnit, CaptureParamElem
  <2> QED BY <1>1, <2>2, OneField
<1>5. Within({f1}, 40, 76)
  <2>2. BitsOf(WordOffset(c)) \subseteq 0 .. 36 - 1
    BY AllBits
  <2> QED BY <1>2, <2>2, OneField
<1>6. Within({f0} \cup {f1}, 24, 76)
  BY <1>4, <1>5, FieldsJoined
<1>7. Within({f2}, 76, 128)
  <2>1. ElemOffset(c) \in Nat /\ ElemOffset(c) < Pow(7)
    BY ElemOffsetIs
  <2>2. BitsOf(ElemOffset(c)) \subseteq 0 .. 7 - 1
    BY <2>1, BitsBelow
  <2> QED BY <1>3, <2>2, OneField
<1>8. Within(({f0} \cup {f1}) \cup {f2}, 24, 128)
  BY <1>6, <1>7, FieldsJoined
<1>9. FeedbackCalcOnClassificationFields(c) = ({f0} \cup {f1}) \cup {f2}
  BY <1>1, <1>2, <1>3 DEF FeedbackCalcOnClassificationFields
<1> QED BY <1>8, <1>9

LEMMA WaveGenEndFenceWithin ==
  ASSUME NEW c, WaveGenEndFenceOk(c)
  PROVE  Within(WaveGenEndFenceFields(c), 24, 128)
<1>1. PICK f0 : f0 = Field(24, 16, c.awgs)
  OBVIOUS
<1>2. PICK f1 : f1 = Field(40, 64, c.time.bits)
  OBVIOUS
<1>3. PICK f2 : f2 = Field(104, 1, Flag(c.terminate))
  OBVIOUS
<1>4. PICK f3 : f3 = Field(105, 1, Flag(c.wait))
  OBVIOUS
<1>5. Within({f0}, 24, 40)
  <2>2. c.awgs \subseteq 0 .. 16 - 1
    BY DEF WaveGenEndFenceOk, IdsOk, AWG, CaptureUnit, CaptureParamElem
  <2> QED BY <1>1, <2>2, OneField
<1>6. Within({f1}, 40, 104)
  <2>2. c.time.bits \subseteq 0 .. 64 - 1
    BY DEF WaveGenEndFenceOk, TimeOk
  <2> QED BY <1>2, <2>2, OneField
<1>7. Within({f0} \cup {f1}, 24, 104)
  BY <1>5, <1>6, FieldsJoined
<1>8. Within({f2}, 104, 105)
  <2>2. Flag(c.terminate) \subseteq 0 .. 1 - 1
    BY FlagBits
  <2> QED BY <1>3, <2>2, OneField
<1>9. Within(({f0} \cup {f1}) \cup {f2}, 24, 105)
  BY <1>7, <1>8, FieldsJoined
<1>10. Within({f3}, 105, 128)
  <2>2. Flag(c.wait) \subseteq 0 .. 1 - 1
    BY FlagBits
  <2> QED BY <1>4, <2>2, OneField
<1>11. Within((({f0} \cup {f1}) \cup {f2}) \cup {f3}, 24, 128)
  BY <1>9, <1>10, FieldsJoined
<1>12. WaveGenEndFenceFields(c) = (({f0} \cup {f1}) \cup {f2}) \cup {f3}
  BY <1>1, <1>2, <1>3, <1>4 DEF WaveGenEndFenceFields
<1> QED BY <1>11, <1>12

LEMMA ResponsiveFeedbackWithin ==
  ASSUME NEW c, ResponsiveFeedbackOk(c)
  PROVE  Within(ResponsiveFeedbackFields(c), 24, 128)
<1>1. PICK f0 : f0 = Field(24, 16, c.awgs)
  OBVIOUS
<1>2. PICK f1 : f1 = Field(40, 64, StartTime(c.time))
  OBVIOUS
<1>3. PICK f2 : f2 = Field(104, 1, Flag(c.wait))
  OBVIOUS
<1>4. Within({f0}, 24, 40)
  <2>2. c.awgs \subseteq 0 .. 16 - 1
    BY DEF ResponsiveFeedbackOk, IdsOk, AWG, CaptureUnit, CaptureParamElem
  <2> QED BY <1>1, <2>2, OneField
<1>5. Within({f1}, 40, 104)
  <2>2. StartTime(c.time) \subseteq 0 .. 64 - 1
    BY DEF ResponsiveFeedbackOk, TimeOk, StartTime
  <2> QED BY <1>2, <2>2, OneField
<1>6. Within({f0} \cup {f1}, 24, 104)
  BY <1>4, <1>5, FieldsJoined
<1>7. Within({f2}, 104, 128)
  <2>2. Flag(c.wait) \subseteq 0 .. 1 - 1
    BY FlagBits
  <2> QED BY <1>3, <2>2, OneField
<1>8. Within(({f0} \cup {f1}) \cup {f2}, 24, 128)
  BY <1>6, <1>7, FieldsJoined
<1>9. ResponsiveFeedbackFields(c) = ({f0} \cup {f1}) \cup {f2}
  BY <1>1, <1>2, <1>3 DEF ResponsiveFeedbackFields
<1> QED BY <1>8, <1>9

LEMMA WaveSequenceSelectionWithin ==
  ASSUME NEW c, WaveSequenceSelectionOk(c)
  PROVE  Within(WaveSequenceSelectionFields(c), 24, 128)
<1>1. PICK f0 : f0 = Field(24, 16, c.awgs)
  OBVIOUS
<1>2. PICK f1 : f1 = Field(40, 4, BitsOf(c.channel))
  OBVIOUS
<1>3. PICK f3 : f3 = Field(127, 1, Flag(c.trig))
  OBVIOUS
<1>4. Within({f0}, 24, 40)
  <2>2. c.awgs \subseteq 0 .. 16 - 1
    BY DEF WaveSequenceSelectionOk, IdsOk, AWG, CaptureUnit, CaptureParamElem
  <2> QED BY <1>1, <2>2, OneField
<1>5. Within({f1}, 40, 44)
  <2>1. c.channel \in Nat /\ c.channel < Pow(4)
    <3>1. Pow(4) = 16
      BY DEF Pow
    <3> QED BY <3>1 DEF WaveSequenceSelectionOk, FeedbackChannel, FourClassifierChannel
  <2>2. BitsOf(c.channel) \subseteq 0 .. 4 - 1
    BY <2>1, BitsBelow
  <2> QED BY <1>2, <2>2, OneField
<1>6. Within({f0} \cup {f1}, 24, 44)
  BY <1>4, <1>5, FieldsJoined
<1>7. Within(KeyFields(44, c.keys), 44, 84)
  <2>1. KeysOk(c.keys)
    BY DEF WaveSequenceSelectionOk
  <2>2. Within(KeyFields(44, c.keys), 44, 44 + 40)
    BY <2>1, KeyFieldsWithin
  <2> QED BY <2>2
<1>8. Within(({f0} \cup {f1}) \cup KeyFields(44, c.keys), 24, 84)
  BY <1>6, <1>7, FieldsJoined
<1>9. Within({f3}, 84, 128)
  <2>2. Flag(c.trig) \subseteq 0 .. 1 - 1
    BY FlagBits
  <2> QED BY <1>3, <2>2, OneField
<1>10. Within((({f0} \cup {f1}) \cup KeyFields(44, c.keys)) \cup {f3}, 24, 128)
  BY <1>8, <1>9, FieldsJoined
<1>11. WaveSequenceSelectionFields(c) = (({f0} \cup {f1}) \cup KeyFields(44, c.keys)) \cup {f3}
  BY <1>1, <1>2, <1>3 DEF WaveSequenceSelectionFields
<1> QED BY <1>10, <1>11

LEMMA BranchByFlagWithin ==
  ASSUME NEW c, BranchByFlagOk(c)
  PROVE  Within(BranchByFlagFields(c), 24, 128)
<1>1. PICK f0 : f0 = Field(24, 16, BitsOf(c.step % 65536))
  OBVIOUS
<1>2. Within({f0}, 24, 128)
  <2>1. PICK m \in Nat : m = c.step % 65536 /\ m < Pow(16)
    <3>1. Pow(16) = 65536
      BY DEF Pow
    <3>2. c.step \in Int
      BY DEF BranchByFlagOk
    <3> QED BY <3>1, <3>2
  <2>2. BitsOf(c.step % 65536) \subseteq 0 .. 16 - 1
    BY <2>1, BitsBelow
  <2> QED BY <1>1, <2>2, OneField
<1>3. BranchByFlagFields(c) = {f0}
  BY <1>1 DEF BranchByFlagFields
<1> QED BY <1>2, <1>3

LEMMA AwgStartWithExtTrigAndClsValWithin ==
  ASSUME NEW c, AwgStartWithExtTrigAndClsValOk(c)
  PROVE  Within(AwgStartWithExtTrigAndClsValFields(c), 24, 128)
<1>1. PICK f0 : f0 = Field(24, 16, c.awgs)
  OBVIOUS
<1>2. PICK f1 : f1 = Field(40, 64, c.time.bits)
  OBVIOUS
<1>3. PICK f2 : f2 = Field(104, 1, Flag(c.wait))
  OBVIOUS
<1>4. Within({f0}, 24, 40)
  <2>2. c.awgs \subseteq 0 .. 16 - 1
    BY DEF AwgStartWithExtTrigAndClsValOk, IdsOk, AWG, CaptureUnit, CaptureParamElem
  <2> QED BY <1>1, <2>2, OneField
<1>5. Within({f1}, 40, 104)
  <2>2. c.time.bits \subseteq 0 .. 64 - 1
    BY DEF AwgStartWithExtTrigAndClsValOk, TimeOk
  <2> QED BY <1>2, <2>2, OneField
<1>6. Within({f0} \cup {f1}, 24, 104)
  BY <1>4, <1>5, FieldsJoined
<1>7. Within({f2}, 104, 128)
  <2>2. Flag(c.wait) \subseteq 0 .. 1 - 1
    BY FlagBits
  <2> QED BY <1>3, <2>2, OneField
<1>8. Within(({f0} \cup {f1}) \cup {f2}, 24, 128)
  BY <1>6, <1>7, FieldsJoined
<1>9. AwgStartWithExtTrigAndClsValFields(c) = ({f0} \cup {f1}) \cup {f2}
  BY <1>1, <1>2, <1>3 DEF AwgStartWithExtTrigAndClsValFields
<1> QED BY <1>8, <1>9

(* All fields of an accepted command. *)
LEMMA FieldsWithin ==
  ASSUME NEW c, Accepted(c), c.id \in 1 .. 11
  PROVE  Within(Fields(c), 0, 128)
<1>1. Within(HeaderFields(c), 0, 24)
  <2>1. HeaderOk(c)
    BY Classes
  <2> QED BY <2>1, HeaderWithin
<1>2. ASSUME NEW fs, Within(fs, 24, 128), Fields(c) = HeaderFields(c) \cup fs
      PROVE  Within(Fields(c), 0, 128)
  <2>1. Within(HeaderFields(c) \cup fs, 0, 128)
    BY <1>1, <1>2, FieldsJoined
  <2> QED BY <1>2, <2>1
<1>3. CASE c.id = 1
  <2>1. AwgStartOk(c) /\ Fields(c) = HeaderFields(c) \cup AwgStartFields(c)
    BY <1>3, Classes
  <2>2. Within(AwgStartFields(c), 24, 128)
    BY <2>1, AwgStartWithin
  <2> QED BY <1>2, <2>1, <2>2
<1>4. CASE c.id = 2
  <2>1. CaptureEndFenceOk(c) /\ Fields(c) = HeaderFields(c) \cup CaptureEndFenceFields(c)
    BY <1>4, Classes
  <2>2. Within(CaptureEndFenceFields(c), 24, 128)
    BY <2>1, CaptureEndFenceWithin
  <2> QED BY <1>2, <2>1, <2>2
<1>5. CASE c.id = 3
  <2>1. WaveSequenceSetOk(c) /\ Fields(c) = HeaderFields(c) \cup WaveSequenceSetFields(c)
    BY <1>5, Classes
  <2>2. Within(WaveSequenceSetFields(c), 24, 128)
    BY <2>1, WaveSequenceSetWithin
  <2> QED BY <1>2, <2>1, <2>2
<1>6. CASE c.id = 4
  <2>1. CaptureParamSetOk(c) /\ Fields(c) = HeaderFields(c) \cup CaptureParamSetFields(c)
    BY <1>6, Classes
  <2>2. Within(CaptureParamSetFields(c), 24, 128)
    BY <2>1, CaptureParamSetWithin
  <2> QED BY <1>2, <2>1, <2>2
<1>7. CASE c.id = 5
  <2>1. CaptureAddrSetOk(c) /\ Fields(c) = HeaderFields(c) \cup CaptureAddrSetFields(c)
    BY <1>7, Classes
  <2>2. Within(CaptureAddrSetFields(c), 24, 128)
    BY <2>1, CaptureAddrSetWithin
  <2> QED BY <1>2, <2>1, <2>2
<1>8. CASE c.id = 6
  <2>1. FeedbackCalcOnClassificationOk(c)
              /\ Fields(c) = HeaderFields(c) \cup FeedbackCalcOnClassificationFields(c)
    BY <1>8, Classes
  <2>2. Within(FeedbackCalcOnClassificationFields(c), 24, 128)
    BY <2>1, FeedbackCalcOnClassificationWithin
  <2> QED BY <1>2, <2>1, <2>2
<1>9. CASE c.id = 7
  <2>1. WaveGenEndFenceOk(c) /\ Fields(c) = HeaderFields(c) \cup WaveGenEndFenceFields(c)
    BY <1>9, Classes
  <2>2. Within(WaveGenEndFenceFields(c), 24, 128)
    BY <2>1, WaveGenEndFenceWithin
  <2> QED BY <1>2, <2>1, <2>2
<1>10. CASE c.id = 8
  <2>1. ResponsiveFeedbackOk(c) /\ Fields(c) = HeaderFields(c) \cup ResponsiveFeedbackFields(c)
    BY <1>10, Classes
  <2>2. Within(ResponsiveFeedbackFields(c), 24, 128)
    BY <2>1, ResponsiveFeedbackWithin
  <2> QED BY <1>2, <2>1, <2>2
<1>11. CASE c.id = 9
  <2>1. WaveSequenceSelectionOk(c) /\ Fields(c) = HeaderFields(c) \cup WaveSequenceSelectionFields(c)
    BY <1>11, Classes
  <2>2. Within(WaveSequenceSelectionFields(c), 24, 128)
    BY <2>1, WaveSequenceSelectionWithin
  <2> QED BY <1>2, <2>1, <2>2
<1>12. CASE c.id = 10
  <2>1. BranchByFlagOk(c) /\ Fields(c) = HeaderFields(c) \cup BranchByFlagFields(c)
    BY <1>12, Classes
  <2>2. Within(BranchByFlagFields(c), 24, 128)
    BY <2>1, BranchByFlagWithin
  <2> QED BY <1>2, <2>1, <2>2
<1>13. CASE c.id = 11
  <2>1. AwgStartWithExtTrigAndClsValOk(c)
              /\ Fields(c) = HeaderFields(c) \cup AwgStartWithExtTrigAndClsValFields(c)
    BY <1>13, Classes
  <2>2. Within(AwgStartWithExtTrigAndClsValFields(c), 24, 128)
    BY <2>1, AwgStartWithExtTrigAndClsValWithin
  <2> QED BY <1>2, <2>1, <2>2
<1>14. c.id = 1 \/ c.id = 2 \/ c.id = 3 \/ c.id = 4 \/ c.id = 5 \/ c.id = 6 \/ c.id = 7 \/ c.id = 8
       \/ c.id = 9 \/ c.id = 10 \/ c.id = 11
  OBVIOUS
<1> QED BY <1>3, <1>4, <1>5, <1>6, <1>7, <1>8, <1>9, <1>10, <1>11, <1>12, <1>13, <1>14

(* The word and the element that a feedback command names are its classification *)
(* result.                                                                       *)
LEMMA FeedbackAddress ==
  ASSUME NEW c, FeedbackCalcOnClassificationOk(c)
  PROVE  WordOffset(c) * 8 + ElemOffset(c) * 2 = c.offset * 8 + c.elem * 2
<1>1. PICK o \in Nat, e \in Nat : o = c.offset /\ e = c.elem
  BY HwParamConstants DEF FeedbackCalcOnClassificationOk, OffsetOk
<1>2. PICK w \in Nat \ {0} : w = CAPTURE_RAM_WORD_SIZE
  BY HwParamConstants
<1>3. PICK b \in Nat : b = o * 8 + e * 2
  OBVIOUS
<1>4. PICK u \in Nat \ {0} : u = w * 8
  OBVIOUS
<1>5. PICK q \in Nat, m \in Nat : q = b \div u /\ m = b % u /\ b = u * q + m
  BY Remainder
<1>6. (q * w) * 8 = u * q
  BY <1>4
<1>7. b % 2 = 0 /\ (u * q) % 2 = 0
  <2>1. PICK a \in Nat : b = 2 * a
    <3>1. o * 4 + e \in Nat /\ b = 2 * (o * 4 + e)
      BY <1>3
    <3> QED BY <3>1
  <2>2. PICK d \in Nat : u * q = 2 * d
    <3>0. PICK v \in Nat : v = q * w
      OBVIOUS
    <3>1. v * 4 \in Nat /\ u * q = 2 * (v * 4)
      BY <3>0, <1>6
    <3> QED BY <3>1
  <2> QED BY <2>1, <2>2
<1>8. (m \div 2) * 2 = m
  <2>1. PICK p \in Nat : p = u * q
    OBVIOUS
  <2>2. b = p + m /\ b % 2 = 0 /\ p % 2 = 0
    BY <1>5, <1>7, <2>1
  <2> QED BY <2>2
<1>9. BitOffset(c) = b
  BY <1>1, <1>3 DEF BitOffset
<1>10. WordOffset(c) = q * w /\ ElemOffset(c) = m \div 2
  BY <1>2, <1>4, <1>5, <1>9 DEF WordOffset, ElemOffset
<1>11. WordOffset(c) * 8 + ElemOffset(c) * 2 = b
  <2>1. PICK p \in Nat : p = u * q
    OBVIOUS
  <2>2. (q * w) * 8 = p
    BY <1>6, <2>1
  <2> QED BY <1>5, <1>8, <1>10, <2>1, <2>2
<1> QED BY <1>1, <1>3, <1>11

(* What the sequencer reads of a command that was accepted. *)
LEMMA FieldRead ==
  ASSUME NEW r, NEW fs, \A f \in fs : Slice(r, f.at, f.width) = f.bits,
         NEW at, NEW width, NEW bits, Field(at, width, bits) \in fs
  PROVE  Slice(r, at, width) = bits
<1>1. Field(at, width, bits).at = at /\ Field(at, width, bits).width = width
      /\ Field(at, width, bits).bits = bits
  BY DEF Field
<1> QED BY <1>1

(* The offsets of a feedback command, as the sequencer reads them. *)
LEMMA FeedbackRead ==
  ASSUME NEW c, FeedbackCalcOnClassificationOk(c), NEW r,
         \A f \in FeedbackCalcOnClassificationFields(c) : Slice(r, f.at, f.width) = f.bits
  PROVE  Number(Slice(r, 40, 36)) * 8 + Number(Slice(r, 76, 7)) * 2 = c.offset * 8 + c.elem * 2
<1>1. Slice(r, 40, 36) = BitsOf(WordOffset(c))
  <2>1. Field(40, 36, BitsOf(WordOffset(c))) \in FeedbackCalcOnClassificationFields(c)
    BY DEF FeedbackCalcOnClassificationFields
  <2> QED BY <2>1, FieldRead
<1>2. Slice(r, 76, 7) = BitsOf(ElemOffset(c))
  <2>1. Field(76, 7, BitsOf(ElemOffset(c))) \in FeedbackCalcOnClassificationFields(c)
    BY DEF FeedbackCalcOnClassificationFields
  <2> QED BY <2>1, FieldRead
<1>3. PICK p \in Nat : p = Pow(30) /\ p <= Pow(31) /\ Pow(31) \in Nat
            /\ Pow(7) \in Nat /\ Pow(7) <= Pow(31)
  <2>1. 30 \in 0 .. 35 /\ 31 \in 0 .. 35 /\ 7 \in 0 .. 35
    OBVIOUS
  <2>2. Pow(30) \in Nat /\ Pow(31) \in Nat /\ Pow(7) \in Nat
    BY <2>1, Powers
  <2>3. Pow(30) <= Pow(31) /\ Pow(7) <= Pow(31)
    BY <2>1, PowersGrow
  <2> QED BY <2>2, <2>3
<1>4. ElemOffset(c) \in Nat /\ ElemOffset(c) < Pow(7)
  BY ElemOffsetIs
<1>5. Number(BitsOf(ElemOffset(c))) = ElemOffset(c)
  <2>1. ElemOffset(c) < Pow(31)
    BY <1>3, <1>4
  <2> QED BY <1>4, <2>1, NumberOfBits
<1>6. WordOffset(c) \in Nat /\ WordOffset(c) < Pow(31)
  <2>1. PICK m \in Nat : m = MAX_CAPTURE_SIZE /\ m <= p
    <3>1. MAX_CAPTURE_SIZE \in Nat
      BY HwParamConstants
    <3>2. MAX_CAPTURE_SIZE <= Pow(30)
      BY CommandConstants DEF Pow
    <3> QED BY <1>3, <3>1, <3>2
  <2>2. PICK w \in Nat \ {0} : w = CAPTURE_RAM_WORD_SIZE
    BY HwParamConstants
  <2>3. PICK b \in Nat : b = BitOffset(c) /\ b < m * 8
    <3>1. c.offset \in Nat /\ c.elem \in Nat
      BY HwParamConstants DEF FeedbackCalcOnClassificationOk, OffsetOk
    <3>2. BitOffset(c) \in Nat
      BY <3>1 DEF BitOffset
    <3> QED BY <2>1, <3>2 DEF FeedbackCalcOnClassificationOk
  <2>4. PICK u \in Nat \ {0} : u = w * 8
    BY <2>2
  <2>5. PICK q \in Nat, k \in Nat : q = b \div u /\ b = u * q + k
    BY Remainder
  <2>6. PICK x \in Nat : x = q * w /\ u * q = x * 8
    BY <2>2, <2>4
  <2>7. WordOffset(c) = x
    BY <2>2, <2>3, <2>4, <2>5, <2>6 DEF WordOffset
  <2>8. x < m
    BY <2>3, <2>5, <2>6
  <2> QED BY <1>3, <2>1, <2>7, <2>8
<1>7. Number(BitsOf(WordOffset(c))) = WordOffset(c)
  BY <1>6, NumberOfBits
<1> QED BY <1>1, <1>2, <1>5, <1>7, FeedbackAddress

(* The word of an accepted command. *)
LEMMA AcceptedReadBack ==
  ASSUME NEW c \in Candidates, Accepted(c), NEW r, r = Word(Fields(c))
  PROVE  /\ r \subseteq 0 .. 127
         /\ \A f \in Fields(c) : Slice(r, f.at, f.width) = f.bits
         /\ c.id = 6 => Number(Slice(r, 40, 36)) * 8 + Number(Slice(r, 76, 7)) * 2
                          = c.offset * 8 + c.elem * 2
<1>1. c.id \in 1 .. 11
  BY CommandConstants
<1>2. Within(Fields(c), 0, 128)
  BY <1>1, FieldsWithin
<1>3. Word(Fields(c)) \subseteq 0 .. 128 - 1
            /\ \A f \in Fields(c) : Slice(Word(Fields(c)), f.at, f.width) = f.bits
  BY <1>2, ReadBack
<1>4. r \subseteq 0 .. 127
  BY <1>3
<1>5. \A f \in Fields(c) : Slice(r, f.at, f.width) = f.bits
  BY <1>3
<1>6. ASSUME c.id = 6
      PROVE  Number(Slice(r, 40, 36)) * 8 + Number(Slice(r, 76, 7)) * 2 = c.offset * 8 + c.elem * 2
  <2>1. FeedbackCalcOnClassificationOk(c) /\ FeedbackCalcOnClassificationFields(c) \subseteq Fields(c)
    BY <1>6, Classes
  <2>2. \A f \in FeedbackCalcOnClassificationFields(c) : Slice(r, f.at, f.width) = f.bits
    BY <1>5, <2>1
  <2> QED BY <2>1, <2>2, FeedbackRead
<1> QED BY <1>4, <1>5, <1>6

(* The word in hand is that of the command that was constructed. *)
CommandInv ==
  /\ cmd = NoCommand => word = {}
  /\ cmd # NoCommand => cmd \in Candidates /\ Accepted(cmd) /\ word = Word(Fields(cmd))

LEMMA CommandStays == CommandInit => CommandInv
BY DEF CommandInit, CommandInv, NoCommand

LEMMA CommandStep == CommandInv /\ [CommandNext]_commandVars => CommandInv'
<1>1. SUFFICES ASSUME CommandInv, [CommandNext]_commandVars PROVE CommandInv'
  OBVIOUS
<1>2. ASSUME NEW c \in Candidates, Construct(c) PROVE CommandInv'
  <2>1. cmd' = c /\ word' = Word(Fields(c)) /\ Accepted(c)
    BY <1>2 DEF Construct
  <2>2. c.id \in 1 .. 11
    BY CommandConstants
  <2>3. c # NoCommand
    BY <2>2 DEF NoCommand
  <2> QED BY <2>1, <2>3 DEF CommandInv, NoCommand
<1>3. ASSUME UNCHANGED <<cmd, word>> PROVE CommandInv'
  BY <1>1, <1>3 DEF CommandInv
<1>4. ASSUME NEW e \in Reports, ReportError(e) PROVE CommandInv'
  BY <1>3, <1>4 DEF ReportError
<1>5. ASSUME ParseReport PROVE CommandInv'
  BY <1>3, <1>5 DEF ParseReport
<1>6. ASSUME UNCHANGED commandVars PROVE CommandInv'
  BY <1>3, <1>6 DEF commandVars
<1> QED BY <1>1, <1>2, <1>4, <1>5, <1>6 DEF CommandNext

LEMMA CommandInvIsKept == CommandSpec => []CommandInv
BY CommandStays, CommandStep, PTL DEF CommandSpec

(* What the sequencer reads in each field of a word is what the constructor was   *)
(* given, for every command that a constructor accepts.                           *)
THEOREM CommandsAreReadBack == CommandSpec => []CommandReadBack
<1>1. CommandInv => CommandReadBack
  BY AcceptedReadBack DEF CommandInv, CommandReadBack
<1> QED BY <1>1, CommandInvIsKept, PTL

(* A flag is read where it was put. *)
LEMMA FlagRead ==
  ASSUME NEW r, NEW at \in Nat, NEW b \in BOOLEAN, Slice(r, at, 1) = Flag(b)
  PROVE  (at \in r) = b
<1>1. 0 \in Slice(r, at, 1) <=> at \in r
  <2>1. 0 \in 0 .. 1 - 1 /\ at + 0 = at
    OBVIOUS
  <2> QED BY <2>1, InSlice
<1>2. 0 \in Flag(b) <=> b
  BY DEF Flag
<1> QED BY <1>1, <1>2

(* A set of ids is read where it was put. *)
LEMMA AwgsRead ==
  ASSUME NEW r, NEW ids, ids \subseteq AWG, Slice(r, 24, 16) = ids
  PROVE  ErrAwgs(r) = ids
<1>1. ASSUME NEW a \in AWG PROVE 24 + a \in r <=> a \in ids
  <2>1. a \in 0 .. 16 - 1
    BY DEF AWG
  <2> QED BY <2>1, InSlice
<1> QED BY <1>1 DEF ErrAwgs

LEMMA UnitsRead ==
  ASSUME NEW r, NEW ids, ids \subseteq CaptureUnit, Slice(r, 24, 10) = ids
  PROVE  ErrUnits(r) = ids
<1>1. ASSUME NEW a \in CaptureUnit PROVE 24 + a \in r <=> a \in ids
  <2>1. a \in 0 .. 10 - 1
    BY DEF CaptureUnit
  <2> QED BY <2>1, InSlice
<1> QED BY <1>1 DEF ErrUnits

(* A counter of 32 bits is read as it was put, whatever its sign. *)
LEMMA Int32IsRead ==
  ASSUME NEW n \in Int, -(2 ^ 30) - (2 ^ 30) <= n, n - (2 ^ 30) < 2 ^ 30
  PROVE  Int32Bits(n) \subseteq 0 .. 31 /\ ToInt32(Int32Bits(n)) = n
<1>1. Pow(31) = Pow(30) + Pow(30) /\ Pow(30) \in Nat /\ Pow(31) \in Nat
  <2>1. 30 \in 0 .. 34 /\ 30 + 1 = 31
    OBVIOUS
  <2>2. Pow(30) \in Nat \ {0} /\ Pow(31) = 2 * Pow(30) /\ Pow(31) \in Nat \ {0}
    BY <2>1, Doubling
  <2> QED BY <2>2
<1>2. PICK p \in Nat : p = Pow(31) /\ -p <= n /\ n < p
  <2>1. -Pow(30) - Pow(30) <= n /\ n - Pow(30) < Pow(30)
    BY DEF Pow
  <2> QED BY <1>1, <2>1
<1>3. ASSUME NEW m \in Nat, m < p
      PROVE  BitsOf(m) \subseteq 0 .. 30 /\ Number(BitsOf(m)) = m
  <2>1. BitsOf(m) \subseteq 0 .. 30
    BY DEF BitsOf
  <2> QED BY <1>2, <1>3, <2>1, NumberOfBits
<1>4. CASE n < 0
  <2>1. PICK m \in Nat : m = -n - 1 /\ m < p
    BY <1>2, <1>4
  <2>2. Int32Bits(n) = (0 .. 31) \ BitsOf(m)
    BY <1>4, <2>1 DEF Int32Bits
  <2>3. BitsOf(m) \subseteq 0 .. 30 /\ Number(BitsOf(m)) = m
    BY <1>3, <2>1
  <2>4. 31 \in Int32Bits(n) /\ (0 .. 31) \ Int32Bits(n) = BitsOf(m) /\ Int32Bits(n) \subseteq 0 .. 31
    BY <2>2, <2>3
  <2>5. ToInt32(Int32Bits(n)) = -Number((0 .. 31) \ Int32Bits(n)) - 1
    BY <2>4 DEF ToInt32
  <2>6. ToInt32(Int32Bits(n)) = -m - 1
    BY <2>3, <2>4, <2>5
  <2> QED BY <2>1, <2>4, <2>6
<1>5. CASE ~(n < 0)
  <2>1. n \in Nat /\ n < p
    BY <1>2, <1>5
  <2>2. Int32Bits(n) = BitsOf(n)
    BY <1>5 DEF Int32Bits
  <2>3. BitsOf(n) \subseteq 0 .. 30 /\ Number(BitsOf(n)) = n
    BY <1>3, <2>1
  <2>4. 31 \notin Int32Bits(n) /\ Int32Bits(n) \subseteq 0 .. 31
    BY <2>2, <2>3
  <2> QED BY <2>2, <2>3, <2>4 DEF ToInt32
<1> QED BY <1>4, <1>5

(* What every report begins with. *)
ReportHeader(e) ==
  {Field(0, 1, Flag(e.terminated)), Field(1, 7, BitsOf(e.id)), Field(8, 16, BitsOf(e.no))}

(* The id, number and fields of a report are read as they were put. *)
ReportReads(e, r, fs) ==
  /\ CmdId(r) = e.id /\ CmdNo(r) = e.no /\ Terminated(r) = e.terminated
  /\ \A f \in fs : Slice(r, f.at, f.width) = f.bits

(* The id and the number of a report. *)
LEMMA NumberRead ==
  ASSUME NEW n \in Nat, NEW w \in 0 .. 30, n < Pow(w)
  PROVE  Number(BitsOf(n)) = n
<1>1. Pow(w) <= Pow(31) /\ Pow(w) \in Nat /\ Pow(31) \in Nat
  <2>1. w \in 0 .. 35 /\ 31 \in 0 .. 35 /\ w <= 31
    OBVIOUS
  <2> QED BY <2>1, Powers, PowersGrow
<1>2. n < Pow(31)
  BY <1>1
<1> QED BY <1>2, NumberOfBits

LEMMA SmallReport ==
  ASSUME NEW e, e.id \in 1 .. 11, e.no \in Nat, e.no < Pow(16)
  PROVE  e.id \in Nat /\ e.id < Pow(7) /\ Number(BitsOf(e.id)) = e.id /\ Number(BitsOf(e.no)) = e.no
<1>1. e.id \in Nat /\ e.id < Pow(7)
  <2>1. Pow(7) = 128
    BY DEF Pow
  <2> QED BY <2>1
<1>2. 7 \in 0 .. 30 /\ 16 \in 0 .. 30
  OBVIOUS
<1>3. Number(BitsOf(e.id)) = e.id
  BY <1>1, <1>2, NumberRead
<1>4. Number(BitsOf(e.no)) = e.no
  BY <1>2, NumberRead
<1> QED BY <1>1, <1>3, <1>4

LEMMA ReportHeaderWithin ==
  ASSUME NEW e, e.id \in 1 .. 11, e.no \in Nat, e.no < Pow(16)
  PROVE  Within(ReportHeader(e), 0, 24)
<1>1. PICK f : f = Field(0, 1, Flag(e.terminated))
  OBVIOUS
<1>2. PICK g : g = Field(1, 7, BitsOf(e.id))
  OBVIOUS
<1>3. PICK h : h = Field(8, 16, BitsOf(e.no))
  OBVIOUS
<1>4. Within({f}, 0, 1)
  BY <1>1, FlagBits, OneField
<1>5. Within({g}, 1, 8)
  <2>1. e.id \in Nat /\ e.id < Pow(7)
    BY SmallReport
  <2>2. BitsOf(e.id) \subseteq 0 .. 7 - 1
    BY <2>1, BitsBelow
  <2> QED BY <1>2, <2>2, OneField
<1>6. Within({h}, 8, 24)
  <2>1. BitsOf(e.no) \subseteq 0 .. 16 - 1
    BY BitsBelow
  <2> QED BY <1>3, <2>1, OneField
<1>7. Within({f} \cup {g}, 0, 8)
  BY <1>4, <1>5, FieldsJoined
<1>8. Within(({f} \cup {g}) \cup {h}, 0, 24)
  BY <1>6, <1>7, FieldsJoined
<1>9. ReportHeader(e) = ({f} \cup {g}) \cup {h}
  BY <1>1, <1>2, <1>3 DEF ReportHeader
<1> QED BY <1>8, <1>9

(* The word of a report. *)
LEMMA ReportIsRead ==
  ASSUME NEW e, e.id \in 1 .. 11, e.no \in Nat, e.no < Pow(16), e.terminated \in BOOLEAN,
         NEW fs, Within(fs, 24, 128), NEW r, r = Word(ReportHeader(e) \cup fs)
  PROVE  ReportReads(e, r, fs)
<1>1. Within(ReportHeader(e) \cup fs, 0, 128)
  <2>1. Within(ReportHeader(e), 0, 24)
    BY ReportHeaderWithin
  <2> QED BY <2>1, FieldsJoined
<1>2. \A f \in ReportHeader(e) \cup fs : Slice(r, f.at, f.width) = f.bits
  BY <1>1, ReadBack
<1>3. Slice(r, 0, 1) = Flag(e.terminated)
  <2>1. Field(0, 1, Flag(e.terminated)) \in ReportHeader(e) \cup fs
    BY DEF ReportHeader
  <2> QED BY <1>2, <2>1, FieldRead
<1>4. Slice(r, 1, 7) = BitsOf(e.id)
  <2>1. Field(1, 7, BitsOf(e.id)) \in ReportHeader(e) \cup fs
    BY DEF ReportHeader
  <2> QED BY <1>2, <2>1, FieldRead
<1>5. Slice(r, 8, 16) = BitsOf(e.no)
  <2>1. Field(8, 16, BitsOf(e.no)) \in ReportHeader(e) \cup fs
    BY DEF ReportHeader
  <2> QED BY <1>2, <2>1, FieldRead
<1>6. (0 \in r) = e.terminated
  BY <1>3, FlagRead
<1>7. CmdId(r) = e.id /\ CmdNo(r) = e.no
  BY <1>4, <1>5, SmallReport DEF CmdId, CmdNo
<1>8. Terminated(r) = e.terminated
  BY <1>6 DEF Terminated
<1>9. \A f \in fs : Slice(r, f.at, f.width) = f.bits
  BY <1>2
<1> QED BY <1>7, <1>8, <1>9 DEF ReportReads

(* What the receiver makes of a report, for each class of commands. *)
LEMMA AwgStartErrIsTold ==
  ASSUME NEW e \in [id : {1}, no : Nat, terminated : BOOLEAN, awgs : SUBSET AWG],
         e.no < Pow(16), NEW r, r = Word(ReportFields(e))
  PROVE  AwgStartCmdErr(r) = e
<1>1. e.id = 1 /\ e.id \in 1 .. 11 /\ e.no \in Nat /\ e.terminated \in BOOLEAN
  OBVIOUS
<1>2. PICK f0 : f0 = Field(24, 16, e.awgs)
  OBVIOUS
<1>3. Within({f0}, 24, 128)
  <2>1. e.awgs \subseteq 0 .. 16 - 1
    BY DEF AWG, CaptureUnit
  <2> QED BY <1>2, <2>1, OneField
<1>4. PICK fs : fs = {f0}
  OBVIOUS
<1>5. Within(fs, 24, 128)
  BY <1>3, <1>4
<1>6. ReportFields(e) = ReportHeader(e) \cup fs
  BY <1>1, <1>2, <1>4 DEF ReportFields, ReportHeader
<1>7. ReportReads(e, r, fs)
  BY <1>1, <1>5, <1>6, ReportIsRead
<1>8. CmdId(r) = e.id /\ CmdNo(r) = e.no /\ Terminated(r) = e.terminated
  BY <1>7 DEF ReportReads
<1>9. Slice(r, 24, 16) = e.awgs
  <2>1. Field(24, 16, e.awgs) \in fs
    BY <1>2, <1>4
  <2>2. \A g \in fs : Slice(r, g.at, g.width) = g.bits
    BY <1>7 DEF ReportReads
  <2> QED BY <2>1, <2>2, FieldRead
<1>10. ErrAwgs(r) = e.awgs
  BY <1>9, AwgsRead
<1> QED BY <1>8, <1>10 DEF AwgStartCmdErr

LEMMA CaptureEndFenceErrIsTold ==
  ASSUME NEW e \in [id : {2}, no : Nat, terminated : BOOLEAN,
                       units : SUBSET CaptureUnit, inTime : BOOLEAN],
         e.no < Pow(16), NEW r, r = Word(ReportFields(e))
  PROVE  CaptureEndFenceCmdErr(r) = e
<1>1. e.id = 2 /\ e.id \in 1 .. 11 /\ e.no \in Nat /\ e.terminated \in BOOLEAN
  OBVIOUS
<1>2. PICK f0 : f0 = Field(24, 10, e.units)
  OBVIOUS
<1>3. PICK f1 : f1 = Field(34, 1, Flag(~e.inTime))
  OBVIOUS
<1>4. Within({f0}, 24, 34)
  <2>1. e.units \subseteq 0 .. 10 - 1
    BY DEF AWG, CaptureUnit
  <2> QED BY <1>2, <2>1, OneField
<1>5. Within({f1}, 34, 128)
  BY <1>3, FlagBits, OneField
<1>6. Within({f0} \cup {f1}, 24, 128)
  BY <1>4, <1>5, FieldsJoined
<1>7. PICK fs : fs = {f0} \cup {f1}
  OBVIOUS
<1>8. Within(fs, 24, 128)
  BY <1>6, <1>7
<1>9. ReportFields(e) = ReportHeader(e) \cup fs
  BY <1>1, <1>2, <1>3, <1>7 DEF ReportFields, ReportHeader
<1>10. ReportReads(e, r, fs)
  BY <1>1, <1>8, <1>9, ReportIsRead
<1>11. CmdId(r) = e.id /\ CmdNo(r) = e.no /\ Terminated(r) = e.terminated
  BY <1>10 DEF ReportReads
<1>12. Slice(r, 24, 10) = e.units
  <2>1. Field(24, 10, e.units) \in fs
    BY <1>2, <1>7
  <2>2. \A g \in fs : Slice(r, g.at, g.width) = g.bits
    BY <1>10 DEF ReportReads
  <2> QED BY <2>1, <2>2, FieldRead
<1>13. ErrUnits(r) = e.units
  BY <1>12, UnitsRead
<1>14. Slice(r, 34, 1) = Flag(~e.inTime)
  <2>1. Field(34, 1, Flag(~e.inTime)) \in fs
    BY <1>3, <1>7
  <2>2. \A g \in fs : Slice(r, g.at, g.width) = g.bits
    BY <1>10 DEF ReportReads
  <2> QED BY <2>1, <2>2, FieldRead
<1>15. (34 \in r) = (~e.inTime)
  <2>1. PICK b \in BOOLEAN : b = ~e.inTime
    OBVIOUS
  <2>2. Slice(r, 34, 1) = Flag(b)
    BY <1>14, <2>1
  <2>3. (34 \in r) = b
    BY <2>2, FlagRead
  <2> QED BY <2>1, <2>3
<1>16. InTime(r, 2) = e.inTime
  <2>1. e.inTime \in BOOLEAN
    OBVIOUS
  <2> QED BY <1>15, <2>1 DEF InTime
<1> QED BY <1>11, <1>13, <1>16 DEF CaptureEndFenceCmdErr

LEMMA WaveSequenceSetErrIsTold ==
  ASSUME NEW e \in [id : {3}, no : Nat, terminated : BOOLEAN,
                       readErr : BOOLEAN, writeErr : BOOLEAN],
         e.no < Pow(16), NEW r, r = Word(ReportFields(e))
  PROVE  WaveSequenceSetCmdErr(r) = e
<1>1. e.id = 3 /\ e.id \in 1 .. 11 /\ e.no \in Nat /\ e.terminated \in BOOLEAN
  OBVIOUS
<1>2. PICK f0 : f0 = Field(24, 1, Flag(e.readErr))
  OBVIOUS
<1>3. PICK f1 : f1 = Field(25, 1, Flag(e.writeErr))
  OBVIOUS
<1>4. Within({f0}, 24, 25)
  BY <1>2, FlagBits, OneField
<1>5. Within({f1}, 25, 128)
  BY <1>3, FlagBits, OneField
<1>6. Within({f0} \cup {f1}, 24, 128)
  BY <1>4, <1>5, FieldsJoined
<1>7. PICK fs : fs = {f0} \cup {f1}
  OBVIOUS
<1>8. Within(fs, 24, 128)
  BY <1>6, <1>7
<1>9. ReportFields(e) = ReportHeader(e) \cup fs
  BY <1>1, <1>2, <1>3, <1>7 DEF ReportFields, ReportHeader
<1>10. ReportReads(e, r, fs)
  BY <1>1, <1>8, <1>9, ReportIsRead
<1>11. CmdId(r) = e.id /\ CmdNo(r) = e.no /\ Terminated(r) = e.terminated
  BY <1>10 DEF ReportReads
<1>12. Slice(r, 24, 1) = Flag(e.readErr)
  <2>1. Field(24, 1, Flag(e.readErr)) \in fs
    BY <1>2, <1>7
  <2>2. \A g \in fs : Slice(r, g.at, g.width) = g.bits
    BY <1>10 DEF ReportReads
  <2> QED BY <2>1, <2>2, FieldRead
<1>13. (24 \in r) = e.readErr
  <2>1. e.readErr \in BOOLEAN
    OBVIOUS
  <2> QED BY <2>1, <1>12, FlagRead
<1>14. ReadErr(r, 3) = e.readErr
  BY <1>13 DEF ReadErr, ErrorBit
<1>15. Slice(r, 25, 1) = Flag(e.writeErr)
  <2>1. Field(25, 1, Flag(e.writeErr)) \in fs
    BY <1>3, <1>7
  <2>2. \A g \in fs : Slice(r, g.at, g.width) = g.bits
    BY <1>10 DEF ReportReads
  <2> QED BY <2>1, <2>2, FieldRead
<1>16. (25 \in r) = e.writeErr
  <2>1. e.writeErr \in BOOLEAN
    OBVIOUS
  <2> QED BY <2>1, <1>15, FlagRead
<1>17. WriteErr(r, 3) = e.writeErr
  BY <1>16 DEF WriteErr, ErrorBit
<1> QED BY <1>11, <1>14, <1>17 DEF WaveSequenceSetCmdErr

LEMMA CaptureParamSetErrIsTold ==
  ASSUME NEW e \in [id : {4}, no : Nat, terminated : BOOLEAN,
                       readErr : BOOLEAN, writeErr : BOOLEAN],
         e.no < Pow(16), NEW r, r = Word(ReportFields(e))
  PROVE  CaptureParamSetCmdErr(r) = e
<1>1. e.id = 4 /\ e.id \in 1 .. 11 /\ e.no \in Nat /\ e.terminated \in BOOLEAN
  OBVIOUS
<1>2. PICK f0 : f0 = Field(24, 1, Flag(e.readErr))
  OBVIOUS
<1>3. PICK f1 : f1 = Field(25, 1, Flag(e.writeErr))
  OBVIOUS
<1>4. Within({f0}, 24, 25)
  BY <1>2, FlagBits, OneField
<1>5. Within({f1}, 25, 128)
  BY <1>3, FlagBits, OneField
<1>6. Within({f0} \cup {f1}, 24, 128)
  BY <1>4, <1>5, FieldsJoined
<1>7. PICK fs : fs = {f0} \cup {f1}
  OBVIOUS
<1>8. Within(fs, 24, 128)
  BY <1>6, <1>7
<1>9. ReportFields(e) = ReportHeader(e) \cup fs
  BY <1>1, <1>2, <1>3, <1>7 DEF ReportFields, ReportHeader
<1>10. ReportReads(e, r, fs)
  BY <1>1, <1>8, <1>9, ReportIsRead
<1>11. CmdId(r) = e.id /\ CmdNo(r) = e.no /\ Terminated(r) = e.terminated
  BY <1>10 DEF ReportReads
<1>12. Slice(r, 24, 1) = Flag(e.readErr)
  <2>1. Field(24, 1, Flag(e.readErr)) \in fs
    BY <1>2, <1>7
  <2>2. \A g \in fs : Slice(r, g.at, g.width) = g.bits
    BY <1>10 DEF ReportReads
  <2> QED BY <2>1, <2>2, FieldRead
<1>13. (24 \in r) = e.readErr
  <2>1. e.readErr \in BOOLEAN
    OBVIOUS
  <2> QED BY <2>1, <1>12, FlagRead
<1>14. ReadErr(r, 4) = e.readErr
  BY <1>13 DEF ReadErr, ErrorBit
<1>15. Slice(r, 25, 1) = Flag(e.writeErr)
  <2>1. Field(25, 1, Flag(e.writeErr)) \in fs
    BY <1>3, <1>7
  <2>2. \A g \in fs : Slice(r, g.at, g.width) = g.bits
    BY <1>10 DEF ReportReads
  <2> QED BY <2>1, <2>2, FieldRead
<1>16. (25 \in r) = e.writeErr
  <2>1. e.writeErr \in BOOLEAN
    OBVIOUS
  <2> QED BY <2>1, <1>15, FlagRead
<1>17. WriteErr(r, 4) = e.writeErr
  BY <1>16 DEF WriteErr, ErrorBit
<1> QED BY <1>11, <1>14, <1>17 DEF CaptureParamSetCmdErr

LEMMA CaptureAddrSetErrIsTold ==
  ASSUME NEW e \in [id : {5}, no : Nat, terminated : BOOLEAN, writeErr : BOOLEAN],
         e.no < Pow(16), NEW r, r = Word(ReportFields(e))
  PROVE  CaptureAddrSetCmdErr(r) = e
<1>1. e.id = 5 /\ e.id \in 1 .. 11 /\ e.no \in Nat /\ e.terminated \in BOOLEAN
  OBVIOUS
<1>2. PICK f0 : f0 = Field(25, 1, Flag(e.writeErr))
  OBVIOUS
<1>3. Within({f0}, 24, 128)
  BY <1>2, FlagBits, OneField
<1>4. PICK fs : fs = {f0}
  OBVIOUS
<1>5. Within(fs, 24, 128)
  BY <1>3, <1>4
<1>6. ReportFields(e) = ReportHeader(e) \cup fs
  BY <1>1, <1>2, <1>4 DEF ReportFields, ReportHeader
<1>7. ReportReads(e, r, fs)
  BY <1>1, <1>5, <1>6, ReportIsRead
<1>8. CmdId(r) = e.id /\ CmdNo(r) = e.no /\ Terminated(r) = e.terminated
  BY <1>7 DEF ReportReads
<1>9. Slice(r, 25, 1) = Flag(e.writeErr)
  <2>1. Field(25, 1, Flag(e.writeErr)) \in fs
    BY <1>2, <1>4
  <2>2. \A g \in fs : Slice(r, g.at, g.width) = g.bits
    BY <1>7 DEF ReportReads
  <2> QED BY <2>1, <2>2, FieldRead
<1>10. (25 \in r) = e.writeErr
  <2>1. e.writeErr \in BOOLEAN
    OBVIOUS
  <2> QED BY <2>1, <1>9, FlagRead
<1>11. WriteErr(r, 5) = e.writeErr
  BY <1>10 DEF WriteErr, ErrorBit
<1> QED BY <1>8, <1>11 DEF CaptureAddrSetCmdErr

LEMMA FeedbackCalcOnClassificationErrIsTold ==
  ASSUME NEW e \in [id : {6}, no : Nat, terminated : BOOLEAN, readErr : BOOLEAN],
         e.no < Pow(16), NEW r, r = Word(ReportFields(e))
  PROVE  FeedbackCalcOnClassificationCmdErr(r) = e
<1>1. e.id = 6 /\ e.id \in 1 .. 11 /\ e.no \in Nat /\ e.terminated \in BOOLEAN
  OBVIOUS
<1>2. PICK f0 : f0 = Field(24, 1, Flag(e.readErr))
  OBVIOUS
<1>3. Within({f0}, 24, 128)
  BY <1>2, FlagBits, OneField
<1>4. PICK fs : fs = {f0}
  OBVIOUS
<1>5. Within(fs, 24, 128)
  BY <1>3, <1>4
<1>6. ReportFields(e) = ReportHeader(e) \cup fs
  BY <1>1, <1>2, <1>4 DEF ReportFields, ReportHeader
<1>7. ReportReads(e, r, fs)
  BY <1>1, <1>5, <1>6, ReportIsRead
<1>8. CmdId(r) = e.id /\ CmdNo(r) = e.no /\ Terminated(r) = e.terminated
  BY <1>7 DEF ReportReads
<1>9. Slice(r, 24, 1) = Flag(e.readErr)
  <2>1. Field(24, 1, Flag(e.readErr)) \in fs
    BY <1>2, <1>4
  <2>2. \A g \in fs : Slice(r, g.at, g.width) = g.bits
    BY <1>7 DEF ReportReads
  <2> QED BY <2>1, <2>2, FieldRead
<1>10. (24 \in r) = e.readErr
  <2>1. e.readErr \in BOOLEAN
    OBVIOUS
  <2> QED BY <2>1, <1>9, FlagRead
<1>11. ReadErr(r, 6) = e.readErr
  BY <1>10 DEF ReadErr, ErrorBit
<1> QED BY <1>8, <1>11 DEF FeedbackCalcOnClassificationCmdErr

LEMMA WaveGenEndFenceErrIsTold ==
  ASSUME NEW e \in [id : {7}, no : Nat, terminated : BOOLEAN,
                       awgs : SUBSET AWG, inTime : BOOLEAN],
         e.no < Pow(16), NEW r, r = Word(ReportFields(e))
  PROVE  WaveGenEndFenceCmdErr(r) = e
<1>1. e.id = 7 /\ e.id \in 1 .. 11 /\ e.no \in Nat /\ e.terminated \in BOOLEAN
  OBVIOUS
<1>2. PICK f0 : f0 = Field(24, 16, e.awgs)
  OBVIOUS
<1>3. PICK f1 : f1 = Field(40, 1, Flag(~e.inTime))
  OBVIOUS
<1>4. Within({f0}, 24, 40)
  <2>1. e.awgs \subseteq 0 .. 16 - 1
    BY DEF AWG, CaptureUnit
  <2> QED BY <1>2, <2>1, OneField
<1>5. Within({f1}, 40, 128)
  BY <1>3, FlagBits, OneField
<1>6. Within({f0} \cup {f1}, 24, 128)
  BY <1>4, <1>5, FieldsJoined
<1>7. PICK fs : fs = {f0} \cup {f1}
  OBVIOUS
<1>8. Within(fs, 24, 128)
  BY <1>6, <1>7
<1>9. ReportFields(e) = ReportHeader(e) \cup fs
  BY <1>1, <1>2, <1>3, <1>7 DEF ReportFields, ReportHeader
<1>10. ReportReads(e, r, fs)
  BY <1>1, <1>8, <1>9, ReportIsRead
<1>11. CmdId(r) = e.id /\ CmdNo(r) = e.no /\ Terminated(r) = e.terminated
  BY <1>10 DEF ReportReads
<1>12. Slice(r, 24, 16) = e.awgs
  <2>1. Field(24, 16, e.awgs) \in fs
    BY <1>2, <1>7
  <2>2. \A g \in fs : Slice(r, g.at, g.width) = g.bits
    BY <1>10 DEF ReportReads
  <2> QED BY <2>1, <2>2, FieldRead
<1>13. ErrAwgs(r) = e.awgs
  BY <1>12, AwgsRead
<1>14. Slice(r, 40, 1) = Flag(~e.inTime)
  <2>1. Field(40, 1, Flag(~e.inTime)) \in fs
    BY <1>3, <1>7
  <2>2. \A g \in fs : Slice(r, g.at, g.width) = g.bits
    BY <1>10 DEF ReportReads
  <2> QED BY <2>1, <2>2, FieldRead
<1>15. (40 \in r) = (~e.inTime)
  <2>1. PICK b \in BOOLEAN : b = ~e.inTime
    OBVIOUS
  <2>2. Slice(r, 40, 1) = Flag(b)
    BY <1>14, <2>1
  <2>3. (40 \in r) = b
    BY <2>2, FlagRead
  <2> QED BY <2>1, <2>3
<1>16. InTime(r, 7) = e.inTime
  <2>1. e.inTime \in BOOLEAN
    OBVIOUS
  <2> QED BY <1>15, <2>1 DEF InTime
<1> QED BY <1>11, <1>13, <1>16 DEF WaveGenEndFenceCmdErr

LEMMA ResponsiveFeedbackErrIsTold ==
  ASSUME NEW e \in [id : {8}, no : Nat, terminated : BOOLEAN, awgs : SUBSET AWG,
                       readErr : BOOLEAN, writeErr : BOOLEAN],
         e.no < Pow(16), NEW r, r = Word(ReportFields(e))
  PROVE  ResponsiveFeedbackCmdErr(r) = e
<1>1. e.id = 8 /\ e.id \in 1 .. 11 /\ e.no \in Nat /\ e.terminated \in BOOLEAN
  OBVIOUS
<1>2. PICK f0 : f0 = Field(24, 16, e.awgs)
  OBVIOUS
<1>3. PICK f1 : f1 = Field(40, 1, Flag(e.readErr))
  OBVIOUS
<1>4. PICK f2 : f2 = Field(41, 1, Flag(e.writeErr))
  OBVIOUS
<1>5. Within({f0}, 24, 40)
  <2>1. e.awgs \subseteq 0 .. 16 - 1
    BY DEF AWG, CaptureUnit
  <2> QED BY <1>2, <2>1, OneField
<1>6. Within({f1}, 40, 41)
  BY <1>3, FlagBits, OneField
<1>7. Within({f0} \cup {f1}, 24, 41)
  BY <1>5, <1>6, FieldsJoined
<1>8. Within({f2}, 41, 128)
  BY <1>4, FlagBits, OneField
<1>9. Within(({f0} \cup {f1}) \cup {f2}, 24, 128)
  BY <1>7, <1>8, FieldsJoined
<1>10. PICK fs : fs = ({f0} \cup {f1}) \cup {f2}
  OBVIOUS
<1>11. Within(fs, 24, 128)
  BY <1>9, <1>10
<1>12. ReportFields(e) = ReportHeader(e) \cup fs
  BY <1>1, <1>2, <1>3, <1>4, <1>10 DEF ReportFields, ReportHeader
<1>13. ReportReads(e, r, fs)
  BY <1>1, <1>11, <1>12, ReportIsRead
<1>14. CmdId(r) = e.id /\ CmdNo(r) = e.no /\ Terminated(r) = e.terminated
  BY <1>13 DEF ReportReads
<1>15. Slice(r, 24, 16) = e.awgs
  <2>1. Field(24, 16, e.awgs) \in fs
    BY <1>2, <1>10
  <2>2. \A g \in fs : Slice(r, g.at, g.width) = g.bits
    BY <1>13 DEF ReportReads
  <2> QED BY <2>1, <2>2, FieldRead
<1>16. ErrAwgs(r) = e.awgs
  BY <1>15, AwgsRead
<1>17. Slice(r, 40, 1) = Flag(e.readErr)
  <2>1. Field(40, 1, Flag(e.readErr)) \in fs
    BY <1>3, <1>10
  <2>2. \A g \in fs : Slice(r, g.at, g.width) = g.bits
    BY <1>13 DEF ReportReads
  <2> QED BY <2>1, <2>2, FieldRead
<1>18. (40 \in r) = e.readErr
  <2>1. e.readErr \in BOOLEAN
    OBVIOUS
  <2> QED BY <2>1, <1>17, FlagRead
<1>19. ReadErr(r, 8) = e.readErr
  BY <1>18 DEF ReadErr, ErrorBit
<1>20. Slice(r, 41, 1) = Flag(e.writeErr)
  <2>1. Field(41, 1, Flag(e.writeErr)) \in fs
    BY <1>4, <1>10
  <2>2. \A g \in fs : Slice(r, g.at, g.width) = g.bits
    BY <1>13 DEF ReportReads
  <2> QED BY <2>1, <2>2, FieldRead
<1>21. (41 \in r) = e.writeErr
  <2>1. e.writeErr \in BOOLEAN
    OBVIOUS
  <2> QED BY <2>1, <1>20, FlagRead
<1>22. WriteErr(r, 8) = e.writeErr
  BY <1>21 DEF WriteErr, ErrorBit
<1> QED BY <1>14, <1>16, <1>19, <1>22 DEF ResponsiveFeedbackCmdErr

LEMMA WaveSequenceSelectionErrIsTold ==
  ASSUME NEW e \in [id : {9}, no : Nat, terminated : BOOLEAN],
         e.no < Pow(16), NEW r, r = Word(ReportFields(e))
  PROVE  WaveSequenceSelectionCmdErr(r) = e
<1>1. e.id = 9 /\ e.id \in 1 .. 11 /\ e.no \in Nat /\ e.terminated \in BOOLEAN
  OBVIOUS
<1>2. PICK fs : fs = {}
  OBVIOUS
<1>3. Within(fs, 24, 128)
  BY <1>2, NoField
<1>4. ReportFields(e) = ReportHeader(e) \cup fs
  BY <1>1, <1>2 DEF ReportFields, ReportHeader
<1>5. ReportReads(e, r, fs)
  BY <1>1, <1>3, <1>4, ReportIsRead
<1>6. CmdId(r) = e.id /\ CmdNo(r) = e.no /\ Terminated(r) = e.terminated
  BY <1>5 DEF ReportReads
<1> QED BY <1>6 DEF WaveSequenceSelectionCmdErr

LEMMA BranchByFlagErrIsTold ==
  ASSUME NEW e \in [id : {10}, no : Nat, terminated : BOOLEAN,
                       outOfRange : BOOLEAN, counter : Int],
         e.no < Pow(16), NEW r, r = Word(ReportFields(e)),
         -(2 ^ 30) - (2 ^ 30) <= e.counter, e.counter - (2 ^ 30) < 2 ^ 30
  PROVE  BranchByFlagCmdErr(r) = e
<1>1. e.id = 10 /\ e.id \in 1 .. 11 /\ e.no \in Nat /\ e.terminated \in BOOLEAN
  OBVIOUS
<1>2. PICK f0 : f0 = Field(24, 1, Flag(e.outOfRange))
  OBVIOUS
<1>3. PICK f1 : f1 = Field(32, 32, Int32Bits(e.counter))
  OBVIOUS
<1>4. Within({f0}, 24, 32)
  BY <1>2, FlagBits, OneField
<1>5. Within({f1}, 32, 128)
  <2>1. Int32Bits(e.counter) \subseteq 0 .. 32 - 1
    BY Int32IsRead
  <2> QED BY <1>3, <2>1, OneField
<1>6. Within({f0} \cup {f1}, 24, 128)
  BY <1>4, <1>5, FieldsJoined
<1>7. PICK fs : fs = {f0} \cup {f1}
  OBVIOUS
<1>8. Within(fs, 24, 128)
  BY <1>6, <1>7
<1>9. ReportFields(e) = ReportHeader(e) \cup fs
  BY <1>1, <1>2, <1>3, <1>7 DEF ReportFields, ReportHeader
<1>10. ReportReads(e, r, fs)
  BY <1>1, <1>8, <1>9, ReportIsRead
<1>11. CmdId(r) = e.id /\ CmdNo(r) = e.no /\ Terminated(r) = e.terminated
  BY <1>10 DEF ReportReads
<1>12. Slice(r, 24, 1) = Flag(e.outOfRange)
  <2>1. Field(24, 1, Flag(e.outOfRange)) \in fs
    BY <1>2, <1>7
  <2>2. \A g \in fs : Slice(r, g.at, g.width) = g.bits
    BY <1>10 DEF ReportReads
  <2> QED BY <2>1, <2>2, FieldRead
<1>13. (24 \in r) = e.outOfRange
  <2>1. e.outOfRange \in BOOLEAN
    OBVIOUS
  <2> QED BY <2>1, <1>12, FlagRead
<1>14. Slice(r, 32, 32) = Int32Bits(e.counter)
  <2>1. Field(32, 32, Int32Bits(e.counter)) \in fs
    BY <1>3, <1>7
  <2>2. \A g \in fs : Slice(r, g.at, g.width) = g.bits
    BY <1>10 DEF ReportReads
  <2> QED BY <2>1, <2>2, FieldRead
<1>15. ToInt32(Slice(r, 32, 32)) = e.counter
  BY <1>14, Int32IsRead
<1> QED BY <1>11, <1>13, <1>15 DEF BranchByFlagCmdErr

LEMMA AwgStartWithExtTrigAndClsValErrIsTold ==
  ASSUME NEW e \in [id : {11}, no : Nat, terminated : BOOLEAN, awgs : SUBSET AWG,
                       readErr : BOOLEAN, writeErr : BOOLEAN, timeoutErr : BOOLEAN],
         e.no < Pow(16), NEW r, r = Word(ReportFields(e))
  PROVE  AwgStartWithExtTrigAndClsValCmdErr(r) = e
<1>1. e.id = 11 /\ e.id \in 1 .. 11 /\ e.no \in Nat /\ e.terminated \in BOOLEAN
  OBVIOUS
<1>2. PICK f0 : f0 = Field(24, 16, e.awgs)
  OBVIOUS
<1>3. PICK f1 : f1 = Field(40, 1, Flag(e.readErr))
  OBVIOUS
<1>4. PICK f2 : f2 = Field(41, 1, Flag(e.writeErr))
  OBVIOUS
<1>5. PICK f3 : f3 = Field(42, 1, Flag(e.timeoutErr))
  OBVIOUS
<1>6. Within({f0}, 24, 40)
  <2>1. e.awgs \subseteq 0 .. 16 - 1
    BY DEF AWG, CaptureUnit
  <2> QED BY <1>2, <2>1, OneField
<1>7. Within({f1}, 40, 41)
  BY <1>3, FlagBits, OneField
<1>8. Within({f0} \cup {f1}, 24, 41)
  BY <1>6, <1>7, FieldsJoined
<1>9. Within({f2}, 41, 42)
  BY <1>4, FlagBits, OneField
<1>10. Within(({f0} \cup {f1}) \cup {f2}, 24, 42)
  BY <1>8, <1>9, FieldsJoined
<1>11. Within({f3}, 42, 128)
  BY <1>5, FlagBits, OneField
<1>12. Within((({f0} \cup {f1}) \cup {f2}) \cup {f3}, 24, 128)
  BY <1>10, <1>11, FieldsJoined
<1>13. PICK fs : fs = (({f0} \cup {f1}) \cup {f2}) \cup {f3}
  OBVIOUS
<1>14. Within(fs, 24, 128)
  BY <1>12, <1>13
<1>15. ReportFields(e) = ReportHeader(e) \cup fs
  BY <1>1, <1>2, <1>3, <1>4, <1>5, <1>13 DEF ReportFields, ReportHeader
<1>16. ReportReads(e, r, fs)
  BY <1>1, <1>14, <1>15, ReportIsRead
<1>17. CmdId(r) = e.id /\ CmdNo(r) = e.no /\ Terminated(r) = e.terminated
  BY <1>16 DEF ReportReads
<1>18. Slice(r, 24, 16) = e.awgs
  <2>1. Field(24, 16, e.awgs) \in fs
    BY <1>2, <1>13
  <2>2. \A g \in fs : Slice(r, g.at, g.width) = g.bits
    BY <1>16 DEF ReportReads
  <2> QED BY <2>1, <2>2, FieldRead
<1>19. ErrAwgs(r) = e.awgs
  BY <1>18, AwgsRead
<1>20. Slice(r, 40, 1) = Flag(e.readErr)
  <2>1. Field(40, 1, Flag(e.readErr)) \in fs
    BY <1>3, <1>13
  <2>2. \A g \in fs : Slice(r, g.at, g.width) = g.bits
    BY <1>16 DEF ReportReads
  <2> QED BY <2>1, <2>2, FieldRead
<1>21. (40 \in r) = e.readErr
  <2>1. e.readErr \in BOOLEAN
    OBVIOUS
  <2> QED BY <2>1, <1>20, FlagRead
<1>22. ReadErr(r, 11) = e.readErr
  BY <1>21 DEF ReadErr, ErrorBit
<1>23. Slice(r, 41, 1) = Flag(e.writeErr)
  <2>1. Field(41, 1, Flag(e.writeErr)) \in fs
    BY <1>4, <1>13
  <2>2. \A g \in fs : Slice(r, g.at, g.width) = g.bits
    BY <1>16 DEF ReportReads
  <2> QED BY <2>1, <2>2, FieldRead
<1>24. (41 \in r) = e.writeErr
  <2>1. e.writeErr \in BOOLEAN
    OBVIOUS
  <2> QED BY <2>1, <1>23, FlagRead
<1>25. WriteErr(r, 11) = e.writeErr
  BY <1>24 DEF WriteErr, ErrorBit
<1>26. Slice(r, 42, 1) = Flag(e.timeoutErr)
  <2>1. Field(42, 1, Flag(e.timeoutErr)) \in fs
    BY <1>5, <1>13
  <2>2. \A g \in fs : Slice(r, g.at, g.width) = g.bits
    BY <1>16 DEF ReportReads
  <2> QED BY <2>1, <2>2, FieldRead
<1>27. (42 \in r) = e.timeoutErr
  <2>1. e.timeoutErr \in BOOLEAN
    OBVIOUS
  <2> QED BY <2>1, <1>26, FlagRead
<1> QED BY <1>17, <1>19, <1>22, <1>25, <1>27 DEF AwgStartWithExtTrigAndClsValCmdErr

(* The classes of reports, each with what it has. *)
LEMMA ReportClasses ==
  ASSUME NEW e, IsReport(e)
  PROVE  \/ e \in [id : {1}, no : Nat, terminated : BOOLEAN, awgs : SUBSET AWG]
         \/ e \in [id : {2}, no : Nat, terminated : BOOLEAN, units : SUBSET CaptureUnit, inTime : BOOLEAN]
         \/ e \in [id : {3}, no : Nat, terminated : BOOLEAN, readErr : BOOLEAN, writeErr : BOOLEAN]
         \/ e \in [id : {4}, no : Nat, terminated : BOOLEAN, readErr : BOOLEAN, writeErr : BOOLEAN]
         \/ e \in [id : {5}, no : Nat, terminated : BOOLEAN, writeErr : BOOLEAN]
         \/ e \in [id : {6}, no : Nat, terminated : BOOLEAN, readErr : BOOLEAN]
         \/ e \in [id : {7}, no : Nat, terminated : BOOLEAN, awgs : SUBSET AWG, inTime : BOOLEAN]
         \/ e \in [id : {8}, no : Nat, terminated : BOOLEAN,
                                       awgs : SUBSET AWG, readErr : BOOLEAN, writeErr : BOOLEAN]
         \/ e \in [id : {9}, no : Nat, terminated : BOOLEAN]
         \/ e \in [id : {10}, no : Nat, terminated : BOOLEAN, outOfRange : BOOLEAN, counter : Int]
                     /\ -(2 ^ 30) - (2 ^ 30) <= e.counter /\ e.counter - (2 ^ 30) < 2 ^ 30
         \/ e \in [id : {11}, no : Nat, terminated : BOOLEAN,
                                       awgs : SUBSET AWG, readErr : BOOLEAN, writeErr : BOOLEAN, timeoutErr : BOOLEAN]
<1>1. CASE e \in [id : {3, 4}, no : Nat, terminated : BOOLEAN, readErr : BOOLEAN, writeErr : BOOLEAN]
  <2>1. CASE e.id = 3
    BY <1>1, <2>1
  <2>2. CASE e.id = 4
    BY <1>1, <2>2
  <2> QED BY <1>1, <2>1, <2>2
<1> QED BY <1>1 DEF IsReport

(* The parts that every report has. *)
LEMMA ReportType ==
  ASSUME NEW e, IsReport(e)
  PROVE  /\ e.id \in 1 .. 11 /\ e.no \in Nat
         /\ \A n \in Nat : IsReport([e EXCEPT !.no = n]) /\ [e EXCEPT !.no = n].id = e.id
                           /\ [e EXCEPT !.no = n].no = n
<1>1. ASSUME e \in [id : {1}, no : Nat, terminated : BOOLEAN, awgs : SUBSET AWG]
      PROVE  /\ e.id \in 1 .. 11 /\ e.no \in Nat
             /\ \A n \in Nat : IsReport([e EXCEPT !.no = n]) /\ [e EXCEPT !.no = n].id = e.id
                               /\ [e EXCEPT !.no = n].no = n
  <2>1. e.id = 1 /\ e.no \in Nat
    BY <1>1
  <2>2. ASSUME NEW n \in Nat, NEW d, d = [e EXCEPT !.no = n]
        PROVE  IsReport(d) /\ d.id = e.id /\ d.no = n
    <3>1. d \in [id : {1}, no : Nat, terminated : BOOLEAN, awgs : SUBSET AWG]
      BY <1>1, <2>2
    <3>2. d.id = e.id /\ d.no = n
      BY <1>1, <2>2
    <3>3. IsReport(d)
      BY <3>1 DEF IsReport
    <3> QED BY <3>2, <3>3
  <2> QED BY <2>1, <2>2
<1>2. ASSUME e \in [id : {2}, no : Nat, terminated : BOOLEAN,
                              units : SUBSET CaptureUnit, inTime : BOOLEAN]
      PROVE  /\ e.id \in 1 .. 11 /\ e.no \in Nat
             /\ \A n \in Nat : IsReport([e EXCEPT !.no = n]) /\ [e EXCEPT !.no = n].id = e.id
                               /\ [e EXCEPT !.no = n].no = n
  <2>1. e.id = 2 /\ e.no \in Nat
    BY <1>2
  <2>2. ASSUME NEW n \in Nat, NEW d, d = [e EXCEPT !.no = n]
        PROVE  IsReport(d) /\ d.id = e.id /\ d.no = n
    <3>1. d \in [id : {2}, no : Nat, terminated : BOOLEAN, units : SUBSET CaptureUnit, inTime : BOOLEAN]
      BY <1>2, <2>2
    <3>2. d.id = e.id /\ d.no = n
      BY <1>2, <2>2
    <3>3. IsReport(d)
      BY <3>1 DEF IsReport
    <3> QED BY <3>2, <3>3
  <2> QED BY <2>1, <2>2
<1>3. ASSUME e \in [id : {3}, no : Nat, terminated : BOOLEAN, readErr : BOOLEAN, writeErr : BOOLEAN]
      PROVE  /\ e.id \in 1 .. 11 /\ e.no \in Nat
             /\ \A n \in Nat : IsReport([e EXCEPT !.no = n]) /\ [e EXCEPT !.no = n].id = e.id
                               /\ [e EXCEPT !.no = n].no = n
  <2>1. e.id = 3 /\ e.no \in Nat
    BY <1>3
  <2>2. ASSUME NEW n \in Nat, NEW d, d = [e EXCEPT !.no = n]
        PROVE  IsReport(d) /\ d.id = e.id /\ d.no = n
    <3>1. d \in [id : {3}, no : Nat, terminated : BOOLEAN, readErr : BOOLEAN, writeErr : BOOLEAN]
      BY <1>3, <2>2
    <3>2. d.id = e.id /\ d.no = n
      BY <1>3, <2>2
    <3>3. IsReport(d)
      BY <3>1 DEF IsReport
    <3> QED BY <3>2, <3>3
  <2> QED BY <2>1, <2>2
<1>4. ASSUME e \in [id : {4}, no : Nat, terminated : BOOLEAN, readErr : BOOLEAN, writeErr : BOOLEAN]
      PROVE  /\ e.id \in 1 .. 11 /\ e.no \in Nat
             /\ \A n \in Nat : IsReport([e EXCEPT !.no = n]) /\ [e EXCEPT !.no = n].id = e.id
                               /\ [e EXCEPT !.no = n].no = n
  <2>1. e.id = 4 /\ e.no \in Nat
    BY <1>4
  <2>2. ASSUME NEW n \in Nat, NEW d, d = [e EXCEPT !.no = n]
        PROVE  IsReport(d) /\ d.id = e.id /\ d.no = n
    <3>1. d \in [id : {4}, no : Nat, terminated : BOOLEAN, readErr : BOOLEAN, writeErr : BOOLEAN]
      BY <1>4, <2>2
    <3>2. d.id = e.id /\ d.no = n
      BY <1>4, <2>2
    <3>3. IsReport(d)
      BY <3>1 DEF IsReport
    <3> QED BY <3>2, <3>3
  <2> QED BY <2>1, <2>2
<1>5. ASSUME e \in [id : {5}, no : Nat, terminated : BOOLEAN, writeErr : BOOLEAN]
      PROVE  /\ e.id \in 1 .. 11 /\ e.no \in Nat
             /\ \A n \in Nat : IsReport([e EXCEPT !.no = n]) /\ [e EXCEPT !.no = n].id = e.id
                               /\ [e EXCEPT !.no = n].no = n
  <2>1. e.id = 5 /\ e.no \in Nat
    BY <1>5
  <2>2. ASSUME NEW n \in Nat, NEW d, d = [e EXCEPT !.no = n]
        PROVE  IsReport(d) /\ d.id = e.id /\ d.no = n
    <3>1. d \in [id : {5}, no : Nat, terminated : BOOLEAN, writeErr : BOOLEAN]
      BY <1>5, <2>2
    <3>2. d.id = e.id /\ d.no = n
      BY <1>5, <2>2
    <3>3. IsReport(d)
      BY <3>1 DEF IsReport
    <3> QED BY <3>2, <3>3
  <2> QED BY <2>1, <2>2
<1>6. ASSUME e \in [id : {6}, no : Nat, terminated : BOOLEAN, readErr : BOOLEAN]
      PROVE  /\ e.id \in 1 .. 11 /\ e.no \in Nat
             /\ \A n \in Nat : IsReport([e EXCEPT !.no = n]) /\ [e EXCEPT !.no = n].id = e.id
                               /\ [e EXCEPT !.no = n].no = n
  <2>1. e.id = 6 /\ e.no \in Nat
    BY <1>6
  <2>2. ASSUME NEW n \in Nat, NEW d, d = [e EXCEPT !.no = n]
        PROVE  IsReport(d) /\ d.id = e.id /\ d.no = n
    <3>1. d \in [id : {6}, no : Nat, terminated : BOOLEAN, readErr : BOOLEAN]
      BY <1>6, <2>2
    <3>2. d.id = e.id /\ d.no = n
      BY <1>6, <2>2
    <3>3. IsReport(d)
      BY <3>1 DEF IsReport
    <3> QED BY <3>2, <3>3
  <2> QED BY <2>1, <2>2
<1>7. ASSUME e \in [id : {7}, no : Nat, terminated : BOOLEAN, awgs : SUBSET AWG, inTime : BOOLEAN]
      PROVE  /\ e.id \in 1 .. 11 /\ e.no \in Nat
             /\ \A n \in Nat : IsReport([e EXCEPT !.no = n]) /\ [e EXCEPT !.no = n].id = e.id
                               /\ [e EXCEPT !.no = n].no = n
  <2>1. e.id = 7 /\ e.no \in Nat
    BY <1>7
  <2>2. ASSUME NEW n \in Nat, NEW d, d = [e EXCEPT !.no = n]
        PROVE  IsReport(d) /\ d.id = e.id /\ d.no = n
    <3>1. d \in [id : {7}, no : Nat, terminated : BOOLEAN, awgs : SUBSET AWG, inTime : BOOLEAN]
      BY <1>7, <2>2
    <3>2. d.id = e.id /\ d.no = n
      BY <1>7, <2>2
    <3>3. IsReport(d)
      BY <3>1 DEF IsReport
    <3> QED BY <3>2, <3>3
  <2> QED BY <2>1, <2>2
<1>8. ASSUME e \in [id : {8}, no : Nat, terminated : BOOLEAN,
                              awgs : SUBSET AWG, readErr : BOOLEAN, writeErr : BOOLEAN]
      PROVE  /\ e.id \in 1 .. 11 /\ e.no \in Nat
             /\ \A n \in Nat : IsReport([e EXCEPT !.no = n]) /\ [e EXCEPT !.no = n].id = e.id
                               /\ [e EXCEPT !.no = n].no = n
  <2>1. e.id = 8 /\ e.no \in Nat
    BY <1>8
  <2>2. ASSUME NEW n \in Nat, NEW d, d = [e EXCEPT !.no = n]
        PROVE  IsReport(d) /\ d.id = e.id /\ d.no = n
    <3>1. d \in [id : {8}, no : Nat, terminated : BOOLEAN,
                                  awgs : SUBSET AWG, readErr : BOOLEAN, writeErr : BOOLEAN]
      BY <1>8, <2>2
    <3>2. d.id = e.id /\ d.no = n
      BY <1>8, <2>2
    <3>3. IsReport(d)
      BY <3>1 DEF IsReport
    <3> QED BY <3>2, <3>3
  <2> QED BY <2>1, <2>2
<1>9. ASSUME e \in [id : {9}, no : Nat, terminated : BOOLEAN]
      PROVE  /\ e.id \in 1 .. 11 /\ e.no \in Nat
             /\ \A n \in Nat : IsReport([e EXCEPT !.no = n]) /\ [e EXCEPT !.no = n].id = e.id
                               /\ [e EXCEPT !.no = n].no = n
  <2>1. e.id = 9 /\ e.no \in Nat
    BY <1>9
  <2>2. ASSUME NEW n \in Nat, NEW d, d = [e EXCEPT !.no = n]
        PROVE  IsReport(d) /\ d.id = e.id /\ d.no = n
    <3>1. d \in [id : {9}, no : Nat, terminated : BOOLEAN]
      BY <1>9, <2>2
    <3>2. d.id = e.id /\ d.no = n
      BY <1>9, <2>2
    <3>3. IsReport(d)
      BY <3>1 DEF IsReport
    <3> QED BY <3>2, <3>3
  <2> QED BY <2>1, <2>2
<1>10. ASSUME e \in [id : {10}, no : Nat, terminated : BOOLEAN, outOfRange : BOOLEAN, counter : Int]
            /\ -(2 ^ 30) - (2 ^ 30) <= e.counter /\ e.counter - (2 ^ 30) < 2 ^ 30
      PROVE  /\ e.id \in 1 .. 11 /\ e.no \in Nat
             /\ \A n \in Nat : IsReport([e EXCEPT !.no = n]) /\ [e EXCEPT !.no = n].id = e.id
                               /\ [e EXCEPT !.no = n].no = n
  <2>1. e.id = 10 /\ e.no \in Nat
    BY <1>10
  <2>2. ASSUME NEW n \in Nat, NEW d, d = [e EXCEPT !.no = n]
        PROVE  IsReport(d) /\ d.id = e.id /\ d.no = n
    <3>1. d \in [id : {10}, no : Nat, terminated : BOOLEAN, outOfRange : BOOLEAN, counter : Int]
                /\ d.counter = e.counter
      BY <1>10, <2>2
    <3>2. d.id = e.id /\ d.no = n
      BY <1>10, <2>2
    <3>3. IsReport(d)
      BY <1>10, <3>1 DEF IsReport
    <3> QED BY <3>2, <3>3
  <2> QED BY <2>1, <2>2
<1>11. ASSUME e \in [id : {11}, no : Nat, terminated : BOOLEAN,
                              awgs : SUBSET AWG, readErr : BOOLEAN, writeErr : BOOLEAN, timeoutErr : BOOLEAN]
      PROVE  /\ e.id \in 1 .. 11 /\ e.no \in Nat
             /\ \A n \in Nat : IsReport([e EXCEPT !.no = n]) /\ [e EXCEPT !.no = n].id = e.id
                               /\ [e EXCEPT !.no = n].no = n
  <2>1. e.id = 11 /\ e.no \in Nat
    BY <1>11
  <2>2. ASSUME NEW n \in Nat, NEW d, d = [e EXCEPT !.no = n]
        PROVE  IsReport(d) /\ d.id = e.id /\ d.no = n
    <3>1. d \in [id : {11}, no : Nat, terminated : BOOLEAN,
                                  awgs : SUBSET AWG, readErr : BOOLEAN, writeErr : BOOLEAN, timeoutErr : BOOLEAN]
      BY <1>11, <2>2
    <3>2. d.id = e.id /\ d.no = n
      BY <1>11, <2>2
    <3>3. IsReport(d)
      BY <3>1 DEF IsReport
    <3> QED BY <3>2, <3>3
  <2> QED BY <2>1, <2>2
<1> QED BY <1>1, <1>2, <1>3, <1>4, <1>5, <1>6, <1>7, <1>8, <1>9, <1>10, <1>11, ReportClasses

(* What the receiver makes of a report is what the sequencer said. *)
LEMMA ReportIsTold ==
  ASSUME NEW e, IsReport(e), e.no < Pow(16), NEW r, r = Word(ReportFields(e))
  PROVE  Parsed(r) = e
<1>1. ASSUME e \in [id : {1}, no : Nat, terminated : BOOLEAN, awgs : SUBSET AWG]
      PROVE  Parsed(r) = e
  <2>1. AwgStartCmdErr(r) = e
    BY <1>1, AwgStartErrIsTold
  <2>2. AwgStartCmdErr(r).id = CmdId(r)
    BY DEF AwgStartCmdErr
  <2>3. CmdId(r) = 1
    BY <1>1, <2>1, <2>2
  <2> QED BY <2>1, <2>3 DEF Parsed
<1>2. ASSUME e \in [id : {2}, no : Nat, terminated : BOOLEAN,
                              units : SUBSET CaptureUnit, inTime : BOOLEAN]
      PROVE  Parsed(r) = e
  <2>1. CaptureEndFenceCmdErr(r) = e
    BY <1>2, CaptureEndFenceErrIsTold
  <2>2. CaptureEndFenceCmdErr(r).id = CmdId(r)
    BY DEF CaptureEndFenceCmdErr
  <2>3. CmdId(r) = 2
    BY <1>2, <2>1, <2>2
  <2> QED BY <2>1, <2>3 DEF Parsed
<1>3. ASSUME e \in [id : {3}, no : Nat, terminated : BOOLEAN, readErr : BOOLEAN, writeErr : BOOLEAN]
      PROVE  Parsed(r) = e
  <2>1. WaveSequenceSetCmdErr(r) = e
    BY <1>3, WaveSequenceSetErrIsTold
  <2>2. WaveSequenceSetCmdErr(r).id = CmdId(r)
    BY DEF WaveSequenceSetCmdErr
  <2>3. CmdId(r) = 3
    BY <1>3, <2>1, <2>2
  <2> QED BY <2>1, <2>3 DEF Parsed
<1>4. ASSUME e \in [id : {4}, no : Nat, terminated : BOOLEAN, readErr : BOOLEAN, writeErr : BOOLEAN]
      PROVE  Parsed(r) = e
  <2>1. CaptureParamSetCmdErr(r) = e
    BY <1>4, CaptureParamSetErrIsTold
  <2>2. CaptureParamSetCmdErr(r).id = CmdId(r)
    BY DEF CaptureParamSetCmdErr
  <2>3. CmdId(r) = 4
    BY <1>4, <2>1, <2>2
  <2> QED BY <2>1, <2>3 DEF Parsed
<1>5. ASSUME e \in [id : {5}, no : Nat, terminated : BOOLEAN, writeErr : BOOLEAN]
      PROVE  Parsed(r) = e
  <2>1. CaptureAddrSetCmdErr(r) = e
    BY <1>5, CaptureAddrSetErrIsTold
  <2>2. CaptureAddrSetCmdErr(r).id = CmdId(r)
    BY DEF CaptureAddrSetCmdErr
  <2>3. CmdId(r) = 5
    BY <1>5, <2>1, <2>2
  <2> QED BY <2>1, <2>3 DEF Parsed
<1>6. ASSUME e \in [id : {6}, no : Nat, terminated : BOOLEAN, readErr : BOOLEAN]
      PROVE  Parsed(r) = e
  <2>1. FeedbackCalcOnClassificationCmdErr(r) = e
    BY <1>6, FeedbackCalcOnClassificationErrIsTold
  <2>2. FeedbackCalcOnClassificationCmdErr(r).id = CmdId(r)
    BY DEF FeedbackCalcOnClassificationCmdErr
  <2>3. CmdId(r) = 6
    BY <1>6, <2>1, <2>2
  <2> QED BY <2>1, <2>3 DEF Parsed
<1>7. ASSUME e \in [id : {7}, no : Nat, terminated : BOOLEAN, awgs : SUBSET AWG, inTime : BOOLEAN]
      PROVE  Parsed(r) = e
  <2>1. WaveGenEndFenceCmdErr(r) = e
    BY <1>7, WaveGenEndFenceErrIsTold
  <2>2. WaveGenEndFenceCmdErr(r).id = CmdId(r)
    BY DEF WaveGenEndFenceCmdErr
  <2>3. CmdId(r) = 7
    BY <1>7, <2>1, <2>2
  <2> QED BY <2>1, <2>3 DEF Parsed
<1>8. ASSUME e \in [id : {8}, no : Nat, terminated : BOOLEAN,
                              awgs : SUBSET AWG, readErr : BOOLEAN, writeErr : BOOLEAN]
      PROVE  Parsed(r) = e
  <2>1. ResponsiveFeedbackCmdErr(r) = e
    BY <1>8, ResponsiveFeedbackErrIsTold
  <2>2. ResponsiveFeedbackCmdErr(r).id = CmdId(r)
    BY DEF ResponsiveFeedbackCmdErr
  <2>3. CmdId(r) = 8
    BY <1>8, <2>1, <2>2
  <2> QED BY <2>1, <2>3 DEF Parsed
<1>9. ASSUME e \in [id : {9}, no : Nat, terminated : BOOLEAN]
      PROVE  Parsed(r) = e
  <2>1. WaveSequenceSelectionCmdErr(r) = e
    BY <1>9, WaveSequenceSelectionErrIsTold
  <2>2. WaveSequenceSelectionCmdErr(r).id = CmdId(r)
    BY DEF WaveSequenceSelectionCmdErr
  <2>3. CmdId(r) = 9
    BY <1>9, <2>1, <2>2
  <2> QED BY <2>1, <2>3 DEF Parsed
<1>10. ASSUME e \in [id : {10}, no : Nat, terminated : BOOLEAN, outOfRange : BOOLEAN, counter : Int]
            /\ -(2 ^ 30) - (2 ^ 30) <= e.counter /\ e.counter - (2 ^ 30) < 2 ^ 30
      PROVE  Parsed(r) = e
  <2>1. BranchByFlagCmdErr(r) = e
    BY <1>10, BranchByFlagErrIsTold
  <2>2. BranchByFlagCmdErr(r).id = CmdId(r)
    BY DEF BranchByFlagCmdErr
  <2>3. CmdId(r) = 10
    BY <1>10, <2>1, <2>2
  <2> QED BY <2>1, <2>3 DEF Parsed
<1>11. ASSUME e \in [id : {11}, no : Nat, terminated : BOOLEAN,
                              awgs : SUBSET AWG, readErr : BOOLEAN, writeErr : BOOLEAN, timeoutErr : BOOLEAN]
      PROVE  Parsed(r) = e
  <2>1. AwgStartWithExtTrigAndClsValCmdErr(r) = e
    BY <1>11, AwgStartWithExtTrigAndClsValErrIsTold
  <2>2. AwgStartWithExtTrigAndClsValCmdErr(r).id = CmdId(r)
    BY DEF AwgStartWithExtTrigAndClsValCmdErr
  <2>3. CmdId(r) = 11
    BY <1>11, <2>1, <2>2
  <2> QED BY <2>1, <2>3 DEF Parsed
<1> QED BY <1>1, <1>2, <1>3, <1>4, <1>5, <1>6, <1>7, <1>8, <1>9, <1>10, <1>11, ReportClasses

(* A report is about the command in hand, and is what the sequencer said of it;   *)
(* what has been parsed is that report.                                           *)
ReportInv ==
  /\ CommandInv
  /\ sent # NoReport =>
       /\ cmd # NoCommand
       /\ IsReport(sent) /\ sent.id = cmd.id /\ sent.no = cmd.no
       /\ report = Word(ReportFields(sent))
  /\ parsed # NoReport => sent # NoReport /\ parsed = sent

(* A word without bits has the id of no command. *)
LEMMA NothingRead == CmdId({}) = 0
<1>1. Pow(0) = 1
  BY DEF Pow
<1>2. BitsOf(0) \subseteq 0 .. 0 - 1
  BY <1>1, BitsBelow
<1>3. BitsOf(0) = {}
  BY <1>2
<1>4. Number(BitsOf(0)) = 0
  BY <1>1, NumberRead
<1>5. Slice({}, 1, 7) = {}
  BY DEF Slice
<1> QED BY <1>3, <1>4, <1>5 DEF CmdId

(* The number of a command fits in its field. *)
LEMMA NumberFits ==
  ASSUME NEW c, HeaderOk(c)
  PROVE  c.no \in Nat /\ c.no < Pow(16)
<1>1. MAX_CMD_NO \in Nat /\ MAX_CMD_NO < Pow(16) /\ Pow(16) \in Nat
  <2>1. Pow(16) = 65536
    BY DEF Pow
  <2>2. MAX_CMD_NO \in Nat /\ MAX_CMD_NO <= 65535
    BY CommandConstants
  <2> QED BY <2>1, <2>2
<1>2. c.no \in 0 .. MAX_CMD_NO
  BY DEF HeaderOk
<1> QED BY <1>1, <1>2

(* The sequencer finds id and number of the command in its word. *)
LEMMA CommandNamed ==
  ASSUME CommandInv, cmd # NoCommand
  PROVE  CmdId(word) = cmd.id /\ CmdNo(word) = cmd.no /\ cmd.no \in Nat /\ cmd.no < Pow(16)
<1>1. cmd \in Candidates /\ Accepted(cmd) /\ word = Word(Fields(cmd)) /\ cmd.id \in 1 .. 11
  BY CommandConstants DEF CommandInv
<1>2. HeaderOk(cmd) /\ HeaderFields(cmd) \subseteq Fields(cmd)
  BY <1>1 DEF Accepted, Fields
<1>3. \A f \in Fields(cmd) : Slice(word, f.at, f.width) = f.bits
  BY <1>1, AcceptedReadBack
<1>4. cmd.no \in Nat /\ cmd.no < Pow(16)
  BY <1>2, NumberFits
<1>5. Slice(word, 1, 7) = BitsOf(cmd.id)
  <2>1. Field(1, 7, BitsOf(cmd.id)) \in Fields(cmd)
    BY <1>2 DEF HeaderFields
  <2> QED BY <1>3, <2>1, FieldRead
<1>6. Slice(word, 8, 16) = BitsOf(cmd.no)
  <2>1. Field(8, 16, BitsOf(cmd.no)) \in Fields(cmd)
    BY <1>2 DEF HeaderFields
  <2> QED BY <1>3, <2>1, FieldRead
<1> QED BY <1>1, <1>4, <1>5, <1>6, SmallReport DEF CmdId, CmdNo

(* The report is about the command, in every state. *)
LEMMA ReportInit == CommandInit => ReportInv
BY CommandStays DEF CommandInit, ReportInv, NoReport

LEMMA ReportStep == ReportInv /\ [CommandNext]_commandVars => ReportInv'
<1>1. SUFFICES ASSUME ReportInv, [CommandNext]_commandVars PROVE ReportInv'
  OBVIOUS
<1>2. CommandInv /\ CommandInv'
  BY <1>1, CommandStep DEF ReportInv
<1>3. ASSUME NEW c \in Candidates, Construct(c) PROVE ReportInv'
  <2>1. cmd = NoCommand /\ UNCHANGED <<sent, report, parsed>>
    BY <1>3 DEF Construct
  <2>2. sent = NoReport /\ parsed = NoReport
    BY <1>1, <2>1 DEF ReportInv
  <2> QED BY <1>2, <2>1, <2>2 DEF ReportInv, NoReport
<1>4. ASSUME NEW e \in Reports, ReportError(e) PROVE ReportInv'
  <2>1. e.id = CmdId(word) /\ sent = NoReport /\ sent' = [e EXCEPT !.no = CmdNo(word)]
        /\ report' = Word(ReportFields(sent')) /\ cmd' = cmd /\ parsed' = parsed
    BY <1>4 DEF ReportError
  <2>2. IsReport(e)
    BY CommandConstants
  <2>3. cmd # NoCommand
    <3>1. SUFFICES ASSUME cmd = NoCommand PROVE FALSE
      OBVIOUS
    <3>2. CmdId(word) = 0
      BY <1>2, <3>1, NothingRead DEF CommandInv
    <3>3. e.id \in 1 .. 11
      BY <2>2, ReportType
    <3> QED BY <2>1, <3>2, <3>3
  <2>4. CmdId(word) = cmd.id /\ CmdNo(word) = cmd.no /\ cmd.no \in Nat
    BY <1>2, <2>3, CommandNamed
  <2>5. PICK n \in Nat : n = CmdNo(word) /\ n = cmd.no
    BY <2>4
  <2>6. IsReport([e EXCEPT !.no = n]) /\ [e EXCEPT !.no = n].id = e.id /\ [e EXCEPT !.no = n].no = n
    BY <2>2, ReportType
  <2>7. IsReport(sent') /\ sent'.id = cmd'.id /\ sent'.no = cmd'.no
    <3>1. sent' = [e EXCEPT !.no = n]
      BY <2>1, <2>5
    <3> QED BY <2>1, <2>4, <2>5, <2>6, <3>1
  <2>8. parsed' = NoReport
    BY <1>1, <2>1 DEF ReportInv
  <2>9. NoReport' = NoReport /\ NoCommand' = NoCommand
    BY DEF NoReport, NoCommand
  <2>10. sent' # NoReport =>
           /\ cmd' # NoCommand
           /\ IsReport(sent') /\ sent'.id = cmd'.id /\ sent'.no = cmd'.no
           /\ report' = Word(ReportFields(sent'))
    BY <2>1, <2>3, <2>7
  <2> QED BY <1>2, <2>8, <2>9, <2>10 DEF ReportInv
<1>5. ASSUME ParseReport PROVE ReportInv'
  <2>1. sent # NoReport /\ parsed' = Parsed(report) /\ UNCHANGED <<cmd, word, sent, report>>
    BY <1>5 DEF ParseReport
  <2>2. cmd # NoCommand /\ IsReport(sent) /\ sent.no = cmd.no /\ report = Word(ReportFields(sent))
        /\ sent.id = cmd.id
    BY <1>1, <2>1 DEF ReportInv
  <2>3. sent.no < Pow(16)
    BY <1>2, <2>2, CommandNamed
  <2>4. Parsed(report) = sent
    BY <2>2, <2>3, ReportIsTold
  <2>5. parsed' = sent'
    BY <2>1, <2>4
  <2> QED BY <1>2, <2>1, <2>2, <2>5 DEF ReportInv, NoReport, NoCommand
<1>6. ASSUME UNCHANGED commandVars PROVE ReportInv'
  BY <1>1, <1>2, <1>6 DEF ReportInv, commandVars, NoReport, NoCommand
<1> QED BY <1>1, <1>3, <1>4, <1>5, <1>6 DEF CommandNext

(* What the receiver makes of a report is what the sequencer said, of the command *)
(* that failed.                                                                   *)
THEOREM ReportsTellTheError == CommandSpec => []ReportTellsTheError
<1>1. ReportInv => ReportTellsTheError
  BY DEF ReportInv, ReportTellsTheError
<1>2. CommandSpec => []ReportInv
  BY ReportInit, ReportStep, PTL DEF CommandSpec
<1> QED BY <1>1, <1>2, PTL

=============================================================================
