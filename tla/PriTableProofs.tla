-------------------------- MODULE PriTableProofs ----------------------------
(***************************************************************************)
(* What the builders of PriFile read of the tables that PriImage writes:   *)
(* sums and lists of fields, the records, a whole decision section and a   *)
(* whole data item section, and the pieces of a map section.  The lemmas   *)
(* hold for all well-formed contents and wherever in the file a section    *)
(* lies.                                                                   *)
(***************************************************************************)
EXTENDS PriFile, SequenceTheorems, NaturalsInduction, WellFoundedInduction, TLAPS

\* A set that holds 0 and with every number the next one holds every number:
\* induction, for a predicate given as the set of numbers it is true of.
LEMMA InductionOnSet ==
  ASSUME NEW S, S \subseteq Nat, 0 \in S, \A n \in S : n + 1 \in S
  PROVE  S = Nat
<1> DEFINE Below == {p \in Nat \X Nat : p[1] < p[2]}
           Others == Nat \ S
<1>1. IsWellFoundedOn(Below, Nat)
  BY NatLessThanWellFounded DEF OpToRel
<1>2. SUFFICES ASSUME Others # {} PROVE FALSE
  OBVIOUS
<1>3. PICK x \in Others : \A y \in Others : ~(<<y, x>> \in Below)
  BY <1>1, <1>2, WFMin
<1>4. x \in Nat \ {0} /\ x - 1 \in Nat
  OBVIOUS
<1>5. <<x - 1, x>> \in Below
  BY <1>4
<1>6. x - 1 \in S
  BY <1>3, <1>4, <1>5
<1>7. (x - 1) + 1 = x
  BY <1>4
<1>8. QED
  BY <1>6, <1>7

\* A function over 0 .. n given by its first value and the step to each next.
Steps(T, n, step)          == step \in [1 .. n -> [T -> T]]
Follows(T, t0, n, step, f) ==
  /\ f \in [0 .. n -> T]
  /\ f[0] = t0
  /\ \A i \in 1 .. n : f[i] = step[i][f[i - 1]]

\* There is one.
LEMMA RecursionExists ==
  ASSUME NEW T, NEW t0 \in T, NEW n \in Nat, NEW step, Steps(T, n, step)
  PROVE  \E f : Follows(T, t0, n, step, f)
<1> USE DEF Steps, Follows
<1> DEFINE S == {m \in Nat : m <= n => \E f : Follows(T, t0, m, step, f)}
<1>1. 0 \in S
  <2>1. Follows(T, t0, 0, step, [i \in 0 .. 0 |-> t0])
    OBVIOUS
  <2>2. QED
    BY <2>1
<1>2. ASSUME NEW m \in S PROVE m + 1 \in S
  <2>1. m \in Nat /\ m + 1 \in Nat
    OBVIOUS
  <2>2. SUFFICES ASSUME m + 1 <= n PROVE \E f : Follows(T, t0, m + 1, step, f)
    BY <2>1
  <2>3. PICK f : Follows(T, t0, m, step, f)
    BY <2>1, <2>2, <1>2
  <2> DEFINE g == [i \in 0 .. m + 1 |-> IF i <= m THEN f[i] ELSE step[m + 1][f[m]]]
  <2>4. step[m + 1] \in [T -> T] /\ f[m] \in T
    BY <2>1, <2>2, <2>3
  <2>5. g \in [0 .. m + 1 -> T] /\ g[0] = t0
    BY <2>1, <2>3, <2>4
  <2>6. \A i \in 1 .. m + 1 : g[i] = step[i][g[i - 1]]
    BY <2>1, <2>3, <2>4
  <2>7. QED
    BY <2>5, <2>6
<1>3. S = Nat
  <2> HIDE DEF S
  <2>1. S \subseteq Nat
    BY DEF S
  <2>2. QED
    BY <1>1, <1>2, <2>1, InductionOnSet
<1>4. n \in S
  BY <1>3
<1>5. QED
  BY <1>4
-----------------------------------------------------------------------------
\* The sums of a list of numbers are what their recursion says.
LEMMA SumsDef ==
  ASSUME NEW n \in Nat, NEW w \in [1 .. n -> Int]
  PROVE  /\ Sums(w) \in [0 .. n -> Int]
         /\ Sums(w)[0] = 0
         /\ \A i \in 1 .. n : Sums(w)[i] = Sums(w)[i - 1] + w[i]
<1> DEFINE Is(f) == f = [i \in 0 .. n |-> IF i = 0 THEN 0 ELSE f[i - 1] + w[i]]
<1>1. Len(w) = n
  OBVIOUS
<1>2. Sums(w) = CHOOSE f : Is(f)
  BY <1>1 DEF Sums
<1>3. PICK f : f \in [0 .. n -> Int] /\ f[0] = 0 /\ \A i \in 1 .. n : f[i] = f[i - 1] + w[i]
  <2> DEFINE step == [i \in 1 .. n |-> [x \in Int |-> x + w[i]]]
  <2>1. Steps(Int, n, step) /\ 0 \in Int
    BY DEF Steps
  <2>2. \E f : Follows(Int, 0, n, step, f)
    <3> HIDE DEF step
    <3>1. QED
      BY <2>1, RecursionExists
  <2>3. PICK f : Follows(Int, 0, n, step, f)
    BY <2>2
  <2>4. \A i \in 1 .. n : f[i - 1] \in Int
    BY <2>3 DEF Follows
  <2>5. QED
    BY <2>3, <2>4 DEF Follows
<1>4. Is(f)
  BY <1>3
<1>5. Is(Sums(w))
  BY <1>2, <1>4
<1>6. PICK sums : sums = Sums(w)
  OBVIOUS
<1>7. sums = [i \in 0 .. n |-> IF i = 0 THEN 0 ELSE sums[i - 1] + w[i]]
  BY <1>5, <1>6
<1> DEFINE S == {i \in Nat : i <= n => sums[i] = f[i]}
<1>8. S = Nat
  <2>1. 0 \in S
    BY <1>7, <1>3
  <2>2. ASSUME NEW i \in S PROVE i + 1 \in S
    <3>1. i \in Nat /\ (i + 1) - 1 = i
      OBVIOUS
    <3>2. SUFFICES ASSUME i + 1 <= n PROVE sums[i + 1] = f[i + 1]
      BY <3>1
    <3>3. i + 1 \in 1 .. n /\ sums[i] = f[i]
      BY <3>1, <3>2, <2>2
    <3>4. sums[i + 1] = sums[i] + w[i + 1]
      BY <1>7, <3>1, <3>3
    <3>5. QED
      BY <3>1, <3>3, <3>4, <1>3
  <2>3. QED
    BY <2>1, <2>2, InductionOnSet
<1>9. \A i \in 0 .. n : sums[i] = f[i]
  BY <1>8
<1>10. DOMAIN sums = 0 .. n /\ DOMAIN f = 0 .. n
  BY <1>7, <1>3
<1>11. sums = f
  BY <1>9, <1>10, <1>7, <1>3
<1>12. QED
  BY <1>11, <1>6, <1>3

\* The sums of a list go on where those of a list it extends end.
LEMMA SumsOfFront ==
  ASSUME NEW n \in Nat, NEW w \in [1 .. n -> Int], NEW m \in 0 .. n,
         NEW v \in [1 .. m -> Int], \A i \in 1 .. m : v[i] = w[i]
  PROVE  \A i \in 0 .. m : Sums(v)[i] = Sums(w)[i]
<1>1. PICK sv : sv = Sums(v)
  OBVIOUS
<1>2. PICK sw : sw = Sums(w)
  OBVIOUS
<1>m. m \in Nat
  OBVIOUS
<1>3. /\ sv \in [0 .. m -> Int] /\ sv[0] = 0
      /\ \A i \in 1 .. m : sv[i] = sv[i - 1] + v[i]
  BY <1>1, <1>m, SumsDef
<1>4. /\ sw \in [0 .. n -> Int] /\ sw[0] = 0
      /\ \A i \in 1 .. n : sw[i] = sw[i - 1] + w[i]
  BY <1>2, SumsDef
<1> DEFINE S == {i \in Nat : i <= m => sv[i] = sw[i]}
<1>5. S = Nat
  <2>1. 0 \in S
    BY <1>3, <1>4
  <2>2. ASSUME NEW i \in S PROVE i + 1 \in S
    <3>1. i \in Nat /\ (i + 1) - 1 = i
      OBVIOUS
    <3>2. SUFFICES ASSUME i + 1 <= m PROVE sv[i + 1] = sw[i + 1]
      BY <3>1
    <3>3. i + 1 \in 1 .. m /\ i + 1 \in 1 .. n /\ sv[i] = sw[i]
      BY <3>1, <3>2, <2>2
    <3>4. sv[i + 1] = sv[i] + v[i + 1] /\ sw[i + 1] = sw[i] + w[i + 1]
      BY <1>3, <1>4, <3>1, <3>3
    <3>5. QED
      BY <3>3, <3>4
  <2>3. QED
    BY <2>1, <2>2, InductionOnSet
<1>6. \A i \in 0 .. m : sv[i] = sw[i]
  BY <1>5
<1>7. QED
  BY <1>1, <1>2, <1>6

\* The total of a list of naturals is a natural, its sums never fall, and they
\* rise wherever the list is positive.
LEMMA SumsRise ==
  ASSUME NEW n \in Nat, NEW w \in [1 .. n -> Nat]
  PROVE  /\ Sums(w) \in [0 .. n -> Nat]
         /\ \A i, j \in 0 .. n : i <= j => Sums(w)[i] <= Sums(w)[j]
<1>1. PICK sw : sw = Sums(w)
  OBVIOUS
<1>2. /\ sw \in [0 .. n -> Int] /\ sw[0] = 0
      /\ \A i \in 1 .. n : sw[i] = sw[i - 1] + w[i]
  <2>1. w \in [1 .. n -> Int]
    OBVIOUS
  <2>2. QED
    BY <1>1, <2>1, SumsDef
<1> DEFINE S == {j \in Nat : j <= n => sw[j] \in Nat /\ \A i \in 0 .. j : sw[i] <= sw[j]}
<1>3. S = Nat
  <2>1. 0 \in S
    BY <1>2
  <2>2. ASSUME NEW j \in S PROVE j + 1 \in S
    <3>1. j \in Nat /\ (j + 1) - 1 = j
      OBVIOUS
    <3>2. SUFFICES ASSUME j + 1 <= n
                   PROVE  sw[j + 1] \in Nat /\ \A i \in 0 .. j + 1 : sw[i] <= sw[j + 1]
      BY <3>1
    <3>3. j + 1 \in 1 .. n /\ sw[j] \in Nat /\ \A i \in 0 .. j : sw[i] <= sw[j]
      BY <3>1, <3>2, <2>2
    <3>4. sw[j + 1] = sw[j] + w[j + 1] /\ w[j + 1] \in Nat
      BY <1>2, <3>1, <3>3
    <3>5. sw[j + 1] \in Nat /\ sw[j] <= sw[j + 1] /\ sw[j] \in Nat
      BY <3>3, <3>4
    <3>6. ASSUME NEW i \in 0 .. j + 1 PROVE sw[i] <= sw[j + 1]
      <4>1. CASE i = j + 1
        BY <4>1, <3>5
      <4>2. CASE i \in 0 .. j
        <5>1. sw[i] \in Int /\ sw[i] <= sw[j]
          BY <4>2, <3>3, <1>2
        <5>2. QED
          BY <5>1, <3>5
      <4>3. QED
        BY <4>1, <4>2, <3>1
    <3>7. QED
      BY <3>5, <3>6
  <2>3. QED
    BY <2>1, <2>2, InductionOnSet
<1>4. \A j \in 0 .. n : sw[j] \in Nat /\ \A i \in 0 .. j : sw[i] <= sw[j]
  BY <1>3
<1>5. \A i, j \in 0 .. n : i <= j => sw[i] <= sw[j]
  BY <1>4
<1>6. sw \in [0 .. n -> Nat]
  BY <1>2, <1>4
<1>7. QED
  BY <1>1, <1>5, <1>6

\* The sums of one list behind another go on from the total of the first.
LEMMA SumsOfConcat ==
  ASSUME NEW n \in Nat, NEW w \in [1 .. n -> Int], NEW m \in Nat, NEW v \in [1 .. m -> Int],
         NEW u \in [1 .. n + m -> Int],
         \A i \in 1 .. n : u[i] = w[i], \A i \in 1 .. m : u[n + i] = v[i]
  PROVE  /\ \A i \in 0 .. n : Sums(u)[i] = Sums(w)[i]
         /\ \A i \in 0 .. m : Sums(u)[n + i] = Sums(w)[n] + Sums(v)[i]
<1>1. PICK sv : sv = Sums(v)
  OBVIOUS
<1>2. PICK sw : sw = Sums(w)
  OBVIOUS
<1>3. PICK su : su = Sums(u)
  OBVIOUS
<1>4. /\ sv \in [0 .. m -> Int] /\ sv[0] = 0
      /\ \A i \in 1 .. m : sv[i] = sv[i - 1] + v[i]
  BY <1>1, SumsDef
<1>5. sw \in [0 .. n -> Int]
  BY <1>2, SumsDef
<1>6. n + m \in Nat /\ n \in 0 .. n + m
  OBVIOUS
<1>7. /\ su \in [0 .. n + m -> Int]
      /\ \A i \in 1 .. n + m : su[i] = su[i - 1] + u[i]
  BY <1>3, <1>6, SumsDef
<1>8. \A i \in 0 .. n : sw[i] = su[i]
  BY <1>2, <1>3, <1>6, SumsOfFront
<1> DEFINE S == {i \in Nat : i <= m => su[n + i] = sw[n] + sv[i]}
<1>9. S = Nat
  <2>1. 0 \in S
    BY <1>4, <1>5, <1>8
  <2>2. ASSUME NEW i \in S PROVE i + 1 \in S
    <3>1. i \in Nat /\ (i + 1) - 1 = i /\ (n + (i + 1)) - 1 = n + i
      OBVIOUS
    <3>2. SUFFICES ASSUME i + 1 <= m PROVE su[n + (i + 1)] = sw[n] + sv[i + 1]
      BY <3>1
    <3>3. i + 1 \in 1 .. m /\ i \in 0 .. m /\ n + (i + 1) \in 1 .. n + m /\ su[n + i] = sw[n] + sv[i]
      BY <3>1, <3>2, <2>2
    <3>4. sv[i + 1] = sv[i] + v[i + 1] /\ su[n + (i + 1)] = su[n + i] + u[n + (i + 1)]
      BY <1>4, <1>7, <3>1, <3>3
    <3>5. u[n + (i + 1)] = v[i + 1] /\ v[i + 1] \in Int /\ sv[i] \in Int /\ sw[n] \in Int
      BY <3>3, <1>4, <1>5
    <3>6. QED
      BY <3>3, <3>4, <3>5
  <2>3. QED
    BY <2>1, <2>2, InductionOnSet
<1>10. \A i \in 0 .. m : su[n + i] = sw[n] + sv[i]
  BY <1>9
<1>11. QED
  BY <1>1, <1>2, <1>3, <1>8, <1>10

\* The sums of a list of equal numbers.
LEMMA SumsOfEqual ==
  ASSUME NEW n \in Nat, NEW w \in [1 .. n -> Int], NEW k \in Int, \A i \in 1 .. n : w[i] = k
  PROVE  \A i \in 0 .. n : Sums(w)[i] = i * k
<1>1. PICK sw : sw = Sums(w)
  OBVIOUS
<1>2. /\ sw \in [0 .. n -> Int] /\ sw[0] = 0
      /\ \A i \in 1 .. n : sw[i] = sw[i - 1] + w[i]
  BY <1>1, SumsDef
<1> DEFINE S == {i \in Nat : i <= n => sw[i] = i * k}
<1>3. S = Nat
  <2>1. 0 \in S
    BY <1>2
  <2>2. ASSUME NEW i \in S PROVE i + 1 \in S
    <3>1. i \in Nat /\ (i + 1) - 1 = i /\ (i + 1) * k = i * k + k
      OBVIOUS
    <3>2. SUFFICES ASSUME i + 1 <= n PROVE sw[i + 1] = (i + 1) * k
      BY <3>1
    <3>3. i + 1 \in 1 .. n /\ sw[i] = i * k
      BY <3>1, <3>2, <2>2
    <3>4. sw[i + 1] = sw[i] + k
      BY <1>2, <3>1, <3>3
    <3>5. QED
      BY <3>1, <3>3, <3>4
  <2>3. QED
    BY <2>1, <2>2, InductionOnSet
<1>4. \A i \in 0 .. n : sw[i] = i * k
  BY <1>3
<1>5. QED
  BY <1>1, <1>4
-----------------------------------------------------------------------------
\* Lists put one behind another: each stands as a whole where the lengths of
\* those before it add up to.
Lengths(ss) == [i \in DOMAIN ss |-> Len(ss[i])]

\* f[i] is the first i of the lists in one.
Joins(U, n, ss, f) ==
  /\ f \in [0 .. n -> Seq(U)]
  /\ f[0] = <<>>
  /\ \A i \in 1 .. n : f[i] = f[i - 1] \o ss[i]

\* A list of lists, flattened, joins them one after another.
LEMMA FlattenDef ==
  ASSUME NEW U, NEW n \in Nat, NEW ss \in [1 .. n -> Seq(U)]
  PROVE  \E f : Joins(U, n, ss, f) /\ FlattenSeq(ss) = f[n]
<1> DEFINE step == [i \in 1 .. n |-> [x \in Seq(U) |-> x \o ss[i]]]
<1>1. Len(ss) = n
  OBVIOUS
<1>2. PICK f : Follows(Seq(U), <<>>, n, step, f)
  <2>1. Steps(Seq(U), n, step) /\ <<>> \in Seq(U)
    BY DEF Steps
  <2>2. \E f : Follows(Seq(U), <<>>, n, step, f)
    <3> HIDE DEF step
    <3>1. QED
      BY <2>1, RecursionExists
  <2>3. QED
    BY <2>2
<1>3. /\ f \in [0 .. n -> Seq(U)] /\ f[0] = <<>>
      /\ \A i \in 1 .. n : f[i] = f[i - 1] \o ss[i]
  <2>1. \A i \in 1 .. n : f[i - 1] \in Seq(U)
    BY <1>2 DEF Follows
  <2>2. QED
    BY <1>2, <2>1 DEF Follows
<1>4. CASE n = 0
  <2>1. ss = <<>> /\ FlattenSeq(ss) = ss
    BY <1>4, <1>1 DEF FlattenSeq
  <2>2. QED
    BY <1>3, <1>4, <2>1 DEF Joins
<1>5. CASE n # 0
  <2>e. 1 \in 1 .. n /\ 1 - 1 = 0
    BY <1>5
  <2>f. f[1] = ss[1]
    <3>1. f[1] = f[1 - 1] \o ss[1] /\ ss[1] \in Seq(U)
      BY <1>3, <2>e
    <3>2. f[1] = <<>> \o ss[1]
      BY <3>1, <2>e, <1>3
    <3>3. QED
      BY <3>1, <3>2
  <2> DEFINE Is(g) == g = [i \in 1 .. n |-> IF i = 1 THEN ss[i] ELSE g[i - 1] \o ss[i]]
  <2>1. FlattenSeq(ss) = (CHOOSE g : Is(g))[n]
    BY <1>1, <1>5 DEF FlattenSeq
  <2>2. Is([i \in 1 .. n |-> f[i]])
    <3> DEFINE g == [i \in 1 .. n |-> f[i]]
    <3>1. ASSUME NEW i \in 1 .. n PROVE g[i] = IF i = 1 THEN ss[i] ELSE g[i - 1] \o ss[i]
      <4>1. CASE i = 1
        BY <2>f, <4>1
      <4>2. CASE i # 1
        <5>1. i - 1 \in 1 .. n
          BY <4>2
        <5>2. QED
          BY <5>1, <4>2, <1>3
      <4>3. QED
        BY <4>1, <4>2
    <3>2. QED
      BY <3>1
  <2>3. PICK g : g = (CHOOSE h : Is(h)) /\ Is(g)
    BY <2>2
  <2> DEFINE S == {i \in Nat : i + 1 <= n => g[i + 1] = f[i + 1]}
  <2>4. S = Nat
    <3>1. 0 \in S
      <4>1. g[1] = ss[1]
        BY <2>3, <2>e
      <4>2. QED
        BY <4>1, <2>f
    <3>2. ASSUME NEW i \in S PROVE i + 1 \in S
      <4>1. i \in Nat /\ ((i + 1) + 1) - 1 = i + 1 /\ (i + 1) + 1 # 1
        OBVIOUS
      <4>2. SUFFICES ASSUME (i + 1) + 1 <= n PROVE g[(i + 1) + 1] = f[(i + 1) + 1]
        BY <4>1
      <4>3. (i + 1) + 1 \in 1 .. n /\ g[i + 1] = f[i + 1]
        BY <4>1, <4>2, <3>2
      <4>4. g[(i + 1) + 1] = g[i + 1] \o ss[(i + 1) + 1]
        BY <2>3, <4>1, <4>3
      <4>5. f[(i + 1) + 1] = f[i + 1] \o ss[(i + 1) + 1]
        BY <1>3, <4>1, <4>3
      <4>6. QED
        BY <4>3, <4>4, <4>5
    <3>3. QED
      BY <3>1, <3>2, InductionOnSet
  <2>5. n - 1 \in Nat /\ (n - 1) + 1 = n
    BY <1>5
  <2>6. g[n] = f[n]
    <3>1. PICK m \in Nat : m + 1 = n
      BY <2>5
    <3>2. m \in S
      BY <3>1, <2>4
    <3>3. QED
      BY <3>1, <3>2
  <2>7. FlattenSeq(ss) = f[n]
    BY <2>1, <2>3, <2>6
  <2>8. QED
    BY <1>3, <2>7 DEF Joins
<1>6. QED
  BY <1>4, <1>5
-----------------------------------------------------------------------------
\* A function evaluated at once is the function.
LEMMA EagerIsSame == ASSUME NEW f PROVE Eager(f) = f
BY DEF Eager

\* What a field may hold, and lists of fields.
Tags   == SectionTypes \cup {"hnamesx"}
Values == Int \cup STRING \cup Seq(STRING) \cup Tags
Fields == Seq(Values \X Nat)

\* The fields of a list begin where those before them add up to, and it is as
\* long as all of them.
LEMMA FieldsDef ==
  ASSUME NEW s \in Fields
  PROVE  /\ Widths(s) \in [1 .. Len(s) -> Nat]
         /\ Starts(s) \in [1 .. Len(s) -> Nat]
         /\ \A i \in 1 .. Len(s) : Starts(s)[i] = Sums(Widths(s))[i - 1]
         /\ SizeOf(s) = Sums(Widths(s))[Len(s)]
         /\ SizeOf(s) \in Nat
         /\ \A i \in 1 .. Len(s) : Starts(s)[i] + s[i][2] <= SizeOf(s)
<1>1. Len(s) \in Nat /\ DOMAIN s = 1 .. Len(s) /\ \A i \in 1 .. Len(s) : s[i][2] \in Nat
  BY DEF Fields
<1>2. PICK w : w = Widths(s)
  OBVIOUS
<1>3. w \in [1 .. Len(s) -> Nat] /\ w \in [1 .. Len(s) -> Int] /\ Len(w) = Len(s)
      /\ \A i \in 1 .. Len(s) : w[i] = s[i][2]
  BY <1>1, <1>2 DEF Widths
<1>4. PICK sums : sums = Sums(w)
  OBVIOUS
<1>5. /\ sums \in [0 .. Len(s) -> Nat]
      /\ \A i, j \in 0 .. Len(s) : i <= j => sums[i] <= sums[j]
  BY <1>1, <1>3, <1>4, SumsRise
<1>6. \A i \in 1 .. Len(s) : sums[i] = sums[i - 1] + w[i]
  BY <1>1, <1>3, <1>4, SumsDef
<1>7. Starts(s) = [i \in 1 .. Len(s) |-> sums[i - 1]]
  <2> DEFINE f == [i \in 1 .. Len(s) |-> sums[i - 1]]
  <2>1. Starts(s) = Eager(f)
    BY <1>1, <1>2, <1>4 DEF Starts
  <2>2. Eager(f) = f
    BY EagerIsSame
  <2>3. QED
    BY <2>1, <2>2
<1>8. SizeOf(s) = sums[Len(s)]
  BY <1>2, <1>3, <1>4 DEF SizeOf, TotalOf
<1>9. \A i \in 1 .. Len(s) : i - 1 \in 0 .. Len(s) /\ i \in 0 .. Len(s)
  BY <1>1
<1>10. \A i \in 1 .. Len(s) : sums[i - 1] \in Nat /\ sums[i] <= sums[Len(s)] /\ sums[Len(s)] \in Nat
  BY <1>1, <1>5, <1>9
<1>11. Starts(s) \in [1 .. Len(s) -> Nat]
  BY <1>7, <1>10
<1>12. \A i \in 1 .. Len(s) : Starts(s)[i] + s[i][2] <= SizeOf(s)
  BY <1>3, <1>6, <1>7, <1>8, <1>10
<1>13. SizeOf(s) \in Nat
  BY <1>1, <1>5, <1>8
<1>14. QED
  BY <1>2, <1>3, <1>4, <1>7, <1>8, <1>11, <1>12, <1>13

\* Fields are written one behind another.
LEMMA ConcatFields ==
  ASSUME NEW s \in Fields, NEW t \in Fields
  PROVE  /\ s \o t \in Fields
         /\ Len(s \o t) = Len(s) + Len(t)
         /\ SizeOf(s \o t) = SizeOf(s) + SizeOf(t)
         /\ \A i \in 1 .. Len(s) : /\ (s \o t)[i] = s[i]
                                   /\ Starts(s \o t)[i] = Starts(s)[i]
         /\ \A i \in 1 .. Len(t) : /\ (s \o t)[Len(s) + i] = t[i]
                                   /\ Starts(s \o t)[Len(s) + i] = SizeOf(s) + Starts(t)[i]
<1>1. PICK r : r = s \o t
  OBVIOUS
<1>2. /\ r \in Fields /\ Len(r) = Len(s) + Len(t)
      /\ \A i \in 1 .. Len(s) : r[i] = s[i]
      /\ \A i \in 1 .. Len(t) : r[Len(s) + i] = t[i]
  BY <1>1 DEF Fields
<1>3. Len(s) \in Nat /\ Len(t) \in Nat
  BY DEF Fields
<1>4. /\ Widths(s) \in [1 .. Len(s) -> Nat] /\ Widths(t) \in [1 .. Len(t) -> Nat]
      /\ Widths(r) \in [1 .. Len(s) + Len(t) -> Nat]
  BY <1>2, FieldsDef
<1>5. /\ Widths(s) \in [1 .. Len(s) -> Int] /\ Widths(t) \in [1 .. Len(t) -> Int]
      /\ Widths(r) \in [1 .. Len(s) + Len(t) -> Int]
  BY <1>4
<1>6. /\ \A i \in 1 .. Len(s) : Widths(r)[i] = Widths(s)[i]
      /\ \A i \in 1 .. Len(t) : Widths(r)[Len(s) + i] = Widths(t)[i]
  BY <1>2, <1>3 DEF Widths
<1>7. /\ \A i \in 0 .. Len(s) : Sums(Widths(r))[i] = Sums(Widths(s))[i]
      /\ \A i \in 0 .. Len(t) :
           Sums(Widths(r))[Len(s) + i] = Sums(Widths(s))[Len(s)] + Sums(Widths(t))[i]
  BY <1>3, <1>5, <1>6, SumsOfConcat
<1>8. /\ \A i \in 1 .. Len(r) : Starts(r)[i] = Sums(Widths(r))[i - 1]
      /\ SizeOf(r) = Sums(Widths(r))[Len(r)]
  BY <1>2, FieldsDef
<1>9. /\ \A i \in 1 .. Len(s) : Starts(s)[i] = Sums(Widths(s))[i - 1]
      /\ SizeOf(s) = Sums(Widths(s))[Len(s)]
      /\ \A i \in 1 .. Len(t) : Starts(t)[i] = Sums(Widths(t))[i - 1]
      /\ SizeOf(t) = Sums(Widths(t))[Len(t)]
  BY FieldsDef
<1>10. SizeOf(r) = SizeOf(s) + SizeOf(t)
  BY <1>2, <1>3, <1>7, <1>8, <1>9
<1>11. ASSUME NEW i \in 1 .. Len(s) PROVE Starts(r)[i] = Starts(s)[i]
  <2>1. i \in 1 .. Len(r) /\ i - 1 \in 0 .. Len(s)
    BY <1>2, <1>3
  <2>2. QED
    BY <2>1, <1>7, <1>8, <1>9
<1>12. ASSUME NEW i \in 1 .. Len(t) PROVE Starts(r)[Len(s) + i] = SizeOf(s) + Starts(t)[i]
  <2>1. Len(s) + i \in 1 .. Len(r) /\ i - 1 \in 0 .. Len(t) /\ (Len(s) + i) - 1 = Len(s) + (i - 1)
    BY <1>2, <1>3
  <2>2. Starts(r)[Len(s) + i] = Sums(Widths(r))[(Len(s) + i) - 1]
    BY <2>1, <1>8
  <2>3. Sums(Widths(r))[Len(s) + (i - 1)] = SizeOf(s) + Sums(Widths(t))[i - 1]
    BY <2>1, <1>7, <1>9
  <2>4. QED
    BY <2>1, <2>2, <2>3, <1>9
<1>13. QED
  BY <1>1, <1>2, <1>10, <1>11, <1>12

\* Fields laid out in a file from an offset on.
Laid(at, o, s) ==
  \A i \in 1 .. Len(s) : o + Starts(s)[i] \in DOMAIN at /\ at[o + Starts(s)[i]] = s[i]

\* Of fields one behind the other, each part lies at its place.
LEMMA LaidConcat ==
  ASSUME NEW s \in Fields, NEW t \in Fields, NEW at, NEW o \in Nat,
         Laid(at, o, s \o t)
  PROVE  Laid(at, o, s) /\ Laid(at, o + SizeOf(s), t)
<1>1. PICK r : r = s \o t
  OBVIOUS
<1>2. \A i \in 1 .. Len(r) : o + Starts(r)[i] \in DOMAIN at /\ at[o + Starts(r)[i]] = r[i]
  BY <1>1 DEF Laid
<1>3. /\ Len(r) = Len(s) + Len(t)
      /\ \A i \in 1 .. Len(s) : r[i] = s[i] /\ Starts(r)[i] = Starts(s)[i]
      /\ \A i \in 1 .. Len(t) : /\ r[Len(s) + i] = t[i]
                                /\ Starts(r)[Len(s) + i] = SizeOf(s) + Starts(t)[i]
  BY <1>1, ConcatFields
<1>4. Len(s) \in Nat /\ Len(t) \in Nat
  BY DEF Fields
<1>5. Laid(at, o, s)
  <2>1. \A i \in 1 .. Len(s) : i \in 1 .. Len(r)
    BY <1>3, <1>4
  <2>2. QED
    BY <2>1, <1>2, <1>3 DEF Laid
<1>6. ASSUME NEW i \in 1 .. Len(t)
      PROVE  /\ (o + SizeOf(s)) + Starts(t)[i] \in DOMAIN at
             /\ at[(o + SizeOf(s)) + Starts(t)[i]] = t[i]
  <2>1. Len(s) + i \in 1 .. Len(r)
    BY <1>3, <1>4
  <2>2. SizeOf(s) \in Nat /\ Starts(t)[i] \in Nat
    BY FieldsDef
  <2>3. o + Starts(r)[Len(s) + i] = (o + SizeOf(s)) + Starts(t)[i]
    BY <2>2, <1>3
  <2>4. QED
    BY <2>1, <2>3, <1>2, <1>3
<1>7. QED
  BY <1>5, <1>6 DEF Laid

Sizes(ss) == [i \in DOMAIN ss |-> SizeOf(ss[i])]

\* So are lists of fields, each from where those before it end.
LEMMA LaidFlatten ==
  ASSUME NEW n \in Nat, NEW ss \in [1 .. n -> Fields]
  PROVE  /\ FlattenSeq(ss) \in Fields
         /\ Sizes(ss) \in [1 .. n -> Nat]
         /\ SizeOf(FlattenSeq(ss)) = Sums(Sizes(ss))[n]
         /\ \A at, o : o \in Nat /\ Laid(at, o, FlattenSeq(ss)) =>
              \A i \in 1 .. n : Laid(at, o + Sums(Sizes(ss))[i - 1], ss[i])
<1>1. PICK f : Joins(Values \X Nat, n, ss, f) /\ FlattenSeq(ss) = f[n]
  BY FlattenDef DEF Fields
<1>2. /\ f \in [0 .. n -> Fields] /\ f[0] = <<>>
      /\ \A i \in 1 .. n : f[i] = f[i - 1] \o ss[i]
  BY <1>1 DEF Joins, Fields
<1>3. Sizes(ss) \in [1 .. n -> Nat]
  BY FieldsDef DEF Sizes
<1>4. PICK sums : sums = Sums(Sizes(ss))
  OBVIOUS
<1>5. /\ sums \in [0 .. n -> Nat] /\ sums[0] = 0
      /\ \A i \in 1 .. n : sums[i] = sums[i - 1] + SizeOf(ss[i])
  <2>1. Sizes(ss) \in [1 .. n -> Int] /\ \A i \in 1 .. n : Sizes(ss)[i] = SizeOf(ss[i])
    BY <1>3 DEF Sizes
  <2>2. QED
    BY <2>1, <1>3, <1>4, SumsDef, SumsRise
<1> DEFINE Apart(m) ==
             /\ SizeOf(f[m]) = sums[m]
             /\ \A at, o : o \in Nat /\ Laid(at, o, f[m]) =>
                  \A i \in 1 .. m : Laid(at, o + sums[i - 1], ss[i])
           S == {m \in Nat : m <= n => Apart(m)}
<1>6. S = Nat
  <2>1. 0 \in S
    <3>1. SizeOf(<<>>) = 0
      <4>1. <<>> \in Fields /\ Len(<<>>) = 0
        BY DEF Fields
      <4>2. SizeOf(<<>>) = Sums(Widths(<<>>))[0] /\ Widths(<<>>) \in [1 .. 0 -> Nat]
        BY <4>1, FieldsDef
      <4>3. Widths(<<>>) \in [1 .. 0 -> Int]
        BY <4>2
      <4>4. QED
        BY <4>2, <4>3, SumsDef
    <3>2. QED
      BY <3>1, <1>2, <1>5
  <2>2. ASSUME NEW m \in S PROVE m + 1 \in S
    <3>1. m \in Nat /\ (m + 1) - 1 = m
      OBVIOUS
    <3>2. SUFFICES ASSUME m + 1 <= n PROVE Apart(m + 1)
      BY <3>1
    <3>3. m + 1 \in 1 .. n /\ m \in 0 .. n /\ m <= n
      BY <3>1, <3>2
    <3>4. Apart(m)
      BY <3>3, <2>2
    <3>5. f[m + 1] = f[m] \o ss[m + 1] /\ sums[m + 1] = sums[m] + SizeOf(ss[m + 1])
      BY <1>2, <1>5, <3>1, <3>3
    <3>6. f[m] \in Fields /\ ss[m + 1] \in Fields
      BY <1>2, <3>3
    <3>7. SizeOf(f[m + 1]) = sums[m + 1]
      BY <3>4, <3>5, <3>6, ConcatFields
    <3>8. ASSUME NEW at, NEW o, o \in Nat, Laid(at, o, f[m + 1]), NEW i \in 1 .. m + 1
          PROVE  Laid(at, o + sums[i - 1], ss[i])
      <4>1. Laid(at, o, f[m]) /\ Laid(at, o + SizeOf(f[m]), ss[m + 1])
        BY <3>5, <3>6, <3>8, LaidConcat
      <4>2. CASE i \in 1 .. m
        BY <4>1, <4>2, <3>4, <3>8
      <4>3. CASE i = m + 1
        BY <4>1, <4>3, <3>4, <3>1
      <4>4. QED
        BY <4>2, <4>3, <3>1
    <3>9. QED
      BY <3>7, <3>8
  <2>3. QED
    <3> HIDE DEF S
    <3>1. S \subseteq Nat
      BY DEF S
    <3>2. QED
      BY <3>1, <2>1, <2>2, InductionOnSet
<1>7. Apart(n)
  <2> HIDE DEF Apart
  <2>1. n \in S /\ n <= n
    BY <1>6
  <2>2. QED
    BY <2>1
<1>8. f[n] \in Fields
  BY <1>2
<1>9. QED
  BY <1>1, <1>3, <1>4, <1>7, <1>8

\* Rows of one size make a table.
LEMMA LaidTable ==
  ASSUME NEW n \in Nat, NEW ss \in [1 .. n -> Fields], NEW k \in Nat,
         \A i \in 1 .. n : SizeOf(ss[i]) = k
  PROVE  /\ FlattenSeq(ss) \in Fields
         /\ SizeOf(FlattenSeq(ss)) = n * k
         /\ \A at, o : o \in Nat /\ Laid(at, o, FlattenSeq(ss)) =>
              \A i \in 1 .. n : Laid(at, o + (i - 1) * k, ss[i])
<1>1. Sizes(ss) \in [1 .. n -> Int] /\ \A i \in 1 .. n : Sizes(ss)[i] = k
  BY FieldsDef DEF Sizes
<1>2. \A i \in 0 .. n : Sums(Sizes(ss))[i] = i * k
  <2>1. PICK w : w = Sizes(ss)
    OBVIOUS
  <2>2. w \in [1 .. n -> Int] /\ k \in Int /\ \A i \in 1 .. n : w[i] = k
    BY <1>1, <2>1
  <2>3. QED
    BY <2>1, <2>2, SumsOfEqual
<1>3. \A i \in 1 .. n : i - 1 \in 0 .. n
  OBVIOUS
<1>4. n \in 0 .. n
  OBVIOUS
<1>5. QED
  BY <1>2, <1>3, <1>4, LaidFlatten
-----------------------------------------------------------------------------
\* A list of n numbers, and its sums one by one.
Numbers(n, w) == n \in Nat /\ w \in [1 .. n -> Int]

\* The running sums of a short list, written out.
LEMMA SumsOfFew ==
  ASSUME NEW n, NEW w, Numbers(n, w)
  PROVE  /\ n >= 1 => Sums(w)[1] = w[1]
         /\ n >= 2 => Sums(w)[2] = w[1] + w[2]
         /\ n >= 3 => Sums(w)[3] = w[1] + w[2] + w[3]
         /\ n >= 4 => Sums(w)[4] = w[1] + w[2] + w[3] + w[4]
         /\ n >= 5 => Sums(w)[5] = w[1] + w[2] + w[3] + w[4] + w[5]
         /\ n >= 6 => Sums(w)[6] = w[1] + w[2] + w[3] + w[4] + w[5] + w[6]
         /\ n >= 7 => Sums(w)[7] = w[1] + w[2] + w[3] + w[4] + w[5] + w[6] + w[7]
         /\ n >= 8 => Sums(w)[8] = w[1] + w[2] + w[3] + w[4] + w[5] + w[6] + w[7] + w[8]
         /\ n >= 9 => Sums(w)[9] = w[1] + w[2] + w[3] + w[4] + w[5] + w[6] + w[7] + w[8] + w[9]
         /\ n >= 10 => Sums(w)[10] = w[1] + w[2] + w[3] + w[4] + w[5] + w[6] + w[7] + w[8] + w[9]
                                     + w[10]
         /\ n >= 11 => Sums(w)[11] = w[1] + w[2] + w[3] + w[4] + w[5] + w[6] + w[7] + w[8] + w[9]
                                     + w[10] + w[11]
         /\ n >= 12 => Sums(w)[12] = w[1] + w[2] + w[3] + w[4] + w[5] + w[6] + w[7] + w[8] + w[9]
                                     + w[10] + w[11] + w[12]
         /\ n >= 13 => Sums(w)[13] = w[1] + w[2] + w[3] + w[4] + w[5] + w[6] + w[7] + w[8] + w[9]
                                     + w[10] + w[11] + w[12] + w[13]
         /\ n >= 14 => Sums(w)[14] = w[1] + w[2] + w[3] + w[4] + w[5] + w[6] + w[7] + w[8] + w[9]
                                     + w[10] + w[11] + w[12] + w[13] + w[14]
         /\ n >= 15 => Sums(w)[15] = w[1] + w[2] + w[3] + w[4] + w[5] + w[6] + w[7] + w[8] + w[9]
                                     + w[10] + w[11] + w[12] + w[13] + w[14] + w[15]
         /\ n >= 16 => Sums(w)[16] = w[1] + w[2] + w[3] + w[4] + w[5] + w[6] + w[7] + w[8] + w[9]
                                     + w[10] + w[11] + w[12] + w[13] + w[14] + w[15] + w[16]
<1>0. n \in Nat /\ w \in [1 .. n -> Int]
  BY DEF Numbers
<1>1. PICK sums : sums = Sums(w)
  OBVIOUS
<1>2. sums[0] = 0 /\ \A i \in 1 .. n : w[i] \in Int /\ sums[i] = sums[i - 1] + w[i]
  BY <1>0, <1>1, SumsDef
<1>3. ASSUME NEW i \in Nat, NEW j \in Nat, i + 1 = j, n >= j
      PROVE  j \in 1 .. n /\ w[j] \in Int /\ sums[j] = sums[i] + w[j]
  <2>1. j \in 1 .. n /\ j - 1 = i
    BY <1>0, <1>3
  <2>2. QED
    BY <1>2, <2>1
<1>s1. n >= 1 => w[1] \in Int /\ sums[1] = w[1]
  BY <1>2, <1>3
<1>s2. n >= 2 => w[2] \in Int /\ sums[2] = sums[1] + w[2]
  BY <1>3
<1>s3. n >= 3 => w[3] \in Int /\ sums[3] = sums[2] + w[3]
  BY <1>3
<1>s4. n >= 4 => w[4] \in Int /\ sums[4] = sums[3] + w[4]
  BY <1>3
<1>s5. n >= 5 => w[5] \in Int /\ sums[5] = sums[4] + w[5]
  BY <1>3
<1>s6. n >= 6 => w[6] \in Int /\ sums[6] = sums[5] + w[6]
  BY <1>3
<1>s7. n >= 7 => w[7] \in Int /\ sums[7] = sums[6] + w[7]
  BY <1>3
<1>s8. n >= 8 => w[8] \in Int /\ sums[8] = sums[7] + w[8]
  BY <1>3
<1>s9. n >= 9 => w[9] \in Int /\ sums[9] = sums[8] + w[9]
  BY <1>3
<1>s10. n >= 10 => w[10] \in Int /\ sums[10] = sums[9] + w[10]
  BY <1>3
<1>s11. n >= 11 => w[11] \in Int /\ sums[11] = sums[10] + w[11]
  BY <1>3
<1>s12. n >= 12 => w[12] \in Int /\ sums[12] = sums[11] + w[12]
  BY <1>3
<1>s13. n >= 13 => w[13] \in Int /\ sums[13] = sums[12] + w[13]
  BY <1>3
<1>s14. n >= 14 => w[14] \in Int /\ sums[14] = sums[13] + w[14]
  BY <1>3
<1>s15. n >= 15 => w[15] \in Int /\ sums[15] = sums[14] + w[15]
  BY <1>3
<1>s16. n >= 16 => w[16] \in Int /\ sums[16] = sums[15] + w[16]
  BY <1>3
<1>d. /\ (n >= 2 => n >= 1)
      /\ (n >= 3 => n >= 2)
      /\ (n >= 4 => n >= 3)
      /\ (n >= 5 => n >= 4)
      /\ (n >= 6 => n >= 5)
      /\ (n >= 7 => n >= 6)
      /\ (n >= 8 => n >= 7)
      /\ (n >= 9 => n >= 8)
      /\ (n >= 10 => n >= 9)
      /\ (n >= 11 => n >= 10)
      /\ (n >= 12 => n >= 11)
      /\ (n >= 13 => n >= 12)
      /\ (n >= 14 => n >= 13)
      /\ (n >= 15 => n >= 14)
      /\ (n >= 16 => n >= 15)
  BY <1>0
<1>c2. n >= 2 => sums[2] = w[1] + w[2]
  BY ONLY <1>d, <1>s2, <1>s1, Zenon
<1>c3. n >= 3 => sums[3] = w[1] + w[2] + w[3]
  BY ONLY <1>d, <1>s3, <1>c2, Zenon
<1>c4. n >= 4 => sums[4] = w[1] + w[2] + w[3] + w[4]
  BY ONLY <1>d, <1>s4, <1>c3, Zenon
<1>c5. n >= 5 => sums[5] = w[1] + w[2] + w[3] + w[4] + w[5]
  BY ONLY <1>d, <1>s5, <1>c4, Zenon
<1>c6. n >= 6 => sums[6] = w[1] + w[2] + w[3] + w[4] + w[5] + w[6]
  BY ONLY <1>d, <1>s6, <1>c5, Zenon
<1>c7. n >= 7 => sums[7] = w[1] + w[2] + w[3] + w[4] + w[5] + w[6] + w[7]
  BY ONLY <1>d, <1>s7, <1>c6, Zenon
<1>c8. n >= 8 => sums[8] = w[1] + w[2] + w[3] + w[4] + w[5] + w[6] + w[7] + w[8]
  BY ONLY <1>d, <1>s8, <1>c7, Zenon
<1>c9. n >= 9 => sums[9] = w[1] + w[2] + w[3] + w[4] + w[5] + w[6] + w[7] + w[8]
                           + w[9]
  BY ONLY <1>d, <1>s9, <1>c8, Zenon
<1>c10. n >= 10 => sums[10] = w[1] + w[2] + w[3] + w[4] + w[5] + w[6] + w[7] + w[8]
                              + w[9] + w[10]
  BY ONLY <1>d, <1>s10, <1>c9, Zenon
<1>c11. n >= 11 => sums[11] = w[1] + w[2] + w[3] + w[4] + w[5] + w[6] + w[7] + w[8]
                              + w[9] + w[10] + w[11]
  BY ONLY <1>d, <1>s11, <1>c10, Zenon
<1>c12. n >= 12 => sums[12] = w[1] + w[2] + w[3] + w[4] + w[5] + w[6] + w[7] + w[8]
                              + w[9] + w[10] + w[11] + w[12]
  BY ONLY <1>d, <1>s12, <1>c11, Zenon
<1>c13. n >= 13 => sums[13] = w[1] + w[2] + w[3] + w[4] + w[5] + w[6] + w[7] + w[8]
                              + w[9] + w[10] + w[11] + w[12] + w[13]
  BY ONLY <1>d, <1>s13, <1>c12, Zenon
<1>c14. n >= 14 => sums[14] = w[1] + w[2] + w[3] + w[4] + w[5] + w[6] + w[7] + w[8]
                              + w[9] + w[10] + w[11] + w[12] + w[13] + w[14]
  BY ONLY <1>d, <1>s14, <1>c13, Zenon
<1>c15. n >= 15 => sums[15] = w[1] + w[2] + w[3] + w[4] + w[5] + w[6] + w[7] + w[8]
                              + w[9] + w[10] + w[11] + w[12] + w[13] + w[14]
                              + w[15]
  BY ONLY <1>d, <1>s15, <1>c14, Zenon
<1>c16. n >= 16 => sums[16] = w[1] + w[2] + w[3] + w[4] + w[5] + w[6] + w[7] + w[8]
                              + w[9] + w[10] + w[11] + w[12] + w[13] + w[14]
                              + w[15] + w[16]
  BY ONLY <1>d, <1>s16, <1>c15, Zenon
<1>4. QED
  BY <1>1, <1>s1, <1>c2, <1>c3, <1>c4, <1>c5, <1>c6, <1>c7, <1>c8,
     <1>c9, <1>c10, <1>c11, <1>c12, <1>c13, <1>c14, <1>c15, <1>c16

\* A record type as it is given: a width for every field, and a name of its own
\* for every field that is kept.
Record(n, names, widths) ==
  /\ DOMAIN names = 1 .. n
  /\ widths \in [1 .. n -> Nat]
  /\ \A i, j \in 1 .. n : names[i] = names[j] /\ names[i] # Skip => i = j

\* Where the named fields of a record type begin, and how much it takes.
LEMMA StructDef ==
  ASSUME NEW n \in Nat, NEW names, NEW widths, Record(n, names, widths)
  PROVE  /\ Struct(names, widths).size = Sums(widths)[n]
         /\ DOMAIN Struct(names, widths).at = {names[i] : i \in {j \in 1 .. n : names[j] # Skip}}
         /\ \A i \in 1 .. n : names[i] # Skip =>
              Struct(names, widths).at[names[i]] = <<Sums(widths)[i - 1], widths[i]>>
<1>a. /\ DOMAIN names = 1 .. n
      /\ widths \in [1 .. n -> Nat]
      /\ \A i, j \in 1 .. n : names[i] = names[j] /\ names[i] # Skip => i = j
  BY DEF Record
<1> DEFINE named == {i \in DOMAIN names : names[i] # Skip}
           Spot(name) == CHOOSE i \in named : names[i] = name
           at == [name \in {names[i] : i \in named} |->
                    <<Sums(widths)[Spot(name) - 1], widths[Spot(name)]>>]
<1>1. PICK a : a = at
  OBVIOUS
<1>2. Struct(names, widths) = [size |-> Sums(widths)[n], at |-> a]
  <2>1. DOMAIN names = 1 .. n /\ Len(widths) = n
    BY <1>a
  <2> DEFINE sums0 == Eager(Sums(widths))
             at0   == Eager([name \in {names[i] : i \in named} |->
                               <<sums0[Spot(name) - 1], widths[Spot(name)]>>])
  <2>2. Struct(names, widths) = [size |-> TotalOf(widths), at |-> at0]
    BY ONLY Zenon DEF Struct
  <2>5. at0 = at
    BY EagerIsSame
  <2>3. TotalOf(widths) = Sums(widths)[n]
    BY <2>1 DEF TotalOf
  <2>4. QED
    BY ONLY <1>1, <2>2, <2>3, <2>5
<1>3. \A i \in named : Spot(names[i]) = i
  BY <1>a
<1>4. \A i \in named : a[names[i]] = <<Sums(widths)[i - 1], widths[i]>>
  BY <1>1, <1>3
<1>5. DOMAIN a = {names[i] : i \in named}
  BY <1>1
<1>8. named = {j \in 1 .. n : names[j] # Skip}
  BY <1>a
<1> HIDE DEF at
<1>6. Struct(names, widths).size = Sums(widths)[n] /\ Struct(names, widths).at = a
  BY ONLY <1>2
<1>7. QED
  BY <1>a, <1>4, <1>5, <1>6, <1>8

\* What was written is what is read.
LEMMA GetRecord ==
  ASSUME NEW n \in Nat, NEW names, NEW widths, Record(n, names, widths),
         NEW s \in Fields, Widths(s) = widths, NEW o \in Nat
  PROVE  /\ SizeOf(s) = Struct(names, widths).size
         /\ Laid(file.at, o, s) =>
              \A i \in 1 .. n :
                names[i] # Skip => Get(Struct(names, widths), o)[names[i]] = s[i][1]
<1>1. DOMAIN names = 1 .. n /\ widths \in [1 .. n -> Nat]
  BY DEF Record
<1>2. Len(s) = n /\ \A i \in 1 .. n : s[i][2] = widths[i]
  <2>1. Len(s) \in Nat /\ DOMAIN s = 1 .. Len(s)
    BY DEF Fields
  <2>a. DOMAIN s = DOMAIN Widths(s) /\ DOMAIN widths = 1 .. n
    BY <1>1 DEF Widths
  <2>2. Len(s) = n
    <3>1. 1 .. Len(s) = 1 .. n
      BY <2>1, <2>a
    <3>2. PICK m \in Nat : m = Len(s)
      BY <2>1
    <3>3. QED
      BY ONLY <3>1, <3>2, n \in Nat
  <2>3. QED
    BY <2>1, <2>a, <2>2 DEF Widths
<1>3. /\ \A i \in 1 .. n : Starts(s)[i] = Sums(widths)[i - 1]
      /\ SizeOf(s) = Sums(widths)[n]
  BY <1>2, FieldsDef
<1>4. PICK S : S = Struct(names, widths)
  OBVIOUS
<1>5. /\ S.size = Sums(widths)[n]
      /\ DOMAIN S.at = {names[i] : i \in {j \in 1 .. n : names[j] # Skip}}
      /\ \A i \in 1 .. n : names[i] # Skip => S.at[names[i]] = <<Sums(widths)[i - 1], widths[i]>>
  BY <1>4, StructDef
<1>6. ASSUME Laid(file.at, o, s), NEW i \in 1 .. n, names[i] # Skip
      PROVE  Get(S, o)[names[i]] = s[i][1]
  <2>1. names[i] \in DOMAIN S.at
    BY <1>5, <1>6
  <2>2. Get(S, o)[names[i]] = Field(o + Starts(s)[i], s[i][2])
    <3>1. S.at[names[i]] = <<Starts(s)[i], s[i][2]>>
      BY <1>2, <1>3, <1>5, <1>6
    <3>2. Get(S, o)[names[i]] = Field(o + S.at[names[i]][1], S.at[names[i]][2])
      BY <2>1 DEF Get
    <3>3. QED
      BY <3>1, <3>2
  <2>3. o + Starts(s)[i] \in DOMAIN file.at /\ file.at[o + Starts(s)[i]] = s[i]
    BY <1>2, <1>6 DEF Laid
  <2>4. QED
    BY <2>2, <2>3 DEF Field
<1>7. QED
  BY <1>3, <1>4, <1>5, <1>6
-----------------------------------------------------------------------------
\* What is written takes room: fields of at least a byte.
Written == Seq(Values \X (Nat \ {0}))

\* What is written is a list of fields of at least a byte each.
LEMMA WrittenIsFields ==
  ASSUME NEW s \in Written
  PROVE  s \in Fields /\ \A i \in 1 .. Len(s) : s[i] \in Values \X Nat /\ s[i][2] >= 1
BY DEF Written, Fields

\* A field ends before a later one of the list begins.
LEMMA StartsApart ==
  ASSUME NEW s \in Fields, NEW i \in 1 .. Len(s), NEW j \in 1 .. Len(s), i < j
  PROVE  Starts(s)[i] + s[i][2] <= Starts(s)[j]
<1>1. /\ Widths(s) \in [1 .. Len(s) -> Nat]
      /\ \A k \in 1 .. Len(s) : Starts(s)[k] = Sums(Widths(s))[k - 1]
  BY FieldsDef
<1>2. PICK w : w = Widths(s)
  OBVIOUS
<1>3. PICK sums : sums = Sums(w)
  OBVIOUS
<1>4. Len(s) \in Nat /\ w \in [1 .. Len(s) -> Nat] /\ w \in [1 .. Len(s) -> Int]
  BY <1>1, <1>2 DEF Fields
<1>5. /\ \A a, b \in 0 .. Len(s) : a <= b => sums[a] <= sums[b]
      /\ \A a \in 1 .. Len(s) : sums[a] = sums[a - 1] + w[a]
  BY <1>3, <1>4, SumsRise, SumsDef
<1>6. w[i] = s[i][2]
  BY <1>2 DEF Widths, Fields
<1>7. i \in 0 .. Len(s) /\ j - 1 \in 0 .. Len(s) /\ i <= j - 1
  BY <1>4
<1>8. sums[i] <= sums[j - 1]
  BY <1>5, <1>7
<1>9. QED
  BY <1>1, <1>2, <1>3, <1>5, <1>6, <1>8

\* The total of the first numbers of a list.
LEMMA TotalOfFront ==
  ASSUME NEW n \in Nat, NEW w \in [1 .. n -> Int], NEW k \in 0 .. n
  PROVE  TotalOf(SubSeq(w, 1, k)) = Sums(w)[k]
<1>1. PICK v : v = SubSeq(w, 1, k)
  OBVIOUS
<1>2. v \in [1 .. k -> Int] /\ Len(v) = k /\ (\A i \in 1 .. k : v[i] = w[i]) /\ k \in Nat
  <2>1. w \in Seq(Int) /\ Len(w) = n /\ 1 \in 1 .. Len(w) + 1 /\ k \in 1 - 1 .. Len(w)
        /\ k - 1 + 1 = k /\ \A i \in 1 .. k : 1 + i - 1 = i
    OBVIOUS
  <2>2. v \in Seq(Int) /\ Len(v) = k - 1 + 1 /\ \A i \in 1 .. k - 1 + 1 : v[i] = w[1 + i - 1]
    BY <1>1, <2>1, SubSeqProperties
  <2>3. QED
    BY <2>1, <2>2
<1>3. k \in 0 .. k
  BY <1>2
<1>4. Sums(v)[k] = Sums(w)[k]
  BY <1>2, <1>3, SumsOfFront
<1>5. QED
  BY <1>1, <1>2, <1>4 DEF TotalOf

\* In the image of a file every part lies where those before it end, and every
\* field begins before the file ends.
LEMMA ImageDef ==
  ASSUME NEW n \in Nat, NEW parts \in [1 .. n -> Written]
  PROVE  /\ Sizes(parts) \in [1 .. n -> Nat]
         /\ Image(parts).len = Sums(Sizes(parts))[n]
         /\ \A o \in DOMAIN Image(parts).at : o \in Nat /\ o < Image(parts).len
         /\ \A p \in 1 .. n : Laid(Image(parts).at, Sums(Sizes(parts))[p - 1], parts[p])
<1> DEFINE sizes  == [p \in DOMAIN parts |-> SizeOf(parts[p])]
           starts == [p \in DOMAIN parts |-> Starts(parts[p])]
           bases  == [p \in DOMAIN parts |-> TotalOf(SubSeq(sizes, 1, p - 1))]
           places == UNION {{<<p, i>> : i \in DOMAIN parts[p]} : p \in DOMAIN parts}
           at     == [x \in places |-> bases[x[1]] + starts[x[1]][x[2]]]
           Spot(o) == CHOOSE x \in places : at[x] = o
           fields == [o \in {at[x] : x \in places} |-> parts[Spot(o)[1]][Spot(o)[2]]]
<1>1. Image(parts) = [len |-> TotalOf(sizes), at |-> fields]
  <2> DEFINE sizes0  == Eager(sizes)
             starts0 == Eager(starts)
             bases0  == Eager([p \in DOMAIN parts |-> TotalOf(SubSeq(sizes0, 1, p - 1))])
             at0     == Eager([x \in places |-> bases0[x[1]] + starts0[x[1]][x[2]]])
             Spot0(o) == CHOOSE x \in places : at0[x] = o
             fields0 == Eager([o \in {at0[x] : x \in places} |->
                                 parts[Spot0(o)[1]][Spot0(o)[2]]])
  <2>1. Image(parts) = [len |-> TotalOf(sizes0), at |-> fields0]
    BY ONLY Zenon DEF Image
  <2>2. sizes0 = sizes /\ starts0 = starts
    BY EagerIsSame
  <2>3. bases0 = bases
    BY EagerIsSame, <2>2
  <2>4. at0 = at
    BY EagerIsSame, <2>2, <2>3
  <2> DEFINE Filled(f) == [o \in {f[x] : x \in places} |->
                             parts[(CHOOSE x \in places : f[x] = o)[1]]
                                  [(CHOOSE x \in places : f[x] = o)[2]]]
  <2>5. fields0 = fields
    <3>1. fields0 = Eager(Filled(at0)) /\ fields = Filled(at)
      BY ONLY Zenon
    <3> HIDE DEF fields0, fields, Filled, at0, at
    <3>2. QED
      BY <3>1, <2>4, EagerIsSame
  <2>6. QED
    BY <2>1, <2>2, <2>5
<1>2. DOMAIN parts = 1 .. n /\ \A p \in 1 .. n : parts[p] \in Written /\ parts[p] \in Fields
  BY WrittenIsFields
<1>3. Sizes(parts) = sizes /\ sizes \in [1 .. n -> Nat] /\ sizes \in [1 .. n -> Int] /\ Len(sizes) = n
  BY <1>2, FieldsDef DEF Sizes
<1>4. PICK sums : sums = Sums(sizes)
  OBVIOUS
<1>5. /\ sums \in [0 .. n -> Nat]
      /\ \A a, b \in 0 .. n : a <= b => sums[a] <= sums[b]
      /\ \A a \in 1 .. n : sums[a] = sums[a - 1] + sizes[a]
  BY <1>3, <1>4, SumsRise, SumsDef
<1>6. TotalOf(sizes) = sums[n]
  BY <1>3, <1>4 DEF TotalOf
<1>7. PICK w : w = sizes
  OBVIOUS
<1>8. \A p \in 1 .. n : TotalOf(SubSeq(sizes, 1, p - 1)) = sums[p - 1]
  <2> TAKE p \in 1 .. n
  <2>1. p - 1 \in 0 .. n
    OBVIOUS
  <2>2. w \in [1 .. n -> Int]
    BY <1>3, <1>7
  <2>3. TotalOf(SubSeq(w, 1, p - 1)) = Sums(w)[p - 1]
    BY <2>1, <2>2, TotalOfFront
  <2>4. QED
    BY <2>3, <1>4, <1>7
<1>9. \A x \in places : x[1] \in 1 .. n /\ x[2] \in 1 .. Len(parts[x[1]]) /\ x = <<x[1], x[2]>>
  BY <1>2 DEF Written
<1>10. ASSUME NEW p \in 1 .. n, NEW i \in 1 .. Len(parts[p])
       PROVE  <<p, i>> \in places
  BY <1>2 DEF Written
<1>11. \A x \in places : at[x] = sums[x[1] - 1] + Starts(parts[x[1]])[x[2]]
  BY <1>2, <1>8, <1>9
<1> HIDE DEF places, at, fields
<1> DEFINE Begins(p, i) == sums[p - 1] + Starts(parts[p])[i]
<1>12. ASSUME NEW p \in 1 .. n, NEW i \in 1 .. Len(parts[p])
       PROVE  /\ Begins(p, i) \in Nat /\ sums[p - 1] \in Nat /\ sums[p] \in Nat
              /\ sums[p - 1] <= Begins(p, i) /\ Begins(p, i) < sums[p]
  <2>1. parts[p] \in Written /\ parts[p] \in Fields
    BY <1>2
  <2>2. Starts(parts[p])[i] \in Nat /\ Starts(parts[p])[i] + parts[p][i][2] <= SizeOf(parts[p])
        /\ SizeOf(parts[p]) \in Nat
    BY <2>1, FieldsDef
  <2>3. parts[p][i][2] \in Nat /\ parts[p][i][2] >= 1
    BY <2>1, WrittenIsFields
  <2>4. sums[p - 1] \in Nat /\ sums[p] \in Nat /\ sums[p] = sums[p - 1] + SizeOf(parts[p])
    <3>1. p - 1 \in 0 .. n /\ p \in 0 .. n /\ sizes[p] = SizeOf(parts[p])
      BY <1>2
    <3>2. QED
      BY <3>1, <1>5
  <2>5. QED
    BY <2>2, <2>3, <2>4
<1>13. ASSUME NEW p \in 1 .. n, NEW i \in 1 .. Len(parts[p]), NEW q \in 1 .. n,
              NEW j \in 1 .. Len(parts[q]), Begins(p, i) = Begins(q, j)
       PROVE  p = q /\ i = j
  <2>1. ~(p < q) /\ ~(q < p)
    <3>1. p < q => sums[p] <= sums[q - 1]
      <4>1. p \in 0 .. n /\ q - 1 \in 0 .. n
        OBVIOUS
      <4>2. QED
        BY <4>1, <1>5
    <3>2. q < p => sums[q] <= sums[p - 1]
      <4>1. q \in 0 .. n /\ p - 1 \in 0 .. n
        OBVIOUS
      <4>2. QED
        BY <4>1, <1>5
    <3>3. QED
      BY <3>1, <3>2, <1>12, <1>13
  <2>2. p = q
    BY <2>1
  <2>3. parts[p] \in Fields /\ i \in Int /\ j \in Int /\ j \in 1 .. Len(parts[p])
    BY <1>2, <2>2
  <2>4. Starts(parts[p])[i] = Starts(parts[p])[j]
    <3>1. Starts(parts[p])[i] \in Nat /\ Starts(parts[p])[j] \in Nat
      BY <2>3, FieldsDef
    <3>2. sums[p - 1] \in Nat
      BY <1>12
    <3>3. QED
      BY <3>1, <3>2, <1>13, <2>2
  <2>5. parts[p][i][2] >= 1 /\ parts[p][j][2] >= 1 /\ parts[p][i][2] \in Nat /\ parts[p][j][2] \in Nat
    BY <2>3, <1>2, WrittenIsFields
  <2>6. Starts(parts[p])[i] \in Nat
    BY <2>3, FieldsDef
  <2>7. ~(i < j)
    BY <2>3, <2>4, <2>5, <2>6, StartsApart
  <2>8. ~(j < i)
    BY <2>3, <2>4, <2>5, <2>6, StartsApart
  <2>9. QED
    BY <2>2, <2>3, <2>7, <2>8
<1>14. ASSUME NEW p \in 1 .. n, NEW i \in 1 .. Len(parts[p])
       PROVE  Begins(p, i) \in DOMAIN fields /\ fields[Begins(p, i)] = parts[p][i]
  <2>1. <<p, i>> \in places /\ at[<<p, i>>] = Begins(p, i)
    BY <1>10, <1>11
  <2>2. Begins(p, i) \in {at[x] : x \in places}
    BY <2>1
  <2>3. Spot(Begins(p, i)) \in places /\ at[Spot(Begins(p, i))] = Begins(p, i)
    BY <2>1
  <2>4. PICK x : x = Spot(Begins(p, i))
    OBVIOUS
  <2>5. x \in places /\ x[1] \in 1 .. n /\ x[2] \in 1 .. Len(parts[x[1]]) /\ Begins(x[1], x[2]) = Begins(p, i)
    BY <2>3, <2>4, <1>9, <1>11
  <2>6. x[1] = p /\ x[2] = i
    BY <2>5, <1>13
  <2>7. QED
    BY <2>2, <2>4, <2>6 DEF fields
<1>15. \A p \in 1 .. n : Laid(fields, sums[p - 1], parts[p])
  BY <1>14 DEF Laid
<1>16. ASSUME NEW o \in DOMAIN fields PROVE o \in Nat /\ o < sums[n]
  <2>1. PICK x \in places : o = at[x]
    BY DEF fields
  <2>2. x[1] \in 1 .. n /\ x[2] \in 1 .. Len(parts[x[1]]) /\ o = Begins(x[1], x[2])
    BY <2>1, <1>9, <1>11
  <2>3. o \in Nat /\ o < sums[x[1]] /\ sums[x[1]] \in Nat
    BY <2>2, <1>12
  <2>4. sums[x[1]] <= sums[n] /\ sums[n] \in Nat
    <3>1. x[1] \in 0 .. n /\ n \in 0 .. n
      BY <2>2
    <3>2. QED
      BY <3>1, <1>5
  <2>5. QED
    BY <2>3, <2>4
<1>17. Image(parts).len = sums[n] /\ Image(parts).at = fields
  <2>1. Image(parts) = [len |-> sums[n], at |-> fields]
    BY ONLY <1>1, <1>6
  <2>2. QED
    BY ONLY <2>1
<1>18. QED
  BY <1>3, <1>4, <1>15, <1>16, <1>17

-----------------------------------------------------------------------------
\* The records.  Where fields of the widths of a record type lie in the file,
\* Get reads each of its fields.

\* What is read of the file header where fields of its widths lie, and its size.
LEMMA ResourceHeaderRead ==
  ASSUME NEW s \in Written, Widths(s) = <<8, 2, 2, 4, 4, 4, 2, 2, 4>>
  PROVE  /\ s \in Fields /\ SizeOf(s) = 32 /\ ResourceHeader.size = 32
         /\ \A o \in Nat : Laid(file.at, o, s) =>
              /\ Get(ResourceHeader, o).version_identifier = s[1][1]
              /\ Get(ResourceHeader, o).table_of_contents_offset = s[5][1]
              /\ Get(ResourceHeader, o).first_section_offset = s[6][1]
              /\ Get(ResourceHeader, o).number_of_sections = s[7][1]
<1>1. s \in Written /\ s \in Fields /\ Len(s) = 9
  BY DEF Written, Fields, Widths
<1>2. PICK n1, n2, n3, n4, n5 :
        /\ n1 = "version_identifier" /\ n2 = "total_file_size"
        /\ n3 = "table_of_contents_offset" /\ n4 = "first_section_offset"
        /\ n5 = "number_of_sections"
  BY Zenon
<1>3. /\ n1 # n2 /\ n1 # n3 /\ n1 # n4 /\ n1 # n5 /\ n1 # Skip /\ n2 # n3
      /\ n2 # n4 /\ n2 # n5 /\ n2 # Skip /\ n3 # n4 /\ n3 # n5 /\ n3 # Skip
      /\ n4 # n5 /\ n4 # Skip /\ n5 # Skip
  BY <1>2 DEF Skip
<1>4. PICK names, w : /\ names = <<n1, Skip, Skip, n2, n3, n4, n5, Skip, Skip>>
                      /\ w = <<8, 2, 2, 4, 4, 4, 2, 2, 4>>
  BY Zenon
<1>5. Record(9, names, w) /\ Numbers(9, w) /\ Widths(s) = w
  BY <1>3, <1>4 DEF Record, Numbers, Widths
<1>6. ResourceHeader = Struct(names, w)
  BY <1>2, <1>4 DEF ResourceHeader
<1>7. Sums(w)[9] = 32 /\ Len(w) = 9
  BY <1>4, <1>5, SumsOfFew
<1>8. ResourceHeader.size = 32 /\ SizeOf(s) = 32
  <2>1. ResourceHeader.size = 32
    <3>1. PICK n : n = 9
      OBVIOUS
    <3>2. n \in Nat /\ Record(n, names, w)
      BY <1>5, <3>1
    <3>3. Struct(names, w).size = Sums(w)[n]
      BY ONLY <3>2, StructDef
    <3>4. QED
      BY <3>1, <3>3, <1>6, <1>7
  <2>2. SizeOf(s) = 32
    BY <1>5, <1>7 DEF SizeOf, TotalOf
  <2>3. QED
    BY <2>1, <2>2
<1>9. ASSUME NEW o \in Nat, Laid(file.at, o, s)
      PROVE  /\ Get(ResourceHeader, o)[n1] = s[1][1]
             /\ Get(ResourceHeader, o)[n3] = s[5][1]
             /\ Get(ResourceHeader, o)[n4] = s[6][1]
             /\ Get(ResourceHeader, o)[n5] = s[7][1]
  <2>1. \A i \in 1 .. 9 : names[i] # Skip => Get(ResourceHeader, o)[names[i]] = s[i][1]
    BY <1>1, <1>5, <1>6, <1>9, GetRecord
  <2>2. QED
    BY <2>1, <1>3, <1>4
<1>10. QED
  BY <1>1, <1>2, <1>8, <1>9

\* What is read of an entry of the table of contents where fields of its widths lie, and its size.
LEMMA TableOfContentsEntryRead ==
  ASSUME NEW s \in Written, Widths(s) = <<16, 2, 2, 4, 4, 4>>
  PROVE  /\ s \in Fields /\ SizeOf(s) = 32 /\ TableOfContentsEntry.size = 32
         /\ \A o \in Nat : Laid(file.at, o, s) =>
              /\ Get(TableOfContentsEntry, o).section_type = s[1][1]
              /\ Get(TableOfContentsEntry, o).section_offset = s[5][1]
              /\ Get(TableOfContentsEntry, o).section_length = s[6][1]
<1>1. s \in Written /\ s \in Fields /\ Len(s) = 6
  BY DEF Written, Fields, Widths
<1>2. PICK n1, n2, n3, n4, n5, n6 :
        /\ n1 = "section_type" /\ n2 = "flags" /\ n3 = "section_flags"
        /\ n4 = "section_qualifier" /\ n5 = "section_offset" /\ n6 = "section_length"
  BY Zenon
<1>3. /\ n1 # n2 /\ n1 # n3 /\ n1 # n4 /\ n1 # n5 /\ n1 # n6 /\ n1 # Skip
      /\ n2 # n3 /\ n2 # n4 /\ n2 # n5 /\ n2 # n6 /\ n2 # Skip /\ n3 # n4 /\ n3 # n5
      /\ n3 # n6 /\ n3 # Skip /\ n4 # n5 /\ n4 # n6 /\ n4 # Skip /\ n5 # n6
      /\ n5 # Skip /\ n6 # Skip
  BY <1>2 DEF Skip
<1>4. PICK names, w : /\ names = <<n1, n2, n3, n4, n5, n6>>
                      /\ w = <<16, 2, 2, 4, 4, 4>>
  BY Zenon
<1>5. Record(6, names, w) /\ Numbers(6, w) /\ Widths(s) = w
  BY <1>3, <1>4 DEF Record, Numbers, Widths
<1>6. TableOfContentsEntry = Struct(names, w)
  BY <1>2, <1>4 DEF TableOfContentsEntry
<1>7. Sums(w)[6] = 32 /\ Len(w) = 6
  BY <1>4, <1>5, SumsOfFew
<1>8. TableOfContentsEntry.size = 32 /\ SizeOf(s) = 32
  <2>1. TableOfContentsEntry.size = 32
    <3>1. PICK n : n = 6
      OBVIOUS
    <3>2. n \in Nat /\ Record(n, names, w)
      BY <1>5, <3>1
    <3>3. Struct(names, w).size = Sums(w)[n]
      BY ONLY <3>2, StructDef
    <3>4. QED
      BY <3>1, <3>3, <1>6, <1>7
  <2>2. SizeOf(s) = 32
    BY <1>5, <1>7 DEF SizeOf, TotalOf
  <2>3. QED
    BY <2>1, <2>2
<1>9. ASSUME NEW o \in Nat, Laid(file.at, o, s)
      PROVE  /\ Get(TableOfContentsEntry, o)[n1] = s[1][1]
             /\ Get(TableOfContentsEntry, o)[n5] = s[5][1]
             /\ Get(TableOfContentsEntry, o)[n6] = s[6][1]
  <2>1. \A i \in 1 .. 6 : names[i] # Skip => Get(TableOfContentsEntry, o)[names[i]] = s[i][1]
    BY <1>1, <1>5, <1>6, <1>9, GetRecord
  <2>2. QED
    BY <2>1, <1>3, <1>4
<1>10. QED
  BY <1>1, <1>2, <1>8, <1>9

\* What is read of a section header where fields of its widths lie, and its size.
LEMMA SectionHeaderRead ==
  ASSUME NEW s \in Written, Widths(s) = <<16, 4, 2, 2, 4, 4>>
  PROVE  /\ s \in Fields /\ SizeOf(s) = 32 /\ SectionHeader.size = 32
         /\ \A o \in Nat : Laid(file.at, o, s) =>
              /\ Get(SectionHeader, o).section_length = s[5][1]
<1>1. s \in Written /\ s \in Fields /\ Len(s) = 6
  BY DEF Written, Fields, Widths
<1>2. PICK n1, n2, n3, n4, n5 :
        /\ n1 = "section_id" /\ n2 = "section_qualifier" /\ n3 = "flags"
        /\ n4 = "section_flags" /\ n5 = "section_length"
  BY Zenon
<1>3. /\ n1 # n2 /\ n1 # n3 /\ n1 # n4 /\ n1 # n5 /\ n1 # Skip /\ n2 # n3
      /\ n2 # n4 /\ n2 # n5 /\ n2 # Skip /\ n3 # n4 /\ n3 # n5 /\ n3 # Skip
      /\ n4 # n5 /\ n4 # Skip /\ n5 # Skip
  BY <1>2 DEF Skip
<1>4. PICK names, w : /\ names = <<n1, n2, n3, n4, n5, Skip>>
                      /\ w = <<16, 4, 2, 2, 4, 4>>
  BY Zenon
<1>5. Record(6, names, w) /\ Numbers(6, w) /\ Widths(s) = w
  BY <1>3, <1>4 DEF Record, Numbers, Widths
<1>6. SectionHeader = Struct(names, w)
  BY <1>2, <1>4 DEF SectionHeader
<1>7. Sums(w)[6] = 32 /\ Len(w) = 6
  BY <1>4, <1>5, SumsOfFew
<1>8. SectionHeader.size = 32 /\ SizeOf(s) = 32
  <2>1. SectionHeader.size = 32
    <3>1. PICK n : n = 6
      OBVIOUS
    <3>2. n \in Nat /\ Record(n, names, w)
      BY <1>5, <3>1
    <3>3. Struct(names, w).size = Sums(w)[n]
      BY ONLY <3>2, StructDef
    <3>4. QED
      BY <3>1, <3>3, <1>6, <1>7
  <2>2. SizeOf(s) = 32
    BY <1>5, <1>7 DEF SizeOf, TotalOf
  <2>3. QED
    BY <2>1, <2>2
<1>9. ASSUME NEW o \in Nat, Laid(file.at, o, s)
      PROVE  /\ Get(SectionHeader, o)[n5] = s[5][1]
  <2>1. \A i \in 1 .. 6 : names[i] # Skip => Get(SectionHeader, o)[names[i]] = s[i][1]
    BY <1>1, <1>5, <1>6, <1>9, GetRecord
  <2>2. QED
    BY <2>1, <1>3, <1>4
<1>10. QED
  BY <1>1, <1>2, <1>8, <1>9

\* What is read of the counts of a descriptor where fields of its widths lie, and its size.
LEMMA PriDescriptorRead ==
  ASSUME NEW s \in Written, Widths(s) = <<2, 2, 2, 2, 2, 2, 2, 2, 2, 2>>
  PROVE  /\ s \in Fields /\ SizeOf(s) = 20 /\ PriDescriptor.size = 20
         /\ \A o \in Nat : Laid(file.at, o, s) =>
              /\ Get(PriDescriptor, o).hierarchical_schema_count = s[4][1]
              /\ Get(PriDescriptor, o).decision_info_count = s[5][1]
              /\ Get(PriDescriptor, o).resource_map_count = s[6][1]
              /\ Get(PriDescriptor, o).primary_resource_map_index = s[7][1]
              /\ Get(PriDescriptor, o).referenced_file_sections_count = s[8][1]
              /\ Get(PriDescriptor, o).data_item_section_count = s[9][1]
<1>1. s \in Written /\ s \in Fields /\ Len(s) = 10
  BY DEF Written, Fields, Widths
<1>2. PICK n1, n2, n3, n4, n5, n6, n7, n8 :
        /\ n1 = "flags" /\ n2 = "included_file_list_section_index"
        /\ n3 = "hierarchical_schema_count" /\ n4 = "decision_info_count"
        /\ n5 = "resource_map_count" /\ n6 = "primary_resource_map_index"
        /\ n7 = "referenced_file_sections_count" /\ n8 = "data_item_section_count"
  BY Zenon
<1>3. /\ n1 # n2 /\ n1 # n3 /\ n1 # n4 /\ n1 # n5 /\ n1 # n6 /\ n1 # n7
      /\ n1 # n8 /\ n1 # Skip /\ n2 # n3 /\ n2 # n4 /\ n2 # n5 /\ n2 # n6 /\ n2 # n7
      /\ n2 # n8 /\ n2 # Skip /\ n3 # n4 /\ n3 # n5 /\ n3 # n6 /\ n3 # n7 /\ n3 # n8
      /\ n3 # Skip /\ n4 # n5 /\ n4 # n6 /\ n4 # n7 /\ n4 # n8 /\ n4 # Skip
      /\ n5 # n6 /\ n5 # n7 /\ n5 # n8 /\ n5 # Skip /\ n6 # n7 /\ n6 # n8
      /\ n6 # Skip /\ n7 # n8 /\ n7 # Skip /\ n8 # Skip
  BY <1>2 DEF Skip
<1>4. PICK names, w : /\ names = <<n1, n2, Skip, n3, n4, n5, n6, n7, n8, Skip>>
                      /\ w = <<2, 2, 2, 2, 2, 2, 2, 2, 2, 2>>
  BY Zenon
<1>5. Record(10, names, w) /\ Numbers(10, w) /\ Widths(s) = w
  BY <1>3, <1>4 DEF Record, Numbers, Widths
<1>6. PriDescriptor = Struct(names, w)
  BY <1>2, <1>4 DEF PriDescriptor
<1>7. Sums(w)[10] = 20 /\ Len(w) = 10
  BY <1>4, <1>5, SumsOfFew
<1>8. PriDescriptor.size = 20 /\ SizeOf(s) = 20
  <2>1. PriDescriptor.size = 20
    <3>1. PICK n : n = 10
      OBVIOUS
    <3>2. n \in Nat /\ Record(n, names, w)
      BY <1>5, <3>1
    <3>3. Struct(names, w).size = Sums(w)[n]
      BY ONLY <3>2, StructDef
    <3>4. QED
      BY <3>1, <3>3, <1>6, <1>7
  <2>2. SizeOf(s) = 20
    BY <1>5, <1>7 DEF SizeOf, TotalOf
  <2>3. QED
    BY <2>1, <2>2
<1>9. ASSUME NEW o \in Nat, Laid(file.at, o, s)
      PROVE  /\ Get(PriDescriptor, o)[n3] = s[4][1]
             /\ Get(PriDescriptor, o)[n4] = s[5][1]
             /\ Get(PriDescriptor, o)[n5] = s[6][1]
             /\ Get(PriDescriptor, o)[n6] = s[7][1]
             /\ Get(PriDescriptor, o)[n7] = s[8][1]
             /\ Get(PriDescriptor, o)[n8] = s[9][1]
  <2>1. \A i \in 1 .. 10 : names[i] # Skip => Get(PriDescriptor, o)[names[i]] = s[i][1]
    BY <1>1, <1>5, <1>6, <1>9, GetRecord
  <2>2. QED
    BY <2>1, <1>3, <1>4
<1>10. QED
  BY <1>1, <1>2, <1>8, <1>9

\* What is read of a schema's header where fields of its widths lie, and its size.
LEMMA HierarchicalSchemaHeaderRead ==
  ASSUME NEW s \in Written, Widths(s) = <<2, 2, 2, 2>>
  PROVE  /\ s \in Fields /\ SizeOf(s) = 8 /\ HierarchicalSchemaHeader.size = 8
         /\ \A o \in Nat : Laid(file.at, o, s) =>
              /\ Get(HierarchicalSchemaHeader, o).unique_name_length = s[2][1]
              /\ Get(HierarchicalSchemaHeader, o).name_length = s[3][1]
<1>1. s \in Written /\ s \in Fields /\ Len(s) = 4
  BY DEF Written, Fields, Widths
<1>2. PICK n1, n2 :
        /\ n1 = "unique_name_length" /\ n2 = "name_length"
  BY Zenon
<1>3. /\ n1 # n2 /\ n1 # Skip /\ n2 # Skip
  BY <1>2 DEF Skip
<1>4. PICK names, w : /\ names = <<Skip, n1, n2, Skip>>
                      /\ w = <<2, 2, 2, 2>>
  BY Zenon
<1>5. Record(4, names, w) /\ Numbers(4, w) /\ Widths(s) = w
  BY <1>3, <1>4 DEF Record, Numbers, Widths
<1>6. HierarchicalSchemaHeader = Struct(names, w)
  BY <1>2, <1>4 DEF HierarchicalSchemaHeader
<1>7. Sums(w)[4] = 8 /\ Len(w) = 4
  BY <1>4, <1>5, SumsOfFew
<1>8. HierarchicalSchemaHeader.size = 8 /\ SizeOf(s) = 8
  <2>1. HierarchicalSchemaHeader.size = 8
    <3>1. PICK n : n = 4
      OBVIOUS
    <3>2. n \in Nat /\ Record(n, names, w)
      BY <1>5, <3>1
    <3>3. Struct(names, w).size = Sums(w)[n]
      BY ONLY <3>2, StructDef
    <3>4. QED
      BY <3>1, <3>3, <1>6, <1>7
  <2>2. SizeOf(s) = 8
    BY <1>5, <1>7 DEF SizeOf, TotalOf
  <2>3. QED
    BY <2>1, <2>2
<1>9. ASSUME NEW o \in Nat, Laid(file.at, o, s)
      PROVE  /\ Get(HierarchicalSchemaHeader, o)[n1] = s[2][1]
             /\ Get(HierarchicalSchemaHeader, o)[n2] = s[3][1]
  <2>1. \A i \in 1 .. 4 : names[i] # Skip => Get(HierarchicalSchemaHeader, o)[names[i]] = s[i][1]
    BY <1>1, <1>5, <1>6, <1>9, GetRecord
  <2>2. QED
    BY <2>1, <1>3, <1>4
<1>10. QED
  BY <1>1, <1>2, <1>8, <1>9

\* What is read of a schema's counts where fields of its widths lie, and its size.
LEMMA HierarchicalSchemaTrailerRead ==
  ASSUME NEW s \in Written, Widths(s) = <<2, 2, 2, 4, 4, 4, 4, 4>>
  PROVE  /\ s \in Fields /\ SizeOf(s) = 26 /\ HierarchicalSchemaTrailer.size = 26
         /\ \A o \in Nat : Laid(file.at, o, s) =>
              /\ Get(HierarchicalSchemaTrailer, o).number_of_resource_names = s[4][1]
              /\ Get(HierarchicalSchemaTrailer, o).number_of_scopes = s[5][1]
              /\ Get(HierarchicalSchemaTrailer, o).number_of_items = s[6][1]
              /\ Get(HierarchicalSchemaTrailer, o).unicode_name_block_length = s[7][1]
<1>1. s \in Written /\ s \in Fields /\ Len(s) = 8
  BY DEF Written, Fields, Widths
<1>2. PICK n1, n2, n3, n4, n5, n6 :
        /\ n1 = "longest_full_path_length" /\ n2 = "number_of_resource_names"
        /\ n3 = "number_of_scopes" /\ n4 = "number_of_items"
        /\ n5 = "unicode_name_block_length" /\ n6 = "total_length"
  BY Zenon
<1>3. /\ n1 # n2 /\ n1 # n3 /\ n1 # n4 /\ n1 # n5 /\ n1 # n6 /\ n1 # Skip
      /\ n2 # n3 /\ n2 # n4 /\ n2 # n5 /\ n2 # n6 /\ n2 # Skip /\ n3 # n4 /\ n3 # n5
      /\ n3 # n6 /\ n3 # Skip /\ n4 # n5 /\ n4 # n6 /\ n4 # Skip /\ n5 # n6
      /\ n5 # Skip /\ n6 # Skip
  BY <1>2 DEF Skip
<1>4. PICK names, w : /\ names = <<Skip, n1, Skip, n2, n3, n4, n5, n6>>
                      /\ w = <<2, 2, 2, 4, 4, 4, 4, 4>>
  BY Zenon
<1>5. Record(8, names, w) /\ Numbers(8, w) /\ Widths(s) = w
  BY <1>3, <1>4 DEF Record, Numbers, Widths
<1>6. HierarchicalSchemaTrailer = Struct(names, w)
  BY <1>2, <1>4 DEF HierarchicalSchemaTrailer
<1>7. Sums(w)[8] = 26 /\ Len(w) = 8
  BY <1>4, <1>5, SumsOfFew
<1>8. HierarchicalSchemaTrailer.size = 26 /\ SizeOf(s) = 26
  <2>1. HierarchicalSchemaTrailer.size = 26
    <3>1. PICK n : n = 8
      OBVIOUS
    <3>2. n \in Nat /\ Record(n, names, w)
      BY <1>5, <3>1
    <3>3. Struct(names, w).size = Sums(w)[n]
      BY ONLY <3>2, StructDef
    <3>4. QED
      BY <3>1, <3>3, <1>6, <1>7
  <2>2. SizeOf(s) = 26
    BY <1>5, <1>7 DEF SizeOf, TotalOf
  <2>3. QED
    BY <2>1, <2>2
<1>9. ASSUME NEW o \in Nat, Laid(file.at, o, s)
      PROVE  /\ Get(HierarchicalSchemaTrailer, o)[n2] = s[4][1]
             /\ Get(HierarchicalSchemaTrailer, o)[n3] = s[5][1]
             /\ Get(HierarchicalSchemaTrailer, o)[n4] = s[6][1]
             /\ Get(HierarchicalSchemaTrailer, o)[n5] = s[7][1]
  <2>1. \A i \in 1 .. 8 : names[i] # Skip => Get(HierarchicalSchemaTrailer, o)[names[i]] = s[i][1]
    BY <1>1, <1>5, <1>6, <1>9, GetRecord
  <2>2. QED
    BY <2>1, <1>3, <1>4
<1>10. QED
  BY <1>1, <1>2, <1>8, <1>9

\* What is read of a name entry where fields of its widths lie, and its size.
LEMMA ResourceNameEntryRead ==
  ASSUME NEW s \in Written, Widths(s) = <<2, 2, 2, 1, 1, 2, 2>>
  PROVE  /\ s \in Fields /\ SizeOf(s) = 12 /\ ResourceNameEntry.size = 12
         /\ \A o \in Nat : Laid(file.at, o, s) =>
              /\ Get(ResourceNameEntry, o).parent_scope_index = s[1][1]
              /\ Get(ResourceNameEntry, o).name_length = s[4][1]
              /\ Get(ResourceNameEntry, o).flags = s[5][1]
              /\ Get(ResourceNameEntry, o).name_offset_low = s[6][1]
              /\ Get(ResourceNameEntry, o).index_property = s[7][1]
<1>1. s \in Written /\ s \in Fields /\ Len(s) = 7
  BY DEF Written, Fields, Widths
<1>2. PICK n1, n2, n3, n4, n5, n6, n7 :
        /\ n1 = "parent_scope_index" /\ n2 = "full_path_length"
        /\ n3 = "uppercase_first_char" /\ n4 = "name_length" /\ n5 = "flags"
        /\ n6 = "name_offset_low" /\ n7 = "index_property"
  BY Zenon
<1>3. /\ n1 # n2 /\ n1 # n3 /\ n1 # n4 /\ n1 # n5 /\ n1 # n6 /\ n1 # n7
      /\ n1 # Skip /\ n2 # n3 /\ n2 # n4 /\ n2 # n5 /\ n2 # n6 /\ n2 # n7
      /\ n2 # Skip /\ n3 # n4 /\ n3 # n5 /\ n3 # n6 /\ n3 # n7 /\ n3 # Skip
      /\ n4 # n5 /\ n4 # n6 /\ n4 # n7 /\ n4 # Skip /\ n5 # n6 /\ n5 # n7
      /\ n5 # Skip /\ n6 # n7 /\ n6 # Skip /\ n7 # Skip
  BY <1>2 DEF Skip
<1>4. PICK names, w : /\ names = <<n1, n2, n3, n4, n5, n6, n7>>
                      /\ w = <<2, 2, 2, 1, 1, 2, 2>>
  BY Zenon
<1>5. Record(7, names, w) /\ Numbers(7, w) /\ Widths(s) = w
  BY <1>3, <1>4 DEF Record, Numbers, Widths
<1>6. ResourceNameEntry = Struct(names, w)
  BY <1>2, <1>4 DEF ResourceNameEntry
<1>7. Sums(w)[7] = 12 /\ Len(w) = 7
  BY <1>4, <1>5, SumsOfFew
<1>8. ResourceNameEntry.size = 12 /\ SizeOf(s) = 12
  <2>1. ResourceNameEntry.size = 12
    <3>1. PICK n : n = 7
      OBVIOUS
    <3>2. n \in Nat /\ Record(n, names, w)
      BY <1>5, <3>1
    <3>3. Struct(names, w).size = Sums(w)[n]
      BY ONLY <3>2, StructDef
    <3>4. QED
      BY <3>1, <3>3, <1>6, <1>7
  <2>2. SizeOf(s) = 12
    BY <1>5, <1>7 DEF SizeOf, TotalOf
  <2>3. QED
    BY <2>1, <2>2
<1>9. ASSUME NEW o \in Nat, Laid(file.at, o, s)
      PROVE  /\ Get(ResourceNameEntry, o)[n1] = s[1][1]
             /\ Get(ResourceNameEntry, o)[n4] = s[4][1]
             /\ Get(ResourceNameEntry, o)[n5] = s[5][1]
             /\ Get(ResourceNameEntry, o)[n6] = s[6][1]
             /\ Get(ResourceNameEntry, o)[n7] = s[7][1]
  <2>1. \A i \in 1 .. 7 : names[i] # Skip => Get(ResourceNameEntry, o)[names[i]] = s[i][1]
    BY <1>1, <1>5, <1>6, <1>9, GetRecord
  <2>2. QED
    BY <2>1, <1>3, <1>4
<1>10. QED
  BY <1>1, <1>2, <1>8, <1>9

\* What is read of a scope entry where fields of its widths lie, and its size.
LEMMA ScopeEntryRead ==
  ASSUME NEW s \in Written, Widths(s) = <<2, 2, 2, 2>>
  PROVE  /\ s \in Fields /\ SizeOf(s) = 8 /\ ScopeEntry.size = 8
<1>1. s \in Written /\ s \in Fields /\ Len(s) = 4
  BY DEF Written, Fields, Widths
<1>2. PICK n1, n2, n3 :
        /\ n1 = "scope_index" /\ n2 = "child_count" /\ n3 = "first_child_index"
  BY Zenon
<1>3. /\ n1 # n2 /\ n1 # n3 /\ n1 # Skip /\ n2 # n3 /\ n2 # Skip /\ n3 # Skip
  BY <1>2 DEF Skip
<1>4. PICK names, w : /\ names = <<n1, n2, n3, Skip>>
                      /\ w = <<2, 2, 2, 2>>
  BY Zenon
<1>5. Record(4, names, w) /\ Numbers(4, w) /\ Widths(s) = w
  BY <1>3, <1>4 DEF Record, Numbers, Widths
<1>6. ScopeEntry = Struct(names, w)
  BY <1>2, <1>4 DEF ScopeEntry
<1>7. Sums(w)[4] = 8 /\ Len(w) = 4
  BY <1>4, <1>5, SumsOfFew
<1>8. ScopeEntry.size = 8 /\ SizeOf(s) = 8
  <2>1. ScopeEntry.size = 8
    <3>1. PICK n : n = 4
      OBVIOUS
    <3>2. n \in Nat /\ Record(n, names, w)
      BY <1>5, <3>1
    <3>3. Struct(names, w).size = Sums(w)[n]
      BY ONLY <3>2, StructDef
    <3>4. QED
      BY <3>1, <3>3, <1>6, <1>7
  <2>2. SizeOf(s) = 8
    BY <1>5, <1>7 DEF SizeOf, TotalOf
  <2>3. QED
    BY <2>1, <2>2
<1>9. QED
  BY <1>1, <1>8

\* What is read of an item entry where fields of its widths lie, and its size.
LEMMA ItemEntryRead ==
  ASSUME NEW s \in Written, Widths(s) = << 2 >>
  PROVE  /\ s \in Fields /\ SizeOf(s) = 2 /\ ItemEntry.size = 2
<1>1. s \in Written /\ s \in Fields /\ Len(s) = 1
  BY DEF Written, Fields, Widths
<1>2. PICK n1 :
        /\ n1 = "item_index"
  BY Zenon
<1>3. /\ n1 # Skip
  BY <1>2 DEF Skip
<1>4. PICK names, w : /\ names = <<n1>>
                      /\ w = << 2 >>
  BY Zenon
<1>5. Record(1, names, w) /\ Numbers(1, w) /\ Widths(s) = w
  BY <1>3, <1>4 DEF Record, Numbers, Widths
<1>6. ItemEntry = Struct(names, w)
  BY <1>2, <1>4 DEF ItemEntry
<1>7. Sums(w)[1] = 2 /\ Len(w) = 1
  BY <1>4, <1>5, SumsOfFew
<1>8. ItemEntry.size = 2 /\ SizeOf(s) = 2
  <2>1. ItemEntry.size = 2
    <3>1. PICK n : n = 1
      OBVIOUS
    <3>2. n \in Nat /\ Record(n, names, w)
      BY <1>5, <3>1
    <3>3. Struct(names, w).size = Sums(w)[n]
      BY ONLY <3>2, StructDef
    <3>4. QED
      BY <3>1, <3>3, <1>6, <1>7
  <2>2. SizeOf(s) = 2
    BY <1>5, <1>7 DEF SizeOf, TotalOf
  <2>3. QED
    BY <2>1, <2>2
<1>9. QED
  BY <1>1, <1>8

\* What is read of the counts of a decision section where fields of its widths lie, and its size.
LEMMA DecisionInfoHeaderRead ==
  ASSUME NEW s \in Written, Widths(s) = <<2, 2, 2, 2, 2, 2>>
  PROVE  /\ s \in Fields /\ SizeOf(s) = 12 /\ DecisionInfoHeader.size = 12
         /\ \A o \in Nat : Laid(file.at, o, s) =>
              /\ Get(DecisionInfoHeader, o).number_of_distinct_qualifiers = s[1][1]
              /\ Get(DecisionInfoHeader, o).number_of_qualifiers = s[2][1]
              /\ Get(DecisionInfoHeader, o).number_of_qualifier_sets = s[3][1]
              /\ Get(DecisionInfoHeader, o).number_of_decisions = s[4][1]
              /\ Get(DecisionInfoHeader, o).number_of_index_table_entries = s[5][1]
              /\ Get(DecisionInfoHeader, o).qualifier_value_block_length = s[6][1]
<1>1. s \in Written /\ s \in Fields /\ Len(s) = 6
  BY DEF Written, Fields, Widths
<1>2. PICK n1, n2, n3, n4, n5, n6 :
        /\ n1 = "number_of_distinct_qualifiers" /\ n2 = "number_of_qualifiers"
        /\ n3 = "number_of_qualifier_sets" /\ n4 = "number_of_decisions"
        /\ n5 = "number_of_index_table_entries" /\ n6 = "qualifier_value_block_length"
  BY Zenon
<1>3. /\ n1 # n2 /\ n1 # n3 /\ n1 # n4 /\ n1 # n5 /\ n1 # n6 /\ n1 # Skip
      /\ n2 # n3 /\ n2 # n4 /\ n2 # n5 /\ n2 # n6 /\ n2 # Skip /\ n3 # n4 /\ n3 # n5
      /\ n3 # n6 /\ n3 # Skip /\ n4 # n5 /\ n4 # n6 /\ n4 # Skip /\ n5 # n6
      /\ n5 # Skip /\ n6 # Skip
  BY <1>2 DEF Skip
<1>4. PICK names, w : /\ names = <<n1, n2, n3, n4, n5, n6>>
                      /\ w = <<2, 2, 2, 2, 2, 2>>
  BY Zenon
<1>5. Record(6, names, w) /\ Numbers(6, w) /\ Widths(s) = w
  BY <1>3, <1>4 DEF Record, Numbers, Widths
<1>6. DecisionInfoHeader = Struct(names, w)
  BY <1>2, <1>4 DEF DecisionInfoHeader
<1>7. Sums(w)[6] = 12 /\ Len(w) = 6
  BY <1>4, <1>5, SumsOfFew
<1>8. DecisionInfoHeader.size = 12 /\ SizeOf(s) = 12
  <2>1. DecisionInfoHeader.size = 12
    <3>1. PICK n : n = 6
      OBVIOUS
    <3>2. n \in Nat /\ Record(n, names, w)
      BY <1>5, <3>1
    <3>3. Struct(names, w).size = Sums(w)[n]
      BY ONLY <3>2, StructDef
    <3>4. QED
      BY <3>1, <3>3, <1>6, <1>7
  <2>2. SizeOf(s) = 12
    BY <1>5, <1>7 DEF SizeOf, TotalOf
  <2>3. QED
    BY <2>1, <2>2
<1>9. ASSUME NEW o \in Nat, Laid(file.at, o, s)
      PROVE  /\ Get(DecisionInfoHeader, o)[n1] = s[1][1]
             /\ Get(DecisionInfoHeader, o)[n2] = s[2][1]
             /\ Get(DecisionInfoHeader, o)[n3] = s[3][1]
             /\ Get(DecisionInfoHeader, o)[n4] = s[4][1]
             /\ Get(DecisionInfoHeader, o)[n5] = s[5][1]
             /\ Get(DecisionInfoHeader, o)[n6] = s[6][1]
  <2>1. \A i \in 1 .. 6 : names[i] # Skip => Get(DecisionInfoHeader, o)[names[i]] = s[i][1]
    BY <1>1, <1>5, <1>6, <1>9, GetRecord
  <2>2. QED
    BY <2>1, <1>3, <1>4
<1>10. QED
  BY <1>1, <1>2, <1>8, <1>9

\* What is read of a decision entry where fields of its widths lie, and its size.
LEMMA DecisionEntryRead ==
  ASSUME NEW s \in Written, Widths(s) = <<2, 2>>
  PROVE  /\ s \in Fields /\ SizeOf(s) = 4 /\ DecisionEntry.size = 4
         /\ \A o \in Nat : Laid(file.at, o, s) =>
              /\ Get(DecisionEntry, o).first_qualifier_set_index = s[1][1]
              /\ Get(DecisionEntry, o).number_of_qualifier_sets = s[2][1]
<1>1. s \in Written /\ s \in Fields /\ Len(s) = 2
  BY DEF Written, Fields, Widths
<1>2. PICK n1, n2 :
        /\ n1 = "first_qualifier_set_index" /\ n2 = "number_of_qualifier_sets"
  BY Zenon
<1>3. /\ n1 # n2 /\ n1 # Skip /\ n2 # Skip
  BY <1>2 DEF Skip
<1>4. PICK names, w : /\ names = <<n1, n2>>
                      /\ w = <<2, 2>>
  BY Zenon
<1>5. Record(2, names, w) /\ Numbers(2, w) /\ Widths(s) = w
  BY <1>3, <1>4 DEF Record, Numbers, Widths
<1>6. DecisionEntry = Struct(names, w)
  BY <1>2, <1>4 DEF DecisionEntry
<1>7. Sums(w)[2] = 4 /\ Len(w) = 2
  BY <1>4, <1>5, SumsOfFew
<1>8. DecisionEntry.size = 4 /\ SizeOf(s) = 4
  <2>1. DecisionEntry.size = 4
    <3>1. PICK n : n = 2
      OBVIOUS
    <3>2. n \in Nat /\ Record(n, names, w)
      BY <1>5, <3>1
    <3>3. Struct(names, w).size = Sums(w)[n]
      BY ONLY <3>2, StructDef
    <3>4. QED
      BY <3>1, <3>3, <1>6, <1>7
  <2>2. SizeOf(s) = 4
    BY <1>5, <1>7 DEF SizeOf, TotalOf
  <2>3. QED
    BY <2>1, <2>2
<1>9. ASSUME NEW o \in Nat, Laid(file.at, o, s)
      PROVE  /\ Get(DecisionEntry, o)[n1] = s[1][1]
             /\ Get(DecisionEntry, o)[n2] = s[2][1]
  <2>1. \A i \in 1 .. 2 : names[i] # Skip => Get(DecisionEntry, o)[names[i]] = s[i][1]
    BY <1>1, <1>5, <1>6, <1>9, GetRecord
  <2>2. QED
    BY <2>1, <1>3, <1>4
<1>10. QED
  BY <1>1, <1>2, <1>8, <1>9

\* What is read of a set entry where fields of its widths lie, and its size.
LEMMA QualifierSetEntryRead ==
  ASSUME NEW s \in Written, Widths(s) = <<2, 2>>
  PROVE  /\ s \in Fields /\ SizeOf(s) = 4 /\ QualifierSetEntry.size = 4
         /\ \A o \in Nat : Laid(file.at, o, s) =>
              /\ Get(QualifierSetEntry, o).first_qualifier_index = s[1][1]
              /\ Get(QualifierSetEntry, o).number_of_qualifiers = s[2][1]
<1>1. s \in Written /\ s \in Fields /\ Len(s) = 2
  BY DEF Written, Fields, Widths
<1>2. PICK n1, n2 :
        /\ n1 = "first_qualifier_index" /\ n2 = "number_of_qualifiers"
  BY Zenon
<1>3. /\ n1 # n2 /\ n1 # Skip /\ n2 # Skip
  BY <1>2 DEF Skip
<1>4. PICK names, w : /\ names = <<n1, n2>>
                      /\ w = <<2, 2>>
  BY Zenon
<1>5. Record(2, names, w) /\ Numbers(2, w) /\ Widths(s) = w
  BY <1>3, <1>4 DEF Record, Numbers, Widths
<1>6. QualifierSetEntry = Struct(names, w)
  BY <1>2, <1>4 DEF QualifierSetEntry
<1>7. Sums(w)[2] = 4 /\ Len(w) = 2
  BY <1>4, <1>5, SumsOfFew
<1>8. QualifierSetEntry.size = 4 /\ SizeOf(s) = 4
  <2>1. QualifierSetEntry.size = 4
    <3>1. PICK n : n = 2
      OBVIOUS
    <3>2. n \in Nat /\ Record(n, names, w)
      BY <1>5, <3>1
    <3>3. Struct(names, w).size = Sums(w)[n]
      BY ONLY <3>2, StructDef
    <3>4. QED
      BY <3>1, <3>3, <1>6, <1>7
  <2>2. SizeOf(s) = 4
    BY <1>5, <1>7 DEF SizeOf, TotalOf
  <2>3. QED
    BY <2>1, <2>2
<1>9. ASSUME NEW o \in Nat, Laid(file.at, o, s)
      PROVE  /\ Get(QualifierSetEntry, o)[n1] = s[1][1]
             /\ Get(QualifierSetEntry, o)[n2] = s[2][1]
  <2>1. \A i \in 1 .. 2 : names[i] # Skip => Get(QualifierSetEntry, o)[names[i]] = s[i][1]
    BY <1>1, <1>5, <1>6, <1>9, GetRecord
  <2>2. QED
    BY <2>1, <1>3, <1>4
<1>10. QED
  BY <1>1, <1>2, <1>8, <1>9

\* What is read of a qualifier entry where fields of its widths lie, and its size.
LEMMA QualifierEntryRead ==
  ASSUME NEW s \in Written, Widths(s) = <<2, 2, 2, 2>>
  PROVE  /\ s \in Fields /\ SizeOf(s) = 8 /\ QualifierEntry.size = 8
         /\ \A o \in Nat : Laid(file.at, o, s) =>
              /\ Get(QualifierEntry, o).distinct_qualifier_index = s[1][1]
              /\ Get(QualifierEntry, o).priority = s[2][1]
              /\ Get(QualifierEntry, o).fallback_score = s[3][1]
<1>1. s \in Written /\ s \in Fields /\ Len(s) = 4
  BY DEF Written, Fields, Widths
<1>2. PICK n1, n2, n3 :
        /\ n1 = "distinct_qualifier_index" /\ n2 = "priority"
        /\ n3 = "fallback_score"
  BY Zenon
<1>3. /\ n1 # n2 /\ n1 # n3 /\ n1 # Skip /\ n2 # n3 /\ n2 # Skip /\ n3 # Skip
  BY <1>2 DEF Skip
<1>4. PICK names, w : /\ names = <<n1, n2, n3, Skip>>
                      /\ w = <<2, 2, 2, 2>>
  BY Zenon
<1>5. Record(4, names, w) /\ Numbers(4, w) /\ Widths(s) = w
  BY <1>3, <1>4 DEF Record, Numbers, Widths
<1>6. QualifierEntry = Struct(names, w)
  BY <1>2, <1>4 DEF QualifierEntry
<1>7. Sums(w)[4] = 8 /\ Len(w) = 4
  BY <1>4, <1>5, SumsOfFew
<1>8. QualifierEntry.size = 8 /\ SizeOf(s) = 8
  <2>1. QualifierEntry.size = 8
    <3>1. PICK n : n = 4
      OBVIOUS
    <3>2. n \in Nat /\ Record(n, names, w)
      BY <1>5, <3>1
    <3>3. Struct(names, w).size = Sums(w)[n]
      BY ONLY <3>2, StructDef
    <3>4. QED
      BY <3>1, <3>3, <1>6, <1>7
  <2>2. SizeOf(s) = 8
    BY <1>5, <1>7 DEF SizeOf, TotalOf
  <2>3. QED
    BY <2>1, <2>2
<1>9. ASSUME NEW o \in Nat, Laid(file.at, o, s)
      PROVE  /\ Get(QualifierEntry, o)[n1] = s[1][1]
             /\ Get(QualifierEntry, o)[n2] = s[2][1]
             /\ Get(QualifierEntry, o)[n3] = s[3][1]
  <2>1. \A i \in 1 .. 4 : names[i] # Skip => Get(QualifierEntry, o)[names[i]] = s[i][1]
    BY <1>1, <1>5, <1>6, <1>9, GetRecord
  <2>2. QED
    BY <2>1, <1>3, <1>4
<1>10. QED
  BY <1>1, <1>2, <1>8, <1>9

\* What is read of a condition entry where fields of its widths lie, and its size.
LEMMA DistinctQualifierEntryRead ==
  ASSUME NEW s \in Written, Widths(s) = <<2, 2, 2, 2, 4>>
  PROVE  /\ s \in Fields /\ SizeOf(s) = 12 /\ DistinctQualifierEntry.size = 12
         /\ \A o \in Nat : Laid(file.at, o, s) =>
              /\ Get(DistinctQualifierEntry, o).qualifier_type = s[2][1]
              /\ Get(DistinctQualifierEntry, o).qualifier_value_offset = s[5][1]
<1>1. s \in Written /\ s \in Fields /\ Len(s) = 5
  BY DEF Written, Fields, Widths
<1>2. PICK n1, n2, n3, n4, n5 :
        /\ n1 = "environment_qualifier_index" /\ n2 = "qualifier_type"
        /\ n3 = "condition_operator_index" /\ n4 = "value_type_index"
        /\ n5 = "qualifier_value_offset"
  BY Zenon
<1>3. /\ n1 # n2 /\ n1 # n3 /\ n1 # n4 /\ n1 # n5 /\ n1 # Skip /\ n2 # n3
      /\ n2 # n4 /\ n2 # n5 /\ n2 # Skip /\ n3 # n4 /\ n3 # n5 /\ n3 # Skip
      /\ n4 # n5 /\ n4 # Skip /\ n5 # Skip
  BY <1>2 DEF Skip
<1>4. PICK names, w : /\ names = <<n1, n2, n3, n4, n5>>
                      /\ w = <<2, 2, 2, 2, 4>>
  BY Zenon
<1>5. Record(5, names, w) /\ Numbers(5, w) /\ Widths(s) = w
  BY <1>3, <1>4 DEF Record, Numbers, Widths
<1>6. DistinctQualifierEntry = Struct(names, w)
  BY <1>2, <1>4 DEF DistinctQualifierEntry
<1>7. Sums(w)[5] = 12 /\ Len(w) = 5
  BY <1>4, <1>5, SumsOfFew
<1>8. DistinctQualifierEntry.size = 12 /\ SizeOf(s) = 12
  <2>1. DistinctQualifierEntry.size = 12
    <3>1. PICK n : n = 5
      OBVIOUS
    <3>2. n \in Nat /\ Record(n, names, w)
      BY <1>5, <3>1
    <3>3. Struct(names, w).size = Sums(w)[n]
      BY ONLY <3>2, StructDef
    <3>4. QED
      BY <3>1, <3>3, <1>6, <1>7
  <2>2. SizeOf(s) = 12
    BY <1>5, <1>7 DEF SizeOf, TotalOf
  <2>3. QED
    BY <2>1, <2>2
<1>9. ASSUME NEW o \in Nat, Laid(file.at, o, s)
      PROVE  /\ Get(DistinctQualifierEntry, o)[n2] = s[2][1]
             /\ Get(DistinctQualifierEntry, o)[n5] = s[5][1]
  <2>1. \A i \in 1 .. 5 : names[i] # Skip => Get(DistinctQualifierEntry, o)[names[i]] = s[i][1]
    BY <1>1, <1>5, <1>6, <1>9, GetRecord
  <2>2. QED
    BY <2>1, <1>3, <1>4
<1>10. QED
  BY <1>1, <1>2, <1>8, <1>9

\* What is read of the counts of a map where fields of its widths lie, and its size.
LEMMA ResourceMapHeaderRead ==
  ASSUME NEW s \in Written, Widths(s) = <<2, 2, 2, 2, 2, 2, 2, 2, 4, 4, 4, 4>>
  PROVE  /\ s \in Fields /\ SizeOf(s) = 32 /\ ResourceMapHeader.size = 32
         /\ \A o \in Nat : Laid(file.at, o, s) =>
              /\ Get(ResourceMapHeader, o).environment_references_block_length = s[1][1]
              /\ Get(ResourceMapHeader, o).hierarchical_schema_section_index = s[3][1]
              /\ Get(ResourceMapHeader, o).hierarchical_schema_reference_block_length = s[4][1]
              /\ Get(ResourceMapHeader, o).decision_info_section_index = s[5][1]
              /\ Get(ResourceMapHeader, o).resource_value_type_table_entries = s[6][1]
              /\ Get(ResourceMapHeader, o).item_to_iteminfo_group_table_entries = s[7][1]
              /\ Get(ResourceMapHeader, o).iteminfo_group_table_entries = s[8][1]
              /\ Get(ResourceMapHeader, o).iteminfo_table_entries = s[9][1]
              /\ Get(ResourceMapHeader, o).number_of_candidates = s[10][1]
              /\ Get(ResourceMapHeader, o).embedded_data_block_length = s[11][1]
              /\ Get(ResourceMapHeader, o).table_extension_block_length = s[12][1]
<1>1. s \in Written /\ s \in Fields /\ Len(s) = 12
  BY DEF Written, Fields, Widths
<1>2. PICK n1, n2, n3, n4, n5, n6, n7, n8, n9, n10, n11, n12 :
        /\ n1 = "environment_references_block_length"
        /\ n2 = "number_of_environment_references"
        /\ n3 = "hierarchical_schema_section_index"
        /\ n4 = "hierarchical_schema_reference_block_length"
        /\ n5 = "decision_info_section_index"
        /\ n6 = "resource_value_type_table_entries"
        /\ n7 = "item_to_iteminfo_group_table_entries"
        /\ n8 = "iteminfo_group_table_entries" /\ n9 = "iteminfo_table_entries"
        /\ n10 = "number_of_candidates" /\ n11 = "embedded_data_block_length"
        /\ n12 = "table_extension_block_length"
  BY Zenon
<1>3. /\ n1 # n2 /\ n1 # n3 /\ n1 # n4 /\ n1 # n5 /\ n1 # n6 /\ n1 # n7
      /\ n1 # n8 /\ n1 # n9 /\ n1 # n10 /\ n1 # n11 /\ n1 # n12 /\ n1 # Skip
      /\ n2 # n3 /\ n2 # n4 /\ n2 # n5 /\ n2 # n6 /\ n2 # n7 /\ n2 # n8 /\ n2 # n9
      /\ n2 # n10 /\ n2 # n11 /\ n2 # n12 /\ n2 # Skip /\ n3 # n4 /\ n3 # n5
      /\ n3 # n6 /\ n3 # n7 /\ n3 # n8 /\ n3 # n9 /\ n3 # n10 /\ n3 # n11
      /\ n3 # n12 /\ n3 # Skip /\ n4 # n5 /\ n4 # n6 /\ n4 # n7 /\ n4 # n8
      /\ n4 # n9 /\ n4 # n10 /\ n4 # n11 /\ n4 # n12 /\ n4 # Skip /\ n5 # n6
      /\ n5 # n7 /\ n5 # n8 /\ n5 # n9 /\ n5 # n10 /\ n5 # n11 /\ n5 # n12
      /\ n5 # Skip /\ n6 # n7 /\ n6 # n8 /\ n6 # n9 /\ n6 # n10 /\ n6 # n11
      /\ n6 # n12 /\ n6 # Skip /\ n7 # n8 /\ n7 # n9 /\ n7 # n10 /\ n7 # n11
      /\ n7 # n12 /\ n7 # Skip /\ n8 # n9 /\ n8 # n10 /\ n8 # n11 /\ n8 # n12
      /\ n8 # Skip /\ n9 # n10 /\ n9 # n11 /\ n9 # n12 /\ n9 # Skip /\ n10 # n11
      /\ n10 # n12 /\ n10 # Skip /\ n11 # n12 /\ n11 # Skip /\ n12 # Skip
  BY <1>2 DEF Skip
<1>4. PICK names, w : /\ names = <<n1, n2, n3, n4, n5, n6, n7, n8, n9, n10, n11, n12>>
                      /\ w = <<2, 2, 2, 2, 2, 2, 2, 2, 4, 4, 4, 4>>
  BY Zenon
<1>5. Record(12, names, w) /\ Numbers(12, w) /\ Widths(s) = w
  BY <1>3, <1>4 DEF Record, Numbers, Widths
<1>6. ResourceMapHeader = Struct(names, w)
  BY <1>2, <1>4 DEF ResourceMapHeader
<1>7. Sums(w)[12] = 32 /\ Len(w) = 12
  BY <1>4, <1>5, SumsOfFew
<1>8. ResourceMapHeader.size = 32 /\ SizeOf(s) = 32
  <2>1. ResourceMapHeader.size = 32
    <3>1. PICK n : n = 12
      OBVIOUS
    <3>2. n \in Nat /\ Record(n, names, w)
      BY <1>5, <3>1
    <3>3. Struct(names, w).size = Sums(w)[n]
      BY ONLY <3>2, StructDef
    <3>4. QED
      BY <3>1, <3>3, <1>6, <1>7
  <2>2. SizeOf(s) = 32
    BY <1>5, <1>7 DEF SizeOf, TotalOf
  <2>3. QED
    BY <2>1, <2>2
<1>9. ASSUME NEW o \in Nat, Laid(file.at, o, s)
      PROVE  /\ Get(ResourceMapHeader, o)[n1] = s[1][1]
             /\ Get(ResourceMapHeader, o)[n3] = s[3][1]
             /\ Get(ResourceMapHeader, o)[n4] = s[4][1]
             /\ Get(ResourceMapHeader, o)[n5] = s[5][1]
             /\ Get(ResourceMapHeader, o)[n6] = s[6][1]
             /\ Get(ResourceMapHeader, o)[n7] = s[7][1]
             /\ Get(ResourceMapHeader, o)[n8] = s[8][1]
             /\ Get(ResourceMapHeader, o)[n9] = s[9][1]
             /\ Get(ResourceMapHeader, o)[n10] = s[10][1]
             /\ Get(ResourceMapHeader, o)[n11] = s[11][1]
             /\ Get(ResourceMapHeader, o)[n12] = s[12][1]
  <2>1. \A i \in 1 .. 12 : names[i] # Skip => Get(ResourceMapHeader, o)[names[i]] = s[i][1]
    BY <1>1, <1>5, <1>6, <1>9, GetRecord
  <2>2. QED
    BY <2>1, <1>3, <1>4
<1>10. QED
  BY <1>1, <1>2, <1>8, <1>9

\* What is read of a type entry where fields of its widths lie, and its size.
LEMMA ResourceValueTypeEntryRead ==
  ASSUME NEW s \in Written, Widths(s) = <<4, 4>>
  PROVE  /\ s \in Fields /\ SizeOf(s) = 8 /\ ResourceValueTypeEntry.size = 8
         /\ \A o \in Nat : Laid(file.at, o, s) =>
              /\ Get(ResourceValueTypeEntry, o).resource_value_type = s[2][1]
<1>1. s \in Written /\ s \in Fields /\ Len(s) = 2
  BY DEF Written, Fields, Widths
<1>2. PICK n1 :
        /\ n1 = "resource_value_type"
  BY Zenon
<1>3. /\ n1 # Skip
  BY <1>2 DEF Skip
<1>4. PICK names, w : /\ names = <<Skip, n1>>
                      /\ w = <<4, 4>>
  BY Zenon
<1>5. Record(2, names, w) /\ Numbers(2, w) /\ Widths(s) = w
  BY <1>3, <1>4 DEF Record, Numbers, Widths
<1>6. ResourceValueTypeEntry = Struct(names, w)
  BY <1>2, <1>4 DEF ResourceValueTypeEntry
<1>7. Sums(w)[2] = 8 /\ Len(w) = 2
  BY <1>4, <1>5, SumsOfFew
<1>8. ResourceValueTypeEntry.size = 8 /\ SizeOf(s) = 8
  <2>1. ResourceValueTypeEntry.size = 8
    <3>1. PICK n : n = 2
      OBVIOUS
    <3>2. n \in Nat /\ Record(n, names, w)
      BY <1>5, <3>1
    <3>3. Struct(names, w).size = Sums(w)[n]
      BY ONLY <3>2, StructDef
    <3>4. QED
      BY <3>1, <3>3, <1>6, <1>7
  <2>2. SizeOf(s) = 8
    BY <1>5, <1>7 DEF SizeOf, TotalOf
  <2>3. QED
    BY <2>1, <2>2
<1>9. ASSUME NEW o \in Nat, Laid(file.at, o, s)
      PROVE  /\ Get(ResourceValueTypeEntry, o)[n1] = s[2][1]
  <2>1. \A i \in 1 .. 2 : names[i] # Skip => Get(ResourceValueTypeEntry, o)[names[i]] = s[i][1]
    BY <1>1, <1>5, <1>6, <1>9, GetRecord
  <2>2. QED
    BY <2>1, <1>3, <1>4
<1>10. QED
  BY <1>1, <1>2, <1>8, <1>9

\* What is read of an entry from items to groups where fields of its widths lie, and its size.
LEMMA ItemToItemInfoGroupEntryRead ==
  ASSUME NEW s \in Written, Widths(s) = <<2, 2>>
  PROVE  /\ s \in Fields /\ SizeOf(s) = 4 /\ ItemToItemInfoGroupEntry.size = 4
         /\ \A o \in Nat : Laid(file.at, o, s) =>
              /\ Get(ItemToItemInfoGroupEntry, o).first_item_index_property = s[1][1]
              /\ Get(ItemToItemInfoGroupEntry, o).iteminfo_group_index = s[2][1]
<1>1. s \in Written /\ s \in Fields /\ Len(s) = 2
  BY DEF Written, Fields, Widths
<1>2. PICK n1, n2 :
        /\ n1 = "first_item_index_property" /\ n2 = "iteminfo_group_index"
  BY Zenon
<1>3. /\ n1 # n2 /\ n1 # Skip /\ n2 # Skip
  BY <1>2 DEF Skip
<1>4. PICK names, w : /\ names = <<n1, n2>>
                      /\ w = <<2, 2>>
  BY Zenon
<1>5. Record(2, names, w) /\ Numbers(2, w) /\ Widths(s) = w
  BY <1>3, <1>4 DEF Record, Numbers, Widths
<1>6. ItemToItemInfoGroupEntry = Struct(names, w)
  BY <1>2, <1>4 DEF ItemToItemInfoGroupEntry
<1>7. Sums(w)[2] = 4 /\ Len(w) = 2
  BY <1>4, <1>5, SumsOfFew
<1>8. ItemToItemInfoGroupEntry.size = 4 /\ SizeOf(s) = 4
  <2>1. ItemToItemInfoGroupEntry.size = 4
    <3>1. PICK n : n = 2
      OBVIOUS
    <3>2. n \in Nat /\ Record(n, names, w)
      BY <1>5, <3>1
    <3>3. Struct(names, w).size = Sums(w)[n]
      BY ONLY <3>2, StructDef
    <3>4. QED
      BY <3>1, <3>3, <1>6, <1>7
  <2>2. SizeOf(s) = 4
    BY <1>5, <1>7 DEF SizeOf, TotalOf
  <2>3. QED
    BY <2>1, <2>2
<1>9. ASSUME NEW o \in Nat, Laid(file.at, o, s)
      PROVE  /\ Get(ItemToItemInfoGroupEntry, o)[n1] = s[1][1]
             /\ Get(ItemToItemInfoGroupEntry, o)[n2] = s[2][1]
  <2>1. \A i \in 1 .. 2 : names[i] # Skip => Get(ItemToItemInfoGroupEntry, o)[names[i]] = s[i][1]
    BY <1>1, <1>5, <1>6, <1>9, GetRecord
  <2>2. QED
    BY <2>1, <1>3, <1>4
<1>10. QED
  BY <1>1, <1>2, <1>8, <1>9

\* What is read of a group entry where fields of its widths lie, and its size.
LEMMA ItemInfoGroupEntryRead ==
  ASSUME NEW s \in Written, Widths(s) = <<2, 2>>
  PROVE  /\ s \in Fields /\ SizeOf(s) = 4 /\ ItemInfoGroupEntry.size = 4
         /\ \A o \in Nat : Laid(file.at, o, s) =>
              /\ Get(ItemInfoGroupEntry, o).number_of_iteminfos = s[1][1]
              /\ Get(ItemInfoGroupEntry, o).first_iteminfo_index = s[2][1]
<1>1. s \in Written /\ s \in Fields /\ Len(s) = 2
  BY DEF Written, Fields, Widths
<1>2. PICK n1, n2 :
        /\ n1 = "number_of_iteminfos" /\ n2 = "first_iteminfo_index"
  BY Zenon
<1>3. /\ n1 # n2 /\ n1 # Skip /\ n2 # Skip
  BY <1>2 DEF Skip
<1>4. PICK names, w : /\ names = <<n1, n2>>
                      /\ w = <<2, 2>>
  BY Zenon
<1>5. Record(2, names, w) /\ Numbers(2, w) /\ Widths(s) = w
  BY <1>3, <1>4 DEF Record, Numbers, Widths
<1>6. ItemInfoGroupEntry = Struct(names, w)
  BY <1>2, <1>4 DEF ItemInfoGroupEntry
<1>7. Sums(w)[2] = 4 /\ Len(w) = 2
  BY <1>4, <1>5, SumsOfFew
<1>8. ItemInfoGroupEntry.size = 4 /\ SizeOf(s) = 4
  <2>1. ItemInfoGroupEntry.size = 4
    <3>1. PICK n : n = 2
      OBVIOUS
    <3>2. n \in Nat /\ Record(n, names, w)
      BY <1>5, <3>1
    <3>3. Struct(names, w).size = Sums(w)[n]
      BY ONLY <3>2, StructDef
    <3>4. QED
      BY <3>1, <3>3, <1>6, <1>7
  <2>2. SizeOf(s) = 4
    BY <1>5, <1>7 DEF SizeOf, TotalOf
  <2>3. QED
    BY <2>1, <2>2
<1>9. ASSUME NEW o \in Nat, Laid(file.at, o, s)
      PROVE  /\ Get(ItemInfoGroupEntry, o)[n1] = s[1][1]
             /\ Get(ItemInfoGroupEntry, o)[n2] = s[2][1]
  <2>1. \A i \in 1 .. 2 : names[i] # Skip => Get(ItemInfoGroupEntry, o)[names[i]] = s[i][1]
    BY <1>1, <1>5, <1>6, <1>9, GetRecord
  <2>2. QED
    BY <2>1, <1>3, <1>4
<1>10. QED
  BY <1>1, <1>2, <1>8, <1>9

\* What is read of an iteminfo entry where fields of its widths lie, and its size.
LEMMA ItemInfoEntryRead ==
  ASSUME NEW s \in Written, Widths(s) = <<2, 2>>
  PROVE  /\ s \in Fields /\ SizeOf(s) = 4 /\ ItemInfoEntry.size = 4
         /\ \A o \in Nat : Laid(file.at, o, s) =>
              /\ Get(ItemInfoEntry, o).decision_index = s[1][1]
              /\ Get(ItemInfoEntry, o).first_candidate_index = s[2][1]
<1>1. s \in Written /\ s \in Fields /\ Len(s) = 2
  BY DEF Written, Fields, Widths
<1>2. PICK n1, n2 :
        /\ n1 = "decision_index" /\ n2 = "first_candidate_index"
  BY Zenon
<1>3. /\ n1 # n2 /\ n1 # Skip /\ n2 # Skip
  BY <1>2 DEF Skip
<1>4. PICK names, w : /\ names = <<n1, n2>>
                      /\ w = <<2, 2>>
  BY Zenon
<1>5. Record(2, names, w) /\ Numbers(2, w) /\ Widths(s) = w
  BY <1>3, <1>4 DEF Record, Numbers, Widths
<1>6. ItemInfoEntry = Struct(names, w)
  BY <1>2, <1>4 DEF ItemInfoEntry
<1>7. Sums(w)[2] = 4 /\ Len(w) = 2
  BY <1>4, <1>5, SumsOfFew
<1>8. ItemInfoEntry.size = 4 /\ SizeOf(s) = 4
  <2>1. ItemInfoEntry.size = 4
    <3>1. PICK n : n = 2
      OBVIOUS
    <3>2. n \in Nat /\ Record(n, names, w)
      BY <1>5, <3>1
    <3>3. Struct(names, w).size = Sums(w)[n]
      BY ONLY <3>2, StructDef
    <3>4. QED
      BY <3>1, <3>3, <1>6, <1>7
  <2>2. SizeOf(s) = 4
    BY <1>5, <1>7 DEF SizeOf, TotalOf
  <2>3. QED
    BY <2>1, <2>2
<1>9. ASSUME NEW o \in Nat, Laid(file.at, o, s)
      PROVE  /\ Get(ItemInfoEntry, o)[n1] = s[1][1]
             /\ Get(ItemInfoEntry, o)[n2] = s[2][1]
  <2>1. \A i \in 1 .. 2 : names[i] # Skip => Get(ItemInfoEntry, o)[names[i]] = s[i][1]
    BY <1>1, <1>5, <1>6, <1>9, GetRecord
  <2>2. QED
    BY <2>1, <1>3, <1>4
<1>10. QED
  BY <1>1, <1>2, <1>8, <1>9

\* What is read of the counts of a map's extension where fields of its widths lie, and its size.
LEMMA TableExtensionHeaderRead ==
  ASSUME NEW s \in Written, Widths(s) = <<4, 4, 4>>
  PROVE  /\ s \in Fields /\ SizeOf(s) = 12 /\ TableExtensionHeader.size = 12
         /\ \A o \in Nat : Laid(file.at, o, s) =>
              /\ Get(TableExtensionHeader, o).additional_item_to_iteminfo_group_entries = s[1][1]
              /\ Get(TableExtensionHeader, o).additional_iteminfo_group_entries = s[2][1]
              /\ Get(TableExtensionHeader, o).additional_iteminfo_entries = s[3][1]
<1>1. s \in Written /\ s \in Fields /\ Len(s) = 3
  BY DEF Written, Fields, Widths
<1>2. PICK n1, n2, n3 :
        /\ n1 = "additional_item_to_iteminfo_group_entries"
        /\ n2 = "additional_iteminfo_group_entries"
        /\ n3 = "additional_iteminfo_entries"
  BY Zenon
<1>3. /\ n1 # n2 /\ n1 # n3 /\ n1 # Skip /\ n2 # n3 /\ n2 # Skip /\ n3 # Skip
  BY <1>2 DEF Skip
<1>4. PICK names, w : /\ names = <<n1, n2, n3>>
                      /\ w = <<4, 4, 4>>
  BY Zenon
<1>5. Record(3, names, w) /\ Numbers(3, w) /\ Widths(s) = w
  BY <1>3, <1>4 DEF Record, Numbers, Widths
<1>6. TableExtensionHeader = Struct(names, w)
  BY <1>2, <1>4 DEF TableExtensionHeader
<1>7. Sums(w)[3] = 12 /\ Len(w) = 3
  BY <1>4, <1>5, SumsOfFew
<1>8. TableExtensionHeader.size = 12 /\ SizeOf(s) = 12
  <2>1. TableExtensionHeader.size = 12
    <3>1. PICK n : n = 3
      OBVIOUS
    <3>2. n \in Nat /\ Record(n, names, w)
      BY <1>5, <3>1
    <3>3. Struct(names, w).size = Sums(w)[n]
      BY ONLY <3>2, StructDef
    <3>4. QED
      BY <3>1, <3>3, <1>6, <1>7
  <2>2. SizeOf(s) = 12
    BY <1>5, <1>7 DEF SizeOf, TotalOf
  <2>3. QED
    BY <2>1, <2>2
<1>9. ASSUME NEW o \in Nat, Laid(file.at, o, s)
      PROVE  /\ Get(TableExtensionHeader, o)[n1] = s[1][1]
             /\ Get(TableExtensionHeader, o)[n2] = s[2][1]
             /\ Get(TableExtensionHeader, o)[n3] = s[3][1]
  <2>1. \A i \in 1 .. 3 : names[i] # Skip => Get(TableExtensionHeader, o)[names[i]] = s[i][1]
    BY <1>1, <1>5, <1>6, <1>9, GetRecord
  <2>2. QED
    BY <2>1, <1>3, <1>4
<1>10. QED
  BY <1>1, <1>2, <1>8, <1>9

\* What is read of an extension's entry from items to groups where fields of its widths lie, and its size.
LEMMA ItemToItemInfoGroupEntryExtRead ==
  ASSUME NEW s \in Written, Widths(s) = <<4, 4>>
  PROVE  /\ s \in Fields /\ SizeOf(s) = 8 /\ ItemToItemInfoGroupEntryExt.size = 8
         /\ \A o \in Nat : Laid(file.at, o, s) =>
              /\ Get(ItemToItemInfoGroupEntryExt, o).first_item_index_property = s[1][1]
              /\ Get(ItemToItemInfoGroupEntryExt, o).iteminfo_group_index = s[2][1]
<1>1. s \in Written /\ s \in Fields /\ Len(s) = 2
  BY DEF Written, Fields, Widths
<1>2. PICK n1, n2 :
        /\ n1 = "first_item_index_property" /\ n2 = "iteminfo_group_index"
  BY Zenon
<1>3. /\ n1 # n2 /\ n1 # Skip /\ n2 # Skip
  BY <1>2 DEF Skip
<1>4. PICK names, w : /\ names = <<n1, n2>>
                      /\ w = <<4, 4>>
  BY Zenon
<1>5. Record(2, names, w) /\ Numbers(2, w) /\ Widths(s) = w
  BY <1>3, <1>4 DEF Record, Numbers, Widths
<1>6. ItemToItemInfoGroupEntryExt = Struct(names, w)
  BY <1>2, <1>4 DEF ItemToItemInfoGroupEntryExt
<1>7. Sums(w)[2] = 8 /\ Len(w) = 2
  BY <1>4, <1>5, SumsOfFew
<1>8. ItemToItemInfoGroupEntryExt.size = 8 /\ SizeOf(s) = 8
  <2>1. ItemToItemInfoGroupEntryExt.size = 8
    <3>1. PICK n : n = 2
      OBVIOUS
    <3>2. n \in Nat /\ Record(n, names, w)
      BY <1>5, <3>1
    <3>3. Struct(names, w).size = Sums(w)[n]
      BY ONLY <3>2, StructDef
    <3>4. QED
      BY <3>1, <3>3, <1>6, <1>7
  <2>2. SizeOf(s) = 8
    BY <1>5, <1>7 DEF SizeOf, TotalOf
  <2>3. QED
    BY <2>1, <2>2
<1>9. ASSUME NEW o \in Nat, Laid(file.at, o, s)
      PROVE  /\ Get(ItemToItemInfoGroupEntryExt, o)[n1] = s[1][1]
             /\ Get(ItemToItemInfoGroupEntryExt, o)[n2] = s[2][1]
  <2>1. \A i \in 1 .. 2 : names[i] # Skip => Get(ItemToItemInfoGroupEntryExt, o)[names[i]] = s[i][1]
    BY <1>1, <1>5, <1>6, <1>9, GetRecord
  <2>2. QED
    BY <2>1, <1>3, <1>4
<1>10. QED
  BY <1>1, <1>2, <1>8, <1>9

\* What is read of an extension's group entry where fields of its widths lie, and its size.
LEMMA ItemInfoGroupEntryExtRead ==
  ASSUME NEW s \in Written, Widths(s) = <<4, 4>>
  PROVE  /\ s \in Fields /\ SizeOf(s) = 8 /\ ItemInfoGroupEntryExt.size = 8
         /\ \A o \in Nat : Laid(file.at, o, s) =>
              /\ Get(ItemInfoGroupEntryExt, o).number_of_iteminfos = s[1][1]
              /\ Get(ItemInfoGroupEntryExt, o).first_iteminfo_index = s[2][1]
<1>1. s \in Written /\ s \in Fields /\ Len(s) = 2
  BY DEF Written, Fields, Widths
<1>2. PICK n1, n2 :
        /\ n1 = "number_of_iteminfos" /\ n2 = "first_iteminfo_index"
  BY Zenon
<1>3. /\ n1 # n2 /\ n1 # Skip /\ n2 # Skip
  BY <1>2 DEF Skip
<1>4. PICK names, w : /\ names = <<n1, n2>>
                      /\ w = <<4, 4>>
  BY Zenon
<1>5. Record(2, names, w) /\ Numbers(2, w) /\ Widths(s) = w
  BY <1>3, <1>4 DEF Record, Numbers, Widths
<1>6. ItemInfoGroupEntryExt = Struct(names, w)
  BY <1>2, <1>4 DEF ItemInfoGroupEntryExt
<1>7. Sums(w)[2] = 8 /\ Len(w) = 2
  BY <1>4, <1>5, SumsOfFew
<1>8. ItemInfoGroupEntryExt.size = 8 /\ SizeOf(s) = 8
  <2>1. ItemInfoGroupEntryExt.size = 8
    <3>1. PICK n : n = 2
      OBVIOUS
    <3>2. n \in Nat /\ Record(n, names, w)
      BY <1>5, <3>1
    <3>3. Struct(names, w).size = Sums(w)[n]
      BY ONLY <3>2, StructDef
    <3>4. QED
      BY <3>1, <3>3, <1>6, <1>7
  <2>2. SizeOf(s) = 8
    BY <1>5, <1>7 DEF SizeOf, TotalOf
  <2>3. QED
    BY <2>1, <2>2
<1>9. ASSUME NEW o \in Nat, Laid(file.at, o, s)
      PROVE  /\ Get(ItemInfoGroupEntryExt, o)[n1] = s[1][1]
             /\ Get(ItemInfoGroupEntryExt, o)[n2] = s[2][1]
  <2>1. \A i \in 1 .. 2 : names[i] # Skip => Get(ItemInfoGroupEntryExt, o)[names[i]] = s[i][1]
    BY <1>1, <1>5, <1>6, <1>9, GetRecord
  <2>2. QED
    BY <2>1, <1>3, <1>4
<1>10. QED
  BY <1>1, <1>2, <1>8, <1>9

\* What is read of an extension's iteminfo entry where fields of its widths lie, and its size.
LEMMA ItemInfoEntryExtRead ==
  ASSUME NEW s \in Written, Widths(s) = <<4, 4>>
  PROVE  /\ s \in Fields /\ SizeOf(s) = 8 /\ ItemInfoEntryExt.size = 8
         /\ \A o \in Nat : Laid(file.at, o, s) =>
              /\ Get(ItemInfoEntryExt, o).decision_index = s[1][1]
              /\ Get(ItemInfoEntryExt, o).first_candidate_index = s[2][1]
<1>1. s \in Written /\ s \in Fields /\ Len(s) = 2
  BY DEF Written, Fields, Widths
<1>2. PICK n1, n2 :
        /\ n1 = "decision_index" /\ n2 = "first_candidate_index"
  BY Zenon
<1>3. /\ n1 # n2 /\ n1 # Skip /\ n2 # Skip
  BY <1>2 DEF Skip
<1>4. PICK names, w : /\ names = <<n1, n2>>
                      /\ w = <<4, 4>>
  BY Zenon
<1>5. Record(2, names, w) /\ Numbers(2, w) /\ Widths(s) = w
  BY <1>3, <1>4 DEF Record, Numbers, Widths
<1>6. ItemInfoEntryExt = Struct(names, w)
  BY <1>2, <1>4 DEF ItemInfoEntryExt
<1>7. Sums(w)[2] = 8 /\ Len(w) = 2
  BY <1>4, <1>5, SumsOfFew
<1>8. ItemInfoEntryExt.size = 8 /\ SizeOf(s) = 8
  <2>1. ItemInfoEntryExt.size = 8
    <3>1. PICK n : n = 2
      OBVIOUS
    <3>2. n \in Nat /\ Record(n, names, w)
      BY <1>5, <3>1
    <3>3. Struct(names, w).size = Sums(w)[n]
      BY ONLY <3>2, StructDef
    <3>4. QED
      BY <3>1, <3>3, <1>6, <1>7
  <2>2. SizeOf(s) = 8
    BY <1>5, <1>7 DEF SizeOf, TotalOf
  <2>3. QED
    BY <2>1, <2>2
<1>9. ASSUME NEW o \in Nat, Laid(file.at, o, s)
      PROVE  /\ Get(ItemInfoEntryExt, o)[n1] = s[1][1]
             /\ Get(ItemInfoEntryExt, o)[n2] = s[2][1]
  <2>1. \A i \in 1 .. 2 : names[i] # Skip => Get(ItemInfoEntryExt, o)[names[i]] = s[i][1]
    BY <1>1, <1>5, <1>6, <1>9, GetRecord
  <2>2. QED
    BY <2>1, <1>3, <1>4
<1>10. QED
  BY <1>1, <1>2, <1>8, <1>9

\* What is read of an embedded candidate where fields of its widths lie, and its size.
LEMMA EmbeddedCandidateRead ==
  ASSUME NEW s \in Written, Widths(s) = <<1, 1, 2, 4>>
  PROVE  /\ s \in Fields /\ SizeOf(s) = 8 /\ EmbeddedCandidate.size = 8
         /\ \A o \in Nat : Laid(file.at, o, s) =>
              /\ Get(EmbeddedCandidate, o).candidate_type = s[1][1]
              /\ Get(EmbeddedCandidate, o).resource_value_type_index = s[2][1]
              /\ Get(EmbeddedCandidate, o).embedded_data_length = s[3][1]
              /\ Get(EmbeddedCandidate, o).embedded_data_offset = s[4][1]
<1>1. s \in Written /\ s \in Fields /\ Len(s) = 4
  BY DEF Written, Fields, Widths
<1>2. PICK n1, n2, n3, n4 :
        /\ n1 = "candidate_type" /\ n2 = "resource_value_type_index"
        /\ n3 = "embedded_data_length" /\ n4 = "embedded_data_offset"
  BY Zenon
<1>3. /\ n1 # n2 /\ n1 # n3 /\ n1 # n4 /\ n1 # Skip /\ n2 # n3 /\ n2 # n4
      /\ n2 # Skip /\ n3 # n4 /\ n3 # Skip /\ n4 # Skip
  BY <1>2 DEF Skip
<1>4. PICK names, w : /\ names = <<n1, n2, n3, n4>>
                      /\ w = <<1, 1, 2, 4>>
  BY Zenon
<1>5. Record(4, names, w) /\ Numbers(4, w) /\ Widths(s) = w
  BY <1>3, <1>4 DEF Record, Numbers, Widths
<1>6. EmbeddedCandidate = Struct(names, w)
  BY <1>2, <1>4 DEF EmbeddedCandidate
<1>7. Sums(w)[4] = 8 /\ Len(w) = 4
  BY <1>4, <1>5, SumsOfFew
<1>8. EmbeddedCandidate.size = 8 /\ SizeOf(s) = 8
  <2>1. EmbeddedCandidate.size = 8
    <3>1. PICK n : n = 4
      OBVIOUS
    <3>2. n \in Nat /\ Record(n, names, w)
      BY <1>5, <3>1
    <3>3. Struct(names, w).size = Sums(w)[n]
      BY ONLY <3>2, StructDef
    <3>4. QED
      BY <3>1, <3>3, <1>6, <1>7
  <2>2. SizeOf(s) = 8
    BY <1>5, <1>7 DEF SizeOf, TotalOf
  <2>3. QED
    BY <2>1, <2>2
<1>9. ASSUME NEW o \in Nat, Laid(file.at, o, s)
      PROVE  /\ Get(EmbeddedCandidate, o)[n1] = s[1][1]
             /\ Get(EmbeddedCandidate, o)[n2] = s[2][1]
             /\ Get(EmbeddedCandidate, o)[n3] = s[3][1]
             /\ Get(EmbeddedCandidate, o)[n4] = s[4][1]
  <2>1. \A i \in 1 .. 4 : names[i] # Skip => Get(EmbeddedCandidate, o)[names[i]] = s[i][1]
    BY <1>1, <1>5, <1>6, <1>9, GetRecord
  <2>2. QED
    BY <2>1, <1>3, <1>4
<1>10. QED
  BY <1>1, <1>2, <1>8, <1>9

\* What is read of a referenced candidate where fields of its widths lie, and its size.
LEMMA ReferencedCandidateRead ==
  ASSUME NEW s \in Written, Widths(s) = <<1, 1, 2, 2, 2>>
  PROVE  /\ s \in Fields /\ SizeOf(s) = 8 /\ ReferencedCandidate.size = 8
         /\ \A o \in Nat : Laid(file.at, o, s) =>
              /\ Get(ReferencedCandidate, o).candidate_type = s[1][1]
              /\ Get(ReferencedCandidate, o).resource_value_type_index = s[2][1]
              /\ Get(ReferencedCandidate, o).source_file = s[3][1]
              /\ Get(ReferencedCandidate, o).data_item_index = s[4][1]
              /\ Get(ReferencedCandidate, o).data_item_section_index = s[5][1]
<1>1. s \in Written /\ s \in Fields /\ Len(s) = 5
  BY DEF Written, Fields, Widths
<1>2. PICK n1, n2, n3, n4, n5 :
        /\ n1 = "candidate_type" /\ n2 = "resource_value_type_index"
        /\ n3 = "source_file" /\ n4 = "data_item_index"
        /\ n5 = "data_item_section_index"
  BY Zenon
<1>3. /\ n1 # n2 /\ n1 # n3 /\ n1 # n4 /\ n1 # n5 /\ n1 # Skip /\ n2 # n3
      /\ n2 # n4 /\ n2 # n5 /\ n2 # Skip /\ n3 # n4 /\ n3 # n5 /\ n3 # Skip
      /\ n4 # n5 /\ n4 # Skip /\ n5 # Skip
  BY <1>2 DEF Skip
<1>4. PICK names, w : /\ names = <<n1, n2, n3, n4, n5>>
                      /\ w = <<1, 1, 2, 2, 2>>
  BY Zenon
<1>5. Record(5, names, w) /\ Numbers(5, w) /\ Widths(s) = w
  BY <1>3, <1>4 DEF Record, Numbers, Widths
<1>6. ReferencedCandidate = Struct(names, w)
  BY <1>2, <1>4 DEF ReferencedCandidate
<1>7. Sums(w)[5] = 8 /\ Len(w) = 5
  BY <1>4, <1>5, SumsOfFew
<1>8. ReferencedCandidate.size = 8 /\ SizeOf(s) = 8
  <2>1. ReferencedCandidate.size = 8
    <3>1. PICK n : n = 5
      OBVIOUS
    <3>2. n \in Nat /\ Record(n, names, w)
      BY <1>5, <3>1
    <3>3. Struct(names, w).size = Sums(w)[n]
      BY ONLY <3>2, StructDef
    <3>4. QED
      BY <3>1, <3>3, <1>6, <1>7
  <2>2. SizeOf(s) = 8
    BY <1>5, <1>7 DEF SizeOf, TotalOf
  <2>3. QED
    BY <2>1, <2>2
<1>9. ASSUME NEW o \in Nat, Laid(file.at, o, s)
      PROVE  /\ Get(ReferencedCandidate, o)[n1] = s[1][1]
             /\ Get(ReferencedCandidate, o)[n2] = s[2][1]
             /\ Get(ReferencedCandidate, o)[n3] = s[3][1]
             /\ Get(ReferencedCandidate, o)[n4] = s[4][1]
             /\ Get(ReferencedCandidate, o)[n5] = s[5][1]
  <2>1. \A i \in 1 .. 5 : names[i] # Skip => Get(ReferencedCandidate, o)[names[i]] = s[i][1]
    BY <1>1, <1>5, <1>6, <1>9, GetRecord
  <2>2. QED
    BY <2>1, <1>3, <1>4
<1>10. QED
  BY <1>1, <1>2, <1>8, <1>9

\* What is read of the counts of a data item section where fields of its widths lie, and its size.
LEMMA DataItemHeaderRead ==
  ASSUME NEW s \in Written, Widths(s) = <<4, 2, 2, 4>>
  PROVE  /\ s \in Fields /\ SizeOf(s) = 12 /\ DataItemHeader.size = 12
         /\ \A o \in Nat : Laid(file.at, o, s) =>
              /\ Get(DataItemHeader, o).number_of_strings = s[2][1]
              /\ Get(DataItemHeader, o).number_of_blobs = s[3][1]
              /\ Get(DataItemHeader, o).total_data_length = s[4][1]
<1>1. s \in Written /\ s \in Fields /\ Len(s) = 4
  BY DEF Written, Fields, Widths
<1>2. PICK n1, n2, n3 :
        /\ n1 = "number_of_strings" /\ n2 = "number_of_blobs"
        /\ n3 = "total_data_length"
  BY Zenon
<1>3. /\ n1 # n2 /\ n1 # n3 /\ n1 # Skip /\ n2 # n3 /\ n2 # Skip /\ n3 # Skip
  BY <1>2 DEF Skip
<1>4. PICK names, w : /\ names = <<Skip, n1, n2, n3>>
                      /\ w = <<4, 2, 2, 4>>
  BY Zenon
<1>5. Record(4, names, w) /\ Numbers(4, w) /\ Widths(s) = w
  BY <1>3, <1>4 DEF Record, Numbers, Widths
<1>6. DataItemHeader = Struct(names, w)
  BY <1>2, <1>4 DEF DataItemHeader
<1>7. Sums(w)[4] = 12 /\ Len(w) = 4
  BY <1>4, <1>5, SumsOfFew
<1>8. DataItemHeader.size = 12 /\ SizeOf(s) = 12
  <2>1. DataItemHeader.size = 12
    <3>1. PICK n : n = 4
      OBVIOUS
    <3>2. n \in Nat /\ Record(n, names, w)
      BY <1>5, <3>1
    <3>3. Struct(names, w).size = Sums(w)[n]
      BY ONLY <3>2, StructDef
    <3>4. QED
      BY <3>1, <3>3, <1>6, <1>7
  <2>2. SizeOf(s) = 12
    BY <1>5, <1>7 DEF SizeOf, TotalOf
  <2>3. QED
    BY <2>1, <2>2
<1>9. ASSUME NEW o \in Nat, Laid(file.at, o, s)
      PROVE  /\ Get(DataItemHeader, o)[n1] = s[2][1]
             /\ Get(DataItemHeader, o)[n2] = s[3][1]
             /\ Get(DataItemHeader, o)[n3] = s[4][1]
  <2>1. \A i \in 1 .. 4 : names[i] # Skip => Get(DataItemHeader, o)[names[i]] = s[i][1]
    BY <1>1, <1>5, <1>6, <1>9, GetRecord
  <2>2. QED
    BY <2>1, <1>3, <1>4
<1>10. QED
  BY <1>1, <1>2, <1>8, <1>9

\* What is read of a string entry where fields of its widths lie, and its size.
LEMMA StringEntryRead ==
  ASSUME NEW s \in Written, Widths(s) = <<2, 2>>
  PROVE  /\ s \in Fields /\ SizeOf(s) = 4 /\ StringEntry.size = 4
         /\ \A o \in Nat : Laid(file.at, o, s) =>
              /\ Get(StringEntry, o).offset = s[1][1]
              /\ Get(StringEntry, o).length = s[2][1]
<1>1. s \in Written /\ s \in Fields /\ Len(s) = 2
  BY DEF Written, Fields, Widths
<1>2. PICK n1, n2 :
        /\ n1 = "offset" /\ n2 = "length"
  BY Zenon
<1>3. /\ n1 # n2 /\ n1 # Skip /\ n2 # Skip
  BY <1>2 DEF Skip
<1>4. PICK names, w : /\ names = <<n1, n2>>
                      /\ w = <<2, 2>>
  BY Zenon
<1>5. Record(2, names, w) /\ Numbers(2, w) /\ Widths(s) = w
  BY <1>3, <1>4 DEF Record, Numbers, Widths
<1>6. StringEntry = Struct(names, w)
  BY <1>2, <1>4 DEF StringEntry
<1>7. Sums(w)[2] = 4 /\ Len(w) = 2
  BY <1>4, <1>5, SumsOfFew
<1>8. StringEntry.size = 4 /\ SizeOf(s) = 4
  <2>1. StringEntry.size = 4
    <3>1. PICK n : n = 2
      OBVIOUS
    <3>2. n \in Nat /\ Record(n, names, w)
      BY <1>5, <3>1
    <3>3. Struct(names, w).size = Sums(w)[n]
      BY ONLY <3>2, StructDef
    <3>4. QED
      BY <3>1, <3>3, <1>6, <1>7
  <2>2. SizeOf(s) = 4
    BY <1>5, <1>7 DEF SizeOf, TotalOf
  <2>3. QED
    BY <2>1, <2>2
<1>9. ASSUME NEW o \in Nat, Laid(file.at, o, s)
      PROVE  /\ Get(StringEntry, o)[n1] = s[1][1]
             /\ Get(StringEntry, o)[n2] = s[2][1]
  <2>1. \A i \in 1 .. 2 : names[i] # Skip => Get(StringEntry, o)[names[i]] = s[i][1]
    BY <1>1, <1>5, <1>6, <1>9, GetRecord
  <2>2. QED
    BY <2>1, <1>3, <1>4
<1>10. QED
  BY <1>1, <1>2, <1>8, <1>9

\* What is read of a blob entry where fields of its widths lie, and its size.
LEMMA BlobEntryRead ==
  ASSUME NEW s \in Written, Widths(s) = <<4, 4>>
  PROVE  /\ s \in Fields /\ SizeOf(s) = 8 /\ BlobEntry.size = 8
         /\ \A o \in Nat : Laid(file.at, o, s) =>
              /\ Get(BlobEntry, o).offset = s[1][1]
              /\ Get(BlobEntry, o).length = s[2][1]
<1>1. s \in Written /\ s \in Fields /\ Len(s) = 2
  BY DEF Written, Fields, Widths
<1>2. PICK n1, n2 :
        /\ n1 = "offset" /\ n2 = "length"
  BY Zenon
<1>3. /\ n1 # n2 /\ n1 # Skip /\ n2 # Skip
  BY <1>2 DEF Skip
<1>4. PICK names, w : /\ names = <<n1, n2>>
                      /\ w = <<4, 4>>
  BY Zenon
<1>5. Record(2, names, w) /\ Numbers(2, w) /\ Widths(s) = w
  BY <1>3, <1>4 DEF Record, Numbers, Widths
<1>6. BlobEntry = Struct(names, w)
  BY <1>2, <1>4 DEF BlobEntry
<1>7. Sums(w)[2] = 8 /\ Len(w) = 2
  BY <1>4, <1>5, SumsOfFew
<1>8. BlobEntry.size = 8 /\ SizeOf(s) = 8
  <2>1. BlobEntry.size = 8
    <3>1. PICK n : n = 2
      OBVIOUS
    <3>2. n \in Nat /\ Record(n, names, w)
      BY <1>5, <3>1
    <3>3. Struct(names, w).size = Sums(w)[n]
      BY ONLY <3>2, StructDef
    <3>4. QED
      BY <3>1, <3>3, <1>6, <1>7
  <2>2. SizeOf(s) = 8
    BY <1>5, <1>7 DEF SizeOf, TotalOf
  <2>3. QED
    BY <2>1, <2>2
<1>9. ASSUME NEW o \in Nat, Laid(file.at, o, s)
      PROVE  /\ Get(BlobEntry, o)[n1] = s[1][1]
             /\ Get(BlobEntry, o)[n2] = s[2][1]
  <2>1. \A i \in 1 .. 2 : names[i] # Skip => Get(BlobEntry, o)[names[i]] = s[i][1]
    BY <1>1, <1>5, <1>6, <1>9, GetRecord
  <2>2. QED
    BY <2>1, <1>3, <1>4
<1>10. QED
  BY <1>1, <1>2, <1>8, <1>9

\* What is read of a name identifier where fields of its widths lie, and its size.
LEMMA HNameIdentifierRead ==
  ASSUME NEW s \in Written, Widths(s) = << 16 >>
  PROVE  /\ s \in Fields /\ SizeOf(s) = 16 /\ HNameIdentifier.size = 16
<1>1. s \in Written /\ s \in Fields /\ Len(s) = 1
  BY DEF Written, Fields, Widths
<1>2. PICK n1 :
        /\ n1 = "id"
  BY Zenon
<1>3. /\ n1 # Skip
  BY <1>2 DEF Skip
<1>4. PICK names, w : /\ names = <<n1>>
                      /\ w = << 16 >>
  BY Zenon
<1>5. Record(1, names, w) /\ Numbers(1, w) /\ Widths(s) = w
  BY <1>3, <1>4 DEF Record, Numbers, Widths
<1>6. HNameIdentifier = Struct(names, w)
  BY <1>2, <1>4 DEF HNameIdentifier
<1>7. Sums(w)[1] = 16 /\ Len(w) = 1
  BY <1>4, <1>5, SumsOfFew
<1>8. HNameIdentifier.size = 16 /\ SizeOf(s) = 16
  <2>1. HNameIdentifier.size = 16
    <3>1. PICK n : n = 1
      OBVIOUS
    <3>2. n \in Nat /\ Record(n, names, w)
      BY <1>5, <3>1
    <3>3. Struct(names, w).size = Sums(w)[n]
      BY ONLY <3>2, StructDef
    <3>4. QED
      BY <3>1, <3>3, <1>6, <1>7
  <2>2. SizeOf(s) = 16
    BY <1>5, <1>7 DEF SizeOf, TotalOf
  <2>3. QED
    BY <2>1, <2>2
<1>9. QED
  BY <1>1, <1>8

\* What is read of a section footer where fields of its widths lie, and its size.
LEMMA SectionFooterRead ==
  ASSUME NEW s \in Written, Widths(s) = <<4, 4>>
  PROVE  /\ s \in Fields /\ SizeOf(s) = 8 /\ SectionFooter.size = 8
         /\ \A o \in Nat : Laid(file.at, o, s) =>
              /\ Get(SectionFooter, o).magic = s[1][1]
              /\ Get(SectionFooter, o).section_length = s[2][1]
<1>1. s \in Written /\ s \in Fields /\ Len(s) = 2
  BY DEF Written, Fields, Widths
<1>2. PICK n1, n2 :
        /\ n1 = "magic" /\ n2 = "section_length"
  BY Zenon
<1>3. /\ n1 # n2 /\ n1 # Skip /\ n2 # Skip
  BY <1>2 DEF Skip
<1>4. PICK names, w : /\ names = <<n1, n2>>
                      /\ w = <<4, 4>>
  BY Zenon
<1>5. Record(2, names, w) /\ Numbers(2, w) /\ Widths(s) = w
  BY <1>3, <1>4 DEF Record, Numbers, Widths
<1>6. SectionFooter = Struct(names, w)
  BY <1>2, <1>4 DEF SectionFooter
<1>7. Sums(w)[2] = 8 /\ Len(w) = 2
  BY <1>4, <1>5, SumsOfFew
<1>8. SectionFooter.size = 8 /\ SizeOf(s) = 8
  <2>1. SectionFooter.size = 8
    <3>1. PICK n : n = 2
      OBVIOUS
    <3>2. n \in Nat /\ Record(n, names, w)
      BY <1>5, <3>1
    <3>3. Struct(names, w).size = Sums(w)[n]
      BY ONLY <3>2, StructDef
    <3>4. QED
      BY <3>1, <3>3, <1>6, <1>7
  <2>2. SizeOf(s) = 8
    BY <1>5, <1>7 DEF SizeOf, TotalOf
  <2>3. QED
    BY <2>1, <2>2
<1>9. ASSUME NEW o \in Nat, Laid(file.at, o, s)
      PROVE  /\ Get(SectionFooter, o)[n1] = s[1][1]
             /\ Get(SectionFooter, o)[n2] = s[2][1]
  <2>1. \A i \in 1 .. 2 : names[i] # Skip => Get(SectionFooter, o)[names[i]] = s[i][1]
    BY <1>1, <1>5, <1>6, <1>9, GetRecord
  <2>2. QED
    BY <2>1, <1>3, <1>4
<1>10. QED
  BY <1>1, <1>2, <1>8, <1>9

\* What is read of a schema's version where fields of its widths lie, and its size.
LEMMA HSchemaVersionInfoRead ==
  ASSUME NEW s \in Written, Widths(s) = <<2, 2, 4, 4, 4, 4>>
  PROVE  /\ s \in Fields /\ SizeOf(s) = 20 /\ HSchemaVersionInfo.size = 20
         /\ \A o \in Nat : Laid(file.at, o, s) =>
              /\ Get(HSchemaVersionInfo, o).number_of_scopes = s[5][1]
              /\ Get(HSchemaVersionInfo, o).number_of_items = s[6][1]
<1>1. s \in Written /\ s \in Fields /\ Len(s) = 6
  BY DEF Written, Fields, Widths
<1>2. PICK n1, n2, n3, n4, n5 :
        /\ n1 = "major_version" /\ n2 = "minor_version" /\ n3 = "checksum"
        /\ n4 = "number_of_scopes" /\ n5 = "number_of_items"
  BY Zenon
<1>3. /\ n1 # n2 /\ n1 # n3 /\ n1 # n4 /\ n1 # n5 /\ n1 # Skip /\ n2 # n3
      /\ n2 # n4 /\ n2 # n5 /\ n2 # Skip /\ n3 # n4 /\ n3 # n5 /\ n3 # Skip
      /\ n4 # n5 /\ n4 # Skip /\ n5 # Skip
  BY <1>2 DEF Skip
<1>4. PICK names, w : /\ names = <<n1, n2, Skip, n3, n4, n5>>
                      /\ w = <<2, 2, 4, 4, 4, 4>>
  BY Zenon
<1>5. Record(6, names, w) /\ Numbers(6, w) /\ Widths(s) = w
  BY <1>3, <1>4 DEF Record, Numbers, Widths
<1>6. HSchemaVersionInfo = Struct(names, w)
  BY <1>2, <1>4 DEF HSchemaVersionInfo
<1>7. Sums(w)[6] = 20 /\ Len(w) = 6
  BY <1>4, <1>5, SumsOfFew
<1>8. HSchemaVersionInfo.size = 20 /\ SizeOf(s) = 20
  <2>1. HSchemaVersionInfo.size = 20
    <3>1. PICK n : n = 6
      OBVIOUS
    <3>2. n \in Nat /\ Record(n, names, w)
      BY <1>5, <3>1
    <3>3. Struct(names, w).size = Sums(w)[n]
      BY ONLY <3>2, StructDef
    <3>4. QED
      BY <3>1, <3>3, <1>6, <1>7
  <2>2. SizeOf(s) = 20
    BY <1>5, <1>7 DEF SizeOf, TotalOf
  <2>3. QED
    BY <2>1, <2>2
<1>9. ASSUME NEW o \in Nat, Laid(file.at, o, s)
      PROVE  /\ Get(HSchemaVersionInfo, o)[n4] = s[5][1]
             /\ Get(HSchemaVersionInfo, o)[n5] = s[6][1]
  <2>1. \A i \in 1 .. 6 : names[i] # Skip => Get(HSchemaVersionInfo, o)[names[i]] = s[i][1]
    BY <1>1, <1>5, <1>6, <1>9, GetRecord
  <2>2. QED
    BY <2>1, <1>3, <1>4
<1>10. QED
  BY <1>1, <1>2, <1>8, <1>9

\* What is read of a reference to a schema where fields of its widths lie, and its size.
LEMMA HierarchicalSchemaReferenceHeaderRead ==
  ASSUME NEW s \in Written, Widths(s) = <<20, 2, 2, 4, 4>>
  PROVE  /\ s \in Fields /\ SizeOf(s) = 32 /\ HierarchicalSchemaReferenceHeader.size = 32
<1>1. s \in Written /\ s \in Fields /\ Len(s) = 5
  BY DEF Written, Fields, Widths
<1>2. PICK n1, n2 :
        /\ n1 = "version_info" /\ n2 = "unique_id_length"
  BY Zenon
<1>3. /\ n1 # n2 /\ n1 # Skip /\ n2 # Skip
  BY <1>2 DEF Skip
<1>4. PICK names, w : /\ names = <<n1, n2, Skip, Skip, Skip>>
                      /\ w = <<20, 2, 2, 4, 4>>
  BY Zenon
<1>5. Record(5, names, w) /\ Numbers(5, w) /\ Widths(s) = w
  BY <1>3, <1>4 DEF Record, Numbers, Widths
<1>6. HierarchicalSchemaReferenceHeader = Struct(names, w)
  BY <1>2, <1>4 DEF HierarchicalSchemaReferenceHeader
<1>7. Sums(w)[5] = 32 /\ Len(w) = 5
  BY <1>4, <1>5, SumsOfFew
<1>8. HierarchicalSchemaReferenceHeader.size = 32 /\ SizeOf(s) = 32
  <2>1. HierarchicalSchemaReferenceHeader.size = 32
    <3>1. PICK n : n = 5
      OBVIOUS
    <3>2. n \in Nat /\ Record(n, names, w)
      BY <1>5, <3>1
    <3>3. Struct(names, w).size = Sums(w)[n]
      BY ONLY <3>2, StructDef
    <3>4. QED
      BY <3>1, <3>3, <1>6, <1>7
  <2>2. SizeOf(s) = 32
    BY <1>5, <1>7 DEF SizeOf, TotalOf
  <2>3. QED
    BY <2>1, <2>2
<1>9. QED
  BY <1>1, <1>8

\* What is read of a reference to an environment where fields of its widths lie, and its size.
LEMMA EnvironmentReferenceRead ==
  ASSUME NEW s \in Written, Widths(s) = <<512, 2, 2, 4, 2, 2, 2, 2, 2, 2, 4, 4, 4, 4, 4, 4>>
  PROVE  /\ s \in Fields /\ SizeOf(s) = 556 /\ EnvironmentReference.size = 556
         /\ \A o \in Nat : Laid(file.at, o, s) =>
              /\ Get(EnvironmentReference, o).number_of_qualifiers = s[6][1]
<1>1. s \in Written /\ s \in Fields /\ Len(s) = 16
  BY DEF Written, Fields, Widths
<1>2. PICK n1, n2, n3, n4, n5, n6, n7, n8, n9, n10, n11, n12, n13, n14, n15, n16 :
        /\ n1 = "environment_name" /\ n2 = "major_version"
        /\ n3 = "minor_version" /\ n4 = "version_checksum"
        /\ n5 = "number_of_qualifier_types" /\ n6 = "number_of_qualifiers"
        /\ n7 = "number_of_item_types" /\ n8 = "number_of_resource_value_types"
        /\ n9 = "number_of_value_locators" /\ n10 = "number_of_condition_operators"
        /\ n11 = "qualifier_type_table_offset" /\ n12 = "qualifier_table_offset"
        /\ n13 = "item_type_table_offset"
        /\ n14 = "resource_value_type_table_offset"
        /\ n15 = "value_locator_table_offset"
        /\ n16 = "condition_operator_table_offset"
  BY Zenon
<1>3. /\ n1 # n2 /\ n1 # n3 /\ n1 # n4 /\ n1 # n5 /\ n1 # n6 /\ n1 # n7
      /\ n1 # n8 /\ n1 # n9 /\ n1 # n10 /\ n1 # n11 /\ n1 # n12 /\ n1 # n13
      /\ n1 # n14 /\ n1 # n15 /\ n1 # n16 /\ n1 # Skip /\ n2 # n3 /\ n2 # n4
      /\ n2 # n5 /\ n2 # n6 /\ n2 # n7 /\ n2 # n8 /\ n2 # n9 /\ n2 # n10 /\ n2 # n11
      /\ n2 # n12 /\ n2 # n13 /\ n2 # n14 /\ n2 # n15 /\ n2 # n16 /\ n2 # Skip
      /\ n3 # n4 /\ n3 # n5 /\ n3 # n6 /\ n3 # n7 /\ n3 # n8 /\ n3 # n9 /\ n3 # n10
      /\ n3 # n11 /\ n3 # n12 /\ n3 # n13 /\ n3 # n14 /\ n3 # n15 /\ n3 # n16
      /\ n3 # Skip /\ n4 # n5 /\ n4 # n6 /\ n4 # n7 /\ n4 # n8 /\ n4 # n9
      /\ n4 # n10 /\ n4 # n11 /\ n4 # n12 /\ n4 # n13 /\ n4 # n14 /\ n4 # n15
      /\ n4 # n16 /\ n4 # Skip /\ n5 # n6 /\ n5 # n7 /\ n5 # n8 /\ n5 # n9
      /\ n5 # n10 /\ n5 # n11 /\ n5 # n12 /\ n5 # n13 /\ n5 # n14 /\ n5 # n15
      /\ n5 # n16 /\ n5 # Skip /\ n6 # n7 /\ n6 # n8 /\ n6 # n9 /\ n6 # n10
      /\ n6 # n11 /\ n6 # n12 /\ n6 # n13 /\ n6 # n14 /\ n6 # n15 /\ n6 # n16
      /\ n6 # Skip /\ n7 # n8 /\ n7 # n9 /\ n7 # n10 /\ n7 # n11 /\ n7 # n12
      /\ n7 # n13 /\ n7 # n14 /\ n7 # n15 /\ n7 # n16 /\ n7 # Skip /\ n8 # n9
      /\ n8 # n10 /\ n8 # n11 /\ n8 # n12 /\ n8 # n13 /\ n8 # n14 /\ n8 # n15
      /\ n8 # n16 /\ n8 # Skip /\ n9 # n10 /\ n9 # n11 /\ n9 # n12 /\ n9 # n13
      /\ n9 # n14 /\ n9 # n15 /\ n9 # n16 /\ n9 # Skip /\ n10 # n11 /\ n10 # n12
      /\ n10 # n13 /\ n10 # n14 /\ n10 # n15 /\ n10 # n16 /\ n10 # Skip /\ n11 # n12
      /\ n11 # n13 /\ n11 # n14 /\ n11 # n15 /\ n11 # n16 /\ n11 # Skip /\ n12 # n13
      /\ n12 # n14 /\ n12 # n15 /\ n12 # n16 /\ n12 # Skip /\ n13 # n14 /\ n13 # n15
      /\ n13 # n16 /\ n13 # Skip /\ n14 # n15 /\ n14 # n16 /\ n14 # Skip
      /\ n15 # n16 /\ n15 # Skip /\ n16 # Skip
  BY <1>2 DEF Skip
<1>4. PICK names, w : /\ names = <<n1, n2, n3, n4, n5, n6, n7, n8, n9, n10, n11, n12, n13, n14, n15, n16>>
                      /\ w = <<512, 2, 2, 4, 2, 2, 2, 2, 2, 2, 4, 4, 4, 4, 4, 4>>
  BY Zenon
<1>5. Record(16, names, w) /\ Numbers(16, w) /\ Widths(s) = w
  BY <1>3, <1>4 DEF Record, Numbers, Widths
<1>6. EnvironmentReference = Struct(names, w)
  BY <1>2, <1>4 DEF EnvironmentReference
<1>7. Sums(w)[16] = 556 /\ Len(w) = 16
  BY <1>4, <1>5, SumsOfFew
<1>8. EnvironmentReference.size = 556 /\ SizeOf(s) = 556
  <2>1. EnvironmentReference.size = 556
    <3>1. PICK n : n = 16
      OBVIOUS
    <3>2. n \in Nat /\ Record(n, names, w)
      BY <1>5, <3>1
    <3>3. Struct(names, w).size = Sums(w)[n]
      BY ONLY <3>2, StructDef
    <3>4. QED
      BY <3>1, <3>3, <1>6, <1>7
  <2>2. SizeOf(s) = 556
    BY <1>5, <1>7 DEF SizeOf, TotalOf
  <2>3. QED
    BY <2>1, <2>2
<1>9. ASSUME NEW o \in Nat, Laid(file.at, o, s)
      PROVE  /\ Get(EnvironmentReference, o)[n6] = s[6][1]
  <2>1. \A i \in 1 .. 16 : names[i] # Skip => Get(EnvironmentReference, o)[names[i]] = s[i][1]
    BY <1>1, <1>5, <1>6, <1>9, GetRecord
  <2>2. QED
    BY <2>1, <1>3, <1>4
<1>10. QED
  BY <1>1, <1>2, <1>8, <1>9

\* What is read of the form of a candidate where fields of its widths lie, and its size.
LEMMA CandidateTypeRead ==
  ASSUME NEW s \in Written, Widths(s) = << 1 >>
  PROVE  /\ s \in Fields /\ SizeOf(s) = 1 /\ CandidateType.size = 1
         /\ \A o \in Nat : Laid(file.at, o, s) =>
              /\ Get(CandidateType, o).candidate_type = s[1][1]
<1>1. s \in Written /\ s \in Fields /\ Len(s) = 1
  BY DEF Written, Fields, Widths
<1>2. PICK n1 :
        /\ n1 = "candidate_type"
  BY Zenon
<1>3. /\ n1 # Skip
  BY <1>2 DEF Skip
<1>4. PICK names, w : /\ names = <<n1>>
                      /\ w = << 1 >>
  BY Zenon
<1>5. Record(1, names, w) /\ Numbers(1, w) /\ Widths(s) = w
  BY <1>3, <1>4 DEF Record, Numbers, Widths
<1>6. CandidateType = Struct(names, w)
  BY <1>2, <1>4 DEF CandidateType
<1>7. Sums(w)[1] = 1 /\ Len(w) = 1
  BY <1>4, <1>5, SumsOfFew
<1>8. CandidateType.size = 1 /\ SizeOf(s) = 1
  <2>1. CandidateType.size = 1
    <3>1. PICK n : n = 1
      OBVIOUS
    <3>2. n \in Nat /\ Record(n, names, w)
      BY <1>5, <3>1
    <3>3. Struct(names, w).size = Sums(w)[n]
      BY ONLY <3>2, StructDef
    <3>4. QED
      BY <3>1, <3>3, <1>6, <1>7
  <2>2. SizeOf(s) = 1
    BY <1>5, <1>7 DEF SizeOf, TotalOf
  <2>3. QED
    BY <2>1, <2>2
<1>9. ASSUME NEW o \in Nat, Laid(file.at, o, s)
      PROVE  /\ Get(CandidateType, o)[n1] = s[1][1]
  <2>1. \A i \in 1 .. 1 : names[i] # Skip => Get(CandidateType, o)[names[i]] = s[i][1]
    BY <1>1, <1>5, <1>6, <1>9, GetRecord
  <2>2. QED
    BY <2>1, <1>3, <1>4
<1>10. QED
  BY <1>1, <1>2, <1>8, <1>9

\* The sizes of the record types, in bytes.
LEMMA RecordSizes ==
  /\ DecisionInfoHeader.size = 12 /\ DecisionEntry.size = 4
  /\ QualifierSetEntry.size = 4 /\ QualifierEntry.size = 8
  /\ DistinctQualifierEntry.size = 12 /\ HierarchicalSchemaHeader.size = 8
  /\ HNameIdentifier.size = 16 /\ HSchemaVersionInfo.size = 20
  /\ HierarchicalSchemaTrailer.size = 26 /\ ResourceNameEntry.size = 12
  /\ ScopeEntry.size = 8 /\ ItemEntry.size = 2 /\ DataItemHeader.size = 12
  /\ StringEntry.size = 4 /\ BlobEntry.size = 8 /\ ResourceMapHeader.size = 32
  /\ EnvironmentReference.size = 556 /\ HierarchicalSchemaReferenceHeader.size = 32
  /\ ResourceValueTypeEntry.size = 8 /\ ItemToItemInfoGroupEntry.size = 4
  /\ ItemInfoGroupEntry.size = 4 /\ ItemInfoEntry.size = 4
  /\ TableExtensionHeader.size = 12 /\ ItemToItemInfoGroupEntryExt.size = 8
  /\ ItemInfoGroupEntryExt.size = 8 /\ ItemInfoEntryExt.size = 8
  /\ EmbeddedCandidate.size = 8 /\ ReferencedCandidate.size = 8
  /\ PriDescriptor.size = 20 /\ ResourceHeader.size = 32
  /\ TableOfContentsEntry.size = 32 /\ SectionHeader.size = 32
  /\ SectionFooter.size = 8
<1>1. DecisionInfoHeader.size = 12
  <2>1. PICK s : s = << <<0, 2>>, <<0, 2>>, <<0, 2>>, <<0, 2>>, <<0, 2>>, <<0, 2>> >>
    OBVIOUS
  <2>2. s \in Written /\ Widths(s) = <<2, 2, 2, 2, 2, 2>>
    BY <2>1 DEF Written, Widths, Values
  <2>3. QED
    BY <2>2, DecisionInfoHeaderRead
<1>2. DecisionEntry.size = 4
  <2>1. PICK s : s = << <<0, 2>>, <<0, 2>> >>
    OBVIOUS
  <2>2. s \in Written /\ Widths(s) = <<2, 2>>
    BY <2>1 DEF Written, Widths, Values
  <2>3. QED
    BY <2>2, DecisionEntryRead
<1>3. QualifierSetEntry.size = 4
  <2>1. PICK s : s = << <<0, 2>>, <<0, 2>> >>
    OBVIOUS
  <2>2. s \in Written /\ Widths(s) = <<2, 2>>
    BY <2>1 DEF Written, Widths, Values
  <2>3. QED
    BY <2>2, QualifierSetEntryRead
<1>4. QualifierEntry.size = 8
  <2>1. PICK s : s = << <<0, 2>>, <<0, 2>>, <<0, 2>>, <<0, 2>> >>
    OBVIOUS
  <2>2. s \in Written /\ Widths(s) = <<2, 2, 2, 2>>
    BY <2>1 DEF Written, Widths, Values
  <2>3. QED
    BY <2>2, QualifierEntryRead
<1>5. DistinctQualifierEntry.size = 12
  <2>1. PICK s : s = << <<0, 2>>, <<0, 2>>, <<0, 2>>, <<0, 2>>, <<0, 4>> >>
    OBVIOUS
  <2>2. s \in Written /\ Widths(s) = <<2, 2, 2, 2, 4>>
    BY <2>1 DEF Written, Widths, Values
  <2>3. QED
    BY <2>2, DistinctQualifierEntryRead
<1>6. HierarchicalSchemaHeader.size = 8
  <2>1. PICK s : s = << <<0, 2>>, <<0, 2>>, <<0, 2>>, <<0, 2>> >>
    OBVIOUS
  <2>2. s \in Written /\ Widths(s) = <<2, 2, 2, 2>>
    BY <2>1 DEF Written, Widths, Values
  <2>3. QED
    BY <2>2, HierarchicalSchemaHeaderRead
<1>7. HNameIdentifier.size = 16
  <2>1. PICK s : s = << <<0, 16>> >>
    OBVIOUS
  <2>2. s \in Written /\ Widths(s) = << 16 >>
    BY <2>1 DEF Written, Widths, Values
  <2>3. QED
    BY <2>2, HNameIdentifierRead
<1>8. HSchemaVersionInfo.size = 20
  <2>1. PICK s : s = << <<0, 2>>, <<0, 2>>, <<0, 4>>, <<0, 4>>, <<0, 4>>, <<0, 4>> >>
    OBVIOUS
  <2>2. s \in Written /\ Widths(s) = <<2, 2, 4, 4, 4, 4>>
    BY <2>1 DEF Written, Widths, Values
  <2>3. QED
    BY <2>2, HSchemaVersionInfoRead
<1>9. HierarchicalSchemaTrailer.size = 26
  <2>1. PICK s : s = << <<0, 2>>, <<0, 2>>, <<0, 2>>, <<0, 4>>, <<0, 4>>, <<0, 4>>,
                 <<0, 4>>, <<0, 4>> >>
    OBVIOUS
  <2>2. s \in Written /\ Widths(s) = <<2, 2, 2, 4, 4, 4, 4, 4>>
    BY <2>1 DEF Written, Widths, Values
  <2>3. QED
    BY <2>2, HierarchicalSchemaTrailerRead
<1>10. ResourceNameEntry.size = 12
  <2>1. PICK s : s = << <<0, 2>>, <<0, 2>>, <<0, 2>>, <<0, 1>>, <<0, 1>>, <<0, 2>>,
                 <<0, 2>> >>
    OBVIOUS
  <2>2. s \in Written /\ Widths(s) = <<2, 2, 2, 1, 1, 2, 2>>
    BY <2>1 DEF Written, Widths, Values
  <2>3. QED
    BY <2>2, ResourceNameEntryRead
<1>11. ScopeEntry.size = 8
  <2>1. PICK s : s = << <<0, 2>>, <<0, 2>>, <<0, 2>>, <<0, 2>> >>
    OBVIOUS
  <2>2. s \in Written /\ Widths(s) = <<2, 2, 2, 2>>
    BY <2>1 DEF Written, Widths, Values
  <2>3. QED
    BY <2>2, ScopeEntryRead
<1>12. ItemEntry.size = 2
  <2>1. PICK s : s = << <<0, 2>> >>
    OBVIOUS
  <2>2. s \in Written /\ Widths(s) = << 2 >>
    BY <2>1 DEF Written, Widths, Values
  <2>3. QED
    BY <2>2, ItemEntryRead
<1>13. DataItemHeader.size = 12
  <2>1. PICK s : s = << <<0, 4>>, <<0, 2>>, <<0, 2>>, <<0, 4>> >>
    OBVIOUS
  <2>2. s \in Written /\ Widths(s) = <<4, 2, 2, 4>>
    BY <2>1 DEF Written, Widths, Values
  <2>3. QED
    BY <2>2, DataItemHeaderRead
<1>14. StringEntry.size = 4
  <2>1. PICK s : s = << <<0, 2>>, <<0, 2>> >>
    OBVIOUS
  <2>2. s \in Written /\ Widths(s) = <<2, 2>>
    BY <2>1 DEF Written, Widths, Values
  <2>3. QED
    BY <2>2, StringEntryRead
<1>15. BlobEntry.size = 8
  <2>1. PICK s : s = << <<0, 4>>, <<0, 4>> >>
    OBVIOUS
  <2>2. s \in Written /\ Widths(s) = <<4, 4>>
    BY <2>1 DEF Written, Widths, Values
  <2>3. QED
    BY <2>2, BlobEntryRead
<1>16. ResourceMapHeader.size = 32
  <2>1. PICK s : s = << <<0, 2>>, <<0, 2>>, <<0, 2>>, <<0, 2>>, <<0, 2>>, <<0, 2>>,
                 <<0, 2>>, <<0, 2>>, <<0, 4>>, <<0, 4>>, <<0, 4>>, <<0, 4>> >>
    OBVIOUS
  <2>2. s \in Written /\ Widths(s) = <<2, 2, 2, 2, 2, 2, 2, 2, 4, 4, 4, 4>>
    BY <2>1 DEF Written, Widths, Values
  <2>3. QED
    BY <2>2, ResourceMapHeaderRead
<1>17. EnvironmentReference.size = 556
  <2>1. PICK s : s = << <<0, 512>>, <<0, 2>>, <<0, 2>>, <<0, 4>>, <<0, 2>>,
                 <<0, 2>>, <<0, 2>>, <<0, 2>>, <<0, 2>>, <<0, 2>>, <<0, 4>>,
                 <<0, 4>>, <<0, 4>>, <<0, 4>>, <<0, 4>>, <<0, 4>> >>
    OBVIOUS
  <2>2. s \in Written /\ Widths(s) = <<512, 2, 2, 4, 2, 2, 2, 2, 2, 2, 4, 4, 4, 4, 4, 4>>
    BY <2>1 DEF Written, Widths, Values
  <2>3. QED
    BY <2>2, EnvironmentReferenceRead
<1>18. HierarchicalSchemaReferenceHeader.size = 32
  <2>1. PICK s : s = << <<0, 20>>, <<0, 2>>, <<0, 2>>, <<0, 4>>, <<0, 4>> >>
    OBVIOUS
  <2>2. s \in Written /\ Widths(s) = <<20, 2, 2, 4, 4>>
    BY <2>1 DEF Written, Widths, Values
  <2>3. QED
    BY <2>2, HierarchicalSchemaReferenceHeaderRead
<1>19. ResourceValueTypeEntry.size = 8
  <2>1. PICK s : s = << <<0, 4>>, <<0, 4>> >>
    OBVIOUS
  <2>2. s \in Written /\ Widths(s) = <<4, 4>>
    BY <2>1 DEF Written, Widths, Values
  <2>3. QED
    BY <2>2, ResourceValueTypeEntryRead
<1>20. ItemToItemInfoGroupEntry.size = 4
  <2>1. PICK s : s = << <<0, 2>>, <<0, 2>> >>
    OBVIOUS
  <2>2. s \in Written /\ Widths(s) = <<2, 2>>
    BY <2>1 DEF Written, Widths, Values
  <2>3. QED
    BY <2>2, ItemToItemInfoGroupEntryRead
<1>21. ItemInfoGroupEntry.size = 4
  <2>1. PICK s : s = << <<0, 2>>, <<0, 2>> >>
    OBVIOUS
  <2>2. s \in Written /\ Widths(s) = <<2, 2>>
    BY <2>1 DEF Written, Widths, Values
  <2>3. QED
    BY <2>2, ItemInfoGroupEntryRead
<1>22. ItemInfoEntry.size = 4
  <2>1. PICK s : s = << <<0, 2>>, <<0, 2>> >>
    OBVIOUS
  <2>2. s \in Written /\ Widths(s) = <<2, 2>>
    BY <2>1 DEF Written, Widths, Values
  <2>3. QED
    BY <2>2, ItemInfoEntryRead
<1>23. TableExtensionHeader.size = 12
  <2>1. PICK s : s = << <<0, 4>>, <<0, 4>>, <<0, 4>> >>
    OBVIOUS
  <2>2. s \in Written /\ Widths(s) = <<4, 4, 4>>
    BY <2>1 DEF Written, Widths, Values
  <2>3. QED
    BY <2>2, TableExtensionHeaderRead
<1>24. ItemToItemInfoGroupEntryExt.size = 8
  <2>1. PICK s : s = << <<0, 4>>, <<0, 4>> >>
    OBVIOUS
  <2>2. s \in Written /\ Widths(s) = <<4, 4>>
    BY <2>1 DEF Written, Widths, Values
  <2>3. QED
    BY <2>2, ItemToItemInfoGroupEntryExtRead
<1>25. ItemInfoGroupEntryExt.size = 8
  <2>1. PICK s : s = << <<0, 4>>, <<0, 4>> >>
    OBVIOUS
  <2>2. s \in Written /\ Widths(s) = <<4, 4>>
    BY <2>1 DEF Written, Widths, Values
  <2>3. QED
    BY <2>2, ItemInfoGroupEntryExtRead
<1>26. ItemInfoEntryExt.size = 8
  <2>1. PICK s : s = << <<0, 4>>, <<0, 4>> >>
    OBVIOUS
  <2>2. s \in Written /\ Widths(s) = <<4, 4>>
    BY <2>1 DEF Written, Widths, Values
  <2>3. QED
    BY <2>2, ItemInfoEntryExtRead
<1>27. EmbeddedCandidate.size = 8
  <2>1. PICK s : s = << <<0, 1>>, <<0, 1>>, <<0, 2>>, <<0, 4>> >>
    OBVIOUS
  <2>2. s \in Written /\ Widths(s) = <<1, 1, 2, 4>>
    BY <2>1 DEF Written, Widths, Values
  <2>3. QED
    BY <2>2, EmbeddedCandidateRead
<1>28. ReferencedCandidate.size = 8
  <2>1. PICK s : s = << <<0, 1>>, <<0, 1>>, <<0, 2>>, <<0, 2>>, <<0, 2>> >>
    OBVIOUS
  <2>2. s \in Written /\ Widths(s) = <<1, 1, 2, 2, 2>>
    BY <2>1 DEF Written, Widths, Values
  <2>3. QED
    BY <2>2, ReferencedCandidateRead
<1>29. PriDescriptor.size = 20
  <2>1. PICK s : s = << <<0, 2>>, <<0, 2>>, <<0, 2>>, <<0, 2>>, <<0, 2>>, <<0, 2>>,
                 <<0, 2>>, <<0, 2>>, <<0, 2>>, <<0, 2>> >>
    OBVIOUS
  <2>2. s \in Written /\ Widths(s) = <<2, 2, 2, 2, 2, 2, 2, 2, 2, 2>>
    BY <2>1 DEF Written, Widths, Values
  <2>3. QED
    BY <2>2, PriDescriptorRead
<1>30. ResourceHeader.size = 32
  <2>1. PICK s : s = << <<0, 8>>, <<0, 2>>, <<0, 2>>, <<0, 4>>, <<0, 4>>, <<0, 4>>,
                 <<0, 2>>, <<0, 2>>, <<0, 4>> >>
    OBVIOUS
  <2>2. s \in Written /\ Widths(s) = <<8, 2, 2, 4, 4, 4, 2, 2, 4>>
    BY <2>1 DEF Written, Widths, Values
  <2>3. QED
    BY <2>2, ResourceHeaderRead
<1>31. TableOfContentsEntry.size = 32
  <2>1. PICK s : s = << <<0, 16>>, <<0, 2>>, <<0, 2>>, <<0, 4>>, <<0, 4>>, <<0, 4>> >>
    OBVIOUS
  <2>2. s \in Written /\ Widths(s) = <<16, 2, 2, 4, 4, 4>>
    BY <2>1 DEF Written, Widths, Values
  <2>3. QED
    BY <2>2, TableOfContentsEntryRead
<1>32. SectionHeader.size = 32
  <2>1. PICK s : s = << <<0, 16>>, <<0, 4>>, <<0, 2>>, <<0, 2>>, <<0, 4>>, <<0, 4>> >>
    OBVIOUS
  <2>2. s \in Written /\ Widths(s) = <<16, 4, 2, 2, 4, 4>>
    BY <2>1 DEF Written, Widths, Values
  <2>3. QED
    BY <2>2, SectionHeaderRead
<1>33. SectionFooter.size = 8
  <2>1. PICK s : s = << <<0, 4>>, <<0, 4>> >>
    OBVIOUS
  <2>2. s \in Written /\ Widths(s) = <<4, 4>>
    BY <2>1 DEF Written, Widths, Values
  <2>3. QED
    BY <2>2, SectionFooterRead
<1>34. QED
  BY <1>1, <1>2, <1>3, <1>4, <1>5, <1>6, <1>7, <1>8, <1>9, <1>10, <1>11, <1>12,
     <1>13, <1>14, <1>15, <1>16, <1>17, <1>18, <1>19, <1>20, <1>21, <1>22, <1>23,
     <1>24, <1>25, <1>26, <1>27, <1>28, <1>29, <1>30, <1>31, <1>32, <1>33

-----------------------------------------------------------------------------
\* Lists: flattened, reduced to some elements or to distinct ones, and tables of
\* one or two fields a row.

\* Lists of written fields make one.
LEMMA WrittenFlatten ==
  ASSUME NEW n \in Nat, NEW ss \in [1 .. n -> Written]
  PROVE  FlattenSeq(ss) \in Written /\ ss \in [1 .. n -> Fields]
<1>1. PICK f : Joins(Values \X (Nat \ {0}), n, ss, f) /\ FlattenSeq(ss) = f[n]
  BY FlattenDef DEF Written
<1>2. FlattenSeq(ss) \in Written
  BY <1>1 DEF Joins, Written
<1>3. \A i \in 1 .. n : ss[i] \in Fields
  BY WrittenIsFields
<1>4. QED
  BY <1>2, <1>3

\* A few lists in one, as it is written with the operator for two.
Lists(U, n, ss) == n \in Nat /\ ss \in [1 .. n -> Seq(U)]

\* A few lists, flattened, written out.
LEMMA FlattenOfFew ==
  ASSUME NEW U, NEW n, NEW ss, Lists(U, n, ss)
  PROVE  /\ n = 2 => FlattenSeq(ss) = ss[1] \o ss[2]
         /\ n = 3 => FlattenSeq(ss) = ss[1] \o ss[2] \o ss[3]
         /\ n = 4 => FlattenSeq(ss) = ss[1] \o ss[2] \o ss[3] \o ss[4]
         /\ n = 6 => FlattenSeq(ss) = ss[1] \o ss[2] \o ss[3] \o ss[4] \o ss[5] \o ss[6]
         /\ n = 7 => FlattenSeq(ss) = ss[1] \o ss[2] \o ss[3] \o ss[4] \o ss[5] \o ss[6] \o ss[7]
         /\ n = 8 => FlattenSeq(ss) = ss[1] \o ss[2] \o ss[3] \o ss[4] \o ss[5] \o ss[6]
                                      \o ss[7] \o ss[8]
         /\ n = 9 => FlattenSeq(ss) = ss[1] \o ss[2] \o ss[3] \o ss[4] \o ss[5] \o ss[6]
                                      \o ss[7] \o ss[8] \o ss[9]
<1>1. n \in Nat /\ ss \in [1 .. n -> Seq(U)]
  BY DEF Lists
<1>2. PICK f : Joins(U, n, ss, f) /\ FlattenSeq(ss) = f[n]
  BY <1>1, FlattenDef
<1> DEFINE Cat(x, y) == x \o y
<1>3. f[0] = <<>> /\ \A i \in 1 .. n : ss[i] \in Seq(U) /\ f[i] = Cat(f[i - 1], ss[i])
  BY <1>1, <1>2 DEF Joins
<1> HIDE DEF Cat
<1>4. ASSUME NEW i \in Nat, NEW j \in Nat, i + 1 = j, n >= j
      PROVE  f[j] = Cat(f[i], ss[j])
  <2>1. j \in 1 .. n /\ j - 1 = i
    BY <1>1, <1>4
  <2>2. QED
    BY <1>3, <2>1
<1>s1. n >= 1 => f[1] = ss[1]
  <2>1. SUFFICES ASSUME n >= 1 PROVE f[1] = ss[1]
    OBVIOUS
  <2>2. ss[1] \in Seq(U)
    BY <1>1, <1>3, <2>1
  <2>3. f[1] = Cat(f[0], ss[1])
    BY <1>4, <2>1
  <2>4. f[1] = Cat(<<>>, ss[1])
    BY <1>3, <2>3
  <2>5. QED
    BY <2>2, <2>4 DEF Cat
<1>s2. n >= 2 => f[2] = Cat(f[1], ss[2])
  BY <1>4
<1>s3. n >= 3 => f[3] = Cat(f[2], ss[3])
  BY <1>4
<1>s4. n >= 4 => f[4] = Cat(f[3], ss[4])
  BY <1>4
<1>s5. n >= 5 => f[5] = Cat(f[4], ss[5])
  BY <1>4
<1>s6. n >= 6 => f[6] = Cat(f[5], ss[6])
  BY <1>4
<1>s7. n >= 7 => f[7] = Cat(f[6], ss[7])
  BY <1>4
<1>s8. n >= 8 => f[8] = Cat(f[7], ss[8])
  BY <1>4
<1>s9. n >= 9 => f[9] = Cat(f[8], ss[9])
  BY <1>4
<1>2a. n = 2 => f[n] = ss[1] \o ss[2]
  <2>1. n = 2 => n >= 1 /\ n >= 2
    BY <1>1
  <2>2. QED
    BY ONLY <2>1, <1>s1, <1>s2, Zenon DEF Cat
<1>3a. n = 3 => f[n] = ss[1] \o ss[2] \o ss[3]
  <2>1. n = 3 => n >= 1 /\ n >= 2 /\ n >= 3
    BY <1>1
  <2>2. QED
    BY ONLY <2>1, <1>s1, <1>s2, <1>s3, Zenon DEF Cat
<1>4a. n = 4 => f[n] = ss[1] \o ss[2] \o ss[3] \o ss[4]
  <2>1. n = 4 => n >= 1 /\ n >= 2 /\ n >= 3 /\ n >= 4
    BY <1>1
  <2>2. QED
    BY ONLY <2>1, <1>s1, <1>s2, <1>s3, <1>s4, Zenon DEF Cat
<1>6a. n >= 6 => f[6] = ss[1] \o ss[2] \o ss[3] \o ss[4] \o ss[5] \o ss[6]
  <2>1. n >= 6 => /\ n >= 1 /\ n >= 2 /\ n >= 3 /\ n >= 4 /\ n >= 5
    BY <1>1
  <2>2. QED
    BY ONLY <2>1, <1>s1, <1>s2, <1>s3, <1>s4, <1>s5, <1>s6, Zenon DEF Cat
<1>7a. n >= 7 => f[7] = ss[1] \o ss[2] \o ss[3] \o ss[4] \o ss[5] \o ss[6] \o ss[7]
  <2>1. n >= 7 => n >= 6
    BY <1>1
  <2>2. QED
    BY ONLY <2>1, <1>6a, <1>s7, Zenon DEF Cat
<1>6b. n = 6 => n >= 6
  BY <1>1
<1>7b. n = 7 => n >= 7
  BY <1>1
<1>8a. n >= 8 => f[8] = ss[1] \o ss[2] \o ss[3] \o ss[4] \o ss[5] \o ss[6] \o ss[7] \o ss[8]
  <2>1. n >= 8 => /\ n >= 1 /\ n >= 2 /\ n >= 3 /\ n >= 4
                  /\ n >= 5 /\ n >= 6 /\ n >= 7
    BY <1>1
  <2>2. QED
    BY ONLY <2>1, <1>s1, <1>s2, <1>s3, <1>s4, <1>s5, <1>s6, <1>s7, <1>s8, Zenon DEF Cat
<1>9a. n = 9 => f[n] = ss[1] \o ss[2] \o ss[3] \o ss[4] \o ss[5] \o ss[6] \o ss[7] \o ss[8] \o ss[9]
  <2>1. n = 9 => n >= 8 /\ n >= 9
    BY <1>1
  <2>2. QED
    BY ONLY <2>1, <1>8a, <1>s9, Zenon DEF Cat
<1>8b. n = 8 => n >= 8
  BY <1>1
<1>5. QED
  BY ONLY <1>2, <1>2a, <1>3a, <1>4a, <1>6a, <1>6b, <1>7a, <1>7b, <1>8a, <1>8b, <1>9a, Zenon

\* The places of a list that are in a set, in order.
Picks(n, places, m, e) ==
  /\ m \in Nat
  /\ e \in [1 .. m -> 1 .. n]
  /\ \A j, k \in 1 .. m : j < k => e[j] < e[k]
  /\ {e[k] : k \in 1 .. m} = places \cap (1 .. n)

PicksFrom(s, n, places, m, e) ==
  Picks(n, places, m, e) /\ Those(s, places) = [k \in 1 .. m |-> s[e[k]]]

\* Those elements of a list that are at given places, in their order.
LEMMA ThoseDef ==
  ASSUME NEW T, NEW n \in Nat, NEW s \in [1 .. n -> T], NEW places
  PROVE  \E m, e : PicksFrom(s, n, places, m, e)
<1> DEFINE Is(f) == f = [i \in 0 .. n |->
                           IF i = 0 THEN <<>>
                           ELSE IF i \in places THEN Append(f[i - 1], s[i]) ELSE f[i - 1]]
<1>1. Len(s) = n
  OBVIOUS
<1>2. Those(s, places) = (CHOOSE f : Is(f))[n]
  BY <1>1 DEF Those
<1>3. PICK f : /\ f \in [0 .. n -> Seq(T)] /\ f[0] = <<>>
               /\ \A i \in 1 .. n : f[i] = IF i \in places THEN Append(f[i - 1], s[i]) ELSE f[i - 1]
  <2> DEFINE step == [i \in 1 .. n |->
                        [x \in Seq(T) |-> IF i \in places THEN Append(x, s[i]) ELSE x]]
  <2>1. Steps(Seq(T), n, step) /\ <<>> \in Seq(T)
    BY DEF Steps
  <2>2. \E f : Follows(Seq(T), <<>>, n, step, f)
    <3> HIDE DEF step
    <3>1. QED
      BY <2>1, RecursionExists
  <2>3. PICK f : Follows(Seq(T), <<>>, n, step, f)
    BY <2>2
  <2>4. \A i \in 1 .. n : f[i - 1] \in Seq(T)
    BY <2>3 DEF Follows
  <2>5. QED
    BY <2>3, <2>4 DEF Follows
<1>4. Is(f)
  <2>1. ASSUME NEW i \in 0 .. n
        PROVE  f[i] = IF i = 0 THEN <<>>
                      ELSE IF i \in places THEN Append(f[i - 1], s[i]) ELSE f[i - 1]
    <3>1. CASE i = 0
      BY <3>1, <1>3
    <3>2. CASE i # 0
      <4>1. i \in 1 .. n
        BY <3>2
      <4>2. QED
        BY <4>1, <3>2, <1>3
    <3>3. QED
      BY <3>1, <3>2
  <2>2. QED
    BY <2>1, <1>3
<1>5. PICK g : g = (CHOOSE h : Is(h)) /\ Is(g)
  BY <1>4
<1>5a. /\ g[0] = <<>>
       /\ \A i \in 1 .. n : g[i] = IF i \in places THEN Append(g[i - 1], s[i]) ELSE g[i - 1]
  <2>1. \A i \in 0 .. n : g[i] = IF i = 0 THEN <<>>
                                 ELSE IF i \in places THEN Append(g[i - 1], s[i]) ELSE g[i - 1]
    BY <1>5
  <2>2. ASSUME NEW i \in 1 .. n
        PROVE  g[i] = IF i \in places THEN Append(g[i - 1], s[i]) ELSE g[i - 1]
    <3>1. i \in 0 .. n /\ i # 0
      OBVIOUS
    <3>2. QED
      BY <3>1, <2>1
  <2>3. g[0] = <<>>
    BY <2>1
  <2>4. QED
    BY <2>2, <2>3
<1> HIDE DEF Is
<1> DEFINE S == {i \in Nat : i <= n => g[i] = f[i]}
<1>6. S = Nat
  <2>1. 0 \in S
    BY <1>5a, <1>3
  <2>2. ASSUME NEW i \in S PROVE i + 1 \in S
    <3>1. i \in Nat /\ (i + 1) - 1 = i
      OBVIOUS
    <3>2. SUFFICES ASSUME i + 1 <= n PROVE g[i + 1] = f[i + 1]
      BY <3>1
    <3>3. i + 1 \in 1 .. n /\ i + 1 \in 0 .. n /\ i + 1 # 0 /\ g[i] = f[i]
      BY <3>1, <3>2, <2>2
    <3>4. g[i + 1] = IF i + 1 \in places THEN Append(g[i], s[i + 1]) ELSE g[i]
      BY <1>5a, <3>1, <3>3
    <3>5. f[i + 1] = IF i + 1 \in places THEN Append(f[i], s[i + 1]) ELSE f[i]
      BY <1>3, <3>1, <3>3
    <3>6. QED
      BY <3>3, <3>4, <3>5
  <2>3. QED
    BY <2>1, <2>2, InductionOnSet
<1>7. Those(s, places) = f[n]
  <2>1. n \in S /\ n <= n
    BY <1>6
  <2>2. QED
    BY <2>1, <1>2, <1>5
<1> DEFINE Picked(i) == \E m, e : /\ Picks(i, places, m, e)
                                  /\ f[i] = [k \in 1 .. m |-> s[e[k]]]
           R == {i \in Nat : i <= n => Picked(i)}
<1>8. R = Nat
  <2>1. 0 \in R
    <3>1. Picks(0, places, 0, <<>>)
      BY DEF Picks
    <3>2. f[0] = [k \in 1 .. 0 |-> s[<<>>[k]]]
      BY <1>3
    <3>3. QED
      BY <3>1, <3>2
  <2>2. ASSUME NEW i \in R PROVE i + 1 \in R
    <3>1. i \in Nat /\ (i + 1) - 1 = i
      OBVIOUS
    <3>2. SUFFICES ASSUME i + 1 <= n PROVE Picked(i + 1)
      <4> HIDE DEF Picked
      <4>1. QED
        BY <3>1
    <3>3. i + 1 \in 1 .. n /\ i <= n
      BY <3>1, <3>2
    <3>4. PICK m, e : Picks(i, places, m, e) /\ f[i] = [k \in 1 .. m |-> s[e[k]]]
      BY <3>3, <2>2
    <3>5. /\ m \in Nat /\ e \in [1 .. m -> 1 .. i]
          /\ \A j, k \in 1 .. m : j < k => e[j] < e[k]
          /\ {e[k] : k \in 1 .. m} = places \cap (1 .. i)
      BY <3>4 DEF Picks
    <3>6. f[i + 1] = IF i + 1 \in places THEN Append(f[i], s[i + 1]) ELSE f[i]
      BY <1>3, <3>1, <3>3
    <3>7. CASE i + 1 \in places
      <4> DEFINE d == [k \in 1 .. m + 1 |-> IF k <= m THEN e[k] ELSE i + 1]
      <4>1. d \in [1 .. m + 1 -> 1 .. i + 1]
        BY <3>1, <3>5
      <4>2. ASSUME NEW j \in 1 .. m + 1, NEW k \in 1 .. m + 1, j < k PROVE d[j] < d[k]
        <5>1. j \in 1 .. m /\ d[j] = e[j] /\ e[j] \in 1 .. i
          BY <3>5, <4>2
        <5>2. CASE k = m + 1
          BY <5>1, <5>2, <3>1, <3>5
        <5>3. CASE k \in 1 .. m
          BY <5>1, <5>3, <3>5, <4>2
        <5>4. QED
          BY <5>2, <5>3, <3>5
      <4>3. {d[k] : k \in 1 .. m + 1} = places \cap (1 .. i + 1)
        <5>1. \A k \in 1 .. m + 1 : d[k] \in places \cap (1 .. i + 1)
          <6> TAKE k \in 1 .. m + 1
          <6>1. CASE k = m + 1
            BY <6>1, <3>1, <3>5, <3>7
          <6>2. CASE k \in 1 .. m
            <7>1. d[k] = e[k] /\ e[k] \in places \cap (1 .. i)
              BY <6>2, <3>5
            <7>2. QED
              BY <7>1, <3>1
          <6>3. QED
            BY <6>1, <6>2, <3>5
        <5>2. ASSUME NEW p \in places \cap (1 .. i + 1) PROVE \E k \in 1 .. m + 1 : d[k] = p
          <6>1. CASE p = i + 1
            <7>1. m + 1 \in 1 .. m + 1 /\ d[m + 1] = i + 1
              BY <3>5
            <7>2. QED
              BY <7>1, <6>1
          <6>2. CASE p \in 1 .. i
            <7>1. PICK k \in 1 .. m : e[k] = p
              BY <6>2, <3>5
            <7>2. k \in 1 .. m + 1 /\ d[k] = p
              BY <7>1, <3>5
            <7>3. QED
              BY <7>2
          <6>3. QED
            BY <6>1, <6>2, <3>1
        <5>3. QED
          BY <5>1, <5>2
      <4>4. Picks(i + 1, places, m + 1, d)
        BY <4>1, <4>2, <4>3, <3>5 DEF Picks
      <4>5. f[i + 1] = [k \in 1 .. m + 1 |-> s[d[k]]]
        <5>1. f[i + 1] = Append(f[i], s[i + 1]) /\ f[i] \in Seq(T) /\ s[i + 1] \in T
          BY <3>3, <3>6, <3>7, <1>3
        <5>2. Len(f[i]) = m
          BY <3>4, <3>5
        <5>3. f[i + 1] \in Seq(T) /\ Len(f[i + 1]) = m + 1
          BY <5>1, <5>2, <3>5
        <5>4. ASSUME NEW k \in 1 .. m + 1 PROVE f[i + 1][k] = s[d[k]]
          <6>1. CASE k = m + 1
            BY <6>1, <5>1, <5>2, <3>5
          <6>2. CASE k \in 1 .. m
            <7>1. f[i + 1][k] = f[i][k]
              BY <6>2, <5>1, <5>2
            <7>2. d[k] = e[k] /\ f[i][k] = s[e[k]]
              BY <6>2, <3>4, <3>5
            <7>3. QED
              BY <7>1, <7>2
          <6>3. QED
            BY <6>1, <6>2, <3>5
        <5>5. DOMAIN f[i + 1] = 1 .. m + 1
          <6>1. PICK h : h = f[i + 1]
            OBVIOUS
          <6>2. h \in Seq(T) /\ Len(h) = m + 1
            BY <6>1, <5>3
          <6>3. QED
            BY <6>1, <6>2
        <5>6. QED
          BY ONLY <5>3, <5>4, <5>5
      <4>6. PICK d1 : d1 = d
        OBVIOUS
      <4>7. Picks(i + 1, places, m + 1, d1) /\ f[i + 1] = [k \in 1 .. m + 1 |-> s[d1[k]]]
        BY ONLY <4>4, <4>5, <4>6
      <4>8. QED
        BY ONLY <4>7
    <3>8. CASE i + 1 \notin places
      <4>1. Picks(i + 1, places, m, e)
        BY <3>1, <3>5, <3>8 DEF Picks
      <4>2. QED
        BY <4>1, <3>4, <3>6, <3>8
    <3>9. QED
      BY <3>7, <3>8
  <2>3. QED
    <3> HIDE DEF R
    <3>1. R \subseteq Nat
      BY DEF R
    <3>2. QED
      BY <3>1, <2>1, <2>2, InductionOnSet
<1>9. Picked(n)
  <2> HIDE DEF Picked
  <2>1. n \in R /\ n <= n
    BY <1>8
  <2>2. QED
    BY <2>1
<1>10. PICK m, e : Picks(n, places, m, e) /\ f[n] = [k \in 1 .. m |-> s[e[k]]]
  BY ONLY <1>9
<1>11. PicksFrom(s, n, places, m, e)
  BY ONLY <1>7, <1>10 DEF PicksFrom
<1>12. QED
  BY ONLY <1>11

\* The chosen elements of a list are a list of just these.
LEMMA ThoseList ==
  ASSUME NEW T, NEW n \in Nat, NEW s \in [1 .. n -> T], NEW places
  PROVE  /\ Those(s, places) \in Seq(T)
         /\ \A i \in (1 .. n) \cap places :
              \E k \in 1 .. Len(Those(s, places)) : Those(s, places)[k] = s[i]
         /\ \A k \in 1 .. Len(Those(s, places)) :
              \E i \in (1 .. n) \cap places : Those(s, places)[k] = s[i]
<1>0. PICK m, e : PicksFrom(s, n, places, m, e)
  BY ThoseDef
<1>1. Picks(n, places, m, e) /\ Those(s, places) = [k \in 1 .. m |-> s[e[k]]]
  BY <1>0 DEF PicksFrom
<1>2. /\ m \in Nat /\ e \in [1 .. m -> 1 .. n]
      /\ {e[k] : k \in 1 .. m} = places \cap (1 .. n)
  BY <1>1 DEF Picks
<1>3. PICK t : t = Those(s, places)
  OBVIOUS
<1>4. t \in Seq(T) /\ Len(t) = m /\ \A k \in 1 .. m : t[k] = s[e[k]]
  BY <1>1, <1>2, <1>3
<1>5. ASSUME NEW i \in (1 .. n) \cap places PROVE \E k \in 1 .. Len(t) : t[k] = s[i]
  <2>1. PICK k \in 1 .. m : e[k] = i
    BY <1>2
  <2>2. QED
    BY <2>1, <1>4
<1>6. ASSUME NEW k \in 1 .. Len(t) PROVE \E i \in (1 .. n) \cap places : t[k] = s[i]
  <2>1. e[k] \in (1 .. n) \cap places
    BY <1>2, <1>4
  <2>2. QED
    BY <2>1, <1>4
<1>7. QED
  BY <1>3, <1>4, <1>5, <1>6

\* A list without repetitions has every element of the list once.
Reduces(T, n, s, t) ==
  /\ t \in Seq(T)
  /\ \A i \in 1 .. n : \E k \in 1 .. Len(t) : t[k] = s[i]
  /\ \A k \in 1 .. Len(t) : \E i \in 1 .. n : t[k] = s[i]
  /\ \A j, k \in 1 .. Len(t) : t[j] = t[k] => j = k

\* Distinct keeps one of each element of a list.
LEMMA DistinctList ==
  ASSUME NEW T, NEW n \in Nat, NEW s \in [1 .. n -> T]
  PROVE  Reduces(T, n, s, Distinct(s))
<1> DEFINE places == {i \in DOMAIN s : \A j \in 1 .. i - 1 : s[j] # s[i]}
<1>0. Distinct(s) = Those(s, places)
  BY DEF Distinct
<1> HIDE DEF places
<1>a. PICK m, e : PicksFrom(s, n, places, m, e)
  BY ThoseDef
<1>1. Picks(n, places, m, e) /\ Those(s, places) = [k \in 1 .. m |-> s[e[k]]]
  BY <1>a DEF PicksFrom
<1> USE DEF places
<1>2. /\ m \in Nat /\ e \in [1 .. m -> 1 .. n]
      /\ \A j, k \in 1 .. m : j < k => e[j] < e[k]
      /\ {e[k] : k \in 1 .. m} = places \cap (1 .. n)
  <2> HIDE DEF places
  <2>1. QED
    BY <1>1 DEF Picks
<1>3. PICK t : t = Distinct(s)
  OBVIOUS
<1> HIDE DEF places
<1>4. t \in Seq(T) /\ Len(t) = m /\ \A k \in 1 .. m : t[k] = s[e[k]]
  <2>1. t = [k \in 1 .. m |-> s[e[k]]]
    BY <1>0, <1>1, <1>3
  <2>2. QED
    BY <2>1, <1>2
<1> USE DEF places
<1>5. ASSUME NEW i \in 1 .. n PROVE \E p \in places : s[p] = s[i]
  <2> DEFINE Same == {p \in Nat : p \in 1 .. n /\ s[p] = s[i]}
             Below == {p \in Nat \X Nat : p[1] < p[2]}
  <2>1. IsWellFoundedOn(Below, Nat)
    BY NatLessThanWellFounded DEF OpToRel
  <2>2. Same \subseteq Nat /\ Same # {}
    OBVIOUS
  <2>3. PICK p \in Same : \A y \in Same : ~(<<y, p>> \in Below)
    <3> HIDE DEF Same, Below
    <3>1. QED
      BY <2>1, <2>2, WFMin
  <2>4. ASSUME NEW j \in 1 .. p - 1 PROVE s[j] # s[p]
    <3>1. j \in 1 .. n /\ j \in Nat /\ p \in Nat /\ j < p /\ s[p] = s[i]
      OBVIOUS
    <3>2. <<j, p>> \in Below
      BY <3>1
    <3>3. QED
      BY <3>1, <3>2, <2>3
  <2>5. QED
    BY <2>4
<1>6. ASSUME NEW i \in 1 .. n PROVE \E k \in 1 .. Len(t) : t[k] = s[i]
  <2>1. PICK p \in places : s[p] = s[i]
    BY <1>5
  <2>2. PICK k \in 1 .. m : e[k] = p
    BY <1>2
  <2>3. QED
    BY <2>1, <2>2, <1>4
<1>7. ASSUME NEW k \in 1 .. Len(t) PROVE \E i \in 1 .. n : t[k] = s[i]
  BY <1>2, <1>4
<1>8. ASSUME NEW j \in 1 .. m, NEW k \in 1 .. m, j < k PROVE t[j] # t[k]
  <2>1. e[k] \in places /\ e[j] \in 1 .. n /\ e[k] \in 1 .. n /\ e[j] < e[k]
    BY <1>2, <1>8
  <2>2. e[j] \in 1 .. e[k] - 1
    BY <2>1
  <2>3. s[e[j]] # s[e[k]]
    BY <2>1, <2>2
  <2>4. QED
    BY <2>3, <1>4
<1>9. ASSUME NEW j \in 1 .. Len(t), NEW k \in 1 .. Len(t), t[j] = t[k] PROVE j = k
  <2>1. j \in 1 .. m /\ k \in 1 .. m /\ j \in Int /\ k \in Int
    BY <1>4
  <2>2. ~(j < k) /\ ~(k < j)
    BY <2>1, <1>8, <1>9
  <2>3. QED
    BY <2>1, <2>2
<1>10. QED
  BY <1>3, <1>4, <1>6, <1>7, <1>9 DEF Reduces

\* The place of an element of a list, counted from 0.
Has(n, s, x) == n \in Nat /\ DOMAIN s = 1 .. n /\ \E k \in 1 .. n : s[k] = x

\* The index of an element of a list is a place it is at.
LEMMA IndexInDef ==
  ASSUME NEW n, NEW s, NEW x, Has(n, s, x)
  PROVE  IndexIn(s, x) \in Nat /\ IndexIn(s, x) + 1 \in 1 .. n /\ s[IndexIn(s, x) + 1] = x
<1>1. PICK p : p = (CHOOSE i \in DOMAIN s : s[i] = x)
  OBVIOUS
<1>2. n \in Nat /\ p \in 1 .. n /\ s[p] = x
  BY <1>1 DEF Has
<1>3. IndexIn(s, x) = p - 1
  BY <1>1 DEF IndexIn
<1>4. p - 1 \in Nat /\ (p - 1) + 1 = p
  BY <1>2
<1>5. QED
  BY <1>2, <1>3, <1>4

\* What is written of each element of a list, one after another.
LEMMA EachWritten ==
  ASSUME NEW n \in Nat, NEW ss \in [1 .. n -> Written], NEW k \in Nat,
         \A i \in 1 .. n : SizeOf(ss[i]) = k
  PROVE  /\ FlattenSeq(ss) \in Written
         /\ SizeOf(FlattenSeq(ss)) = n * k
         /\ \A at, o : o \in Nat /\ Laid(at, o, FlattenSeq(ss)) =>
              \A i \in 1 .. n : Laid(at, o + (i - 1) * k, ss[i])
BY WrittenFlatten, LaidTable

\* A text and its terminator.
LEMMA TextWritten ==
  ASSUME NEW t \in Values, NEW k \in {1, 2}, NEW s, s = <<Block(t, k * Chars), Block(0, k)>>
  PROVE  /\ s \in Written /\ SizeOf(s) = k * (Chars + 1)
         /\ \A at, o : o \in Nat /\ Laid(at, o, s) =>
              /\ o \in DOMAIN at /\ at[o] = <<t, k * Chars>>
              /\ o + Chars * k \in DOMAIN at /\ at[o + Chars * k] = <<0, k>>
<1>1. s = << <<t, k * 4>>, <<0, k>> >>
  BY DEF Block, Chars
<1>2. k \in Nat \ {0} /\ k * 4 \in Nat \ {0} /\ 4 * k = k * 4 /\ k * (4 + 1) = k * 4 + k
  OBVIOUS
<1>3. s \in Written /\ s \in Fields /\ Len(s) = 2 /\ s[1] = <<t, k * 4>> /\ s[2] = <<0, k>>
  <2>1. 0 \in Values
    BY DEF Values
  <2>2. QED
    BY <1>1, <1>2, <2>1 DEF Written, Fields
<1>4. PICK w : w = Widths(s)
  OBVIOUS
<1>5. w \in [1 .. 2 -> Nat] /\ w[1] = k * 4 /\ w[2] = k
  BY <1>3, <1>4, <1>2 DEF Widths, Fields
<1>6. Numbers(2, w)
  BY <1>5 DEF Numbers
<1>7. Sums(w)[1] = k * 4 /\ Sums(w)[2] = k * 4 + k
  <2>1. Sums(w)[1] = w[1] /\ Sums(w)[2] = w[1] + w[2]
    BY <1>6, SumsOfFew
  <2>2. QED
    BY <2>1, <1>5
<1>8. Sums(w)[0] = 0
  <2>1. w \in [1 .. 2 -> Int]
    BY <1>5
  <2>2. QED
    BY <2>1, SumsDef
<1>9. SizeOf(s) = k * 4 + k /\ Starts(s)[1] = 0 /\ Starts(s)[2] = k * 4
  <2>1. \A i \in 1 .. Len(s) : Starts(s)[i] = Sums(w)[i - 1]
    BY <1>3, <1>4, FieldsDef
  <2>2. SizeOf(s) = Sums(w)[2]
    BY <1>3, <1>4, FieldsDef
  <2>3. QED
    BY <2>1, <2>2, <1>3, <1>7, <1>8
<1>10. ASSUME NEW at, NEW o \in Nat, Laid(at, o, s)
       PROVE  /\ o \in DOMAIN at /\ at[o] = <<t, k * 4>>
              /\ o + 4 * k \in DOMAIN at /\ at[o + 4 * k] = <<0, k>>
  <2>1. \A i \in 1 .. 2 : o + Starts(s)[i] \in DOMAIN at /\ at[o + Starts(s)[i]] = s[i]
    BY <1>3, <1>10 DEF Laid
  <2>2. o + 0 \in DOMAIN at /\ at[o + 0] = s[1] /\ o + k * 4 \in DOMAIN at /\ at[o + k * 4] = s[2]
    BY <2>1, <1>9
  <2>3. o + 0 = o /\ 4 * k = k * 4
    BY <1>2
  <2>4. QED
    BY <2>2, <2>3, <1>3
<1>11. QED
  BY <1>2, <1>3, <1>9, <1>10 DEF Chars

\* A block of texts has each where the number of those before it says.
LEMMA TextBlockWritten ==
  ASSUME NEW n \in Nat, NEW texts \in [1 .. n -> Values], NEW k \in {1, 2}
  PROVE  /\ TextBlock(texts, k) \in Written
         /\ SizeOf(TextBlock(texts, k)) = n * (k * (Chars + 1))
         /\ \A at, o : o \in Nat /\ Laid(at, o, TextBlock(texts, k)) =>
              \A i \in 1 .. n : LET p == o + (i - 1) * (k * (Chars + 1)) IN
                /\ p \in DOMAIN at /\ at[p] = <<texts[i], k * Chars>>
                /\ p + Chars * k \in DOMAIN at /\ at[p + Chars * k] = <<0, k>>
<1> DEFINE ss == [i \in 1 .. n |-> <<Block(texts[i], k * Chars), Block(0, k)>>]
<1>1. TextBlock(texts, k) = FlattenSeq(ss)
  BY DEF TextBlock, Each
<1>2. ASSUME NEW i \in 1 .. n
      PROVE  /\ ss[i] \in Written /\ SizeOf(ss[i]) = k * (Chars + 1)
             /\ \A at, o : o \in Nat /\ Laid(at, o, ss[i]) =>
                  /\ o \in DOMAIN at /\ at[o] = <<texts[i], k * Chars>>
                  /\ o + Chars * k \in DOMAIN at /\ at[o + Chars * k] = <<0, k>>
  <2>1. PICK t \in Values : t = texts[i]
    OBVIOUS
  <2>2. PICK s : s = ss[i]
    OBVIOUS
  <2>3. s = <<Block(t, k * Chars), Block(0, k)>>
    BY <2>1, <2>2
  <2>4. /\ s \in Written /\ SizeOf(s) = k * (Chars + 1)
        /\ \A at, o : o \in Nat /\ Laid(at, o, s) =>
              /\ o \in DOMAIN at /\ at[o] = <<t, k * Chars>>
              /\ o + Chars * k \in DOMAIN at /\ at[o + Chars * k] = <<0, k>>
    BY <2>3, TextWritten
  <2>5. QED
    BY <2>1, <2>2, <2>4
<1> HIDE DEF ss
<1>3. PICK r : r = ss
  OBVIOUS
<1>4. r \in [1 .. n -> Written] /\ \A i \in 1 .. n : SizeOf(r[i]) = k * (Chars + 1)
  <2>1. DOMAIN ss = 1 .. n /\ ss = [i \in 1 .. n |-> ss[i]]
    BY DEF ss
  <2>2. QED
    BY <2>1, <1>2, <1>3
<1>5. PICK z \in Nat : z = k * (Chars + 1)
  BY DEF Chars
<1>6. /\ FlattenSeq(r) \in Written
      /\ SizeOf(FlattenSeq(r)) = n * z
      /\ \A at, o : o \in Nat /\ Laid(at, o, FlattenSeq(r)) =>
           \A i \in 1 .. n : Laid(at, o + (i - 1) * z, r[i])
  BY <1>4, <1>5, EachWritten
<1>7. ASSUME NEW at, NEW o \in Nat, Laid(at, o, FlattenSeq(r)), NEW i \in 1 .. n, NEW p,
             p = o + (i - 1) * z
      PROVE  /\ p \in DOMAIN at /\ at[p] = <<texts[i], k * Chars>>
             /\ p + Chars * k \in DOMAIN at /\ at[p + Chars * k] = <<0, k>>
  <2>1. p \in Nat /\ Laid(at, p, r[i])
    <3>1. i - 1 \in Nat
      OBVIOUS
    <3>2. (i - 1) * z \in Nat
      BY <3>1
    <3>3. p \in Nat
      BY <3>2, <1>7
    <3>4. Laid(at, o + (i - 1) * z, r[i])
      BY <1>6, <1>7
    <3>5. QED
      BY <3>3, <3>4, <1>7
  <2>2. QED
    BY <2>1, <1>2, <1>3
<1>8. QED
  BY <1>1, <1>3, <1>5, <1>6, <1>7

\* The elements of lists put one behind another: those of a list begin behind
\* as many as the lists before it have.
LEMMA FlattenParts ==
  ASSUME NEW U, NEW n \in Nat, NEW ss \in [1 .. n -> Seq(U)]
  PROVE  /\ FlattenSeq(ss) \in Seq(U)
         /\ Lengths(ss) \in [1 .. n -> Nat]
         /\ Len(FlattenSeq(ss)) = Sums(Lengths(ss))[n]
         /\ \A i \in 1 .. n : \A j \in 1 .. Len(ss[i]) :
              /\ Sums(Lengths(ss))[i - 1] + j \in 1 .. Len(FlattenSeq(ss))
              /\ FlattenSeq(ss)[Sums(Lengths(ss))[i - 1] + j] = ss[i][j]
<1>1. PICK f : Joins(U, n, ss, f) /\ FlattenSeq(ss) = f[n]
  BY FlattenDef
<1> DEFINE Cat(x, y) == x \o y
<1>2. /\ f \in [0 .. n -> Seq(U)] /\ f[0] = <<>>
      /\ \A i \in 1 .. n : f[i] = Cat(f[i - 1], ss[i])
  BY <1>1 DEF Joins
<1>3. \A x, y \in Seq(U) : /\ Cat(x, y) \in Seq(U) /\ Len(Cat(x, y)) = Len(x) + Len(y)
                           /\ \A j \in 1 .. Len(x) : Cat(x, y)[j] = x[j]
                           /\ \A j \in 1 .. Len(y) : Cat(x, y)[Len(x) + j] = y[j]
  OBVIOUS
<1> HIDE DEF Cat
<1>4. PICK w : w = Lengths(ss)
  OBVIOUS
<1>5. w \in [1 .. n -> Nat] /\ w \in [1 .. n -> Int] /\ \A i \in 1 .. n : w[i] = Len(ss[i])
  BY <1>4 DEF Lengths
<1>6. PICK sums : sums = Sums(w)
  OBVIOUS
<1>7. /\ sums \in [0 .. n -> Nat] /\ sums[0] = 0
      /\ \A i \in 1 .. n : sums[i] = sums[i - 1] + w[i]
  BY <1>5, <1>6, SumsDef, SumsRise
<1> DEFINE Holds(m) == /\ Len(f[m]) = sums[m]
                       /\ \A i \in 1 .. m : \A j \in 1 .. Len(ss[i]) :
                            /\ sums[i - 1] + j \in 1 .. Len(f[m])
                            /\ f[m][sums[i - 1] + j] = ss[i][j]
           S == {m \in Nat : m <= n => Holds(m)}
<1>8. S = Nat
  <2>1. 0 \in S
    BY <1>2, <1>7
  <2>2. ASSUME NEW m \in S PROVE m + 1 \in S
    <3>1. m \in Nat /\ (m + 1) - 1 = m
      OBVIOUS
    <3>2. SUFFICES ASSUME m + 1 <= n PROVE Holds(m + 1)
      <4> HIDE DEF Holds
      <4>1. QED
        BY <3>1
    <3>3. m + 1 \in 1 .. n /\ m \in 0 .. n /\ m <= n
      BY <3>1, <3>2
    <3>4. Holds(m)
      <4> HIDE DEF Holds
      <4>1. QED
        BY <3>3, <2>2
    <3>5. f[m] \in Seq(U) /\ ss[m + 1] \in Seq(U) /\ f[m + 1] = Cat(f[m], ss[m + 1])
      BY <1>2, <3>1, <3>3
    <3>6. sums[m + 1] = sums[m] + Len(ss[m + 1]) /\ sums[m] \in Nat /\ Len(ss[m + 1]) \in Nat
      BY <1>5, <1>7, <3>1, <3>3
    <3>x. PICK x \in Seq(U) : x = f[m]
      BY <3>5
    <3>y. PICK y \in Seq(U) : y = ss[m + 1]
      BY <3>5
    <3>z. PICK z : z = f[m + 1]
      OBVIOUS
    <3>c. z = Cat(x, y)
      BY <3>5, <3>x, <3>y, <3>z
    <3>7. /\ Len(z) = Len(x) + Len(y) /\ Len(x) = sums[m]
          /\ \A j \in 1 .. Len(x) : z[j] = x[j]
          /\ \A j \in 1 .. Len(y) : z[Len(x) + j] = y[j]
      <4>1. Len(x) = sums[m]
        BY <3>x, <3>4
      <4>2. QED
        BY <4>1, <3>c, <1>3
    <3>8. ASSUME NEW i \in 1 .. m + 1, NEW j \in 1 .. Len(ss[i])
          PROVE  /\ sums[i - 1] + j \in 1 .. Len(z)
                 /\ z[sums[i - 1] + j] = ss[i][j]
      <4>0. Len(x) \in Nat /\ Len(y) \in Nat
        OBVIOUS
      <4>1. CASE i = m + 1
        <5>1. j \in 1 .. Len(y) /\ sums[i - 1] = Len(x) /\ ss[i][j] = y[j]
          BY <4>1, <3>1, <3>7, <3>y
        <5>2. z[Len(x) + j] = y[j]
          BY <5>1, <3>7
        <5>3. Len(x) + j \in 1 .. Len(z)
          BY <5>1, <4>0, <3>7
        <5>4. QED
          BY ONLY <5>1, <5>2, <5>3
      <4>2. CASE i \in 1 .. m
        <5>1. sums[i - 1] + j \in 1 .. Len(x) /\ x[sums[i - 1] + j] = ss[i][j]
          BY <4>2, <3>4, <3>x
        <5>2. QED
          BY <5>1, <4>0, <3>7
      <4>3. QED
        BY <4>1, <4>2, <3>1
    <3>w. Len(z) = sums[m + 1]
      BY <3>6, <3>7, <3>x, <3>y
    <3>9. QED
      BY <3>w, <3>8, <3>z
  <2>3. QED
    <3> HIDE DEF S
    <3>1. S \subseteq Nat
      BY DEF S
    <3>2. QED
      BY <3>1, <2>1, <2>2, InductionOnSet
<1>9. Holds(n)
  <2> HIDE DEF Holds
  <2>1. n \in S /\ n <= n
    BY <1>8
  <2>2. QED
    BY <2>1
<1>10. f[n] \in Seq(U)
  BY <1>2
<1>11. QED
  BY <1>1, <1>4, <1>5, <1>6, <1>9, <1>10

\* How many elements the lists before one have, as it is written.
LEMMA CountBefore ==
  ASSUME NEW U, NEW n \in Nat, NEW ss \in [1 .. n -> Seq(U)], NEW i \in 1 .. n
  PROVE  TotalOf([j \in 1 .. i - 1 |-> Len(ss[j])]) = Sums(Lengths(ss))[i - 1]
<1>1. PICK w : w = Lengths(ss)
  OBVIOUS
<1>2. w \in [1 .. n -> Int] /\ \A j \in 1 .. n : w[j] = Len(ss[j])
  BY <1>1 DEF Lengths
<1>3. PICK v : v = [j \in 1 .. i - 1 |-> Len(ss[j])]
  OBVIOUS
<1>4. PICK m \in Nat : m = i - 1
  OBVIOUS
<1>5. m \in 0 .. n /\ m \in 0 .. m
  BY <1>4
<1>6. v \in [1 .. m -> Int] /\ Len(v) = m /\ \A j \in 1 .. m : v[j] = w[j]
  BY <1>2, <1>3, <1>4
<1>7. Sums(v)[m] = Sums(w)[m]
  BY <1>2, <1>5, <1>6, SumsOfFront
<1>8. QED
  BY <1>1, <1>3, <1>4, <1>6, <1>7 DEF TotalOf

\* Lists of lists, as sequences over the set of what is in them.
LEMMA ListOfLists ==
  ASSUME NEW x, IsList(x), \A y \in Range(x) : IsList(y)
  PROVE  LET U == UNION {Range(y) : y \in Range(x)}
         IN  x \in [1 .. Len(x) -> Seq(U)] /\ Len(x) \in Nat
<1> DEFINE U == UNION {Range(y) : y \in Range(x)}
<1>1. ASSUME NEW y \in Range(x) PROVE y \in Seq(U)
  <2>1. y \in Seq(Range(y)) /\ Range(y) \subseteq U
    BY DEF IsList
  <2>2. QED
    BY <2>1
<1>2. x \in Seq(Range(x))
  BY DEF IsList
<1>3. QED
  BY <1>1, <1>2 DEF Range

\* The qualifiers of the contents, their sets and the distinct conditions they
\* test, as the decision table lists them.
LEMMA QualifierLists ==
  ASSUME NEW c, DecisionsAreWellFormed(c)
  PROVE  \E U :
           /\ \A q \in U : IsQualifier(q)
           /\ c.decisions \in [1 .. Len(c.decisions) -> Seq(Seq(U))] /\ Len(c.decisions) \in Nat
           /\ AllSets(c) \in [1 .. Len(AllSets(c)) -> Seq(U)] /\ Len(AllSets(c)) \in Nat
           /\ AllQuals(c) \in [1 .. Len(AllQuals(c)) -> U] /\ Len(AllQuals(c)) \in Nat
           /\ Len(AllSets(c)) = Sums(Lengths(c.decisions))[Len(c.decisions)]
           /\ Len(AllQuals(c)) = Sums(Lengths(AllSets(c)))[Len(AllSets(c))]
<1> DEFINE D == c.decisions
           Sets == UNION {Range(d) : d \in Range(D)}
           U == UNION {Range(s) : s \in Sets}
<1>1. D \in [1 .. Len(D) -> Seq(Sets)] /\ Len(D) \in Nat
  <2>1. PICK x : x = D
    OBVIOUS
  <2>2. IsList(x) /\ \A d \in Range(x) : IsList(d)
    BY <2>1 DEF DecisionsAreWellFormed
  <2>3. QED
    BY <2>1, <2>2, ListOfLists
<1>2. \A s \in Sets : s \in Seq(U)
  <2> TAKE s \in Sets
  <2>1. s \in Seq(Range(s))
    BY DEF DecisionsAreWellFormed, IsList
  <2>2. Range(s) \subseteq U
    OBVIOUS
  <2>3. QED
    BY <2>1, <2>2
<1>3. \A q \in U : IsQualifier(q)
  BY DEF DecisionsAreWellFormed
<1> HIDE DEF Sets, U
<1>4. D \in [1 .. Len(D) -> Seq(Seq(U))]
  <2>1. \A i \in 1 .. Len(D) : D[i] \in Seq(Seq(U))
    <3> TAKE i \in 1 .. Len(D)
    <3>1. D[i] \in Seq(Sets)
      BY <1>1
    <3>2. QED
      BY <3>1, <1>2
  <2>2. QED
    BY <2>1, <1>1
<1>5. /\ AllSets(c) \in Seq(Seq(U)) /\ Len(AllSets(c)) = Sums(Lengths(D))[Len(D)]
  <2>0. PICK x : x = D
    OBVIOUS
  <2>1. PICK n \in Nat : n = Len(D)
    BY <1>1
  <2>2. x \in [1 .. n -> Seq(Seq(U))]
    BY <2>0, <2>1, <1>4
  <2>3. FlattenSeq(x) \in Seq(Seq(U)) /\ Len(FlattenSeq(x)) = Sums(Lengths(x))[n]
    BY <2>2, FlattenParts
  <2>4. QED
    BY <2>0, <2>1, <2>3 DEF AllSets
<1>6. PICK S : S = AllSets(c)
  OBVIOUS
<1>7. S \in [1 .. Len(S) -> Seq(U)] /\ Len(S) \in Nat
  BY <1>5, <1>6
<1>8. AllQuals(c) \in Seq(U) /\ Len(AllQuals(c)) = Sums(Lengths(S))[Len(S)]
  <2>1. FlattenSeq(S) \in Seq(U) /\ Len(FlattenSeq(S)) = Sums(Lengths(S))[Len(S)]
    BY <1>7, FlattenParts
  <2>2. QED
    BY <2>1, <1>6 DEF AllQuals
<1>9. PICK Q : Q = AllQuals(c)
  OBVIOUS
<1>10. Q \in [1 .. Len(Q) -> U] /\ Len(Q) \in Nat
  BY <1>8, <1>9
<1>11. QED
  BY <1>1, <1>3, <1>4, <1>5, <1>6, <1>7, <1>8, <1>9, <1>10

\* What a qualifier has is written in its fields, and is all of it.
LEMMA QualifierParts ==
  ASSUME NEW q, IsQualifier(q)
  PROVE  /\ q.type \in Range(QualifierTypes)
         /\ q.value \in Values
         /\ q.priority \in Nat /\ q.fallback_score \in Nat
         /\ q = [type |-> q.type, value |-> q.value, priority |-> q.priority,
                 fallback_score |-> q.fallback_score]
<1>1. q \in [type : Range(QualifierTypes), value : ValuesOf(q.type), priority : Nat,
             fallback_score : Nat]
  BY DEF IsQualifier
<1>2. PICK T, V : T = Range(QualifierTypes) /\ V = ValuesOf(q.type)
  OBVIOUS
<1>3. q \in [type : T, value : V, priority : Nat, fallback_score : Nat]
  BY <1>1, <1>2
<1>4. /\ q.type \in T /\ q.value \in V /\ q.priority \in Nat /\ q.fallback_score \in Nat
      /\ q = [type |-> q.type, value |-> q.value, priority |-> q.priority,
              fallback_score |-> q.fallback_score]
  BY <1>3
<1>5. V \subseteq Values
  BY <1>2, Zenon DEF ValuesOf, Values
<1>6. QED
  BY <1>2, <1>4, <1>5

Positive(k) == k \in Nat /\ k > 0

\* A width of two bytes is one a field may have.
LEMMA TwoIsPositive == Positive(2)
BY DEF Positive

\* Tables of rows of one and of two fields, given the columns.
Column(n, f) == n \in Nat /\ f \in [1 .. n -> Values]
Singles(n, k, f)  == FlattenSeq([i \in 1 .. n |-> << <<f[i], k>> >>])
Couples(n, k, f, g) == FlattenSeq([i \in 1 .. n |-> << <<f[i], k>>, <<g[i], k>> >>])

\* One field, how much it takes and what lies where it begins.
LEMMA SingleSize ==
  ASSUME NEW v \in Values, NEW k, Positive(k), NEW s, s = << <<v, k>> >>
  PROVE  /\ s \in Written /\ SizeOf(s) = k
         /\ \A at, o : o \in Nat /\ Laid(at, o, s) => o \in DOMAIN at /\ at[o] = <<v, k>>
<1>0. k \in Nat \ {0}
  BY DEF Positive
<1>1. s \in Written /\ s \in Fields /\ Len(s) = 1 /\ s[1] = <<v, k>>
  BY <1>0 DEF Written, Fields
<1>2. PICK w : w = Widths(s)
  OBVIOUS
<1>3. w \in [1 .. 1 -> Int] /\ w[1] = k
  BY <1>1, <1>2 DEF Widths, Fields
<1>4. Sums(w)[0] = 0 /\ Sums(w)[1] = Sums(w)[0] + w[1]
  <2>1. PICK n \in Nat : n = 1
    OBVIOUS
  <2>2. w \in [1 .. n -> Int]
    BY <1>3, <2>1
  <2>3. Sums(w)[0] = 0 /\ \A i \in 1 .. n : Sums(w)[i] = Sums(w)[i - 1] + w[i]
    BY <2>2, SumsDef
  <2>4. QED
    BY <2>1, <2>3
<1>5. SizeOf(s) = k /\ Starts(s)[1] = 0
  <2>1. \A i \in 1 .. Len(s) : Starts(s)[i] = Sums(w)[i - 1]
    BY <1>1, <1>2, FieldsDef
  <2>2. SizeOf(s) = Sums(w)[1]
    BY <1>1, <1>2, FieldsDef
  <2>3. QED
    BY <2>1, <2>2, <1>1, <1>3, <1>4
<1>6. ASSUME NEW at, NEW o \in Nat, Laid(at, o, s) PROVE o \in DOMAIN at /\ at[o] = <<v, k>>
  <2>1. o + Starts(s)[1] \in DOMAIN at /\ at[o + Starts(s)[1]] = s[1]
    BY <1>1, <1>6 DEF Laid
  <2>2. o + 0 = o
    OBVIOUS
  <2>3. QED
    BY <2>1, <2>2, <1>1, <1>5
<1>7. QED
  BY <1>1, <1>5, <1>6

\* A table of single fields takes their width for each.
LEMMA SingleTable ==
  ASSUME NEW n, NEW k, Positive(k), NEW f, Column(n, f)
  PROVE  Singles(n, k, f) \in Written /\ SizeOf(Singles(n, k, f)) = n * k
<1>0. n \in Nat /\ f \in [1 .. n -> Values] /\ k \in Nat
  BY DEF Column, Positive
<1>1. PICK ss : ss = [i \in 1 .. n |-> << <<f[i], k>> >>]
  OBVIOUS
<1>2. ASSUME NEW i \in 1 .. n PROVE ss[i] \in Written /\ SizeOf(ss[i]) = k
  <2>1. PICK s, v : s = ss[i] /\ v = f[i]
    OBVIOUS
  <2>2. v \in Values /\ s = << <<v, k>> >>
    BY <1>0, <1>1, <2>1
  <2>3. s \in Written /\ SizeOf(s) = k
    BY <2>2, SingleSize
  <2>4. QED
    BY <2>1, <2>3
<1>3. ss \in [1 .. n -> Written]
  BY <1>0, <1>1, <1>2
<1>4. FlattenSeq(ss) \in Written /\ SizeOf(FlattenSeq(ss)) = n * k
  BY <1>0, <1>2, <1>3, EachWritten
<1>5. QED
  BY <1>1, <1>4 DEF Singles

\* Where the field of a row lies in such a table.
LEMMA SingleRow ==
  ASSUME NEW n, NEW k, Positive(k), NEW f, Column(n, f), NEW at, NEW o \in Nat,
         Laid(at, o, Singles(n, k, f)), NEW i \in 1 .. n, NEW p, p = o + (i - 1) * k
  PROVE  p \in DOMAIN at /\ at[p] = <<f[i], k>>
<1>0. n \in Nat /\ f \in [1 .. n -> Values] /\ k \in Nat
  BY DEF Column, Positive
<1>1. PICK ss : ss = [j \in 1 .. n |-> << <<f[j], k>> >>]
  OBVIOUS
<1>2. ASSUME NEW j \in 1 .. n
      PROVE  /\ ss[j] \in Written /\ SizeOf(ss[j]) = k
             /\ \A a, x : x \in Nat /\ Laid(a, x, ss[j]) => x \in DOMAIN a /\ a[x] = <<f[j], k>>
  <2>1. PICK s, v : s = ss[j] /\ v = f[j]
    OBVIOUS
  <2>2. v \in Values /\ s = << <<v, k>> >>
    BY <1>0, <1>1, <2>1
  <2>3. /\ s \in Written /\ SizeOf(s) = k
        /\ \A a, x : x \in Nat /\ Laid(a, x, s) => x \in DOMAIN a /\ a[x] = <<v, k>>
    BY <2>2, SingleSize
  <2>4. QED
    BY <2>1, <2>3
<1>3. ss \in [1 .. n -> Written]
  BY <1>0, <1>1, <1>2
<1>4. Laid(at, o, FlattenSeq(ss))
  BY <1>1 DEF Singles
<1>5. \A j \in 1 .. n : Laid(at, o + (j - 1) * k, ss[j])
  BY <1>0, <1>2, <1>3, <1>4, EachWritten
<1>6. p \in Nat
  <2>1. i - 1 \in Nat
    BY <1>0
  <2>2. (i - 1) * k \in Nat
    BY <1>0, <2>1
  <2>3. QED
    BY <2>2
<1>7. Laid(at, p, ss[i])
  BY <1>5
<1>8. QED
  BY <1>2, <1>6, <1>7

\* Two fields of one width take twice that.
LEMMA CoupleSize ==
  ASSUME NEW v \in Values, NEW w \in Values, NEW k, Positive(k), NEW s, s = << <<v, k>>, <<w, k>> >>
  PROVE  s \in Written /\ SizeOf(s) = 2 * k
<1>0. k \in Nat \ {0}
  BY DEF Positive
<1>1. s \in Written /\ s \in Fields /\ Len(s) = 2 /\ s[1] = <<v, k>> /\ s[2] = <<w, k>>
  BY <1>0 DEF Written, Fields
<1>2. PICK ws : ws = Widths(s)
  OBVIOUS
<1>3. ws \in [1 .. 2 -> Int] /\ ws[1] = k /\ ws[2] = k
  BY <1>1, <1>2 DEF Widths, Fields
<1>4. Sums(ws)[2] = ws[1] + ws[2]
  <2>1. Numbers(2, ws)
    BY <1>3 DEF Numbers
  <2>2. QED
    BY <2>1, SumsOfFew
<1>5. SizeOf(s) = Sums(ws)[2]
  BY <1>1, <1>2, FieldsDef
<1>6. QED
  BY <1>1, <1>3, <1>4, <1>5

\* A table of couples, how much it takes and where each row lies.
LEMMA CoupleTable ==
  ASSUME NEW n, NEW k, Positive(k), NEW f, NEW g, Column(n, f), Column(n, g)
  PROVE  /\ Couples(n, k, f, g) \in Written /\ SizeOf(Couples(n, k, f, g)) = n * (2 * k)
         /\ \A at, o : o \in Nat /\ Laid(at, o, Couples(n, k, f, g)) =>
              \A i \in 1 .. n : Laid(at, o + (i - 1) * (2 * k), << <<f[i], k>>, <<g[i], k>> >>)
<1>0. n \in Nat /\ f \in [1 .. n -> Values] /\ g \in [1 .. n -> Values] /\ k \in Nat
  BY DEF Column, Positive
<1>1. PICK ss : ss = [i \in 1 .. n |-> << <<f[i], k>>, <<g[i], k>> >>]
  OBVIOUS
<1>2. ASSUME NEW i \in 1 .. n PROVE ss[i] \in Written /\ SizeOf(ss[i]) = 2 * k
  <2>1. PICK s, v, w : s = ss[i] /\ v = f[i] /\ w = g[i]
    OBVIOUS
  <2>2. v \in Values /\ w \in Values /\ s = << <<v, k>>, <<w, k>> >>
    BY <1>0, <1>1, <2>1
  <2>3. QED
    BY <2>1, <2>2, CoupleSize
<1>3. PICK z \in Nat : z = 2 * k
  BY <1>0
<1>4. ss \in [1 .. n -> Written] /\ \A i \in 1 .. n : SizeOf(ss[i]) = z
  BY <1>0, <1>1, <1>2, <1>3
<1>5. /\ FlattenSeq(ss) \in Written
      /\ SizeOf(FlattenSeq(ss)) = n * z
      /\ \A at, o : o \in Nat /\ Laid(at, o, FlattenSeq(ss)) =>
           \A i \in 1 .. n : Laid(at, o + (i - 1) * z, ss[i])
  BY <1>0, <1>4, EachWritten
<1>6. \A i \in 1 .. n : ss[i] = << <<f[i], k>>, <<g[i], k>> >>
  BY <1>1
<1>7. Couples(n, k, f, g) = FlattenSeq(ss)
  BY <1>1 DEF Couples
<1>8. QED
  BY <1>3, <1>5, <1>6, <1>7

-----------------------------------------------------------------------------
\* The decision section.

\* How many elements the lists before each have.
Before(ss) == [i \in DOMAIN ss |-> Sums(Lengths(ss))[i - 1]]

\* The rows of the decision table and of its distinct conditions.
QualifierRow(c, i) ==
  <<U16(IndexIn(Conditions(c), Condition(AllQuals(c)[i]))), U16(AllQuals(c)[i].priority),
    U16(AllQuals(c)[i].fallback_score), U16(0)>>
ConditionRow(c, i) ==
  <<U16(0), U16(IndexIn(QualifierTypes, Conditions(c)[i][1])), U16(0), U16(0),
    U32((Chars + 1) * (i - 1))>>

\* A decision section as its tables.
DecisionPieces(c) ==
  LET D == c.decisions
      S == AllSets(c)
      Q == AllQuals(c)
      C == Conditions(c)
  IN << <<U16(Len(C)), U16(Len(Q)), U16(Len(S)), U16(Len(D)), U16(Len(S) + Len(Q)),
          U16((Chars + 1) * Len(C))>>,
        Couples(Len(D), 2, Before(D), Lengths(D)),
        Couples(Len(S), 2, [i \in DOMAIN S |-> Len(S) + Before(S)[i]], Lengths(S)),
        FlattenSeq([i \in 1 .. Len(Q) |-> QualifierRow(c, i)]),
        FlattenSeq([i \in 1 .. Len(C) |-> ConditionRow(c, i)]),
        Singles(Len(S), 2, [i \in 1 .. Len(S) |-> i - 1]),
        Singles(Len(Q), 2, [i \in 1 .. Len(Q) |-> i - 1]),
        TextBlock([i \in DOMAIN C |-> C[i][2]], 2) >>

\* The distinct conditions: every qualifier's is one of them.
LEMMA ConditionsList ==
  ASSUME NEW c, DecisionsAreWellFormed(c)
  PROVE  LET C == Conditions(c)
             Q == AllQuals(c)
         IN  /\ DOMAIN C = 1 .. Len(C) /\ Len(C) \in Nat
             /\ \A i \in 1 .. Len(Q) : \E k \in 1 .. Len(C) : C[k] = Condition(Q[i])
             /\ \A k \in 1 .. Len(C) : C[k][1] \in Range(QualifierTypes) /\ C[k][2] \in Values
<1>1. PICK U :
           /\ \A q \in U : IsQualifier(q)
           /\ AllQuals(c) \in [1 .. Len(AllQuals(c)) -> U] /\ Len(AllQuals(c)) \in Nat
  BY QualifierLists
<1>2. PICK Q : Q = AllQuals(c)
  OBVIOUS
<1>3. PICK n \in Nat : n = Len(Q)
  BY <1>1, <1>2
<1>4. PICK r : r = [i \in DOMAIN Q |-> Condition(Q[i])]
  OBVIOUS
<1>5. PICK T : T = {Condition(q) : q \in U}
  OBVIOUS
<1>6. r \in [1 .. n -> T] /\ (\A i \in 1 .. n : r[i] = Condition(Q[i]) /\ Q[i] \in U)
  BY <1>1, <1>2, <1>3, <1>4, <1>5
<1>7. PICK C : C = Distinct(r)
  OBVIOUS
<1>8. /\ C \in Seq(T)
      /\ \A i \in 1 .. n : \E k \in 1 .. Len(C) : C[k] = r[i]
  <2>1. r \in [1 .. n -> T]
    BY <1>6
  <2>2. Reduces(T, n, r, C)
    BY <2>1, <1>7, DistinctList
  <2>3. QED
    BY <2>2 DEF Reduces
<1>9. Conditions(c) = C
  BY <1>2, <1>4, <1>7 DEF Conditions
<1>10. \A t \in T : t[1] \in Range(QualifierTypes) /\ t[2] \in Values
  <2>1. \A q \in U : Condition(q)[1] = q.type /\ Condition(q)[2] = q.value
    BY DEF Condition
  <2>2. QED
    BY <1>1, <1>5, <2>1, QualifierParts
<1>11. QED
  BY <1>2, <1>3, <1>6, <1>8, <1>9, <1>10

\* A qualifier type is found in the list of types at the index written.
LEMMA QualifierTypeIndex ==
  ASSUME NEW t \in Range(QualifierTypes)
  PROVE  /\ IndexIn(QualifierTypes, t) \in Nat /\ IndexIn(QualifierTypes, t) < Len(QualifierTypes)
         /\ QualifierTypes[IndexIn(QualifierTypes, t) + 1] = t
<1>1. PICK s : s = QualifierTypes
  OBVIOUS
<1>2. DOMAIN s = 1 .. 12 /\ Len(s) = 12
  BY <1>1 DEF QualifierTypes
<1>3. \E k \in 1 .. 12 : s[k] = t
  BY <1>1, <1>2 DEF Range
<1>4. IndexIn(s, t) \in Nat /\ IndexIn(s, t) + 1 \in 1 .. 12 /\ s[IndexIn(s, t) + 1] = t
  <2>1. Has(12, s, t)
    BY <1>2, <1>3 DEF Has
  <2>2. QED
    BY <2>1, IndexInDef
<1>5. QED
  BY <1>1, <1>2, <1>4

\* A decision section is its header and its tables, in order.
LEMMA DecisionPiecesDef ==
  ASSUME NEW c, DecisionsAreWellFormed(c)
  PROVE  WriteDecisions(c) = LET p == DecisionPieces(c)
                             IN  p[1] \o p[2] \o p[3] \o p[4] \o p[5] \o p[6] \o p[7] \o p[8]
<1> DEFINE before(s, i) == TotalOf([j \in 1 .. i - 1 |-> Len(s[j])])
           D == c.decisions
           S == AllSets(c)
           Q == AllQuals(c)
           C == Conditions(c)
           p1 == <<U16(Len(C)), U16(Len(Q)), U16(Len(S)), U16(Len(D)), U16(Len(S) + Len(Q)),
                   U16((Chars + 1) * Len(C))>>
           p2 == Each(Upto(D), LAMBDA i : <<U16(before(D, i)), U16(Len(D[i]))>>)
           p3 == Each(Upto(S), LAMBDA i : <<U16(Len(S) + before(S, i)), U16(Len(S[i]))>>)
           p4 == Each(Q, LAMBDA q : <<U16(IndexIn(C, Condition(q))), U16(q.priority),
                                      U16(q.fallback_score), U16(0)>>)
           p5 == Each(Upto(C), LAMBDA i : <<U16(0), U16(IndexIn(QualifierTypes, C[i][1])), U16(0),
                                            U16(0), U32((Chars + 1) * (i - 1))>>)
           p6 == Each(Upto(S), LAMBDA i : <<U16(i - 1)>>)
           p7 == Each(Upto(Q), LAMBDA i : <<U16(i - 1)>>)
           p8 == TextBlock([i \in DOMAIN C |-> C[i][2]], 2)
<1>1. WriteDecisions(c) = p1 \o p2 \o p3 \o p4 \o p5 \o p6 \o p7 \o p8
  BY ONLY Zenon DEF WriteDecisions
<1>2. PICK U :
           /\ D \in [1 .. Len(D) -> Seq(Seq(U))] /\ Len(D) \in Nat
           /\ S \in [1 .. Len(S) -> Seq(U)] /\ Len(S) \in Nat
           /\ Q \in [1 .. Len(Q) -> U] /\ Len(Q) \in Nat
  BY QualifierLists
<1>3. DOMAIN C = 1 .. Len(C) /\ DOMAIN D = 1 .. Len(D) /\ DOMAIN S = 1 .. Len(S) /\ DOMAIN Q = 1 .. Len(Q)
  BY <1>2, ConditionsList
<1>4. /\ \A i \in DOMAIN D : before(D, i) = Before(D)[i]
      /\ \A i \in DOMAIN S : before(S, i) = Before(S)[i]
  <2>1. PICK d, s, nd, ns : d = D /\ s = S /\ nd = Len(d) /\ ns = Len(s)
    OBVIOUS
  <2>2. d \in [1 .. nd -> Seq(Seq(U))] /\ nd \in Nat /\ s \in [1 .. ns -> Seq(U)] /\ ns \in Nat
    BY <1>2, <2>1
  <2>3. \A i \in 1 .. nd : TotalOf([j \in 1 .. i - 1 |-> Len(d[j])]) = Sums(Lengths(d))[i - 1]
    BY <2>2, CountBefore
  <2>4. \A i \in 1 .. ns : TotalOf([j \in 1 .. i - 1 |-> Len(s[j])]) = Sums(Lengths(s))[i - 1]
    BY <2>2, CountBefore
  <2>5. (\A i \in DOMAIN d : Before(d)[i] = Sums(Lengths(d))[i - 1])
        /\ \A i \in DOMAIN s : Before(s)[i] = Sums(Lengths(s))[i - 1]
    BY DEF Before
  <2>6. DOMAIN d = 1 .. nd /\ DOMAIN s = 1 .. ns
    BY <2>2
  <2>7. QED
    BY <2>1, <2>3, <2>4, <2>5, <2>6
<1> HIDE DEF D, S, Q, C, before
<1>5. p2 = Couples(Len(D), 2, Before(D), Lengths(D))
  BY <1>3, <1>4 DEF Each, Upto, Couples, U16, Lengths
<1>6. p3 = Couples(Len(S), 2, [i \in DOMAIN S |-> Len(S) + Before(S)[i]], Lengths(S))
  BY <1>3, <1>4 DEF Each, Upto, Couples, U16, Lengths
<1>7. p4 = FlattenSeq([i \in 1 .. Len(Q) |-> QualifierRow(c, i)])
  BY <1>3 DEF Each, QualifierRow, Q, C
<1>8. p5 = FlattenSeq([i \in 1 .. Len(C) |-> ConditionRow(c, i)])
  BY <1>3 DEF Each, Upto, ConditionRow, C
<1>9. p6 = Singles(Len(S), 2, [i \in 1 .. Len(S) |-> i - 1])
  BY <1>3 DEF Each, Upto, Singles, U16
<1>10. p7 = Singles(Len(Q), 2, [i \in 1 .. Len(Q) |-> i - 1])
  BY <1>3 DEF Each, Upto, Singles, U16
<1> HIDE DEF p1, p2, p3, p4, p5, p6, p7, p8
<1>11. DecisionPieces(c) = <<p1, p2, p3, p4, p5, p6, p7, p8>>
  BY ONLY <1>5, <1>6, <1>7, <1>8, <1>9, <1>10, Zenon DEF DecisionPieces, p1, p8, D, S, Q, C
<1>12. PICK p : p = DecisionPieces(c)
  OBVIOUS
<1>13. p[1] = p1 /\ p[2] = p2 /\ p[3] = p3 /\ p[4] = p4 /\ p[5] = p5 /\ p[6] = p6 /\ p[7] = p7
       /\ p[8] = p8
  BY ONLY <1>11, <1>12
<1>14. QED
  BY ONLY <1>1, <1>12, <1>13, Zenon

\* What each piece of a decision section takes.
LEMMA DecisionPiecesWritten ==
  ASSUME NEW c, DecisionsAreWellFormed(c)
  PROVE  LET p == DecisionPieces(c)
             D == Len(c.decisions)
             S == Len(AllSets(c))
             Q == Len(AllQuals(c))
             C == Len(Conditions(c))
         IN  /\ p \in [1 .. 8 -> Written]
             /\ D \in Nat /\ S \in Nat /\ Q \in Nat /\ C \in Nat
             /\ SizeOf(p[1]) = 12 /\ SizeOf(p[2]) = D * 4 /\ SizeOf(p[3]) = S * 4
             /\ SizeOf(p[4]) = Q * 8 /\ SizeOf(p[5]) = C * 12 /\ SizeOf(p[6]) = S * 2
             /\ SizeOf(p[7]) = Q * 2 /\ SizeOf(p[8]) = C * 10
<1> DEFINE D == c.decisions
           S == AllSets(c)
           Q == AllQuals(c)
           C == Conditions(c)
<1>1. PICK U :
           /\ \A q \in U : IsQualifier(q)
           /\ D \in [1 .. Len(D) -> Seq(Seq(U))] /\ Len(D) \in Nat
           /\ S \in [1 .. Len(S) -> Seq(U)] /\ Len(S) \in Nat
           /\ Q \in [1 .. Len(Q) -> U] /\ Len(Q) \in Nat
  BY QualifierLists
<1>2. /\ DOMAIN C = 1 .. Len(C) /\ Len(C) \in Nat
      /\ \A i \in 1 .. Len(Q) : \E k \in 1 .. Len(C) : C[k] = Condition(Q[i])
      /\ \A k \in 1 .. Len(C) : C[k][1] \in Range(QualifierTypes) /\ C[k][2] \in Values
  BY ConditionsList
<1> HIDE DEF D, S, Q, C
<1>3. Int \subseteq Values
  BY DEF Values
<1>4. ASSUME NEW T, NEW n \in Nat, NEW ss \in [1 .. n -> Seq(T)]
      PROVE  Before(ss) \in [1 .. n -> Int] /\ Lengths(ss) \in [1 .. n -> Int]
  <2>1. Lengths(ss) \in [1 .. n -> Nat]
    BY FlattenParts
  <2>2. Sums(Lengths(ss)) \in [0 .. n -> Nat]
    BY <2>1, SumsRise
  <2>3. \A i \in 1 .. n : i - 1 \in 0 .. n
    OBVIOUS
  <2>4. QED
    BY <2>1, <2>2, <2>3 DEF Before
<1>5. /\ Before(D) \in [1 .. Len(D) -> Int] /\ Lengths(D) \in [1 .. Len(D) -> Int]
      /\ Before(S) \in [1 .. Len(S) -> Int] /\ Lengths(S) \in [1 .. Len(S) -> Int]
  <2>1. PICK d, s, nd, ns, V : d = D /\ s = S /\ nd = Len(d) /\ ns = Len(s) /\ V = Seq(U)
    OBVIOUS
  <2>2. d \in [1 .. nd -> Seq(V)] /\ nd \in Nat /\ s \in [1 .. ns -> Seq(U)] /\ ns \in Nat
    BY <1>1, <2>1
  <2>3. QED
    BY <1>4, <2>1, <2>2
<1> DEFINE p1 == <<U16(Len(C)), U16(Len(Q)), U16(Len(S)), U16(Len(D)), U16(Len(S) + Len(Q)),
                   U16((Chars + 1) * Len(C))>>
           p2 == Couples(Len(D), 2, Before(D), Lengths(D))
           p3 == Couples(Len(S), 2, [i \in DOMAIN S |-> Len(S) + Before(S)[i]], Lengths(S))
           p4 == FlattenSeq([i \in 1 .. Len(Q) |-> QualifierRow(c, i)])
           p5 == FlattenSeq([i \in 1 .. Len(C) |-> ConditionRow(c, i)])
           p6 == Singles(Len(S), 2, [i \in 1 .. Len(S) |-> i - 1])
           p7 == Singles(Len(Q), 2, [i \in 1 .. Len(Q) |-> i - 1])
           p8 == TextBlock([i \in DOMAIN C |-> C[i][2]], 2)
<1>p1. p1 \in Written /\ SizeOf(p1) = 12
  <2>1. PICK a, b, d, e, f, g :
          /\ a = Len(C) /\ b = Len(Q) /\ d = Len(S) /\ e = Len(D) /\ f = Len(S) + Len(Q)
          /\ g = (Chars + 1) * Len(C)
    OBVIOUS
  <2>2. /\ a \in Values /\ b \in Values /\ d \in Values /\ e \in Values /\ f \in Values /\ g \in Values
    BY <1>1, <1>2, <1>3, <2>1 DEF Chars
  <2>3. PICK s : s = p1
    OBVIOUS
  <2>4. s = << <<a, 2>>, <<b, 2>>, <<d, 2>>, <<e, 2>>, <<f, 2>>, <<g, 2>> >>
    BY <2>1, <2>3 DEF U16
  <2>5. s \in Written /\ Widths(s) = <<2, 2, 2, 2, 2, 2>>
    BY <2>2, <2>4 DEF Written, Widths
  <2>6. QED
    BY <2>3, <2>5, DecisionInfoHeaderRead
<1>p2. p2 \in Written /\ SizeOf(p2) = Len(D) * 4
  <2>0. PICK n, f, g : n = Len(D) /\ f = Before(D) /\ g = Lengths(D)
    OBVIOUS
  <2>a. n \in Nat /\ f \in [1 .. n -> Int] /\ g \in [1 .. n -> Int]
    BY <1>1, <1>5, <2>0
  <2>b. Column(n, f) /\ Column(n, g)
    BY <1>3, <2>a DEF Column
  <2>1. Column(Len(D), Before(D)) /\ Column(Len(D), Lengths(D))
    BY <2>0, <2>b
  <2>2. p2 \in Written /\ SizeOf(p2) = Len(D) * (2 * 2)
    BY <2>1, CoupleTable, TwoIsPositive
  <2>3. QED
    BY <2>2
<1>p3. p3 \in Written /\ SizeOf(p3) = Len(S) * 4
  <2>1. PICK f : f = [i \in DOMAIN S |-> Len(S) + Before(S)[i]]
    OBVIOUS
  <2>2. Column(Len(S), f) /\ Column(Len(S), Lengths(S))
    BY <1>1, <1>3, <1>5, <2>1 DEF Column
  <2>3. p3 \in Written /\ SizeOf(p3) = Len(S) * (2 * 2)
    BY <2>1, <2>2, CoupleTable, TwoIsPositive
  <2>4. QED
    BY <2>3
<1>p4. p4 \in Written /\ SizeOf(p4) = Len(Q) * 8
  <2>1. ASSUME NEW i \in 1 .. Len(Q)
        PROVE  QualifierRow(c, i) \in Written /\ SizeOf(QualifierRow(c, i)) = 8
    <3>1. PICK q : q = Q[i] /\ q \in U
      BY <1>1
    <3>2. q.priority \in Nat /\ q.fallback_score \in Nat
      BY <3>1, <1>1, QualifierParts
    <3>3. IndexIn(C, Condition(q)) \in Nat
      <4>1. Has(Len(C), C, Condition(q))
        BY <1>2, <3>1 DEF Has
      <4>2. QED
        BY <4>1, IndexInDef
    <3>4. PICK x, y, z : x = IndexIn(C, Condition(q)) /\ y = q.priority /\ z = q.fallback_score
      OBVIOUS
    <3>5. x \in Values /\ y \in Values /\ z \in Values /\ 0 \in Values
      BY <3>2, <3>3, <3>4, <1>3
    <3>6. PICK s : s = QualifierRow(c, i)
      OBVIOUS
    <3>7. s = << <<x, 2>>, <<y, 2>>, <<z, 2>>, <<0, 2>> >>
      BY <3>1, <3>4, <3>6 DEF QualifierRow, U16, C, Q
    <3>8. s \in Written /\ Widths(s) = <<2, 2, 2, 2>>
      BY <3>5, <3>7 DEF Written, Widths
    <3>9. QED
      BY <3>6, <3>8, QualifierEntryRead
  <2>2. PICK r : r = [i \in 1 .. Len(Q) |-> QualifierRow(c, i)]
    OBVIOUS
  <2>3. r \in [1 .. Len(Q) -> Written] /\ \A i \in 1 .. Len(Q) : SizeOf(r[i]) = 8
    BY <2>1, <2>2
  <2>4. QED
    BY <2>2, <2>3, <1>1, EachWritten
<1>p5. p5 \in Written /\ SizeOf(p5) = Len(C) * 12
  <2>1. ASSUME NEW i \in 1 .. Len(C)
        PROVE  ConditionRow(c, i) \in Written /\ SizeOf(ConditionRow(c, i)) = 12
    <3>1. IndexIn(QualifierTypes, C[i][1]) \in Nat
      BY <1>2, QualifierTypeIndex
    <3>2. PICK x, y : x = IndexIn(QualifierTypes, C[i][1]) /\ y = (Chars + 1) * (i - 1)
      OBVIOUS
    <3>3. x \in Values /\ y \in Values /\ 0 \in Values
      BY <3>1, <3>2, <1>3 DEF Chars
    <3>4. PICK s : s = ConditionRow(c, i)
      OBVIOUS
    <3>5. s = << <<0, 2>>, <<x, 2>>, <<0, 2>>, <<0, 2>>, <<y, 4>> >>
      BY <3>2, <3>4 DEF ConditionRow, U16, U32, C
    <3>6. s \in Written /\ Widths(s) = <<2, 2, 2, 2, 4>>
      BY <3>3, <3>5 DEF Written, Widths
    <3>7. QED
      BY <3>4, <3>6, DistinctQualifierEntryRead
  <2>2. PICK r : r = [i \in 1 .. Len(C) |-> ConditionRow(c, i)]
    OBVIOUS
  <2>3. r \in [1 .. Len(C) -> Written] /\ \A i \in 1 .. Len(C) : SizeOf(r[i]) = 12
    BY <2>1, <2>2
  <2>4. QED
    BY <2>2, <2>3, <1>2, EachWritten
<1>p6. p6 \in Written /\ SizeOf(p6) = Len(S) * 2
  <2>1. PICK f : f = [i \in 1 .. Len(S) |-> i - 1]
    OBVIOUS
  <2>2. Column(Len(S), f)
    BY <1>1, <1>3, <2>1 DEF Column
  <2>3. QED
    BY <2>1, <2>2, SingleTable, TwoIsPositive
<1>p7. p7 \in Written /\ SizeOf(p7) = Len(Q) * 2
  <2>1. PICK f : f = [i \in 1 .. Len(Q) |-> i - 1]
    OBVIOUS
  <2>2. Column(Len(Q), f)
    BY <1>1, <1>3, <2>1 DEF Column
  <2>3. QED
    BY <2>1, <2>2, SingleTable, TwoIsPositive
<1>p8. p8 \in Written /\ SizeOf(p8) = Len(C) * 10
  <2>1. PICK f : f = [i \in DOMAIN C |-> C[i][2]]
    OBVIOUS
  <2>2. f \in [1 .. Len(C) -> Values]
    BY <1>2, <2>1
  <2>3. p8 \in Written /\ SizeOf(p8) = Len(C) * (2 * (Chars + 1))
    BY <2>1, <2>2, <1>2, TextBlockWritten
  <2>4. QED
    BY <2>3 DEF Chars
<1> HIDE DEF p1, p2, p3, p4, p5, p6, p7, p8
<1>6. DecisionPieces(c) = <<p1, p2, p3, p4, p5, p6, p7, p8>>
  BY ONLY Zenon DEF DecisionPieces, p1, p2, p3, p4, p5, p6, p7, p8, D, S, Q, C
<1>7. PICK p : p = DecisionPieces(c)
  OBVIOUS
<1>8. /\ p \in [1 .. 8 -> Written]
      /\ p[1] = p1 /\ p[2] = p2 /\ p[3] = p3 /\ p[4] = p4 /\ p[5] = p5 /\ p[6] = p6 /\ p[7] = p7
      /\ p[8] = p8
  BY <1>6, <1>7, <1>p1, <1>p2, <1>p3, <1>p4, <1>p5, <1>p6, <1>p7, <1>p8
<1>9. QED
  BY ONLY <1>1, <1>2, <1>7, <1>8, <1>p1, <1>p2, <1>p3, <1>p4, <1>p5, <1>p6, <1>p7, <1>p8
     DEF D, S, Q, C

\* Where each piece of a decision section lies.
LEMMA DecisionsLaid ==
  ASSUME NEW c, DecisionsAreWellFormed(c)
  PROVE  LET p == DecisionPieces(c)
             D == Len(c.decisions)
             S == Len(AllSets(c))
             Q == Len(AllQuals(c))
             C == Len(Conditions(c))
         IN  /\ WriteDecisions(c) \in Written
             /\ SizeOf(WriteDecisions(c)) = 12 + D * 4 + S * 4 + Q * 8 + C * 12 + (S + Q) * 2 + C * 10
             /\ \A at, o : o \in Nat /\ Laid(at, o, WriteDecisions(c)) =>
                  /\ Laid(at, o, p[1])
                  /\ Laid(at, o + 12, p[2])
                  /\ Laid(at, o + 12 + D * 4, p[3])
                  /\ Laid(at, o + 12 + D * 4 + S * 4, p[4])
                  /\ Laid(at, o + 12 + D * 4 + S * 4 + Q * 8, p[5])
                  /\ Laid(at, o + 12 + D * 4 + S * 4 + Q * 8 + C * 12, p[6])
                  /\ Laid(at, o + 12 + D * 4 + S * 4 + Q * 8 + C * 12 + S * 2, p[7])
                  /\ Laid(at, o + 12 + D * 4 + S * 4 + Q * 8 + C * 12 + S * 2 + Q * 2, p[8])
<1>1. PICK p : p = DecisionPieces(c)
  OBVIOUS
<1>2. PICK D, S, Q, C : /\ D = Len(c.decisions) /\ S = Len(AllSets(c)) /\ Q = Len(AllQuals(c))
                        /\ C = Len(Conditions(c))
  OBVIOUS
<1>3. /\ p \in [1 .. 8 -> Written]
      /\ D \in Nat /\ S \in Nat /\ Q \in Nat /\ C \in Nat
      /\ SizeOf(p[1]) = 12 /\ SizeOf(p[2]) = D * 4 /\ SizeOf(p[3]) = S * 4
      /\ SizeOf(p[4]) = Q * 8 /\ SizeOf(p[5]) = C * 12 /\ SizeOf(p[6]) = S * 2
      /\ SizeOf(p[7]) = Q * 2 /\ SizeOf(p[8]) = C * 10
  BY <1>1, <1>2, DecisionPiecesWritten
<1>4. PICK n : n = 8
  OBVIOUS
<1>5. FlattenSeq(p) \in Written /\ p \in [1 .. n -> Fields] /\ p \in [1 .. n -> Written]
  <2>1. n \in Nat /\ p \in [1 .. n -> Written]
    BY <1>3, <1>4
  <2>2. QED
    BY <2>1, WrittenFlatten
<1>6. PICK w : w = Sizes(p)
  OBVIOUS
<1>7. /\ w \in [1 .. n -> Nat]
      /\ SizeOf(FlattenSeq(p)) = Sums(w)[n]
      /\ \A at, o : o \in Nat /\ Laid(at, o, FlattenSeq(p)) =>
           \A i \in 1 .. n : Laid(at, o + Sums(w)[i - 1], p[i])
  <2>1. n \in Nat
    BY <1>4
  <2>2. QED
    BY <2>1, <1>5, <1>6, LaidFlatten
<1>8. \A i \in 1 .. n : w[i] = SizeOf(p[i])
  BY <1>5, <1>6 DEF Sizes
<1>9. /\ w[1] = 12 /\ w[2] = D * 4 /\ w[3] = S * 4 /\ w[4] = Q * 8
      /\ w[5] = C * 12 /\ w[6] = S * 2 /\ w[7] = Q * 2 /\ w[8] = C * 10
  BY <1>3, <1>4, <1>8
<1>10. WriteDecisions(c) = FlattenSeq(p)
  <2>1. Lists(Values \X (Nat \ {0}), n, p)
    BY <1>4, <1>5 DEF Lists, Written
  <2>2. FlattenSeq(p) = p[1] \o p[2] \o p[3] \o p[4] \o p[5] \o p[6] \o p[7] \o p[8]
    BY <2>1, <1>4, FlattenOfFew
  <2>3. WriteDecisions(c) = p[1] \o p[2] \o p[3] \o p[4] \o p[5] \o p[6] \o p[7] \o p[8]
    BY <1>1, DecisionPiecesDef, Zenon
  <2>4. QED
    BY ONLY <2>2, <2>3, Zenon
<1>11. PICK t : t = Sums(w)
  OBVIOUS
<1>12. /\ t[0] = 0 /\ t[1] = 12 /\ t[2] = 12 + D * 4 /\ t[3] = 12 + D * 4 + S * 4
       /\ t[4] = 12 + D * 4 + S * 4 + Q * 8 /\ t[5] = 12 + D * 4 + S * 4 + Q * 8 + C * 12
       /\ t[6] = 12 + D * 4 + S * 4 + Q * 8 + C * 12 + S * 2
       /\ t[7] = 12 + D * 4 + S * 4 + Q * 8 + C * 12 + S * 2 + Q * 2
       /\ t[8] = 12 + D * 4 + S * 4 + Q * 8 + C * 12 + S * 2 + Q * 2 + C * 10
  <2>1. Numbers(n, w)
    BY <1>4, <1>7 DEF Numbers
  <2>2. /\ t[1] = w[1] /\ t[2] = w[1] + w[2] /\ t[3] = w[1] + w[2] + w[3]
        /\ t[4] = w[1] + w[2] + w[3] + w[4] /\ t[5] = w[1] + w[2] + w[3] + w[4] + w[5]
        /\ t[6] = w[1] + w[2] + w[3] + w[4] + w[5] + w[6]
        /\ t[7] = w[1] + w[2] + w[3] + w[4] + w[5] + w[6] + w[7]
        /\ t[8] = w[1] + w[2] + w[3] + w[4] + w[5] + w[6] + w[7] + w[8]
    BY <2>1, <1>4, <1>11, SumsOfFew
  <2>3. t[0] = 0
    <3>1. n \in Nat /\ w \in [1 .. n -> Int]
      BY <1>4, <1>7
    <3>2. QED
      BY <3>1, <1>11, SumsDef
  <2>4. QED
    BY ONLY <2>2, <2>3, <1>9
<1>13. SizeOf(WriteDecisions(c)) = 12 + D * 4 + S * 4 + Q * 8 + C * 12 + (S + Q) * 2 + C * 10
  BY ONLY <1>3, <1>4, <1>7, <1>10, <1>11, <1>12
<1>14. ASSUME NEW at, NEW o \in Nat, Laid(at, o, WriteDecisions(c))
       PROVE  /\ Laid(at, o, p[1])
              /\ Laid(at, o + 12, p[2])
              /\ Laid(at, o + 12 + D * 4, p[3])
              /\ Laid(at, o + 12 + D * 4 + S * 4, p[4])
              /\ Laid(at, o + 12 + D * 4 + S * 4 + Q * 8, p[5])
              /\ Laid(at, o + 12 + D * 4 + S * 4 + Q * 8 + C * 12, p[6])
              /\ Laid(at, o + 12 + D * 4 + S * 4 + Q * 8 + C * 12 + S * 2, p[7])
              /\ Laid(at, o + 12 + D * 4 + S * 4 + Q * 8 + C * 12 + S * 2 + Q * 2, p[8])
  <2>1. \A i \in 1 .. n : Laid(at, o + t[i - 1], p[i])
    BY <1>14, <1>7, <1>10, <1>11
  <2>2. /\ Laid(at, o + t[0], p[1]) /\ Laid(at, o + t[1], p[2]) /\ Laid(at, o + t[2], p[3])
        /\ Laid(at, o + t[3], p[4]) /\ Laid(at, o + t[4], p[5]) /\ Laid(at, o + t[5], p[6])
        /\ Laid(at, o + t[6], p[7]) /\ Laid(at, o + t[7], p[8])
    BY <2>1, <1>4
  <2>3. /\ o + t[0] = o /\ o + t[1] = o + 12 /\ o + t[2] = o + 12 + D * 4
        /\ o + t[3] = o + 12 + D * 4 + S * 4 /\ o + t[4] = o + 12 + D * 4 + S * 4 + Q * 8
        /\ o + t[5] = o + 12 + D * 4 + S * 4 + Q * 8 + C * 12
        /\ o + t[6] = o + 12 + D * 4 + S * 4 + Q * 8 + C * 12 + S * 2
        /\ o + t[7] = o + 12 + D * 4 + S * 4 + Q * 8 + C * 12 + S * 2 + Q * 2
    BY ONLY <1>3, <1>12, <1>14
  <2>4. QED
    BY ONLY <2>2, <2>3, Zenon
<1>15. WriteDecisions(c) \in Written
  BY <1>5, <1>10
<1>16. QED
  BY ONLY <1>1, <1>2, <1>13, <1>14, <1>15

\* An index table that lists, from some place on, all elements of a table one
\* after another.
Lists1(idx, off, m) == /\ off \in Nat /\ m \in Nat /\ Len(idx) \in Nat /\ off + m <= Len(idx)
                       /\ \A k \in 1 .. m : idx[off + k] = k - 1

\* Lists written one after another are resolved by their starts and lengths.
LEMMA ResolveParts ==
  ASSUME NEW U, NEW n \in Nat, NEW ss \in [1 .. n -> Seq(U)],
         NEW idx, NEW off, Lists1(idx, off, Len(FlattenSeq(ss))),
         NEW i \in 1 .. n
  PROVE  /\ \A table : Len(table) = Len(FlattenSeq(ss)) =>
                          Whole(idx, off + Before(ss)[i], Lengths(ss)[i], table)
         /\ ResolveRange(idx, off + Before(ss)[i], Lengths(ss)[i], FlattenSeq(ss)) = ss[i]
<1>1. PICK t : t = FlattenSeq(ss)
  OBVIOUS
<1>2. PICK sums, w : w = Lengths(ss) /\ sums = Sums(w)
  OBVIOUS
<1>3. /\ t \in Seq(U) /\ w \in [1 .. n -> Nat] /\ Len(t) = sums[n]
      /\ \A j \in 1 .. Len(ss[i]) : sums[i - 1] + j \in 1 .. Len(t) /\ t[sums[i - 1] + j] = ss[i][j]
  <2>1. /\ FlattenSeq(ss) \in Seq(U)
        /\ Lengths(ss) \in [1 .. n -> Nat]
        /\ Len(FlattenSeq(ss)) = Sums(Lengths(ss))[n]
        /\ \A j \in 1 .. Len(ss[i]) :
             /\ Sums(Lengths(ss))[i - 1] + j \in 1 .. Len(FlattenSeq(ss))
             /\ FlattenSeq(ss)[Sums(Lengths(ss))[i - 1] + j] = ss[i][j]
    BY FlattenParts
  <2>2. QED
    BY ONLY <1>1, <1>2, <2>1, Zenon
<1>4. /\ sums \in [0 .. n -> Nat] /\ \A k, l \in 0 .. n : k <= l => sums[k] <= sums[l]
  BY <1>2, <1>3, SumsRise
<1>5. sums[i] = sums[i - 1] + w[i]
  <2>1. w \in [1 .. n -> Int]
    BY <1>3
  <2>2. QED
    BY <2>1, <1>2, SumsDef
<1>6. w[i] = Len(ss[i]) /\ ss[i] \in Seq(U)
  BY <1>2 DEF Lengths
<1>7. PICK b, l : b = sums[i - 1] /\ l = w[i]
  OBVIOUS
<1>8. Before(ss)[i] = b
  BY <1>2, <1>7 DEF Before
<1>9. b \in Nat /\ l \in Nat /\ b + l <= Len(t)
  <2>1. i - 1 \in 0 .. n /\ i \in 0 .. n /\ n \in 0 .. n /\ i <= n
    OBVIOUS
  <2>2. sums[i] <= sums[n]
    BY <2>1, <1>4
  <2>3. sums[i - 1] \in Nat /\ w[i] \in Nat
    BY <2>1, <1>3, <1>4
  <2>4. QED
    BY <2>2, <2>3, <1>3, <1>5, <1>7
<1>10. /\ off \in Nat /\ Len(idx) \in Nat /\ off + Len(t) <= Len(idx)
       /\ \A k \in 1 .. Len(t) : idx[off + k] = k - 1
  BY <1>1 DEF Lists1
<1>11. Len(t) \in Nat
  BY <1>3
<1>12. ASSUME NEW table, Len(table) = Len(t)
       PROVE  Whole(idx, off + b, l, table)
  <2>1. off + b + l <= Len(idx)
    BY <1>9, <1>10, <1>11
  <2>2. ASSUME NEW k \in off + b + 1 .. off + b + l PROVE idx[k] < Len(table)
    <3>1. PICK m : m = k - off
      OBVIOUS
    <3>2. m \in 1 .. Len(t) /\ off + m = k /\ m - 1 < Len(t) /\ m \in Int
      BY <3>1, <1>9, <1>10, <1>11
    <3>3. idx[off + m] = m - 1
      BY <3>2, <1>10
    <3>4. QED
      BY <3>2, <3>3, <1>12
  <2>3. QED
    BY <2>1, <2>2 DEF Whole
<1>13. ResolveRange(idx, off + b, l, t) = ss[i]
  <2>1. ASSUME NEW j \in 1 .. l PROVE t[idx[off + b + j] + 1] = ss[i][j]
    <3>1. PICK m : m = b + j
      OBVIOUS
    <3>2. m \in 1 .. Len(t) /\ t[m] = ss[i][j] /\ m \in Int
      BY <3>1, <1>3, <1>6, <1>7
    <3>3. idx[off + m] = m - 1
      BY <3>2, <1>10
    <3>4. off + b + j = off + m /\ m - 1 + 1 = m
      BY <3>1, <3>2, <1>9, <1>10
    <3>5. QED
      BY <3>2, <3>3, <3>4
  <2>2. ss[i] = [j \in 1 .. l |-> ss[i][j]]
    BY <1>6, <1>7
  <2>3. ResolveRange(idx, off + b, l, t) = [j \in 1 .. l |-> t[idx[off + b + j] + 1]]
    BY DEF ResolveRange
  <2>4. QED
    BY <2>1, <2>2, <2>3
<1>14. QED
  BY <1>1, <1>2, <1>7, <1>8, <1>12, <1>13

\* A text of a block of them reads back, by its length and by its terminator.
LEMMA TextsRead ==
  ASSUME NEW n \in Nat, NEW texts \in [1 .. n -> Values], NEW k \in {1, 2},
         NEW block, block.base \in Nat, block.len = n * (k * (Chars + 1)),
         Laid(file.at, block.base, TextBlock(texts, k)), NEW i \in 1 .. n
  PROVE  /\ DecodeZ(block, (Chars + 1) * (i - 1), k) = texts[i]
         /\ DecodeAt(block, (Chars + 1) * (i - 1), Chars, k) = texts[i]
<1>1. PICK b, l, at : b = block.base /\ l = block.len /\ at = file.at
  OBVIOUS
<1>2. b \in Nat /\ l = n * (k * 5)
  BY <1>1 DEF Chars
<1>3. PICK p : p = b + (i - 1) * (k * (Chars + 1))
  OBVIOUS
<1>4. /\ p \in DOMAIN at /\ at[p] = <<texts[i], k * Chars>>
      /\ p + Chars * k \in DOMAIN at /\ at[p + Chars * k] = <<0, k>>
  <2>1. \A a, o : o \in Nat /\ Laid(a, o, TextBlock(texts, k)) =>
          \A j \in 1 .. n : LET q == o + (j - 1) * (k * (Chars + 1)) IN
            /\ q \in DOMAIN a /\ a[q] = <<texts[j], k * Chars>>
            /\ q + Chars * k \in DOMAIN a /\ a[q + Chars * k] = <<0, k>>
    BY TextBlockWritten
  <2>2. Laid(at, b, TextBlock(texts, k))
    BY <1>1
  <2>3. QED
    BY ONLY <2>1, <2>2, <1>2, <1>3, i \in 1 .. n, Zenon
<1>5. PICK o : o = (Chars + 1) * (i - 1)
  OBVIOUS
<1>6. /\ b + o * k = p /\ b + (o + Chars) * k = p + Chars * k /\ Chars * k = k * Chars
      /\ o * k + Chars * k <= l /\ 5 * (i - 1) = o
  <2>1. CASE k = 1
    BY <2>1, <1>2, <1>3, <1>5 DEF Chars
  <2>2. CASE k = 2
    BY <2>2, <1>2, <1>3, <1>5 DEF Chars
  <2>3. QED
    BY <2>1, <2>2
<1>7. Field(p, Chars * k) = texts[i] /\ Field(p + Chars * k, k) = 0
  <2>1. PICK x, y : x = at[p] /\ y = at[p + Chars * k]
    OBVIOUS
  <2>2. x[1] = texts[i] /\ x[2] = Chars * k /\ y[1] = 0 /\ y[2] = k
    BY <1>4, <1>6, <2>1
  <2>3. QED
    BY <1>1, <1>4, <2>1, <2>2 DEF Field
<1>8. Fits(block, o * k, Chars * k)
  BY <1>1, <1>6 DEF Fits
<1>9. DecodeAt(block, o, Chars, k) = texts[i]
  <2>1. DecodeAt(block, o, Chars, k) = Field(block.base + o * k, Chars * k)
    BY <1>8, Zenon DEF DecodeAt
  <2>2. QED
    BY <2>1, <1>1, <1>6, <1>7
<1>10. DecodeZ(block, o, k) = DecodeAt(block, o, Chars, k)
  <2>1. Field(block.base + (o + Chars) * k, k) = 0
    BY <1>1, <1>6, <1>7
  <2>2. QED
    BY <2>1, Zenon DEF DecodeZ
<1>11. QED
  BY <1>5, <1>9, <1>10

\* The tables of a decision section, and their places.
DecisionTablesOf(D, S, Q, C) ==
  Struct(<<"header", "decisions", "sets", "qualifiers", "distinct", "index_table", "values">>,
         <<12, D * 4, S * 4, Q * 8, C * 12, (S + Q) * 2, 5 * C * 2>>)

DecisionPlaces(tables, D, S, Q, C) ==
  /\ tables.size = 12 + D * 4 + S * 4 + Q * 8 + C * 12 + (S + Q) * 2 + 5 * C * 2
  /\ tables.at["decisions"] = <<12, D * 4>>
  /\ tables.at["sets"] = <<12 + D * 4, S * 4>>
  /\ tables.at["qualifiers"] = <<12 + D * 4 + S * 4, Q * 8>>
  /\ tables.at["distinct"] = <<12 + D * 4 + S * 4 + Q * 8, C * 12>>
  /\ tables.at["index_table"] =
       <<12 + D * 4 + S * 4 + Q * 8 + C * 12, (S + Q) * 2>>
  /\ tables.at["values"] =
       <<12 + D * 4 + S * 4 + Q * 8 + C * 12 + (S + Q) * 2, 5 * C * 2>>

\* The places BuildDecisions computes for the tables from the counts.
LEMMA DecisionTables ==
  ASSUME NEW D \in Nat, NEW S \in Nat, NEW Q \in Nat, NEW C \in Nat, NEW tables,
         tables = DecisionTablesOf(D, S, Q, C)
  PROVE  DecisionPlaces(tables, D, S, Q, C)
<1>1. PICK n1, n2, n3, n4, n5, n6, n7 :
        /\ n1 = "header" /\ n2 = "decisions" /\ n3 = "sets" /\ n4 = "qualifiers"
        /\ n5 = "distinct" /\ n6 = "index_table" /\ n7 = "values"
  BY Zenon
<1>2. /\ n1 # n2 /\ n1 # n3 /\ n1 # n4 /\ n1 # n5 /\ n1 # n6 /\ n1 # n7 /\ n1 # Skip
      /\ n2 # n3 /\ n2 # n4 /\ n2 # n5 /\ n2 # n6 /\ n2 # n7 /\ n2 # Skip
      /\ n3 # n4 /\ n3 # n5 /\ n3 # n6 /\ n3 # n7 /\ n3 # Skip
      /\ n4 # n5 /\ n4 # n6 /\ n4 # n7 /\ n4 # Skip
      /\ n5 # n6 /\ n5 # n7 /\ n5 # Skip /\ n6 # n7 /\ n6 # Skip /\ n7 # Skip
  BY <1>1 DEF Skip
<1>3. PICK w2, w3, w4, w5, w6, w7 :
        /\ w2 = D * 4 /\ w3 = S * 4 /\ w4 = Q * 8 /\ w5 = C * 12 /\ w6 = (S + Q) * 2
        /\ w7 = 5 * C * 2
  OBVIOUS
<1>4. w2 \in Nat /\ w3 \in Nat /\ w4 \in Nat /\ w5 \in Nat /\ w6 \in Nat /\ w7 \in Nat
  BY <1>3
<1>5. PICK names, w : names = <<n1, n2, n3, n4, n5, n6, n7>> /\ w = <<12, w2, w3, w4, w5, w6, w7>>
  OBVIOUS
<1>6. PICK n \in Nat : n = 7
  OBVIOUS
<1>7. Record(n, names, w) /\ Numbers(n, w)
  BY <1>2, <1>4, <1>5, <1>6 DEF Record, Numbers
<1>8. tables = Struct(names, w)
  BY <1>1, <1>3, <1>5, Zenon DEF DecisionTablesOf
<1>9. PICK t : t = Sums(w)
  OBVIOUS
<1>10. /\ tables.size = t[n]
       /\ \A i \in 1 .. n : names[i] # Skip => tables.at[names[i]] = <<t[i - 1], w[i]>>
  BY <1>6, <1>7, <1>8, <1>9, StructDef
<1>11. /\ t[1] = 12 /\ t[2] = 12 + w2 /\ t[3] = 12 + w2 + w3 /\ t[4] = 12 + w2 + w3 + w4
       /\ t[5] = 12 + w2 + w3 + w4 + w5 /\ t[6] = 12 + w2 + w3 + w4 + w5 + w6
       /\ t[7] = 12 + w2 + w3 + w4 + w5 + w6 + w7
  BY <1>5, <1>6, <1>7, <1>9, SumsOfFew
<1>12. /\ tables.at[n2] = <<t[1], w2>> /\ tables.at[n3] = <<t[2], w3>>
       /\ tables.at[n4] = <<t[3], w4>> /\ tables.at[n5] = <<t[4], w5>>
       /\ tables.at[n6] = <<t[5], w6>> /\ tables.at[n7] = <<t[6], w7>>
  BY <1>2, <1>5, <1>6, <1>10
<1>13. tables.size = t[7]
  BY <1>6, <1>10
<1>14. QED
  BY ONLY <1>1, <1>3, <1>11, <1>12, <1>13, Zenon DEF DecisionPlaces

\* A row of the index table reads as its entry.
LEMMA IndexRow ==
  ASSUME NEW n, NEW f, Column(n, f), NEW o \in Nat,
         Laid(file.at, o, Singles(n, 2, f)), NEW i \in 1 .. n
  PROVE  Field(o + 2 * (i - 1), 2) = f[i]
<1>1. PICK k, at, p : k = 2 /\ at = file.at /\ p = o + 2 * (i - 1)
  OBVIOUS
<1>2. Positive(k)
  BY <1>1, TwoIsPositive
<1>3. Laid(at, o, Singles(n, k, f))
  BY <1>1
<1>4. p = o + (i - 1) * k
  BY <1>1
<1>5. p \in DOMAIN at /\ at[p] = <<f[i], k>>
  BY ONLY <1>2, <1>3, <1>4, Column(n, f), o \in Nat, i \in 1 .. n, SingleRow
<1>6. Field(p, k) = f[i]
  BY <1>1, <1>5 DEF Field
<1>7. QED
  BY <1>1, <1>6

\* The rows of the tables of decisions and sets read as first and count.
LEMMA DecisionEntriesRead ==
  ASSUME NEW n, NEW f, NEW g, Column(n, f), Column(n, g), NEW o \in Nat,
         Laid(file.at, o, Couples(n, 2, f, g)), NEW i \in 1 .. n
  PROVE  /\ Get(DecisionEntry, o + (i - 1) * 4).first_qualifier_set_index = f[i]
         /\ Get(DecisionEntry, o + (i - 1) * 4).number_of_qualifier_sets = g[i]
         /\ Get(QualifierSetEntry, o + (i - 1) * 4).first_qualifier_index = f[i]
         /\ Get(QualifierSetEntry, o + (i - 1) * 4).number_of_qualifiers = g[i]
<1>1. n \in Nat /\ f[i] \in Values /\ g[i] \in Values
  BY DEF Column
<1>2. PICK at : at = file.at
  OBVIOUS
<1>3. PICK p : p = o + (i - 1) * 4
  OBVIOUS
<1>4. p \in Nat /\ p = o + (i - 1) * (2 * 2)
  BY <1>1, <1>3
<1>5. PICK s : s = << <<f[i], 2>>, <<g[i], 2>> >>
  OBVIOUS
<1>6. Laid(at, p, s)
  <2>1. \A a, x : x \in Nat /\ Laid(a, x, Couples(n, 2, f, g)) =>
           \A j \in 1 .. n : Laid(a, x + (j - 1) * (2 * 2), << <<f[j], 2>>, <<g[j], 2>> >>)
    BY CoupleTable, TwoIsPositive
  <2>2. Laid(at, o, Couples(n, 2, f, g))
    BY <1>2
  <2>3. QED
    BY ONLY <2>1, <2>2, o \in Nat, i \in 1 .. n, <1>4, <1>5, Zenon
<1>7. s \in Written /\ Widths(s) = <<2, 2>> /\ s[1][1] = f[i] /\ s[2][1] = g[i]
  BY <1>1, <1>5 DEF Written, Widths
<1>8. Laid(file.at, p, s)
  BY <1>2, <1>6
<1>9. Get(DecisionEntry, p).first_qualifier_set_index = f[i]
      /\ Get(DecisionEntry, p).number_of_qualifier_sets = g[i]
  BY <1>4, <1>7, <1>8, DecisionEntryRead
<1>10. Get(QualifierSetEntry, p).first_qualifier_index = f[i]
       /\ Get(QualifierSetEntry, p).number_of_qualifiers = g[i]
  BY <1>4, <1>7, <1>8, QualifierSetEntryRead
<1>11. QED
  BY ONLY <1>3, <1>9, <1>10, Zenon

\* The tables of a decision section as they read back.
LEMMA DecisionRowsRead ==
  ASSUME NEW c, DecisionsAreWellFormed(c), NEW b \in Nat,
         Laid(file.at, b, WriteDecisions(c))
  PROVE  LET D == Len(c.decisions)
             S == Len(AllSets(c))
             Q == Len(AllQuals(c))
             C == Len(Conditions(c))
         IN  /\ Get(DecisionInfoHeader, b).number_of_distinct_qualifiers = C
             /\ Get(DecisionInfoHeader, b).number_of_qualifiers = Q
             /\ Get(DecisionInfoHeader, b).number_of_qualifier_sets = S
             /\ Get(DecisionInfoHeader, b).number_of_decisions = D
             /\ Get(DecisionInfoHeader, b).number_of_index_table_entries = S + Q
             /\ Get(DecisionInfoHeader, b).qualifier_value_block_length = 5 * C
             /\ \A i \in 1 .. D : LET r == Get(DecisionEntry, b + 12 + (i - 1) * 4) IN
                  /\ r.first_qualifier_set_index = Before(c.decisions)[i]
                  /\ r.number_of_qualifier_sets = Lengths(c.decisions)[i]
             /\ \A i \in 1 .. S : LET r == Get(QualifierSetEntry, b + (12 + D * 4) + (i - 1) * 4) IN
                  /\ r.first_qualifier_index = S + Before(AllSets(c))[i]
                  /\ r.number_of_qualifiers = Lengths(AllSets(c))[i]
             /\ \A i \in 1 .. Q :
                  LET r == Get(QualifierEntry, b + (12 + D * 4 + S * 4) + (i - 1) * 8) IN
                  /\ r.distinct_qualifier_index = IndexIn(Conditions(c), Condition(AllQuals(c)[i]))
                  /\ r.priority = AllQuals(c)[i].priority
                  /\ r.fallback_score = AllQuals(c)[i].fallback_score
             /\ \A i \in 1 .. C :
                  LET r == Get(DistinctQualifierEntry,
                               b + (12 + D * 4 + S * 4 + Q * 8) + (i - 1) * 12) IN
                  /\ r.qualifier_type = IndexIn(QualifierTypes, Conditions(c)[i][1])
                  /\ r.qualifier_value_offset = 5 * (i - 1)
             /\ \A i \in 1 .. S :
                  Field(b + (12 + D * 4 + S * 4 + Q * 8 + C * 12) + 2 * (i - 1), 2) = i - 1
             /\ \A i \in 1 .. Q :
                  Field(b + (12 + D * 4 + S * 4 + Q * 8 + C * 12) + 2 * (S + i - 1), 2) = i - 1
             /\ Laid(file.at, b + (12 + D * 4 + S * 4 + Q * 8 + C * 12 + (S + Q) * 2),
                     TextBlock([i \in DOMAIN Conditions(c) |-> Conditions(c)[i][2]], 2))
<1>1. PICK p, at : p = DecisionPieces(c) /\ at = file.at
  OBVIOUS
<1>2. PICK D, S, Q, C : /\ D = Len(c.decisions) /\ S = Len(AllSets(c)) /\ Q = Len(AllQuals(c))
                        /\ C = Len(Conditions(c))
  OBVIOUS
<1>3. D \in Nat /\ S \in Nat /\ Q \in Nat /\ C \in Nat
  BY <1>2, DecisionPiecesWritten
<1>4. PICK o2, o3, o4, o5, o6, o7, o8 :
        /\ o2 = b + 12 /\ o3 = b + (12 + D * 4) /\ o4 = b + (12 + D * 4 + S * 4)
        /\ o5 = b + (12 + D * 4 + S * 4 + Q * 8)
        /\ o6 = b + (12 + D * 4 + S * 4 + Q * 8 + C * 12)
        /\ o7 = o6 + S * 2
        /\ o8 = b + (12 + D * 4 + S * 4 + Q * 8 + C * 12 + (S + Q) * 2)
  OBVIOUS
<1>5. /\ o2 \in Nat /\ o3 \in Nat /\ o4 \in Nat /\ o5 \in Nat /\ o6 \in Nat /\ o7 \in Nat /\ o8 \in Nat
  BY <1>3, <1>4
<1>6. /\ Laid(at, b, p[1]) /\ Laid(at, o2, p[2]) /\ Laid(at, o3, p[3]) /\ Laid(at, o4, p[4])
      /\ Laid(at, o5, p[5]) /\ Laid(at, o6, p[6]) /\ Laid(at, o7, p[7]) /\ Laid(at, o8, p[8])
  <2>1. /\ o2 = b + 12 /\ o3 = b + 12 + D * 4 /\ o4 = b + 12 + D * 4 + S * 4
        /\ o5 = b + 12 + D * 4 + S * 4 + Q * 8
        /\ o6 = b + 12 + D * 4 + S * 4 + Q * 8 + C * 12
        /\ o7 = b + 12 + D * 4 + S * 4 + Q * 8 + C * 12 + S * 2
        /\ o8 = b + 12 + D * 4 + S * 4 + Q * 8 + C * 12 + S * 2 + Q * 2
    BY <1>3, <1>4
  <2>2. Laid(at, b, WriteDecisions(c))
    BY <1>1
  <2>3. \A a, o : o \in Nat /\ Laid(a, o, WriteDecisions(c)) =>
          /\ Laid(a, o, p[1])
          /\ Laid(a, o + 12, p[2])
          /\ Laid(a, o + 12 + D * 4, p[3])
          /\ Laid(a, o + 12 + D * 4 + S * 4, p[4])
          /\ Laid(a, o + 12 + D * 4 + S * 4 + Q * 8, p[5])
          /\ Laid(a, o + 12 + D * 4 + S * 4 + Q * 8 + C * 12, p[6])
          /\ Laid(a, o + 12 + D * 4 + S * 4 + Q * 8 + C * 12 + S * 2, p[7])
          /\ Laid(a, o + 12 + D * 4 + S * 4 + Q * 8 + C * 12 + S * 2 + Q * 2, p[8])
    BY <1>1, <1>2, DecisionsLaid, Zenon
  <2>4. QED
    BY ONLY <2>1, <2>2, <2>3, b \in Nat, Zenon
<1>7. /\ p[1] = <<U16(C), U16(Q), U16(S), U16(D), U16(S + Q), U16((Chars + 1) * C)>>
      /\ p[2] = Couples(D, 2, Before(c.decisions), Lengths(c.decisions))
      /\ p[3] = Couples(S, 2, [i \in DOMAIN AllSets(c) |-> S + Before(AllSets(c))[i]],
                        Lengths(AllSets(c)))
      /\ p[4] = FlattenSeq([i \in 1 .. Q |-> QualifierRow(c, i)])
      /\ p[5] = FlattenSeq([i \in 1 .. C |-> ConditionRow(c, i)])
      /\ p[6] = Singles(S, 2, [i \in 1 .. S |-> i - 1])
      /\ p[7] = Singles(Q, 2, [i \in 1 .. Q |-> i - 1])
      /\ p[8] = TextBlock([i \in DOMAIN Conditions(c) |-> Conditions(c)[i][2]], 2)
  <2>1. PICK p1, p2, p3, p4, p5, p6, p7, p8 :
          /\ p1 = <<U16(C), U16(Q), U16(S), U16(D), U16(S + Q), U16((Chars + 1) * C)>>
          /\ p2 = Couples(D, 2, Before(c.decisions), Lengths(c.decisions))
          /\ p3 = Couples(S, 2, [i \in DOMAIN AllSets(c) |-> S + Before(AllSets(c))[i]],
                          Lengths(AllSets(c)))
          /\ p4 = FlattenSeq([i \in 1 .. Q |-> QualifierRow(c, i)])
          /\ p5 = FlattenSeq([i \in 1 .. C |-> ConditionRow(c, i)])
          /\ p6 = Singles(S, 2, [i \in 1 .. S |-> i - 1])
          /\ p7 = Singles(Q, 2, [i \in 1 .. Q |-> i - 1])
          /\ p8 = TextBlock([i \in DOMAIN Conditions(c) |-> Conditions(c)[i][2]], 2)
    BY Zenon
  <2>2. p = <<p1, p2, p3, p4, p5, p6, p7, p8>>
    BY ONLY <1>1, <1>2, <2>1, Zenon DEF DecisionPieces
  <2>3. /\ p[1] = p1 /\ p[2] = p2 /\ p[3] = p3 /\ p[4] = p4 /\ p[5] = p5 /\ p[6] = p6
        /\ p[7] = p7 /\ p[8] = p8
    BY ONLY <2>2
  <2>4. QED
    BY ONLY <2>1, <2>3, Zenon
<1>u. PICK U :
         /\ \A q \in U : IsQualifier(q)
         /\ c.decisions \in [1 .. Len(c.decisions) -> Seq(Seq(U))] /\ Len(c.decisions) \in Nat
         /\ AllSets(c) \in [1 .. Len(AllSets(c)) -> Seq(U)] /\ Len(AllSets(c)) \in Nat
         /\ AllQuals(c) \in [1 .. Len(AllQuals(c)) -> U] /\ Len(AllQuals(c)) \in Nat
         /\ Len(AllSets(c)) = Sums(Lengths(c.decisions))[Len(c.decisions)]
         /\ Len(AllQuals(c)) = Sums(Lengths(AllSets(c)))[Len(AllSets(c))]
  BY QualifierLists
<1>v. PICK ds, ss, qs, cs :
         ds = c.decisions /\ ss = AllSets(c) /\ qs = AllQuals(c) /\ cs = Conditions(c)
  OBVIOUS
<1>8. /\ ds = c.decisions /\ ss = AllSets(c) /\ qs = AllQuals(c) /\ cs = Conditions(c)
      /\ \A q \in U : IsQualifier(q)
      /\ ds \in [1 .. D -> Seq(Seq(U))]
      /\ ss \in [1 .. S -> Seq(U)]
      /\ qs \in [1 .. Q -> U]
      /\ DOMAIN cs = 1 .. C
      /\ \A i \in 1 .. Q : \E k \in 1 .. C : cs[k] = Condition(qs[i])
      /\ \A k \in 1 .. C : cs[k][1] \in Range(QualifierTypes) /\ cs[k][2] \in Values
  <2>3. /\ ds \in [1 .. D -> Seq(Seq(U))]
        /\ ss \in [1 .. S -> Seq(U)]
        /\ qs \in [1 .. Q -> U]
    BY ONLY <1>2, <1>u, <1>v, Zenon
  <2>4. /\ DOMAIN cs = 1 .. C
        /\ \A i \in 1 .. Q : \E k \in 1 .. C : cs[k] = Condition(qs[i])
        /\ \A k \in 1 .. C : cs[k][1] \in Range(QualifierTypes) /\ cs[k][2] \in Values
    BY ONLY <1>2, <1>v, DecisionsAreWellFormed(c), ConditionsList, Zenon
  <2>5. QED
    BY ONLY <1>u, <1>v, <2>3, <2>4, Zenon
<1>9. Int \subseteq Values /\ 0 \in Values
  BY DEF Values
<1>10. /\ Column(D, Before(ds)) /\ Column(D, Lengths(ds))
       /\ Column(S, [i \in DOMAIN ss |-> S + Before(ss)[i]]) /\ Column(S, Lengths(ss))
       /\ Column(S, [i \in 1 .. S |-> i - 1]) /\ Column(Q, [i \in 1 .. Q |-> i - 1])
  <2>1. ASSUME NEW T, NEW n \in Nat, NEW x \in [1 .. n -> Seq(T)]
        PROVE  Before(x) \in [1 .. n -> Int] /\ Lengths(x) \in [1 .. n -> Int]
    <3>1. Lengths(x) \in [1 .. n -> Nat]
      BY FlattenParts
    <3>2. Sums(Lengths(x)) \in [0 .. n -> Nat]
      BY <3>1, SumsRise
    <3>3. \A i \in 1 .. n : i - 1 \in 0 .. n
      OBVIOUS
    <3>4. QED
      BY <3>1, <3>2, <3>3 DEF Before
  <2>2. PICK V : V = Seq(U)
    OBVIOUS
  <2>3. ds \in [1 .. D -> Seq(V)]
    BY <1>8, <2>2
  <2>4. PICK f, g : f = Before(ds) /\ g = Lengths(ds)
    OBVIOUS
  <2>5. f \in [1 .. D -> Int] /\ g \in [1 .. D -> Int]
    BY <1>3, <2>1, <2>3, <2>4
  <2>6. PICK h, l : h = Before(ss) /\ l = Lengths(ss)
    OBVIOUS
  <2>7. h \in [1 .. S -> Int] /\ l \in [1 .. S -> Int]
    BY <1>3, <1>8, <2>1, <2>6
  <2>8. PICK k : k = [i \in DOMAIN ss |-> S + h[i]]
    OBVIOUS
  <2>9. k \in [1 .. S -> Int]
    BY <1>3, <1>8, <2>7, <2>8
  <2>10. Column(D, f) /\ Column(D, g)
    BY <1>3, <1>9, <2>5 DEF Column
  <2>11. Column(S, k) /\ Column(S, l)
    BY <1>3, <1>9, <2>7, <2>9 DEF Column
  <2>12. ASSUME NEW n \in Nat PROVE Column(n, [i \in 1 .. n |-> i - 1])
    BY <1>9 DEF Column
  <2>13. QED
    BY ONLY <2>4, <2>6, <2>8, <2>10, <2>11, <2>12, <1>3, Zenon
<1>11. /\ Get(DecisionInfoHeader, b).number_of_distinct_qualifiers = C
       /\ Get(DecisionInfoHeader, b).number_of_qualifiers = Q
       /\ Get(DecisionInfoHeader, b).number_of_qualifier_sets = S
       /\ Get(DecisionInfoHeader, b).number_of_decisions = D
       /\ Get(DecisionInfoHeader, b).number_of_index_table_entries = S + Q
       /\ Get(DecisionInfoHeader, b).qualifier_value_block_length = 5 * C
  <2>1. PICK s, x, y : s = p[1] /\ x = S + Q /\ y = 5 * C
    OBVIOUS
  <2>2. x \in Values /\ y \in Values /\ C \in Values /\ Q \in Values /\ S \in Values /\ D \in Values
    BY <1>3, <1>9, <2>1
  <2>3. s = << <<C, 2>>, <<Q, 2>>, <<S, 2>>, <<D, 2>>, <<x, 2>>, <<y, 2>> >>
    BY ONLY <1>7, <2>1 DEF U16, Chars
  <2>4. /\ s \in Written /\ Widths(s) = <<2, 2, 2, 2, 2, 2>>
        /\ s[1][1] = C /\ s[2][1] = Q /\ s[3][1] = S /\ s[4][1] = D /\ s[5][1] = x /\ s[6][1] = y
    BY <2>2, <2>3 DEF Written, Widths
  <2>5. Laid(file.at, b, s)
    BY <1>1, <1>6, <2>1
  <2>6. QED
    BY ONLY <2>1, <2>4, <2>5, b \in Nat, DecisionInfoHeaderRead
<1>12. ASSUME NEW i \in 1 .. D
       PROVE  LET r == Get(DecisionEntry, b + 12 + (i - 1) * 4) IN
                /\ r.first_qualifier_set_index = Before(ds)[i]
                /\ r.number_of_qualifier_sets = Lengths(ds)[i]
  <2>1. PICK f, g : f = Before(ds) /\ g = Lengths(ds)
    OBVIOUS
  <2>2. Column(D, f) /\ Column(D, g) /\ Laid(file.at, o2, Couples(D, 2, f, g))
    BY ONLY <1>1, <1>6, <1>7, <1>8, <1>10, <2>1, Zenon
  <2>3. /\ Get(DecisionEntry, o2 + (i - 1) * 4).first_qualifier_set_index = f[i]
        /\ Get(DecisionEntry, o2 + (i - 1) * 4).number_of_qualifier_sets = g[i]
    BY <1>5, <2>2, DecisionEntriesRead
  <2>4. QED
    BY ONLY <1>4, <2>1, <2>3, Zenon
<1>13. ASSUME NEW i \in 1 .. S
       PROVE  LET r == Get(QualifierSetEntry, b + (12 + D * 4) + (i - 1) * 4) IN
                /\ r.first_qualifier_index = S + Before(ss)[i]
                /\ r.number_of_qualifiers = Lengths(ss)[i]
  <2>1. PICK f, g : f = [j \in DOMAIN ss |-> S + Before(ss)[j]] /\ g = Lengths(ss)
    OBVIOUS
  <2>2. Column(S, f) /\ Column(S, g) /\ Laid(file.at, o3, Couples(S, 2, f, g))
    BY ONLY <1>1, <1>6, <1>7, <1>8, <1>10, <2>1, Zenon
  <2>3. /\ Get(QualifierSetEntry, o3 + (i - 1) * 4).first_qualifier_index = f[i]
        /\ Get(QualifierSetEntry, o3 + (i - 1) * 4).number_of_qualifiers = g[i]
    BY <1>5, <2>2, DecisionEntriesRead
  <2>4. f[i] = S + Before(ss)[i]
    BY <1>8, <2>1
  <2>5. QED
    BY ONLY <1>4, <2>1, <2>3, <2>4, Zenon
<1>14. ASSUME NEW i \in 1 .. Q
       PROVE  LET r == Get(QualifierEntry, b + (12 + D * 4 + S * 4) + (i - 1) * 8) IN
                /\ r.distinct_qualifier_index = IndexIn(cs, Condition(qs[i]))
                /\ r.priority = qs[i].priority
                /\ r.fallback_score = qs[i].fallback_score
  <2> DEFINE row(j) == QualifierRow(c, j)
  <2>1. ASSUME NEW j \in 1 .. Q
        PROVE  /\ row(j) \in Written /\ SizeOf(row(j)) = 8 /\ Widths(row(j)) = <<2, 2, 2, 2>>
               /\ row(j)[1][1] = IndexIn(cs, Condition(qs[j])) /\ row(j)[2][1] = qs[j].priority
               /\ row(j)[3][1] = qs[j].fallback_score
    <3>1. PICK q : q = qs[j] /\ q \in U
      BY <1>8
    <3>2. q.priority \in Nat /\ q.fallback_score \in Nat
      BY <3>1, <1>8, QualifierParts
    <3>3. IndexIn(cs, Condition(q)) \in Nat
      <4>1. Has(C, cs, Condition(q))
        BY <1>3, <1>8, <3>1 DEF Has
      <4>2. QED
        BY <4>1, IndexInDef
    <3>4. PICK x, y, z : x = IndexIn(cs, Condition(q)) /\ y = q.priority /\ z = q.fallback_score
      OBVIOUS
    <3>5. x \in Values /\ y \in Values /\ z \in Values /\ 0 \in Values
      BY <3>2, <3>3, <3>4, <1>9
    <3>6. PICK s : s = row(j)
      OBVIOUS
    <3>7. s = << <<x, 2>>, <<y, 2>>, <<z, 2>>, <<0, 2>> >>
      BY <3>1, <3>4, <3>6, <1>8 DEF QualifierRow, U16
    <3>8. s \in Written /\ Widths(s) = <<2, 2, 2, 2>> /\ s[1][1] = x /\ s[2][1] = y /\ s[3][1] = z
      BY <3>5, <3>7 DEF Written, Widths
    <3>9. SizeOf(s) = 8
      BY <3>8, QualifierEntryRead
    <3>10. QED
      BY ONLY <3>1, <3>4, <3>6, <3>8, <3>9, Zenon
  <2>2. PICK r : r = [j \in 1 .. Q |-> row(j)]
    OBVIOUS
  <2>3. r \in [1 .. Q -> Written] /\ \A j \in 1 .. Q : SizeOf(r[j]) = 8
    BY <2>1, <2>2
  <2>4. Laid(at, o4, FlattenSeq(r))
    BY ONLY <1>6, <1>7, <2>2, Zenon
  <2>5. \A a, o : o \in Nat /\ Laid(a, o, FlattenSeq(r)) =>
              \A j \in 1 .. Q : Laid(a, o + (j - 1) * 8, r[j])
    BY <1>3, <2>3, EachWritten
  <2>6. PICK o \in Nat : o = o4 + (i - 1) * 8
    BY <1>3, <1>5
  <2>7. Laid(at, o, r[i])
    BY ONLY <2>4, <2>5, <2>6, <1>5, i \in 1 .. Q, Zenon
  <2>8. PICK s : s = row(i)
    OBVIOUS
  <2>9. s = r[i]
    BY <2>2, <2>8
  <2>10. /\ s \in Written /\ Widths(s) = <<2, 2, 2, 2>>
         /\ s[1][1] = IndexIn(cs, Condition(qs[i])) /\ s[2][1] = qs[i].priority
         /\ s[3][1] = qs[i].fallback_score
    BY <2>1, <2>8, Zenon
  <2>11. Laid(file.at, o, s)
    BY <1>1, <2>7, <2>9
  <2>12. /\ Get(QualifierEntry, o).distinct_qualifier_index = s[1][1]
         /\ Get(QualifierEntry, o).priority = s[2][1]
         /\ Get(QualifierEntry, o).fallback_score = s[3][1]
    BY <2>10, <2>11, QualifierEntryRead
  <2>13. QED
    BY ONLY <1>4, <2>6, <2>10, <2>12, Zenon
<1>15. ASSUME NEW i \in 1 .. C
       PROVE  LET r == Get(DistinctQualifierEntry,
                           b + (12 + D * 4 + S * 4 + Q * 8) + (i - 1) * 12) IN
                /\ r.qualifier_type = IndexIn(QualifierTypes, cs[i][1])
                /\ r.qualifier_value_offset = 5 * (i - 1)
  <2> DEFINE row(j) == ConditionRow(c, j)
  <2>1. ASSUME NEW j \in 1 .. C
        PROVE  /\ row(j) \in Written /\ SizeOf(row(j)) = 12 /\ Widths(row(j)) = <<2, 2, 2, 2, 4>>
               /\ row(j)[2][1] = IndexIn(QualifierTypes, cs[j][1]) /\ row(j)[5][1] = 5 * (j - 1)
    <3>1. IndexIn(QualifierTypes, cs[j][1]) \in Nat
      BY <1>8, QualifierTypeIndex
    <3>2. PICK x, y : x = IndexIn(QualifierTypes, cs[j][1]) /\ y = 5 * (j - 1)
      OBVIOUS
    <3>3. x \in Values /\ y \in Values /\ 0 \in Values
      BY <3>1, <3>2, <1>9
    <3>4. PICK s : s = row(j)
      OBVIOUS
    <3>5. s = << <<0, 2>>, <<x, 2>>, <<0, 2>>, <<0, 2>>, <<y, 4>> >>
      BY <3>2, <3>4, <1>8 DEF ConditionRow, U16, U32, Chars
    <3>6. s \in Written /\ Widths(s) = <<2, 2, 2, 2, 4>> /\ s[2][1] = x /\ s[5][1] = y
      BY <3>3, <3>5 DEF Written, Widths
    <3>7. SizeOf(s) = 12
      BY <3>6, DistinctQualifierEntryRead
    <3>8. QED
      BY ONLY <3>2, <3>4, <3>6, <3>7, Zenon
  <2>2. PICK r : r = [j \in 1 .. C |-> row(j)]
    OBVIOUS
  <2>3. r \in [1 .. C -> Written] /\ \A j \in 1 .. C : SizeOf(r[j]) = 12
    BY <2>1, <2>2
  <2>4. Laid(at, o5, FlattenSeq(r))
    BY ONLY <1>6, <1>7, <2>2, Zenon
  <2>5. \A a, o : o \in Nat /\ Laid(a, o, FlattenSeq(r)) =>
              \A j \in 1 .. C : Laid(a, o + (j - 1) * 12, r[j])
    BY <1>3, <2>3, EachWritten
  <2>6. PICK o \in Nat : o = o5 + (i - 1) * 12
    BY <1>3, <1>5
  <2>7. Laid(at, o, r[i])
    BY ONLY <2>4, <2>5, <2>6, <1>5, i \in 1 .. C, Zenon
  <2>8. PICK s : s = row(i)
    OBVIOUS
  <2>9. s = r[i]
    BY <2>2, <2>8
  <2>10. /\ s \in Written /\ Widths(s) = <<2, 2, 2, 2, 4>>
         /\ s[2][1] = IndexIn(QualifierTypes, cs[i][1]) /\ s[5][1] = 5 * (i - 1)
    BY <2>1, <2>8, Zenon
  <2>11. Laid(file.at, o, s)
    BY <1>1, <2>7, <2>9
  <2>12. /\ Get(DistinctQualifierEntry, o).qualifier_type = s[2][1]
         /\ Get(DistinctQualifierEntry, o).qualifier_value_offset = s[5][1]
    BY <2>10, <2>11, DistinctQualifierEntryRead
  <2>13. QED
    BY ONLY <1>4, <2>6, <2>10, <2>12, Zenon
<1>16. ASSUME NEW n, NEW o \in Nat, Laid(file.at, o, Singles(n, 2, [i \in 1 .. n |-> i - 1])),
              Column(n, [i \in 1 .. n |-> i - 1]), NEW i \in 1 .. n
       PROVE  Field(o + 2 * (i - 1), 2) = i - 1
  <2>1. PICK f : f = [j \in 1 .. n |-> j - 1]
    OBVIOUS
  <2>2. Column(n, f) /\ Laid(file.at, o, Singles(n, 2, f))
    BY ONLY <1>16, <2>1, Zenon
  <2>3. Field(o + 2 * (i - 1), 2) = f[i]
    BY ONLY <2>2, o \in Nat, i \in 1 .. n, IndexRow
  <2>4. QED
    BY <2>1, <2>3
<1>17. \A i \in 1 .. S : Field(o6 + 2 * (i - 1), 2) = i - 1
  <2>1. Laid(file.at, o6, Singles(S, 2, [i \in 1 .. S |-> i - 1]))
    BY <1>1, <1>6, <1>7, Zenon
  <2>2. QED
    BY <2>1, <1>3, <1>5, <1>10, <1>16, Zenon
<1>18. \A i \in 1 .. Q : Field(o6 + 2 * (S + i - 1), 2) = i - 1
  <2>1. Laid(file.at, o7, Singles(Q, 2, [i \in 1 .. Q |-> i - 1]))
    BY <1>1, <1>6, <1>7, Zenon
  <2>2. \A i \in 1 .. Q : Field(o7 + 2 * (i - 1), 2) = i - 1
    BY <2>1, <1>3, <1>5, <1>10, <1>16, Zenon
  <2>3. \A i \in 1 .. Q : o7 + 2 * (i - 1) = o6 + 2 * (S + i - 1)
    BY <1>3, <1>4, <1>5
  <2>4. QED
    BY <2>2, <2>3
<1>19. Laid(file.at, o8, TextBlock([i \in DOMAIN Conditions(c) |-> Conditions(c)[i][2]], 2))
  BY <1>1, <1>6, <1>7, Zenon
<1>20. QED
  BY ONLY <1>2, <1>4, <1>8, <1>11, <1>12, <1>13, <1>14, <1>15, <1>17, <1>18, <1>19, Zenon

\* A decision section reads back as the decisions written to it, unless it is
\* shorter than its tables: build_decision_info.
LEMMA DecisionsRead ==
  ASSUME NEW c, DecisionsAreWellFormed(c), NEW range, range.base \in Nat,
         Laid(file.at, range.base, WriteDecisions(c))
  PROVE  BuildDecisions(range) = Built(Fits(range, 0, SizeOf(WriteDecisions(c))), c.decisions)
<1> DEFINE
      header == Get(DecisionInfoHeader, range.base)
      tables == Struct(<<"header", "decisions", "sets", "qualifiers",
                         "distinct", "index_table", "values">>,
                       <<DecisionInfoHeader.size,
                         header.number_of_decisions * DecisionEntry.size,
                         header.number_of_qualifier_sets * QualifierSetEntry.size,
                         header.number_of_qualifiers * QualifierEntry.size,
                         header.number_of_distinct_qualifiers * DistinctQualifierEntry.size,
                         header.number_of_index_table_entries * 2,
                         header.qualifier_value_block_length * 2>>)
      At(name) == range.base + tables.at[name][1]
      D == Rows(DecisionEntry, At("decisions"), header.number_of_decisions)
      S == Rows(QualifierSetEntry, At("sets"), header.number_of_qualifier_sets)
      Q == Rows(QualifierEntry, At("qualifiers"), header.number_of_qualifiers)
      C == Rows(DistinctQualifierEntry, At("distinct"), header.number_of_distinct_qualifiers)
      index_table == [i \in 1 .. header.number_of_index_table_entries |->
                        Field(At("index_table") + 2 * (i - 1), 2)]
      Tested(q) == C[q.distinct_qualifier_index + 1]
      Value(q)    == DecodeZ(Part(range, tables.at.values), Tested(q).qualifier_value_offset, 2)
      qualifiers  == [i \in DOMAIN Q |->
                        [type |-> QualifierTypes[Tested(Q[i]).qualifier_type + 1],
                         value |-> Value(Q[i]), priority |-> Q[i].priority,
                         fallback_score |-> Q[i].fallback_score]]
      sets == [i \in DOMAIN S |-> ResolveRange(index_table, S[i].first_qualifier_index,
                                               S[i].number_of_qualifiers, qualifiers)]
      ok == /\ \A i \in DOMAIN C : C[i].qualifier_type < Len(QualifierTypes)
            /\ \A i \in DOMAIN Q : Q[i].distinct_qualifier_index < Len(C)
            /\ \A i \in DOMAIN S : Whole(index_table, S[i].first_qualifier_index,
                                         S[i].number_of_qualifiers, Q)
            /\ \A i \in DOMAIN D : Whole(index_table, D[i].first_qualifier_set_index,
                                         D[i].number_of_qualifier_sets, S)
      decisions == [i \in DOMAIN D |-> ResolveRange(index_table, D[i].first_qualifier_set_index,
                                                    D[i].number_of_qualifier_sets, sets)]
<1>1. BuildDecisions(range) = Built(Fits(range, 0, tables.size) /\ ok, decisions)
  BY ONLY Zenon DEF BuildDecisions
<1>2. PICK b, nD, nS, nQ, nC : /\ b = range.base
                               /\ nD = Len(c.decisions) /\ nS = Len(AllSets(c)) /\ nQ = Len(AllQuals(c))
                               /\ nC = Len(Conditions(c))
  OBVIOUS
<1>3. b \in Nat /\ nD \in Nat /\ nS \in Nat /\ nQ \in Nat /\ nC \in Nat
  BY <1>2, DecisionPiecesWritten
<1>4. PICK ds, ss, qs, cs : ds = c.decisions /\ ss = AllSets(c) /\ qs = AllQuals(c) /\ cs = Conditions(c)
  OBVIOUS
<1>5. /\ header.number_of_distinct_qualifiers = nC
      /\ header.number_of_qualifiers = nQ
      /\ header.number_of_qualifier_sets = nS
      /\ header.number_of_decisions = nD
      /\ header.number_of_index_table_entries = nS + nQ
      /\ header.qualifier_value_block_length = 5 * nC
  BY <1>2, DecisionRowsRead, Zenon
<1>6. tables = DecisionTablesOf(nD, nS, nQ, nC)
  <2>1. /\ DecisionInfoHeader.size = 12 /\ DecisionEntry.size = 4 /\ QualifierSetEntry.size = 4
        /\ QualifierEntry.size = 8 /\ DistinctQualifierEntry.size = 12
    BY RecordSizes
  <2>2. QED
    BY ONLY <1>5, <2>1, Zenon DEF DecisionTablesOf
<1> HIDE DEF header, tables
<1>7. /\ tables.size = 12 + nD * 4 + nS * 4 + nQ * 8 + nC * 12 + (nS + nQ) * 2 + 5 * nC * 2
      /\ At("decisions") = b + 12
      /\ At("sets") = b + (12 + nD * 4)
      /\ At("qualifiers") = b + (12 + nD * 4 + nS * 4)
      /\ At("distinct") = b + (12 + nD * 4 + nS * 4 + nQ * 8)
      /\ At("index_table") = b + (12 + nD * 4 + nS * 4 + nQ * 8 + nC * 12)
      /\ tables.at["values"] =
           <<12 + nD * 4 + nS * 4 + nQ * 8 + nC * 12 + (nS + nQ) * 2, 5 * nC * 2>>
  <2>1. PICK t : t = DecisionTablesOf(nD, nS, nQ, nC)
    OBVIOUS
  <2>2. /\ t.size = 12 + nD * 4 + nS * 4 + nQ * 8 + nC * 12 + (nS + nQ) * 2 + 5 * nC * 2
        /\ t.at["decisions"] = <<12, nD * 4>>
        /\ t.at["sets"] = <<12 + nD * 4, nS * 4>>
        /\ t.at["qualifiers"] = <<12 + nD * 4 + nS * 4, nQ * 8>>
        /\ t.at["distinct"] = <<12 + nD * 4 + nS * 4 + nQ * 8, nC * 12>>
        /\ t.at["index_table"] =
             <<12 + nD * 4 + nS * 4 + nQ * 8 + nC * 12, (nS + nQ) * 2>>
        /\ t.at["values"] =
             <<12 + nD * 4 + nS * 4 + nQ * 8 + nC * 12 + (nS + nQ) * 2, 5 * nC * 2>>
    <3>1. DecisionPlaces(t, nD, nS, nQ, nC)
      BY ONLY <1>3, <2>1, DecisionTables
    <3>2. QED
      BY ONLY <3>1, Zenon DEF DecisionPlaces
  <2>3. tables = t
    BY <1>6, <2>1, Zenon
  <2>4. /\ t.at["decisions"][1] = 12
        /\ t.at["sets"][1] = 12 + nD * 4
        /\ t.at["qualifiers"][1] = 12 + nD * 4 + nS * 4
        /\ t.at["distinct"][1] = 12 + nD * 4 + nS * 4 + nQ * 8
        /\ t.at["index_table"][1] = 12 + nD * 4 + nS * 4 + nQ * 8 + nC * 12
    BY ONLY <2>2
  <2>5. QED
    BY ONLY <1>2, <2>2, <2>3, <2>4, Zenon
<1>8. PICK idx, o2, o3, o4, o5, o6 :
        /\ o2 = b + 12 /\ o3 = b + (12 + nD * 4) /\ o4 = b + (12 + nD * 4 + nS * 4)
        /\ o5 = b + (12 + nD * 4 + nS * 4 + nQ * 8)
        /\ o6 = b + (12 + nD * 4 + nS * 4 + nQ * 8 + nC * 12)
        /\ idx = index_table
  OBVIOUS
<1>9. /\ D = [i \in 1 .. nD |-> Get(DecisionEntry, o2 + (i - 1) * 4)]
      /\ S = [i \in 1 .. nS |-> Get(QualifierSetEntry, o3 + (i - 1) * 4)]
      /\ Q = [i \in 1 .. nQ |-> Get(QualifierEntry, o4 + (i - 1) * 8)]
      /\ C = [i \in 1 .. nC |-> Get(DistinctQualifierEntry, o5 + (i - 1) * 12)]
      /\ idx = [i \in 1 .. nS + nQ |-> Field(o6 + 2 * (i - 1), 2)]
  <2>1. /\ DecisionEntry.size = 4 /\ QualifierSetEntry.size = 4
        /\ QualifierEntry.size = 8 /\ DistinctQualifierEntry.size = 12
    BY RecordSizes
  <2>2. QED
    BY ONLY <1>5, <1>7, <1>8, <2>1, Zenon DEF Rows
<1> HIDE DEF At
<1>10. PICK rD, rS, rQ, rC : rD = D /\ rS = S /\ rQ = Q /\ rC = C
  OBVIOUS
<1> HIDE DEF D, S, Q, C, index_table
<1>11. /\ DOMAIN rD = 1 .. nD /\ DOMAIN rS = 1 .. nS /\ DOMAIN rQ = 1 .. nQ /\ DOMAIN rC = 1 .. nC
       /\ Len(rS) = nS /\ Len(rQ) = nQ /\ Len(rC) = nC /\ Len(idx) = nS + nQ
  <2>1. \A n \in Nat : \A f : DOMAIN f = 1 .. n => Len(f) = n
    OBVIOUS
  <2>2. /\ DOMAIN rD = 1 .. nD /\ DOMAIN rS = 1 .. nS /\ DOMAIN rQ = 1 .. nQ /\ DOMAIN rC = 1 .. nC
        /\ DOMAIN idx = 1 .. nS + nQ
    BY ONLY <1>9, <1>10, Zenon
  <2>3. nS + nQ \in Nat
    BY <1>3
  <2>4. QED
    BY <2>1, <2>2, <2>3, <1>3
<1>12. /\ \A i \in 1 .. nD : /\ rD[i].first_qualifier_set_index = Before(ds)[i]
                             /\ rD[i].number_of_qualifier_sets = Lengths(ds)[i]
       /\ \A i \in 1 .. nS : /\ rS[i].first_qualifier_index = nS + Before(ss)[i]
                             /\ rS[i].number_of_qualifiers = Lengths(ss)[i]
       /\ \A i \in 1 .. nQ : /\ rQ[i].distinct_qualifier_index = IndexIn(cs, Condition(qs[i]))
                             /\ rQ[i].priority = qs[i].priority
                             /\ rQ[i].fallback_score = qs[i].fallback_score
       /\ \A i \in 1 .. nC : /\ rC[i].qualifier_type = IndexIn(QualifierTypes, cs[i][1])
                             /\ rC[i].qualifier_value_offset = 5 * (i - 1)
  <2>1. /\ \A i \in 1 .. nD : LET r == Get(DecisionEntry, o2 + (i - 1) * 4) IN
                  /\ r.first_qualifier_set_index = Before(ds)[i]
                  /\ r.number_of_qualifier_sets = Lengths(ds)[i]
        /\ \A i \in 1 .. nS : LET r == Get(QualifierSetEntry, o3 + (i - 1) * 4) IN
             /\ r.first_qualifier_index = nS + Before(ss)[i]
             /\ r.number_of_qualifiers = Lengths(ss)[i]
        /\ \A i \in 1 .. nQ :
             LET r == Get(QualifierEntry, o4 + (i - 1) * 8) IN
             /\ r.distinct_qualifier_index = IndexIn(cs, Condition(qs[i]))
             /\ r.priority = qs[i].priority
             /\ r.fallback_score = qs[i].fallback_score
        /\ \A i \in 1 .. nC :
             LET r == Get(DistinctQualifierEntry, o5 + (i - 1) * 12) IN
             /\ r.qualifier_type = IndexIn(QualifierTypes, cs[i][1])
             /\ r.qualifier_value_offset = 5 * (i - 1)
    <3>1. Laid(file.at, b, WriteDecisions(c)) /\ b \in Nat
      BY <1>2, <1>3
    <3>2. /\ \A i \in 1 .. Len(c.decisions) : LET r == Get(DecisionEntry, b + 12 + (i - 1) * 4) IN
               /\ r.first_qualifier_set_index = Before(c.decisions)[i]
               /\ r.number_of_qualifier_sets = Lengths(c.decisions)[i]
          /\ \A i \in 1 .. Len(AllSets(c)) :
               LET r == Get(QualifierSetEntry, b + (12 + Len(c.decisions) * 4) + (i - 1) * 4) IN
               /\ r.first_qualifier_index = Len(AllSets(c)) + Before(AllSets(c))[i]
               /\ r.number_of_qualifiers = Lengths(AllSets(c))[i]
          /\ \A i \in 1 .. Len(AllQuals(c)) :
               LET r == Get(QualifierEntry, b + (12 + Len(c.decisions) * 4 + Len(AllSets(c)) * 4)
                                              + (i - 1) * 8) IN
               /\ r.distinct_qualifier_index = IndexIn(Conditions(c), Condition(AllQuals(c)[i]))
               /\ r.priority = AllQuals(c)[i].priority
               /\ r.fallback_score = AllQuals(c)[i].fallback_score
          /\ \A i \in 1 .. Len(Conditions(c)) :
               LET r == Get(DistinctQualifierEntry,
                            b + (12 + Len(c.decisions) * 4 + Len(AllSets(c)) * 4
                                   + Len(AllQuals(c)) * 8) + (i - 1) * 12) IN
               /\ r.qualifier_type = IndexIn(QualifierTypes, Conditions(c)[i][1])
               /\ r.qualifier_value_offset = 5 * (i - 1)
      BY ONLY <3>1, DecisionsAreWellFormed(c), DecisionRowsRead, Zenon
    <3>3. QED
      BY ONLY <1>2, <1>4, <1>8, <3>2, Zenon
  <2>2. /\ \A i \in 1 .. nD : rD[i] = Get(DecisionEntry, o2 + (i - 1) * 4)
        /\ \A i \in 1 .. nS : rS[i] = Get(QualifierSetEntry, o3 + (i - 1) * 4)
        /\ \A i \in 1 .. nQ : rQ[i] = Get(QualifierEntry, o4 + (i - 1) * 8)
        /\ \A i \in 1 .. nC : rC[i] = Get(DistinctQualifierEntry, o5 + (i - 1) * 12)
    BY ONLY <1>9, <1>10, Zenon
  <2>3. QED
    BY ONLY <2>1, <2>2, Zenon
<1>13. PICK U :
         /\ \A q \in U : IsQualifier(q)
         /\ c.decisions \in [1 .. Len(c.decisions) -> Seq(Seq(U))] /\ Len(c.decisions) \in Nat
         /\ AllSets(c) \in [1 .. Len(AllSets(c)) -> Seq(U)] /\ Len(AllSets(c)) \in Nat
         /\ AllQuals(c) \in [1 .. Len(AllQuals(c)) -> U] /\ Len(AllQuals(c)) \in Nat
         /\ Len(AllSets(c)) = Sums(Lengths(c.decisions))[Len(c.decisions)]
         /\ Len(AllQuals(c)) = Sums(Lengths(AllSets(c)))[Len(AllSets(c))]
  BY QualifierLists
<1>14. /\ \A q \in U : IsQualifier(q)
       /\ ds \in [1 .. nD -> Seq(Seq(U))]
       /\ ss \in [1 .. nS -> Seq(U)]
       /\ qs \in [1 .. nQ -> U]
       /\ DOMAIN cs = 1 .. nC
       /\ \A i \in 1 .. nQ : \E k \in 1 .. nC : cs[k] = Condition(qs[i])
       /\ \A k \in 1 .. nC : cs[k][1] \in Range(QualifierTypes) /\ cs[k][2] \in Values
  <2>1. /\ ds \in [1 .. nD -> Seq(Seq(U))]
        /\ ss \in [1 .. nS -> Seq(U)]
        /\ qs \in [1 .. nQ -> U]
    BY ONLY <1>2, <1>4, <1>13, Zenon
  <2>2. /\ DOMAIN cs = 1 .. nC
        /\ \A i \in 1 .. nQ : \E k \in 1 .. nC : cs[k] = Condition(qs[i])
        /\ \A k \in 1 .. nC : cs[k][1] \in Range(QualifierTypes) /\ cs[k][2] \in Values
    BY ONLY <1>2, <1>4, DecisionsAreWellFormed(c), ConditionsList, Zenon
  <2>3. QED
    BY ONLY <1>13, <2>1, <2>2, Zenon
<1>15. PICK values : values = Part(range, tables.at.values)
  OBVIOUS
<1>16. ASSUME NEW i \in 1 .. nC PROVE DecodeZ(values, 5 * (i - 1), 2) = cs[i][2]
  <2>1. PICK texts : texts = [k \in DOMAIN cs |-> cs[k][2]]
    OBVIOUS
  <2>2. texts \in [1 .. nC -> Values] /\ texts[i] = cs[i][2]
    BY <1>14, <2>1
  <2>3. PICK o : o = b + (12 + nD * 4 + nS * 4 + nQ * 8 + nC * 12 + (nS + nQ) * 2)
    OBVIOUS
  <2>4. Laid(file.at, o, TextBlock(texts, 2)) /\ o \in Nat
    <3>1. Laid(file.at, b + (12 + Len(c.decisions) * 4 + Len(AllSets(c)) * 4 + Len(AllQuals(c)) * 8
                              + Len(Conditions(c)) * 12 + (Len(AllSets(c)) + Len(AllQuals(c))) * 2),
               TextBlock([k \in DOMAIN Conditions(c) |-> Conditions(c)[k][2]], 2))
      <4>1. Laid(file.at, b, WriteDecisions(c)) /\ b \in Nat
        BY <1>2, <1>3
      <4>2. QED
        BY ONLY <4>1, DecisionsAreWellFormed(c), DecisionRowsRead, Zenon
    <3>2. o \in Nat
      BY <1>3, <2>3
    <3>3. QED
      BY ONLY <1>2, <1>4, <2>1, <2>3, <3>1, <3>2, Zenon
  <2>5. PICK p : p = tables.at["values"]
    OBVIOUS
  <2>6. p[1] = 12 + nD * 4 + nS * 4 + nQ * 8 + nC * 12 + (nS + nQ) * 2 /\ p[2] = 5 * nC * 2
    BY ONLY <1>7, <2>5
  <2>7. values.base = b + p[1] /\ values.len = p[2]
    BY <1>2, <1>15, <2>5, Zenon DEF Part
  <2>8. values.base = o /\ values.len = nC * (2 * (Chars + 1))
    <3>1. PICK x, y : x = values.base /\ y = values.len
      OBVIOUS
    <3>2. x = o /\ y = nC * (2 * (Chars + 1))
      BY <1>3, <2>3, <2>6, <2>7, <3>1 DEF Chars
    <3>3. QED
      BY <3>1, <3>2
  <2>9. PICK k : k = 2
    OBVIOUS
  <2>10. /\ k \in {1, 2} /\ values.len = nC * (k * (Chars + 1)) /\ values.base \in Nat
         /\ Laid(file.at, values.base, TextBlock(texts, k))
    BY <2>4, <2>8, <2>9
  <2>11. DecodeZ(values, (Chars + 1) * (i - 1), k) = texts[i]
    BY <2>2, <2>10, <1>3, TextsRead
  <2>12. (Chars + 1) * (i - 1) = 5 * (i - 1)
    BY DEF Chars
  <2>13. QED
    BY ONLY <2>2, <2>9, <2>11, <2>12, Zenon
<1>17. PICK rq : rq = qualifiers
  OBVIOUS
<1>18. rq = [i \in 1 .. nQ |->
               [type |-> QualifierTypes[rC[rQ[i].distinct_qualifier_index + 1].qualifier_type + 1],
                value |-> DecodeZ(values, rC[rQ[i].distinct_qualifier_index + 1].qualifier_value_offset, 2),
                priority |-> rQ[i].priority, fallback_score |-> rQ[i].fallback_score]]
  BY ONLY <1>10, <1>11, <1>15, <1>17, Zenon
<1>19. ASSUME NEW i \in 1 .. nQ
       PROVE  /\ rq[i] = qs[i]
              /\ rQ[i].distinct_qualifier_index < nC
  <2>1. PICK q, k : q = qs[i] /\ k = IndexIn(cs, Condition(qs[i]))
    OBVIOUS
  <2>2. k \in Nat /\ k + 1 \in 1 .. nC /\ cs[k + 1] = Condition(q)
    <3>1. Has(nC, cs, Condition(q))
      BY <1>3, <1>14, <2>1 DEF Has
    <3>2. QED
      BY <2>1, <3>1, IndexInDef
  <2>3. PICK m : m = k + 1
    OBVIOUS
  <2>4. m \in 1 .. nC /\ cs[m][1] = q.type /\ cs[m][2] = q.value /\ 5 * (m - 1) = 5 * k
    BY <2>2, <2>3 DEF Condition
  <2>5. QualifierTypes[IndexIn(QualifierTypes, cs[m][1]) + 1] = q.type
    BY <1>14, <2>4, QualifierTypeIndex
  <2>6. DecodeZ(values, 5 * (m - 1), 2) = q.value
    BY <1>16, <2>4
  <2>7. /\ rC[m].qualifier_type = IndexIn(QualifierTypes, cs[m][1])
        /\ rC[m].qualifier_value_offset = 5 * (m - 1)
        /\ rQ[i].distinct_qualifier_index = k
        /\ rQ[i].priority = q.priority
        /\ rQ[i].fallback_score = q.fallback_score
    BY ONLY <1>12, <2>1, <2>4, i \in 1 .. nQ, Zenon
  <2>8. rq[i] = [type |-> q.type, value |-> q.value, priority |-> q.priority,
                 fallback_score |-> q.fallback_score]
    BY ONLY <1>18, <2>3, <2>5, <2>6, <2>7, i \in 1 .. nQ, Zenon
  <2>9. q \in U
    BY <1>14, <2>1
  <2>10. q = [type |-> q.type, value |-> q.value, priority |-> q.priority,
              fallback_score |-> q.fallback_score]
    BY <1>14, <2>9, QualifierParts
  <2>11. rQ[i].distinct_qualifier_index < nC
    BY <1>3, <2>2, <2>7
  <2>12. QED
    BY ONLY <2>1, <2>8, <2>10, <2>11, Zenon
<1>20. rq = qs
  <2>1. DOMAIN rq = 1 .. nQ /\ rq = [i \in DOMAIN rq |-> rq[i]]
    BY ONLY <1>18, Zenon
  <2>2. DOMAIN qs = 1 .. nQ /\ qs = [i \in DOMAIN qs |-> qs[i]]
    BY <1>14
  <2>3. QED
    BY <1>19, <2>1, <2>2
<1>21. FlattenSeq(ss) = qs /\ FlattenSeq(ds) = ss /\ Len(qs) = nQ /\ Len(ss) = nS
  BY <1>2, <1>4 DEF AllQuals, AllSets
<1>22. Lists1(idx, 0, nS) /\ Lists1(idx, nS, nQ)
  <2>1. \A i \in 1 .. nS : Field(o6 + 2 * (i - 1), 2) = i - 1
    BY <1>2, <1>3, <1>8, DecisionRowsRead, Zenon
  <2>2. \A i \in 1 .. nQ : Field(o6 + 2 * (nS + i - 1), 2) = i - 1
    BY <1>2, <1>3, <1>8, DecisionRowsRead, Zenon
  <2>3. ASSUME NEW i \in 1 .. nS PROVE idx[0 + i] = i - 1
    BY <1>3, <1>9, <2>1
  <2>4. ASSUME NEW i \in 1 .. nQ PROVE idx[nS + i] = i - 1
    BY <1>3, <1>9, <2>2
  <2>5. QED
    BY <1>3, <1>11, <2>3, <2>4 DEF Lists1
<1>23. PICK rs : rs = sets
  OBVIOUS
<1>24. /\ rs = [i \in 1 .. nS |-> ResolveRange(idx, rS[i].first_qualifier_index,
                                               rS[i].number_of_qualifiers, rq)]
       /\ decisions = [i \in 1 .. nD |-> ResolveRange(idx, rD[i].first_qualifier_set_index,
                                                      rD[i].number_of_qualifier_sets, rs)]
  BY ONLY <1>8, <1>10, <1>11, <1>17, <1>23, Zenon DEF index_table
<1>25. ASSUME NEW i \in 1 .. nS
       PROVE  /\ Whole(idx, rS[i].first_qualifier_index, rS[i].number_of_qualifiers, rQ)
              /\ ResolveRange(idx, rS[i].first_qualifier_index, rS[i].number_of_qualifiers, rq) = ss[i]
  <2>1. PICK first, count : first = nS + Before(ss)[i] /\ count = Lengths(ss)[i]
    OBVIOUS
  <2>2. ss \in [1 .. nS -> Seq(U)] /\ Lists1(idx, nS, Len(FlattenSeq(ss)))
    BY <1>14, <1>21, <1>22
  <2>3. /\ \A table : Len(table) = Len(FlattenSeq(ss)) =>
                          Whole(idx, nS + Before(ss)[i], Lengths(ss)[i], table)
        /\ ResolveRange(idx, nS + Before(ss)[i], Lengths(ss)[i], FlattenSeq(ss)) = ss[i]
    BY ONLY <2>2, <1>3, i \in 1 .. nS, ResolveParts
  <2>4. Len(rQ) = Len(FlattenSeq(ss))
    BY <1>11, <1>21
  <2>5. rS[i].first_qualifier_index = nS + Before(ss)[i] /\ rS[i].number_of_qualifiers = Lengths(ss)[i]
    BY ONLY <1>12, i \in 1 .. nS, Zenon
  <2>6. QED
    BY ONLY <2>3, <2>4, <2>5, <1>20, <1>21, Zenon
<1>26. rs = ss
  <2>1. rs = [i \in 1 .. nS |-> ss[i]]
    BY ONLY <1>24, <1>25, Zenon
  <2>2. QED
    BY <2>1, <1>14
<1>27. ASSUME NEW i \in 1 .. nD
       PROVE  /\ Whole(idx, rD[i].first_qualifier_set_index, rD[i].number_of_qualifier_sets, rS)
              /\ ResolveRange(idx, rD[i].first_qualifier_set_index, rD[i].number_of_qualifier_sets, rs)
                   = ds[i]
  <2>1. PICK V : V = Seq(U)
    OBVIOUS
  <2>2. ds \in [1 .. nD -> Seq(V)] /\ Lists1(idx, 0, Len(FlattenSeq(ds))) /\ 0 \in Nat
    BY <1>14, <1>21, <1>22, <2>1
  <2>3. /\ \A table : Len(table) = Len(FlattenSeq(ds)) =>
                          Whole(idx, 0 + Before(ds)[i], Lengths(ds)[i], table)
        /\ ResolveRange(idx, 0 + Before(ds)[i], Lengths(ds)[i], FlattenSeq(ds)) = ds[i]
    <3>1. PICK z : z = 0
      OBVIOUS
    <3>2. Lists1(idx, z, Len(FlattenSeq(ds)))
      BY <2>2, <3>1
    <3>3. /\ \A table : Len(table) = Len(FlattenSeq(ds)) =>
                          Whole(idx, z + Before(ds)[i], Lengths(ds)[i], table)
          /\ ResolveRange(idx, z + Before(ds)[i], Lengths(ds)[i], FlattenSeq(ds)) = ds[i]
      BY ONLY <2>2, <3>2, <1>3, i \in 1 .. nD, ResolveParts
    <3>4. QED
      BY ONLY <3>1, <3>3, Zenon
  <2>4. Len(rS) = Len(FlattenSeq(ds))
    BY <1>11, <1>21
  <2>5. 0 + Before(ds)[i] = Before(ds)[i]
    <3>1. Lengths(ds) \in [1 .. nD -> Nat]
      BY <2>2, <1>3, FlattenParts
    <3>2. Sums(Lengths(ds)) \in [0 .. nD -> Nat]
      BY <3>1, <1>3, SumsRise
    <3>3. i - 1 \in 0 .. nD
      BY <1>3
    <3>4. Before(ds)[i] = Sums(Lengths(ds))[i - 1]
      BY <2>2 DEF Before
    <3>5. QED
      BY <3>2, <3>3, <3>4
  <2>6. rD[i].first_qualifier_set_index = Before(ds)[i] /\ rD[i].number_of_qualifier_sets = Lengths(ds)[i]
    BY ONLY <1>12, i \in 1 .. nD, Zenon
  <2>7. QED
    BY ONLY <2>3, <2>4, <2>5, <2>6, <1>21, <1>26, Zenon
<1>28. decisions = ds
  <2>1. decisions = [i \in 1 .. nD |-> ds[i]]
    BY ONLY <1>24, <1>27, Zenon
  <2>2. QED
    BY <2>1, <1>14
<1>29. ok
  <2>1. \A i \in 1 .. nC : rC[i].qualifier_type < Len(QualifierTypes)
    <3>1. \A i \in 1 .. nC : IndexIn(QualifierTypes, cs[i][1]) < Len(QualifierTypes)
      BY <1>14, QualifierTypeIndex
    <3>2. QED
      BY ONLY <3>1, <1>12, Zenon
  <2>2. QED
    BY ONLY <2>1, <1>8, <1>10, <1>11, <1>19, <1>25, <1>27, Zenon DEF index_table
<1>30. tables.size = SizeOf(WriteDecisions(c))
  <2>1. SizeOf(WriteDecisions(c))
          = 12 + nD * 4 + nS * 4 + nQ * 8 + nC * 12 + (nS + nQ) * 2 + nC * 10
    BY <1>2, DecisionsLaid, Zenon
  <2>2. PICK x, y : x = tables.size /\ y = SizeOf(WriteDecisions(c))
    OBVIOUS
  <2>3. x = y
    BY ONLY <1>3, <1>7, <2>1, <2>2
  <2>4. QED
    BY <2>2, <2>3
<1> HIDE DEF ok, decisions
<1>31. QED
  BY ONLY <1>1, <1>4, <1>28, <1>29, <1>30, Zenon DEF Built

-----------------------------------------------------------------------------
\* The data item section.

\* A row of a table of couples, as fields of two widths.
LEMMA CoupleRow ==
  ASSUME NEW n, NEW k, Positive(k), NEW f, NEW g, Column(n, f), Column(n, g), NEW at, NEW o \in Nat,
         Laid(at, o, Couples(n, k, f, g)), NEW i \in 1 .. n, NEW p, p = o + (i - 1) * (2 * k),
         NEW s, s = << <<f[i], k>>, <<g[i], k>> >>
  PROVE  Laid(at, p, s) /\ s \in Written /\ Widths(s) = <<k, k>> /\ p \in Nat
<1>0. n \in Nat /\ f \in [1 .. n -> Values] /\ g \in [1 .. n -> Values] /\ k \in Nat /\ k \in Nat \ {0}
  BY DEF Column, Positive
<1>1. PICK ss : ss = [j \in 1 .. n |-> << <<f[j], k>>, <<g[j], k>> >>]
  OBVIOUS
<1>2. ASSUME NEW j \in 1 .. n PROVE ss[j] \in Written /\ SizeOf(ss[j]) = 2 * k
  <2>1. PICK t, v, w : t = ss[j] /\ v = f[j] /\ w = g[j]
    OBVIOUS
  <2>2. v \in Values /\ w \in Values /\ t = << <<v, k>>, <<w, k>> >>
    BY <1>0, <1>1, <2>1
  <2>3. QED
    BY <2>1, <2>2, CoupleSize
<1>3. PICK z \in Nat : z = 2 * k
  BY <1>0
<1>4. ss \in [1 .. n -> Written] /\ \A j \in 1 .. n : SizeOf(ss[j]) = z
  BY <1>0, <1>1, <1>2, <1>3
<1>5. Laid(at, o, FlattenSeq(ss))
  BY <1>1 DEF Couples
<1>6. \A j \in 1 .. n : Laid(at, o + (j - 1) * z, ss[j])
  BY <1>0, <1>4, <1>5, EachWritten
<1>7. Laid(at, p, s)
  <2>1. p = o + (i - 1) * z
    BY <1>3
  <2>2. s = ss[i]
    BY <1>1
  <2>3. QED
    BY <1>6, <2>1, <2>2
<1>8. s \in Written /\ Widths(s) = <<k, k>>
  BY <1>0 DEF Written, Widths
<1>9. p \in Nat
  <2>1. i - 1 \in Nat
    BY <1>0
  <2>2. (i - 1) * z \in Nat
    BY <1>3, <2>1
  <2>3. QED
    BY <1>3, <2>2
<1>10. QED
  BY <1>7, <1>8, <1>9

\* Tables of pairs of short and of long numbers, read as the entries they are.
LEMMA ShortPairsRead ==
  ASSUME NEW n, NEW f, NEW g, Column(n, f), Column(n, g), NEW o \in Nat,
         Laid(file.at, o, Couples(n, 2, f, g)), NEW i \in 1 .. n
  PROVE  /\ Get(StringEntry, o + (i - 1) * 4).offset = f[i]
         /\ Get(StringEntry, o + (i - 1) * 4).length = g[i]
         /\ Get(ItemToItemInfoGroupEntry, o + (i - 1) * 4).first_item_index_property = f[i]
         /\ Get(ItemToItemInfoGroupEntry, o + (i - 1) * 4).iteminfo_group_index = g[i]
         /\ Get(ItemInfoGroupEntry, o + (i - 1) * 4).number_of_iteminfos = f[i]
         /\ Get(ItemInfoGroupEntry, o + (i - 1) * 4).first_iteminfo_index = g[i]
         /\ Get(ItemInfoEntry, o + (i - 1) * 4).decision_index = f[i]
         /\ Get(ItemInfoEntry, o + (i - 1) * 4).first_candidate_index = g[i]
<1>1. PICK k, p, s : k = 2 /\ p = o + (i - 1) * 4 /\ s = << <<f[i], k>>, <<g[i], k>> >>
  OBVIOUS
<1>2. Positive(k) /\ Laid(file.at, o, Couples(n, k, f, g)) /\ p = o + (i - 1) * (2 * k)
  BY <1>1, TwoIsPositive DEF Column
<1>3. Laid(file.at, p, s) /\ s \in Written /\ Widths(s) = <<k, k>> /\ p \in Nat
  BY ONLY <1>1, <1>2, Column(n, f), Column(n, g), o \in Nat, i \in 1 .. n, CoupleRow
<1>4. Widths(s) = <<2, 2>> /\ s[1][1] = f[i] /\ s[2][1] = g[i]
  BY <1>1, <1>3
<1>5. Get(StringEntry, p).offset = f[i] /\ Get(StringEntry, p).length = g[i]
  BY <1>3, <1>4, StringEntryRead
<1>6. /\ Get(ItemToItemInfoGroupEntry, p).first_item_index_property = f[i]
      /\ Get(ItemToItemInfoGroupEntry, p).iteminfo_group_index = g[i]
  BY <1>3, <1>4, ItemToItemInfoGroupEntryRead
<1>7. /\ Get(ItemInfoGroupEntry, p).number_of_iteminfos = f[i]
      /\ Get(ItemInfoGroupEntry, p).first_iteminfo_index = g[i]
  BY <1>3, <1>4, ItemInfoGroupEntryRead
<1>8. Get(ItemInfoEntry, p).decision_index = f[i] /\ Get(ItemInfoEntry, p).first_candidate_index = g[i]
  BY <1>3, <1>4, ItemInfoEntryRead
<1>9. QED
  BY ONLY <1>1, <1>5, <1>6, <1>7, <1>8, Zenon

\* The rows of tables of four-byte pairs, in each type they are read as.
LEMMA LongPairsRead ==
  ASSUME NEW n, NEW f, NEW g, Column(n, f), Column(n, g), NEW o \in Nat,
         Laid(file.at, o, Couples(n, 4, f, g)), NEW i \in 1 .. n
  PROVE  /\ Get(BlobEntry, o + (i - 1) * 8).offset = f[i]
         /\ Get(BlobEntry, o + (i - 1) * 8).length = g[i]
         /\ Get(ItemToItemInfoGroupEntryExt, o + (i - 1) * 8).first_item_index_property = f[i]
         /\ Get(ItemToItemInfoGroupEntryExt, o + (i - 1) * 8).iteminfo_group_index = g[i]
         /\ Get(ItemInfoGroupEntryExt, o + (i - 1) * 8).number_of_iteminfos = f[i]
         /\ Get(ItemInfoGroupEntryExt, o + (i - 1) * 8).first_iteminfo_index = g[i]
         /\ Get(ItemInfoEntryExt, o + (i - 1) * 8).decision_index = f[i]
         /\ Get(ItemInfoEntryExt, o + (i - 1) * 8).first_candidate_index = g[i]
         /\ Get(ResourceValueTypeEntry, o + (i - 1) * 8).resource_value_type = g[i]
<1>1. PICK k, p, s : k = 4 /\ p = o + (i - 1) * 8 /\ s = << <<f[i], k>>, <<g[i], k>> >>
  OBVIOUS
<1>2. Positive(k) /\ Laid(file.at, o, Couples(n, k, f, g)) /\ p = o + (i - 1) * (2 * k)
  BY <1>1 DEF Column, Positive
<1>a. PICK at : at = file.at
  OBVIOUS
<1>b. Positive(k)
  BY <1>2
<1>c. Laid(at, o, Couples(n, k, f, g))
  BY <1>2, <1>a
<1>d. p = o + (i - 1) * (2 * k)
  BY <1>2
<1>e. s = << <<f[i], k>>, <<g[i], k>> >>
  BY <1>1
<1>f. Laid(at, p, s) /\ s \in Written /\ Widths(s) = <<k, k>> /\ p \in Nat
  BY ONLY <1>b, <1>c, <1>d, <1>e, Column(n, f), Column(n, g), o \in Nat, i \in 1 .. n, CoupleRow
<1>3. Laid(file.at, p, s) /\ s \in Written /\ Widths(s) = <<k, k>> /\ p \in Nat
  BY <1>a, <1>f
<1>4. Widths(s) = <<4, 4>> /\ s[1][1] = f[i] /\ s[2][1] = g[i]
  BY <1>1, <1>3
<1>5. Get(BlobEntry, p).offset = f[i] /\ Get(BlobEntry, p).length = g[i]
  BY <1>3, <1>4, BlobEntryRead
<1>6. /\ Get(ItemToItemInfoGroupEntryExt, p).first_item_index_property = f[i]
      /\ Get(ItemToItemInfoGroupEntryExt, p).iteminfo_group_index = g[i]
  BY <1>3, <1>4, ItemToItemInfoGroupEntryExtRead
<1>7. /\ Get(ItemInfoGroupEntryExt, p).number_of_iteminfos = f[i]
      /\ Get(ItemInfoGroupEntryExt, p).first_iteminfo_index = g[i]
  BY <1>3, <1>4, ItemInfoGroupEntryExtRead
<1>8. /\ Get(ItemInfoEntryExt, p).decision_index = f[i]
      /\ Get(ItemInfoEntryExt, p).first_candidate_index = g[i]
  BY <1>3, <1>4, ItemInfoEntryExtRead
<1>9. Get(ResourceValueTypeEntry, p).resource_value_type = g[i]
  BY <1>3, <1>4, ResourceValueTypeEntryRead
<1>10. QED
  BY ONLY <1>1, <1>5, <1>6, <1>7, <1>8, <1>9, Zenon

\* A list r of the n elements of s and the m of t.
Behind(T, n, m, s, t, r) ==
  /\ r \in [1 .. n + m -> T] /\ Len(r) = n + m
  /\ \A i \in 1 .. n : r[i] = s[i]
  /\ \A i \in 1 .. m : r[n + i] = t[i]

\* The elements of two lists one behind the other.
LEMMA CatRows ==
  ASSUME NEW n \in Nat, NEW m \in Nat, NEW T, NEW s \in [1 .. n -> T], NEW t \in [1 .. m -> T],
         NEW r, r = s \o t
  PROVE  Behind(T, n, m, s, t, r)
<1>1. s \in Seq(T) /\ t \in Seq(T) /\ Len(s) = n /\ Len(t) = m
  OBVIOUS
<1>2. ASSUME NEW x \in Seq(T), NEW y \in Seq(T)
      PROVE  /\ x \o y \in Seq(T) /\ Len(x \o y) = Len(x) + Len(y)
             /\ \A i \in 1 .. Len(x) : (x \o y)[i] = x[i]
             /\ \A i \in 1 .. Len(y) : (x \o y)[Len(x) + i] = y[i]
  OBVIOUS
<1>3. r = s \o t
  OBVIOUS
<1>4. /\ s \o t \in Seq(T) /\ Len(s \o t) = Len(s) + Len(t)
      /\ \A i \in 1 .. Len(s) : (s \o t)[i] = s[i]
      /\ \A i \in 1 .. Len(t) : (s \o t)[Len(s) + i] = t[i]
  BY ONLY <1>1, <1>2, Zenon
<1>5. /\ r \in Seq(T) /\ Len(r) = Len(s) + Len(t)
      /\ \A i \in 1 .. Len(s) : r[i] = s[i]
      /\ \A i \in 1 .. Len(t) : r[Len(s) + i] = t[i]
  BY ONLY <1>3, <1>4, Zenon
<1>6. /\ r \in [1 .. n + m -> T] /\ Len(r) = n + m
      /\ \A i \in 1 .. n : r[i] = s[i]
      /\ \A i \in 1 .. m : r[n + i] = t[i]
  BY ONLY <1>1, <1>5
<1>7. QED
  BY <1>5, <1>6 DEF Behind

\* One list of fields behind another, as it is written with the operator.
LEMMA TwoPieces ==
  ASSUME NEW s \in Written, NEW t \in Written, NEW r, r = s \o t
  PROVE  /\ r \in Written /\ SizeOf(r) = SizeOf(s) + SizeOf(t)
         /\ SizeOf(s) \in Nat /\ SizeOf(t) \in Nat
         /\ \A at, o : o \in Nat /\ Laid(at, o, r) => Laid(at, o, s) /\ Laid(at, o + SizeOf(s), t)
<1>1. s \in Fields /\ t \in Fields
  BY WrittenIsFields
<1>2. r \in Written
  BY DEF Written
<1>3. SizeOf(s) \in Nat /\ SizeOf(t) \in Nat
  BY <1>1, FieldsDef
<1>4. SizeOf(r) = SizeOf(s) + SizeOf(t)
  BY <1>1, ConcatFields
<1>5. \A at, o : o \in Nat /\ Laid(at, o, r) => Laid(at, o, s) /\ Laid(at, o + SizeOf(s), t)
  BY <1>1, LaidConcat
<1>6. QED
  BY <1>2, <1>3, <1>4, <1>5

\* The variants of all items, and those stored in one way.
LEMMA VariantList ==
  ASSUME NEW c, ItemsAreWellFormed(c)
  PROVE  \E V : /\ \A v \in V : IsVariant(v)
                /\ AllVariants(c) \in Seq(V)
                /\ [i \in 1 .. Len(c.items) |-> c.items[i].variants] \in [1 .. Len(c.items) -> Seq(V)]
                /\ Len(c.items) \in Nat /\ DOMAIN c.items = 1 .. Len(c.items)
                /\ AllVariants(c) = FlattenSeq([i \in 1 .. Len(c.items) |-> c.items[i].variants])
<1>1. PICK I : I = c.items
  OBVIOUS
<1>2. /\ I \in Seq(Range(I))
      /\ \A item \in Range(I) : /\ item.variants \in Seq(Range(item.variants))
                                /\ \A v \in Range(item.variants) : IsVariant(v)
  <2>1. I \in Seq(Range(I))
    BY <1>1 DEF ItemsAreWellFormed, IsList
  <2>2. ASSUME NEW item \in Range(I)
        PROVE  /\ item.variants \in Seq(Range(item.variants))
               /\ \A v \in Range(item.variants) : IsVariant(v)
    <3>1. item \in [prop : Nat, decision : DOMAIN c.decisions, variants : Seq(Range(item.variants))]
      BY <1>1, Zenon DEF ItemsAreWellFormed
    <3>2. \A v \in Range(item.variants) : IsVariant(v)
      BY <1>1, Zenon DEF ItemsAreWellFormed
    <3>3. QED
      BY <3>1, <3>2
  <2>3. QED
    BY <2>1, <2>2
<1>3. PICK n \in Nat : n = Len(I) /\ DOMAIN I = 1 .. n
  BY <1>2
<1>4. PICK V : V = UNION {Range(item.variants) : item \in Range(I)}
  OBVIOUS
<1>5. \A v \in V : IsVariant(v)
  BY <1>2, <1>4
<1>6. PICK ss : ss = [i \in 1 .. n |-> I[i].variants]
  OBVIOUS
<1>7. ss \in [1 .. n -> Seq(V)]
  <2>1. ASSUME NEW i \in 1 .. n PROVE I[i].variants \in Seq(V)
    <3>1. PICK item, vs : item = I[i] /\ vs = item.variants
      OBVIOUS
    <3>2. item \in Range(I)
      BY <1>3, <3>1 DEF Range
    <3>3. vs \in Seq(Range(vs)) /\ Range(vs) \subseteq V
      BY <1>2, <1>4, <3>1, <3>2
    <3>4. QED
      BY <3>1, <3>3
  <2>2. QED
    BY <1>6, <2>1
<1>8. AllVariants(c) = FlattenSeq(ss)
  BY <1>1, <1>3, <1>6 DEF AllVariants, Each
<1>9. FlattenSeq(ss) \in Seq(V)
  BY <1>7, FlattenParts
<1>10. QED
  BY <1>1, <1>3, <1>5, <1>6, <1>7, <1>8, <1>9

\* A variant is of a store, a type and data that can be written.
LEMMA VariantParts ==
  ASSUME NEW v, IsVariant(v)
  PROVE  /\ v.store \in Stores /\ v.type \in Range(ResourceValueTypes)
         /\ v.data \in Values
         /\ v.store = "External" => v.data \in Nat
         /\ v = [store |-> v.store, type |-> v.type, data |-> v.data]
<1>1. PICK D, S, T : /\ D = (IF v.store = "External" THEN Nat ELSE STRING)
                     /\ S = Stores /\ T = Range(ResourceValueTypes)
  OBVIOUS
<1>2. v \in [store : S, type : T, data : D]
  BY <1>1, Zenon DEF IsVariant
<1>3. /\ v.store \in S /\ v.type \in T /\ v.data \in D
      /\ v = [store |-> v.store, type |-> v.type, data |-> v.data]
  BY <1>2
<1>4. D \subseteq Values
  <2>1. Nat \subseteq Int
    OBVIOUS
  <2>2. Nat \subseteq Values /\ STRING \subseteq Values
    BY ONLY <2>1, Zenon DEF Values
  <2>3. QED
    BY <1>1, <2>2, Zenon
<1>5. v.store = "External" => v.data \in Nat
  BY <1>1, <1>3, Zenon
<1>6. QED
  BY <1>1, <1>3, <1>4, <1>5

\* The variants stored in a given way, each with its place among them.
LEMMA StoredList ==
  ASSUME NEW V, NEW c, AllVariants(c) \in Seq(V), NEW st
  PROVE  /\ StoredAs(c, st) \in Seq(V)
         /\ \A k \in 1 .. Len(StoredAs(c, st)) : StoredAs(c, st)[k].store = st
         /\ \A i \in 1 .. Len(AllVariants(c)) : AllVariants(c)[i].store = st =>
              \E k \in 1 .. Len(StoredAs(c, st)) : StoredAs(c, st)[k] = AllVariants(c)[i]
<1>1. PICK a : a = AllVariants(c)
  OBVIOUS
<1>2. PICK n \in Nat : n = Len(a)
  BY <1>1
<1>3. a \in [1 .. n -> V]
  BY <1>1, <1>2
<1>4. PICK places : places = {i \in DOMAIN a : a[i].store = st}
  OBVIOUS
<1>5. PICK t : t = Those(a, places)
  OBVIOUS
<1>6. /\ t \in Seq(V)
      /\ \A i \in (1 .. n) \cap places : \E k \in 1 .. Len(t) : t[k] = a[i]
      /\ \A k \in 1 .. Len(t) : \E i \in (1 .. n) \cap places : t[k] = a[i]
  <2>1. /\ Those(a, places) \in Seq(V)
        /\ \A i \in (1 .. n) \cap places :
             \E k \in 1 .. Len(Those(a, places)) : Those(a, places)[k] = a[i]
        /\ \A k \in 1 .. Len(Those(a, places)) :
             \E i \in (1 .. n) \cap places : Those(a, places)[k] = a[i]
    BY <1>3, ThoseList
  <2>2. QED
    BY ONLY <2>1, <1>5, Zenon
<1>7. StoredAs(c, st) = t
  BY <1>1, <1>4, <1>5 DEF StoredAs
<1>8. \A i \in (1 .. n) \cap places : a[i].store = st
  BY <1>4
<1>9. \A i \in 1 .. n : a[i].store = st => i \in (1 .. n) \cap places
  BY <1>3, <1>4
<1>10. QED
  BY <1>1, <1>2, <1>6, <1>7, <1>8, <1>9

\* The strings and blobs of a data item section, and the tables they are in.
Stored(c)  == StoredAs(c, "DataString") \o StoredAs(c, "DataBlob")
Strings(c) == Len(StoredAs(c, "DataString"))
Blobs(c)   == Len(StoredAs(c, "DataBlob"))
StringOffsets(c) == [i \in 1 .. Strings(c) |-> 4 * (i - 1)]
BlobOffsets(c)   == [i \in 1 .. Blobs(c) |-> 4 * (Strings(c) + i - 1)]
Fours(n)         == [i \in 1 .. n |-> 4]
StoredData(c)    == [i \in 1 .. Strings(c) + Blobs(c) |-> Stored(c)[i].data]
DataItemCounts(c) ==
  << <<0, 4>>, <<Strings(c), 2>>, <<Blobs(c), 2>>, <<4 * (Strings(c) + Blobs(c)), 4>> >>

\* The strings and then the blobs of the variants kept in the section.
LEMMA StoredParts ==
  ASSUME NEW c, ItemsAreWellFormed(c)
  PROVE  /\ Strings(c) \in Nat /\ Blobs(c) \in Nat
         /\ Len(Stored(c)) = Strings(c) + Blobs(c)
         /\ DOMAIN Stored(c) = 1 .. Strings(c) + Blobs(c)
         /\ DOMAIN StoredAs(c, "DataString") = 1 .. Strings(c)
         /\ DOMAIN StoredAs(c, "DataBlob") = 1 .. Blobs(c)
         /\ \A i \in 1 .. Strings(c) : Stored(c)[i] = StoredAs(c, "DataString")[i]
         /\ \A i \in 1 .. Blobs(c) : Stored(c)[Strings(c) + i] = StoredAs(c, "DataBlob")[i]
         /\ \A i \in 1 .. Strings(c) + Blobs(c) :
              /\ IsVariant(Stored(c)[i])
              /\ Stored(c)[i].store \in {"DataString", "DataBlob"}
<1>1. PICK V : (\A v \in V : IsVariant(v)) /\ AllVariants(c) \in Seq(V)
  BY VariantList
<1>2. PICK s, b : s = StoredAs(c, "DataString") /\ b = StoredAs(c, "DataBlob")
  OBVIOUS
<1>a. PICK d, e : d = "DataString" /\ e = "DataBlob"
  OBVIOUS
<1>3. /\ s \in Seq(V) /\ b \in Seq(V)
      /\ \A k \in 1 .. Len(s) : s[k].store = d
      /\ \A k \in 1 .. Len(b) : b[k].store = e
  <2>1. /\ StoredAs(c, d) \in Seq(V) /\ StoredAs(c, e) \in Seq(V)
        /\ \A k \in 1 .. Len(StoredAs(c, d)) : StoredAs(c, d)[k].store = d
        /\ \A k \in 1 .. Len(StoredAs(c, e)) : StoredAs(c, e)[k].store = e
    BY <1>1, StoredList
  <2>2. QED
    BY ONLY <1>2, <1>a, <2>1, Zenon
<1>4. PICK n, m : n = Len(s) /\ m = Len(b)
  OBVIOUS
<1>5. n \in Nat /\ m \in Nat /\ s \in [1 .. n -> V] /\ b \in [1 .. m -> V]
  BY <1>3, <1>4
<1>6. PICK r : r = s \o b
  OBVIOUS
<1>7. /\ r \in [1 .. n + m -> V] /\ Len(r) = n + m
      /\ \A i \in 1 .. n : r[i] = s[i]
      /\ \A i \in 1 .. m : r[n + i] = b[i]
  <2>1. Behind(V, n, m, s, b, r)
    BY ONLY <1>5, <1>6, CatRows
  <2>2. QED
    BY ONLY <2>1, Zenon DEF Behind
<1>8. Strings(c) = n /\ Blobs(c) = m /\ Stored(c) = r
  BY ONLY <1>2, <1>4, <1>6, Zenon DEF Strings, Blobs, Stored
<1>9. ASSUME NEW i \in 1 .. n + m PROVE IsVariant(r[i]) /\ r[i].store \in {d, e}
  <2>1. IsVariant(r[i])
    BY <1>1, <1>7
  <2>2. CASE i \in 1 .. n
    <3>1. r[i] = s[i] /\ s[i].store = d
      BY <2>2, <1>3, <1>4, <1>7
    <3>2. QED
      BY <2>1, <3>1
  <2>3. CASE i \notin 1 .. n
    <3>1. PICK j : j = i - n
      OBVIOUS
    <3>2. j \in 1 .. m /\ n + j = i
      BY <1>5, <2>3, <3>1
    <3>3. r[i] = b[j]
      BY <1>7, <3>2
    <3>4. QED
      BY <2>1, <3>2, <3>3, <1>3, <1>4
  <2>4. QED
    BY <2>1, <2>2, <2>3
<1>10. DOMAIN r = 1 .. n + m /\ DOMAIN s = 1 .. n /\ DOMAIN b = 1 .. m
  BY <1>5, <1>7
<1>11. QED
  BY ONLY <1>2, <1>a, <1>5, <1>7, <1>8, <1>9, <1>10, Zenon

\* What a data item section takes and where its tables lie.
LEMMA DataItemsLaid ==
  ASSUME NEW c, ItemsAreWellFormed(c)
  PROVE  LET S == Strings(c)
             B == Blobs(c)
         IN  /\ WriteDataItems(c) \in Written
             /\ SizeOf(WriteDataItems(c)) = 12 + S * 4 + B * 8 + (S + B) * 4
             /\ \A at, o : o \in Nat /\ Laid(at, o, WriteDataItems(c)) =>
                  /\ Laid(at, o, DataItemCounts(c))
                  /\ Laid(at, o + 12, Couples(S, 2, StringOffsets(c), Fours(S)))
                  /\ Laid(at, o + 12 + S * 4, Couples(B, 4, BlobOffsets(c), Fours(B)))
                  /\ Laid(at, o + 12 + S * 4 + B * 8, Singles(S + B, 4, StoredData(c)))
             /\ DataItemCounts(c) \in Written /\ Widths(DataItemCounts(c)) = <<4, 2, 2, 4>>
             /\ Column(S, StringOffsets(c)) /\ Column(B, BlobOffsets(c))
             /\ Column(S, Fours(S)) /\ Column(B, Fours(B)) /\ Column(S + B, StoredData(c))
<1>1. PICK S, B : S = Strings(c) /\ B = Blobs(c)
  OBVIOUS
<1>2. S \in Nat /\ B \in Nat /\ S + B \in Nat
  BY <1>1, StoredParts
<1>3. Int \subseteq Values /\ 0 \in Values
  BY DEF Values
<1>4. PICK p1, p2, p3, p4 :
        /\ p1 = DataItemCounts(c)
        /\ p2 = Couples(S, 2, StringOffsets(c), Fours(S))
        /\ p3 = Couples(B, 4, BlobOffsets(c), Fours(B))
        /\ p4 = Singles(S + B, 4, StoredData(c))
  BY Zenon
<1>5. /\ Column(S, StringOffsets(c)) /\ Column(B, BlobOffsets(c))
      /\ Column(S, Fours(S)) /\ Column(B, Fours(B)) /\ Column(S + B, StoredData(c))
  <2>1. StringOffsets(c) \in [1 .. S -> Int] /\ BlobOffsets(c) \in [1 .. B -> Int]
    BY <1>1, <1>2 DEF StringOffsets, BlobOffsets
  <2>2. ASSUME NEW n \in Nat PROVE Fours(n) \in [1 .. n -> Int]
    BY DEF Fours
  <2>3. StoredData(c) \in [1 .. S + B -> Values]
    <3>1. \A i \in 1 .. S + B : Stored(c)[i].data \in Values
      BY <1>1, StoredParts, VariantParts
    <3>2. QED
      BY <1>1, <3>1 DEF StoredData
  <2>4. QED
    BY <1>2, <1>3, <2>1, <2>2, <2>3 DEF Column
<1>6. p1 \in Written /\ Widths(p1) = <<4, 2, 2, 4>> /\ SizeOf(p1) = 12
  <2>1. PICK x : x = 4 * (S + B)
    OBVIOUS
  <2>2. S \in Values /\ B \in Values /\ x \in Values
    BY <1>2, <1>3, <2>1
  <2>3. p1 = << <<0, 4>>, <<S, 2>>, <<B, 2>>, <<x, 4>> >>
    BY ONLY <1>1, <1>4, <2>1, Zenon DEF DataItemCounts
  <2>4. p1 \in Written /\ Widths(p1) = <<4, 2, 2, 4>>
    BY <1>3, <2>2, <2>3 DEF Written, Widths
  <2>5. QED
    BY <2>4, DataItemHeaderRead
<1>7. p2 \in Written /\ SizeOf(p2) = S * 4
  <2>1. p2 \in Written /\ SizeOf(p2) = S * (2 * 2)
    BY <1>4, <1>5, CoupleTable, TwoIsPositive
  <2>2. QED
    BY <2>1
<1>8. p3 \in Written /\ SizeOf(p3) = B * 8
  <2>1. PICK k : k = 4
    OBVIOUS
  <2>2. Positive(k) /\ p3 = Couples(B, k, BlobOffsets(c), Fours(B))
    BY <1>4, <2>1 DEF Positive
  <2>3. p3 \in Written /\ SizeOf(p3) = B * (2 * k)
    BY <1>5, <2>2, CoupleTable
  <2>4. QED
    BY <1>2, <2>1, <2>3
<1>9. p4 \in Written /\ SizeOf(p4) = (S + B) * 4
  <2>1. PICK k, n : k = 4 /\ n = S + B
    OBVIOUS
  <2>2. Positive(k) /\ p4 = Singles(n, k, StoredData(c)) /\ Column(n, StoredData(c))
    BY <1>4, <1>5, <2>1 DEF Positive
  <2>3. p4 \in Written /\ SizeOf(p4) = n * k
    BY <2>2, SingleTable
  <2>4. QED
    BY <2>1, <2>3
<1>10. WriteDataItems(c) = p1 \o p2 \o p3 \o p4
  <2> DEFINE strings == StoredAs(c, "DataString")
             blobs   == StoredAs(c, "DataBlob")
             stored  == strings \o blobs
             Offset(i) == DataLength * (i - 1)
             q1 == <<U32(0), U16(Len(strings)), U16(Len(blobs)), U32(DataLength * Len(stored))>>
             q2 == Each(Upto(strings), LAMBDA i : <<U16(Offset(i)), U16(DataLength)>>)
             q3 == Each(Upto(blobs), LAMBDA i : <<U32(Offset(Len(strings) + i)), U32(DataLength)>>)
             q4 == Each(stored, LAMBDA v : <<Block(v.data, DataLength)>>)
  <2>1. WriteDataItems(c) = q1 \o q2 \o q3 \o q4
    BY ONLY Zenon DEF WriteDataItems
  <2>2. stored = Stored(c) /\ Len(strings) = S /\ Len(blobs) = B
    BY ONLY <1>1, Zenon DEF Stored, Strings, Blobs
  <2>3. DOMAIN strings = 1 .. S /\ DOMAIN blobs = 1 .. B /\ DOMAIN stored = 1 .. S + B /\ Len(stored) = S + B
    BY ONLY <1>1, <2>2, ItemsAreWellFormed(c), StoredParts, Zenon
  <2> HIDE DEF strings, blobs, stored
  <2>4. q1 = p1
    BY <1>1, <1>4, <2>2, <2>3 DEF DataItemCounts, U16, U32, DataLength
  <2>5. q2 = p2
    BY <1>1, <1>2, <1>4, <2>3 DEF Each, Upto, Couples, StringOffsets, Fours, U16, DataLength
  <2>6. q3 = p3
    <3>1. PICK rows : rows = [i \in 1 .. B |-> << <<4 * (S + i - 1), 4>>, <<4, 4>> >>]
      OBVIOUS
    <3>2. q3 = FlattenSeq(rows)
      <4>1. q3 = FlattenSeq([i \in DOMAIN blobs |->
                               << <<4 * ((Len(strings) + i) - 1), 4>>, <<4, 4>> >>])
        BY DEF q3, Each, Upto, U32, DataLength
      <4>2. [i \in DOMAIN blobs |-> << <<4 * ((Len(strings) + i) - 1), 4>>, <<4, 4>> >>] = rows
        BY ONLY <2>2, <2>3, <3>1
      <4>3. QED
        BY ONLY <4>1, <4>2, Zenon
    <3>3. p3 = FlattenSeq(rows)
      BY ONLY <1>1, <1>4, <3>1 DEF Couples, BlobOffsets, Fours
    <3>4. QED
      BY <3>2, <3>3
  <2>7. q4 = p4
    BY <1>1, <1>4, <2>2, <2>3 DEF Each, Singles, StoredData, Block, DataLength
  <2> HIDE DEF q1, q2, q3, q4
  <2>8. QED
    BY ONLY <2>1, <2>4, <2>5, <2>6, <2>7, Zenon
<1>11. PICK r2, r3, r4 : r2 = p1 \o p2 /\ r3 = r2 \o p3 /\ r4 = r3 \o p4
  BY Zenon
<1>12. /\ r2 \in Written /\ SizeOf(r2) = SizeOf(p1) + SizeOf(p2)
       /\ \A at, o : o \in Nat /\ Laid(at, o, r2) => Laid(at, o, p1) /\ Laid(at, o + SizeOf(p1), p2)
  BY ONLY <1>6, <1>7, <1>11, TwoPieces
<1>13. /\ r3 \in Written /\ SizeOf(r3) = SizeOf(r2) + SizeOf(p3)
       /\ \A at, o : o \in Nat /\ Laid(at, o, r3) => Laid(at, o, r2) /\ Laid(at, o + SizeOf(r2), p3)
  BY ONLY <1>8, <1>11, <1>12, TwoPieces
<1>14. /\ r4 \in Written /\ SizeOf(r4) = SizeOf(r3) + SizeOf(p4)
       /\ \A at, o : o \in Nat /\ Laid(at, o, r4) => Laid(at, o, r3) /\ Laid(at, o + SizeOf(r3), p4)
  BY ONLY <1>9, <1>11, <1>13, TwoPieces
<1>15. /\ SizeOf(p1) = 12 /\ SizeOf(r2) = 12 + S * 4 /\ SizeOf(r3) = 12 + S * 4 + B * 8
       /\ SizeOf(r4) = 12 + S * 4 + B * 8 + (S + B) * 4
  BY ONLY <1>6, <1>7, <1>8, <1>9, <1>12, <1>13, <1>14, Zenon
<1>16. WriteDataItems(c) = r4
  BY ONLY <1>10, <1>11, Zenon
<1>17. ASSUME NEW at, NEW o \in Nat, Laid(at, o, r4)
       PROVE  /\ Laid(at, o, p1) /\ Laid(at, o + 12, p2) /\ Laid(at, o + 12 + S * 4, p3)
              /\ Laid(at, o + 12 + S * 4 + B * 8, p4)
  <2>1. /\ Laid(at, o, p1) /\ Laid(at, o + SizeOf(p1), p2) /\ Laid(at, o + SizeOf(r2), p3)
        /\ Laid(at, o + SizeOf(r3), p4)
    BY ONLY <1>12, <1>13, <1>14, <1>17, o \in Nat, Zenon
  <2>2. PICK x, y : x = S * 4 /\ y = B * 8
    OBVIOUS
  <2>3. o + (12 + x) = o + 12 + x /\ o + (12 + x + y) = o + 12 + x + y
    BY <1>2, <2>2
  <2>4. QED
    BY ONLY <2>1, <2>2, <2>3, <1>15, Zenon
<1>18. QED
  BY ONLY <1>1, <1>4, <1>5, <1>6, <1>14, <1>15, <1>16, <1>17, Zenon

\* The tables of a data item section, and their places.
DataItemTablesOf(S, B) ==
  Struct(<<"header", "strings", "blobs", "stored">>, <<12, S * 4, B * 8, 4 * (S + B)>>)

DataItemPlaces(tables, S, B) ==
  /\ tables.size = 12 + S * 4 + B * 8 + 4 * (S + B)
  /\ tables.at.strings = <<12, S * 4>>
  /\ tables.at.blobs = <<12 + S * 4, B * 8>>
  /\ tables.at.stored = <<12 + S * 4 + B * 8, 4 * (S + B)>>

\* The places BuildDataItems computes for the tables from the counts.
LEMMA DataItemTables ==
  ASSUME NEW S \in Nat, NEW B \in Nat, NEW tables, tables = DataItemTablesOf(S, B)
  PROVE  DataItemPlaces(tables, S, B)
<1>1. PICK n1, n2, n3, n4 : n1 = "header" /\ n2 = "strings" /\ n3 = "blobs" /\ n4 = "stored"
  BY Zenon
<1>2. /\ n1 # n2 /\ n1 # n3 /\ n1 # n4 /\ n1 # Skip /\ n2 # n3 /\ n2 # n4 /\ n2 # Skip
      /\ n3 # n4 /\ n3 # Skip /\ n4 # Skip
  BY <1>1 DEF Skip
<1>3. PICK w2, w3, w4 : w2 = S * 4 /\ w3 = B * 8 /\ w4 = 4 * (S + B)
  OBVIOUS
<1>4. w2 \in Nat /\ w3 \in Nat /\ w4 \in Nat
  BY <1>3
<1>5. PICK names, w : names = <<n1, n2, n3, n4>> /\ w = <<12, w2, w3, w4>>
  OBVIOUS
<1>6. PICK n \in Nat : n = 4
  OBVIOUS
<1>7. Record(n, names, w) /\ Numbers(n, w)
  BY <1>2, <1>4, <1>5, <1>6 DEF Record, Numbers
<1>8. tables = Struct(names, w)
  BY <1>1, <1>3, <1>5, Zenon DEF DataItemTablesOf
<1>9. PICK t : t = Sums(w)
  OBVIOUS
<1>10. /\ tables.size = t[n]
       /\ \A i \in 1 .. n : names[i] # Skip => tables.at[names[i]] = <<t[i - 1], w[i]>>
  BY <1>6, <1>7, <1>8, <1>9, StructDef
<1>11. /\ t[1] = 12 /\ t[2] = 12 + w2 /\ t[3] = 12 + w2 + w3 /\ t[4] = 12 + w2 + w3 + w4
  BY <1>5, <1>6, <1>7, <1>9, SumsOfFew
<1>12. /\ tables.at[n2] = <<t[1], w2>> /\ tables.at[n3] = <<t[2], w3>> /\ tables.at[n4] = <<t[3], w4>>
  BY <1>2, <1>5, <1>6, <1>10
<1>13. tables.size = t[4]
  BY <1>6, <1>10
<1>14. QED
  BY ONLY <1>1, <1>3, <1>11, <1>12, <1>13, Zenon DEF DataItemPlaces

\* What a data item section is built into.
DataItemsOf(c) == [i \in 1 .. Strings(c) + Blobs(c) |-> Stored(c)[i].data]

\* A data item section reads back as the strings and blobs written to it,
\* unless it is shorter than its tables: build_data_items.
LEMMA DataItemsRead ==
  ASSUME NEW c, ItemsAreWellFormed(c), NEW range, range.base \in Nat,
         Laid(file.at, range.base, WriteDataItems(c))
  PROVE  BuildDataItems(range) = Built(Fits(range, 0, SizeOf(WriteDataItems(c))), DataItemsOf(c))
<1> DEFINE
      header == Get(DataItemHeader, range.base)
      tables == Struct(<<"header", "strings", "blobs", "stored">>,
                       <<DataItemHeader.size,
                         header.number_of_strings * StringEntry.size,
                         header.number_of_blobs * BlobEntry.size,
                         header.total_data_length>>)
      stored  == Part(range, tables.at.stored)
      strings == Rows(StringEntry, range.base + tables.at.strings[1], header.number_of_strings)
      blobs   == Rows(BlobEntry, range.base + tables.at.blobs[1], header.number_of_blobs)
      entries == strings \o blobs
      ok == \A i \in DOMAIN entries : Fits(stored, entries[i].offset, entries[i].length)
      items == [i \in DOMAIN entries |-> Field(stored.base + entries[i].offset, entries[i].length)]
<1>1. BuildDataItems(range) = Built(Fits(range, 0, tables.size) /\ ok, items)
  BY ONLY Zenon DEF BuildDataItems
<1>2. PICK b, S, B, s : b = range.base /\ S = Strings(c) /\ B = Blobs(c) /\ s = DataItemCounts(c)
  OBVIOUS
<1>3. b \in Nat /\ S \in Nat /\ B \in Nat
  BY <1>2, StoredParts
<1>4. PICK o2, o3, o4 : o2 = b + 12 /\ o3 = b + (12 + S * 4) /\ o4 = b + (12 + S * 4 + B * 8)
  OBVIOUS
<1>5. /\ Laid(file.at, b, s)
      /\ Laid(file.at, o2, Couples(S, 2, StringOffsets(c), Fours(S)))
      /\ Laid(file.at, o3, Couples(B, 4, BlobOffsets(c), Fours(B)))
      /\ Laid(file.at, o4, Singles(S + B, 4, StoredData(c)))
      /\ o2 \in Nat /\ o3 \in Nat /\ o4 \in Nat
  <2>1. o2 = b + 12 /\ o3 = b + 12 + S * 4 /\ o4 = b + 12 + S * 4 + B * 8
        /\ o2 \in Nat /\ o3 \in Nat /\ o4 \in Nat
    BY <1>3, <1>4
  <2>2. Laid(file.at, b, WriteDataItems(c))
    BY <1>2
  <2>3. \A at, o : o \in Nat /\ Laid(at, o, WriteDataItems(c)) =>
                  /\ Laid(at, o, DataItemCounts(c))
                  /\ Laid(at, o + 12, Couples(S, 2, StringOffsets(c), Fours(S)))
                  /\ Laid(at, o + 12 + S * 4, Couples(B, 4, BlobOffsets(c), Fours(B)))
                  /\ Laid(at, o + 12 + S * 4 + B * 8, Singles(S + B, 4, StoredData(c)))
    BY ONLY <1>2, ItemsAreWellFormed(c), DataItemsLaid, Zenon
  <2>4. QED
    BY ONLY <2>1, <2>2, <2>3, <1>2, <1>3, Zenon
<1>6. /\ s \in Written /\ Widths(s) = <<4, 2, 2, 4>>
      /\ Column(S, StringOffsets(c)) /\ Column(B, BlobOffsets(c))
      /\ Column(S, Fours(S)) /\ Column(B, Fours(B)) /\ Column(S + B, StoredData(c))
      /\ SizeOf(WriteDataItems(c)) = 12 + S * 4 + B * 8 + (S + B) * 4
  BY ONLY <1>2, ItemsAreWellFormed(c), DataItemsLaid, Zenon
<1>7. /\ header.number_of_strings = S /\ header.number_of_blobs = B
      /\ header.total_data_length = 4 * (S + B)
  <2>1. /\ Get(DataItemHeader, b).number_of_strings = s[2][1]
        /\ Get(DataItemHeader, b).number_of_blobs = s[3][1]
        /\ Get(DataItemHeader, b).total_data_length = s[4][1]
    BY ONLY <1>3, <1>5, <1>6, DataItemHeaderRead
  <2>2. s[2][1] = S /\ s[3][1] = B /\ s[4][1] = 4 * (S + B)
    BY <1>2 DEF DataItemCounts
  <2>3. QED
    BY ONLY <1>2, <2>1, <2>2, Zenon
<1>8. tables = DataItemTablesOf(S, B)
  <2>1. DataItemHeader.size = 12 /\ StringEntry.size = 4 /\ BlobEntry.size = 8
    BY RecordSizes
  <2>2. QED
    BY ONLY <1>7, <2>1, Zenon DEF DataItemTablesOf
<1> HIDE DEF header, tables
<1>9. DataItemPlaces(tables, S, B)
  BY ONLY <1>3, <1>8, DataItemTables
<1>10. /\ tables.size = 12 + S * 4 + B * 8 + 4 * (S + B)
       /\ tables.at.strings[1] = 12 /\ tables.at.blobs[1] = 12 + S * 4
       /\ tables.at.stored[1] = 12 + S * 4 + B * 8 /\ tables.at.stored[2] = 4 * (S + B)
  <2>1. /\ tables.size = 12 + S * 4 + B * 8 + 4 * (S + B)
        /\ tables.at.strings = <<12, S * 4>>
        /\ tables.at.blobs = <<12 + S * 4, B * 8>>
        /\ tables.at.stored = <<12 + S * 4 + B * 8, 4 * (S + B)>>
    BY ONLY <1>9, Zenon DEF DataItemPlaces
  <2>2. PICK x, y, z : x = tables.at.strings /\ y = tables.at.blobs /\ z = tables.at.stored
    BY Zenon
  <2>3. x = <<12, S * 4>> /\ y = <<12 + S * 4, B * 8>> /\ z = <<12 + S * 4 + B * 8, 4 * (S + B)>>
    BY ONLY <2>1, <2>2, Zenon
  <2>4. x[1] = 12 /\ y[1] = 12 + S * 4 /\ z[1] = 12 + S * 4 + B * 8 /\ z[2] = 4 * (S + B)
    BY ONLY <2>3
  <2>5. QED
    BY ONLY <2>1, <2>2, <2>4, Zenon
<1>11. PICK st : st = stored
  OBVIOUS
<1>12. st.base = o4 /\ st.len = 4 * (S + B)
  BY ONLY <1>2, <1>4, <1>10, <1>11, Zenon DEF Part
<1>13. /\ strings = [i \in 1 .. S |-> Get(StringEntry, o2 + (i - 1) * 4)]
       /\ blobs = [i \in 1 .. B |-> Get(BlobEntry, o3 + (i - 1) * 8)]
  <2>1. StringEntry.size = 4 /\ BlobEntry.size = 8
    BY RecordSizes
  <2>2. QED
    BY ONLY <1>2, <1>4, <1>7, <1>10, <2>1, Zenon DEF Rows
<1>14. PICK x, y, e : x = strings /\ y = blobs /\ e = x \o y
  BY Zenon
<1>15. items = [i \in DOMAIN e |-> Field(st.base + e[i].offset, e[i].length)]
       /\ (ok <=> \A i \in DOMAIN e : Fits(st, e[i].offset, e[i].length))
  BY ONLY <1>11, <1>14, Zenon
<1>16. /\ x = [i \in 1 .. S |-> Get(StringEntry, o2 + (i - 1) * 4)]
       /\ y = [i \in 1 .. B |-> Get(BlobEntry, o3 + (i - 1) * 8)]
  BY ONLY <1>13, <1>14, Zenon
<1> HIDE DEF stored, strings, blobs, entries, ok, items
<1>17. Behind({x[i] : i \in 1 .. S} \cup {y[i] : i \in 1 .. B}, S, B, x, y, e)
  <2>1. PICK T : T = {x[i] : i \in 1 .. S} \cup {y[i] : i \in 1 .. B}
    OBVIOUS
  <2>2. DOMAIN x = 1 .. S /\ DOMAIN y = 1 .. B /\ x = [i \in DOMAIN x |-> x[i]] /\ y = [i \in DOMAIN y |-> y[i]]
    BY ONLY <1>16, Zenon
  <2>3. x \in [1 .. S -> T] /\ y \in [1 .. B -> T]
    BY ONLY <2>1, <2>2
  <2>4. QED
    BY ONLY <1>3, <1>14, <2>1, <2>3, CatRows
<1>18. /\ DOMAIN e = 1 .. S + B
       /\ \A i \in 1 .. S : e[i] = x[i]
       /\ \A i \in 1 .. B : e[S + i] = y[i]
  BY ONLY <1>17, Zenon DEF Behind
<1>19. ASSUME NEW i \in 1 .. S + B PROVE e[i].offset = 4 * (i - 1) /\ e[i].length = 4
  <2>1. CASE i \in 1 .. S
    <3>1. PICK f, g : f = StringOffsets(c) /\ g = Fours(S)
      OBVIOUS
    <3>2. Column(S, f) /\ Column(S, g) /\ Laid(file.at, o2, Couples(S, 2, f, g)) /\ o2 \in Nat
      BY ONLY <1>5, <1>6, <3>1, Zenon
    <3>3. /\ Get(StringEntry, o2 + (i - 1) * 4).offset = f[i]
          /\ Get(StringEntry, o2 + (i - 1) * 4).length = g[i]
      BY ONLY <3>2, <2>1, ShortPairsRead
    <3>4. f[i] = 4 * (i - 1) /\ g[i] = 4
      BY <1>2, <2>1, <3>1 DEF StringOffsets, Fours
    <3>5. e[i] = Get(StringEntry, o2 + (i - 1) * 4)
      BY ONLY <1>16, <1>18, <2>1, Zenon
    <3>6. QED
      BY ONLY <3>3, <3>4, <3>5, Zenon
  <2>2. CASE i \notin 1 .. S
    <3>1. PICK j : j = i - S
      OBVIOUS
    <3>2. j \in 1 .. B /\ S + j = i /\ 4 * (S + j - 1) = 4 * (i - 1)
      BY <1>3, <2>2, <3>1
    <3>3. PICK f, g : f = BlobOffsets(c) /\ g = Fours(B)
      OBVIOUS
    <3>4. Column(B, f) /\ Column(B, g) /\ Laid(file.at, o3, Couples(B, 4, f, g)) /\ o3 \in Nat
      BY ONLY <1>5, <1>6, <3>3, Zenon
    <3>5. /\ Get(BlobEntry, o3 + (j - 1) * 8).offset = f[j]
          /\ Get(BlobEntry, o3 + (j - 1) * 8).length = g[j]
      BY ONLY <3>4, <3>2, LongPairsRead
    <3>6. f[j] = 4 * (S + j - 1) /\ g[j] = 4
      BY <1>2, <3>2, <3>3 DEF BlobOffsets, Fours
    <3>7. e[S + j] = Get(BlobEntry, o3 + (j - 1) * 8)
      BY ONLY <1>16, <1>18, <3>2, Zenon
    <3>8. QED
      BY ONLY <3>2, <3>5, <3>6, <3>7, Zenon
  <2>3. QED
    BY <2>1, <2>2
<1>20. ASSUME NEW i \in 1 .. S + B
       PROVE  /\ Fits(st, e[i].offset, e[i].length)
              /\ Field(st.base + e[i].offset, e[i].length) = Stored(c)[i].data
  <2>1. PICK l : l = st.len
    OBVIOUS
  <2>2. 4 * (i - 1) + 4 <= l
    BY <1>3, <1>12, <2>1
  <2>3. Fits(st, e[i].offset, e[i].length)
    BY ONLY <1>19, <2>1, <2>2, i \in 1 .. S + B, Zenon DEF Fits
  <2>4. PICK k, n, f, p, at : k = 4 /\ n = S + B /\ f = StoredData(c) /\ p = o4 + 4 * (i - 1) /\ at = file.at
    BY Zenon
  <2>a. Positive(k)
    BY <2>4 DEF Positive
  <2>b. p = o4 + (i - 1) * k
    BY <1>3, <1>5, <2>4
  <2>c. Column(n, f)
    BY ONLY <1>6, <2>4, Zenon
  <2>d. Laid(at, o4, Singles(n, k, f))
    BY ONLY <1>5, <2>4, Zenon
  <2>e. o4 \in Nat
    BY <1>5
  <2>f. i \in 1 .. n
    BY ONLY <2>4, i \in 1 .. S + B, Zenon
  <2>6. p \in DOMAIN at /\ at[p] = <<f[i], k>>
    BY ONLY <2>a, <2>b, <2>c, <2>d, <2>e, <2>f, SingleRow
  <2>7. Field(p, k) = f[i]
    BY <2>4, <2>6 DEF Field
  <2>8. f[i] = Stored(c)[i].data
    BY ONLY <1>2, <2>4, i \in 1 .. S + B, Zenon DEF StoredData
  <2>9. QED
    BY ONLY <1>12, <1>19, <2>3, <2>4, <2>7, <2>8, i \in 1 .. S + B, Zenon
<1>21. ok
  BY ONLY <1>15, <1>18, <1>20, Zenon
<1>22. items = DataItemsOf(c)
  BY ONLY <1>2, <1>15, <1>18, <1>20, Zenon DEF DataItemsOf
<1>23. tables.size = SizeOf(WriteDataItems(c))
  <2>1. PICK p, q : p = tables.size /\ q = SizeOf(WriteDataItems(c))
    OBVIOUS
  <2>2. p = q
    BY ONLY <1>3, <1>6, <1>10, <2>1
  <2>3. QED
    BY <2>1, <2>2
<1>24. QED
  BY ONLY <1>1, <1>21, <1>22, <1>23, Zenon DEF Built

-----------------------------------------------------------------------------
\* The map section: pairs, pieces, the packings of the items and candidates.

\* Lists of pairs of numbers, written as tables of short and of long ones.
FirstOf(list)  == [i \in 1 .. Len(list) |-> list[i][1]]
SecondOf(list) == [i \in 1 .. Len(list) |-> list[i][2]]
Shorts(list)   == Couples(Len(list), 2, FirstOf(list), SecondOf(list))
Longs(list)    == Couples(Len(list), 4, FirstOf(list), SecondOf(list))
PairList(list) == list \in Seq(Nat \X Nat)

\* A list of pairs by its columns, and what it takes in short and long rows.
LEMMA PairListDef ==
  ASSUME NEW list, PairList(list)
  PROVE  /\ Len(list) \in Nat /\ DOMAIN list = 1 .. Len(list)
         /\ \A i \in 1 .. Len(list) : /\ list[i] = <<FirstOf(list)[i], SecondOf(list)[i]>>
                                      /\ list[i][1] \in Nat /\ list[i][2] \in Nat
         /\ Column(Len(list), FirstOf(list)) /\ Column(Len(list), SecondOf(list))
         /\ Each(list, LAMBDA p : <<U16(p[1]), U16(p[2])>>) = Shorts(list)
         /\ Each(list, LAMBDA p : <<U32(p[1]), U32(p[2])>>) = Longs(list)
         /\ Shorts(list) \in Written /\ SizeOf(Shorts(list)) = Len(list) * 4
         /\ Longs(list) \in Written /\ SizeOf(Longs(list)) = Len(list) * 8
<1>1. PICK n, f, g : n = Len(list) /\ f = FirstOf(list) /\ g = SecondOf(list)
  OBVIOUS
<1>2. list \in Seq(Nat \X Nat)
  BY DEF PairList
<1>3. n \in Nat /\ DOMAIN list = 1 .. n
  BY <1>1, <1>2
<1>4. ASSUME NEW i \in 1 .. n PROVE list[i][1] \in Nat /\ list[i][2] \in Nat /\ list[i] = <<list[i][1], list[i][2]>>
  <2>1. list[i] \in Nat \X Nat
    BY <1>1, <1>2, <1>3
  <2>2. QED
    BY <2>1
<1>5. f \in [1 .. n -> Nat] /\ g \in [1 .. n -> Nat] /\ \A i \in 1 .. n : f[i] = list[i][1] /\ g[i] = list[i][2]
  BY <1>1, <1>4 DEF FirstOf, SecondOf
<1>6. Column(n, f) /\ Column(n, g)
  <2>1. Int \subseteq Values
    BY DEF Values
  <2>2. QED
    BY <1>3, <1>5, <2>1 DEF Column
<1>7. ASSUME NEW k, Positive(k)
      PROVE  /\ Each(list, LAMBDA p : << <<p[1], k>>, <<p[2], k>> >>) = Couples(n, k, f, g)
             /\ Couples(n, k, f, g) \in Written /\ SizeOf(Couples(n, k, f, g)) = n * (2 * k)
  <2>1. Each(list, LAMBDA p : << <<p[1], k>>, <<p[2], k>> >>)
          = FlattenSeq([i \in DOMAIN list |-> << <<list[i][1], k>>, <<list[i][2], k>> >>])
    BY DEF Each
  <2>2. [i \in DOMAIN list |-> << <<list[i][1], k>>, <<list[i][2], k>> >>]
          = [i \in 1 .. n |-> << <<f[i], k>>, <<g[i], k>> >>]
    BY <1>3, <1>5
  <2>3. Couples(n, k, f, g) = FlattenSeq([i \in 1 .. n |-> << <<f[i], k>>, <<g[i], k>> >>])
    BY DEF Couples
  <2>4. Couples(n, k, f, g) \in Written /\ SizeOf(Couples(n, k, f, g)) = n * (2 * k)
    BY <1>6, <1>7, CoupleTable
  <2>5. QED
    BY ONLY <2>1, <2>2, <2>3, <2>4, Zenon
<1>8. PICK a, b : a = 2 /\ b = 4
  OBVIOUS
<1>9. Positive(a) /\ Positive(b)
  BY <1>8 DEF Positive
<1>10. /\ Each(list, LAMBDA p : << <<p[1], a>>, <<p[2], a>> >>) = Couples(n, a, f, g)
       /\ Couples(n, a, f, g) \in Written /\ SizeOf(Couples(n, a, f, g)) = n * (2 * a)
       /\ Each(list, LAMBDA p : << <<p[1], b>>, <<p[2], b>> >>) = Couples(n, b, f, g)
       /\ Couples(n, b, f, g) \in Written /\ SizeOf(Couples(n, b, f, g)) = n * (2 * b)
  BY ONLY <1>7, <1>9, Zenon
<1>11. Shorts(list) = Couples(n, a, f, g) /\ Longs(list) = Couples(n, b, f, g)
  BY ONLY <1>1, <1>8, Zenon DEF Shorts, Longs
<1>12. n * (2 * a) = n * 4 /\ n * (2 * b) = n * 8
  BY <1>3, <1>8
<1>13. /\ Each(list, LAMBDA p : <<U16(p[1]), U16(p[2])>>) = Shorts(list)
       /\ Each(list, LAMBDA p : <<U32(p[1]), U32(p[2])>>) = Longs(list)
  <2>1. /\ Each(list, LAMBDA p : <<U16(p[1]), U16(p[2])>>)
             = FlattenSeq([i \in DOMAIN list |-> << <<list[i][1], a>>, <<list[i][2], a>> >>])
        /\ Each(list, LAMBDA p : <<U32(p[1]), U32(p[2])>>)
             = FlattenSeq([i \in DOMAIN list |-> << <<list[i][1], b>>, <<list[i][2], b>> >>])
    BY ONLY <1>8 DEF Each, U16, U32
  <2>2. \A k : Each(list, LAMBDA p : << <<p[1], k>>, <<p[2], k>> >>)
             = FlattenSeq([i \in DOMAIN list |-> << <<list[i][1], k>>, <<list[i][2], k>> >>])
    BY DEF Each
  <2>3. QED
    BY ONLY <1>10, <1>11, <2>1, <2>2, Zenon
<1>14. /\ Shorts(list) \in Written /\ SizeOf(Shorts(list)) = n * 4
       /\ Longs(list) \in Written /\ SizeOf(Longs(list)) = n * 8
  BY ONLY <1>10, <1>11, <1>12, Zenon
<1>15. \A i \in 1 .. n : list[i] = <<f[i], g[i]>> /\ list[i][1] \in Nat /\ list[i][2] \in Nat
  BY <1>4, <1>5
<1>16. QED
  BY ONLY <1>1, <1>3, <1>6, <1>13, <1>14, <1>15, Zenon

\* What a record type and two of its fields read of a table of pairs.
ReadAs(S, o, f, g, list) ==
  \A i \in 1 .. Len(list) : /\ Get(S, o + (i - 1) * S.size)[f] = FirstOf(list)[i]
                            /\ Get(S, o + (i - 1) * S.size)[g] = SecondOf(list)[i]

\* Rows that read as pairs are read back as the list.
LEMMA PairsOf ==
  ASSUME NEW list, PairList(list), NEW S, NEW o, NEW f, NEW g, ReadAs(S, o, f, g, list)
  PROVE  Pairs(S, o, Len(list), f, g) = list
<1>1. PICK n : n = Len(list)
  OBVIOUS
<1>2. /\ n \in Nat /\ DOMAIN list = 1 .. n
      /\ \A i \in 1 .. n : list[i] = <<FirstOf(list)[i], SecondOf(list)[i]>>
  BY ONLY <1>1, PairList(list), PairListDef, Zenon
<1>3. PICK r : r = [i \in 1 .. n |-> Get(S, o + (i - 1) * S.size)]
  OBVIOUS
<1>4. Pairs(S, o, n, f, g) = [i \in 1 .. n |-> <<r[i][f], r[i][g]>>]
  BY ONLY <1>3, Zenon DEF Pairs, Rows
<1>5. \A i \in 1 .. n : r[i][f] = FirstOf(list)[i] /\ r[i][g] = SecondOf(list)[i]
  BY ONLY <1>1, <1>3, ReadAs(S, o, f, g, list), Zenon DEF ReadAs
<1>6. [i \in 1 .. n |-> <<r[i][f], r[i][g]>>] = [i \in 1 .. n |-> list[i]]
  BY ONLY <1>2, <1>5, Zenon
<1>7. list = [i \in 1 .. n |-> list[i]]
  BY <1>1, <1>2 DEF PairList
<1>8. QED
  BY ONLY <1>1, <1>4, <1>6, <1>7, Zenon

\* The tables of a map and of its extension read back as the pairs written.
LEMMA PairsRead ==
  ASSUME NEW list, PairList(list), NEW o \in Nat
  PROVE  /\ Laid(file.at, o, Shorts(list)) =>
              /\ Pairs(ItemToItemInfoGroupEntry, o, Len(list), "first_item_index_property",
                       "iteminfo_group_index") = list
              /\ Pairs(ItemInfoGroupEntry, o, Len(list), "number_of_iteminfos",
                       "first_iteminfo_index") = list
              /\ Pairs(ItemInfoEntry, o, Len(list), "decision_index", "first_candidate_index") = list
         /\ Laid(file.at, o, Longs(list)) =>
              /\ Pairs(ItemToItemInfoGroupEntryExt, o, Len(list), "first_item_index_property",
                       "iteminfo_group_index") = list
              /\ Pairs(ItemInfoGroupEntryExt, o, Len(list), "number_of_iteminfos",
                       "first_iteminfo_index") = list
              /\ Pairs(ItemInfoEntryExt, o, Len(list), "decision_index",
                       "first_candidate_index") = list
<1>1. PICK n, f, g : n = Len(list) /\ f = FirstOf(list) /\ g = SecondOf(list)
  OBVIOUS
<1>2. Column(n, f) /\ Column(n, g)
  BY ONLY <1>1, PairList(list), PairListDef, Zenon
<1>3. /\ ItemToItemInfoGroupEntry.size = 4 /\ ItemInfoGroupEntry.size = 4 /\ ItemInfoEntry.size = 4
      /\ ItemToItemInfoGroupEntryExt.size = 8 /\ ItemInfoGroupEntryExt.size = 8
      /\ ItemInfoEntryExt.size = 8
  BY RecordSizes
<1>4. ASSUME Laid(file.at, o, Shorts(list))
      PROVE  /\ Pairs(ItemToItemInfoGroupEntry, o, n, "first_item_index_property",
                      "iteminfo_group_index") = list
             /\ Pairs(ItemInfoGroupEntry, o, n, "number_of_iteminfos", "first_iteminfo_index") = list
             /\ Pairs(ItemInfoEntry, o, n, "decision_index", "first_candidate_index") = list
  <2>1. Laid(file.at, o, Couples(n, 2, f, g))
    BY ONLY <1>1, <1>4, Zenon DEF Shorts
  <2>2. \A i \in 1 .. n :
          /\ Get(ItemToItemInfoGroupEntry, o + (i - 1) * 4).first_item_index_property = f[i]
          /\ Get(ItemToItemInfoGroupEntry, o + (i - 1) * 4).iteminfo_group_index = g[i]
          /\ Get(ItemInfoGroupEntry, o + (i - 1) * 4).number_of_iteminfos = f[i]
          /\ Get(ItemInfoGroupEntry, o + (i - 1) * 4).first_iteminfo_index = g[i]
          /\ Get(ItemInfoEntry, o + (i - 1) * 4).decision_index = f[i]
          /\ Get(ItemInfoEntry, o + (i - 1) * 4).first_candidate_index = g[i]
    BY ONLY <1>2, <2>1, o \in Nat, ShortPairsRead
  <2>3. \A i \in 1 .. n :
          /\ Get(ItemToItemInfoGroupEntry, o + (i - 1) * ItemToItemInfoGroupEntry.size).first_item_index_property = f[i]
          /\ Get(ItemToItemInfoGroupEntry, o + (i - 1) * ItemToItemInfoGroupEntry.size).iteminfo_group_index = g[i]
    BY ONLY <1>3, <2>2, Zenon
  <2>4. \A i \in 1 .. n :
          /\ Get(ItemInfoGroupEntry, o + (i - 1) * ItemInfoGroupEntry.size).number_of_iteminfos = f[i]
          /\ Get(ItemInfoGroupEntry, o + (i - 1) * ItemInfoGroupEntry.size).first_iteminfo_index = g[i]
    BY ONLY <1>3, <2>2, Zenon
  <2>5. \A i \in 1 .. n :
          /\ Get(ItemInfoEntry, o + (i - 1) * ItemInfoEntry.size).decision_index = f[i]
          /\ Get(ItemInfoEntry, o + (i - 1) * ItemInfoEntry.size).first_candidate_index = g[i]
    BY ONLY <1>3, <2>2, Zenon
  <2>7. ReadAs(ItemToItemInfoGroupEntry, o, "first_item_index_property", "iteminfo_group_index", list)
    BY ONLY <1>1, <2>3, Zenon DEF ReadAs
  <2>8. Pairs(ItemToItemInfoGroupEntry, o, Len(list), "first_item_index_property", "iteminfo_group_index") = list
    BY ONLY <2>7, PairList(list), PairsOf, Zenon
  <2>9. ReadAs(ItemInfoGroupEntry, o, "number_of_iteminfos", "first_iteminfo_index", list)
    BY ONLY <1>1, <2>4, Zenon DEF ReadAs
  <2>10. Pairs(ItemInfoGroupEntry, o, Len(list), "number_of_iteminfos", "first_iteminfo_index") = list
    BY ONLY <2>9, PairList(list), PairsOf, Zenon
  <2>11. ReadAs(ItemInfoEntry, o, "decision_index", "first_candidate_index", list)
    BY ONLY <1>1, <2>5, Zenon DEF ReadAs
  <2>12. Pairs(ItemInfoEntry, o, Len(list), "decision_index", "first_candidate_index") = list
    BY ONLY <2>11, PairList(list), PairsOf, Zenon
  <2>13. QED
    BY ONLY <1>1, <2>8, <2>10, <2>12, Zenon
<1>5. ASSUME Laid(file.at, o, Longs(list))
      PROVE  /\ Pairs(ItemToItemInfoGroupEntryExt, o, n, "first_item_index_property",
                      "iteminfo_group_index") = list
             /\ Pairs(ItemInfoGroupEntryExt, o, n, "number_of_iteminfos", "first_iteminfo_index") = list
             /\ Pairs(ItemInfoEntryExt, o, n, "decision_index", "first_candidate_index") = list
  <2>1. Laid(file.at, o, Couples(n, 4, f, g))
    BY ONLY <1>1, <1>5, Zenon DEF Longs
  <2>2. \A i \in 1 .. n :
          /\ Get(ItemToItemInfoGroupEntryExt, o + (i - 1) * 8).first_item_index_property = f[i]
          /\ Get(ItemToItemInfoGroupEntryExt, o + (i - 1) * 8).iteminfo_group_index = g[i]
          /\ Get(ItemInfoGroupEntryExt, o + (i - 1) * 8).number_of_iteminfos = f[i]
          /\ Get(ItemInfoGroupEntryExt, o + (i - 1) * 8).first_iteminfo_index = g[i]
          /\ Get(ItemInfoEntryExt, o + (i - 1) * 8).decision_index = f[i]
          /\ Get(ItemInfoEntryExt, o + (i - 1) * 8).first_candidate_index = g[i]
    BY ONLY <1>2, <2>1, o \in Nat, LongPairsRead
  <2>3. \A i \in 1 .. n :
          /\ Get(ItemToItemInfoGroupEntryExt, o + (i - 1) * ItemToItemInfoGroupEntryExt.size).first_item_index_property = f[i]
          /\ Get(ItemToItemInfoGroupEntryExt, o + (i - 1) * ItemToItemInfoGroupEntryExt.size).iteminfo_group_index = g[i]
    BY ONLY <1>3, <2>2, Zenon
  <2>4. \A i \in 1 .. n :
          /\ Get(ItemInfoGroupEntryExt, o + (i - 1) * ItemInfoGroupEntryExt.size).number_of_iteminfos = f[i]
          /\ Get(ItemInfoGroupEntryExt, o + (i - 1) * ItemInfoGroupEntryExt.size).first_iteminfo_index = g[i]
    BY ONLY <1>3, <2>2, Zenon
  <2>5. \A i \in 1 .. n :
          /\ Get(ItemInfoEntryExt, o + (i - 1) * ItemInfoEntryExt.size).decision_index = f[i]
          /\ Get(ItemInfoEntryExt, o + (i - 1) * ItemInfoEntryExt.size).first_candidate_index = g[i]
    BY ONLY <1>3, <2>2, Zenon
  <2>7. ReadAs(ItemToItemInfoGroupEntryExt, o, "first_item_index_property", "iteminfo_group_index", list)
    BY ONLY <1>1, <2>3, Zenon DEF ReadAs
  <2>8. Pairs(ItemToItemInfoGroupEntryExt, o, Len(list), "first_item_index_property", "iteminfo_group_index") = list
    BY ONLY <2>7, PairList(list), PairsOf, Zenon
  <2>9. ReadAs(ItemInfoGroupEntryExt, o, "number_of_iteminfos", "first_iteminfo_index", list)
    BY ONLY <1>1, <2>4, Zenon DEF ReadAs
  <2>10. Pairs(ItemInfoGroupEntryExt, o, Len(list), "number_of_iteminfos", "first_iteminfo_index") = list
    BY ONLY <2>9, PairList(list), PairsOf, Zenon
  <2>11. ReadAs(ItemInfoEntryExt, o, "decision_index", "first_candidate_index", list)
    BY ONLY <1>1, <2>5, Zenon DEF ReadAs
  <2>12. Pairs(ItemInfoEntryExt, o, Len(list), "decision_index", "first_candidate_index") = list
    BY ONLY <2>11, PairList(list), PairsOf, Zenon
  <2>13. QED
    BY ONLY <1>1, <2>8, <2>10, <2>12, Zenon
<1>6. QED
  BY ONLY <1>1, <1>4, <1>5, Zenon

\* Names for the fields of a record type, each of its own if it is kept.
Named(n, names) ==
  /\ DOMAIN names = 1 .. n
  /\ \A i, j \in 1 .. n : names[i] = names[j] /\ names[i] # Skip => i = j

Unambiguous(names) ==
  \A i, j \in DOMAIN names : names[i] = names[j] /\ names[i] # Skip => i = j

\* A record type tells where the piece p of a list of fields r is.
Holds(tables, name, r, p) ==
  /\ tables.at[name][1] \in Nat /\ tables.at[name][2] = SizeOf(p)
  /\ \A at, o : o \in Nat /\ Laid(at, o, r) => Laid(at, o + tables.at[name][1], p)

\* A list of fields begins with the piece p.
Begins(r, p) == \A at, o : o \in Nat /\ Laid(at, o, r) => Laid(at, o, p)

\* It does if it has the sizes of the pieces as its widths.
LEMMA Pieces ==
  ASSUME NEW n \in Nat, NEW ps \in [1 .. n -> Written], NEW names, Named(n, names),
         NEW w, w \in [1 .. n -> Nat], \A i \in 1 .. n : w[i] = SizeOf(ps[i]),
         NEW r, r = FlattenSeq(ps), NEW tables, tables = Struct(names, w)
  PROVE  /\ r \in Written /\ tables.size = SizeOf(r)
         /\ \A i \in 1 .. n : names[i] # Skip => Holds(tables, names[i], r, ps[i])
         /\ n > 0 => Begins(r, ps[1])
<1>1. r \in Written /\ ps \in [1 .. n -> Fields]
  BY WrittenFlatten
<1>2. PICK v : v = Sizes(ps)
  OBVIOUS
<1>3. /\ v \in [1 .. n -> Nat] /\ SizeOf(r) = Sums(v)[n]
      /\ \A at, o : o \in Nat /\ Laid(at, o, r) =>
           \A i \in 1 .. n : Laid(at, o + Sums(v)[i - 1], ps[i])
  BY <1>1, <1>2, LaidFlatten
<1>4. \A i \in 1 .. n : v[i] = SizeOf(ps[i])
  BY <1>2 DEF Sizes
<1>5. v = w
  BY <1>3, <1>4
<1>6. Record(n, names, w)
  BY DEF Record, Named
<1>7. /\ tables.size = Sums(w)[n]
      /\ \A i \in 1 .. n : names[i] # Skip => tables.at[names[i]] = <<Sums(w)[i - 1], w[i]>>
  BY <1>6, StructDef
<1>8. Sums(w) \in [0 .. n -> Nat]
  BY SumsRise
<1>9. ASSUME NEW i \in 1 .. n, names[i] # Skip PROVE Holds(tables, names[i], r, ps[i])
  <2>1. PICK x, s : x = tables.at[names[i]] /\ s = Sums(w)
    OBVIOUS
  <2>2. x = <<s[i - 1], w[i]>>
    BY <1>7, <1>9, <2>1
  <2>3. x[1] = s[i - 1] /\ x[2] = w[i] /\ s[i - 1] \in Nat
    BY <1>8, <2>1, <2>2
  <2>4. \A at, o : o \in Nat /\ Laid(at, o, r) => Laid(at, o + s[i - 1], ps[i])
    BY ONLY <1>3, <1>5, <2>1, i \in 1 .. n, Zenon
  <2>5. x[1] \in Nat /\ x[2] = SizeOf(ps[i])
    BY <1>4, <1>5, <2>3
  <2>6. QED
    BY ONLY <2>1, <2>3, <2>4, <2>5, Zenon DEF Holds
<1>11. ASSUME n > 0 PROVE Begins(r, ps[1])
  <2>1. 1 \in 1 .. n /\ 1 - 1 = 0
    BY <1>11
  <2>2. Sums(v)[0] = 0
    <3>1. v \in [1 .. n -> Int]
      BY <1>3
    <3>2. QED
      BY ONLY <3>1, n \in Nat, SumsDef
  <2>3. \A at, o : o \in Nat /\ Laid(at, o, r) => Laid(at, o + Sums(v)[0], ps[1])
    BY ONLY <1>3, <2>1, Zenon
  <2>4. \A o \in Nat : o + 0 = o
    OBVIOUS
  <2>5. QED
    BY ONLY <2>2, <2>3, <2>4, Zenon DEF Begins
<1>10. QED
  BY <1>1, <1>3, <1>5, <1>7, <1>9, <1>11

SixOf(a1, a2, a3, a4, a5, a6) == <<a1, a2, a3, a4, a5, a6>>
SixJoined(a1, a2, a3, a4, a5, a6) == a1 \o a2 \o a3 \o a4 \o a5 \o a6
SixWritten(p1, p2, p3, p4, p5, p6) ==
  p1 \in Written /\ p2 \in Written /\ p3 \in Written /\ p4 \in Written /\ p5 \in Written /\ p6 \in Written
SixHeld(tables, r, n1, n2, n3, n4, n5, n6, p1, p2, p3, p4, p5, p6) ==
  /\ r \in Written /\ tables.size = SizeOf(r) /\ Begins(r, p1)
  /\ n1 # Skip => Holds(tables, n1, r, p1)
  /\ n2 # Skip => Holds(tables, n2, r, p2)
  /\ n3 # Skip => Holds(tables, n3, r, p3)
  /\ n4 # Skip => Holds(tables, n4, r, p4)
  /\ n5 # Skip => Holds(tables, n5, r, p5)
  /\ n6 # Skip => Holds(tables, n6, r, p6)

\* A section of six pieces: the record of their sizes places each.
LEMMA SixPieces ==
  ASSUME NEW p1, NEW p2, NEW p3, NEW p4, NEW p5, NEW p6, SixWritten(p1, p2, p3, p4, p5, p6),
         NEW n1, NEW n2, NEW n3, NEW n4, NEW n5, NEW n6, Unambiguous(SixOf(n1, n2, n3, n4, n5, n6))
  PROVE  SixHeld(Struct(SixOf(n1, n2, n3, n4, n5, n6), SixOf(SizeOf(p1), SizeOf(p2), SizeOf(p3), SizeOf(p4), SizeOf(p5), SizeOf(p6))), SixJoined(p1, p2, p3, p4, p5, p6),
           n1, n2, n3, n4, n5, n6, p1, p2, p3, p4, p5, p6)
<1>a. PICK names, w, r, tables :
        /\ names = SixOf(n1, n2, n3, n4, n5, n6) /\ w = SixOf(SizeOf(p1), SizeOf(p2), SizeOf(p3), SizeOf(p4), SizeOf(p5), SizeOf(p6))
        /\ r = SixJoined(p1, p2, p3, p4, p5, p6) /\ tables = Struct(names, w)
  BY Zenon
<1>b. p1 \in Written /\ p2 \in Written /\ p3 \in Written /\ p4 \in Written /\ p5 \in Written /\ p6 \in Written
  BY Zenon DEF SixWritten
<1>c. Unambiguous(names)
  BY <1>a, Zenon
<1>1. PICK n, ps : n = 6 /\ ps = <<p1, p2, p3, p4, p5, p6>>
  OBVIOUS
<1>2. n \in Nat /\ ps \in [1 .. n -> Written] /\ ps \in [1 .. n -> Seq(Values \X (Nat \ {0}))]
  BY <1>1, <1>b DEF Written
<1>3. Lists(Values \X (Nat \ {0}), n, ps)
  BY <1>2 DEF Lists
<1>4. r = FlattenSeq(ps)
  <2>a. PICK U : U = Values \X (Nat \ {0})
    OBVIOUS
  <2>b. Lists(U, n, ps)
    BY <1>3, <2>a, Zenon
  <2>c. n = 6
    BY <1>1
  <2>1. FlattenSeq(ps) = ps[1] \o ps[2] \o ps[3] \o ps[4] \o ps[5] \o ps[6]
    BY ONLY <2>b, <2>c, FlattenOfFew
  <2>2. ps[1] = p1 /\ ps[2] = p2 /\ ps[3] = p3 /\ ps[4] = p4 /\ ps[5] = p5 /\ ps[6] = p6
    BY <1>1
  <2>3. r = p1 \o p2 \o p3 \o p4 \o p5 \o p6
    BY <1>a, Zenon DEF SixJoined
  <2>4. QED
    BY ONLY <1>1, <2>1, <2>2, <2>3, Zenon
<1>5. Named(n, names) /\ w \in [1 .. n -> Nat] /\ \A i \in 1 .. n : w[i] = SizeOf(ps[i])
  <2>1. \A p \in Written : SizeOf(p) \in Nat
    BY WrittenIsFields, FieldsDef
  <2>2. names = <<n1, n2, n3, n4, n5, n6>> /\ w = <<SizeOf(p1), SizeOf(p2), SizeOf(p3), SizeOf(p4), SizeOf(p5), SizeOf(p6)>>
    BY <1>a, Zenon DEF SixOf
  <2>3. Named(n, names)
    <3>1. \A i, j \in DOMAIN names : names[i] = names[j] /\ names[i] # Skip => i = j
      BY <1>c, Zenon DEF Unambiguous
    <3>2. DOMAIN names = 1 .. 6 /\ n = 6
      BY <1>1, <2>2
    <3>3. QED
      BY ONLY <3>1, <3>2, Zenon DEF Named
  <2>4. QED
    BY <1>1, <1>b, <2>1, <2>2, <2>3
<1>6. /\ r \in Written /\ tables.size = SizeOf(r)
      /\ \A i \in 1 .. n : names[i] # Skip => Holds(tables, names[i], r, ps[i])
      /\ Begins(r, ps[1])
  <2>1. n \in Nat
    BY <1>2
  <2>8. n > 0
    BY <1>1
  <2>2. ps \in [1 .. n -> Written]
    BY <1>2
  <2>3. w \in [1 .. n -> Nat]
    BY <1>5
  <2>4. \A i \in 1 .. n : w[i] = SizeOf(ps[i])
    BY <1>5
  <2>5. Named(n, names)
    BY <1>5
  <2>7. tables = Struct(names, w)
    BY <1>a, Zenon
  <2>6. QED
    BY ONLY <2>1, <2>2, <2>3, <2>4, <2>5, <1>4, <2>7, <2>8, Pieces, SMTT(60)
<1>7. /\ 1 \in 1 .. n /\ 2 \in 1 .. n /\ 3 \in 1 .. n /\ 4 \in 1 .. n /\ 5 \in 1 .. n /\ 6 \in 1 .. n
      /\ names[1] = n1 /\ names[2] = n2 /\ names[3] = n3 /\ names[4] = n4 /\ names[5] = n5 /\ names[6] = n6
      /\ ps[1] = p1 /\ ps[2] = p2 /\ ps[3] = p3 /\ ps[4] = p4 /\ ps[5] = p5 /\ ps[6] = p6
  <2>1. names = <<n1, n2, n3, n4, n5, n6>>
    BY <1>a, Zenon DEF SixOf
  <2>2. QED
    BY <1>1, <2>1
<1>8. SixHeld(tables, r, n1, n2, n3, n4, n5, n6, p1, p2, p3, p4, p5, p6)
  BY ONLY <1>6, <1>7, Zenon DEF SixHeld
<1>9. QED
  BY ONLY <1>8, <1>a, Zenon

SevenOf(a1, a2, a3, a4, a5, a6, a7) == <<a1, a2, a3, a4, a5, a6, a7>>
SevenJoined(a1, a2, a3, a4, a5, a6, a7) == a1 \o a2 \o a3 \o a4 \o a5 \o a6 \o a7
SevenWritten(p1, p2, p3, p4, p5, p6, p7) ==
  p1 \in Written /\ p2 \in Written /\ p3 \in Written /\ p4 \in Written /\ p5 \in Written /\ p6 \in Written /\ p7 \in Written
SevenHeld(tables, r, n1, n2, n3, n4, n5, n6, n7, p1, p2, p3, p4, p5, p6, p7) ==
  /\ r \in Written /\ tables.size = SizeOf(r) /\ Begins(r, p1)
  /\ n1 # Skip => Holds(tables, n1, r, p1)
  /\ n2 # Skip => Holds(tables, n2, r, p2)
  /\ n3 # Skip => Holds(tables, n3, r, p3)
  /\ n4 # Skip => Holds(tables, n4, r, p4)
  /\ n5 # Skip => Holds(tables, n5, r, p5)
  /\ n6 # Skip => Holds(tables, n6, r, p6)
  /\ n7 # Skip => Holds(tables, n7, r, p7)

\* The same for seven.
LEMMA SevenPieces ==
  ASSUME NEW p1, NEW p2, NEW p3, NEW p4, NEW p5, NEW p6, NEW p7, SevenWritten(p1, p2, p3, p4, p5, p6, p7),
         NEW n1, NEW n2, NEW n3, NEW n4, NEW n5, NEW n6, NEW n7, Unambiguous(SevenOf(n1, n2, n3, n4, n5, n6, n7))
  PROVE  SevenHeld(Struct(SevenOf(n1, n2, n3, n4, n5, n6, n7), SevenOf(SizeOf(p1), SizeOf(p2), SizeOf(p3), SizeOf(p4), SizeOf(p5), SizeOf(p6), SizeOf(p7))), SevenJoined(p1, p2, p3, p4, p5, p6, p7),
           n1, n2, n3, n4, n5, n6, n7, p1, p2, p3, p4, p5, p6, p7)
<1>a. PICK names, w, r, tables :
        /\ names = SevenOf(n1, n2, n3, n4, n5, n6, n7) /\ w = SevenOf(SizeOf(p1), SizeOf(p2), SizeOf(p3), SizeOf(p4), SizeOf(p5), SizeOf(p6), SizeOf(p7))
        /\ r = SevenJoined(p1, p2, p3, p4, p5, p6, p7) /\ tables = Struct(names, w)
  BY Zenon
<1>b. p1 \in Written /\ p2 \in Written /\ p3 \in Written /\ p4 \in Written /\ p5 \in Written /\ p6 \in Written /\ p7 \in Written
  BY Zenon DEF SevenWritten
<1>c. Unambiguous(names)
  BY <1>a, Zenon
<1>1. PICK n, ps : n = 7 /\ ps = <<p1, p2, p3, p4, p5, p6, p7>>
  OBVIOUS
<1>2. n \in Nat /\ ps \in [1 .. n -> Written] /\ ps \in [1 .. n -> Seq(Values \X (Nat \ {0}))]
  BY <1>1, <1>b DEF Written
<1>3. Lists(Values \X (Nat \ {0}), n, ps)
  BY <1>2 DEF Lists
<1>4. r = FlattenSeq(ps)
  <2>a. PICK U : U = Values \X (Nat \ {0})
    OBVIOUS
  <2>b. Lists(U, n, ps)
    BY <1>3, <2>a, Zenon
  <2>c. n = 7
    BY <1>1
  <2>1. FlattenSeq(ps) = ps[1] \o ps[2] \o ps[3] \o ps[4] \o ps[5] \o ps[6] \o ps[7]
    BY ONLY <2>b, <2>c, FlattenOfFew
  <2>2. ps[1] = p1 /\ ps[2] = p2 /\ ps[3] = p3 /\ ps[4] = p4 /\ ps[5] = p5 /\ ps[6] = p6 /\ ps[7] = p7
    BY <1>1
  <2>3. r = p1 \o p2 \o p3 \o p4 \o p5 \o p6 \o p7
    BY <1>a, Zenon DEF SevenJoined
  <2>4. QED
    BY ONLY <1>1, <2>1, <2>2, <2>3, Zenon
<1>5. Named(n, names) /\ w \in [1 .. n -> Nat] /\ \A i \in 1 .. n : w[i] = SizeOf(ps[i])
  <2>1. \A p \in Written : SizeOf(p) \in Nat
    BY WrittenIsFields, FieldsDef
  <2>2. names = <<n1, n2, n3, n4, n5, n6, n7>> /\ w = <<SizeOf(p1), SizeOf(p2), SizeOf(p3), SizeOf(p4), SizeOf(p5), SizeOf(p6), SizeOf(p7)>>
    BY <1>a, Zenon DEF SevenOf
  <2>3. Named(n, names)
    <3>1. \A i, j \in DOMAIN names : names[i] = names[j] /\ names[i] # Skip => i = j
      BY <1>c, Zenon DEF Unambiguous
    <3>2. DOMAIN names = 1 .. 7 /\ n = 7
      BY <1>1, <2>2
    <3>3. QED
      BY ONLY <3>1, <3>2, Zenon DEF Named
  <2>4. QED
    BY <1>1, <1>b, <2>1, <2>2, <2>3
<1>6. /\ r \in Written /\ tables.size = SizeOf(r)
      /\ \A i \in 1 .. n : names[i] # Skip => Holds(tables, names[i], r, ps[i])
      /\ Begins(r, ps[1])
  <2>1. n \in Nat
    BY <1>2
  <2>8. n > 0
    BY <1>1
  <2>2. ps \in [1 .. n -> Written]
    BY <1>2
  <2>3. w \in [1 .. n -> Nat]
    BY <1>5
  <2>4. \A i \in 1 .. n : w[i] = SizeOf(ps[i])
    BY <1>5
  <2>5. Named(n, names)
    BY <1>5
  <2>7. tables = Struct(names, w)
    BY <1>a, Zenon
  <2>6. QED
    BY ONLY <2>1, <2>2, <2>3, <2>4, <2>5, <1>4, <2>7, <2>8, Pieces, SMTT(60)
<1>7. /\ 1 \in 1 .. n /\ 2 \in 1 .. n /\ 3 \in 1 .. n /\ 4 \in 1 .. n /\ 5 \in 1 .. n /\ 6 \in 1 .. n /\ 7 \in 1 .. n
      /\ names[1] = n1 /\ names[2] = n2 /\ names[3] = n3 /\ names[4] = n4 /\ names[5] = n5 /\ names[6] = n6 /\ names[7] = n7
      /\ ps[1] = p1 /\ ps[2] = p2 /\ ps[3] = p3 /\ ps[4] = p4 /\ ps[5] = p5 /\ ps[6] = p6 /\ ps[7] = p7
  <2>1. names = <<n1, n2, n3, n4, n5, n6, n7>>
    BY <1>a, Zenon DEF SevenOf
  <2>2. QED
    BY <1>1, <2>1
<1>8. SevenHeld(tables, r, n1, n2, n3, n4, n5, n6, n7, p1, p2, p3, p4, p5, p6, p7)
  BY ONLY <1>6, <1>7, Zenon DEF SevenHeld
<1>9. QED
  BY ONLY <1>8, <1>a, Zenon

\* The runs of the entries of a map, as MapItems goes through them.
GroupFor(groups, m) ==
  IF m[2] >= Len(groups) THEN <<1, m[2] - Len(groups)>> ELSE groups[m[2] + 1]
RunsOf(mapped, groups, n) ==
  {r \in (1 .. Len(mapped)) \X (0 .. n) : r[2] < GroupFor(groups, mapped[r[1]])[1]}
PropertyOf(mapped, r)     == mapped[r[1]][1] + r[2]
InfoOf(mapped, groups, r) == GroupFor(groups, mapped[r[1]])[2] + r[2] + 1

\* They go through n items with the given properties, each once.
Packs(mapped, groups, n, prop) ==
  /\ n \in Nat /\ DOMAIN prop = 1 .. n
  /\ \A i, j \in 1 .. n : prop[i] = prop[j] => i = j
  /\ \A r \in RunsOf(mapped, groups, n) :
       /\ InfoOf(mapped, groups, r) \in 1 .. n
       /\ PropertyOf(mapped, r) = prop[InfoOf(mapped, groups, r)]
  /\ \A k \in 1 .. n : \E r \in RunsOf(mapped, groups, n) : InfoOf(mapped, groups, r) = k
  /\ \A r, q \in RunsOf(mapped, groups, n) :
       InfoOf(mapped, groups, r) = InfoOf(mapped, groups, q) => r = q

ItemOf(prop, p) == CHOOSE k \in DOMAIN prop : prop[k] = p
ItemsBy(prop, infos) ==
  [p \in {prop[k] : k \in DOMAIN prop} |->
     [decision_index |-> infos[ItemOf(prop, p)][1],
      first_candidate_index |-> infos[ItemOf(prop, p)][2]]]

\* Entries and groups that cover every iteminfo once map each property to it.
LEMMA ItemsMapped ==
  ASSUME NEW mapped, NEW groups, NEW infos, NEW n, n = Len(infos), NEW prop,
         Packs(mapped, groups, n, prop), \A r \in RunsOf(mapped, groups, n) : r[1] \in Nat
  PROVE  MapItems(mapped, groups, infos) = <<ItemsBy(prop, infos)>>
<1> DEFINE Group(m) == IF m[2] >= Len(groups) THEN <<1, m[2] - Len(groups)>> ELSE groups[m[2] + 1]
           runs == {r \in (1 .. Len(mapped)) \X (0 .. Len(infos)) : r[2] < Group(mapped[r[1]])[1]}
           Property(r) == mapped[r[1]][1] + r[2]
           Info(r) == Group(mapped[r[1]])[2] + r[2] + 1
           Latest(p) == CHOOSE r \in runs : /\ Property(r) = p
                                            /\ \A q \in runs : Property(q) = p => q[1] <= r[1]
           ok == \A r \in runs : Info(r) <= Len(infos)
           items == [p \in {Property(r) : r \in runs} |->
                       [decision_index |-> infos[Info(Latest(p))][1],
                        first_candidate_index |-> infos[Info(Latest(p))][2]]]
<1>1. MapItems(mapped, groups, infos) = Built(ok, items)
  BY ONLY Zenon DEF MapItems
<1>2. /\ runs = RunsOf(mapped, groups, n)
      /\ \A r : Property(r) = PropertyOf(mapped, r) /\ Info(r) = InfoOf(mapped, groups, r)
  BY Zenon DEF RunsOf, PropertyOf, InfoOf, GroupFor
<1> HIDE DEF runs, Property, Info
<1>3. /\ n \in Nat /\ DOMAIN prop = 1 .. n
      /\ \A i, j \in 1 .. n : prop[i] = prop[j] => i = j
      /\ \A r \in runs : Info(r) \in 1 .. n /\ Property(r) = prop[Info(r)]
      /\ \A k \in 1 .. n : \E r \in runs : Info(r) = k
      /\ \A r, q \in runs : Info(r) = Info(q) => r = q
      /\ \A r \in runs : r[1] \in Nat
  BY <1>2, Zenon DEF Packs
<1>4. ok
  <2>1. \A r \in runs : Info(r) <= n
    BY <1>3
  <2>2. QED
    BY ONLY <2>1, n = Len(infos), Zenon
<1>5. {Property(r) : r \in runs} = {prop[k] : k \in DOMAIN prop}
  <2>1. \A r \in runs : \E k \in DOMAIN prop : prop[k] = Property(r)
    BY ONLY <1>3, Zenon
  <2>2. \A k \in DOMAIN prop : \E r \in runs : Property(r) = prop[k]
    BY ONLY <1>3, Zenon
  <2>3. QED
    BY ONLY <2>1, <2>2
<1>6. ASSUME NEW k \in 1 .. n PROVE Info(Latest(prop[k])) = k
  <2>1. PICK r \in runs : Info(r) = k
    BY <1>3
  <2>2. \A q \in runs : Property(q) = prop[k] => q = r
    BY ONLY <1>3, <2>1, k \in 1 .. n, Zenon
  <2>3. Property(r) = prop[k]
    BY ONLY <1>3, <2>1, Zenon
  <2>4. r[1] <= r[1]
    BY <1>3, <2>1
  <2>5. Latest(prop[k]) \in runs /\ Property(Latest(prop[k])) = prop[k]
    BY ONLY <2>1, <2>2, <2>3, <2>4, Zenon DEF Latest
  <2>6. QED
    BY ONLY <2>1, <2>2, <2>5, Zenon
<1>7. ASSUME NEW k \in 1 .. n PROVE ItemOf(prop, prop[k]) = k
  BY ONLY <1>3, <1>7, k \in 1 .. n, Zenon DEF ItemOf
<1> HIDE DEF Latest
<1>8. ASSUME NEW p \in {prop[k] : k \in DOMAIN prop} PROVE Info(Latest(p)) = ItemOf(prop, p)
  <2>1. PICK k \in 1 .. n : p = prop[k]
    BY <1>3
  <2>2. Info(Latest(prop[k])) = k /\ ItemOf(prop, prop[k]) = k
    BY <1>6, <1>7
  <2>3. QED
    BY ONLY <2>1, <2>2, Zenon
<1>9. items = ItemsBy(prop, infos)
  BY ONLY <1>5, <1>8, Zenon DEF ItemsBy
<1>10. QED
  BY ONLY <1>1, <1>4, <1>9, Zenon DEF Built

\* The four packings of items: in one run, each by itself, the first by itself
\* and the others behind it one by one or in one run.
LEMMA OneRun ==
  ASSUME NEW n \in Nat \ {0}, NEW prop \in [1 .. n -> Nat],
         \A i, j \in 1 .. n : prop[i] = prop[j] => i = j,
         \A k \in 1 .. n : prop[k] = prop[1] + (k - 1)
  PROVE  Packs(<< <<prop[1], 0>> >>, << <<n, 0>> >>, n, prop)
<1>1. PICK m, g : m = << <<prop[1], 0>> >> /\ g = << <<n, 0>> >>
  OBVIOUS
<1>2. Len(m) = 1 /\ m[1][1] = prop[1] /\ GroupFor(g, m[1])[1] = n /\ GroupFor(g, m[1])[2] = 0
  BY <1>1 DEF GroupFor
<1>3. RunsOf(m, g, n) = {<<1, j>> : j \in 0 .. n - 1}
  BY <1>2 DEF RunsOf
<1>4. ASSUME NEW j \in 0 .. n - 1 PROVE InfoOf(m, g, <<1, j>>) = j + 1 /\ PropertyOf(m, <<1, j>>) = prop[j + 1]
  BY <1>2 DEF InfoOf, PropertyOf
<1>5. \A k \in 1 .. n : k - 1 \in 0 .. n - 1 /\ (k - 1) + 1 = k
  OBVIOUS
<1>6. \A k \in 1 .. n : \E r \in RunsOf(m, g, n) : InfoOf(m, g, r) = k
  BY <1>3, <1>4, <1>5
<1>7. \A r \in RunsOf(m, g, n) : InfoOf(m, g, r) \in 1 .. n /\ PropertyOf(m, r) = prop[InfoOf(m, g, r)]
  BY <1>3, <1>4
<1>8. \A r, q \in RunsOf(m, g, n) : InfoOf(m, g, r) = InfoOf(m, g, q) => r = q
  BY <1>3, <1>4
<1>9. n \in Nat /\ DOMAIN prop = 1 .. n
  OBVIOUS
<1>10. QED
  BY ONLY <1>1, <1>6, <1>7, <1>8, <1>9, \A i, j \in 1 .. n : prop[i] = prop[j] => i = j, Zenon DEF Packs

\* An entry for each item without groups covers them.
LEMMA EachByItself ==
  ASSUME NEW n \in Nat, NEW prop \in [1 .. n -> Nat],
         \A i, j \in 1 .. n : prop[i] = prop[j] => i = j
  PROVE  Packs([k \in 1 .. n |-> <<prop[k], k - 1>>], <<>>, n, prop)
<1>1. PICK m, g : m = [k \in 1 .. n |-> <<prop[k], k - 1>>] /\ g = <<>>
  OBVIOUS
<1>2. /\ Len(m) = n
      /\ \A k \in 1 .. n : /\ m[k][1] = prop[k]
                           /\ GroupFor(g, m[k])[1] = 1 /\ GroupFor(g, m[k])[2] = k - 1
  BY <1>1 DEF GroupFor
<1>3. RunsOf(m, g, n) = {<<k, 0>> : k \in 1 .. n}
  BY <1>2 DEF RunsOf
<1>4. ASSUME NEW k \in 1 .. n PROVE InfoOf(m, g, <<k, 0>>) = k /\ PropertyOf(m, <<k, 0>>) = prop[k]
  BY <1>2 DEF InfoOf, PropertyOf
<1>5. \A k \in 1 .. n : \E r \in RunsOf(m, g, n) : InfoOf(m, g, r) = k
  BY <1>3, <1>4
<1>6. \A r \in RunsOf(m, g, n) : InfoOf(m, g, r) \in 1 .. n /\ PropertyOf(m, r) = prop[InfoOf(m, g, r)]
  BY <1>3, <1>4
<1>7. \A r, q \in RunsOf(m, g, n) : InfoOf(m, g, r) = InfoOf(m, g, q) => r = q
  BY <1>3, <1>4
<1>8. n \in Nat /\ DOMAIN prop = 1 .. n
  OBVIOUS
<1>9. QED
  BY ONLY <1>1, <1>5, <1>6, <1>7, <1>8, \A i, j \in 1 .. n : prop[i] = prop[j] => i = j, Zenon DEF Packs

\* So does a group of the first and an entry for each of the others.
LEMMA OneByOneBehind ==
  ASSUME NEW n \in Nat \ {0}, NEW prop \in [1 .. n -> Nat],
         \A i, j \in 1 .. n : prop[i] = prop[j] => i = j
  PROVE  Packs([k \in 1 .. n |-> IF k = 1 THEN <<prop[1], 0>> ELSE <<prop[k], k>>],
               << <<1, 0>> >>, n, prop)
<1>1. PICK m, g : m = [k \in 1 .. n |-> IF k = 1 THEN <<prop[1], 0>> ELSE <<prop[k], k>>] /\ g = << <<1, 0>> >>
  OBVIOUS
<1>2. /\ Len(m) = n
      /\ \A k \in 1 .. n : /\ m[k][1] = prop[k]
                           /\ GroupFor(g, m[k])[1] = 1 /\ GroupFor(g, m[k])[2] = k - 1
  BY <1>1 DEF GroupFor
<1>3. RunsOf(m, g, n) = {<<k, 0>> : k \in 1 .. n}
  BY <1>2 DEF RunsOf
<1>4. ASSUME NEW k \in 1 .. n PROVE InfoOf(m, g, <<k, 0>>) = k /\ PropertyOf(m, <<k, 0>>) = prop[k]
  BY <1>2 DEF InfoOf, PropertyOf
<1>5. \A k \in 1 .. n : \E r \in RunsOf(m, g, n) : InfoOf(m, g, r) = k
  BY <1>3, <1>4
<1>6. \A r \in RunsOf(m, g, n) : InfoOf(m, g, r) \in 1 .. n /\ PropertyOf(m, r) = prop[InfoOf(m, g, r)]
  BY <1>3, <1>4
<1>7. \A r, q \in RunsOf(m, g, n) : InfoOf(m, g, r) = InfoOf(m, g, q) => r = q
  BY <1>3, <1>4
<1>8. n \in Nat /\ DOMAIN prop = 1 .. n
  OBVIOUS
<1>9. QED
  BY ONLY <1>1, <1>5, <1>6, <1>7, <1>8, \A i, j \in 1 .. n : prop[i] = prop[j] => i = j, Zenon DEF Packs

\* So does a group of the first and one of the rest, if that is a run.
LEMMA OneRunBehind ==
  ASSUME NEW n \in Nat, n > 1, NEW prop \in [1 .. n -> Nat],
         \A i, j \in 1 .. n : prop[i] = prop[j] => i = j,
         \A k \in 2 .. n : prop[k] = prop[2] + (k - 2)
  PROVE  Packs(<< <<prop[1], 0>>, <<prop[2], 1>> >>, << <<1, 0>>, <<n - 1, 1>> >>, n, prop)
<1>1. PICK m, g : m = << <<prop[1], 0>>, <<prop[2], 1>> >> /\ g = << <<1, 0>>, <<n - 1, 1>> >>
  OBVIOUS
<1>2. /\ Len(m) = 2 /\ m[1][1] = prop[1] /\ m[2][1] = prop[2]
      /\ GroupFor(g, m[1])[1] = 1 /\ GroupFor(g, m[1])[2] = 0
      /\ GroupFor(g, m[2])[1] = n - 1 /\ GroupFor(g, m[2])[2] = 1
  BY <1>1 DEF GroupFor
<1>3. PICK run : run = [k \in 1 .. n |-> IF k = 1 THEN <<1, 0>> ELSE <<2, k - 2>>]
  OBVIOUS
<1>4. RunsOf(m, g, n) = {run[k] : k \in 1 .. n}
  <2>1. RunsOf(m, g, n) = {<<1, 0>>} \cup {<<2, j>> : j \in 0 .. n - 2}
    BY <1>2 DEF RunsOf
  <2>2. \A j \in 0 .. n - 2 : j + 2 \in 1 .. n /\ run[j + 2] = <<2, j>>
    BY <1>3
  <2>3. 1 \in 1 .. n /\ run[1] = <<1, 0>>
    BY <1>3
  <2>4. \A k \in 1 .. n : run[k] = <<1, 0>> \/ \E j \in 0 .. n - 2 : run[k] = <<2, j>>
    <3>1. ASSUME NEW k \in 1 .. n, k # 1 PROVE k - 2 \in 0 .. n - 2 /\ run[k] = <<2, k - 2>>
      BY <1>3, <3>1
    <3>2. QED
      BY <3>1, <2>3
  <2>5. QED
    BY ONLY <2>1, <2>2, <2>3, <2>4
<1>5. ASSUME NEW k \in 1 .. n PROVE InfoOf(m, g, run[k]) = k /\ PropertyOf(m, run[k]) = prop[k]
  <2>1. CASE k = 1
    BY <1>2, <1>3, <2>1 DEF InfoOf, PropertyOf
  <2>2. CASE k # 1
    <3>1. run[k] = <<2, k - 2>> /\ k \in 2 .. n
      BY <1>3, <2>2
    <3>2. prop[k] = prop[2] + (k - 2)
      BY <3>1
    <3>3. QED
      BY <1>2, <3>1, <3>2 DEF InfoOf, PropertyOf
  <2>3. QED
    BY <2>1, <2>2
<1>6. \A k \in 1 .. n : \E r \in RunsOf(m, g, n) : InfoOf(m, g, r) = k
  BY ONLY <1>4, <1>5
<1>7. \A r \in RunsOf(m, g, n) : InfoOf(m, g, r) \in 1 .. n /\ PropertyOf(m, r) = prop[InfoOf(m, g, r)]
  BY ONLY <1>4, <1>5
<1>8. \A r, q \in RunsOf(m, g, n) : InfoOf(m, g, r) = InfoOf(m, g, q) => r = q
  BY ONLY <1>4, <1>5
<1>9. n \in Nat /\ DOMAIN prop = 1 .. n
  OBVIOUS
<1>10. QED
  BY ONLY <1>1, <1>6, <1>7, <1>8, <1>9, \A i, j \in 1 .. n : prop[i] = prop[j] => i = j, Zenon DEF Packs

\* The tables of a map as WriteMap lists them, and what its extension adds.
Extends(c)   == c.packing \in {"extension", "extension_groups"}
KeptItems(c) == IF Extends(c) THEN 1 ELSE Len(c.items)
CandidatesBefore(c, i) == TotalOf([j \in 1 .. i - 1 |-> Len(c.items[j].variants)])
InfoPairs(c)  == [i \in DOMAIN c.items |-> <<c.items[i].decision - 1, CandidatesBefore(c, i)>>]
TableInfos(c) == SubSeq(InfoPairs(c), 1, KeptItems(c))
ExtraInfos(c) == SubSeq(InfoPairs(c), KeptItems(c) + 1, Len(c.items))
TableGroups(c) == CASE c.packing = "groups" -> << <<Len(c.items), 0>> >>
                    [] c.packing = "single" -> <<>>
                    [] OTHER                -> << <<1, 0>> >>
ExtraGroups(c) == When(c.packing = "extension_groups", << <<Len(c.items) - 1, 1>> >>)
TableMapped(c) == IF c.packing = "single" THEN [i \in DOMAIN c.items |-> <<c.items[i].prop, i - 1>>]
                  ELSE << <<c.items[1].prop, 0>> >>
ExtraMapped(c) == CASE c.packing = "extension_groups" -> << <<c.items[2].prop, 1>> >>
                    [] c.packing = "extension" ->
                         [k \in 1 .. Len(c.items) - 1 |-> <<c.items[k + 1].prop, 1 + k>>]
                    [] OTHER -> <<>>
Props(c) == [i \in DOMAIN c.items |-> c.items[i].prop]

\* Two lists of one element make one of two.
LEMMA OneAndOne == ASSUME NEW x, NEW y PROVE <<x>> \o <<y>> = <<x, y>>
<1>1. PICK T, s, t, r, n : T = {x, y} /\ s = <<x>> /\ t = <<y>> /\ r = s \o t /\ n = 1
  BY Zenon
<1>2. n \in Nat /\ s \in [1 .. n -> T] /\ t \in [1 .. n -> T]
  BY <1>1
<1>3. Behind(T, n, n, s, t, r)
  BY ONLY <1>1, <1>2, CatRows
<1>4. /\ r \in [1 .. n + n -> T]
      /\ \A i \in 1 .. n : r[i] = s[i]
      /\ \A i \in 1 .. n : r[n + i] = t[i]
  BY ONLY <1>3, Zenon DEF Behind
<1>5. r \in [1 .. 2 -> T] /\ r[1] = x /\ r[2] = y
  <2>1. n + n = 2 /\ n + 1 = 2 /\ 1 \in 1 .. n
    BY <1>1
  <2>2. s[1] = x /\ t[1] = y
    BY <1>1
  <2>3. QED
    BY ONLY <1>4, <2>1, <2>2, Zenon
<1>6. r = <<x, y>>
  BY <1>5
<1>7. QED
  BY ONLY <1>1, <1>6, Zenon

\* The items of the contents, by their places.
LEMMA ItemParts ==
  ASSUME NEW c, ItemsAreWellFormed(c), DecisionsAreWellFormed(c)
  PROVE  /\ Len(c.items) \in Nat \ {0} /\ DOMAIN c.items = 1 .. Len(c.items)
         /\ \A i \in 1 .. Len(c.items) :
              /\ c.items[i].prop \in Nat
              /\ c.items[i].decision \in 1 .. Len(c.decisions)
              /\ c.items[i].variants \in Seq(Range(c.items[i].variants))
              /\ Len(c.items[i].variants) = Len(c.decisions[c.items[i].decision])
              /\ \A v \in Range(c.items[i].variants) : IsVariant(v)
         /\ \A i, j \in 1 .. Len(c.items) : c.items[i].prop = c.items[j].prop => i = j
<1>1. PICK I, D, n : I = c.items /\ D = c.decisions /\ n = Len(c.items)
  BY Zenon
<1>2. /\ I \in Seq(Range(I)) /\ I # <<>>
      /\ \A item \in Range(I) :
           /\ item \in [prop : Nat, decision : DOMAIN D, variants : Seq(Range(item.variants))]
           /\ Len(item.variants) = Len(D[item.decision])
           /\ \A v \in Range(item.variants) : IsVariant(v)
      /\ \A i, j \in DOMAIN I : I[i].prop = I[j].prop => i = j
  BY <1>1, Zenon DEF ItemsAreWellFormed, IsList
<1>3. D \in Seq(Range(D))
  BY <1>1, Zenon DEF DecisionsAreWellFormed, IsList
<1>4. n \in Nat \ {0} /\ DOMAIN I = 1 .. n
  BY <1>1, <1>2
<1>5. DOMAIN D = 1 .. Len(D)
  BY <1>3
<1>6. ASSUME NEW i \in 1 .. n
      PROVE  /\ I[i].prop \in Nat /\ I[i].decision \in 1 .. Len(D)
             /\ I[i].variants \in Seq(Range(I[i].variants))
             /\ Len(I[i].variants) = Len(D[I[i].decision])
             /\ \A v \in Range(I[i].variants) : IsVariant(v)
  <2>1. PICK item : item = I[i]
    OBVIOUS
  <2>2. item \in Range(I)
    BY <1>4, <2>1 DEF Range
  <2>3. /\ item \in [prop : Nat, decision : DOMAIN D, variants : Seq(Range(item.variants))]
        /\ Len(item.variants) = Len(D[item.decision])
        /\ \A v \in Range(item.variants) : IsVariant(v)
    BY ONLY <1>2, <2>2, Zenon
  <2>4. item.prop \in Nat /\ item.decision \in DOMAIN D /\ item.variants \in Seq(Range(item.variants))
    BY ONLY <2>3
  <2>5. QED
    BY ONLY <1>5, <2>1, <2>3, <2>4, Zenon
<1>7. QED
  BY ONLY <1>1, <1>2, <1>4, <1>6, Zenon

\* The places in the tables of all candidates.
VariantLists(c) == [i \in 1 .. Len(c.items) |-> c.items[i].variants]

\* The variants of an item lie together among all of them.
LEMMA CandidatePlaces ==
  ASSUME NEW c, ItemsAreWellFormed(c), NEW i \in 1 .. Len(c.items)
  PROVE  /\ CandidatesBefore(c, i) \in Nat
         /\ CandidatesBefore(c, i) + Len(c.items[i].variants) <= Len(AllVariants(c))
         /\ \A j \in 1 .. Len(c.items[i].variants) :
              AllVariants(c)[CandidatesBefore(c, i) + j] = c.items[i].variants[j]
<1>1. PICK n, ss : n = Len(c.items) /\ ss = VariantLists(c)
  BY Zenon
<1>2. PICK V : /\ n \in Nat /\ ss \in [1 .. n -> Seq(V)] /\ AllVariants(c) = FlattenSeq(ss)
  BY <1>1, VariantList DEF VariantLists
<1>3. \A k \in 1 .. n : ss[k] = c.items[k].variants
  BY <1>1 DEF VariantLists
<1>4. PICK s : s = Sums(Lengths(ss))
  OBVIOUS
<1>5. CandidatesBefore(c, i) = s[i - 1]
  <2>1. TotalOf([j \in 1 .. i - 1 |-> Len(ss[j])]) = s[i - 1]
    BY <1>1, <1>2, <1>4, CountBefore
  <2>2. [j \in 1 .. i - 1 |-> Len(ss[j])] = [j \in 1 .. i - 1 |-> Len(c.items[j].variants)]
    BY <1>1, <1>2, <1>3
  <2>3. QED
    BY ONLY <2>1, <2>2, Zenon DEF CandidatesBefore
<1>6. /\ Lengths(ss) \in [1 .. n -> Nat] /\ Len(FlattenSeq(ss)) = s[n]
      /\ \A j \in 1 .. Len(ss[i]) : FlattenSeq(ss)[s[i - 1] + j] = ss[i][j]
  <2>1. n \in Nat
    BY <1>2
  <2>2. ss \in [1 .. n -> Seq(V)]
    BY <1>2
  <2>3. i \in 1 .. n
    BY <1>1
  <2>4. /\ Lengths(ss) \in [1 .. n -> Nat] /\ Len(FlattenSeq(ss)) = Sums(Lengths(ss))[n]
        /\ \A j \in 1 .. Len(ss[i]) :
             /\ Sums(Lengths(ss))[i - 1] + j \in 1 .. Len(FlattenSeq(ss))
             /\ FlattenSeq(ss)[Sums(Lengths(ss))[i - 1] + j] = ss[i][j]
    BY ONLY <2>1, <2>2, <2>3, FlattenParts
  <2>5. QED
    BY ONLY <2>4, <1>4, Zenon
<1>7. /\ s \in [0 .. n -> Nat] /\ \A x, y \in 0 .. n : x <= y => s[x] <= s[y]
      /\ s[i] = s[i - 1] + Lengths(ss)[i]
  <2>1. Lengths(ss) \in [1 .. n -> Int]
    BY <1>6
  <2>2. QED
    BY <1>1, <1>2, <1>4, <1>6, <2>1, SumsRise, SumsDef
<1>8. Lengths(ss)[i] = Len(ss[i])
  BY <1>1, <1>2 DEF Lengths
<1>9. s[i - 1] \in Nat /\ s[i] <= s[n] /\ s[n] \in Nat
  <2>1. n \in Nat /\ i \in 1 .. n
    BY <1>1, <1>2
  <2>2. i - 1 \in 0 .. n /\ i \in 0 .. n /\ n \in 0 .. n /\ i <= n
    BY ONLY <2>1
  <2>3. s[i - 1] \in Nat /\ s[n] \in Nat
    BY ONLY <2>2, <1>7
  <2>4. s[i] <= s[n]
    BY ONLY <2>2, <1>7, Zenon
  <2>5. QED
    BY <2>3, <2>4
<1>10. \A j \in 1 .. Len(ss[i]) : FlattenSeq(ss)[s[i - 1] + j] = ss[i][j]
  BY <1>1, <1>6
<1>11. ss[i] = c.items[i].variants
  BY <1>1, <1>3
<1>12. s[i - 1] + Len(ss[i]) <= s[n]
  BY ONLY <1>7, <1>8, <1>9
<1>13. QED
  BY ONLY <1>2, <1>5, <1>6, <1>9, <1>10, <1>11, <1>12, Zenon

\* All of them are lists of pairs of numbers, and list the items behind one
\* another.
LEMMA MapLists ==
  ASSUME NEW c, ItemsAreWellFormed(c), DecisionsAreWellFormed(c)
  PROVE  /\ PairList(TableMapped(c)) /\ PairList(TableGroups(c)) /\ PairList(TableInfos(c))
         /\ PairList(ExtraMapped(c)) /\ PairList(ExtraGroups(c)) /\ PairList(ExtraInfos(c))
         /\ Len(TableInfos(c)) = KeptItems(c)
         /\ ~Extends(c) => ExtraMapped(c) = <<>> /\ ExtraGroups(c) = <<>> /\ ExtraInfos(c) = <<>>
         /\ TableInfos(c) \o ExtraInfos(c) = InfoPairs(c)
         /\ Packs(TableMapped(c) \o ExtraMapped(c), TableGroups(c) \o ExtraGroups(c),
                  Len(c.items), Props(c))
<1>1. PICK I, n, p : I = c.items /\ n = Len(c.items) /\ p = Props(c)
  BY Zenon
<1>2. /\ n \in Nat \ {0} /\ DOMAIN I = 1 .. n
      /\ \A i \in 1 .. n : I[i].prop \in Nat /\ I[i].decision \in Nat \ {0}
      /\ \A i, j \in 1 .. n : I[i].prop = I[j].prop => i = j
  BY <1>1, ItemParts
<1>3. /\ p \in [1 .. n -> Nat] /\ \A i \in 1 .. n : p[i] = I[i].prop
      /\ \A i, j \in 1 .. n : p[i] = p[j] => i = j
  BY <1>1, <1>2 DEF Props
<1>4. PICK f : f = InfoPairs(c)
  OBVIOUS
<1>5. f \in [1 .. n -> Nat \X Nat]
  <2>1. \A i \in 1 .. n : CandidatesBefore(c, i) \in Nat
    BY <1>1, CandidatePlaces
  <2>2. \A i \in 1 .. n : I[i].decision - 1 \in Nat
    BY <1>2
  <2>3. f = [i \in 1 .. n |-> <<I[i].decision - 1, CandidatesBefore(c, i)>>]
    BY ONLY <1>1, <1>2, <1>4, Zenon DEF InfoPairs
  <2>4. QED
    BY <2>1, <2>2, <2>3
<1>6. ASSUME NEW k \in 0 .. n
      PROVE  /\ SubSeq(f, 1, k) \in Seq(Nat \X Nat) /\ SubSeq(f, k + 1, n) \in Seq(Nat \X Nat)
             /\ Len(SubSeq(f, 1, k)) = k
             /\ SubSeq(f, 1, k) \o SubSeq(f, k + 1, n) = f
             /\ k = n => SubSeq(f, k + 1, n) = <<>>
  BY <1>2, <1>5
<1>7. KeptItems(c) \in 0 .. n /\ (~Extends(c) => KeptItems(c) = n)
  BY <1>1, <1>2 DEF KeptItems
<1>8. TableInfos(c) = SubSeq(f, 1, KeptItems(c)) /\ ExtraInfos(c) = SubSeq(f, KeptItems(c) + 1, n)
  BY ONLY <1>1, <1>4, Zenon DEF TableInfos, ExtraInfos
<1>9. /\ PairList(TableInfos(c)) /\ PairList(ExtraInfos(c)) /\ Len(TableInfos(c)) = KeptItems(c)
      /\ ~Extends(c) => ExtraInfos(c) = <<>>
      /\ TableInfos(c) \o ExtraInfos(c) = InfoPairs(c)
  BY ONLY <1>4, <1>6, <1>7, <1>8, Zenon DEF PairList
<1> DEFINE Rest == /\ PairList(TableMapped(c)) /\ PairList(TableGroups(c))
                   /\ PairList(ExtraMapped(c)) /\ PairList(ExtraGroups(c))
                   /\ ~Extends(c) => ExtraMapped(c) = <<>> /\ ExtraGroups(c) = <<>>
                   /\ Packs(TableMapped(c) \o ExtraMapped(c), TableGroups(c) \o ExtraGroups(c),
                            n, p)
<1>10. ASSUME NEW t \in Seq(Nat \X Nat) PROVE t \o <<>> = t /\ <<>> \o t = t
  OBVIOUS
<1>11. PairList(<<>>)
  BY DEF PairList
<1>12. c.packing \in {"groups", "single", "extension", "extension_groups"}
  BY Zenon DEF ItemsAreWellFormed
<1>13. ASSUME c.packing = "groups" PROVE Rest
  <2>1. /\ TableMapped(c) = << <<I[1].prop, 0>> >> /\ ExtraMapped(c) = <<>>
        /\ TableGroups(c) = << <<n, 0>> >> /\ ExtraGroups(c) = <<>>
    BY ONLY <1>1, <1>13, Zenon DEF TableMapped, ExtraMapped, TableGroups, ExtraGroups, When
  <2>2. PICK m, g : m = << <<p[1], 0>> >> /\ g = << <<n, 0>> >>
    OBVIOUS
  <2>3. TableMapped(c) = m /\ TableGroups(c) = g
    BY ONLY <1>2, <1>3, <2>1, <2>2
  <2>4. m \in Seq(Nat \X Nat) /\ g \in Seq(Nat \X Nat)
    BY <1>2, <1>3, <2>2
  <2>5. \A k \in 1 .. n : p[k] = p[1] + (k - 1)
    <3>1. Run(c.items, 1)
      BY <1>13, Zenon DEF ItemsAreWellFormed
    <3>2. \A k \in 1 .. n : I[k].prop = I[1].prop + (k - 1)
      BY ONLY <3>1, <1>1 DEF Run
    <3>3. 1 \in 1 .. n
      BY ONLY <1>2
    <3>4. p[1] = I[1].prop
      BY ONLY <1>3, <3>3
    <3>5. QED
      BY ONLY <3>2, <3>4, <1>3
  <2>6. Packs(m, g, n, p)
    <3>1. n \in Nat \ {0}
      BY ONLY <1>2
    <3>2. p \in [1 .. n -> Nat]
      BY ONLY <1>3
    <3>3. \A i, j \in 1 .. n : p[i] = p[j] => i = j
      BY ONLY <1>3
    <3>4. Packs(<< <<p[1], 0>> >>, << <<n, 0>> >>, n, p)
      BY ONLY <3>1, <3>2, <3>3, <2>5, OneRun
    <3>5. QED
      BY ONLY <2>2, <3>4, Zenon
  <2>7. QED
    BY ONLY <1>10, <1>11, <2>1, <2>3, <2>4, <2>6, Zenon DEF PairList
<1>14. ASSUME c.packing = "single" PROVE Rest
  <2>1. /\ TableMapped(c) = [i \in DOMAIN I |-> <<I[i].prop, i - 1>>] /\ ExtraMapped(c) = <<>>
        /\ TableGroups(c) = <<>> /\ ExtraGroups(c) = <<>>
    BY ONLY <1>1, <1>14, Zenon DEF TableMapped, ExtraMapped, TableGroups, ExtraGroups, When
  <2>2. PICK m : m = [k \in 1 .. n |-> <<p[k], k - 1>>]
    OBVIOUS
  <2>3. TableMapped(c) = m
    <3>1. [i \in DOMAIN I |-> <<I[i].prop, i - 1>>] = m
      BY ONLY <1>2, <1>3, <2>2
    <3>2. QED
      BY ONLY <2>1, <3>1, Zenon
  <2>4. m \in Seq(Nat \X Nat)
    BY <1>2, <1>3, <2>2
  <2>5. Packs(m, <<>>, n, p)
    <3>1. n \in Nat
      BY ONLY <1>2
    <3>2. p \in [1 .. n -> Nat]
      BY ONLY <1>3
    <3>3. \A i, j \in 1 .. n : p[i] = p[j] => i = j
      BY ONLY <1>3
    <3>4. Packs([k \in 1 .. n |-> <<p[k], k - 1>>], <<>>, n, p)
      BY ONLY <3>1, <3>2, <3>3, EachByItself
    <3>5. QED
      BY ONLY <2>2, <3>4, Zenon
  <2>6. <<>> \in Seq(Nat \X Nat)
    OBVIOUS
  <2>7. QED
    BY ONLY <1>10, <1>11, <2>1, <2>3, <2>4, <2>5, <2>6, Zenon DEF PairList
<1>15. ASSUME c.packing = "extension" PROVE Rest
  <2>1. /\ TableMapped(c) = << <<I[1].prop, 0>> >>
        /\ ExtraMapped(c) = [k \in 1 .. n - 1 |-> <<I[k + 1].prop, 1 + k>>]
        /\ TableGroups(c) = << <<1, 0>> >> /\ ExtraGroups(c) = <<>>
    BY ONLY <1>1, <1>15, Zenon DEF TableMapped, ExtraMapped, TableGroups, ExtraGroups, When
  <2>2. PICK m, e, g : /\ m = << <<p[1], 0>> >> /\ g = << <<1, 0>> >>
                       /\ e = [k \in 1 .. n - 1 |-> <<p[k + 1], 1 + k>>]
    OBVIOUS
  <2>3. TableMapped(c) = m /\ TableGroups(c) = g
    BY ONLY <1>2, <1>3, <2>1, <2>2
  <2>4. ExtraMapped(c) = e
    <3>1. [k \in 1 .. n - 1 |-> <<I[k + 1].prop, 1 + k>>] = e
      BY ONLY <1>2, <1>3, <2>2
    <3>2. QED
      BY ONLY <2>1, <3>1, Zenon
  <2>5. m \in Seq(Nat \X Nat) /\ g \in Seq(Nat \X Nat) /\ e \in Seq(Nat \X Nat)
    <3>1. m \in Seq(Nat \X Nat) /\ g \in Seq(Nat \X Nat)
      BY <1>2, <1>3, <2>2
    <3>2. e \in [1 .. n - 1 -> Nat \X Nat]
      BY <1>2, <1>3, <2>2
    <3>3. QED
      BY <1>2, <3>1, <3>2
  <2>6. PICK r : r = [k \in 1 .. n |-> IF k = 1 THEN <<p[1], 0>> ELSE <<p[k], k>>]
    OBVIOUS
  <2>7. m \o e = r
    <3>1. Len(m) = 1 /\ Len(e) = n - 1 /\ m[1] = <<p[1], 0>>
      BY <1>2, <2>2
    <3>2. \A k \in 1 .. n - 1 : e[k] = <<p[k + 1], k + 1>>
      BY <2>2
    <3>3. PICK q, o, l : q = m \o e /\ o = 1 /\ l = n - 1
      BY Zenon
    <3>4. m \in [1 .. o -> Nat \X Nat] /\ e \in [1 .. l -> Nat \X Nat] /\ o \in Nat /\ l \in Nat
      <4>1. \A T, x : x \in Seq(T) => Len(x) \in Nat /\ x \in [1 .. Len(x) -> T]
        OBVIOUS
      <4>2. o = Len(m) /\ l = Len(e)
        BY <3>1, <3>3
      <4>3. QED
        BY ONLY <2>5, <4>1, <4>2, Zenon
    <3>5. Behind(Nat \X Nat, o, l, m, e, q)
      BY ONLY <3>3, <3>4, CatRows
    <3>6. /\ q \in [1 .. o + l -> Nat \X Nat] /\ Len(q) = o + l
          /\ \A k \in 1 .. o : q[k] = m[k]
          /\ \A k \in 1 .. l : q[o + k] = e[k]
      BY ONLY <3>5, Zenon DEF Behind
    <3>7. q \in [1 .. n -> Nat \X Nat] /\ q[1] = <<p[1], 0>>
      BY <1>2, <3>1, <3>3, <3>6
    <3>8. ASSUME NEW k \in 1 .. n, k # 1 PROVE q[k] = <<p[k], k>>
      <4>1. PICK h : h = k - 1
        OBVIOUS
      <4>2. h \in 1 .. l /\ o + h = k /\ h + 1 = k /\ h \in 1 .. n - 1
        BY <1>2, <3>3, <3>8, <4>1
      <4>3. e[h] = <<p[h + 1], h + 1>>
        BY <3>2, <4>2
      <4>4. QED
        BY ONLY <3>6, <4>2, <4>3, Zenon
    <3>9. \A k \in 1 .. n : q[k] = r[k]
      BY ONLY <2>6, <3>7, <3>8
    <3>10. q = r
      BY ONLY <2>6, <3>7, <3>9
    <3>11. QED
      BY ONLY <3>3, <3>10, Zenon
  <2>8. Packs(r, g, n, p)
    <3>1. n \in Nat \ {0}
      BY ONLY <1>2
    <3>2. p \in [1 .. n -> Nat]
      BY ONLY <1>3
    <3>3. \A i, j \in 1 .. n : p[i] = p[j] => i = j
      BY ONLY <1>3
    <3>4. Packs([k \in 1 .. n |-> IF k = 1 THEN <<p[1], 0>> ELSE <<p[k], k>>],
                << <<1, 0>> >>, n, p)
      BY ONLY <3>1, <3>2, <3>3, OneByOneBehind
    <3>5. QED
      BY ONLY <2>2, <2>6, <3>4, Zenon
  <2>9. Extends(c)
    BY ONLY <1>15, Zenon DEF Extends
  <2>10. QED
    BY ONLY <1>10, <1>11, <2>1, <2>3, <2>4, <2>5, <2>7, <2>8, <2>9, Zenon DEF PairList
<1>16. ASSUME c.packing = "extension_groups" PROVE Rest
  <2>1. /\ TableMapped(c) = << <<I[1].prop, 0>> >> /\ ExtraMapped(c) = << <<I[2].prop, 1>> >>
        /\ TableGroups(c) = << <<1, 0>> >> /\ ExtraGroups(c) = << <<n - 1, 1>> >>
    BY ONLY <1>1, <1>16, Zenon DEF TableMapped, ExtraMapped, TableGroups, ExtraGroups, When
  <2>2. PICK m, e, g, h : /\ m = << <<p[1], 0>> >> /\ g = << <<1, 0>> >>
                          /\ e = << <<p[2], 1>> >> /\ h = << <<n - 1, 1>> >>
    BY Zenon
  <2>3. Len(c.items) > 1 /\ Run(c.items, 2)
    BY <1>16, Zenon DEF ItemsAreWellFormed
  <2>4. n > 1 /\ 1 \in 1 .. n /\ 2 \in 1 .. n
    BY <1>1, <1>2, <2>3
  <2>5. /\ TableMapped(c) = m /\ TableGroups(c) = g /\ ExtraMapped(c) = e /\ ExtraGroups(c) = h
    BY ONLY <1>3, <2>1, <2>2, <2>4
  <2>6. /\ m \in Seq(Nat \X Nat) /\ g \in Seq(Nat \X Nat)
        /\ e \in Seq(Nat \X Nat) /\ h \in Seq(Nat \X Nat)
    <3>1. p[1] \in Nat /\ p[2] \in Nat /\ n - 1 \in Nat
      BY <1>2, <1>3, <2>4
    <3>2. QED
      BY ONLY <2>2, <3>1
  <2>7. m \o e = << <<p[1], 0>>, <<p[2], 1>> >> /\ g \o h = << <<1, 0>>, <<n - 1, 1>> >>
    <3>1. \A x, y : <<x>> \o <<y>> = <<x, y>>
      BY OneAndOne
    <3>2. QED
      BY ONLY <2>2, <3>1, Zenon
  <2>8. \A k \in 2 .. n : p[k] = p[2] + (k - 2)
    <3>1. \A k \in 2 .. n : I[k].prop = I[2].prop + (k - 2)
      BY <2>3, <1>1 DEF Run
    <3>2. QED
      BY <3>1, <1>3, <2>4
  <2>9. Packs(<< <<p[1], 0>>, <<p[2], 1>> >>, << <<1, 0>>, <<n - 1, 1>> >>, n, p)
    <3>1. n \in Nat /\ n > 1
      BY ONLY <1>2, <2>4
    <3>2. p \in [1 .. n -> Nat]
      BY ONLY <1>3
    <3>3. \A i, j \in 1 .. n : p[i] = p[j] => i = j
      BY ONLY <1>3
    <3>4. QED
      BY ONLY <3>1, <3>2, <3>3, <2>8, OneRunBehind
  <2>10. Extends(c)
    BY ONLY <1>16, Zenon DEF Extends
  <2>11. QED
    BY ONLY <2>5, <2>6, <2>7, <2>9, <2>10, Zenon DEF PairList
<1>17. Rest
  BY ONLY <1>12, <1>13, <1>14, <1>15, <1>16, Zenon
<1>18. QED
  BY ONLY <1>1, <1>9, <1>17, Zenon

\* Every form of a candidate begins with the byte that tells it.
LEMMA FormPlaces ==
  LET f == "candidate_type"
  IN  /\ f \in DOMAIN EmbeddedCandidate.at /\ EmbeddedCandidate.at[f] = <<0, 1>>
      /\ f \in DOMAIN CandidateType.at /\ CandidateType.at[f] = <<0, 1>>
<1>1. PICK n1, n2, n3, n4 :
        /\ n1 = "candidate_type" /\ n2 = "resource_value_type_index"
        /\ n3 = "embedded_data_length" /\ n4 = "embedded_data_offset"
  BY Zenon
<1>2. /\ n1 # n2 /\ n1 # n3 /\ n1 # n4 /\ n1 # Skip /\ n2 # n3 /\ n2 # n4
      /\ n2 # Skip /\ n3 # n4 /\ n3 # Skip /\ n4 # Skip
  BY <1>1 DEF Skip
<1>3. PICK names, w, names1, w1, n, m :
        /\ names = <<n1, n2, n3, n4>> /\ w = <<1, 1, 2, 4>>
        /\ names1 = <<n1>> /\ w1 = << 1 >> /\ n = 4 /\ m = 1
  BY Zenon
<1>4. /\ Record(n, names, w) /\ Record(m, names1, w1) /\ n \in Nat /\ m \in Nat
      /\ w \in [1 .. n -> Int] /\ w1 \in [1 .. m -> Int] /\ 1 \in 1 .. n /\ 1 \in 1 .. m
  BY <1>2, <1>3 DEF Record
<1>5. EmbeddedCandidate = Struct(names, w) /\ CandidateType = Struct(names1, w1)
  BY ONLY <1>1, <1>3, Zenon DEF EmbeddedCandidate, CandidateType
<1>6. Sums(w)[0] = 0 /\ Sums(w1)[0] = 0
  BY <1>4, SumsDef
<1>7. /\ DOMAIN Struct(names, w).at = {names[i] : i \in {j \in 1 .. n : names[j] # Skip}}
      /\ \A i \in 1 .. n : names[i] # Skip =>
              Struct(names, w).at[names[i]] = <<Sums(w)[i - 1], w[i]>>
  BY ONLY <1>4, StructDef
<1>8. /\ DOMAIN Struct(names1, w1).at = {names1[i] : i \in {j \in 1 .. m : names1[j] # Skip}}
      /\ \A i \in 1 .. m : names1[i] # Skip =>
              Struct(names1, w1).at[names1[i]] = <<Sums(w1)[i - 1], w1[i]>>
  BY ONLY <1>4, StructDef
<1>9. names[1] = n1 /\ names1[1] = n1 /\ w[1] = 1 /\ w1[1] = 1
  BY <1>3
<1>10. n1 \in DOMAIN Struct(names, w).at /\ Struct(names, w).at[n1] = <<0, 1>>
  BY <1>2, <1>4, <1>6, <1>7, <1>9
<1>11. n1 \in DOMAIN Struct(names1, w1).at /\ Struct(names1, w1).at[n1] = <<0, 1>>
  BY <1>2, <1>4, <1>6, <1>8, <1>9
<1>12. QED
  BY ONLY <1>1, <1>5, <1>10, <1>11, Zenon

\* The first byte of a candidate tells its form.
LEMMA FormRead ==
  ASSUME NEW s \in Written, NEW o \in Nat, Laid(file.at, o, s), Len(s) > 0, s[1][2] = 1
  PROVE  /\ Get(EmbeddedCandidate, o).candidate_type = s[1][1]
         /\ Get(CandidateType, o).candidate_type = s[1][1]
<1>1. s \in Fields /\ 1 \in 1 .. Len(s)
  BY WrittenIsFields DEF Fields
<1>2. PICK n \in Nat : n = Len(s)
  BY DEF Written
<1>3. Widths(s) \in [1 .. n -> Int] /\ Starts(s)[1] = Sums(Widths(s))[0]
  BY <1>1, <1>2, FieldsDef
<1>4. Starts(s)[1] = 0
  BY <1>2, <1>3, SumsDef
<1>5. PICK at : at = file.at
  OBVIOUS
<1>6. o \in DOMAIN at /\ at[o] = s[1]
  <2>1. o + Starts(s)[1] \in DOMAIN at /\ at[o + Starts(s)[1]] = s[1]
    BY <1>1, <1>5 DEF Laid
  <2>2. o + 0 = o
    OBVIOUS
  <2>3. QED
    BY ONLY <1>4, <2>1, <2>2, Zenon
<1>7. Field(o + 0, 1) = s[1][1]
  BY <1>5, <1>6 DEF Field
<1>8. PICK x, f : x = <<0, 1>> /\ f = "candidate_type"
  BY Zenon
<1>9. Field(o + x[1], x[2]) = s[1][1]
  BY <1>7, <1>8
<1>10. /\ f \in DOMAIN EmbeddedCandidate.at /\ EmbeddedCandidate.at[f] = x
       /\ f \in DOMAIN CandidateType.at /\ CandidateType.at[f] = x
  BY ONLY <1>8, FormPlaces, Zenon
<1>11. /\ Get(EmbeddedCandidate, o)[f] = s[1][1]
       /\ Get(CandidateType, o)[f] = s[1][1]
  BY ONLY <1>9, <1>10, Zenon DEF Get
<1>12. QED
  BY ONLY <1>8, <1>11, Zenon

\* The row of a candidate, and what it is built into.
TypesOf(c)    == Distinct([i \in DOMAIN AllVariants(c) |-> AllVariants(c)[i].type])
EmbeddedOf(c) == StoredAs(c, "Embedded")
EmbeddedData(c) == [i \in 1 .. Len(EmbeddedOf(c)) |-> EmbeddedOf(c)[i].data]
TypeIndex(c, v) == IndexIn(TypesOf(c), v.type)
CandidateRow(c, v) ==
  CASE v.store = "Embedded" ->
         << <<0, 1>>, <<TypeIndex(c, v), 1>>, <<4, 2>>, <<4 * IndexIn(EmbeddedOf(c), v), 4>> >>
    [] v.store \in {"DataString", "DataBlob"} ->
         << <<1, 1>>, <<TypeIndex(c, v), 1>>, <<0, 2>>, <<IndexIn(Stored(c), v), 2>>, <<4, 2>> >>
    [] v.store = "External" ->
         << <<1, 1>>, <<0, 1>>, <<2, 2>>, <<v.data, 2>>, <<9, 2>> >>
    [] OTHER -> << <<7, 1>>, <<0, 1>>, <<0, 6>> >>
CandidateOf(c, v) ==
  CASE v.store = "Embedded" ->
         [kind |-> "Embedded", type_index |-> TypeIndex(c, v), data |-> v.data]
    [] v.store \in {"DataString", "DataBlob"} ->
         [kind |-> "DataItem", type_index |-> TypeIndex(c, v), section_index |-> 4,
          data_item_index |-> IndexIn(Stored(c), v)]
    [] v.store = "External" ->
         [kind |-> "External", type_index |-> 0, referenced_file_index |-> 1,
          section_index |-> 9, data_item_index |-> v.data]
    [] OTHER -> [kind |-> "Unknown", candidate_type |-> 7]

\* The types and the embedded values a variant refers to.
LEMMA VariantPlaces ==
  ASSUME NEW c, ItemsAreWellFormed(c), NEW j \in 1 .. Len(AllVariants(c)), NEW v,
         v = AllVariants(c)[j]
  PROVE  /\ IsVariant(v)
         /\ TypeIndex(c, v) \in 0 .. Len(TypesOf(c)) - 1
         /\ TypesOf(c)[TypeIndex(c, v) + 1] = v.type
         /\ v.store = "Embedded" =>
              /\ IndexIn(EmbeddedOf(c), v) \in 0 .. Len(EmbeddedOf(c)) - 1
              /\ EmbeddedOf(c)[IndexIn(EmbeddedOf(c), v) + 1] = v
         /\ v.store \in {"DataString", "DataBlob"} =>
              /\ IndexIn(Stored(c), v) \in 0 .. Len(Stored(c)) - 1
              /\ Stored(c)[IndexIn(Stored(c), v) + 1] = v
<1>1. PICK V : (\A x \in V : IsVariant(x)) /\ AllVariants(c) \in Seq(V)
  BY VariantList
<1>2. PICK a, m, d, e, b : /\ a = AllVariants(c) /\ m = "Embedded" /\ d = "DataString" /\ e = "DataBlob"
                          /\ b = Len(AllVariants(c))
  BY Zenon
<1>3. b \in Nat /\ j \in 1 .. b /\ a \in [1 .. b -> V] /\ v = a[j]
  BY <1>1, <1>2
<1>4. IsVariant(v)
  BY <1>1, <1>3
<1>5. PICK types, s, t : s = [i \in DOMAIN a |-> a[i].type] /\ types = TypesOf(c) /\ t = Len(types)
  BY Zenon
<1>6. TypeIndex(c, v) \in Nat /\ TypeIndex(c, v) + 1 \in 1 .. t /\ types[TypeIndex(c, v) + 1] = v.type
  <2>1. PICK T : T = {a[i].type : i \in DOMAIN a}
    OBVIOUS
  <2>2. s \in [1 .. b -> T]
    BY <1>3, <1>5, <2>1
  <2>3. types = Distinct(s)
    BY ONLY <1>2, <1>5, Zenon DEF TypesOf
  <2>4. Reduces(T, b, s, Distinct(s))
    BY ONLY <1>3, <2>2, DistinctList
  <2>5. types \in Seq(T) /\ \A i \in 1 .. b : \E k \in 1 .. Len(types) : types[k] = s[i]
    BY ONLY <2>3, <2>4, Zenon DEF Reduces
  <2>6. s[j] = v.type
    BY <1>3, <1>5
  <2>7. Has(t, types, v.type)
    BY ONLY <1>3, <1>5, <2>5, <2>6 DEF Has
  <2>8. /\ IndexIn(types, v.type) \in Nat /\ IndexIn(types, v.type) + 1 \in 1 .. t
        /\ types[IndexIn(types, v.type) + 1] = v.type
    BY ONLY <2>7, IndexInDef
  <2>9. TypeIndex(c, v) = IndexIn(types, v.type)
    BY ONLY <1>5, Zenon DEF TypeIndex
  <2>10. QED
    BY ONLY <2>8, <2>9, Zenon
<1>7. ASSUME NEW st, v.store = st
      PROVE  Has(Len(StoredAs(c, st)), StoredAs(c, st), v)
  <2>1. /\ StoredAs(c, st) \in Seq(V)
        /\ \A i \in 1 .. Len(AllVariants(c)) : AllVariants(c)[i].store = st =>
              \E k \in 1 .. Len(StoredAs(c, st)) : StoredAs(c, st)[k] = AllVariants(c)[i]
    BY <1>1, StoredList
  <2>2. \E k \in 1 .. Len(StoredAs(c, st)) : StoredAs(c, st)[k] = v
    BY ONLY <2>1, <1>7, v = AllVariants(c)[j], j \in 1 .. Len(AllVariants(c)), Zenon
  <2>3. QED
    BY <2>1, <2>2 DEF Has
<1>8. ASSUME v.store = m
      PROVE  LET x == IndexIn(EmbeddedOf(c), v)
             IN  x \in Nat /\ x + 1 \in 1 .. Len(EmbeddedOf(c)) /\ EmbeddedOf(c)[x + 1] = v
  <2>1. EmbeddedOf(c) = StoredAs(c, m)
    BY ONLY <1>2, Zenon DEF EmbeddedOf
  <2>2. Has(Len(EmbeddedOf(c)), EmbeddedOf(c), v)
    BY ONLY <1>7, <1>8, <2>1, Zenon
  <2>3. QED
    BY ONLY <2>2, IndexInDef
<1>9. ASSUME v.store \in {d, e}
      PROVE  LET x == IndexIn(Stored(c), v)
             IN  x \in Nat /\ x + 1 \in 1 .. Len(Stored(c)) /\ Stored(c)[x + 1] = v
  <2>1. PICK S, B, p, q, r : /\ S = Strings(c) /\ B = Blobs(c) /\ r = Stored(c)
                             /\ p = StoredAs(c, d) /\ q = StoredAs(c, e)
    BY Zenon
  <2>2. /\ S \in Nat /\ B \in Nat /\ Len(r) = S + B /\ DOMAIN r = 1 .. S + B
        /\ \A i \in 1 .. S : r[i] = p[i]
        /\ \A i \in 1 .. B : r[S + i] = q[i]
        /\ DOMAIN p = 1 .. S /\ DOMAIN q = 1 .. B
    BY ONLY <1>2, <2>1, ItemsAreWellFormed(c), StoredParts, Zenon
  <2>3. Len(p) = S /\ Len(q) = B
    BY ONLY <1>2, <2>1, Zenon DEF Strings, Blobs
  <2>4. \E k \in 1 .. S + B : r[k] = v
    <3>1. CASE v.store = d
      <4>1. PICK k \in 1 .. S : p[k] = v
        BY ONLY <1>7, <2>1, <2>3, <3>1, Zenon DEF Has
      <4>2. k \in 1 .. S + B
        BY ONLY <2>2
      <4>3. QED
        BY ONLY <2>2, <4>1, <4>2, Zenon
    <3>2. CASE v.store = e
      <4>1. PICK k \in 1 .. B : q[k] = v
        BY ONLY <1>7, <2>1, <2>3, <3>2, Zenon DEF Has
      <4>2. S + k \in 1 .. S + B
        BY ONLY <2>2
      <4>3. QED
        BY ONLY <2>2, <4>1, <4>2, Zenon
    <3>3. QED
      BY ONLY <1>9, <3>1, <3>2, Zenon
  <2>5. PICK l : l = S + B
    OBVIOUS
  <2>6. l \in Nat
    BY <2>2, <2>5
  <2>7. Has(l, r, v)
    BY ONLY <2>2, <2>4, <2>5, <2>6, Zenon DEF Has
  <2>8. IndexIn(r, v) \in Nat /\ IndexIn(r, v) + 1 \in 1 .. l /\ r[IndexIn(r, v) + 1] = v
    BY ONLY <2>7, IndexInDef
  <2>9. QED
    BY ONLY <2>1, <2>2, <2>5, <2>8, Zenon
<1>10. \A x, y : x \in Nat /\ y \in Nat /\ x + 1 \in 1 .. y => x \in 0 .. y - 1
  OBVIOUS
<1>11. Len(EmbeddedOf(c)) \in Nat /\ Len(Stored(c)) \in Nat /\ Len(TypesOf(c)) \in Nat
  <2>1. Len(Stored(c)) \in Nat
    BY StoredParts
  <2>2. EmbeddedOf(c) \in Seq(V)
    BY ONLY <1>1, <1>2, StoredList, Zenon DEF EmbeddedOf
  <2>3. PICK T : T = {a[i].type : i \in DOMAIN a}
    OBVIOUS
  <2>4. s \in [1 .. b -> T]
    BY <1>3, <1>5, <2>3
  <2>5. TypesOf(c) = Distinct(s)
    BY ONLY <1>2, <1>5, Zenon DEF TypesOf
  <2>6. Reduces(T, b, s, Distinct(s))
    BY ONLY <1>3, <2>4, DistinctList
  <2>7. TypesOf(c) \in Seq(T)
    BY ONLY <2>5, <2>6, Zenon DEF Reduces
  <2>8. QED
    BY ONLY <2>1, <2>2, <2>7
<1>12. QED
  BY ONLY <1>2, <1>4, <1>5, <1>6, <1>8, <1>9, <1>10, <1>11, Zenon

\* The rows of candidates and what is read of them.
LEMMA EmbeddedRow ==
  ASSUME NEW t \in Nat, NEW x \in Nat, NEW s, s = << <<0, 1>>, <<t, 1>>, <<4, 2>>, <<x, 4>> >>
  PROVE  /\ s \in Written /\ SizeOf(s) = 8
         /\ \A o \in Nat : Laid(file.at, o, s) =>
              /\ Get(CandidateType, o).candidate_type = 0
              /\ Get(EmbeddedCandidate, o).candidate_type = 0
              /\ Get(EmbeddedCandidate, o).resource_value_type_index = t
              /\ Get(EmbeddedCandidate, o).embedded_data_length = 4
              /\ Get(EmbeddedCandidate, o).embedded_data_offset = x
<1>1. Int \subseteq Values
  BY DEF Values
<1>2. /\ s \in Written /\ Widths(s) = <<1, 1, 2, 4>> /\ Len(s) > 0 /\ s[1][2] = 1
      /\ s[1][1] = 0 /\ s[2][1] = t /\ s[3][1] = 4 /\ s[4][1] = x
  BY <1>1 DEF Written, Widths
<1>3. SizeOf(s) = 8 /\ \A o \in Nat : Laid(file.at, o, s) =>
              /\ Get(EmbeddedCandidate, o).candidate_type = s[1][1]
              /\ Get(EmbeddedCandidate, o).resource_value_type_index = s[2][1]
              /\ Get(EmbeddedCandidate, o).embedded_data_length = s[3][1]
              /\ Get(EmbeddedCandidate, o).embedded_data_offset = s[4][1]
  BY ONLY <1>2, EmbeddedCandidateRead
<1>4. \A o \in Nat : Laid(file.at, o, s) => Get(CandidateType, o).candidate_type = s[1][1]
  BY ONLY <1>2, FormRead
<1>5. QED
  BY ONLY <1>2, <1>3, <1>4, Zenon

RowOfReferenced(t, f, i, d) == << <<1, 1>>, <<t, 1>>, <<f, 2>>, <<i, 2>>, <<d, 2>> >>

\* A referenced candidate as it is written and read.
LEMMA ReferencedRow ==
  ASSUME NEW t \in Nat, NEW f \in Nat, NEW i \in Nat, NEW d \in Nat,
         NEW s, s = RowOfReferenced(t, f, i, d)
  PROVE  /\ s \in Written /\ SizeOf(s) = 8
         /\ \A o \in Nat : Laid(file.at, o, s) =>
              /\ Get(CandidateType, o).candidate_type = 1
              /\ Get(EmbeddedCandidate, o).candidate_type = 1
              /\ Get(ReferencedCandidate, o).resource_value_type_index = t
              /\ Get(ReferencedCandidate, o).source_file = f
              /\ Get(ReferencedCandidate, o).data_item_index = i
              /\ Get(ReferencedCandidate, o).data_item_section_index = d
<1>1. Int \subseteq Values
  BY DEF Values
<1>2. /\ s \in Written /\ Widths(s) = <<1, 1, 2, 2, 2>> /\ Len(s) > 0 /\ s[1][2] = 1
      /\ s[1][1] = 1 /\ s[2][1] = t /\ s[3][1] = f /\ s[4][1] = i /\ s[5][1] = d
  BY <1>1 DEF Written, Widths, RowOfReferenced
<1>3. SizeOf(s) = 8 /\ \A o \in Nat : Laid(file.at, o, s) =>
              /\ Get(ReferencedCandidate, o).resource_value_type_index = s[2][1]
              /\ Get(ReferencedCandidate, o).source_file = s[3][1]
              /\ Get(ReferencedCandidate, o).data_item_index = s[4][1]
              /\ Get(ReferencedCandidate, o).data_item_section_index = s[5][1]
  BY ONLY <1>2, ReferencedCandidateRead
<1>4. \A o \in Nat : Laid(file.at, o, s) =>
        /\ Get(CandidateType, o).candidate_type = s[1][1]
        /\ Get(EmbeddedCandidate, o).candidate_type = s[1][1]
  BY ONLY <1>2, FormRead
<1>5. QED
  BY ONLY <1>2, <1>3, <1>4, Zenon

\* A candidate of an unknown form as it is written and read.
LEMMA UnknownRow ==
  ASSUME NEW s, s = << <<7, 1>>, <<0, 1>>, <<0, 6>> >>
  PROVE  /\ s \in Written /\ SizeOf(s) = 8
         /\ \A o \in Nat : Laid(file.at, o, s) =>
              /\ Get(CandidateType, o).candidate_type = 7
              /\ Get(EmbeddedCandidate, o).candidate_type = 7
<1>1. Int \subseteq Values
  BY DEF Values
<1>2. /\ s \in Written /\ Widths(s) = <<1, 1, 6>> /\ Len(s) > 0 /\ s[1][2] = 1 /\ s[1][1] = 7
  BY <1>1 DEF Written, Widths
<1>3. SizeOf(s) = 8
  <2>1. PICK n, w : n = 3 /\ w = <<1, 1, 6>>
    OBVIOUS
  <2>2. Numbers(n, w) /\ w[1] = 1 /\ w[2] = 1 /\ w[3] = 6
    BY <2>1 DEF Numbers
  <2>3. Sums(w)[3] = 8
    BY <2>1, <2>2, SumsOfFew
  <2>4. Len(s) = 3
    OBVIOUS
  <2>5. s \in Fields
    BY ONLY <1>2, WrittenIsFields
  <2>6. SizeOf(s) = Sums(Widths(s))[Len(s)]
    BY ONLY <2>5, FieldsDef
  <2>7. QED
    BY ONLY <1>2, <2>1, <2>3, <2>4, <2>6, Zenon
<1>4. \A o \in Nat : Laid(file.at, o, s) =>
        /\ Get(CandidateType, o).candidate_type = s[1][1]
        /\ Get(EmbeddedCandidate, o).candidate_type = s[1][1]
  BY ONLY <1>2, FormRead
<1>5. QED
  BY ONLY <1>2, <1>3, <1>4, Zenon

\* Where the embedded data is.
Embeds(c, embedded) ==
  /\ embedded.base \in Nat /\ embedded.len = Len(EmbeddedOf(c)) * 4
  /\ Laid(file.at, embedded.base, Singles(Len(EmbeddedOf(c)), 4, EmbeddedData(c)))

\* The embedded data is a column of values.
LEMMA EmbeddedTable ==
  ASSUME NEW c, ItemsAreWellFormed(c)
  PROVE  Column(Len(EmbeddedOf(c)), EmbeddedData(c))
<1>1. PICK V : (\A x \in V : IsVariant(x)) /\ AllVariants(c) \in Seq(V)
  BY VariantList
<1>2. PICK e, n, m, s : e = EmbeddedOf(c) /\ n = Len(e) /\ m = "Embedded" /\ s = StoredAs(c, "Embedded")
  BY Zenon
<1>3. e = s
  BY ONLY <1>2, Zenon DEF EmbeddedOf
<1>4. /\ StoredAs(c, m) \in Seq(V)
      /\ \A k \in 1 .. Len(StoredAs(c, m)) : StoredAs(c, m)[k].store = m
  BY ONLY <1>1, StoredList
<1>5. StoredAs(c, m) = e
  BY ONLY <1>2, <1>3, Zenon
<1>6. e \in Seq(V) /\ \A k \in 1 .. n : e[k].store = m
  BY ONLY <1>2, <1>4, <1>5, Zenon
<1>7. ASSUME NEW k \in 1 .. n PROVE e[k].data \in Values
  <2>1. e[k] \in V
    BY ONLY <1>2, <1>6, k \in 1 .. n
  <2>2. IsVariant(e[k]) /\ e[k].store = m
    BY ONLY <1>1, <1>6, <2>1, k \in 1 .. n, Zenon
  <2>3. PICK v : v = e[k]
    OBVIOUS
  <2>4. v.store # "External"
    BY ONLY <1>2, <2>2, <2>3
  <2>5. v \in [store : Stores, type : Range(ResourceValueTypes),
         data : IF v.store = "External" THEN Nat ELSE STRING]
    BY ONLY <2>2, <2>3, Zenon DEF IsVariant
  <2>6. PICK D : D = IF v.store = "External" THEN Nat ELSE STRING
    BY Zenon
  <2>7. D = STRING
    BY ONLY <2>4, <2>6, Zenon
  <2>8. v.data \in D
    BY ONLY <2>5, <2>6
  <2>9. QED
    BY ONLY <2>3, <2>7, <2>8, Zenon DEF Values
<1>8. n \in Nat
  BY ONLY <1>2, <1>6
<1>9. EmbeddedData(c) \in [1 .. n -> Values]
  <2>1. EmbeddedData(c) = [i \in 1 .. n |-> e[i].data]
    BY ONLY <1>2, Zenon DEF EmbeddedData
  <2>2. QED
    BY ONLY <1>7, <2>1
<1>10. QED
  BY ONLY <1>2, <1>8, <1>9, Zenon DEF Column

\* The data of an embedded variant is read at its place.
LEMMA EmbeddedDataRead ==
  ASSUME NEW c, ItemsAreWellFormed(c), NEW embedded, Embeds(c, embedded), NEW k \in Nat,
         k + 1 \in 1 .. Len(EmbeddedOf(c))
  PROVE  /\ Fits(embedded, 4 * k, 4)
         /\ Field(embedded.base + 4 * k, 4) = EmbeddedOf(c)[k + 1].data
<1>1. PICK b, n, l, f, a, i, p, at :
        /\ b = embedded.base /\ n = Len(EmbeddedOf(c)) /\ l = embedded.len
        /\ f = EmbeddedData(c) /\ a = 4 /\ i = k + 1 /\ p = b + 4 * k /\ at = file.at
  BY Zenon
<1>2. /\ b \in Nat /\ l = n * 4 /\ Laid(at, b, Singles(n, a, f))
  BY ONLY Embeds(c, embedded), <1>1, Zenon DEF Embeds
<1>3. Column(n, f)
  BY ONLY <1>1, ItemsAreWellFormed(c), EmbeddedTable, Zenon
<1>4. n \in Nat /\ i \in 1 .. n /\ p = b + (i - 1) * a
  <2>1. n \in Nat
    BY ONLY <1>3, Zenon DEF Column
  <2>2. i \in 1 .. n
    BY ONLY <1>1, k + 1 \in 1 .. Len(EmbeddedOf(c)), Zenon
  <2>a. a = 4 /\ i = k + 1 /\ p = b + 4 * k
    BY ONLY <1>1, Zenon
  <2>3. p = b + (i - 1) * a
    BY ONLY <1>2, <2>a, k \in Nat
  <2>4. QED
    BY ONLY <2>1, <2>2, <2>3
<1>5. Positive(a)
  <2>1. a = 4
    BY ONLY <1>1, Zenon
  <2>2. QED
    BY ONLY <2>1 DEF Positive
<1>6. Laid(at, b, Singles(n, a, f))
  BY ONLY <1>2
<1>7. b \in Nat
  BY ONLY <1>2
<1>8. i \in 1 .. n
  BY ONLY <1>4
<1>9. p = b + (i - 1) * a
  BY ONLY <1>4
<1>10. p \in DOMAIN at /\ at[p] = <<f[i], a>>
  BY ONLY <1>3, <1>5, <1>6, <1>7, <1>8, <1>9, SingleRow
<1>11. Field(p, a) = f[i]
  BY ONLY <1>1, <1>10 DEF Field
<1>12. f[i] = EmbeddedOf(c)[i].data
  BY ONLY <1>1, <1>8, Zenon DEF EmbeddedData
<1>13. 4 * k + 4 <= l
  <2>1. n \in Nat /\ i \in 1 .. n /\ i = k + 1 /\ l = n * 4
    BY ONLY <1>1, <1>2, <1>4, Zenon
  <2>2. QED
    BY ONLY <2>1, k \in Nat
<1>14. Fits(embedded, 4 * k, 4)
  BY ONLY <1>1, <1>13, Zenon DEF Fits
<1>15. QED
  BY ONLY <1>1, <1>11, <1>12, <1>14, Zenon

\* Every candidate is read back as the variant it was written for.
LEMMA CandidateRead ==
  ASSUME NEW c, ItemsAreWellFormed(c), NEW j \in 1 .. Len(AllVariants(c)), NEW v,
         v = AllVariants(c)[j], NEW s, s = CandidateRow(c, v)
  PROVE  /\ s \in Written /\ SizeOf(s) = 8
         /\ \A embedded, o : o \in Nat /\ Laid(file.at, o, s) /\ Embeds(c, embedded) =>
              Candidate(embedded, o) = CandidateOf(c, v) /\ Lies(embedded, o)
<1>1. /\ IsVariant(v)
      /\ TypeIndex(c, v) \in 0 .. Len(TypesOf(c)) - 1
      /\ v.store = "Embedded" =>
           /\ IndexIn(EmbeddedOf(c), v) \in 0 .. Len(EmbeddedOf(c)) - 1
           /\ EmbeddedOf(c)[IndexIn(EmbeddedOf(c), v) + 1] = v
      /\ v.store \in {"DataString", "DataBlob"} =>
           IndexIn(Stored(c), v) \in 0 .. Len(Stored(c)) - 1
  BY ONLY ItemsAreWellFormed(c), j \in 1 .. Len(AllVariants(c)), v = AllVariants(c)[j], VariantPlaces
<1>2. PICK t : t = TypeIndex(c, v)
  OBVIOUS
<1>3. t \in Nat
  BY ONLY <1>1, <1>2
<1>a. \A form : (form = 1 => form # 0) /\ (form = 0 => form # 1)
  OBVIOUS
<1>4. ASSUME v.store = "Embedded"
      PROVE  /\ s \in Written /\ SizeOf(s) = 8
             /\ \A embedded, o : o \in Nat /\ Laid(file.at, o, s) /\ Embeds(c, embedded) =>
                  Candidate(embedded, o) = CandidateOf(c, v) /\ Lies(embedded, o)
  <2>1. PICK k, x, n : k = IndexIn(EmbeddedOf(c), v) /\ x = 4 * k /\ n = Len(EmbeddedOf(c))
    BY Zenon
  <2>2. k \in 0 .. n - 1 /\ EmbeddedOf(c)[k + 1] = v
    BY ONLY <1>1, <1>4, <2>1, Zenon
  <2>3. k \in Nat /\ x \in Nat
    BY ONLY <2>1, <2>2
  <2>4. s = << <<0, 1>>, <<t, 1>>, <<4, 2>>, <<x, 4>> >>
    BY ONLY <1>2, <1>4, <2>1, s = CandidateRow(c, v), Zenon DEF CandidateRow
  <2>5. /\ s \in Written /\ SizeOf(s) = 8
        /\ \A o \in Nat : Laid(file.at, o, s) =>
              /\ Get(CandidateType, o).candidate_type = 0
              /\ Get(EmbeddedCandidate, o).candidate_type = 0
              /\ Get(EmbeddedCandidate, o).resource_value_type_index = t
              /\ Get(EmbeddedCandidate, o).embedded_data_length = 4
              /\ Get(EmbeddedCandidate, o).embedded_data_offset = x
    BY ONLY <1>3, <2>3, <2>4, EmbeddedRow
  <2>6. ASSUME NEW embedded, NEW o \in Nat, Laid(file.at, o, s), Embeds(c, embedded)
        PROVE  Candidate(embedded, o) = CandidateOf(c, v) /\ Lies(embedded, o)
    <3>1. k + 1 \in 1 .. Len(EmbeddedOf(c))
      <4>1. Column(n, EmbeddedData(c))
        BY ONLY <2>1, ItemsAreWellFormed(c), EmbeddedTable, Zenon
      <4>2. n \in Nat
        BY ONLY <4>1, Zenon DEF Column
      <4>3. k + 1 \in 1 .. n
        BY ONLY <4>2, <2>2
      <4>4. QED
        BY ONLY <2>1, <4>3, Zenon
    <3>2. Fits(embedded, 4 * k, 4) /\ Field(embedded.base + 4 * k, 4) = EmbeddedOf(c)[k + 1].data
      BY ONLY <2>3, <2>6, <3>1, ItemsAreWellFormed(c), EmbeddedDataRead
    <3>3. /\ Get(CandidateType, o).candidate_type = 0
          /\ Get(EmbeddedCandidate, o).candidate_type = 0
          /\ Get(EmbeddedCandidate, o).resource_value_type_index = t
          /\ Get(EmbeddedCandidate, o).embedded_data_length = 4
          /\ Get(EmbeddedCandidate, o).embedded_data_offset = x
      BY ONLY <2>5, <2>6, o \in Nat, Zenon
    <3>4. Candidate(embedded, o) = [kind |-> "Embedded", type_index |-> t, data |-> v.data]
      <4>1. PICK y, z : y = 0 /\ z = 4
        BY Zenon
      <4>2. Field(embedded.base + x, z) = v.data
        BY ONLY <2>1, <2>2, <3>2, <4>1, Zenon
      <4>3. QED
        BY ONLY <1>a, <3>3, <4>1, <4>2, Zenon DEF Candidate
    <3>5. CandidateOf(c, v) = [kind |-> "Embedded", type_index |-> t, data |-> v.data]
      BY ONLY <1>2, <1>4, Zenon DEF CandidateOf
    <3>6. Lies(embedded, o)
      BY ONLY <2>1, <3>2, <3>3, Zenon DEF Lies
    <3>7. QED
      BY ONLY <3>4, <3>5, <3>6, Zenon
  <2>7. QED
    BY ONLY <2>5, <2>6, Zenon
<1>5. ASSUME v.store \in {"DataString", "DataBlob"}
      PROVE  /\ s \in Written /\ SizeOf(s) = 8
             /\ \A embedded, o : o \in Nat /\ Laid(file.at, o, s) /\ Embeds(c, embedded) =>
                  Candidate(embedded, o) = CandidateOf(c, v) /\ Lies(embedded, o)
  <2>1. PICK k, f, d : k = IndexIn(Stored(c), v) /\ f = 0 /\ d = 4
    BY Zenon
  <2>2. k \in Nat /\ f \in Nat /\ d \in Nat
    <3>1. k \in 0 .. Len(Stored(c)) - 1
      BY ONLY <1>1, <1>5, <2>1, Zenon
    <3>2. f = 0 /\ d = 4
      BY ONLY <2>1, Zenon
    <3>3. QED
      BY ONLY <3>1, <3>2
  <2>3. v.store # "Embedded"
    BY <1>5
  <2>4. s = RowOfReferenced(t, f, k, d)
    BY ONLY <1>2, <1>5, <2>1, <2>3, s = CandidateRow(c, v), Zenon DEF CandidateRow, RowOfReferenced
  <2>a. k \in Nat
    BY ONLY <2>2
  <2>b. f \in Nat
    BY ONLY <2>2
  <2>c. d \in Nat
    BY ONLY <2>2
  <2>5. /\ s \in Written /\ SizeOf(s) = 8
        /\ \A o \in Nat : Laid(file.at, o, s) =>
              /\ Get(CandidateType, o).candidate_type = 1
              /\ Get(EmbeddedCandidate, o).candidate_type = 1
              /\ Get(ReferencedCandidate, o).resource_value_type_index = t
              /\ Get(ReferencedCandidate, o).source_file = f
              /\ Get(ReferencedCandidate, o).data_item_index = k
              /\ Get(ReferencedCandidate, o).data_item_section_index = d
    BY ONLY <1>3, <2>a, <2>b, <2>c, <2>4, ReferencedRow
  <2>6. ASSUME NEW embedded, NEW o \in Nat, Laid(file.at, o, s)
        PROVE  Candidate(embedded, o) = CandidateOf(c, v) /\ Lies(embedded, o)
    <3>3. /\ Get(CandidateType, o).candidate_type = 1
          /\ Get(EmbeddedCandidate, o).candidate_type = 1
          /\ Get(ReferencedCandidate, o).resource_value_type_index = t
          /\ Get(ReferencedCandidate, o).source_file = f
          /\ Get(ReferencedCandidate, o).data_item_index = k
          /\ Get(ReferencedCandidate, o).data_item_section_index = d
      BY ONLY <2>5, <2>6, o \in Nat, Zenon
    <3>4. Candidate(embedded, o) = [kind |-> "DataItem", type_index |-> t, section_index |-> d,
                                    data_item_index |-> k]
      BY ONLY <1>a, <2>1, <3>3, Zenon DEF Candidate
    <3>5. CandidateOf(c, v) = [kind |-> "DataItem", type_index |-> t, section_index |-> d,
                               data_item_index |-> k]
      BY ONLY <1>2, <1>5, <2>1, <2>3, Zenon DEF CandidateOf
    <3>6. Lies(embedded, o)
      BY ONLY <1>a, <3>3, Zenon DEF Lies
    <3>7. QED
      BY ONLY <3>4, <3>5, <3>6, Zenon
  <2>7. QED
    BY ONLY <2>5, <2>6, Zenon
<1>6. ASSUME v.store = "External"
      PROVE  /\ s \in Written /\ SizeOf(s) = 8
             /\ \A embedded, o : o \in Nat /\ Laid(file.at, o, s) /\ Embeds(c, embedded) =>
                  Candidate(embedded, o) = CandidateOf(c, v) /\ Lies(embedded, o)
  <2>1. PICK k, f, d, z : k = v.data /\ f = 2 /\ d = 9 /\ z = 0
    BY Zenon
  <2>2. k \in Nat /\ f \in Nat /\ d \in Nat /\ z \in Nat /\ f # z /\ f - 1 = 1
    <3>1. v \in [store : Stores, type : Range(ResourceValueTypes),
         data : IF v.store = "External" THEN Nat ELSE STRING]
      BY ONLY <1>1, Zenon DEF IsVariant
    <3>2. PICK D : D = IF v.store = "External" THEN Nat ELSE STRING
      BY Zenon
    <3>3. D = Nat
      BY ONLY <1>6, <3>2, Zenon
    <3>4. v.data \in D
      BY ONLY <3>1, <3>2
    <3>5. k \in Nat
      BY ONLY <2>1, <3>3, <3>4, Zenon
    <3>6. f = 2 /\ d = 9 /\ z = 0
      BY ONLY <2>1, Zenon
    <3>7. QED
      BY ONLY <3>5, <3>6
  <2>3. v.store # "Embedded" /\ v.store \notin {"DataString", "DataBlob"}
    BY <1>6
  <2>4. s = RowOfReferenced(z, f, k, d)
    BY ONLY <1>6, <2>1, <2>3, s = CandidateRow(c, v), Zenon DEF CandidateRow, RowOfReferenced
  <2>a. k \in Nat
    BY ONLY <2>2
  <2>b. f \in Nat
    BY ONLY <2>2
  <2>c. d \in Nat
    BY ONLY <2>2
  <2>d. z \in Nat
    BY ONLY <2>2
  <2>5. /\ s \in Written /\ SizeOf(s) = 8
        /\ \A o \in Nat : Laid(file.at, o, s) =>
              /\ Get(CandidateType, o).candidate_type = 1
              /\ Get(EmbeddedCandidate, o).candidate_type = 1
              /\ Get(ReferencedCandidate, o).resource_value_type_index = z
              /\ Get(ReferencedCandidate, o).source_file = f
              /\ Get(ReferencedCandidate, o).data_item_index = k
              /\ Get(ReferencedCandidate, o).data_item_section_index = d
    BY ONLY <2>a, <2>b, <2>c, <2>d, <2>4, ReferencedRow
  <2>6. ASSUME NEW embedded, NEW o \in Nat, Laid(file.at, o, s)
        PROVE  Candidate(embedded, o) = CandidateOf(c, v) /\ Lies(embedded, o)
    <3>3. /\ Get(CandidateType, o).candidate_type = 1
          /\ Get(EmbeddedCandidate, o).candidate_type = 1
          /\ Get(ReferencedCandidate, o).resource_value_type_index = z
          /\ Get(ReferencedCandidate, o).source_file = f
          /\ Get(ReferencedCandidate, o).data_item_index = k
          /\ Get(ReferencedCandidate, o).data_item_section_index = d
      BY ONLY <2>5, <2>6, o \in Nat, Zenon
    <3>4. Candidate(embedded, o) = [kind |-> "External", type_index |-> z,
                                    referenced_file_index |-> f - 1,
                                    section_index |-> d, data_item_index |-> k]
      BY ONLY <1>a, <2>1, <2>2, <3>3, Zenon DEF Candidate
    <3>5. CandidateOf(c, v) = [kind |-> "External", type_index |-> z,
                               referenced_file_index |-> f - 1,
                               section_index |-> d, data_item_index |-> k]
      BY ONLY <1>6, <2>1, <2>2, <2>3, Zenon DEF CandidateOf
    <3>6. Lies(embedded, o)
      BY ONLY <1>a, <3>3, Zenon DEF Lies
    <3>7. QED
      BY ONLY <3>4, <3>5, <3>6, Zenon
  <2>7. QED
    BY ONLY <2>5, <2>6, Zenon
<1>7. ASSUME v.store # "Embedded", v.store \notin {"DataString", "DataBlob"}, v.store # "External"
      PROVE  /\ s \in Written /\ SizeOf(s) = 8
             /\ \A embedded, o : o \in Nat /\ Laid(file.at, o, s) /\ Embeds(c, embedded) =>
                  Candidate(embedded, o) = CandidateOf(c, v) /\ Lies(embedded, o)
  <2>1. s = << <<7, 1>>, <<0, 1>>, <<0, 6>> >>
    BY ONLY <1>7, s = CandidateRow(c, v), Zenon DEF CandidateRow
  <2>2. /\ s \in Written /\ SizeOf(s) = 8
        /\ \A o \in Nat : Laid(file.at, o, s) =>
              /\ Get(CandidateType, o).candidate_type = 7
              /\ Get(EmbeddedCandidate, o).candidate_type = 7
    BY ONLY <2>1, UnknownRow
  <2>3. \A form : form = 7 => form # 0 /\ form # 1
    OBVIOUS
  <2>4. ASSUME NEW embedded, NEW o \in Nat, Laid(file.at, o, s)
        PROVE  Candidate(embedded, o) = CandidateOf(c, v) /\ Lies(embedded, o)
    <3>1. Get(CandidateType, o).candidate_type = 7 /\ Get(EmbeddedCandidate, o).candidate_type = 7
      BY ONLY <2>2, <2>4, o \in Nat, Zenon
    <3>2. Candidate(embedded, o) = [kind |-> "Unknown", candidate_type |-> 7]
      BY ONLY <2>3, <3>1, Zenon DEF Candidate
    <3>3. CandidateOf(c, v) = [kind |-> "Unknown", candidate_type |-> 7]
      BY ONLY <1>7, Zenon DEF CandidateOf
    <3>4. Lies(embedded, o)
      BY ONLY <2>3, <3>1, Zenon DEF Lies
    <3>5. QED
      BY ONLY <3>2, <3>3, <3>4, Zenon
  <2>5. QED
    BY ONLY <2>2, <2>4, Zenon
<1>8. QED
  BY ONLY <1>4, <1>5, <1>6, <1>7, Zenon

\* The pieces of a map section.
Referenced(c)  == c.packing = "single"
ReferenceSize(c, n) == IF Referenced(c) THEN n ELSE 0
Environment(c) == When(Referenced(c), << <<0, 556>> >>)
Reference(c)   == When(Referenced(c), << <<0, 32>> >>)
TypeNumbers(c) == [i \in 1 .. Len(TypesOf(c)) |-> IndexIn(ResourceValueTypes, TypesOf(c)[i])]
TypeTable(c)   == Couples(Len(TypesOf(c)), 4, Fours(Len(TypesOf(c))), TypeNumbers(c))
ExtraCounts(c) == When(Extends(c), << <<Len(ExtraMapped(c)), 4>>, <<Len(ExtraGroups(c)), 4>>,
                                      <<Len(ExtraInfos(c)), 4>> >>)
Extension(c)   == ExtraCounts(c) \o Longs(ExtraMapped(c)) \o Longs(ExtraGroups(c)) \o Longs(ExtraInfos(c))
CandidateRows(c)  == [i \in 1 .. Len(AllVariants(c)) |-> CandidateRow(c, AllVariants(c)[i])]
CandidateTable(c) == FlattenSeq(CandidateRows(c))
EmbeddedPart(c)   == Singles(Len(EmbeddedOf(c)), 4, EmbeddedData(c))
MapCounts(c) ==
  << <<ReferenceSize(c, 556), 2>>, <<ReferenceSize(c, 1), 2>>, <<1, 2>>,
     <<ReferenceSize(c, 32), 2>>, <<2, 2>>, <<Len(TypesOf(c)), 2>>, <<Len(TableMapped(c)), 2>>,
     <<Len(TableGroups(c)), 2>>, <<Len(TableInfos(c)), 4>>, <<Len(AllVariants(c)), 4>>,
     <<4 * Len(EmbeddedOf(c)), 4>>, <<SizeOf(Extension(c)), 4>> >>
KeptPart(c) == MapCounts(c) \o Environment(c) \o Reference(c) \o TypeTable(c)
               \o Shorts(TableMapped(c)) \o Shorts(TableGroups(c)) \o Shorts(TableInfos(c))

\* Fields that are written under a condition.
LEMMA WhenWritten ==
  ASSUME NEW b, NEW s \in Written
  PROVE  /\ When(b, s) \in Written /\ (b => When(b, s) = s)
         /\ (~b => When(b, s) = <<>> /\ SizeOf(When(b, s)) = 0)
<1>1. <<>> \in Written /\ <<>> \in Fields
  BY DEF Written, Fields
<1>2. SizeOf(<<>>) = 0
  <2>1. PICK e, w : e = <<>> /\ w = Widths(e)
    BY Zenon
  <2>2. e \in Fields /\ Len(e) = 0
    BY <1>1, <2>1
  <2>3. w \in [1 .. 0 -> Nat] /\ SizeOf(e) = Sums(w)[0]
    BY <2>1, <2>2, FieldsDef
  <2>4. PICK n \in Nat : n = 0
    OBVIOUS
  <2>5. w \in [1 .. n -> Int]
    BY <2>3, <2>4
  <2>6. Sums(w)[0] = 0
    BY <2>5, SumsDef
  <2>7. QED
    BY <2>1, <2>3, <2>6
<1>3. QED
  BY <1>1, <1>2, Zenon DEF When

\* The types a map lists, and their indices.
LEMMA TypesList ==
  ASSUME NEW c, ItemsAreWellFormed(c)
  PROVE  /\ Len(TypesOf(c)) \in Nat /\ DOMAIN TypesOf(c) = 1 .. Len(TypesOf(c))
         /\ \A i \in 1 .. Len(TypesOf(c)) :
              /\ IndexIn(ResourceValueTypes, TypesOf(c)[i]) \in 0 .. 6
              /\ ResourceValueTypes[IndexIn(ResourceValueTypes, TypesOf(c)[i]) + 1] = TypesOf(c)[i]
<1>1. PICK V : (\A x \in V : IsVariant(x)) /\ AllVariants(c) \in Seq(V)
  BY VariantList
<1>2. PICK a, s, t, types, n, m, T, R :
        /\ a = AllVariants(c) /\ s = [i \in DOMAIN a |-> a[i].type] /\ t = TypesOf(c)
        /\ n = Len(a) /\ T = Range(R) /\ R = ResourceValueTypes /\ types = T /\ m = 7
  BY Zenon
<1>3. n \in Nat /\ a \in [1 .. n -> V]
  BY ONLY <1>1, <1>2
<1>4. ASSUME NEW i \in 1 .. n PROVE a[i].type \in T
  <2>1. a[i] \in V
    BY ONLY <1>3
  <2>2. IsVariant(a[i])
    BY ONLY <1>1, <2>1, Zenon
  <2>3. PICK v : v = a[i]
    OBVIOUS
  <2>4. v \in [store : Stores, type : Range(ResourceValueTypes),
               data : IF v.store = "External" THEN Nat ELSE STRING]
    BY ONLY <2>2, <2>3, Zenon DEF IsVariant
  <2>5. PICK D : D = IF v.store = "External" THEN Nat ELSE STRING
    BY Zenon
  <2>6. v \in [store : Stores, type : T, data : D]
    BY ONLY <1>2, <2>4, <2>5, Zenon
  <2>7. v.type \in T
    BY ONLY <2>6
  <2>8. QED
    BY ONLY <2>3, <2>7, Zenon
<1>5. s \in [1 .. n -> T]
  BY ONLY <1>2, <1>3, <1>4
<1>6. Reduces(T, n, s, Distinct(s))
  BY ONLY <1>3, <1>5, DistinctList
<1>7. t = Distinct(s)
  BY ONLY <1>2, Zenon DEF TypesOf
<1>8. t \in Seq(T)
  BY ONLY <1>6, <1>7, Zenon DEF Reduces
<1>9. Len(t) \in Nat /\ DOMAIN t = 1 .. Len(t) /\ \A i \in 1 .. Len(t) : t[i] \in T
  BY ONLY <1>8
<1>10. m \in Nat /\ DOMAIN R = 1 .. m
  <2>1. R = <<"String", "Path", "EmbeddedData", "AsciiString", "Utf8String", "AsciiPath", "Utf8Path">>
    BY ONLY <1>2, Zenon DEF ResourceValueTypes
  <2>2. m = 7
    BY ONLY <1>2, Zenon
  <2>3. QED
    BY ONLY <2>1, <2>2
<1>11. ASSUME NEW x \in T
       PROVE  IndexIn(R, x) \in 0 .. 6 /\ R[IndexIn(R, x) + 1] = x
  <2>1. T = {R[i] : i \in DOMAIN R}
    BY ONLY <1>2, Zenon DEF Range
  <2>2. \E k \in 1 .. m : R[k] = x
    BY ONLY <1>10, <2>1, x \in T, Zenon
  <2>3. Has(m, R, x)
    BY ONLY <1>10, <2>2, Zenon DEF Has
  <2>4. IndexIn(R, x) \in Nat /\ IndexIn(R, x) + 1 \in 1 .. m /\ R[IndexIn(R, x) + 1] = x
    BY ONLY <2>3, IndexInDef
  <2>5. m = 7
    BY ONLY <1>2, Zenon
  <2>6. IndexIn(R, x) \in 0 .. 6
    BY ONLY <2>4, <2>5
  <2>7. QED
    BY ONLY <2>4, <2>6
<1>12. QED
  BY ONLY <1>2, <1>9, <1>11, Zenon

\* What the extension of a map takes, and that there is none otherwise.
LEMMA ExtensionPieces ==
  ASSUME NEW c, ItemsAreWellFormed(c), DecisionsAreWellFormed(c)
  PROVE  /\ ExtraCounts(c) \in Written /\ Longs(ExtraMapped(c)) \in Written
         /\ Longs(ExtraGroups(c)) \in Written /\ Longs(ExtraInfos(c)) \in Written
         /\ Extension(c) \in Written
         /\ Extends(c) => SizeOf(ExtraCounts(c)) = 12 /\ SizeOf(Extension(c)) > 0
         /\ ~Extends(c) => SizeOf(ExtraCounts(c)) = 0 /\ Extension(c) = <<>> /\ SizeOf(Extension(c)) = 0
<1>1. PICK m, g, i : m = ExtraMapped(c) /\ g = ExtraGroups(c) /\ i = ExtraInfos(c)
  OBVIOUS
<1>2. PairList(m) /\ PairList(g) /\ PairList(i)
  BY ONLY <1>1, ItemsAreWellFormed(c), DecisionsAreWellFormed(c), MapLists, Zenon
<1>3. /\ Longs(m) \in Written /\ SizeOf(Longs(m)) = Len(m) * 8 /\ Len(m) \in Nat
      /\ Longs(g) \in Written /\ SizeOf(Longs(g)) = Len(g) * 8 /\ Len(g) \in Nat
      /\ Longs(i) \in Written /\ SizeOf(Longs(i)) = Len(i) * 8 /\ Len(i) \in Nat
  BY ONLY <1>2, PairListDef, Zenon
<1>4. PICK s : s = << <<Len(m), 4>>, <<Len(g), 4>>, <<Len(i), 4>> >>
  OBVIOUS
<1>5. s \in Written /\ Widths(s) = <<4, 4, 4>>
  <2>1. Int \subseteq Values
    BY DEF Values
  <2>2. QED
    BY <1>3, <1>4, <2>1 DEF Written, Widths
<1>6. SizeOf(s) = 12
  BY ONLY <1>5, TableExtensionHeaderRead
<1>7. PICK b, e : b = Extends(c) /\ e = ExtraCounts(c)
  OBVIOUS
<1>8. e = When(b, s)
  BY ONLY <1>1, <1>4, <1>7, Zenon DEF ExtraCounts
<1>9. /\ e \in Written /\ (b => e = s) /\ (~b => e = <<>> /\ SizeOf(e) = 0)
  BY ONLY <1>5, <1>8, WhenWritten, Zenon
<1>10. PICK r2, r3, r4 : r2 = e \o Longs(m) /\ r3 = r2 \o Longs(g) /\ r4 = r3 \o Longs(i)
  BY Zenon
<1>11. r2 \in Written /\ SizeOf(r2) = SizeOf(e) + SizeOf(Longs(m))
  BY ONLY <1>3, <1>9, <1>10, TwoPieces
<1>12. r3 \in Written /\ SizeOf(r3) = SizeOf(r2) + SizeOf(Longs(g))
  BY ONLY <1>3, <1>11, <1>10, TwoPieces
<1>13. r4 \in Written /\ SizeOf(r4) = SizeOf(r3) + SizeOf(Longs(i))
  BY ONLY <1>3, <1>12, <1>10, TwoPieces
<1>14. Extension(c) = r4
  BY ONLY <1>1, <1>7, <1>10, Zenon DEF Extension
<1>15. b => SizeOf(e) = 12 /\ SizeOf(r4) > 0
  <2>1. SUFFICES ASSUME b PROVE SizeOf(e) = 12 /\ SizeOf(r4) > 0
    BY Zenon
  <2>2. SizeOf(e) = 12
    BY ONLY <1>6, <1>9, <2>1, Zenon
  <2>3. SizeOf(r4) = 12 + Len(m) * 8 + Len(g) * 8 + Len(i) * 8
    BY ONLY <1>3, <1>11, <1>12, <1>13, <2>2, Zenon
  <2>4. SizeOf(r4) > 0
    BY ONLY <1>3, <2>3
  <2>5. QED
    BY ONLY <2>2, <2>4
<1>16. ~b => SizeOf(e) = 0 /\ r4 = <<>> /\ SizeOf(r4) = 0
  <2>1. SUFFICES ASSUME ~b PROVE SizeOf(e) = 0 /\ r4 = <<>> /\ SizeOf(r4) = 0
    BY Zenon
  <2>2. e = <<>> /\ SizeOf(e) = 0
    BY ONLY <1>9, <2>1, Zenon
  <2>3. m = <<>> /\ g = <<>> /\ i = <<>>
    BY ONLY <1>1, <1>7, <2>1, ItemsAreWellFormed(c), DecisionsAreWellFormed(c), MapLists, Zenon
  <2>4. Len(m) = 0 /\ Len(g) = 0 /\ Len(i) = 0
    BY ONLY <2>3
  <2>5. SizeOf(r4) = 0
    BY ONLY <1>3, <1>11, <1>12, <1>13, <2>2, <2>4
  <2>6. Longs(m) = <<>> /\ Longs(g) = <<>> /\ Longs(i) = <<>>
    <3>1. ASSUME NEW l, Longs(l) \in Written, SizeOf(Longs(l)) = 0
          PROVE  Longs(l) = <<>>
      <4>1. PICK x : x = Longs(l)
        OBVIOUS
      <4>2. x \in Fields /\ \A k \in 1 .. Len(x) : x[k][2] >= 1
        BY <3>1, <4>1, WrittenIsFields
      <4>3. PICK w, n : w = Widths(x) /\ n = Len(x)
        OBVIOUS
      <4>4. w \in [1 .. n -> Nat] /\ SizeOf(x) = Sums(w)[n] /\ n \in Nat
        BY <4>2, <4>3, FieldsDef DEF Fields
      <4>5. Sums(w) \in [0 .. n -> Nat] /\ \A p, q \in 0 .. n : p <= q => Sums(w)[p] <= Sums(w)[q]
        BY ONLY <4>4, SumsRise
      <4>6. Sums(w)[0] = 0 /\ \A p \in 1 .. n : Sums(w)[p] = Sums(w)[p - 1] + w[p]
        <5>1. w \in [1 .. n -> Int]
          BY <4>4
        <5>2. QED
          BY ONLY <4>4, <5>1, SumsDef
      <4>7. SUFFICES ASSUME n # 0 PROVE FALSE
        BY <3>1, <4>1, <4>2, <4>3 DEF Fields
      <4>8. n \in 1 .. n /\ n - 1 \in 0 .. n /\ n \in 0 .. n
        BY <4>4, <4>7
      <4>9. w[n] >= 1
        BY <4>2, <4>3, <4>8 DEF Widths, Fields
      <4>10. Sums(w)[n] = 0
        BY <3>1, <4>1, <4>4
      <4>11. PICK a, d, y : a = Sums(w)[n - 1] /\ d = Sums(w)[n] /\ y = w[n]
        BY Zenon
      <4>12. a \in Nat
        BY ONLY <4>5, <4>8, <4>11
      <4>13. d = a + y
        BY ONLY <4>6, <4>8, <4>11, Zenon
      <4>14. d = 0 /\ y >= 1 /\ y \in Nat
        BY ONLY <4>4, <4>8, <4>9, <4>10, <4>11
      <4>15. QED
        BY ONLY <4>12, <4>13, <4>14
    <3>2. SizeOf(Longs(m)) = 0 /\ SizeOf(Longs(g)) = 0 /\ SizeOf(Longs(i)) = 0
      BY ONLY <1>3, <2>4
    <3>3. QED
      BY ONLY <1>3, <3>1, <3>2, Zenon
  <2>7. <<>> \o <<>> = <<>>
    OBVIOUS
  <2>8. r4 = <<>>
    BY ONLY <1>10, <2>2, <2>6, <2>7, Zenon
  <2>9. QED
    BY ONLY <2>2, <2>5, <2>8, Zenon
<1>17. QED
  BY ONLY <1>1, <1>3, <1>7, <1>9, <1>13, <1>14, <1>15, <1>16, Zenon

\* The tables of types, candidates and embedded data.
LEMMA MapTables ==
  ASSUME NEW c, ItemsAreWellFormed(c)
  PROVE  /\ TypeTable(c) \in Written /\ SizeOf(TypeTable(c)) = Len(TypesOf(c)) * 8
         /\ Column(Len(TypesOf(c)), Fours(Len(TypesOf(c)))) /\ Column(Len(TypesOf(c)), TypeNumbers(c))
         /\ CandidateTable(c) \in Written /\ SizeOf(CandidateTable(c)) = Len(AllVariants(c)) * 8
         /\ Len(AllVariants(c)) \in Nat
         /\ \A at, o : o \in Nat /\ Laid(at, o, CandidateTable(c)) =>
              \A i \in 1 .. Len(AllVariants(c)) :
                Laid(at, o + (i - 1) * 8, CandidateRow(c, AllVariants(c)[i]))
         /\ EmbeddedPart(c) \in Written /\ SizeOf(EmbeddedPart(c)) = Len(EmbeddedOf(c)) * 4
         /\ Column(Len(EmbeddedOf(c)), EmbeddedData(c))
<1>1. PICK k, t, n, f, g, e, d, z :
        /\ k = 4 /\ t = TypesOf(c) /\ n = Len(TypesOf(c)) /\ f = Fours(n) /\ g = TypeNumbers(c)
        /\ e = Len(EmbeddedOf(c)) /\ d = EmbeddedData(c) /\ z = 8
  BY Zenon
<1>2. k = 4 /\ z = 8
  BY ONLY <1>1, Zenon
<1>3. Positive(k)
  BY ONLY <1>2 DEF Positive
<1>4. n \in Nat /\ \A i \in 1 .. n : IndexIn(ResourceValueTypes, t[i]) \in 0 .. 6
  BY ONLY <1>1, ItemsAreWellFormed(c), TypesList, Zenon
<1>5. Int \subseteq Values
  BY DEF Values
<1>6. Column(n, f)
  <2>1. f = [i \in 1 .. n |-> 4]
    BY ONLY <1>1, Zenon DEF Fours
  <2>2. f \in [1 .. n -> Values]
    BY ONLY <1>5, <2>1
  <2>3. QED
    BY ONLY <1>4, <2>2, Zenon DEF Column
<1>7. Column(n, g)
  <2>1. g = [i \in 1 .. n |-> IndexIn(ResourceValueTypes, t[i])]
    BY ONLY <1>1, Zenon DEF TypeNumbers
  <2>2. \A i \in 1 .. n : IndexIn(ResourceValueTypes, t[i]) \in Int
    BY ONLY <1>4
  <2>3. g \in [1 .. n -> Values]
    BY ONLY <1>5, <2>1, <2>2
  <2>4. QED
    BY ONLY <1>4, <2>3, Zenon DEF Column
<1>8. Couples(n, k, f, g) \in Written /\ SizeOf(Couples(n, k, f, g)) = n * (2 * k)
  BY ONLY <1>3, <1>6, <1>7, CoupleTable
<1>9. TypeTable(c) = Couples(n, k, f, g)
  BY ONLY <1>1, Zenon DEF TypeTable
<1>10. n * (2 * k) = n * 8
  BY ONLY <1>2, <1>4
<1>11. Column(e, d)
  BY ONLY <1>1, ItemsAreWellFormed(c), EmbeddedTable, Zenon
<1>12. Singles(e, k, d) \in Written /\ SizeOf(Singles(e, k, d)) = e * k
  BY ONLY <1>3, <1>11, SingleTable
<1>13. EmbeddedPart(c) = Singles(e, k, d)
  BY ONLY <1>1, Zenon DEF EmbeddedPart
<1>14. PICK a, m, ss : a = AllVariants(c) /\ m = Len(AllVariants(c)) /\ ss = CandidateRows(c)
  OBVIOUS
<1>15. m \in Nat
  <2>1. PICK V : AllVariants(c) \in Seq(V)
    BY VariantList
  <2>2. QED
    BY <1>14, <2>1
<1>16. ss = [i \in 1 .. m |-> CandidateRow(c, a[i])]
  BY ONLY <1>14, Zenon DEF CandidateRows
<1>17. ASSUME NEW i \in 1 .. m PROVE CandidateRow(c, a[i]) \in Written /\ SizeOf(CandidateRow(c, a[i])) = z
  <2>1. PICK v, s : v = a[i] /\ s = CandidateRow(c, v)
    OBVIOUS
  <2>2. i \in 1 .. Len(AllVariants(c)) /\ v = AllVariants(c)[i]
    BY ONLY <1>14, <2>1, i \in 1 .. m, Zenon
  <2>3. s \in Written /\ SizeOf(s) = 8
    BY ONLY <2>1, <2>2, ItemsAreWellFormed(c), CandidateRead
  <2>4. QED
    BY ONLY <1>2, <2>1, <2>3, Zenon
<1>18. ss \in [1 .. m -> Written] /\ \A i \in 1 .. m : SizeOf(ss[i]) = z
  BY ONLY <1>16, <1>17
<1>19. z \in Nat
  BY ONLY <1>2
<1>a. ss \in [1 .. m -> Written]
  BY ONLY <1>18
<1>b. \A i \in 1 .. m : SizeOf(ss[i]) = z
  BY ONLY <1>18
<1>20. /\ FlattenSeq(ss) \in Written /\ SizeOf(FlattenSeq(ss)) = m * z
       /\ \A at, o : o \in Nat /\ Laid(at, o, FlattenSeq(ss)) =>
              \A i \in 1 .. m : Laid(at, o + (i - 1) * z, ss[i])
  BY ONLY <1>15, <1>a, <1>b, <1>19, EachWritten
<1>21. CandidateTable(c) = FlattenSeq(ss)
  BY ONLY <1>14, Zenon DEF CandidateTable
<1>22. \A i \in 1 .. m : ss[i] = CandidateRow(c, a[i])
  BY ONLY <1>16
<1>23. /\ FlattenSeq(ss) \in Written /\ SizeOf(FlattenSeq(ss)) = m * 8
       /\ \A at, o : o \in Nat /\ Laid(at, o, FlattenSeq(ss)) =>
              \A i \in 1 .. m : Laid(at, o + (i - 1) * 8, CandidateRow(c, a[i]))
  BY ONLY <1>2, <1>20, <1>22, Zenon
<1>24. QED
  BY ONLY <1>1, <1>6, <1>7, <1>8, <1>9, <1>10, <1>11, <1>12, <1>13, <1>14, <1>15, <1>21, <1>23, Zenon

\* The counts of a map as its header has them.
LEMMA MapCountsWritten ==
  ASSUME NEW c, ItemsAreWellFormed(c), DecisionsAreWellFormed(c)
  PROVE  /\ MapCounts(c) \in Written /\ Widths(MapCounts(c)) = <<2, 2, 2, 2, 2, 2, 2, 2, 4, 4, 4, 4>>
         /\ SizeOf(MapCounts(c)) = 32
         /\ MapCounts(c)[1][1] = ReferenceSize(c, 556) /\ MapCounts(c)[3][1] = 1 /\ MapCounts(c)[4][1] = ReferenceSize(c, 32)
         /\ MapCounts(c)[5][1] = 2 /\ MapCounts(c)[6][1] = Len(TypesOf(c)) /\ MapCounts(c)[7][1] = Len(TableMapped(c))
         /\ MapCounts(c)[8][1] = Len(TableGroups(c)) /\ MapCounts(c)[9][1] = Len(TableInfos(c))
         /\ MapCounts(c)[10][1] = Len(AllVariants(c)) /\ MapCounts(c)[11][1] = 4 * Len(EmbeddedOf(c))
         /\ MapCounts(c)[12][1] = SizeOf(Extension(c))
<1>0. PICK s : s = MapCounts(c)
  OBVIOUS
<1>1. PICK x1, x2, x4, x6, x7, x8, x9, x10, x11, x12, e :
        /\ x1 = ReferenceSize(c, 556) /\ x2 = ReferenceSize(c, 1) /\ x4 = ReferenceSize(c, 32)
        /\ x6 = Len(TypesOf(c)) /\ x7 = Len(TableMapped(c)) /\ x8 = Len(TableGroups(c))
        /\ x9 = Len(TableInfos(c)) /\ x10 = Len(AllVariants(c)) /\ e = Len(EmbeddedOf(c))
        /\ x11 = 4 * e /\ x12 = SizeOf(Extension(c))
  BY Zenon
<1>2. s = << <<x1, 2>>, <<x2, 2>>, <<1, 2>>, <<x4, 2>>, <<2, 2>>, <<x6, 2>>, <<x7, 2>>, <<x8, 2>>,
             <<x9, 4>>, <<x10, 4>>, <<x11, 4>>, <<x12, 4>> >>
  BY ONLY <1>0, <1>1, Zenon DEF MapCounts
<1>3. x1 \in Nat /\ x2 \in Nat /\ x4 \in Nat
  <2>1. \A n \in Nat : ReferenceSize(c, n) \in Nat
    BY DEF ReferenceSize
  <2>2. QED
    BY ONLY <1>1, <2>1
<1>4. x6 \in Nat
  BY ONLY <1>1, ItemsAreWellFormed(c), TypesList, Zenon
<1>5. x7 \in Nat /\ x8 \in Nat /\ x9 \in Nat
  <2>1. PairList(TableMapped(c)) /\ PairList(TableGroups(c)) /\ PairList(TableInfos(c))
    BY ONLY ItemsAreWellFormed(c), DecisionsAreWellFormed(c), MapLists, Zenon
  <2>2. QED
    BY ONLY <1>1, <2>1, PairListDef, Zenon
<1>6. x10 \in Nat /\ e \in Nat
  <2>1. x10 \in Nat /\ Column(e, EmbeddedData(c))
    BY ONLY <1>1, ItemsAreWellFormed(c), MapTables, Zenon
  <2>2. QED
    BY ONLY <2>1, Zenon DEF Column
<1>7. x11 \in Nat
  <2>1. x11 = 4 * e
    BY ONLY <1>1, Zenon
  <2>2. QED
    BY ONLY <2>1, <1>6
<1>8. x12 \in Nat
  <2>1. Extension(c) \in Written
    BY ONLY ItemsAreWellFormed(c), DecisionsAreWellFormed(c), ExtensionPieces, Zenon
  <2>2. SizeOf(Extension(c)) \in Nat
    BY <2>1, WrittenIsFields, FieldsDef
  <2>3. QED
    BY ONLY <1>1, <2>2, Zenon
<1>9. Int \subseteq Values
  BY DEF Values
<1>10. x1 \in Values /\ x2 \in Values /\ x4 \in Values /\ x6 \in Values /\ x7 \in Values /\ x8 \in Values
       /\ x9 \in Values /\ x10 \in Values /\ x11 \in Values /\ x12 \in Values /\ 1 \in Values /\ 2 \in Values
  BY ONLY <1>3, <1>4, <1>5, <1>6, <1>7, <1>8, <1>9
<1>11. s \in Written /\ Widths(s) = <<2, 2, 2, 2, 2, 2, 2, 2, 4, 4, 4, 4>>
  BY ONLY <1>2, <1>10 DEF Written, Widths
<1>12. SizeOf(s) = 32
  BY ONLY <1>11, ResourceMapHeaderRead
<1>13. /\ s[1][1] = x1 /\ s[3][1] = 1 /\ s[4][1] = x4 /\ s[5][1] = 2 /\ s[6][1] = x6 /\ s[7][1] = x7
       /\ s[8][1] = x8 /\ s[9][1] = x9 /\ s[10][1] = x10 /\ s[11][1] = x11 /\ s[12][1] = x12
  BY ONLY <1>2
<1>14. QED
  BY ONLY <1>0, <1>1, <1>11, <1>12, <1>13, Zenon

\* All of a map section, table by table.
LEMMA MapPieces ==
  ASSUME NEW c, ItemsAreWellFormed(c), DecisionsAreWellFormed(c)
  PROVE  /\ KeptPart(c) \in Written
         /\ WriteMap(c) = KeptPart(c) \o ExtraCounts(c) \o Longs(ExtraMapped(c))
                          \o Longs(ExtraGroups(c)) \o Longs(ExtraInfos(c))
                          \o CandidateTable(c) \o EmbeddedPart(c)
<1>0. \A x, y, z : x \in Written /\ y \in Written /\ z \in Written => (x \o y) \o z = x \o (y \o z)
  <2>1. PICK T : T = Values \X (Nat \ {0})
    OBVIOUS
  <2>2. ASSUME NEW x \in Seq(T), NEW y \in Seq(T), NEW z \in Seq(T)
        PROVE  (x \o y) \o z = x \o (y \o z)
    OBVIOUS
  <2>3. Written = Seq(T)
    BY ONLY <2>1, Zenon DEF Written
  <2>4. QED
    BY ONLY <2>2, <2>3, Zenon
<1>a. \A x, y : x \in Written /\ y \in Written => x \o y \in Written
  BY DEF Written
<1> DEFINE
      I == c.items
      embedded == StoredAs(c, "Embedded")
      stored   == StoredAs(c, "DataString") \o StoredAs(c, "DataBlob")
      types    == Distinct([i \in DOMAIN AllVariants(c) |-> AllVariants(c)[i].type])
      extended == c.packing \in {"extension", "extension_groups"}
      kept     == IF extended THEN 1 ELSE Len(I)
      Pair16(p) == <<U16(p[1]), U16(p[2])>>
      Pair32(p) == <<U32(p[1]), U32(p[2])>>
      extension == When(extended,
        <<U32(Len(ExtraMapped(c))), U32(Len(ExtraGroups(c))), U32(Len(ExtraInfos(c)))>>
        \o Each(ExtraMapped(c), Pair32) \o Each(ExtraGroups(c), Pair32) \o Each(ExtraInfos(c), Pair32))
      OneCandidate(v) ==
        CASE v.store = "Embedded" ->
               <<U8(0), U8(IndexIn(types, v.type)), U16(DataLength),
                 U32(DataLength * IndexIn(embedded, v))>>
          [] v.store \in {"DataString", "DataBlob"} ->
               <<U8(1), U8(IndexIn(types, v.type)), U16(0), U16(IndexIn(stored, v)),
                 U16(DataSection)>>
          [] v.store = "External" -> <<U8(1), U8(0), U16(2), U16(v.data), U16(9)>>
          [] OTHER -> <<U8(7), U8(0), Block(0, 6)>>
      referenced == c.packing = "single"
      counts == <<U16(IF referenced THEN EnvironmentReference.size ELSE 0),
        U16(IF referenced THEN 1 ELSE 0), U16(1),
        U16(IF referenced THEN HierarchicalSchemaReferenceHeader.size ELSE 0), U16(2),
        U16(Len(types)), U16(Len(TableMapped(c))), U16(Len(TableGroups(c))), U32(kept),
        U32(Len(AllVariants(c))), U32(DataLength * Len(embedded)), U32(SizeOf(extension))>>
      references == When(referenced, <<Block(0, EnvironmentReference.size),
                                       Block(0, HierarchicalSchemaReferenceHeader.size)>>)
<1>1. WriteMap(c) = counts \o references
      \o Each(types, LAMBDA t : <<U32(4), U32(IndexIn(ResourceValueTypes, t))>>)
      \o Each(TableMapped(c), Pair16) \o Each(TableGroups(c), Pair16)
      \o Each(TableInfos(c), Pair16)
      \o extension
      \o Each(AllVariants(c), OneCandidate)
      \o Each(embedded, LAMBDA v : <<Block(v.data, DataLength)>>)
  BY ONLY Zenon DEF WriteMap, TableMapped, TableGroups, TableInfos, InfoPairs, CandidatesBefore,
     KeptItems, Extends, ExtraMapped, ExtraGroups, ExtraInfos
<1>2. /\ types = TypesOf(c) /\ embedded = EmbeddedOf(c) /\ stored = Stored(c)
      /\ extended = Extends(c) /\ referenced = Referenced(c)
  BY ONLY Zenon DEF TypesOf, EmbeddedOf, Stored, Extends, Referenced
<1>3. kept = Len(TableInfos(c))
  BY ONLY <1>2, ItemsAreWellFormed(c), DecisionsAreWellFormed(c), MapLists, Zenon DEF KeptItems
<1>4. /\ Each(TableMapped(c), Pair16) = Shorts(TableMapped(c))
      /\ Each(TableGroups(c), Pair16) = Shorts(TableGroups(c))
      /\ Each(TableInfos(c), Pair16) = Shorts(TableInfos(c))
      /\ Each(ExtraMapped(c), Pair32) = Longs(ExtraMapped(c))
      /\ Each(ExtraGroups(c), Pair32) = Longs(ExtraGroups(c))
      /\ Each(ExtraInfos(c), Pair32) = Longs(ExtraInfos(c))
      /\ Shorts(TableMapped(c)) \in Written /\ Shorts(TableGroups(c)) \in Written
      /\ Shorts(TableInfos(c)) \in Written /\ Longs(ExtraMapped(c)) \in Written
      /\ Longs(ExtraGroups(c)) \in Written /\ Longs(ExtraInfos(c)) \in Written
  <2>1. /\ PairList(TableMapped(c)) /\ PairList(TableGroups(c)) /\ PairList(TableInfos(c))
        /\ PairList(ExtraMapped(c)) /\ PairList(ExtraGroups(c)) /\ PairList(ExtraInfos(c))
    BY ONLY ItemsAreWellFormed(c), DecisionsAreWellFormed(c), MapLists, Zenon
  <2>2. QED
    BY ONLY <2>1, PairListDef, Zenon
<1>5. extension = Extension(c)
  <2>1. PICK b, x, y, z, w : /\ b = Extends(c) /\ x = <<U32(Len(ExtraMapped(c))), U32(Len(ExtraGroups(c))), U32(Len(ExtraInfos(c)))>>
                             /\ y = Longs(ExtraMapped(c)) /\ z = Longs(ExtraGroups(c)) /\ w = Longs(ExtraInfos(c))
    BY Zenon
  <2>2. extension = When(b, x \o y \o z \o w)
    BY ONLY <1>2, <1>4, <2>1, Zenon
  <2>3. ExtraCounts(c) = When(b, x)
    BY ONLY <2>1, Zenon DEF ExtraCounts, U32
  <2>4. Extension(c) = When(b, x) \o y \o z \o w
    BY ONLY <2>1, <2>3, Zenon DEF Extension
  <2>5. CASE b
    BY ONLY <2>2, <2>4, <2>5, Zenon DEF When
  <2>6. CASE ~b
    <3>1. extension = <<>>
      BY ONLY <2>2, <2>6, Zenon DEF When
    <3>2. Extension(c) = <<>>
      BY ONLY <2>1, <2>6, ItemsAreWellFormed(c), DecisionsAreWellFormed(c), ExtensionPieces, Zenon
    <3>3. QED
      BY ONLY <3>1, <3>2, Zenon
  <2>7. QED
    BY ONLY <2>5, <2>6, Zenon
<1>6. references = Environment(c) \o Reference(c)
  <2>1. EnvironmentReference.size = 556 /\ HierarchicalSchemaReferenceHeader.size = 32
    BY RecordSizes
  <2>2. PICK b, x, y : b = Referenced(c) /\ x = <<0, 556>> /\ y = <<0, 32>>
    BY Zenon
  <2>3. references = When(b, <<x, y>>)
    BY ONLY <1>2, <2>1, <2>2, Zenon DEF Block
  <2>4. Environment(c) = When(b, <<x>>) /\ Reference(c) = When(b, <<y>>)
    BY ONLY <2>2, Zenon DEF Environment, Reference
  <2>5. <<x>> \o <<y>> = <<x, y>>
    BY ONLY OneAndOne, Zenon
  <2>6. <<>> \o <<>> = <<>>
    OBVIOUS
  <2>7. QED
    BY ONLY <2>3, <2>4, <2>5, <2>6, Zenon DEF When
<1>7. Each(types, LAMBDA t : <<U32(4), U32(IndexIn(ResourceValueTypes, t))>>) = TypeTable(c)
  <2>1. PICK t, n : t = TypesOf(c) /\ n = Len(TypesOf(c))
    OBVIOUS
  <2>2. DOMAIN t = 1 .. n
    BY ONLY <2>1, ItemsAreWellFormed(c), TypesList, Zenon
  <2>3. Each(types, LAMBDA x : <<U32(4), U32(IndexIn(ResourceValueTypes, x))>>)
          = FlattenSeq([i \in DOMAIN t |-> << <<4, 4>>, <<IndexIn(ResourceValueTypes, t[i]), 4>> >>])
    BY ONLY <1>2, <2>1, Zenon DEF Each, U32
  <2>4. TypeTable(c) = FlattenSeq([i \in 1 .. n |-> << <<Fours(n)[i], 4>>, <<TypeNumbers(c)[i], 4>> >>])
    BY ONLY <2>1, Zenon DEF TypeTable, Couples
  <2>5. /\ \A i \in 1 .. n : Fours(n)[i] = 4
        /\ \A i \in 1 .. n : TypeNumbers(c)[i] = IndexIn(ResourceValueTypes, t[i])
    BY ONLY <2>1 DEF Fours, TypeNumbers
  <2>6. [i \in DOMAIN t |-> << <<4, 4>>, <<IndexIn(ResourceValueTypes, t[i]), 4>> >>]
          = [i \in 1 .. n |-> << <<Fours(n)[i], 4>>, <<TypeNumbers(c)[i], 4>> >>]
    BY ONLY <2>2, <2>5
  <2>7. QED
    BY ONLY <2>3, <2>4, <2>6, Zenon
<1>8. Each(embedded, LAMBDA v : <<Block(v.data, DataLength)>>) = EmbeddedPart(c)
  <2>1. PICK t, n : t = EmbeddedOf(c) /\ n = Len(EmbeddedOf(c))
    OBVIOUS
  <2>2. DOMAIN t = 1 .. n
    <3>1. PICK V : AllVariants(c) \in Seq(V)
      BY VariantList
    <3>2. t \in Seq(V)
      BY ONLY <2>1, <3>1, StoredList, Zenon DEF EmbeddedOf
    <3>3. QED
      BY ONLY <2>1, <3>2
  <2>3. Each(embedded, LAMBDA v : <<Block(v.data, DataLength)>>)
          = FlattenSeq([i \in DOMAIN t |-> << <<t[i].data, 4>> >>])
    BY ONLY <1>2, <2>1, Zenon DEF Each, Block, DataLength
  <2>4. EmbeddedPart(c) = FlattenSeq([i \in 1 .. n |-> << <<EmbeddedData(c)[i], 4>> >>])
    BY ONLY <2>1, Zenon DEF EmbeddedPart, Singles
  <2>5. \A i \in 1 .. n : EmbeddedData(c)[i] = t[i].data
    BY ONLY <2>1 DEF EmbeddedData
  <2>6. [i \in DOMAIN t |-> << <<t[i].data, 4>> >>] = [i \in 1 .. n |-> << <<EmbeddedData(c)[i], 4>> >>]
    BY ONLY <2>2, <2>5
  <2>7. QED
    BY ONLY <2>3, <2>4, <2>6, Zenon
<1>9. Each(AllVariants(c), OneCandidate) = CandidateTable(c)
  <2>1. PICK a, n : a = AllVariants(c) /\ n = Len(AllVariants(c))
    OBVIOUS
  <2>2. DOMAIN a = 1 .. n
    <3>1. PICK V : AllVariants(c) \in Seq(V)
      BY VariantList
    <3>2. QED
      BY ONLY <2>1, <3>1
  <2>3. ASSUME NEW v PROVE OneCandidate(v) = CandidateRow(c, v)
    BY ONLY <1>2, Zenon DEF CandidateRow, TypeIndex, U8, U16, U32, Block, DataLength, DataSection
  <2>4. Each(AllVariants(c), OneCandidate) = FlattenSeq([i \in DOMAIN a |-> OneCandidate(a[i])])
    BY ONLY <2>1, Zenon DEF Each
  <2> HIDE DEF OneCandidate
  <2>5. [i \in DOMAIN a |-> OneCandidate(a[i])] = [i \in 1 .. n |-> CandidateRow(c, a[i])]
    BY ONLY <2>2, <2>3
  <2>6. CandidateTable(c) = FlattenSeq([i \in 1 .. n |-> CandidateRow(c, a[i])])
    BY ONLY <2>1, Zenon DEF CandidateTable, CandidateRows
  <2>7. QED
    BY ONLY <2>4, <2>5, <2>6, Zenon
<1>10. counts = MapCounts(c)
  <2>1. EnvironmentReference.size = 556 /\ HierarchicalSchemaReferenceHeader.size = 32
    BY RecordSizes
  <2>2. QED
    BY ONLY <1>2, <1>3, <1>5, <2>1, Zenon DEF MapCounts, ReferenceSize, U16, U32, DataLength
<1> HIDE DEF I, embedded, stored, types, extended, kept, Pair16, Pair32, extension, OneCandidate,
             referenced, counts, references
<1>11. PICK p1, p2, p3, p4, p5, p6, p7, x1, x2, x3, x4, q6, q7 :
         /\ p1 = MapCounts(c) /\ p2 = Environment(c) /\ p3 = Reference(c) /\ p4 = TypeTable(c)
         /\ p5 = Shorts(TableMapped(c)) /\ p6 = Shorts(TableGroups(c)) /\ p7 = Shorts(TableInfos(c))
         /\ x1 = ExtraCounts(c) /\ x2 = Longs(ExtraMapped(c)) /\ x3 = Longs(ExtraGroups(c))
         /\ x4 = Longs(ExtraInfos(c)) /\ q6 = CandidateTable(c) /\ q7 = EmbeddedPart(c)
  BY Zenon
<1>12. WriteMap(c) = p1 \o (p2 \o p3) \o p4 \o p5 \o p6 \o p7 \o (x1 \o x2 \o x3 \o x4) \o q6 \o q7
  BY ONLY <1>1, <1>4, <1>5, <1>6, <1>7, <1>8, <1>9, <1>10, <1>11, Zenon DEF Extension
<1>13. p1 \in Written /\ p2 \in Written /\ p3 \in Written /\ p4 \in Written /\ p5 \in Written
       /\ p6 \in Written /\ p7 \in Written /\ x1 \in Written /\ x2 \in Written /\ x3 \in Written
       /\ x4 \in Written /\ q6 \in Written /\ q7 \in Written
  <2>1. p1 \in Written
    BY ONLY <1>11, ItemsAreWellFormed(c), DecisionsAreWellFormed(c), MapCountsWritten, Zenon
  <2>2. p2 \in Written /\ p3 \in Written
    <3>1. << <<0, 556>> >> \in Written /\ << <<0, 32>> >> \in Written
      BY DEF Written, Values
    <3>2. QED
      BY ONLY <1>11, <3>1, WhenWritten, Zenon DEF Environment, Reference
  <2>3. p4 \in Written /\ q6 \in Written /\ q7 \in Written
    BY ONLY <1>11, ItemsAreWellFormed(c), MapTables, Zenon
  <2>4. x1 \in Written
    BY ONLY <1>11, ItemsAreWellFormed(c), DecisionsAreWellFormed(c), ExtensionPieces, Zenon
  <2>5. QED
    BY ONLY <1>4, <1>11, <2>1, <2>2, <2>3, <2>4, Zenon
<1>14. PICK k : k = p1 \o p2 \o p3 \o p4 \o p5 \o p6 \o p7
  OBVIOUS
<1>15. KeptPart(c) = k
  BY ONLY <1>11, <1>14, Zenon DEF KeptPart
<1>16. k \in Written /\ k = p1 \o (p2 \o p3) \o p4 \o p5 \o p6 \o p7
  <2>1. (p1 \o p2) \o p3 = p1 \o (p2 \o p3)
    BY ONLY <1>0, <1>13
  <2>2. PICK r2, r3, r4, r5, r6 : /\ r2 = p1 \o p2 /\ r3 = r2 \o p3 /\ r4 = r3 \o p4
                                  /\ r5 = r4 \o p5 /\ r6 = r5 \o p6
    BY Zenon
  <2>3. r2 \in Written /\ r3 \in Written /\ r4 \in Written /\ r5 \in Written /\ r6 \in Written
    BY ONLY <1>a, <1>13, <2>2, Zenon
  <2>4. k = r6 \o p7
    BY ONLY <1>14, <2>2, Zenon
  <2>5. QED
    BY ONLY <1>a, <1>13, <1>14, <2>1, <2>3, <2>4, Zenon
<1>17. k \o (x1 \o x2 \o x3 \o x4) = k \o x1 \o x2 \o x3 \o x4
  <2>1. PICK y2, y3 : y2 = x1 \o x2 /\ y3 = y2 \o x3
    BY Zenon
  <2>2. y2 \in Written /\ y3 \in Written
    BY ONLY <1>a, <1>13, <2>1, Zenon
  <2>3. k \in Written /\ x1 \in Written /\ x2 \in Written /\ x3 \in Written /\ x4 \in Written
    BY ONLY <1>13, <1>16, Zenon
  <2>4. k \o (y3 \o x4) = (k \o y3) \o x4
    BY ONLY <1>0, <2>2, <2>3
  <2>5. k \o (y2 \o x3) = (k \o y2) \o x3
    BY ONLY <1>0, <2>2, <2>3
  <2>6. k \o (x1 \o x2) = (k \o x1) \o x2
    BY ONLY <1>0, <2>2, <2>3
  <2>7. QED
    BY ONLY <2>1, <2>4, <2>5, <2>6, Zenon
<1>18. WriteMap(c) = k \o x1 \o x2 \o x3 \o x4 \o q6 \o q7
  BY ONLY <1>12, <1>16, <1>17, Zenon
<1>19. QED
  BY ONLY <1>11, <1>15, <1>16, <1>18, Zenon
=============================================================================
