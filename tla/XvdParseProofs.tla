--------------------------- MODULE XvdParseProofs ---------------------------
(***************************************************************************)
(* Proofs about XvdParse and Segments for every page and entry size: the   *)
(* formula for the position of a hash agrees with the layout of the tree,  *)
(* whatever its number of levels, and so each page of a region gets its    *)
(* own hash, and then each file the hashes of its own pages; and no two    *)
(* files of the segment metadata are placed on one page.                   *)
(***************************************************************************)
EXTENDS Segments, SequenceTheorems, WellFoundedInduction, TLAPS

LEMMA EntriesPositive == E \in Nat \ {0}
<1> DEFINE d == PageSize \div EntrySize
<1>1. d \in Nat /\ PageSize < d * EntrySize + EntrySize
  BY SizeAssumption, Z3
<1>2. d # 0
  BY <1>1, SizeAssumption
<1>3. QED
  BY <1>1, <1>2 DEF E

LEMMA CeilBounds ==
  ASSUME NEW a \in Nat, NEW b \in Nat \ {0}
  PROVE  /\ CeilDiv(a, b) \in Nat
         /\ a <= CeilDiv(a, b) * b
         /\ CeilDiv(a, b) * b < a + b
<1> DEFINE n == a + b - 1
           d == n \div b
<1>1. n \in Nat /\ d \in Nat /\ d * b <= n
  BY Z3
<1>2. n < d * b + b
  BY Z3
<1>3. d = CeilDiv(a, b)
  BY DEF CeilDiv
<1> HIDE DEF d
<1>4. QED
  BY <1>1, <1>2, <1>3

LEMMA Product == ASSUME NEW p \in Nat, NEW q \in Nat, NEW b \in Nat, p <= q PROVE p * b <= q * b
BY Z3

\* There is one number that satisfies those bounds.
LEMMA CeilUnique ==
  ASSUME NEW a \in Nat, NEW b \in Nat \ {0}, NEW q \in Nat, a <= q * b, q * b < a + b
  PROVE  CeilDiv(a, b) = q
<1> DEFINE d == CeilDiv(a, b)
<1>1. d \in Nat /\ a <= d * b /\ d * b < a + b
  BY CeilBounds
<1> HIDE DEF d
<1>2. CASE d < q
  <2>1. d + 1 \in Nat /\ d + 1 <= q
    BY <1>1, <1>2
  <2>2. (d + 1) * b <= q * b
    BY <2>1, Product
  <2>3. (d + 1) * b = d * b + b
    BY <1>1, Z3
  <2>4. QED
    BY <1>1, <2>2, <2>3
<1>3. CASE q < d
  <2>1. q + 1 \in Nat /\ q + 1 <= d
    BY <1>1, <1>3
  <2>2. (q + 1) * b <= d * b
    BY <1>1, <2>1, Product
  <2>3. (q + 1) * b = q * b + b
    BY Z3
  <2>4. QED
    BY <1>1, <2>2, <2>3
<1>4. d = q
  BY <1>1, <1>2, <1>3
<1>5. QED
  BY <1>4 DEF d

LEMMA CeilZero == ASSUME NEW b \in Nat \ {0} PROVE CeilDiv(0, b) = 0
BY CeilUnique

LEMMA CeilOne == ASSUME NEW b \in Nat \ {0}, NEW a \in 1 .. b PROVE CeilDiv(a, b) = 1
<1>1. 1 * b = b /\ a \in Nat /\ 1 \in Nat
  OBVIOUS
<1>2. QED
  BY <1>1, CeilUnique

LEMMA CeilAtMost ==
  ASSUME NEW a \in Nat, NEW b \in Nat \ {0}, NEW c \in Nat, a <= c * b
  PROVE  CeilDiv(a, b) <= c
<1> DEFINE d == CeilDiv(a, b)
<1>1. d \in Nat /\ d * b < a + b
  BY CeilBounds
<1> HIDE DEF d
<1>2. SUFFICES ASSUME d > c PROVE FALSE
  BY <1>1 DEF d
<1>3. (c + 1) * b <= d * b /\ (c + 1) * b = c * b + b
  BY <1>1, <1>2, Product, Z3
<1>4. QED
  BY <1>1, <1>3

LEMMA CeilMoreThan ==
  ASSUME NEW a \in Nat, NEW b \in Nat \ {0}, NEW c \in Nat, a > c * b
  PROVE  CeilDiv(a, b) > c
<1> DEFINE d == CeilDiv(a, b)
<1>1. d \in Nat /\ a <= d * b
  BY CeilBounds
<1> HIDE DEF d
<1>2. SUFFICES ASSUME d <= c PROVE FALSE
  BY <1>1 DEF d
<1>3. d * b <= c * b
  BY <1>1, <1>2, Product
<1>4. QED
  BY <1>1, <1>3

\* Rounding up twice is rounding up once.
LEMMA CeilCeil ==
  ASSUME NEW n \in Nat, NEW a \in Nat \ {0}, NEW b \in Nat \ {0}
  PROVE  CeilDiv(CeilDiv(n, a), b) = CeilDiv(n, a * b)
<1> DEFINE p == CeilDiv(n, a)
           r == CeilDiv(p, b)
<1>1. p \in Nat /\ n <= p * a /\ p * a < n + a
  BY CeilBounds
<1> HIDE DEF p
<1>2. r \in Nat /\ p <= r * b /\ r * b < p + b
  BY <1>1, CeilBounds
<1> HIDE DEF r
<1>3. r * b \in Nat /\ a * b \in Nat \ {0} /\ (r * b) * a = r * (a * b)
  BY <1>2, Z3
<1>4. p * a <= (r * b) * a
  BY <1>1, <1>2, <1>3, Product
<1>5. n <= r * (a * b)
  BY <1>1, <1>2, <1>3, <1>4, Z3
<1>6. r * (a * b) < n + a * b
  <2>1. r * b <= p + (b - 1) /\ p + (b - 1) \in Nat
    BY <1>1, <1>2, <1>3
  <2>2. (r * b) * a <= (p + (b - 1)) * a
    BY <1>3, <2>1, Product
  <2>3. (p + (b - 1)) * a = p * a + a * b - a
    BY <1>1, Z3
  <2>4. p * a \in Nat
    BY <1>1
  <2>5. QED
    BY <1>1, <1>2, <1>3, <2>2, <2>3, <2>4, Z3
<1>7. CeilDiv(n, a * b) = r
  BY <1>2, <1>3, <1>5, <1>6, CeilUnique
<1>8. QED
  BY <1>7 DEF r, p
-----------------------------------------------------------------------------
LEMMA Level0IsCeil ==
  ASSUME NEW n \in Nat \ {0} PROVE Level0Pages(n) = CeilDiv(n, E)
<1>1. CASE n = 1
  BY <1>1, EntriesPositive, CeilZero, CeilOne
     DEF Level0Pages, LevelPages, StoredHashes, Max2
<1>2. CASE n # 1
  <2>1. CeilDiv(n, E) > 0
    BY EntriesPositive, CeilMoreThan
  <2>2. LevelPages(n) = CeilDiv(n, E) /\ CeilDiv(n, E) \in Nat
    BY <1>2, EntriesPositive, CeilBounds DEF LevelPages, StoredHashes
  <2>3. QED
    BY <2>1, <2>2 DEF Level0Pages, Max2
<1>3. QED
  BY <1>1, <1>2

\* A level above another has one page for E pages of it, except above one.
LEMMA NextLevel ==
  ASSUME NEW p \in Nat PROVE LevelPages(p) = IF p \in {0, 1} THEN 0 ELSE CeilDiv(p, E)
BY EntriesPositive, CeilZero DEF LevelPages, StoredHashes

LEMMA TopIs ==
  ASSUME NEW n \in Nat, NEW k \in 0 .. 3, IsTop(n, k), \A j \in 0 .. k - 1 : ~IsTop(n, j)
  PROVE  TopLevel(n) = k
<1>1. ASSUME NEW m \in 0 .. 3, IsTop(n, m), \A j \in 0 .. m - 1 : ~IsTop(n, j)
      PROVE  m = k
  <2>1. CASE m < k
    <3>1. m \in 0 .. k - 1
      BY <2>1
    <3>2. QED
      BY <1>1, <3>1
  <2>2. CASE k < m
    <3>1. k \in 0 .. m - 1
      BY <2>2
    <3>2. QED
      BY <1>1, <3>1
  <2>3. QED
    BY <2>1, <2>2
<1>2. QED
  BY <1>1 DEF TopLevel

\* What a tree over n pages looks like, by the number of its levels.
LEMMA Powers ==
  /\ E * E \in Nat \ {0} /\ E * E * E \in Nat \ {0} /\ E * E * E * E \in Nat \ {0}
  /\ E <= E * E /\ E * E <= E * E * E /\ E * E * E <= E * E * E * E
<1>1. \A a, b \in Nat \ {0} : a * b \in Nat \ {0} /\ a <= a * b
  BY Z3
<1>2. QED
  BY <1>1, EntriesPositive

LEMMA Ceils ==
  ASSUME NEW n \in Nat \ {0}
  PROVE  /\ CeilDiv(n, E) \in Nat \ {0}
         /\ CeilDiv(n, E * E) \in Nat \ {0} /\ CeilDiv(n, E * E * E) \in Nat \ {0}
         /\ CeilDiv(CeilDiv(n, E), E) = CeilDiv(n, E * E)
         /\ CeilDiv(CeilDiv(n, E * E), E) = CeilDiv(n, E * E * E)
         /\ CeilDiv(CeilDiv(n, E * E * E), E) = CeilDiv(n, E * E * E * E)
<1>1. \A b \in Nat \ {0} : CeilDiv(n, b) \in Nat \ {0}
  <2>1. TAKE b \in Nat \ {0}
  <2>2. CeilDiv(n, b) > 0
    BY CeilMoreThan
  <2>3. QED
    BY <2>2, CeilBounds
<1>2. (E * E) * E = E * E * E /\ (E * E * E) * E = E * E * E * E
  OBVIOUS
<1>3. /\ CeilDiv(CeilDiv(n, E), E) = CeilDiv(n, E * E)
      /\ CeilDiv(CeilDiv(n, E * E), E) = CeilDiv(n, E * E * E)
  BY EntriesPositive, Powers, CeilCeil
<1>4. CeilDiv(CeilDiv(n, E * E * E), E) = CeilDiv(n, E * E * E * E)
  BY EntriesPositive, Powers, CeilCeil
<1>5. /\ CeilDiv(n, E) \in Nat \ {0}
      /\ CeilDiv(n, E * E) \in Nat \ {0} /\ CeilDiv(n, E * E * E) \in Nat \ {0}
  BY <1>1, Powers, EntriesPositive
<1>6. QED
  BY <1>3, <1>4, <1>5

\* The formula of math.rs puts a hash in the page where the layout has it.
THEOREM FormulaIsLayout ==
  ASSUME NEW n \in 1 .. MaxHashedPages, NEW block \in Nat
  PROVE  HashBlock(block, n, TopLevel(n) + 1) = Level0Start(n) + block \div E
<1> DEFINE b  == block \div E
           c1 == CeilDiv(n, E)
           c2 == CeilDiv(n, E * E)
           c3 == CeilDiv(n, E * E * E)
           c4 == CeilDiv(n, E * E * E * E)
<1>0. /\ n \in Nat \ {0} /\ n <= E * E * E * E
      /\ E \in Nat \ {0} /\ b \in Nat
  BY Powers, EntriesPositive, Z3 DEF MaxHashedPages
<1>1. /\ c1 \in Nat \ {0} /\ c2 \in Nat \ {0} /\ c3 \in Nat \ {0}
      /\ CeilDiv(c1, E) = c2 /\ CeilDiv(c2, E) = c3 /\ CeilDiv(c3, E) = c4
  BY <1>0, Ceils
<1>2. Level0Pages(n) = c1
  BY <1>0, Level0IsCeil
<1>3. \A k \in 1 .. 4 :
         HashBlock(block, n, k) = b + (IF k > 1 THEN c2 ELSE 0)
                                    + (IF k > 2 THEN c3 ELSE 0) + (IF k > 3 THEN c4 ELSE 0)
  BY DEF HashBlock
<1>4. /\ n <= E => c1 <= 1
      /\ n > E => c1 > 1
      /\ n <= E * E => c1 <= E /\ c2 <= 1
      /\ n > E * E => c1 > E /\ c2 > 1
      /\ n <= E * E * E => c2 <= E /\ c3 <= 1
      /\ n > E * E * E => c2 > E /\ c3 > 1
      /\ c3 <= E /\ c4 <= 1 /\ c4 > 0 /\ c4 \in Nat
  <2>1. /\ 1 * E = E /\ 1 * (E * E) = E * E /\ 1 * (E * E * E) = E * E * E
        /\ 1 * (E * E * E * E) = E * E * E * E
        /\ E * (E * E) = E * E * E /\ E * (E * E * E) = E * E * E * E
        /\ 0 * (E * E * E * E) = 0
    BY <1>0, Powers, Z3
  <2>2. n <= E => c1 <= 1
    BY <1>0, <2>1, CeilAtMost
  <2>3. n > E => c1 > 1
    BY <1>0, <2>1, CeilMoreThan
  <2>4. n <= E * E => c1 <= E /\ c2 <= 1
    BY <1>0, <2>1, Powers, CeilAtMost
  <2>5. n > E * E => c1 > E /\ c2 > 1
    BY <1>0, <2>1, Powers, CeilMoreThan
  <2>6. n <= E * E * E => c2 <= E /\ c3 <= 1
    BY <1>0, <2>1, Powers, CeilAtMost
  <2>7. n > E * E * E => c2 > E /\ c3 > 1
    BY <1>0, <2>1, Powers, CeilMoreThan
  <2>8. c3 <= E /\ c4 <= 1
    <3>1. c3 <= E
      BY <1>0, <2>1, Powers, CeilAtMost
    <3>2. c4 <= 1
      BY <1>0, <2>1, Powers, CeilAtMost
    <3>3. QED
      BY <3>1, <3>2
  <2>9. c4 > 0 /\ c4 \in Nat
    <3>1. n > 0 * (E * E * E * E) /\ n \in Nat
      BY <1>0, <2>1
    <3>2. c4 > 0
      BY <3>1, Powers, CeilMoreThan
    <3>3. c4 \in Nat
      BY <3>1, Powers, CeilBounds
    <3>4. QED
      BY <3>2, <3>3
  <2>10. QED
    BY <2>2, <2>3, <2>4, <2>5, <2>6, <2>7, <2>8, <2>9
<1> HIDE DEF b, c1, c2, c3, c4
<1>5. E \in Nat /\ E * E \in Nat /\ E * E * E \in Nat
      /\ E <= E * E /\ E * E <= E * E * E
  BY <1>0, Powers
<1>6. CASE n <= E
  <2>1. c1 = 1
    BY <1>1, <1>4, <1>6
  <2>2. Level1Pages(n) = 0 /\ Level2Pages(n) = 0 /\ Level3Pages(n) = 0
    BY <1>2, <2>1, NextLevel DEF Level1Pages, Level2Pages, Level3Pages
  <2>3. IsTop(n, 0)
    BY <1>0, <1>6 DEF IsTop, NumHashes
  <2>4. TopLevel(n) = 0
    BY <1>0, <2>3, TopIs
  <2>5. QED
    BY <1>0, <1>3, <2>2, <2>4 DEF Level0Start, b
<1>7. CASE n > E /\ n <= E * E
  <2>1. c1 > 1 /\ c1 <= E /\ c2 = 1
    BY <1>1, <1>4, <1>7
  <2>2. Level1Pages(n) = 1 /\ Level2Pages(n) = 0 /\ Level3Pages(n) = 0
    BY <1>1, <1>2, <2>1, NextLevel DEF Level1Pages, Level2Pages, Level3Pages
  <2>3. ~IsTop(n, 0) /\ IsTop(n, 1)
    BY <1>0, <1>1, <1>2, <1>7, <2>1 DEF IsTop, NumHashes, StoredHashes
  <2>4. TopLevel(n) = 1
    BY <1>0, <2>3, TopIs
  <2>5. QED
    BY <1>0, <1>3, <2>1, <2>2, <2>4 DEF Level0Start, b
<1>8. CASE n > E * E /\ n <= E * E * E
  <2>1. c1 > 1 /\ c1 > E /\ c2 > 1 /\ c2 <= E /\ c3 = 1
    BY <1>0, <1>1, <1>4, <1>8
  <2>2. Level1Pages(n) = c2 /\ Level2Pages(n) = 1 /\ Level3Pages(n) = 0
    BY <1>1, <1>2, <2>1, NextLevel DEF Level1Pages, Level2Pages, Level3Pages
  <2>3. ~IsTop(n, 0) /\ ~IsTop(n, 1) /\ IsTop(n, 2)
    BY <1>0, <1>1, <1>2, <1>5, <1>8, <2>1, <2>2 DEF IsTop, NumHashes, StoredHashes
  <2>4. TopLevel(n) = 2
    BY <1>0, <2>3, TopIs
  <2>5. QED
    BY <1>0, <1>1, <1>3, <2>1, <2>2, <2>4 DEF Level0Start, b
<1>9. CASE n > E * E * E
  <2>1. c1 > 1 /\ c1 > E /\ c2 > 1 /\ c2 > E /\ c3 > 1 /\ c3 <= E /\ c4 = 1
    BY <1>0, <1>1, <1>4, <1>5, <1>9
  <2>2. Level1Pages(n) = c2 /\ Level2Pages(n) = c3 /\ Level3Pages(n) = 1
    BY <1>1, <1>2, <2>1, NextLevel DEF Level1Pages, Level2Pages, Level3Pages
  <2>3. ~IsTop(n, 0) /\ ~IsTop(n, 1) /\ ~IsTop(n, 2) /\ IsTop(n, 3)
    BY <1>0, <1>1, <1>2, <1>5, <1>9, <2>1, <2>2 DEF IsTop, NumHashes, StoredHashes
  <2>4. TopLevel(n) = 3
    BY <1>0, <2>3, TopIs
  <2>5. QED
    BY <1>0, <1>1, <1>3, <2>1, <2>2, <2>4 DEF Level0Start, b
<1>10. QED
  BY <1>0, <1>5, <1>6, <1>7, <1>8, <1>9

LEMMA Quotient ==
  ASSUME NEW a \in Nat, NEW b \in Nat \ {0}
  PROVE  a \div b \in Nat /\ a % b \in 0 .. b - 1 /\ a = (a \div b) * b + (a % b)
<1> DEFINE q == a \div b
           m == a % b
<1>1. q \in Nat /\ m \in 0 .. b - 1
  BY Z3
<1>2. a = b * q + m
  BY SMT
<1>3. b * q = q * b
  BY <1>1, Z3
<1> HIDE DEF q, m
<1>4. a = q * b + m
  BY <1>1, <1>2, <1>3
<1>5. QED
  BY <1>1, <1>4 DEF q, m

\* The pages of a run have their entries in one page of the tree.
LEMMA EntriesOfRun ==
  ASSUME NEW block \in Nat, NEW i \in 1 .. RunLength(block)
  PROVE  /\ (block + i - 1) \div E = block \div E
         /\ (block + i - 1) % E = (block % E) + (i - 1)
<1> DEFINE q == block \div E
           r == block % E
           x == block + i - 1
<1>1. E \in Nat \ {0}
  BY EntriesPositive
<1>2. q \in Nat /\ r \in 0 .. E - 1 /\ block = q * E + r
  BY <1>1, Quotient
<1>3. i \in 1 .. E - r /\ x \in Nat
  BY <1>1 DEF RunLength, EntryInBlock
<1> HIDE DEF q, r
<1>4. x = q * E + (r + i - 1) /\ r + i - 1 \in 0 .. E - 1
  BY <1>1, <1>2, <1>3, Z3
<1>5. x \div E \in Nat /\ x % E \in 0 .. E - 1 /\ x = (x \div E) * E + (x % E)
  BY <1>1, <1>3, Quotient
<1> DEFINE p == x \div E
           s == x % E
<1>6. p \in Nat /\ s \in 0 .. E - 1 /\ p * E + s = q * E + (r + i - 1)
  BY <1>4, <1>5
<1> HIDE DEF p, s
<1>7. CASE p < q
  <2>1. (p + 1) * E <= q * E /\ (p + 1) * E = p * E + E
    BY <1>1, <1>2, <1>6, <1>7, Product, Z3
  <2>2. p * E \in Nat /\ q * E \in Nat
    BY <1>1, <1>2, <1>6
  <2>3. QED
    BY <1>1, <1>4, <1>6, <2>1, <2>2
<1>8. CASE q < p
  <2>1. (q + 1) * E <= p * E /\ (q + 1) * E = q * E + E
    BY <1>1, <1>2, <1>6, <1>8, Product, Z3
  <2>2. p * E \in Nat /\ q * E \in Nat
    BY <1>1, <1>2, <1>6
  <2>3. QED
    BY <1>1, <1>4, <1>6, <2>1, <2>2
<1>9. CASE p = q
  <2>1. q * E \in Nat
    BY <1>1, <1>2
  <2>2. s = r + i - 1
    BY <1>4, <1>6, <1>9, <2>1
  <2>3. QED
    BY <1>9, <2>2, <1>2, <1>3 DEF p, s, q, r
<1>10. QED
  BY <1>2, <1>6, <1>7, <1>8, <1>9
-----------------------------------------------------------------------------
LEMMA LayoutTypes ==
  ASSUME NEW h \in Headers
  PROVE  /\ HashedPages(h) \in Nat
         /\ HashTreeStart(h) \in Nat /\ UserDataStart(h) \in Nat
         /\ \A n \in Nat : Level0Start(n) \in Nat
<1> USE DEF HeaderFields
<1>1. \A bytes \in Nat : PageCount(bytes) \in Nat
  BY SizeAssumption, CeilBounds DEF PageCount
<1>2. \A pages \in Nat : LevelPages(pages) \in Nat
  BY EntriesPositive, CeilBounds DEF LevelPages, StoredHashes
<1>3. /\ h.embedded_xvd_length \in Nat /\ h.mutable_page_count \in Nat
      /\ h.user_data_length \in Nat /\ h.xvc_data_length \in Nat
      /\ h.dynamic_header_length \in Nat /\ h.drive_size \in Nat
  BY InputAssumption
<1>4. HashedPages(h) \in Nat /\ HashTreeStart(h) \in Nat
  BY <1>1, <1>3 DEF HashedPages, HashTreeStart
<1>5. \A n \in Nat : Level0Pages(n) \in Nat
  BY <1>2 DEF Level0Pages, Max2
<1>6. \A n \in Nat : Level1Pages(n) \in Nat
  BY <1>2, <1>5 DEF Level1Pages
<1>7. \A n \in Nat : Level2Pages(n) \in Nat
  BY <1>2, <1>6 DEF Level2Pages
<1>8. \A n \in Nat : Level3Pages(n) \in Nat
  BY <1>2, <1>7 DEF Level3Pages
<1>9. \A n \in Nat : Level0Start(n) \in Nat
  BY <1>6, <1>7, <1>8 DEF Level0Start
<1>10. UserDataStart(h) \in Nat
  BY <1>4, <1>5, <1>9 DEF UserDataStart, TreePages
<1>11. QED
  BY <1>4, <1>9, <1>10

\* A number that is not negative times one that is not.
LEMMA Scaled == ASSUME NEW a \in Nat, NEW b \in Nat PROVE a * b \in Nat
BY Z3

\* Where the loop reads the i-th entry of the run that begins p pages after
\* the start of the region.
FirstOfRun(h, start, p) ==
  LET block == start - UserDataStart(h) + p
  IN  (HashTreeStart(h) + HashBlock(block, HashedPages(h), TopLevel(HashedPages(h)) + 1)) * PageSize
        + EntryInBlock(block) * EntrySize

LEMMA RunIsOwn ==
  ASSUME NEW h \in Headers, HashedPages(h) \in 1 .. MaxHashedPages,
         NEW start \in Int, NEW p \in Nat, start - UserDataStart(h) \in Nat,
         NEW i \in 1 .. RunLength(start - UserDataStart(h) + p)
  PROVE  /\ FirstOfRun(h, start, p) + (i - 1) * EntrySize \in Int
         /\ FirstOfRun(h, start, p) + (i - 1) * EntrySize = HashOfPage(h, start, p + i)
<1> DEFINE block == start - UserDataStart(h) + p
           n     == HashedPages(h)
           base  == HashTreeStart(h) + Level0Start(n) + (block \div E)
           r     == block % E
<1>1. UserDataStart(h) \in Nat /\ HashTreeStart(h) \in Nat /\ n \in Nat /\ Level0Start(n) \in Nat
  BY LayoutTypes
<1>2. block \in Nat /\ i \in 1 .. RunLength(block)
  BY <1>1
<1>3. block \div E \in Nat /\ r \in Nat
  BY <1>2, EntriesPositive, Quotient
<1>4. base \in Nat /\ PageSize \in Nat /\ EntrySize \in Nat /\ i - 1 \in Nat
  BY <1>1, <1>2, <1>3, SizeAssumption
<1>5. HashBlock(block, n, TopLevel(n) + 1) = Level0Start(n) + (block \div E)
  BY <1>2, FormulaIsLayout
<1>6. FirstOfRun(h, start, p) = base * PageSize + r * EntrySize
  BY <1>1, <1>3, <1>5 DEF FirstOfRun, EntryInBlock
<1>7. (block + i - 1) \div E = block \div E /\ (block + i - 1) % E = r + (i - 1)
  BY <1>2, EntriesOfRun
<1>8. start - UserDataStart(h) + (p + i) - 1 = block + i - 1
  BY <1>1, <1>2
<1>9. HashOfPage(h, start, p + i) = base * PageSize + (r + (i - 1)) * EntrySize
  BY <1>1, <1>3, <1>7, <1>8 DEF HashOfPage, EntryOffset
<1> HIDE DEF block, n, base, r
<1>10. (r + (i - 1)) * EntrySize = r * EntrySize + (i - 1) * EntrySize
  BY <1>3, <1>4, Z3
<1>11. base * PageSize \in Nat /\ r * EntrySize \in Nat /\ (i - 1) * EntrySize \in Nat
  BY <1>3, <1>4, Scaled
<1>12. QED
  BY <1>6, <1>9, <1>10, <1>11
-----------------------------------------------------------------------------
Section == [start : Nat, length : Nat, first : Nat, hashes : Seq(Int)]

\* The type invariant, with the shapes of the sequences.
Shape ==
  /\ TypeOK
  /\ regions \in Seq(RegionsOf(header))
  /\ region \in Nat
  /\ hashes \in Seq(Int)
  /\ sections \in Seq(Section)

\* How far the parser is: the tree has a page and is not too large once the
\* header is read, no region is begun before the loop, and hashes are only
\* collected for one with the first key, never more than it has pages.
Progress ==
  /\ phase \in {"info", "hashes"} => HashedPages(header) \in 1 .. MaxHashedPages
  /\ phase \in {"header", "info"} => region = 1 /\ page = 0
  /\ region <= Len(regions) => page <= regions[region].length
  /\ page # 0 => region <= Len(regions) /\ regions[region].key = "first"

IInv ==
  /\ Shape
  /\ Progress
  /\ HashesAreOfOwnPages

LEMMA RegionTypes ==
  ASSUME NEW h \in Headers, NEW r \in RegionsOf(h)
  PROVE  /\ r.offset \in Nat /\ r.length \in Nat /\ r.first \in Nat
         /\ r.offset - UserDataStart(h) \in Nat
<1>1. UserDataStart(h) \in Nat
  BY LayoutTypes
<1>2. /\ r.offset \in {UserDataStart(h) + o : o \in RegionOffsets}
      /\ r.length \in RegionLengths /\ r.first \in FirstIndexes
  BY DEF RegionsOf
<1>3. PICK o \in RegionOffsets : r.offset = UserDataStart(h) + o
  BY <1>2
<1>4. o \in Nat /\ r.length \in Nat /\ r.first \in Nat
  BY <1>2, InputAssumption
<1>5. r.offset \in Nat /\ r.offset - UserDataStart(h) = o
  BY <1>1, <1>3, <1>4
<1>6. QED
  BY <1>4, <1>5

LEMMA InitIInv == Init => IInv
<1> SUFFICES ASSUME Init PROVE IInv
  OBVIOUS
<1>1. Shape
  BY DEF Init, Shape, TypeOK, AtRegion
<1>2. Progress /\ HashesAreOfOwnPages
  BY DEF Init, Progress, HashesAreOfOwnPages
<1>3. QED
  BY <1>1, <1>2 DEF IInv

LEMMA ReadRunIInv == IInv /\ ReadRun => IInv'
<1> SUFFICES ASSUME IInv, ReadRun PROVE IInv'
  OBVIOUS
<1> DEFINE start == regions[region].offset
           block == start - UserDataStart(header) + page
           run   == RunOfBlock(block, regions[region].length - page)
           f     == [i \in 1 .. run |-> FirstOfRun(header, start, page) + (i - 1) * EntrySize]
<1>1. /\ phase = "hashes" /\ region \in 1 .. Len(regions) /\ header \in Headers
      /\ regions \in Seq(RegionsOf(header)) /\ hashes \in Seq(Int) /\ page = Len(hashes)
      /\ regions[region].key = "first" /\ page < regions[region].length
      /\ HashedPages(header) \in 1 .. MaxHashedPages
  BY DEF IInv, Shape, TypeOK, Progress, ReadRun, AtRegion
<1>2. regions[region] \in RegionsOf(header) /\ page \in Nat
  BY <1>1
<1>3. start \in Nat /\ start - UserDataStart(header) \in Nat /\ regions[region].length \in Nat
  BY <1>1, <1>2, RegionTypes
<1>4. block \in Nat /\ RunLength(block) \in Nat
  <2>1. block \in Nat
    BY <1>2, <1>3
  <2>2. E \in Nat \ {0} /\ block % E \in 0 .. E - 1
    BY <2>1, EntriesPositive, Quotient
  <2>3. QED
    BY <2>1, <2>2 DEF RunLength, EntryInBlock
<1>5. run \in Nat /\ run <= RunLength(block) /\ page + run <= regions[region].length
  BY <1>1, <1>2, <1>3, <1>4 DEF RunOfBlock, Min2
<1>6. /\ hashes' = hashes \o f /\ page' = page + run
      /\ UNCHANGED <<header, phase, regions, region, sections, user_read>>
  BY DEF ReadRun, FirstOfRun
<1>7. \A i \in 1 .. run :
         /\ FirstOfRun(header, start, page) + (i - 1) * EntrySize \in Int
         /\ FirstOfRun(header, start, page) + (i - 1) * EntrySize = HashOfPage(header, start, page + i)
  <2>1. TAKE i \in 1 .. run
  <2>2. i \in 1 .. RunLength(start - UserDataStart(header) + page)
    BY <1>4, <1>5
  <2>3. start \in Int
    BY <1>3
  <2>4. QED
    BY <1>1, <1>2, <1>3, <2>2, <2>3, RunIsOwn
<1>8. f \in Seq(Int) /\ Len(f) = run /\ \A i \in 1 .. run : f[i] = HashOfPage(header, start, page + i)
  BY <1>5, <1>7
<1> HIDE DEF f, run, block
<1>9. /\ hashes' \in Seq(Int) /\ Len(hashes') = page + run
      /\ \A i \in 1 .. page + run :
           hashes'[i] = IF i <= page THEN hashes[i] ELSE f[i - page]
  BY <1>1, <1>6, <1>8, ConcatProperties
<1>10. \A i \in 1 .. Len(hashes') : hashes'[i] = HashOfPage(header, start, i)
  <2>1. TAKE i \in 1 .. Len(hashes')
  <2>2. CASE i <= page
    BY <1>1, <1>2, <1>5, <1>9, <2>1, <2>2 DEF IInv, HashesAreOfOwnPages
  <2>3. CASE i > page
    <3>1. i - page \in 1 .. run /\ page + (i - page) = i
      BY <1>2, <1>5, <1>9, <2>1, <2>3
    <3>2. f[i - page] = HashOfPage(header, start, page + (i - page))
      BY <1>8, <3>1
    <3>3. QED
      BY <1>2, <1>5, <1>9, <2>1, <2>3, <3>1, <3>2
  <2>4. QED
    BY <1>2, <1>5, <1>9, <2>1, <2>2, <2>3
<1>11. HashesAreOfOwnPages'
  BY <1>6, <1>10 DEF IInv, HashesAreOfOwnPages
<1>12. page' \in 0 .. regions[region].length /\ page' = Len(hashes')
  BY <1>2, <1>3, <1>5, <1>6, <1>9
<1>13. Shape'
  BY <1>1, <1>6, <1>9, <1>12 DEF IInv, Shape, TypeOK, AtRegion
<1>14. Progress'
  BY <1>1, <1>6, <1>12 DEF IInv, Progress
<1>15. QED
  BY <1>11, <1>13, <1>14 DEF IInv

LEMMA EndRegionIInv == IInv /\ EndRegion => IInv'
<1> SUFFICES ASSUME IInv, EndRegion PROVE IInv'
  OBVIOUS
<1> DEFINE r == regions[region]
           s == [start |-> r.offset, length |-> r.length, first |-> r.first, hashes |-> hashes]
<1>1. /\ phase = "hashes" /\ region \in 1 .. Len(regions) /\ header \in Headers
      /\ regions \in Seq(RegionsOf(header)) /\ hashes \in Seq(Int) /\ page = Len(hashes)
      /\ sections \in Seq(Section) /\ Len(sections) < region
      /\ page >= r.length /\ page <= r.length
  BY DEF IInv, Shape, TypeOK, Progress, EndRegion, AtRegion
<1>2. r \in RegionsOf(header)
  BY <1>1
<1>3. r.offset \in Nat /\ r.length \in Nat /\ r.first \in Nat
  BY <1>1, <1>2, RegionTypes
<1>4. /\ sections' = Append(sections, s)
      /\ region' = region + 1 /\ page' = 0 /\ hashes' = <<>>
      /\ UNCHANGED <<header, phase, regions, user_read>>
  BY DEF EndRegion
<1>5. Len(hashes) = r.length
  BY <1>1, <1>3
<1>6. s \in Section
  BY <1>1, <1>3 DEF Section
<1> HIDE DEF s
<1>7. /\ sections' \in Seq(Section) /\ Len(sections') = Len(sections) + 1
      /\ \A i \in 1 .. Len(sections) : sections'[i] = sections[i]
      /\ sections'[Len(sections) + 1] = s
  BY <1>1, <1>4, <1>6
<1>8. region' <= Len(regions) => regions[region'].length \in Nat
  <2>1. region' <= Len(regions) => regions[region'] \in RegionsOf(header)
    BY <1>1, <1>4
  <2>2. QED
    BY <1>1, <2>1, RegionTypes
<1>9. Shape' /\ Progress'
  <2>1. Shape'
    BY <1>1, <1>2, <1>4, <1>7, <1>8 DEF IInv, Shape, TypeOK, AtRegion
  <2>2. Progress'
    BY <1>1, <1>4, <1>8 DEF IInv, Progress
  <2>3. QED
    BY <2>1, <2>2
<1>10. HashesAreOfOwnPages'
  <2>1. ASSUME NEW k \in 1 .. Len(sections')
        PROVE  /\ Len(sections'[k].hashes) = sections'[k].length
               /\ \A i \in 1 .. sections'[k].length :
                    sections'[k].hashes[i] = HashOfPage(header, sections'[k].start, i)
    <3>1. CASE k \in 1 .. Len(sections)
      BY <1>7, <3>1 DEF IInv, HashesAreOfOwnPages
    <3>2. CASE k = Len(sections) + 1
      <4>1. sections'[k].hashes = hashes /\ sections'[k].length = r.length
            /\ sections'[k].start = r.offset
        BY <1>7, <3>2 DEF s
      <4>2. \A i \in 1 .. Len(hashes) : hashes[i] = HashOfPage(header, r.offset, i)
        BY DEF IInv, HashesAreOfOwnPages
      <4>3. QED
        BY <1>5, <4>1, <4>2
    <3>3. QED
      BY <1>1, <1>7, <2>1, <3>1, <3>2
  <2>2. Len(hashes') = 0
    BY <1>4
  <2>3. QED
    BY <1>4, <2>1, <2>2 DEF HashesAreOfOwnPages
<1>11. QED
  BY <1>9, <1>10 DEF IInv

LEMMA NextIInv == IInv /\ [Next]_vars => IInv'
<1> SUFFICES ASSUME IInv, [Next]_vars PROVE IInv'
  OBVIOUS
<1>1. CASE ReadHeader
  <2>1. /\ UNCHANGED <<header, regions, region, page, hashes, sections, user_read>>
        /\ phase = "header" /\ phase' \in {"rejected", "panic", "info"}
        /\ phase' = "info" => HashedPages(header) \in 1 .. MaxHashedPages
    <3>1. HashedPages(header) \in Nat /\ MaxHashedPages \in Nat
      BY LayoutTypes, Powers DEF IInv, Shape, TypeOK, MaxHashedPages
    <3>2. CASE HashedPages(header) > MaxHashedPages
      BY <1>1, <3>2 DEF ReadHeader
    <3>3. CASE ~(HashedPages(header) > MaxHashedPages) /\ HashedPages(header) = 0
      BY <1>1, <3>3 DEF ReadHeader
    <3>4. CASE ~(HashedPages(header) > MaxHashedPages) /\ HashedPages(header) # 0
      BY <1>1, <3>1, <3>4 DEF ReadHeader
    <3>5. QED
      BY <3>2, <3>3, <3>4
  <2>2. QED
    BY <2>1 DEF IInv, Shape, TypeOK, Progress, HashesAreOfOwnPages, AtRegion
<1>2. CASE ReadRegions
  <2>1. PICK k \in 0 .. MaxRegions : regions' \in [1 .. k -> RegionsOf(header)]
    BY <1>2 DEF ReadRegions
  <2>2. regions' \in Seq(RegionsOf(header)) /\ Len(regions') \in Nat
    BY <2>1, SizeAssumption
  <2>3. /\ phase = "info" /\ phase' = "hashes" /\ region = 1 /\ page = 0 /\ Len(hashes) = 0
        /\ UNCHANGED <<header, region, page, hashes, sections, user_read>>
    BY <1>2 DEF ReadRegions, IInv, Shape, TypeOK, Progress
  <2>4. header \in Headers
    BY DEF IInv, Shape, TypeOK
  <2>5. 1 <= Len(regions') => regions'[1].length \in Nat
    BY <2>2, <2>4, RegionTypes
  <2>6. Shape'
    <3>1. TypeOK'
      BY <2>2, <2>3, <2>4, <2>5 DEF IInv, Shape, TypeOK, AtRegion
    <3>2. regions' \in Seq(RegionsOf(header'))
      BY <2>2, <2>3
    <3>3. region' \in Nat /\ hashes' \in Seq(Int) /\ sections' \in Seq(Section)
      BY <2>3 DEF IInv, Shape
    <3>4. QED
      BY <3>1, <3>2, <3>3 DEF Shape
  <2>7. Progress'
    BY <2>3, <2>5 DEF IInv, Progress
  <2>8. HashesAreOfOwnPages'
    BY <2>3 DEF IInv, HashesAreOfOwnPages
  <2>9. QED
    BY <2>6, <2>7, <2>8 DEF IInv
<1>3. CASE SkipRegion
  <2>1. /\ phase = "hashes" /\ region <= Len(regions) /\ regions[region].key = "none"
        /\ region' = region + 1
        /\ UNCHANGED <<header, phase, regions, page, hashes, sections, user_read>>
    BY <1>3 DEF SkipRegion, AtRegion
  <2>2. page = 0 /\ Len(hashes) = 0
    BY <2>1 DEF IInv, Shape, TypeOK, Progress
  <2>3. region' \in 1 .. Len(regions) + 1 /\ regions \in Seq(RegionsOf(header)) /\ header \in Headers
    BY <2>1 DEF IInv, Shape, TypeOK
  <2>4. region' <= Len(regions) => regions[region'].length \in Nat
    BY <2>3, RegionTypes
  <2>5. Shape'
    BY <2>1, <2>2, <2>3, <2>4 DEF IInv, Shape, TypeOK, AtRegion
  <2>6. Progress'
    BY <2>1, <2>2, <2>3, <2>4 DEF IInv, Progress
  <2>7. HashesAreOfOwnPages'
    BY <2>1, <2>2 DEF IInv, HashesAreOfOwnPages
  <2>8. QED
    BY <2>5, <2>6, <2>7 DEF IInv
<1>4. CASE UnsupportedKey
  BY <1>4 DEF UnsupportedKey, IInv, Shape, TypeOK, Progress, HashesAreOfOwnPages, AtRegion
<1>5. CASE EndRegions
  BY <1>5 DEF EndRegions, IInv, Shape, TypeOK, Progress, HashesAreOfOwnPages, AtRegion
<1>6. CASE ReadUserData
  <2>1. UserDataStart(header) \in Nat
    BY LayoutTypes DEF IInv, Shape, TypeOK
  <2>2. QED
    BY <1>6, <2>1 DEF ReadUserData, IInv, Shape, TypeOK, Progress, HashesAreOfOwnPages, AtRegion
<1>7. CASE ReadFails
  BY <1>7 DEF ReadFails, IInv, Shape, TypeOK, Progress, HashesAreOfOwnPages, AtRegion
<1>8. CASE UNCHANGED vars
  BY <1>8 DEF vars, IInv, Shape, TypeOK, Progress, HashesAreOfOwnPages, AtRegion
<1>9. QED
  BY <1>1, <1>2, <1>3, <1>4, <1>5, <1>6, <1>7, <1>8, ReadRunIInv, EndRegionIInv
     DEF Next, Advance

LEMMA Invariance == Spec => []IInv
BY InitIInv, NextIInv, PTL DEF Spec

\* XvdFile::parse keeps what it read in the shapes its types promise.
THEOREM TypeCorrect == Spec => []TypeOK
<1>1. IInv => TypeOK
  BY DEF IInv, Shape
<1>2. QED
  BY <1>1, Invariance, PTL

\* The formula of math.rs and the layout of layout.rs agree on the entry of a
\* page, for every size of page and entry and every number of pages, and the
\* loop of parse collects for each page of a region the entry that is its own.
THEOREM HashesCorrect == Spec => []HashesAreOfOwnPages
<1>1. IInv => HashesAreOfOwnPages
  BY DEF IInv
<1>2. QED
  BY <1>1, Invariance, PTL
-----------------------------------------------------------------------------
LEMMA Least ==
  ASSUME NEW S \in SUBSET Nat, S # {}
  PROVE  Min(S) \in S /\ \A x \in S : Min(S) <= x
<1> DEFINE Below == {p \in Nat \X Nat : p[1] < p[2]}
<1>1. IsWellFoundedOn(Below, Nat)
  BY NatLessThanWellFounded DEF OpToRel
<1>2. PICK x \in S : \A y \in S : ~(<<y, x>> \in Below)
  BY <1>1, WFMin
<1>3. \A y \in S : x <= y
  <2>1. TAKE y \in S
  <2>2. <<y, x>> \in Nat \X Nat /\ x \in Nat /\ y \in Nat
    OBVIOUS
  <2>3. ~(y < x)
    BY <1>2, <2>2
  <2>4. QED
    BY <2>2, <2>3
<1>4. QED
  BY <1>3 DEF Min

File == [page : Nat, length : Nat, hashes : Seq(Int)]

\* What FilesHaveOwnHashes says of one file.
OwnHashes(f) ==
  /\ f.hashes # <<>> => Len(f.hashes) = PageCount(f.length)
  /\ \A i \in 1 .. Len(f.hashes) : f.hashes[i] = HashOfPage(header, f.page, i)
  /\ f.hashes = <<>> => f.length = 0 \/ Holding(f.page) = {}

Indexes == 0 .. Len(segments) - 1

\* The list is begun when the package is parsed.  Up to the file system there
\* are files of the metadata only, and the next one begins in its section.
ListInv ==
  /\ table # "none" => phase = "done"
  /\ segments \in Seq(Nat)
  /\ section \in Nat \ {0} /\ segment \in Nat /\ at \in Nat
  /\ table = "segments" /\ section <= Len(sections) => at >= sections[section].start
  /\ table \in {"none", "segments", "ntfs"} => DOMAIN files \subseteq Indexes
  /\ table = "none" => files = <<>>
  /\ \A name \in DOMAIN files : files[name] \in File /\ OwnHashes(files[name])

\* The files that were added to those of the metadata are not encrypted.
OthersArePlain ==
  InOrder /\ DOMAIN files \cap Indexes # {} =>
    \A name \in DOMAIN files \ Indexes : Holding(files[name].page) = {}

FilesInv == IInv /\ ListInv /\ OthersArePlain

LEMMA PageCounts ==
  ASSUME NEW bytes \in Nat
  PROVE  PageCount(bytes) \in Nat /\ (PageCount(bytes) = 0 <=> bytes = 0)
<1>1. 0 * PageSize = 0 /\ PageSize \in Nat \ {0}
  BY SizeAssumption
<1>2. CASE bytes = 0
  BY <1>1, <1>2, CeilZero DEF PageCount
<1>3. CASE bytes # 0
  <2>1. bytes > 0 * PageSize
    BY <1>1, <1>3
  <2>2. CeilDiv(bytes, PageSize) > 0 /\ CeilDiv(bytes, PageSize) \in Nat
    BY <1>1, <2>1, CeilMoreThan, CeilBounds
  <2>3. QED
    BY <1>3, <2>2 DEF PageCount
<1>4. QED
  BY <1>2, <1>3

\* The hashes of c pages of a section, after the first n, are those of the
\* pages from the n-th of the section on.
LEMMA Slice ==
  ASSUME IInv, NEW k \in DOMAIN sections, NEW n \in Nat, NEW c \in Nat,
         n + c <= Len(sections[k].hashes)
  PROVE  LET h == SubSeq(sections[k].hashes, n + 1, n + c)
         IN  /\ h \in Seq(Int) /\ Len(h) = c
             /\ \A i \in 1 .. c : h[i] = HashOfPage(header, sections[k].start + n, i)
<1> DEFINE s == sections[k]
           h == SubSeq(s.hashes, n + 1, n + c)
<1>1. /\ s \in Section /\ k \in 1 .. Len(sections) /\ header \in Headers
  BY DEF IInv, Shape, TypeOK
<1>2. /\ s.start \in Nat /\ s.hashes \in Seq(Int) /\ Len(s.hashes) = s.length
      /\ Len(s.hashes) \in Nat
      /\ \A i \in 1 .. s.length : s.hashes[i] = HashOfPage(header, s.start, i)
  BY <1>1 DEF Section, IInv, HashesAreOfOwnPages
<1>3. \A i \in n + 1 .. n + c : s.hashes[i] \in Int
  BY <1>2
<1>4. /\ h \in Seq(Int)
      /\ Len(h) = IF n + 1 <= n + c THEN (n + c) - (n + 1) + 1 ELSE 0
      /\ \A i \in 1 .. (n + c) - (n + 1) + 1 : h[i] = s.hashes[(n + 1) + i - 1]
  BY <1>3, SubSeqProperties
<1> HIDE DEF h
<1>5. Len(h) = c
  BY <1>4
<1>6. ASSUME NEW i \in 1 .. c PROVE h[i] = HashOfPage(header, s.start + n, i)
  <2>1. i \in 1 .. (n + c) - (n + 1) + 1 /\ (n + 1) + i - 1 = n + i /\ n + i \in 1 .. s.length
    BY <1>2
  <2>2. h[i] = HashOfPage(header, s.start, n + i)
    BY <1>2, <1>4, <2>1
  <2>3. UserDataStart(header) \in Nat
    BY <1>1, LayoutTypes
  <2>4. s.start - UserDataStart(header) + (n + i) - 1 = (s.start + n) - UserDataStart(header) + i - 1
    BY <1>2, <2>3
  <2>5. QED
    BY <2>2, <2>4 DEF HashOfPage
<1>7. QED
  BY <1>4, <1>5, <1>6 DEF h

LEMMA HoldingFirst ==
  ASSUME IInv, NEW p \in Nat, Holding(p) # {}
  PROVE  /\ FirstHolding(p) \in DOMAIN sections
         /\ sections[FirstHolding(p)].start \in Nat
         /\ sections[FirstHolding(p)].start <= p
<1>1. Holding(p) \in SUBSET Nat
  BY DEF Holding, IInv, Shape
<1>2. FirstHolding(p) \in Holding(p)
  BY <1>1, Least DEF FirstHolding
<1>3. FirstHolding(p) \in DOMAIN sections /\ sections[FirstHolding(p)].start <= p
  BY <1>2 DEF Holding
<1>4. sections[FirstHolding(p)] \in Section
  BY <1>3 DEF IInv, Shape
<1>5. QED
  BY <1>3, <1>4 DEF Section

\* populate_segment_hashes gives a file without hashes its own, or none.
LEMMA PopulatedOwn ==
  ASSUME IInv, NEW f \in File, f.hashes = <<>>, Populates(f)
  PROVE  /\ Populated(f) \in File /\ OwnHashes(Populated(f))
         /\ Populated(f).page = f.page
<1>1. f.page \in Nat /\ f.length \in Nat /\ f.hashes \in Seq(Int) /\ Len(f.hashes) = 0
  BY DEF File
<1>2. CASE Holding(f.page) = {}
  BY <1>1, <1>2 DEF Populated, OwnHashes
<1>3. CASE Holding(f.page) # {}
  <2> DEFINE k == FirstHolding(f.page)
             n == f.page - sections[k].start
             c == PageCount(f.length)
             h == SubSeq(sections[k].hashes, n + 1, n + c)
  <2>1. k \in DOMAIN sections /\ sections[k].start \in Nat /\ n \in Nat
        /\ sections[k].start + n = f.page
    BY <1>1, <1>3, HoldingFirst
  <2>2. c \in Nat /\ (c = 0 <=> f.length = 0)
    BY <1>1, PageCounts
  <2>3. n + c <= Len(sections[k].hashes)
    BY <1>3 DEF Populates
  <2>4. /\ h \in Seq(Int) /\ Len(h) = c
        /\ \A i \in 1 .. c : h[i] = HashOfPage(header, f.page, i)
    <3>1. /\ h \in Seq(Int) /\ Len(h) = c
          /\ \A i \in 1 .. c : h[i] = HashOfPage(header, sections[k].start + n, i)
      <4> HIDE DEF k, n, c
      <4>1. QED
        BY <2>1, <2>2, <2>3, Slice
    <3>2. QED
      BY <2>1, <3>1
  <2>5. Populated(f) = [f EXCEPT !.hashes = h]
    BY <1>3 DEF Populated
  <2> HIDE DEF h, c, n, k
  <2>6. /\ Populated(f) \in File /\ Populated(f).hashes = h
        /\ Populated(f).page = f.page /\ Populated(f).length = f.length
    BY <2>4, <2>5 DEF File
  <2>7. h = <<>> => c = 0
    BY <2>4
  <2>8. OwnHashes(Populated(f))
    BY <2>2, <2>4, <2>6, <2>7 DEF OwnHashes, c
  <2>9. QED
    BY <2>6, <2>8
<1>4. QED
  BY <1>2, <1>3

\* The parser has come to its end when the list is begun.
LEMMA ParserStands == ASSUME phase = "done" PROVE ~Next
BY DEF Next, Advance, ReadHeader, ReadRegions, SkipRegion, UnsupportedKey, ReadRun, EndRegion,
       EndRegions, ReadUserData, ReadFails, AtRegion

LEMMA InitFilesInv == Init /\ FileInit => FilesInv
<1> SUFFICES ASSUME Init, FileInit PROVE FilesInv
  OBVIOUS
<1>1. files = <<>> /\ DOMAIN files = {} /\ table = "none"
  BY DEF FileInit
<1>2. ListInv
  BY <1>1 DEF FileInit, ListInv
<1>3. OthersArePlain
  BY <1>1 DEF OthersArePlain
<1>4. QED
  BY <1>2, <1>3, InitIInv DEF FilesInv

\* Extending a list of files with others that have their own hashes.
LEMMA Extended ==
  ASSUME NEW f, NEW g,
         \A name \in DOMAIN f : f[name] \in File /\ OwnHashes(f[name]),
         \A name \in DOMAIN g : g[name] \in File /\ OwnHashes(g[name])
  PROVE  /\ DOMAIN Extend(f, g) = DOMAIN f \cup DOMAIN g
         /\ \A name \in DOMAIN Extend(f, g) :
              /\ Extend(f, g)[name] \in File /\ OwnHashes(Extend(f, g)[name])
              /\ Extend(f, g)[name] = IF name \in DOMAIN g THEN g[name] ELSE f[name]
BY DEF Extend

LEMMA PlaceFileInv == ASSUME FilesInv, PlaceFile, UNCHANGED vars PROVE ListInv'
<1>1. CASE UNCHANGED <<segment, at, files>>
  <2>1. table' = "failed" /\ table = "segments" /\ UNCHANGED <<segments, section>>
    <3>1. table = "segments" /\ UNCHANGED <<segments, section>>
      BY DEF PlaceFile, InSection
    <3>2. CASE table' = "failed"
      BY <3>1, <3>2
    <3>3. CASE segment' = segment + 1
      <4>1. segment \in Nat /\ segment' = segment
        BY <1>1 DEF FilesInv, ListInv
      <4>2. QED
        BY <3>3, <4>1
    <3>4. QED
      BY <3>1, <3>2, <3>3 DEF PlaceFile
  <2>2. QED
    BY <1>1, <2>1 DEF FilesInv, ListInv, OwnHashes, Holding, vars
<1>2. CASE ~UNCHANGED <<segment, at, files>>
  <2> DEFINE s == sections[section]
             length == segments[segment + 1]
             n == at - s.start
             c == PageCount(length)
             h == SubSeq(s.hashes, n + 1, n + c)
             f == [page |-> at, length |-> length, hashes |-> h]
             g == [name \in {segment} |-> f]
  <2>1. /\ table = "segments" /\ section <= Len(sections) /\ ~SectionDone
        /\ n + c <= Len(s.hashes) /\ UNCHANGED <<table, segments, section>>
        /\ files' = Extend(files, g)
        /\ at' = at + Slot(length) /\ segment' = segment + 1
    <3>1. table = "segments" /\ section <= Len(sections) /\ ~SectionDone
          /\ UNCHANGED <<segments, section>>
      BY DEF PlaceFile, InSection
    <3>2. ~(n + c > Len(s.hashes))
      BY <1>2 DEF PlaceFile
    <3>3. /\ files' = Extend(files, g) /\ at' = at + Slot(length) /\ segment' = segment + 1
          /\ UNCHANGED table
      BY <1>2 DEF PlaceFile
    <3>4. s \in Section /\ n \in Int /\ c \in Int
      <4>1. sections \in Seq(Section) /\ section \in 1 .. Len(sections)
        BY <3>1 DEF FilesInv, IInv, Shape, ListInv
      <4>2. s \in Section
        BY <4>1
      <4>3. segment + 1 \in 1 .. Len(segments) /\ segments \in Seq(Nat)
        BY <3>1 DEF FilesInv, ListInv, SectionDone
      <4>4. length \in Nat
        BY <4>3
      <4>5. QED
        BY <4>2, <4>4, PageCounts DEF FilesInv, ListInv, Section
    <3>5. Len(s.hashes) \in Nat
      BY <3>4 DEF Section
    <3>6. QED
      BY <3>1, <3>2, <3>3, <3>4, <3>5
  <2>2. /\ section \in DOMAIN sections /\ s \in Section
        /\ segment \in Indexes /\ length \in Nat /\ at \in Nat /\ n \in Nat
    <3>1. sections \in Seq(Section) /\ section \in 1 .. Len(sections)
      BY <2>1 DEF FilesInv, IInv, Shape, ListInv
    <3>2. segment \in 0 .. Len(segments) - 1 /\ segments \in Seq(Nat)
      BY <2>1 DEF FilesInv, ListInv, SectionDone
    <3>3. length \in Nat
      BY <3>2
    <3>4. at >= s.start /\ at \in Nat
      BY <2>1 DEF FilesInv, ListInv
    <3>5. s \in Section /\ section \in DOMAIN sections
      BY <3>1
    <3>6. s.start \in Nat
      BY <3>5 DEF Section
    <3>7. n \in Nat
      BY <3>4, <3>6
    <3>8. QED
      BY <3>2, <3>3, <3>4, <3>5, <3>7 DEF Indexes
  <2>3. c \in Nat /\ (c = 0 <=> length = 0)
    BY <2>2, PageCounts
  <2>4. /\ h \in Seq(Int) /\ Len(h) = c
        /\ \A i \in 1 .. c : h[i] = HashOfPage(header, at, i)
    <3>1. s.start + n = at
      BY <2>2 DEF Section
    <3>2. /\ h \in Seq(Int) /\ Len(h) = c
          /\ \A i \in 1 .. c : h[i] = HashOfPage(header, s.start + n, i)
      <4> HIDE DEF n, c
      <4>1. QED
        BY <2>1, <2>2, <2>3, Slice DEF FilesInv
    <3>3. QED
      BY <3>1, <3>2
  <2> HIDE DEF h, c, n
  <2>5. f \in File
    BY <2>2, <2>4 DEF File
  <2>6. OwnHashes(f)
    <3>1. h = <<>> => length = 0
      BY <2>3, <2>4
    <3>2. QED
      BY <2>4, <3>1 DEF OwnHashes, c
  <2> HIDE DEF f
  <2>7. DOMAIN g = {segment} /\ \A name \in DOMAIN g : g[name] \in File /\ OwnHashes(g[name])
    BY <2>5, <2>6
  <2> HIDE DEF g
  <2>8. /\ DOMAIN files' = DOMAIN files \cup {segment}
        /\ \A name \in DOMAIN files' : files'[name] \in File /\ OwnHashes(files'[name])
    BY <2>1, <2>7, Extended DEF FilesInv, ListInv
  <2>9. at' \in Nat /\ at' >= at /\ segment' \in Nat
    <3>1. Slot(length) \in Nat
      BY <2>3 DEF Slot, Max2, c
    <3>2. segment \in Nat
      BY DEF FilesInv, ListInv
    <3>3. QED
      BY <2>1, <2>2, <3>1, <3>2
  <2>10. QED
    BY <2>1, <2>2, <2>8, <2>9 DEF FilesInv, ListInv, Indexes, OwnHashes, Holding, vars, Section
<1>3. QED
  BY <1>1, <1>2

\* The pages before the first encrypted one of a part of the package are in no
\* section, when the sections come in the order of their offsets.
LEMMA PlainHolds ==
  ASSUME IInv, InOrder, NEW start \in Nat, NEW length \in Nat, NEW p \in Nat,
         start <= p, p < start + PlainPrefix(start, length)
  PROVE  Holding(p) = {}
<1> SUFFICES ASSUME NEW k \in Holding(p) PROVE FALSE
  OBVIOUS
<1> DEFINE over  == {j \in DOMAIN sections : Overlaps(sections[j], start, start + length)}
           first == sections[Min(over)]
<1>1. sections \in Seq(Section) /\ over \in SUBSET Nat
  BY DEF IInv, Shape
<1>2. k \in DOMAIN sections /\ sections[k].start <= p /\ p < sections[k].start + sections[k].length
  BY DEF Holding
<1>3. sections[k].start \in Nat /\ sections[k].length \in Nat
  <2>1. sections[k] \in Section
    BY <1>1, <1>2
  <2>2. QED
    BY <2>1 DEF Section
<1>4. PlainPrefix(start, length) = IF over = {} THEN length
                                   ELSE IF start >= first.start THEN 0 ELSE first.start - start
  BY DEF PlainPrefix
<1>5. over # {}
  <2>1. SUFFICES ASSUME over = {} PROVE FALSE
    OBVIOUS
  <2>2. p < start + length
    BY <1>4, <2>1
  <2>3. Overlaps(sections[k], start, start + length)
    BY <1>2, <1>3, <2>2 DEF Overlaps
  <2>4. QED
    BY <1>2, <2>1, <2>3
<1>6. Min(over) \in over /\ \A j \in over : Min(over) <= j
  BY <1>1, <1>5, Least
<1>7. Min(over) \in DOMAIN sections /\ first.start < start + length /\ first.start \in Nat
  <2>1. Min(over) \in DOMAIN sections /\ first.start < start + length
    BY <1>6 DEF Overlaps
  <2>2. first \in Section
    BY <1>1, <2>1
  <2>3. QED
    BY <2>1, <2>2 DEF Section
<1> HIDE DEF first
<1>8. p < first.start
  BY <1>4, <1>5, <1>7
<1>9. k \in over
  <2>1. Overlaps(sections[k], start, start + length)
    BY <1>2, <1>3, <1>7, <1>8 DEF Overlaps
  <2>2. QED
    BY <1>2, <2>1
<1>10. Min(over) <= k /\ Min(over) \in Nat /\ k \in Nat
  BY <1>1, <1>6, <1>9
<1>11. first.start <= sections[k].start
  <2>1. CASE Min(over) = k
    BY <1>3, <2>1 DEF first
  <2>2. CASE Min(over) < k
    BY <1>2, <1>7, <2>2 DEF InOrder, first
  <2>3. QED
    BY <1>10, <2>1, <2>2
<1>12. QED
  BY <1>2, <1>3, <1>7, <1>8, <1>11

LEMMA DriveTypes ==
  ASSUME NEW h \in Headers PROVE DriveStart(h) \in Nat /\ PageCount(h.drive_size) \in Nat
<1>1. /\ h.user_data_length \in Nat /\ h.xvc_data_length \in Nat
      /\ h.dynamic_header_length \in Nat /\ h.drive_size \in Nat
  BY InputAssumption DEF HeaderFields
<1>2. QED
  BY <1>1, PageCounts, LayoutTypes DEF DriveStart

\* The files that are taken from the file system.
LEMMA TakenFiles ==
  ASSUME IInv, NEW names, NEW only_plain \in BOOLEAN,
         NEW listing \in [names -> [page : NtfsOffsets, length : NtfsLengths, hashes : {<<>>}]]
  PROVE  /\ DOMAIN Taken(listing, only_plain) \subseteq names
         /\ \A name \in DOMAIN Taken(listing, only_plain) :
              LET f == Taken(listing, only_plain)[name]
              IN  /\ f \in File /\ f.hashes = <<>>
                  /\ only_plain /\ InOrder => Holding(f.page) = {}
<1> DEFINE drive == DriveStart(header)
           size  == PageCount(header.drive_size)
           new   == Taken(listing, only_plain)
<1>1. drive \in Nat /\ size \in Nat
  BY DriveTypes DEF IInv, Shape, TypeOK
<1>2. /\ DOMAIN new = {n \in names : only_plain =>
                         drive + listing[n].page < drive + PlainPrefix(drive, size)}
      /\ \A name \in DOMAIN new : new[name] = [listing[name] EXCEPT !.page = drive + @]
  BY DEF Taken
<1> HIDE DEF new, drive, size
<1>3. ASSUME NEW name \in DOMAIN new
      PROVE  /\ new[name] \in File /\ new[name].hashes = <<>>
             /\ only_plain /\ InOrder => Holding(new[name].page) = {}
  <2>1. name \in names
    BY <1>2, <1>3
  <2>2. listing[name] \in [page : NtfsOffsets, length : NtfsLengths, hashes : {<<>>}]
    BY <2>1
  <2>3. listing[name].page \in Nat /\ listing[name].length \in Nat /\ listing[name].hashes = <<>>
    BY <2>2, SegmentAssumption
  <2>4. new[name] = [page |-> drive + listing[name].page, length |-> listing[name].length,
                     hashes |-> <<>>]
    BY <1>2, <1>3, <2>2, <2>3
  <2>5. new[name] \in File /\ new[name].hashes = <<>>
    BY <1>1, <2>3, <2>4 DEF File
  <2>6. ASSUME only_plain, InOrder PROVE Holding(new[name].page) = {}
    <3>1. new[name].page \in Nat /\ drive <= new[name].page
          /\ new[name].page < drive + PlainPrefix(drive, size)
      BY <1>1, <1>2, <1>3, <2>1, <2>3, <2>4, <2>6
    <3>2. QED
      BY <1>1, <2>6, <3>1, PlainHolds
  <2>7. QED
    BY <2>5, <2>6
<1>4. QED
  BY <1>2, <1>3 DEF new

LEMMA ReadNtfsInv == ASSUME FilesInv, ReadNtfs, UNCHANGED vars PROVE ListInv' /\ OthersArePlain'
<1>1. /\ table = "ntfs" /\ UNCHANGED <<segments, section, segment, at>>
      /\ table' \in {"ready", "failed"}
  BY DEF ReadNtfs
<1>2. DOMAIN files \subseteq Indexes /\ phase = "done"
  BY <1>1 DEF FilesInv, ListInv
<1>3. CASE UNCHANGED files
  BY <1>1, <1>2, <1>3
     DEF FilesInv, ListInv, OthersArePlain, Indexes, InOrder, OwnHashes, Holding, vars
<1>4. CASE ~UNCHANGED files
  <2>1. PICK names \in {{}} \cup {{n} : n \in NtfsNames} :
        \E listing \in [names -> [page : NtfsOffsets, length : NtfsLengths, hashes : {<<>>}]] :
          LET new == Taken(listing, files # <<>>)
          IN  /\ \A name \in DOMAIN new : Populates(new[name])
              /\ files' = Extend(files, [name \in DOMAIN new |-> Populated(new[name])])
    BY <1>4 DEF ReadNtfs
  <2>2. PICK listing \in [names -> [page : NtfsOffsets, length : NtfsLengths, hashes : {<<>>}]] :
          LET new == Taken(listing, files # <<>>)
          IN  /\ \A name \in DOMAIN new : Populates(new[name])
              /\ files' = Extend(files, [name \in DOMAIN new |-> Populated(new[name])])
    BY <2>1
  <2> DEFINE new == Taken(listing, files # <<>>)
             g   == [name \in DOMAIN new |-> Populated(new[name])]
  <2>3. /\ DOMAIN new \subseteq names
        /\ \A name \in DOMAIN new :
             /\ new[name] \in File /\ new[name].hashes = <<>>
             /\ files # <<>> /\ InOrder => Holding(new[name].page) = {}
    BY TakenFiles DEF FilesInv
  <2>4. /\ \A name \in DOMAIN new : Populates(new[name])
        /\ files' = Extend(files, g)
    BY <2>2
  <2> HIDE DEF new
  <2>5. \A name \in DOMAIN g : /\ g[name] \in File /\ OwnHashes(g[name])
                              /\ g[name].page = new[name].page
    BY <2>3, <2>4, PopulatedOwn DEF FilesInv
  <2>6. DOMAIN g = DOMAIN new
    OBVIOUS
  <2> HIDE DEF g
  <2>7. /\ DOMAIN files' = DOMAIN files \cup DOMAIN new
        /\ \A name \in DOMAIN files' :
             /\ files'[name] \in File /\ OwnHashes(files'[name])
             /\ files'[name] = IF name \in DOMAIN new THEN g[name] ELSE files[name]
    BY <2>4, <2>5, <2>6, Extended DEF FilesInv, ListInv
  <2>8. ListInv'
    BY <1>1, <1>2, <2>7 DEF FilesInv, ListInv, OwnHashes, Holding, vars
  <2>9. ASSUME InOrder, DOMAIN files' \cap Indexes # {}, NEW name \in DOMAIN files' \ Indexes
        PROVE  Holding(files'[name].page) = {}
    <3>1. name \in DOMAIN new /\ files'[name].page = new[name].page
      BY <1>2, <2>5, <2>6, <2>7, <2>9
    <3>2. files # <<>>
      <4>1. SUFFICES ASSUME files = <<>> PROVE FALSE
        OBVIOUS
      <4>2. DOMAIN files' \subseteq names
        BY <2>3, <2>7, <4>1
      <4>3. PICK other \in DOMAIN files' \cap Indexes : TRUE
        BY <2>9
      <4>4. name = other
        BY <2>1, <2>9, <4>2, <4>3
      <4>5. QED
        BY <2>9, <4>3, <4>4
    <3>3. QED
      BY <2>3, <2>9, <3>1, <3>2
  <2>10. OthersArePlain'
    BY <1>1, <2>9 DEF OthersArePlain, InOrder, Indexes, Holding, vars
  <2>11. QED
    BY <2>8, <2>10
<1>5. QED
  BY <1>3, <1>4

LEMMA EnterTypes ==
  ASSUME IInv, NEW k \in Nat \ {0}, Enter(k), UNCHANGED vars
  PROVE  /\ section' \in Nat \ {0} /\ segment' \in Nat /\ at' \in Nat
         /\ section' <= Len(sections) => at' >= sections[section'].start
<1>1. CASE k > Len(sections)
  BY <1>1 DEF Enter, IInv, Shape
<1>2. CASE ~(k > Len(sections))
  <2>1. sections \in Seq(Section) /\ k \in 1 .. Len(sections)
    BY <1>2 DEF IInv, Shape
  <2>2. sections[k] \in Section
    BY <2>1
  <2>3. sections[k].start \in Nat /\ sections[k].first \in Nat
    BY <2>2 DEF Section
  <2>4. section' = k /\ segment' = sections[k].first /\ at' = sections[k].start
    BY <1>2 DEF Enter
  <2>5. QED
    BY <2>3, <2>4
<1>3. QED
  BY <1>1, <1>2

LEMMA ListingInv ==
  ASSUME FilesInv, Listing \/ ListFails, UNCHANGED vars PROVE ListInv' /\ OthersArePlain'
<1>1. CASE ReadMetadata
  <2>1. /\ phase = "done" /\ files = <<>> /\ UNCHANGED files /\ table' = "segments"
        /\ segments' \in SegmentLists /\ Enter(1)
    BY <1>1 DEF ReadMetadata, FilesInv, ListInv
  <2>2. segments' \in Seq(Nat)
    BY <2>1, SegmentAssumption
  <2>3. /\ section' \in Nat \ {0} /\ segment' \in Nat /\ at' \in Nat
        /\ section' <= Len(sections) => at' >= sections[section'].start
    BY <2>1, EnterTypes DEF FilesInv
  <2>4. DOMAIN files' = {}
    BY <2>1
  <2>5. QED
    BY <2>1, <2>2, <2>3, <2>4 DEF ListInv, OthersArePlain, vars
<1>2. CASE NoMetadata
  <2>1. phase = "done" /\ files = <<>> /\ table' = "ntfs"
        /\ UNCHANGED <<segments, section, segment, at, files>>
    BY <1>2 DEF NoMetadata, FilesInv, ListInv
  <2>2. DOMAIN files' = {}
    BY <2>1
  <2>3. QED
    BY <2>1, <2>2 DEF FilesInv, ListInv, OthersArePlain, vars
<1>3. CASE NextSection
  <2>1. table = "segments" /\ Enter(section + 1) /\ UNCHANGED <<table, segments, files>>
        /\ section + 1 \in Nat \ {0}
    BY <1>3 DEF NextSection, InSection, FilesInv, ListInv
  <2>2. /\ section' \in Nat \ {0} /\ segment' \in Nat /\ at' \in Nat
        /\ section' <= Len(sections) => at' >= sections[section'].start
    BY <2>1, EnterTypes DEF FilesInv
  <2>3. QED
    BY <2>1, <2>2
       DEF FilesInv, ListInv, OthersArePlain, InOrder, Indexes, OwnHashes, Holding, vars
<1>4. CASE PlaceFile
  <2>1. ListInv'
    BY <1>4, PlaceFileInv
  <2>2. table' \in {"segments", "failed"} /\ UNCHANGED segments
        /\ (table' = "failed" => UNCHANGED files)
    BY <1>4 DEF PlaceFile, InSection
  <2>3. CASE table' = "segments"
    <3>1. DOMAIN files' \subseteq Indexes'
      BY <2>1, <2>3 DEF ListInv
    <3>2. OthersArePlain'
      BY <3>1 DEF OthersArePlain
    <3>3. QED
      BY <2>1, <3>2
  <2>4. CASE table' = "failed"
    BY <2>1, <2>2, <2>4 DEF FilesInv, OthersArePlain, InOrder, Indexes, Holding, vars
  <2>5. QED
    BY <2>2, <2>3, <2>4
<1>5. CASE EndMetadata
  BY <1>5 DEF EndMetadata, FilesInv, ListInv, OthersArePlain, InOrder, Indexes, OwnHashes, Holding,
              vars
<1>6. CASE ReadNtfs
  BY <1>6, ReadNtfsInv
<1>7. CASE SkipNtfs
  BY <1>7 DEF SkipNtfs, FilesInv, ListInv, OthersArePlain, InOrder, Indexes, OwnHashes, Holding,
              vars
<1>8. CASE ListFails
  BY <1>8 DEF ListFails, FilesInv, ListInv, OthersArePlain, InOrder, Indexes, OwnHashes, Holding,
              vars
<1>9. QED
  BY <1>1, <1>2, <1>3, <1>4, <1>5, <1>6, <1>7, <1>8 DEF Listing

LEMMA NextFilesInv == FilesInv /\ [ListNext]_allVars => FilesInv'
<1> SUFFICES ASSUME FilesInv, [ListNext]_allVars PROVE FilesInv'
  OBVIOUS
<1>1. CASE Next /\ UNCHANGED fileVars
  <2>1. phase # "done"
    BY <1>1, ParserStands
  <2>2. table = "none" /\ files = <<>> /\ DOMAIN files = {}
    BY <2>1 DEF FilesInv, ListInv
  <2>3. IInv'
    BY <1>1, NextIInv DEF FilesInv
  <2>4. ListInv' /\ OthersArePlain'
    BY <1>1, <2>2 DEF FilesInv, ListInv, OthersArePlain, fileVars
  <2>5. QED
    BY <2>3, <2>4 DEF FilesInv
<1>2. CASE (Listing \/ ListFails) /\ UNCHANGED vars
  <2>1. IInv'
    BY <1>2, NextIInv DEF FilesInv
  <2>2. QED
    BY <1>2, <2>1, ListingInv DEF FilesInv
<1>3. CASE UNCHANGED allVars
  <2>1. UNCHANGED vars /\ UNCHANGED fileVars
    BY <1>3 DEF allVars
  <2>2. IInv'
    BY <2>1, NextIInv DEF FilesInv
  <2>3. ListInv' /\ OthersArePlain'
    BY <2>1 DEF FilesInv, ListInv, OthersArePlain, InOrder, Indexes, OwnHashes, Holding, vars, fileVars
  <2>4. QED
    BY <2>2, <2>3 DEF FilesInv
<1>4. QED
  BY <1>1, <1>2, <1>3 DEF ListNext

LEMMA FilesInvariance == ListSpec => []FilesInv
BY InitFilesInv, NextFilesInv, PTL DEF ListSpec, ListInit

\* parse_segment_metadata and populate_segment_hashes give a file the hashes of
\* all of its own pages or none, wherever it begins in a section and whatever
\* the size of the tree; and only_plain leaves out every encrypted file.
THEOREM FilesCorrect == ListSpec => []FilesHaveOwnHashes
<1>1. FilesInv => FilesHaveOwnHashes
  BY DEF FilesInv, ListInv, OthersArePlain, Indexes, OwnHashes, FilesHaveOwnHashes
<1>2. QED
  BY <1>1, FilesInvariance, PTL
-----------------------------------------------------------------------------
\* A file lies in a section, with the page that is set aside for it if it is
\* empty.
Within(f, s) == s.start <= f.page /\ f.page + Slot(f.length) <= s.start + s.length

\* While the metadata's files are placed, each lies in a section up to the
\* current one, and those of the current one before the next file.
PlacedInv ==
  table = "segments" =>
    \A name \in DOMAIN files :
      \E k \in DOMAIN sections :
        /\ k <= section /\ Within(files[name], sections[k])
        /\ k = section => files[name].page + Slot(files[name].length) <= at

ApartInv == FilesInv /\ PlacedInv /\ FilesApart

LEMMA Slots ==
  ASSUME NEW bytes \in Nat
  PROVE  Slot(bytes) \in Nat \ {0} /\ PageCount(bytes) \in Nat /\ PageCount(bytes) <= Slot(bytes)
BY PageCounts DEF Slot, Max2

\* Files that lie apart, with what is set aside for them.
LEMMA ApartBySlots ==
  ASSUME NEW f \in File, NEW g \in File, Apart(f.page, Slot(f.length), g.page, Slot(g.length))
  PROVE  /\ Apart(f.page, PageCount(f.length), g.page, PageCount(g.length))
         /\ f.page # g.page
<1>1. f.page \in Nat /\ f.length \in Nat /\ g.page \in Nat /\ g.length \in Nat
  BY DEF File
<1>2. /\ Slot(f.length) \in Nat \ {0} /\ PageCount(f.length) \in Nat
      /\ PageCount(f.length) <= Slot(f.length)
      /\ Slot(g.length) \in Nat \ {0} /\ PageCount(g.length) \in Nat
      /\ PageCount(g.length) <= Slot(g.length)
  BY <1>1, Slots
<1>3. QED
  BY <1>1, <1>2 DEF Apart

\* The next file lies in its section and behind the others there.
LEMMA PlacedNext ==
  ASSUME FilesInv, PlaceFile, ~UNCHANGED <<segment, at, files>>
  PROVE  LET f == files'[segment]
         IN  /\ section \in DOMAIN sections /\ sections[section] \in Section
             /\ f.page = at /\ at \in Nat /\ f.length \in Nat
             /\ at' = at + Slot(f.length)
             /\ Within(f, sections[section])
             /\ DOMAIN files' = DOMAIN files \cup {segment}
             /\ \A name \in DOMAIN files' \ {segment} : files'[name] = files[name]
<1> DEFINE s == sections[section]
           length == segments[segment + 1]
           n == at - s.start
           c == PageCount(length)
           f == [page |-> at, length |-> length, hashes |-> SubSeq(s.hashes, n + 1, n + c)]
           g == [name \in {segment} |-> f]
<1>1. /\ table = "segments" /\ section <= Len(sections)
      /\ segment < Len(segments) /\ at < s.start + s.length
  <2>1. table = "segments" /\ section <= Len(sections) /\ ~SectionDone
    BY DEF PlaceFile, InSection
  <2>2. section \in 1 .. Len(sections) /\ sections \in Seq(Section)
    BY <2>1 DEF FilesInv, IInv, Shape, ListInv
  <2>3. s \in Section
    BY <2>2
  <2>4. s.start \in Nat /\ s.length \in Nat /\ at \in Nat /\ segment \in Nat /\ Len(segments) \in Nat
    BY <2>3 DEF Section, FilesInv, ListInv
  <2>5. QED
    BY <2>1, <2>4 DEF SectionDone
<1>2. /\ section \in DOMAIN sections /\ s \in Section /\ at \in Nat /\ length \in Nat
      /\ at >= s.start
  <2>1. section \in 1 .. Len(sections) /\ sections \in Seq(Section)
    BY <1>1 DEF FilesInv, IInv, Shape, ListInv
  <2>2. segment + 1 \in 1 .. Len(segments) /\ segments \in Seq(Nat)
    BY <1>1 DEF FilesInv, ListInv
  <2>3. length \in Nat
    BY <2>2
  <2>4. at \in Nat /\ at >= s.start
    BY <1>1 DEF FilesInv, ListInv
  <2>5. QED
    BY <2>1, <2>3, <2>4
<1>3. s.start \in Nat /\ s.length \in Nat /\ Len(s.hashes) = s.length
  <2>1. section \in 1 .. Len(sections)
    BY <1>2 DEF FilesInv, IInv, Shape
  <2>2. Len(s.hashes) = s.length
    BY <2>1 DEF FilesInv, IInv, HashesAreOfOwnPages
  <2>3. QED
    BY <1>2, <2>2 DEF Section
<1>4. c \in Nat /\ Slot(length) = Max2(c, 1)
  BY <1>2, PageCounts DEF Slot
<1>5. /\ ~(n + c > Len(s.hashes))
      /\ files' = Extend(files, g) /\ at' = at + Slot(length)
  BY DEF PlaceFile
<1>6. n + c <= s.length
  BY <1>2, <1>3, <1>4, <1>5
<1>7. at + Slot(length) <= s.start + s.length
  BY <1>1, <1>2, <1>3, <1>4, <1>6 DEF Max2
<1>8. f.page = at /\ f.length = length
  OBVIOUS
<1> HIDE DEF f
<1>9. /\ DOMAIN files' = DOMAIN files \cup {segment} /\ files'[segment] = f
      /\ \A name \in DOMAIN files' \ {segment} : files'[name] = files[name]
  BY <1>5 DEF Extend
<1>10. QED
  BY <1>2, <1>5, <1>7, <1>8, <1>9 DEF Within

LEMMA PlaceFileApart ==
  ASSUME ApartInv, PlaceFile, UNCHANGED vars
  PROVE  PlacedInv' /\ FilesApart'
<1> USE DEF ApartInv
<1>0. table = "segments" /\ UNCHANGED <<section, sections>>
  BY DEF PlaceFile, InSection, vars
<1>1. CASE UNCHANGED <<segment, at, files>>
  <2>1. table' = "failed"
    <3>1. segment \in Nat
      BY DEF FilesInv, ListInv
    <3>2. QED
      BY <1>1, <3>1 DEF PlaceFile
  <2>2. QED
    BY <2>1 DEF PlacedInv, FilesApart
<1>2. CASE ~UNCHANGED <<segment, at, files>>
  <2> DEFINE f == files'[segment]
             s == sections[section]
  <2>1. /\ section \in DOMAIN sections /\ s \in Section
        /\ f.page = at /\ at \in Nat /\ f.length \in Nat
        /\ at' = at + Slot(f.length)
        /\ Within(f, s)
        /\ DOMAIN files' = DOMAIN files \cup {segment}
        /\ \A name \in DOMAIN files' \ {segment} : files'[name] = files[name]
    BY <1>2, PlacedNext
  <2>2. Slot(f.length) \in Nat \ {0}
    BY <2>1, Slots
  <2>3. /\ \A name \in DOMAIN files' : files'[name] \in File
        /\ \A name \in DOMAIN files : files[name] \in File
    BY PlaceFileInv DEF FilesInv, ListInv
  <2>4. sections \in Seq(Section) /\ section \in Nat
    BY DEF FilesInv, IInv, Shape, ListInv
  <2> HIDE DEF f
  <2>5. ASSUME NEW name \in DOMAIN files
        PROVE  \E k \in DOMAIN sections :
                 /\ k <= section /\ Within(files[name], sections[k])
                 /\ k = section => files[name].page + Slot(files[name].length) <= at
    BY <1>0 DEF PlacedInv
  <2>6. \A name \in DOMAIN files : /\ files[name].page \in Nat
                                  /\ Slot(files[name].length) \in Nat
    BY <2>3, Slots DEF File
  <2>7. PlacedInv'
    <3> SUFFICES ASSUME NEW name \in DOMAIN files'
                 PROVE  \E k \in DOMAIN sections :
                          /\ k <= section /\ Within(files'[name], sections[k])
                          /\ k = section => files'[name].page + Slot(files'[name].length) <= at'
      BY <1>0 DEF PlacedInv, Within
    <3>1. CASE name = segment
      <4>1. files'[name] = f /\ f.page + Slot(f.length) <= at'
        BY <2>1, <2>2, <3>1 DEF f
      <4>2. section <= section
        BY <2>4
      <4>3. QED
        BY <2>1, <4>1, <4>2
    <3>2. CASE name # segment
      <4>1. name \in DOMAIN files /\ files'[name] = files[name]
        BY <2>1, <3>2
      <4>2. PICK k \in DOMAIN sections :
                 /\ k <= section /\ Within(files[name], sections[k])
                 /\ k = section => files[name].page + Slot(files[name].length) <= at
        BY <2>5, <4>1
      <4>3. at <= at'
        BY <2>1, <2>2
      <4>4. k = section => files[name].page + Slot(files[name].length) <= at'
        BY <2>1, <2>2, <2>6, <4>1, <4>2, <4>3
      <4>5. QED
        BY <4>1, <4>2, <4>4
    <3>3. QED
      BY <3>1, <3>2
  <2>8. ASSUME SectionsApart, NEW name \in DOMAIN files' \ {segment}
        PROVE  Apart(files'[name].page, Slot(files'[name].length), f.page, Slot(f.length))
    <3>1. name \in DOMAIN files /\ files'[name] = files[name]
      BY <2>1
    <3>2. PICK k \in DOMAIN sections :
               /\ k <= section /\ Within(files[name], sections[k])
               /\ k = section => files[name].page + Slot(files[name].length) <= at
      BY <2>5, <3>1
    <3>3. CASE k = section
      BY <2>1, <3>1, <3>2, <3>3 DEF Apart
    <3>4. CASE k # section
      <4>1. Apart(sections[k].start, sections[k].length, s.start, s.length)
        BY <2>1, <2>8, <3>4 DEF SectionsApart
      <4>2. sections[k] \in Section
        BY <2>4
      <4>3. /\ sections[k].start \in Nat /\ sections[k].length \in Nat
            /\ s.start \in Nat /\ s.length \in Nat
        BY <2>1, <4>2 DEF Section
      <4>4. files[name].page \in Nat /\ Slot(files[name].length) \in Nat
        BY <2>6, <3>1
      <4> HIDE DEF s
      <4>5. QED
        BY <2>1, <2>2, <3>1, <3>2, <4>1, <4>3, <4>4 DEF Apart, Within
    <3>5. QED
      BY <3>3, <3>4
  <2>9. ASSUME SectionsApart, NEW a \in DOMAIN files', NEW b \in DOMAIN files', a # b
        PROVE  /\ Apart(files'[a].page, PageCount(files'[a].length),
                        files'[b].page, PageCount(files'[b].length))
               /\ files'[a].page # files'[b].page
    <3>1. CASE a = segment
      <4>1. Apart(files'[b].page, Slot(files'[b].length), f.page, Slot(f.length))
        BY <2>8, <2>9, <3>1
      <4>2. Apart(f.page, Slot(f.length), files'[b].page, Slot(files'[b].length))
        BY <4>1 DEF Apart
      <4>3. QED
        BY <2>3, <3>1, <4>2, ApartBySlots DEF f
    <3>2. CASE b = segment
      BY <2>3, <2>8, <2>9, <3>2, ApartBySlots DEF f
    <3>3. CASE a # segment /\ b # segment
      <4>1. /\ a \in DOMAIN files /\ b \in DOMAIN files
            /\ files'[a] = files[a] /\ files'[b] = files[b]
        BY <2>1, <3>3
      <4>2. QED
        BY <1>0, <2>9, <4>1 DEF FilesApart
    <3>4. QED
      BY <3>1, <3>2, <3>3
  <2>10. FilesApart'
    BY <1>0, <2>9 DEF FilesApart, SectionsApart
  <2>11. QED
    BY <2>7, <2>10
<1>3. QED
  BY <1>1, <1>2

\* Nothing is placed by the other steps; the next section has no files yet.
LEMMA ListingApart ==
  ASSUME ApartInv, Listing \/ ListFails, UNCHANGED vars
  PROVE  PlacedInv' /\ FilesApart'
<1> USE DEF ApartInv
<1>1. CASE ReadMetadata
  <2>1. DOMAIN files' = {}
    BY <1>1 DEF ReadMetadata, FilesInv, ListInv
  <2>2. QED
    BY <2>1 DEF PlacedInv, FilesApart
<1>2. CASE NoMetadata
  <2>1. DOMAIN files' = {}
    BY <1>2 DEF NoMetadata, FilesInv, ListInv
  <2>2. QED
    BY <2>1 DEF PlacedInv, FilesApart
<1>3. CASE NextSection
  <2>1. table = "segments" /\ section' = section + 1 /\ UNCHANGED <<table, segments, files>>
        /\ section \in Nat /\ sections \in Seq(Section)
    BY <1>3 DEF NextSection, InSection, Enter, FilesInv, IInv, Shape, ListInv
  <2>2. \A k \in DOMAIN sections : k <= section => k <= section' /\ k # section'
    BY <2>1
  <2>3. sections' = sections
    BY DEF vars
  <2>4. PlacedInv'
    BY <2>1, <2>2, <2>3 DEF PlacedInv, Within
  <2>5. QED
    BY <2>1, <2>3, <2>4 DEF FilesApart, SectionsApart
<1>4. CASE PlaceFile
  BY <1>4, PlaceFileApart
<1>5. CASE EndMetadata
  BY <1>5 DEF EndMetadata, PlacedInv, FilesApart, SectionsApart, vars
<1>6. CASE ReadNtfs
  BY <1>6 DEF ReadNtfs, PlacedInv, FilesApart
<1>7. CASE SkipNtfs \/ ListFails
  BY <1>7 DEF SkipNtfs, ListFails, PlacedInv, FilesApart
<1>8. QED
  BY <1>1, <1>2, <1>3, <1>4, <1>5, <1>6, <1>7 DEF Listing

LEMMA NextApartInv == ApartInv /\ [ListNext]_allVars => ApartInv'
<1> SUFFICES ASSUME ApartInv, [ListNext]_allVars PROVE ApartInv'
  OBVIOUS
<1>0. FilesInv'
  BY NextFilesInv DEF ApartInv
<1>1. CASE Next /\ UNCHANGED fileVars
  <2>1. phase # "done"
    BY <1>1, ParserStands
  <2>2. table = "none" /\ table' = "none"
    BY <1>1, <2>1 DEF ApartInv, FilesInv, ListInv, fileVars
  <2>3. QED
    BY <1>0, <2>2 DEF ApartInv, PlacedInv, FilesApart
<1>2. CASE (Listing \/ ListFails) /\ UNCHANGED vars
  BY <1>0, <1>2, ListingApart DEF ApartInv
<1>3. CASE UNCHANGED allVars
  BY <1>0, <1>3 DEF ApartInv, PlacedInv, FilesApart, SectionsApart, Within, allVars, vars, fileVars
<1>4. QED
  BY <1>1, <1>2, <1>3 DEF ListNext

\* The files that parse_segment_metadata places share no page, whatever sizes
\* the metadata names, as long as the regions of the package do not overlap:
\* each section begins its files anew, and an empty file has a page to itself.
THEOREM PlacesCorrect == ListSpec => []FilesApart
<1>1. Init /\ FileInit => ApartInv
  BY InitFilesInv DEF ApartInv, FileInit, PlacedInv, FilesApart
<1>2. ApartInv => FilesApart
  BY DEF ApartInv
<1>3. QED
  BY <1>1, <1>2, NextApartInv, PTL DEF ListSpec, ListInit
=============================================================================
