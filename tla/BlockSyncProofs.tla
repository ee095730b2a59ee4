-------------------------- MODULE BlockSyncProofs --------------------------
(***************************************************************************)
(* Proofs about Batching, Bisection and BlockSync, for any chains, remotes,*)
(* tree configurations, thresholds, faults and lost requests.  First the   *)
(* operators: equal trees mean equal blocks, the bisection's tag covers    *)
(* every difference, and the batches of a tag are a sequence of sets of    *)
(* its blocks.  Then the sessions that use them.                           *)
(***************************************************************************)
EXTENDS BlockSync, SequenceTheorems, FiniteSetTheorems, WellFoundedInduction, TLAPS

-----------------------------------------------------------------------------
(* Numbers and finite sets.                                                *)

\* A set of natural numbers that is not empty has a least one.
LEMMA LeastExists ==
  ASSUME NEW T \in SUBSET Nat, T # {}
  PROVE  \E x \in T : \A y \in T : x <= y
  <1> DEFINE R == {p \in Nat \X Nat : p[1] < p[2]}
  <1>1. IsWellFoundedOn(R, Nat)
    <2>1. R = OpToRel(<, Nat)
      BY DEF OpToRel
    <2> QED BY <2>1, NatLessThanWellFounded
  <1> HIDE DEF R
  <1>2. PICK x \in T : \A y \in T : ~(<<y, x>> \in R)
    BY <1>1, WFMin
  <1>3. \A y \in T : ~(y < x)
    <2> TAKE y \in T
    <2>1. x \in Nat /\ y \in Nat
      OBVIOUS
    <2>2. y < x => <<y, x>> \in R
      BY <2>1 DEF R
    <2> QED BY <1>2, <2>2
  <1> QED BY <1>3

\* What holds of 0, and of each number up to b when it holds of the one before, holds
\* up to b; the set G is where it holds.
LEMMA UpTo ==
  ASSUME NEW b \in Nat, NEW G, 0 \in G, \A n \in 1..b : n - 1 \in G => n \in G
  PROVE  \A n \in 0..b : n \in G
  <1> DEFINE Bad == {n \in 0..b : n \notin G}
  <1> SUFFICES ASSUME Bad # {} PROVE FALSE
    OBVIOUS
  <1>1. PICK x \in Bad : \A y \in Bad : x <= y
    <2>1. Bad \in SUBSET Nat
      OBVIOUS
    <2> HIDE DEF Bad
    <2> QED BY <2>1, LeastExists
  <1>2. x \in 1..b /\ x - 1 \in 0..b /\ x \notin G
    OBVIOUS
  <1>3. x - 1 \in G
    BY <1>1, <1>2
  <1> QED BY <1>2, <1>3

\* A set of naturals with an upper bound that is not empty has a greatest one.
LEMMA GreatestExists ==
  ASSUME NEW T \in SUBSET Nat, T # {}, NEW b \in Nat, \A x \in T : x <= b
  PROVE  \E x \in T : \A y \in T : x >= y
  <1> DEFINE U == {n \in Nat : \A y \in T : y <= n}
  <1>1. U \in SUBSET Nat /\ U # {}
    OBVIOUS
  <1>2. PICK u \in U : \A v \in U : u <= v
    BY <1>1, LeastExists
  <1>3. u \in Nat /\ \A y \in T : y <= u
    OBVIOUS
  <1>4. u \in T
    <2> SUFFICES ASSUME u \notin T PROVE FALSE
      OBVIOUS
    <2>1. \A y \in T : y < u
      BY <1>3
    <2>2. PICK y \in T : y < u
      BY <2>1
    <2>3. u - 1 \in Nat /\ \A z \in T : z <= u - 1
      BY <1>3, <2>1, <2>2
    <2> QED BY <1>2, <1>3, <2>3
  <1> QED BY <1>3, <1>4

\* A finite set of naturals that is not empty has a maximum.
LEMMA MaxFinite ==
  ASSUME NEW S \in SUBSET Nat, IsFiniteSet(S), S # {}
  PROVE  Max(S) \in S /\ \A x \in S : x <= Max(S)
  <1> DEFINE c == Cardinality(S)
  <1> DEFINE G == {n \in 0..c : \A T \in SUBSET S : Cardinality(T) = n => \E b \in Nat : \A x \in T : x <= b}
  <1>1. c \in Nat
    BY FS_CardinalityType
  <1>2. \A T \in SUBSET S : IsFiniteSet(T) /\ Cardinality(T) \in Nat
    BY FS_Subset, FS_CardinalityType
  <1>3. 0 \in G
    <2>1. \A T \in SUBSET S : Cardinality(T) = 0 => T = {}
      BY <1>2, FS_EmptySet
    <2> QED BY <1>1, <2>1
  <1>4. ASSUME NEW n \in 1..c, n - 1 \in G PROVE n \in G
    <2> SUFFICES ASSUME NEW T \in SUBSET S, Cardinality(T) = n
                 PROVE  \E b \in Nat : \A x \in T : x <= b
      BY <1>1
    <2>0. n # 0 /\ Cardinality({}) = 0
      BY FS_EmptySet
    <2>1. PICK x \in T : TRUE
      BY <2>0
    <2>2. Cardinality(T \ {x}) = n - 1
      BY <1>1, <1>2, FS_RemoveElement
    <2>3. PICK b \in Nat : \A y \in T \ {x} : y <= b
      BY <1>4, <2>2
    <2>4. x \in Nat /\ T \subseteq Nat
      OBVIOUS
    <2>5. CASE x <= b
      BY <2>3, <2>5
    <2>6. CASE x > b
      BY <2>3, <2>4, <2>6
    <2> QED BY <2>4, <2>5, <2>6
  <1>5. \A n \in 0..c : n \in G
    <2>1. \A n \in 1..c : n - 1 \in G => n \in G
      BY <1>4
    <2> HIDE DEF G, c
    <2> QED BY <1>1, <1>3, <2>1, UpTo
  <1>6. PICK b \in Nat : \A x \in S : x <= b
    BY <1>1, <1>5
  <1>7. \E x \in S : \A y \in S : x >= y
    BY <1>6, GreatestExists
  <1>8. Max(S) \in S /\ \A y \in S : Max(S) >= y
    BY <1>7 DEF Max
  <1> QED BY <1>8

\* Products and quotients of natural numbers.
LEMMA Products ==
  ASSUME NEW a \in Nat, NEW b \in Nat
  PROVE  a * b \in Nat /\ (a + 1) * b = a * b + b /\ a * b = b * a
  OBVIOUS

LEMMA DivBounds ==
  ASSUME NEW a \in Nat, NEW m \in Nat \ {0}
  PROVE  /\ a \div m \in Nat /\ (a \div m) * m \in Nat
         /\ (a \div m) * m <= a /\ a < (a \div m) * m + m
  OBVIOUS

LEMMA Monotone ==
  ASSUME NEW a \in Nat, NEW b \in Nat, NEW m \in Nat, a <= b
  PROVE  a * m <= b * m
  OBVIOUS

\* n blocks fill the leaves 0..Ceil(n, m) - 1 of m blocks, and no leaf is empty.
LEMMA CeilBounds ==
  ASSUME NEW n \in Nat \ {0}, NEW m \in Nat \ {0}
  PROVE  /\ Ceil(n, m) \in Nat \ {0}
         /\ \A k \in 0..Ceil(n, m) - 1 : k * m \in Nat /\ k * m <= n - 1
         /\ \A x \in 0..n - 1 : x \div m \in 0..Ceil(n, m) - 1
  <1> DEFINE c == (n + m - 1) \div m
  <1>1. n + m - 1 \in Nat
    OBVIOUS
  <1>2. c \in Nat /\ c * m \in Nat /\ c * m <= n + m - 1 /\ n + m - 1 < c * m + m
    BY <1>1, DivBounds
  <1>3. Ceil(n, m) = c
    BY DEF Ceil
  <1> HIDE DEF c
  <1>4. c # 0
    <2> SUFFICES ASSUME c = 0 PROVE FALSE
      OBVIOUS
    <2>1. c * m = 0
      OBVIOUS
    <2> QED BY <1>2, <2>1
  <1>5. ASSUME NEW k \in 0..c - 1 PROVE k * m \in Nat /\ k * m <= n - 1
    <2>1. k \in Nat /\ k + 1 \in Nat /\ k + 1 <= c
      BY <1>2
    <2>2. (k + 1) * m <= c * m
      BY <1>2, <2>1, Monotone
    <2>3. k * m \in Nat /\ (k + 1) * m = k * m + m
      BY <2>1, Products
    <2>4. PICK a \in Nat, d \in Nat : a = k * m /\ d = c * m
      BY <1>2, <2>3
    <2>5. a + m <= n + m - 1
      BY <1>2, <2>2, <2>3, <2>4
    <2> QED BY <2>4, <2>5
  <1>6. ASSUME NEW x \in 0..n - 1 PROVE x \div m \in 0..c - 1
    <2>1. PICK q \in Nat, a \in Nat, d \in Nat : q = x \div m /\ a = q * m /\ d = c * m /\ a <= x
      BY <1>2, DivBounds
    <2>2. a < d
      BY <1>2, <2>1
    <2>3. q < c
      BY <1>2, <2>1, <2>2, Monotone
    <2> QED BY <1>2, <2>1, <2>3
  <1> QED BY <1>2, <1>3, <1>4, <1>5, <1>6

-----------------------------------------------------------------------------
(* Merkle trees.                                                           *)

\* The ranges a comparison works on: not empty, and up to n.
ItemsTo(n) == {i \in [start : Nat, count : Nat \ {0}] : ItemEnd(i) <= n}
Spanned(item) == item.start..ItemEnd(item)

\* The leaves of a tree over start..end are ranges of it, know the blocks that are in
\* them, and hold every block of the range.
HasLeaves(t, S, start, end, merge) ==
  /\ \A k \in DOMAIN t : /\ k \in Nat /\ t[k].item \in ItemsTo(end)
                         /\ t[k].item.start = start + k * merge /\ t[k].item.count <= merge
                         /\ t[k].blocks = S \cap Spanned(t[k].item)
  /\ \A x \in start..end : \E k \in DOMAIN t : x \in Spanned(t[k].item)

LEMMA TreeLeaves ==
  ASSUME NEW S, NEW start \in Nat, NEW end \in Nat, start <= end, NEW merge \in Nat \ {0}
  PROVE  HasLeaves(MerkleTree(S, start, end, merge), S, start, end, merge)
  <1> DEFINE t == MerkleTree(S, start, end, merge)
  <1> DEFINE n == end - start + 1
  <1>1. n \in Nat \ {0}
    OBVIOUS
  <1>2. /\ Ceil(n, merge) \in Nat \ {0}
        /\ \A k \in 0..Ceil(n, merge) - 1 : k * merge \in Nat /\ k * merge <= n - 1
        /\ \A x \in 0..n - 1 : x \div merge \in 0..Ceil(n, merge) - 1
    BY <1>1, CeilBounds
  <1>3. DOMAIN t = 0..Ceil(n, merge) - 1
    BY DEF MerkleTree
  <1>4. ASSUME NEW k \in DOMAIN t
        PROVE  /\ t[k].item \in ItemsTo(end) /\ t[k].item.start = start + k * merge
               /\ k \in Nat /\ t[k].item.count <= merge
               /\ ItemEnd(t[k].item) = (IF start + k * merge + merge - 1 <= end
                                        THEN start + k * merge + merge - 1 ELSE end)
               /\ t[k].blocks = S \cap Spanned(t[k].item)
    <2>0. PICK a \in Nat : a = k * merge /\ a <= end - start
      BY <1>2, <1>3
    <2>1. PICK first \in Nat : first = start + k * merge /\ first <= end
      BY <2>0
    <2> DEFINE last == Min({first + merge - 1, end})
    <2>2. last = IF first + merge - 1 <= end THEN first + merge - 1 ELSE end
      BY <2>1 DEF Min
    <2>3. t[k] = [item |-> Item(first, last - first + 1), blocks |-> S \cap first..last]
      BY <1>3, <2>1 DEF MerkleTree
    <2> HIDE DEF last
    <2>4. last \in Nat /\ first <= last /\ last <= end
      BY <2>1, <2>2
    <2>5. t[k].item = [start |-> first, count |-> last - first + 1] /\ t[k].blocks = S \cap first..last
      BY <2>3 DEF Item
    <2>6. last - first + 1 \in Nat \ {0} /\ first + (last - first + 1) - 1 = last
      BY <2>4
    <2>7. t[k].item.start = first /\ ItemEnd(t[k].item) = last /\ t[k].item \in [start : Nat, count : Nat \ {0}]
      BY <2>5, <2>6 DEF ItemEnd
    <2>8. t[k].item.count = last - first + 1 /\ last - first + 1 <= merge
      BY <2>1, <2>2, <2>5
    <2>9. k \in Nat
      BY <1>2, <1>3
    <2> QED BY <2>1, <2>2, <2>4, <2>5, <2>7, <2>8, <2>9 DEF ItemsTo, Spanned
  <1>5. ASSUME NEW x \in start..end
        PROVE  LET k == (x - start) \div merge IN k \in DOMAIN t /\ x \in Spanned(t[k].item)
    <2>1. x - start \in 0..n - 1 /\ x - start \in Nat
      OBVIOUS
    <2>2. PICK k \in Nat, a \in Nat : /\ k = (x - start) \div merge /\ a = k * merge
                                      /\ a <= x - start /\ x - start < a + merge
      BY <2>1, DivBounds
    <2>3. k \in DOMAIN t
      BY <1>2, <1>3, <2>1, <2>2
    <2>4. /\ t[k].item.start = start + a
          /\ ItemEnd(t[k].item) = IF start + a + merge - 1 <= end THEN start + a + merge - 1 ELSE end
      BY <1>4, <2>2, <2>3
    <2> QED BY <2>2, <2>3, <2>4 DEF Spanned
  <1> HIDE DEF t
  <1> QED BY <1>3, <1>4, <1>5 DEF t, HasLeaves

\* Equal trees mean equal blocks: the leaves of the two nodes' trees agree only if the
\* nodes have the same blocks up to the ends of the trees.
LEMMA EqualTrees ==
  ASSUME NEW S, NEW T, NEW end \in Nat, NEW height \in Nat, NEW merge \in Nat \ {0},
         MerkleTree(S, 0, end, merge) = MerkleTree(T, 0, height, merge)
  PROVE  S \cap 0..end \subseteq T /\ T \cap 0..height \subseteq S
  <1> DEFINE s == MerkleTree(S, 0, end, merge)
             t == MerkleTree(T, 0, height, merge)
  <1>1. 0 \in Nat /\ 0 <= end /\ 0 <= height
    OBVIOUS
  <1>2. HasLeaves(s, S, 0, end, merge) /\ HasLeaves(t, T, 0, height, merge) /\ s = t
    BY <1>1, TreeLeaves
  <1> HIDE DEF s, t
  <1> QED BY <1>2 DEF HasLeaves

\* TreeDiff finds every block that only one of the nodes has, in ranges up to the longer
\* tree's end.
LEMMA TreeDiffCovers ==
  ASSUME NEW S, NEW T, NEW start \in Nat, NEW end \in Nat, NEW height \in Nat,
         start <= end, start <= height, NEW merge \in Nat \ {0}, NEW n \in Nat, end <= n, height <= n
  PROVE  LET diff == TreeDiff(MerkleTree(S, start, end, merge), MerkleTree(T, start, height, merge)) IN
         /\ diff \subseteq ItemsTo(n)
         /\ \A x \in (S \cap start..end) \ T : \E i \in diff : x \in Spanned(i)
         /\ \A x \in (T \cap start..height) \ S : \E i \in diff : x \in Spanned(i)
  <1> DEFINE s == MerkleTree(S, start, end, merge)
             t == MerkleTree(T, start, height, merge)
             longer(k) == IF s[k].item.count >= t[k].item.count THEN s[k].item ELSE t[k].item
  <1>0. HasLeaves(s, S, start, end, merge) /\ HasLeaves(t, T, start, height, merge)
    BY TreeLeaves
  <1>4. TreeDiff(s, t) = {longer(k) : k \in {j \in DOMAIN s \cap DOMAIN t : s[j] # t[j]}}
                           \cup {s[k].item : k \in DOMAIN s \ DOMAIN t} \cup {t[k].item : k \in DOMAIN t \ DOMAIN s}
    BY DEF TreeDiff
  <1> HIDE DEF s, t
  <1>1. \A k \in DOMAIN s : /\ s[k].item \in ItemsTo(end) /\ s[k].item.start = start + k * merge
                            /\ s[k].blocks = S \cap Spanned(s[k].item)
    BY <1>0 DEF HasLeaves
  <1>2. \A k \in DOMAIN t : /\ t[k].item \in ItemsTo(height) /\ t[k].item.start = start + k * merge
                            /\ t[k].blocks = T \cap Spanned(t[k].item)
    BY <1>0 DEF HasLeaves
  <1>3. /\ \A x \in start..end : \E k \in DOMAIN s : x \in Spanned(s[k].item)
        /\ \A x \in start..height : \E k \in DOMAIN t : x \in Spanned(t[k].item)
    BY <1>0 DEF HasLeaves
  <1>5. \A k \in DOMAIN s \cap DOMAIN t : /\ Spanned(s[k].item) \subseteq Spanned(longer(k))
                                          /\ Spanned(t[k].item) \subseteq Spanned(longer(k))
                                          /\ longer(k) \in {s[k].item, t[k].item}
    <2> TAKE k \in DOMAIN s \cap DOMAIN t
    <2>1. PICK f : f = s[k].item.start /\ f = t[k].item.start
      BY <1>1, <1>2
    <2>2. f \in Nat /\ s[k].item.count \in Nat /\ t[k].item.count \in Nat
      BY <1>1, <1>2, <2>1 DEF ItemsTo
    <2>3. PICK a \in Nat, b \in Nat : a = s[k].item.count /\ b = t[k].item.count
      BY <2>2
    <2>4. Spanned(s[k].item) = f..f + a - 1 /\ Spanned(t[k].item) = f..f + b - 1
      BY <2>1, <2>3 DEF Spanned, ItemEnd
    <2>5. CASE a >= b
      <3>1. longer(k) = s[k].item
        BY <2>3, <2>5
      <3>2. f..f + b - 1 \subseteq f..f + a - 1
        BY <2>2, <2>3, <2>5
      <3> QED BY <2>4, <3>1, <3>2
    <2>6. CASE ~(a >= b)
      <3>1. longer(k) = t[k].item
        BY <2>3, <2>6
      <3>2. f..f + a - 1 \subseteq f..f + b - 1
        BY <2>2, <2>3, <2>6
      <3> QED BY <2>4, <3>1, <3>2
    <2> QED BY <2>5, <2>6
  <1> HIDE DEF longer
  <1>6. ItemsTo(end) \subseteq ItemsTo(n) /\ ItemsTo(height) \subseteq ItemsTo(n)
    BY DEF ItemsTo, ItemEnd
  <1>7. TreeDiff(s, t) \subseteq ItemsTo(n)
    BY <1>1, <1>2, <1>4, <1>5, <1>6
  <1>8. ASSUME NEW x \in (S \cap start..end) \ T PROVE \E i \in TreeDiff(s, t) : x \in Spanned(i)
    <2>1. PICK k \in DOMAIN s : x \in Spanned(s[k].item)
      BY <1>3
    <2>2. CASE k \notin DOMAIN t
      BY <1>4, <2>1, <2>2
    <2>3. CASE k \in DOMAIN t
      <3>1. s[k] # t[k]
        BY <1>1, <1>2, <2>1, <2>3
      <3> QED BY <1>4, <1>5, <2>1, <2>3, <3>1
    <2> QED BY <2>2, <2>3
  <1>9. ASSUME NEW x \in (T \cap start..height) \ S PROVE \E i \in TreeDiff(s, t) : x \in Spanned(i)
    <2>1. PICK k \in DOMAIN t : x \in Spanned(t[k].item)
      BY <1>3
    <2>2. CASE k \notin DOMAIN s
      BY <1>4, <2>1, <2>2
    <2>3. CASE k \in DOMAIN s
      <3>1. s[k] # t[k]
        BY <1>1, <1>2, <2>1, <2>3
      <3> QED BY <1>4, <1>5, <2>1, <2>3, <3>1
    <2> QED BY <2>2, <2>3
  <1> QED BY <1>7, <1>8, <1>9 DEF s, t

\* No two of its ranges overlap: each is of a leaf of its own.
Apart(I) == \A a, b \in I : a # b => Spanned(a) \cap Spanned(b) = {}

LEMMA TreeDiffApart ==
  ASSUME NEW S, NEW T, NEW start \in Nat, NEW end \in Nat, NEW height \in Nat,
         start <= end, start <= height, NEW merge \in Nat \ {0}
  PROVE  LET diff == TreeDiff(MerkleTree(S, start, end, merge), MerkleTree(T, start, height, merge)) IN
         Apart(diff) /\ \A i \in diff : i.start >= start
  <1> DEFINE s == MerkleTree(S, start, end, merge)
             t == MerkleTree(T, start, height, merge)
             K == DOMAIN s \cup DOMAIN t
             longer(k) == IF s[k].item.count >= t[k].item.count THEN s[k].item ELSE t[k].item
             leaf(k) == IF k \in DOMAIN s \cap DOMAIN t THEN longer(k)
                        ELSE IF k \in DOMAIN s THEN s[k].item ELSE t[k].item
  <1>1. HasLeaves(s, S, start, end, merge) /\ HasLeaves(t, T, start, height, merge)
    BY TreeLeaves
  <1>2. TreeDiff(s, t) = {longer(k) : k \in {j \in DOMAIN s \cap DOMAIN t : s[j] # t[j]}}
                           \cup {s[k].item : k \in DOMAIN s \ DOMAIN t} \cup {t[k].item : k \in DOMAIN t \ DOMAIN s}
    BY DEF TreeDiff
  <1> HIDE DEF s, t
  <1>3. \A i \in TreeDiff(s, t) : \E k \in K : i = leaf(k)
    BY <1>2
  <1>4. \A k \in K : (leaf(k) = s[k].item /\ k \in DOMAIN s) \/ (leaf(k) = t[k].item /\ k \in DOMAIN t)
    <2>1. \A k : longer(k) = s[k].item \/ longer(k) = t[k].item
      OBVIOUS
    <2> HIDE DEF longer
    <2> QED BY <2>1
  <1>5. /\ \A k \in DOMAIN s : k \in Nat /\ s[k].item.start = start + k * merge /\ s[k].item.count <= merge
                               /\ s[k].item.count \in Nat
        /\ \A k \in DOMAIN t : k \in Nat /\ t[k].item.start = start + k * merge /\ t[k].item.count <= merge
                               /\ t[k].item.count \in Nat
    BY <1>1 DEF HasLeaves, ItemsTo
  <1>6. \A k \in K : k \in Nat /\ leaf(k).start = start + k * merge /\ leaf(k).count <= merge /\ leaf(k).count \in Nat
    <2> HIDE DEF leaf
    <2> QED BY <1>4, <1>5
  <1> HIDE DEF K, leaf
  <1>7. ASSUME NEW k \in K, NEW j \in K, k < j PROVE Spanned(leaf(k)) \cap Spanned(leaf(j)) = {}
    <2>1. PICK a \in Nat, b \in Nat, d \in Nat : a = k * merge /\ b = j * merge /\ d = (k + 1) * merge
      BY <1>6, Products
    <2>2. d = a + merge
      BY <1>6, <2>1, Products
    <2>3. d <= b
      BY <1>6, <1>7, <2>1, Monotone
    <2>4. /\ leaf(k).start = start + a /\ leaf(k).count <= merge /\ leaf(k).count \in Nat
          /\ leaf(j).start = start + b /\ leaf(j).count \in Nat
      BY <1>6, <2>1
    <2>5. \A x \in Spanned(leaf(k)) : x < start + a + merge
      BY <2>4 DEF Spanned, ItemEnd
    <2>6. \A x \in Spanned(leaf(j)) : x >= start + b
      BY <2>4 DEF Spanned, ItemEnd
    <2>7. \A x \in Spanned(leaf(j)) : x \in Int
      BY <2>4 DEF Spanned, ItemEnd
    <2> QED BY <2>2, <2>3, <2>5, <2>6, <2>7
  <1>8. \A k, j \in K : k < j \/ j < k \/ k = j
    BY <1>6
  <1>9. Apart(TreeDiff(s, t))
    BY <1>3, <1>7, <1>8 DEF Apart
  <1>10. \A k \in K : leaf(k).start >= start
    <2> TAKE k \in K
    <2>1. PICK a \in Nat : a = k * merge
      BY <1>6, Products
    <2> QED BY <1>6, <2>1
  <1> QED BY <1>3, <1>9, <1>10 DEF s, t

-----------------------------------------------------------------------------
(* The layers of the bisection.                                            *)

\* A function defined by recursion on 0..n exists: each value follows from the one before.
IsStep(step, n, S) == step \in [1..n -> [S -> S]]
IsRun(f, step, n, S, init) ==
  f \in [0..n -> S] /\ f[0] = init /\ \A k \in 1..n : f[k] = step[k][f[k - 1]]

LEMMA Iterates ==
  ASSUME NEW n \in Nat, NEW S, NEW init \in S, NEW step, IsStep(step, n, S)
  PROVE  \E f : IsRun(f, step, n, S, init)
  <1>0. step \in [1..n -> [S -> S]]
    BY DEF IsStep
  <1> DEFINE Good(f, m) == f[0] = init /\ \A k \in 1..m : f[k] = step[k][f[k - 1]]
             G == {m \in 0..n : \E f \in [0..m -> S] : Good(f, m)}
  <1>1. 0 \in G
    <2> DEFINE f == [k \in 0..0 |-> init]
    <2>1. f \in [0..0 -> S] /\ Good(f, 0)
      OBVIOUS
    <2>2. 0 \in 0..n
      OBVIOUS
    <2> HIDE DEF f
    <2> QED BY <2>1, <2>2
  <1>2. ASSUME NEW m \in 1..n, m - 1 \in G PROVE m \in G
    <2>1. PICK f \in [0..m - 1 -> S] : Good(f, m - 1)
      BY <1>2
    <2>2. f[m - 1] \in S /\ step[m] \in [S -> S]
      BY <1>0
    <2>3. PICK v \in S : v = step[m][f[m - 1]]
      BY <2>2
    <2> DEFINE h == [k \in 0..m |-> IF k < m THEN f[k] ELSE v]
    <2>4. h \in [0..m -> S]
      OBVIOUS
    <2>5. Good(h, m)
      <3>1. h[0] = init
        BY <2>1
      <3>2. ASSUME NEW k \in 1..m PROVE h[k] = step[k][h[k - 1]]
        <4>1. h[k - 1] = f[k - 1]
          OBVIOUS
        <4>2. CASE k < m
          BY <2>1, <4>1, <4>2
        <4>3. CASE k = m
          <5>1. h[m] = v
            OBVIOUS
          <5> HIDE DEF h
          <5> QED BY <2>3, <4>1, <4>3, <5>1
        <4> QED BY <4>2, <4>3
      <3> QED BY <3>1, <3>2
    <2> HIDE DEF h, Good
    <2>6. m \in 0..n
      OBVIOUS
    <2> QED BY <2>4, <2>5, <2>6
  <1>3. n \in G
    <2>1. \A m \in 1..n : m - 1 \in G => m \in G
      BY <1>2
    <2> HIDE DEF G
    <2>2. \A m \in 0..n : m \in G
      BY <1>1, <2>1, UpTo
    <2> QED BY <2>2
  <1> QED BY <1>3 DEF IsRun

LEMMA SubMerge ==
  ASSUME NEW n \in Nat \ {0}
  PROVE  SubBlockMerge(n) \in Nat \ {0}
  <1>1. PICK c \in Nat : c = Ceil(n, SubDivisor)
    BY BisectionAssumption, CeilBounds
  <1>2. Max({c, 1}) = IF c >= 1 THEN c ELSE 1
    BY DEF Max
  <1> QED BY <1>1, <1>2 DEF SubBlockMerge

\* The comparison of the two sub-trees of an item finds the differences in its range.
LEMMA SubDiffCovers ==
  ASSUME NEW S, NEW T, NEW n \in Nat, NEW item \in ItemsTo(n)
  PROVE  /\ SubDiff(S, T, item) \subseteq ItemsTo(n)
         /\ \A x \in SymDiff(S, T) \cap Spanned(item) : \E i \in SubDiff(S, T, item) : x \in Spanned(i)
         /\ Apart(SubDiff(S, T, item)) /\ \A i \in SubDiff(S, T, item) : Spanned(i) \subseteq Spanned(item)
  <1>1. PICK a \in Nat, c \in Nat \ {0}, e \in Nat :
          a = item.start /\ c = item.count /\ e = ItemEnd(item) /\ a <= e /\ e <= n
    BY DEF ItemsTo, ItemEnd
  <1>2. PICK m \in Nat \ {0} : m = SubBlockMerge(c)
    BY SubMerge
  <1>3. SubDiff(S, T, item) = TreeDiff(MerkleTree(S, a, e, m), MerkleTree(T, a, e, m))
    BY <1>1, <1>2 DEF SubDiff, SubTree
  <1> DEFINE diff == TreeDiff(MerkleTree(S, a, e, m), MerkleTree(T, a, e, m))
  <1>4. /\ diff \subseteq ItemsTo(n)
        /\ \A x \in (S \cap a..e) \ T : \E i \in diff : x \in Spanned(i)
        /\ \A x \in (T \cap a..e) \ S : \E i \in diff : x \in Spanned(i)
    BY <1>1, TreeDiffCovers
  <1>6. Apart(diff) /\ \A i \in diff : i.start >= a
    BY <1>1, TreeDiffApart
  <1>7. diff \subseteq ItemsTo(e)
    <2>1. e <= e
      OBVIOUS
    <2> QED BY <1>1, <2>1, TreeDiffCovers
  <1> HIDE DEF diff
  <1>5. Spanned(item) = a..e
    BY <1>1 DEF Spanned
  <1>8. ASSUME NEW i \in diff PROVE Spanned(i) \subseteq Spanned(item)
    <2>1. i.start \in Nat /\ i.start >= a /\ ItemEnd(i) \in Int /\ ItemEnd(i) <= e
      BY <1>6, <1>7 DEF ItemsTo, ItemEnd
    <2> QED BY <1>1, <1>5, <2>1 DEF Spanned
  <1> QED BY <1>3, <1>4, <1>5, <1>6, <1>8 DEF diff, SymDiff

\* A bisection state that holds the blocks X, in ranges up to n that do not overlap.
Covering(state, X, n) ==
  /\ Apart(state.tagged \cup state.items) /\ state.tagged \cap state.items = {}
  /\ state.tagged \subseteq ItemsTo(n) /\ state.items \subseteq ItemsTo(n)
  /\ \A x \in X : \E i \in state.tagged \cup state.items : x \in Spanned(i)

\* A layer loses no difference, whichever requests fail.
LEMMA LayerCovers ==
  ASSUME NEW S, NEW T, NEW X \in SUBSET SymDiff(S, T), NEW n \in Nat, NEW height, NEW lost,
         NEW state, Covering(state, X, n)
  PROVE  Covering(Layer(S, T, height, lost, state), X, n)
  <1> DEFINE whole  == {i \in state.items : i.count <= LeafThreshold \/ i.start > height}
             asked  == state.items \ whole
             failed == {i \in asked : i.start \in lost}
             after  == Layer(S, T, height, lost, state)
  <1>1. /\ after.tagged = state.tagged \cup whole \cup failed
        /\ after.items = UNION {SubDiff(S, T, i) : i \in asked \ failed}
    BY DEF Layer
  <1>2. state.items = whole \cup failed \cup (asked \ failed)
    OBVIOUS
  <1> HIDE DEF whole, asked, failed, after
  <1>3. state.items \subseteq ItemsTo(n) /\ state.tagged \subseteq ItemsTo(n)
    BY DEF Covering
  <1>4. after.tagged \subseteq ItemsTo(n)
    BY <1>1, <1>2, <1>3
  <1>5. \A i \in asked \ failed : SubDiff(S, T, i) \subseteq ItemsTo(n)
    BY <1>2, <1>3, SubDiffCovers
  <1>6. after.items \subseteq ItemsTo(n)
    BY <1>1, <1>5
  <1>7. ASSUME NEW x \in X PROVE \E i \in after.tagged \cup after.items : x \in Spanned(i)
    <2>1. PICK i \in state.tagged \cup state.items : x \in Spanned(i)
      BY DEF Covering
    <2>2. CASE i \in asked \ failed
      <3>1. PICK j \in SubDiff(S, T, i) : x \in Spanned(j)
        BY <1>2, <1>3, <2>1, <2>2, SubDiffCovers
      <3>2. j \in after.items
        BY <1>1, <2>2, <3>1
      <3> QED BY <3>1, <3>2
    <2> QED BY <1>1, <1>2, <2>1, <2>2
  <1>8. \A i \in asked \ failed : /\ Apart(SubDiff(S, T, i))
                                 /\ \A j \in SubDiff(S, T, i) : Spanned(j) \subseteq Spanned(i)
    BY <1>2, <1>3, SubDiffCovers
  <1>9. /\ Apart(state.tagged \cup state.items) /\ state.tagged \cap state.items = {}
        /\ (asked \ failed) \cap (whole \cup failed) = {}
    BY DEF Covering, whole, asked, failed
  <1>a. ASSUME NEW a \in after.tagged, NEW b \in after.items PROVE Spanned(a) \cap Spanned(b) = {}
    <2>1. PICK i \in asked \ failed : b \in SubDiff(S, T, i)
      BY <1>1
    <2>2. a # i /\ a \in state.tagged \cup state.items /\ i \in state.tagged \cup state.items
      BY <1>1, <1>2, <1>9
    <2>3. Spanned(a) \cap Spanned(i) = {}
      BY <1>9, <2>2 DEF Apart
    <2> QED BY <1>8, <2>1, <2>3
  <1>b. ASSUME NEW a \in after.items, NEW b \in after.items, a # b PROVE Spanned(a) \cap Spanned(b) = {}
    <2>1. PICK i \in asked \ failed : a \in SubDiff(S, T, i)
      BY <1>1
    <2>2. PICK j \in asked \ failed : b \in SubDiff(S, T, j)
      BY <1>1
    <2>3. CASE i = j
      BY <1>8, <1>b, <2>1, <2>2, <2>3 DEF Apart
    <2>4. CASE i # j
      <3>1. Spanned(i) \cap Spanned(j) = {}
        BY <1>2, <1>9, <2>4 DEF Apart
      <3> QED BY <1>8, <2>1, <2>2, <3>1
    <2> QED BY <2>3, <2>4
  <1>c. Apart(after.tagged)
    BY <1>1, <1>2, <1>9 DEF Apart
  <1>d. Apart(after.tagged \cup after.items)
    BY <1>a, <1>b, <1>c DEF Apart
  <1>e. after.tagged \cap after.items = {}
    <2>1. \A i \in ItemsTo(n) : i.start \in Spanned(i)
      BY DEF ItemsTo, Spanned, ItemEnd
    <2> QED BY <1>4, <1>6, <1>a, <2>1
  <1> QED BY <1>4, <1>6, <1>7, <1>d, <1>e DEF Covering, after

LEMMA LayersCover ==
  ASSUME NEW S, NEW T, NEW X \in SUBSET SymDiff(S, T), NEW n \in Nat, NEW height, NEW lost, NEW diffs,
         Covering([tagged |-> {}, items |-> diffs], X, n)
  PROVE  Covering(Layers(S, T, height, lost, diffs)[LayerThreshold], X, n)
  <1> DEFINE States == {s \in [tagged : SUBSET ItemsTo(n), items : SUBSET ItemsTo(n)] : Covering(s, X, n)}
             first == [tagged |-> {}, items |-> diffs]
             layer(s) == Layer(S, T, height, lost, s)
             Rec(f) == [l \in 0..LayerThreshold |-> IF l = 0 THEN first ELSE layer(f[l - 1])]
  <1>0. LayerThreshold \in Nat
    BY BisectionAssumption
  <1>1. first \in States
    <2>1. diffs \subseteq ItemsTo(n)
      BY DEF Covering
    <2> QED BY <2>1
  <1>2. \A s \in States : layer(s) \in States
    <2> TAKE s \in States
    <2>1. Covering(layer(s), X, n)
      BY LayerCovers
    <2>2. layer(s).tagged \subseteq ItemsTo(n) /\ layer(s).items \subseteq ItemsTo(n)
      BY <2>1 DEF Covering
    <2>3. layer(s) = [tagged |-> layer(s).tagged, items |-> layer(s).items]
      BY DEF Layer
    <2> HIDE DEF layer
    <2> QED BY <2>1, <2>2, <2>3
  <1>3. Layers(S, T, height, lost, diffs) = CHOOSE g : g = Rec(g)
    BY DEF Layers
  <1> DEFINE step == [k \in 1..LayerThreshold |-> [s \in States |-> layer(s)]]
  <1> HIDE DEF States, first, layer
  <1>4. step \in [1..LayerThreshold -> [States -> States]]
    BY <1>2
  <1>5. PICK f \in [0..LayerThreshold -> States] :
          f[0] = first /\ \A k \in 1..LayerThreshold : f[k] = step[k][f[k - 1]]
    <2> HIDE DEF step
    <2>1. IsStep(step, LayerThreshold, States)
      BY <1>4 DEF IsStep
    <2>2. \E f : IsRun(f, step, LayerThreshold, States, first)
      BY <1>0, <1>1, <2>1, Iterates
    <2> QED BY <2>2 DEF IsRun
  <1>6. \A k \in 1..LayerThreshold : f[k] = layer(f[k - 1])
    <2> TAKE k \in 1..LayerThreshold
    <2>1. k - 1 \in 0..LayerThreshold /\ f[k - 1] \in States
      BY <1>0
    <2>2. step[k][f[k - 1]] = layer(f[k - 1])
      BY <2>1
    <2> HIDE DEF step
    <2> QED BY <1>5, <2>2
  <1>7. f = Rec(f)
    BY <1>0, <1>5, <1>6
  <1>8. PICK g : g = Layers(S, T, height, lost, diffs) /\ g = Rec(g)
    <2> HIDE DEF Rec
    <2> QED BY <1>3, <1>7
  <1>9. g[0] = first /\ \A k \in 1..LayerThreshold : g[k] = layer(g[k - 1])
    <2>1. \A h : h = Rec(h) => h[0] = first /\ \A k \in 1..LayerThreshold : h[k] = layer(h[k - 1])
      BY <1>0
    <2> HIDE DEF Rec
    <2> QED BY <1>8, <2>1
  <1> DEFINE G == {k \in 0..LayerThreshold : g[k] \in States}
  <1>10. 0 \in G /\ \A k \in 1..LayerThreshold : k - 1 \in G => k \in G
    BY <1>0, <1>1, <1>2, <1>9
  <1>11. LayerThreshold \in G
    <2> HIDE DEF G
    <2>1. \A k \in 0..LayerThreshold : k \in G
      BY <1>0, <1>10, UpTo
    <2> QED BY <1>0, <2>1
  <1> QED BY <1>8, <1>11 DEF States

LEMMA SeqWiden ==
  ASSUME NEW A, NEW B, A \subseteq B, NEW s \in Seq(A)
  PROVE  s \in Seq(B)
  <1>1. PICK n \in Nat : s \in [1..n -> A]
    OBVIOUS
  <1>2. s \in [1..n -> B]
    BY <1>1
  <1> QED BY <1>2

\* SetToSeq lists a finite set.
LEMMA SetToSeqLists ==
  ASSUME NEW S, IsFiniteSet(S)
  PROVE  /\ SetToSeq(S) \in Seq(S) /\ ToSet(SetToSeq(S)) = S
         /\ \A i, j \in DOMAIN SetToSeq(S) : i # j => SetToSeq(S)[i] # SetToSeq(S)[j]
  <1> DEFINE n == Cardinality(S)
             s == SetToSeq(S)
  <1>1. n \in Nat /\ ExistsBijection(1..n, S)
    BY FS_CardinalityType
  <1>2. s \in [1..n -> S] /\ IsInjective(s)
    <2>1. \E f \in [1..n -> S] : IsInjective(f)
      BY <1>1 DEF ExistsBijection, Bijection, Injection
    <2>2. s = CHOOSE f \in [1..n -> S] : IsInjective(f)
      BY DEF SetToSeq
    <2> HIDE DEF s, n
    <2> QED BY <2>1, <2>2
  <1> HIDE DEF s
  <1>3. s \in Injection(1..n, S)
    BY <1>2 DEF Injection
  <1>4. Cardinality(1..n) = n
    <2>1. 1 \in Int /\ n \in Int
      BY <1>1
    <2>2. Cardinality(1..n) = IF 1 > n THEN 0 ELSE n - 1 + 1
      BY <2>1, FS_Interval
    <2> HIDE DEF n
    <2> QED BY <1>1, <2>2
  <1>5. s \in Surjection(1..n, S)
    BY <1>3, <1>4, FS_Injection
  <1> HIDE DEF n
  <1>6. s \in Seq(S)
    BY <1>1, <1>2
  <1>7. ToSet(s) = S
    BY <1>2, <1>5 DEF ToSet, Surjection
  <1>8. \A i, j \in DOMAIN s : i # j => s[i] # s[j]
    BY <1>2 DEF IsInjective
  <1> QED BY <1>6, <1>7, <1>8 DEF s

\* The bounded ranges of a set of items are finitely many.
LEMMA RangesFinite ==
  ASSUME NEW n \in Nat, NEW I \in SUBSET ItemsTo(n)
  PROVE  LET ranges == {RangeTag(i.start, ItemEnd(i)) : i \in I} IN
         IsFiniteSet(ranges) /\ ranges \subseteq Ranges
  <1> DEFINE ranges == {RangeTag(i.start, ItemEnd(i)) : i \in I}
             all == {RangeTag(p[1], p[2]) : p \in (0..n) \X (0..n)}
             f == [p \in (0..n) \X (0..n) |-> RangeTag(p[1], p[2])]
  <1>1. IsFiniteSet((0..n) \X (0..n))
    <2>1. 0 \in Int /\ n \in Int
      OBVIOUS
    <2> QED BY <2>1, FS_Interval, FS_Product
  <1>2. f \in Surjection((0..n) \X (0..n), all)
    BY DEF Surjection
  <1>3. IsFiniteSet(all)
    <2> HIDE DEF f, all
    <2> QED BY <1>1, <1>2, FS_Surjection
  <1>4. \A i \in I : i.start \in 0..n /\ ItemEnd(i) \in 0..n /\ i.start <= ItemEnd(i)
    BY DEF ItemsTo, ItemEnd
  <1>5. ranges \subseteq all
    <2> SUFFICES ASSUME NEW i \in I PROVE RangeTag(i.start, ItemEnd(i)) \in all
      OBVIOUS
    <2>1. <<i.start, ItemEnd(i)>> \in (0..n) \X (0..n)
      BY <1>4
    <2>2. RangeTag(<<i.start, ItemEnd(i)>>[1], <<i.start, ItemEnd(i)>>[2]) = RangeTag(i.start, ItemEnd(i))
      OBVIOUS
    <2> QED BY <2>1, <2>2
  <1>6. IsFiniteSet(ranges)
    <2> HIDE DEF ranges, all
    <2> QED BY <1>3, <1>5, FS_Subset
  <1>7. ranges \subseteq Ranges
    BY <1>4 DEF RangeTag, Ranges
  <1> QED BY <1>6, <1>7

\* dataBisect: its tag holds every block that only one of the two nodes has up to the end
\* of its tree, whatever the configuration and whichever sub-tree requests fail, and names
\* no block twice.
Differing(local, target, end, height) ==
  ((local \cap 0..end) \ target) \cup ((target \cap 0..height) \ local)

THEOREM BisectionCovers ==
  ASSUME NEW local, NEW target, NEW end \in Nat, NEW height \in Nat, NEW merge \in Nat \ {0}, NEW lost
  PROVE  LET tag == DataBisect(local, target, 0, end, height, merge, lost) IN
         tag \in TagType /\ Separate(tag) /\ Differing(local, target, end, height) \subseteq TagBlocks(tag)
  <1> DEFINE diffs == TreeDiff(MerkleTree(local, 0, end, merge), MerkleTree(target, 0, height, merge))
             first == [tagged |-> {}, items |-> diffs]
             final == Layers(local, target, height, lost, diffs)[LayerThreshold]
             I == final.tagged \cup final.items
             ranges == {RangeTag(i.start, ItemEnd(i)) : i \in I}
             tag == DataBisect(local, target, 0, end, height, merge, lost)
             X == Differing(local, target, end, height)
  <1>0. X \in SUBSET SymDiff(local, target)
    BY DEF Differing, SymDiff
  <1>1. PICK n \in Nat : end <= n /\ height <= n
    <2>1. end + height \in Nat /\ end <= end + height /\ height <= end + height
      OBVIOUS
    <2> QED BY <2>1
  <1>2. Covering(first, X, n)
    <2>1. 0 \in Nat /\ 0 <= end /\ 0 <= height
      OBVIOUS
    <2>2. /\ diffs \subseteq ItemsTo(n)
          /\ \A x \in (local \cap 0..end) \ target : \E i \in diffs : x \in Spanned(i)
          /\ \A x \in (target \cap 0..height) \ local : \E i \in diffs : x \in Spanned(i)
      BY <1>1, <2>1, TreeDiffCovers
    <2>3. Apart(diffs)
      BY <2>1, TreeDiffApart
    <2> HIDE DEF diffs
    <2> QED BY <2>2, <2>3 DEF Covering, Differing
  <1>3. Covering(final, X, n)
    <2> HIDE DEF diffs, X
    <2> QED BY <1>0, <1>2, LayersCover
  <1>4. tag = Tag(SetToSeq(ranges), <<>>)
    BY DEF DataBisect
  <1> HIDE DEF diffs, final, tag, X
  <1>5. I \subseteq ItemsTo(n) /\ Apart(I) /\ \A x \in X : \E i \in I : x \in Spanned(i)
    BY <1>3 DEF Covering
  <1> HIDE DEF I
  <1>6. IsFiniteSet(ranges) /\ ranges \subseteq Ranges
    BY <1>5, RangesFinite
  <1>7. /\ SetToSeq(ranges) \in Seq(Ranges) /\ ToSet(SetToSeq(ranges)) = ranges
        /\ \A i, j \in DOMAIN SetToSeq(ranges) : i # j => SetToSeq(ranges)[i] # SetToSeq(ranges)[j]
    <2>1. /\ SetToSeq(ranges) \in Seq(ranges) /\ ToSet(SetToSeq(ranges)) = ranges
          /\ \A i, j \in DOMAIN SetToSeq(ranges) : i # j => SetToSeq(ranges)[i] # SetToSeq(ranges)[j]
      <3> HIDE DEF ranges
      <3> QED BY <1>6, SetToSeqLists
    <2> HIDE DEF ranges
    <2> QED BY <1>6, <2>1, SeqWiden
  <1>8. tag \in TagType
    <2> HIDE DEF ranges
    <2> QED BY <1>4, <1>7 DEF Tag, TagType
  <1>9. TagBlocks(tag) = UNION {r.start..r.end : r \in ranges}
    <2> HIDE DEF ranges
    <2>1. tag.ranges = SetToSeq(ranges) /\ tag.blocks = <<>>
      BY <1>4 DEF Tag
    <2>2. ToSet(tag.blocks) = {}
      BY <2>1 DEF ToSet
    <2> QED BY <1>7, <2>1, <2>2 DEF TagBlocks
  <1>10. \A i \in I : Spanned(i) \subseteq TagBlocks(tag)
    <2> TAKE i \in I
    <2>1. RangeTag(i.start, ItemEnd(i)) \in ranges
      OBVIOUS
    <2>2. RangeTag(i.start, ItemEnd(i)).start = i.start /\ RangeTag(i.start, ItemEnd(i)).end = ItemEnd(i)
      BY DEF RangeTag
    <2> HIDE DEF ranges
    <2> QED BY <1>9, <2>1, <2>2 DEF Spanned
  <1>11. \A a, b \in ranges : a # b => Span(a) \cap Span(b) = {}
    <2>1. \A i \in I : Span(RangeTag(i.start, ItemEnd(i))) = Spanned(i)
      BY DEF RangeTag, Span, Spanned
    <2>2. \A i, j \in I : i # j => Spanned(i) \cap Spanned(j) = {}
      BY <1>5 DEF Apart
    <2> QED BY <2>1, <2>2
  <1>12. Separate(tag)
    <2> HIDE DEF ranges
    <2>1. PICK s : s = SetToSeq(ranges) /\ tag.ranges = s /\ tag.blocks = <<>>
      BY <1>4 DEF Tag
    <2>2. \A i \in DOMAIN s : s[i] \in ranges
      BY <1>7, <2>1 DEF ToSet
    <2>3. \A i, j \in DOMAIN s : i # j => Span(s[i]) \cap Span(s[j]) = {}
      BY <1>7, <1>11, <2>1, <2>2
    <2>4. DOMAIN tag.blocks = {}
      BY <2>1
    <2> QED BY <2>1, <2>3, <2>4 DEF Separate
  <1> QED BY <1>5, <1>8, <1>10, <1>12 DEF tag, X

-----------------------------------------------------------------------------
(* Sorting.                                                                *)

Sorts(p, key, n) ==
  p \in Bijection(1..n, 1..n) /\ \A i, j \in 1..n : i < j => key[p[i]] <= key[p[j]]

\* A one-to-one function of 1..n to itself is onto.
LEMMA InjectionOnto ==
  ASSUME NEW n \in Nat, NEW p \in [1..n -> 1..n], \A i, j \in 1..n : p[i] = p[j] => i = j
  PROVE  p \in Bijection(1..n, 1..n)
  <1>1. IsFiniteSet(1..n)
    <2>1. 1 \in Int /\ n \in Int
      OBVIOUS
    <2> QED BY <2>1, FS_Interval
  <1>2. p \in Injection(1..n, 1..n)
    BY DEF Injection, IsInjective
  <1>3. p \in Surjection(1..n, 1..n)
    BY <1>1, <1>2, FS_Injection
  <1> QED BY <1>2, <1>3 DEF Bijection

\* The least key first, then the others in order.
LEMMA SortMore ==
  ASSUME NEW m \in Nat \ {0}, NEW key \in [1..m -> Nat],
         \A k \in [1..m - 1 -> Nat] : \E q : Sorts(q, k, m - 1)
  PROVE  \E p : Sorts(p, key, m)
  <1>1. PICK x \in 1..m : \A i \in 1..m : key[x] <= key[i]
    <2> DEFINE T == {key[i] : i \in 1..m}
    <2>1. T \in SUBSET Nat /\ T # {}
      <3>1. 1 \in 1..m
        OBVIOUS
      <3> QED BY <3>1
    <2>2. PICK v \in T : \A y \in T : v <= y
      <3> HIDE DEF T
      <3> QED BY <2>1, LeastExists
    <2> QED BY <2>2
  <1> DEFINE at(i) == IF i = x THEN m ELSE i
             rest == [i \in 1..m - 1 |-> key[at(i)]]
  <1>2. \A i \in 1..m - 1 : at(i) \in 1..m /\ at(i) # x
    OBVIOUS
  <1>3. \A i, j \in 1..m - 1 : at(i) = at(j) => i = j
    OBVIOUS
  <1>4. rest \in [1..m - 1 -> Nat]
    BY <1>2
  <1>5. PICK q : Sorts(q, rest, m - 1)
    <2> HIDE DEF rest
    <2> QED BY <1>4
  <1>6. /\ q \in [1..m - 1 -> 1..m - 1] /\ \A i, j \in 1..m - 1 : q[i] = q[j] => i = j
        /\ \A i, j \in 1..m - 1 : i < j => rest[q[i]] <= rest[q[j]]
    BY <1>5 DEF Sorts, Bijection, Injection, IsInjective
  <1> HIDE DEF at
  <1> DEFINE p == [i \in 1..m |-> IF i = 1 THEN x ELSE at(q[i - 1])]
  <1>a. \A i \in 2..m : i \in 1..m /\ i # 1 /\ i - 1 \in 1..m - 1 /\ q[i - 1] \in 1..m - 1
    <2>1. \A i \in 2..m : i \in 1..m /\ i # 1 /\ i - 1 \in 1..m - 1
      OBVIOUS
    <2>2. \A k \in 1..m - 1 : q[k] \in 1..m - 1
      BY <1>6
    <2> QED BY <2>1, <2>2
  <1>b. \A i \in 2..m : at(q[i - 1]) \in 1..m
    BY <1>2, <1>a
  <1>7. \A i \in 2..m : /\ i - 1 \in 1..m - 1 /\ q[i - 1] \in 1..m - 1
                         /\ p[i] = at(q[i - 1]) /\ p[i] \in 1..m
    BY <1>a, <1>b
  <1>8. p[1] = x /\ p \in [1..m -> 1..m]
    <2>1. \A i \in 1..m : i = 1 \/ i \in 2..m
      OBVIOUS
    <2>2. \A i \in 1..m : (IF i = 1 THEN x ELSE at(q[i - 1])) \in 1..m
      BY <1>b, <2>1
    <2>3. 1 \in 1..m
      OBVIOUS
    <2> QED BY <2>2, <2>3
  <1> HIDE DEF p
  <1>9. ASSUME NEW i \in 1..m, NEW j \in 1..m, p[i] = p[j] PROVE i = j
    <2>1. CASE i = 1 /\ j = 1
      BY <2>1
    <2>2. CASE i = 1 /\ j \in 2..m
      BY <1>2, <1>7, <1>8, <1>9, <2>2
    <2>3. CASE i \in 2..m /\ j = 1
      BY <1>2, <1>7, <1>8, <1>9, <2>3
    <2>4. CASE i \in 2..m /\ j \in 2..m
      <3>0. PICK a \in 1..m - 1, b \in 1..m - 1 : a = q[i - 1] /\ b = q[j - 1] /\ at(a) = at(b)
        BY <1>7, <1>9, <2>4
      <3>1. q[i - 1] = q[j - 1]
        BY <1>3, <3>0
      <3>2. i - 1 = j - 1
        BY <1>6, <1>7, <2>4, <3>1
      <3> QED BY <3>2
    <2> QED BY <2>1, <2>2, <2>3, <2>4
  <1>10. p \in Bijection(1..m, 1..m)
    BY <1>8, <1>9, InjectionOnto
  <1>11. ASSUME NEW i \in 1..m, NEW j \in 1..m, i < j PROVE key[p[i]] <= key[p[j]]
    <2>1. CASE i = 1
      BY <1>1, <1>8, <2>1
    <2>2. CASE i \in 2..m
      <3>1. j \in 2..m /\ i - 1 \in 1..m - 1 /\ j - 1 \in 1..m - 1 /\ i - 1 < j - 1
        BY <1>11, <2>2
      <3>2. rest[q[i - 1]] <= rest[q[j - 1]]
        BY <1>6, <3>1
      <3>3. rest[q[i - 1]] = key[p[i]] /\ rest[q[j - 1]] = key[p[j]]
        BY <1>7, <2>2, <3>1
      <3> QED BY <3>2, <3>3
    <2> QED BY <2>1, <2>2
  <1> QED BY <1>10, <1>11 DEF Sorts

LEMMA SortExists ==
  ASSUME NEW n \in Nat, NEW key \in [1..n -> Nat]
  PROVE  \E p : Sorts(p, key, n)
  <1> DEFINE G == {m \in 0..n : \A k \in [1..m -> Nat] : \E p : Sorts(p, k, m)}
  <1>1. 0 \in G
    <2> DEFINE p == [i \in 1..0 |-> i]
    <2>1. p \in [1..0 -> 1..0]
      OBVIOUS
    <2>2. 0 \in Nat /\ \A i, j \in 1..0 : p[i] = p[j] => i = j
      OBVIOUS
    <2> HIDE DEF p
    <2>3. p \in Bijection(1..0, 1..0)
      BY <2>1, <2>2, InjectionOnto
    <2>4. \A k : Sorts(p, k, 0)
      BY <2>3 DEF Sorts
    <2>5. 0 \in 0..n
      OBVIOUS
    <2> QED BY <2>4, <2>5
  <1>2. ASSUME NEW m \in 1..n, m - 1 \in G PROVE m \in G
    <2>1. m \in Nat \ {0} /\ m \in 0..n
      OBVIOUS
    <2>2. \A k \in [1..m - 1 -> Nat] : \E p : Sorts(p, k, m - 1)
      BY <1>2
    <2>3. \A k \in [1..m -> Nat] : \E p : Sorts(p, k, m)
      BY <2>1, <2>2, SortMore
    <2> QED BY <2>1, <2>3
  <1>3. \A m \in 0..n : m \in G
    <2>1. \A m \in 1..n : m - 1 \in G => m \in G
      BY <1>2
    <2> HIDE DEF G
    <2> QED BY <1>1, <2>1, UpTo
  <1>4. n \in G
    <2> HIDE DEF G
    <2> QED BY <1>3
  <1> QED BY <1>4

\* The sorted sequence has the same elements, each as often.
Permutes(t, s) ==
  \E order \in [1..Len(s) -> 1..Len(s)] : /\ \A i, j \in 1..Len(s) : order[i] = order[j] => i = j
                                         /\ \A i \in 1..Len(s) : t[i] = s[order[i]]

LEMMA SortByOk ==
  ASSUME NEW S, NEW s \in Seq(S), NEW key \in [1..Len(s) -> Nat]
  PROVE  /\ SortBy(s, key) \in Seq(S) /\ Len(SortBy(s, key)) = Len(s) /\ ToSet(SortBy(s, key)) = ToSet(s)
         /\ Permutes(SortBy(s, key), s)
  <1>1. PICK n \in Nat : n = Len(s) /\ DOMAIN s = 1..n /\ s \in [1..n -> S]
    OBVIOUS
  <1> DEFINE sorted(p) == \A i, j \in 1..n : i < j => key[p[i]] <= key[p[j]]
             order == CHOOSE p \in Bijection(1..n, 1..n) : sorted(p)
  <1>2. SortBy(s, key) = [i \in 1..n |-> s[order[i]]]
    BY <1>1 DEF SortBy
  <1>3. \E p \in Bijection(1..n, 1..n) : sorted(p)
    BY <1>1, SortExists DEF Sorts
  <1>4. order \in Bijection(1..n, 1..n)
    <2> HIDE DEF sorted
    <2> QED BY <1>3
  <1> HIDE DEF order
  <1>5. order \in [1..n -> 1..n] /\ \A y \in 1..n : \E i \in 1..n : order[i] = y
    BY <1>4 DEF Bijection, Injection, Surjection
  <1>6. SortBy(s, key) \in [1..n -> S]
    BY <1>1, <1>2, <1>5
  <1>7. SortBy(s, key) \in Seq(S) /\ Len(SortBy(s, key)) = n /\ DOMAIN SortBy(s, key) = 1..n
    BY <1>6
  <1>8. ToSet(SortBy(s, key)) = ToSet(s)
    <2>1. \A i \in 1..n : SortBy(s, key)[i] = s[order[i]] /\ order[i] \in 1..n
      BY <1>2, <1>5
    <2>2. ToSet(s) = {s[i] : i \in 1..n} /\ ToSet(SortBy(s, key)) = {SortBy(s, key)[i] : i \in 1..n}
      BY <1>1, <1>7 DEF ToSet
    <2>3. \A v : v \in ToSet(SortBy(s, key)) <=> \E i \in 1..n : v = s[order[i]]
      BY <2>1, <2>2
    <2>4. \A v : v \in ToSet(s) <=> \E i \in 1..n : v = s[i]
      BY <2>2
    <2>5. \A v : (\E i \in 1..n : v = s[order[i]]) <=> (\E i \in 1..n : v = s[i])
      BY <1>5
    <2> QED BY <2>3, <2>4, <2>5
  <1>9. \A i, j \in 1..n : order[i] = order[j] => i = j
    BY <1>4, <1>5 DEF Bijection, Injection, IsInjective
  <1>10. \A i \in 1..n : SortBy(s, key)[i] = s[order[i]]
    BY <1>2
  <1>11. Permutes(SortBy(s, key), s)
    <2>1. /\ order \in [1..Len(s) -> 1..Len(s)] /\ \A i, j \in 1..Len(s) : order[i] = order[j] => i = j
          /\ \A i \in 1..Len(s) : SortBy(s, key)[i] = s[order[i]]
      BY <1>1, <1>5, <1>9, <1>10
    <2> QED BY <2>1 DEF Permutes
  <1> QED BY <1>1, <1>7, <1>8, <1>11

-----------------------------------------------------------------------------
(* Packing.                                                                *)

\* The loops' states, and the blocks they hold: an empty count means an empty batch.
PackStates ==
  {p \in [batches : Seq(SUBSET Nat), cur : SUBSET Nat, count : Nat] : p.count = 0 => p.cur = {}}
Held(p) == (UNION ToSet(p.batches)) \cup p.cur

\* No block is asked for twice.
Fresh(p) ==
  /\ \A i, j \in 1..Len(p.batches) : i # j => p.batches[i] \cap p.batches[j] = {}
  /\ \A i \in 1..Len(p.batches) : p.batches[i] \cap p.cur = {}

\* No batch is larger than max.
SmallBatches(p, max) ==
  /\ \A i \in 1..Len(p.batches) : IsFiniteSet(p.batches[i]) /\ Cardinality(p.batches[i]) <= max
  /\ IsFiniteSet(p.cur) /\ Cardinality(p.cur) <= p.count /\ p.count <= max

LEMMA AppendFacts ==
  ASSUME NEW S, NEW s \in Seq(S), NEW v \in S
  PROVE  /\ Append(s, v) \in Seq(S) /\ Len(Append(s, v)) = Len(s) + 1
         /\ \A i \in 1..Len(s) : Append(s, v)[i] = s[i]
         /\ Append(s, v)[Len(s) + 1] = v
         /\ \A x : x \in ToSet(Append(s, v)) <=> x \in ToSet(s) \/ x = v
  <1>1. PICK n \in Nat : n = Len(s) /\ DOMAIN s = 1..n
    OBVIOUS
  <1>2. /\ Append(s, v) \in Seq(S) /\ Len(Append(s, v)) = n + 1 /\ DOMAIN Append(s, v) = 1..n + 1
        /\ \A i \in 1..n : Append(s, v)[i] = s[i]
        /\ Append(s, v)[n + 1] = v
    BY <1>1
  <1>3. \A i \in 1..n + 1 : i \in 1..n \/ i = n + 1
    OBVIOUS
  <1>4. \A x : x \in ToSet(s) <=> \E i \in 1..n : x = s[i]
    BY <1>1 DEF ToSet
  <1>5. \A x : x \in ToSet(Append(s, v)) <=> \E i \in 1..n + 1 : x = Append(s, v)[i]
    BY <1>2 DEF ToSet
  <1>6. 1..n \subseteq 1..n + 1 /\ n + 1 \in 1..n + 1
    OBVIOUS
  <1> QED BY <1>1, <1>2, <1>3, <1>4, <1>5, <1>6

LEMMA PackingStart ==
  /\ Packing \in PackStates /\ Held(Packing) = {} /\ Fresh(Packing) /\ Packing.count = 0
  /\ \A max \in Nat : SmallBatches(Packing, max)
  <1>1. Packing.batches = <<>> /\ Packing.cur = {} /\ Packing.count = 0 /\ Packing \in PackStates
    BY DEF Packing, PackStates
  <1>2. Len(<<>>) = 0 /\ ToSet(<<>>) = {}
    BY DEF ToSet
  <1> QED BY <1>1, <1>2, FS_EmptySet DEF Held, Fresh, SmallBatches

LEMMA CloseOk ==
  ASSUME NEW p \in PackStates
  PROVE  /\ CloseBatch(p) \in PackStates /\ CloseBatch(p).count = 0 /\ Held(CloseBatch(p)) = Held(p)
         /\ Fresh(p) => Fresh(CloseBatch(p))
         /\ \A max \in Nat : SmallBatches(p, max) => SmallBatches(CloseBatch(p), max)
  <1> DEFINE c == CloseBatch(p)
  <1>1. p.batches \in Seq(SUBSET Nat) /\ p.cur \in SUBSET Nat /\ p.count \in Nat
    BY DEF PackStates
  <1>2. c.batches = Append(p.batches, p.cur) /\ c.cur = {} /\ c.count = 0
    BY DEF CloseBatch
  <1>3. /\ c.batches \in Seq(SUBSET Nat) /\ Len(c.batches) = Len(p.batches) + 1 /\ Len(p.batches) \in Nat
        /\ \A i \in 1..Len(p.batches) : c.batches[i] = p.batches[i]
        /\ c.batches[Len(p.batches) + 1] = p.cur
        /\ \A x : x \in ToSet(c.batches) <=> x \in ToSet(p.batches) \/ x = p.cur
    BY <1>1, <1>2, AppendFacts
  <1>4. c \in PackStates
    <2>1. c = [batches |-> c.batches, cur |-> {}, count |-> 0]
      BY DEF CloseBatch
    <2> HIDE DEF c
    <2> QED BY <1>3, <2>1 DEF PackStates
  <1> HIDE DEF c
  <1>5. Held(c) = Held(p)
    BY <1>2, <1>3 DEF Held
  <1>6. \A i \in 1..Len(c.batches) : i \in 1..Len(p.batches) \/ i = Len(p.batches) + 1
    BY <1>3
  <1>7. Fresh(p) => Fresh(c)
    BY <1>2, <1>3, <1>6 DEF Fresh
  <1>8. ASSUME NEW max \in Nat, SmallBatches(p, max) PROVE SmallBatches(c, max)
    <2>1. IsFiniteSet(p.cur) /\ Cardinality(p.cur) <= max
      <3>1. IsFiniteSet(p.cur) /\ Cardinality(p.cur) <= p.count /\ p.count <= max
        BY <1>8 DEF SmallBatches
      <3>2. Cardinality(p.cur) \in Nat
        BY <3>1, FS_CardinalityType
      <3> QED BY <1>1, <3>1, <3>2
    <2> QED BY <1>2, <1>3, <1>6, <1>8, <2>1, FS_EmptySet DEF SmallBatches
  <1> QED BY <1>2, <1>4, <1>5, <1>7, <1>8 DEF c

LEMMA AddOk ==
  ASSUME NEW p \in PackStates, NEW blocks \in SUBSET Nat, NEW n \in Nat \ {0}
  PROVE  /\ Add(p, blocks, n) \in PackStates /\ Add(p, blocks, n).count = p.count + n
         /\ Held(Add(p, blocks, n)) = Held(p) \cup blocks
         /\ Fresh(p) /\ blocks \cap Held(p) = {} => Fresh(Add(p, blocks, n))
  <1> DEFINE a == Add(p, blocks, n)
             m == p.count + n
             c == p.cur \cup blocks
  <1>1. /\ p \in [batches : Seq(SUBSET Nat), cur : SUBSET Nat, count : Nat] /\ p.count \in Nat
        /\ p.batches \in Seq(SUBSET Nat) /\ p.cur \in SUBSET Nat
    BY DEF PackStates
  <1>a. PICK k \in Nat : k = p.count
    BY <1>1
  <1>2. m \in Nat \ {0} /\ c \in SUBSET Nat
    <2>1. m \in Nat \ {0}
      BY <1>a
    <2>2. c \in SUBSET Nat
      BY <1>1
    <2> QED BY <2>1, <2>2
  <1>3. a = [p EXCEPT !.cur = c, !.count = m]
    BY <1>1 DEF Add
  <1> HIDE DEF m, c
  <1>4. a.batches = p.batches /\ a.cur = c /\ a.count = m /\ a \in PackStates
    BY <1>1, <1>2, <1>3 DEF PackStates
  <1> HIDE DEF a
  <1>5. Held(a) = Held(p) \cup blocks
    BY <1>4 DEF Held, c
  <1>6. Fresh(p) /\ blocks \cap Held(p) = {} => Fresh(a)
    <2>1. \A i \in 1..Len(p.batches) : p.batches[i] \in ToSet(p.batches)
      BY <1>1 DEF ToSet
    <2> QED BY <1>4, <2>1 DEF Fresh, Held, c
  <1> QED BY <1>4, <1>5, <1>6 DEF a, m

\* One block more, when there is room.
LEMMA AddSmall ==
  ASSUME NEW p \in PackStates, NEW b \in Nat, NEW max \in Nat, SmallBatches(p, max), p.count < max
  PROVE  SmallBatches(Add(p, {b}, 1), max)
  <1> DEFINE a == Add(p, {b}, 1)
             m == p.count + 1
             c == p.cur \cup {b}
  <1>1. /\ p \in [batches : Seq(SUBSET Nat), cur : SUBSET Nat, count : Nat] /\ p.count \in Nat
    BY DEF PackStates
  <1>2. a = [p EXCEPT !.cur = c, !.count = m]
    BY <1>1 DEF Add
  <1>3. m \in Nat /\ m <= max
    BY <1>1
  <1>4. IsFiniteSet(c) /\ Cardinality(c) <= m
    <2>1. IsFiniteSet(p.cur) /\ Cardinality(p.cur) <= p.count /\ Cardinality(p.cur) \in Nat
      BY FS_CardinalityType DEF SmallBatches
    <2>2. IsFiniteSet(c) /\ Cardinality(c) = IF b \in p.cur THEN Cardinality(p.cur) ELSE Cardinality(p.cur) + 1
      BY <2>1, FS_AddElement
    <2> HIDE DEF c
    <2> QED BY <1>1, <2>1, <2>2
  <1> HIDE DEF m, c
  <1>5. a.batches = p.batches /\ a.cur = c /\ a.count = m
    BY <1>1, <1>2
  <1> HIDE DEF a
  <1> QED BY <1>3, <1>4, <1>5 DEF SmallBatches, a

\* The loops' steps: nothing that was packed is lost, the new blocks are added, and no
\* block is asked for twice unless it was given twice.
Keeps(q, p, blocks) ==
  /\ q \in PackStates /\ Held(q) = Held(p) \cup blocks
  /\ Fresh(p) /\ blocks \cap Held(p) = {} => Fresh(q)

LEMMA PackHeaderRangeOk ==
  ASSUME NEW p \in PackStates, NEW r \in Ranges
  PROVE  Keeps(PackHeaderRange(p, r), p, r.start..r.end)
  <1> DEFINE size == r.end - r.start + 1
             room == IF p.count > 0 /\ p.count + size > MaxHeaders THEN CloseBatch(p) ELSE p
             added == Add(room, r.start..r.end, size)
             q == PackHeaderRange(p, r)
  <1>1. size \in Nat \ {0} /\ r.start..r.end \in SUBSET Nat
    BY DEF Ranges
  <1>2. q = IF added.count >= MaxHeaders THEN CloseBatch(added) ELSE added
    BY DEF PackHeaderRange
  <1>3. room \in PackStates /\ Held(room) = Held(p) /\ (Fresh(p) => Fresh(room))
    BY CloseOk
  <1> HIDE DEF room, size, q
  <1>4. /\ added \in PackStates /\ Held(added) = Held(p) \cup r.start..r.end
        /\ Fresh(p) /\ (r.start..r.end) \cap Held(p) = {} => Fresh(added)
    <2>1. PICK blocks \in SUBSET Nat : blocks = r.start..r.end
      BY <1>1
    <2>2. /\ Add(room, blocks, size) \in PackStates /\ Held(Add(room, blocks, size)) = Held(room) \cup blocks
          /\ Fresh(room) /\ blocks \cap Held(room) = {} => Fresh(Add(room, blocks, size))
      BY <1>1, <1>3, AddOk
    <2>3. added = Add(room, blocks, size)
      BY <2>1
    <2> QED BY <1>3, <2>1, <2>2, <2>3
  <1> HIDE DEF added
  <1>5. q \in PackStates /\ Held(q) = Held(added) /\ (Fresh(added) => Fresh(q))
    BY <1>2, <1>4, CloseOk
  <1> QED BY <1>4, <1>5 DEF Keeps, q

LEMMA PackBlockOk ==
  ASSUME NEW p \in PackStates, NEW b \in Nat, NEW max \in Nat \ {0}
  PROVE  /\ Keeps(PackBlock(p, b, max), p, {b})
         /\ SmallBatches(p, max) => SmallBatches(PackBlock(p, b, max), max)
  <1> DEFINE room == IF p.count > 0 /\ p.count + 1 > max THEN CloseBatch(p) ELSE p
             q == PackBlock(p, b, max)
  <1>1. q = Add(room, {b}, 1)
    BY DEF PackBlock
  <1>2. room \in PackStates /\ Held(room) = Held(p) /\ (Fresh(p) => Fresh(room))
    BY CloseOk
  <1>3. SmallBatches(p, max) => SmallBatches(room, max) /\ room.count < max
    <2>1. p.count \in Nat
      BY DEF PackStates
    <2>2. CASE p.count > 0 /\ p.count + 1 > max
      <3>1. room = CloseBatch(p)
        BY <2>2
      <3> HIDE DEF room
      <3> QED BY <3>1, CloseOk
    <2>3. CASE ~(p.count > 0 /\ p.count + 1 > max)
      <3>1. room = p /\ p.count < max
        BY <2>1, <2>3
      <3> HIDE DEF room
      <3> QED BY <3>1
    <2> QED BY <2>2, <2>3
  <1> HIDE DEF room, q
  <1>4. {b} \in SUBSET Nat /\ 1 \in Nat \ {0} /\ max \in Nat
    OBVIOUS
  <1>5. /\ q \in PackStates /\ Held(q) = Held(room) \cup {b}
        /\ Fresh(room) /\ {b} \cap Held(room) = {} => Fresh(q)
    BY <1>1, <1>2, <1>4, AddOk
  <1>6. SmallBatches(p, max) => SmallBatches(q, max)
    BY <1>1, <1>2, <1>3, <1>4, AddSmall
  <1> QED BY <1>2, <1>5, <1>6 DEF Keeps, q

LEMMA PackDataBlockOk ==
  ASSUME NEW p \in PackStates, NEW b \in Nat
  PROVE  /\ Keeps(PackDataBlock(p, b), p, {b})
         /\ SmallBatches(p, MaxData) /\ p.count < MaxData =>
              SmallBatches(PackDataBlock(p, b), MaxData) /\ PackDataBlock(p, b).count < MaxData
  <1> DEFINE added == Add(p, {b}, 1)
             q == PackDataBlock(p, b)
  <1>1. q = IF added.count = MaxData THEN CloseBatch(added) ELSE added
    BY DEF PackDataBlock
  <1>2. {b} \in SUBSET Nat /\ 1 \in Nat \ {0} /\ MaxData \in Nat \ {0} /\ MaxData \in Nat
    BY BatchingAssumption
  <1>3. /\ added \in PackStates /\ Held(added) = Held(p) \cup {b} /\ added.count = p.count + 1
        /\ Fresh(p) /\ {b} \cap Held(p) = {} => Fresh(added)
    BY <1>2, AddOk
  <1>4. SmallBatches(p, MaxData) /\ p.count < MaxData => SmallBatches(added, MaxData)
    BY <1>2, AddSmall
  <1> HIDE DEF added, q
  <1>5. q \in PackStates /\ Held(q) = Held(added) /\ (Fresh(added) => Fresh(q))
    BY <1>1, <1>3, CloseOk
  <1>6. ASSUME SmallBatches(p, MaxData), p.count < MaxData PROVE SmallBatches(q, MaxData) /\ q.count < MaxData
    <2>0. p.count \in Nat
      BY DEF PackStates
    <2>1. CASE added.count = MaxData
      <3>1. CloseBatch(added).count = 0 /\ SmallBatches(CloseBatch(added), MaxData)
        BY <1>2, <1>3, <1>4, <1>6, CloseOk
      <3> QED BY <1>1, <1>2, <2>1, <3>1
    <2>2. CASE added.count # MaxData
      <3>1. added.count < MaxData
        BY <1>2, <1>3, <1>6, <2>0, <2>2
      <3> QED BY <1>1, <1>4, <1>6, <2>2, <3>1
    <2> QED BY <2>1, <2>2
  <1> QED BY <1>3, <1>5, <1>6 DEF Keeps, q

\* The recursions of the builders, step by step.
LEMMA HeaderRangesRun ==
  ASSUME NEW seq \in Seq(Ranges)
  PROVE  LET g == PackHeaderRanges(seq) IN
         g[0] = Packing /\ \A k \in 1..Len(seq) : g[k - 1] \in PackStates /\ g[k] = PackHeaderRange(g[k - 1], seq[k])
  <1> DEFINE Rec(f) == [k \in 0..Len(seq) |-> IF k = 0 THEN Packing ELSE PackHeaderRange(f[k - 1], seq[k])]
             step == [k \in 1..Len(seq) |-> [s \in PackStates |-> PackHeaderRange(s, seq[k])]]
  <1>0. Len(seq) \in Nat /\ Packing \in PackStates
    BY PackingStart
  <1>1. \A k \in 1..Len(seq) : \A s \in PackStates : PackHeaderRange(s, seq[k]) \in PackStates
    <2>1. \A k \in 1..Len(seq) : seq[k] \in Ranges
      OBVIOUS
    <2> QED BY <2>1, PackHeaderRangeOk DEF Keeps
  <1>2. PackHeaderRanges(seq) = CHOOSE g : g = Rec(g)
    BY DEF PackHeaderRanges
  <1>3. PICK f \in [0..Len(seq) -> PackStates] : f[0] = Packing /\ \A k \in 1..Len(seq) : f[k] = PackHeaderRange(f[k - 1], seq[k])
    <2>1. IsStep(step, Len(seq), PackStates)
      BY <1>1 DEF IsStep
    <2>2. \A k \in 1..Len(seq) : \A s \in PackStates : step[k][s] = PackHeaderRange(s, seq[k])
      OBVIOUS
    <2> HIDE DEF step
    <2>3. PICK f : IsRun(f, step, Len(seq), PackStates, Packing)
      BY <1>0, <2>1, Iterates
    <2>4. \A k \in 1..Len(seq) : k - 1 \in 0..Len(seq)
      BY <1>0
    <2>5. f \in [0..Len(seq) -> PackStates] /\ f[0] = Packing /\ \A k \in 1..Len(seq) : f[k] = step[k][f[k - 1]]
      BY <2>3 DEF IsRun
    <2>6. \A k \in 1..Len(seq) : f[k - 1] \in PackStates
      BY <2>4, <2>5
    <2>7. \A k \in 1..Len(seq) : f[k] = PackHeaderRange(f[k - 1], seq[k])
      BY <2>2, <2>5, <2>6
    <2> QED BY <2>5, <2>7
  <1>4. f = Rec(f)
    BY <1>0, <1>3
  <1>5. PICK g : g = PackHeaderRanges(seq) /\ g = Rec(g)
    <2> HIDE DEF Rec
    <2> QED BY <1>2, <1>4
  <1>6. g[0] = Packing /\ \A k \in 1..Len(seq) : g[k] = PackHeaderRange(g[k - 1], seq[k])
    <2>1. \A h : h = Rec(h) => h[0] = Packing /\ \A k \in 1..Len(seq) : h[k] = PackHeaderRange(h[k - 1], seq[k])
      BY <1>0
    <2> HIDE DEF Rec
    <2> QED BY <1>5, <2>1
  <1> DEFINE G == {k \in 0..Len(seq) : g[k] \in PackStates}
  <1>7. 0 \in G /\ \A k \in 1..Len(seq) : k - 1 \in G => k \in G
    BY <1>0, <1>1, <1>6
  <1>8. \A k \in 0..Len(seq) : k \in G
    <2> HIDE DEF G
    <2> QED BY <1>0, <1>7, UpTo
  <1>9. \A k \in 1..Len(seq) : g[k - 1] \in PackStates
    BY <1>0, <1>8
  <1> QED BY <1>5, <1>6, <1>9


LEMMA BlocksRun ==
  ASSUME NEW start \in PackStates, NEW seq \in Seq(Nat), NEW max \in Nat \ {0}
  PROVE  LET g == PackBlocks(start, seq, max) IN
         g[0] = start /\ \A k \in 1..Len(seq) : g[k - 1] \in PackStates /\ g[k] = PackBlock(g[k - 1], seq[k], max)
  <1> DEFINE Rec(f) == [k \in 0..Len(seq) |-> IF k = 0 THEN start ELSE PackBlock(f[k - 1], seq[k], max)]
             step == [k \in 1..Len(seq) |-> [s \in PackStates |-> PackBlock(s, seq[k], max)]]
  <1>0. Len(seq) \in Nat /\ start \in PackStates
    OBVIOUS
  <1>1. \A k \in 1..Len(seq) : \A s \in PackStates : PackBlock(s, seq[k], max) \in PackStates
    <2>1. \A k \in 1..Len(seq) : seq[k] \in Nat
      OBVIOUS
    <2> QED BY <2>1, PackBlockOk DEF Keeps
  <1>2. PackBlocks(start, seq, max) = CHOOSE g : g = Rec(g)
    BY DEF PackBlocks
  <1>3. PICK f \in [0..Len(seq) -> PackStates] : f[0] = start /\ \A k \in 1..Len(seq) : f[k] = PackBlock(f[k - 1], seq[k], max)
    <2>1. IsStep(step, Len(seq), PackStates)
      BY <1>1 DEF IsStep
    <2>2. \A k \in 1..Len(seq) : \A s \in PackStates : step[k][s] = PackBlock(s, seq[k], max)
      OBVIOUS
    <2> HIDE DEF step
    <2>3. PICK f : IsRun(f, step, Len(seq), PackStates, start)
      BY <1>0, <2>1, Iterates
    <2>4. \A k \in 1..Len(seq) : k - 1 \in 0..Len(seq)
      BY <1>0
    <2>5. f \in [0..Len(seq) -> PackStates] /\ f[0] = start /\ \A k \in 1..Len(seq) : f[k] = step[k][f[k - 1]]
      BY <2>3 DEF IsRun
    <2>6. \A k \in 1..Len(seq) : f[k - 1] \in PackStates
      BY <2>4, <2>5
    <2>7. \A k \in 1..Len(seq) : f[k] = PackBlock(f[k - 1], seq[k], max)
      BY <2>2, <2>5, <2>6
    <2> QED BY <2>5, <2>7
  <1>4. f = Rec(f)
    BY <1>0, <1>3
  <1>5. PICK g : g = PackBlocks(start, seq, max) /\ g = Rec(g)
    <2> HIDE DEF Rec
    <2> QED BY <1>2, <1>4
  <1>6. g[0] = start /\ \A k \in 1..Len(seq) : g[k] = PackBlock(g[k - 1], seq[k], max)
    <2>1. \A h : h = Rec(h) => h[0] = start /\ \A k \in 1..Len(seq) : h[k] = PackBlock(h[k - 1], seq[k], max)
      <3>1. 0 \in 0..Len(seq) /\ \A k \in 1..Len(seq) : k \in 0..Len(seq) /\ k # 0
        BY <1>0
      <3> QED BY <3>1
    <2> HIDE DEF Rec
    <2> QED BY <1>5, <2>1
  <1> DEFINE G == {k \in 0..Len(seq) : g[k] \in PackStates}
  <1>7. 0 \in G /\ \A k \in 1..Len(seq) : k - 1 \in G => k \in G
    BY <1>0, <1>1, <1>6
  <1>8. \A k \in 0..Len(seq) : k \in G
    <2> HIDE DEF G
    <2> QED BY <1>0, <1>7, UpTo
  <1>9. \A k \in 1..Len(seq) : g[k - 1] \in PackStates
    BY <1>0, <1>8
  <1> QED BY <1>5, <1>6, <1>9

LEMMA DataRangeRun ==
  ASSUME NEW start \in PackStates, NEW r \in Ranges
  PROVE  LET size == r.end - r.start + 1 IN
         \E g : /\ PackDataRange(start, r) = g[size] /\ g[0] = start
               /\ \A k \in 1..size : g[k - 1] \in PackStates /\ g[k] = PackDataBlock(g[k - 1], r.start + k - 1)
  <1> DEFINE size == r.end - r.start + 1
             Rec(f) == [k \in 0..size |-> IF k = 0 THEN start ELSE PackDataBlock(f[k - 1], r.start + k - 1)]
             step == [k \in 1..size |-> [s \in PackStates |-> PackDataBlock(s, r.start + k - 1)]]
  <1>0. size \in Nat /\ size > 0 /\ start \in PackStates
    BY DEF Ranges
  <1>1. \A k \in 1..size : \A s \in PackStates : PackDataBlock(s, r.start + k - 1) \in PackStates
    <2>1. \A k \in 1..size : r.start + k - 1 \in Nat
      BY <1>0 DEF Ranges
    <2> QED BY <2>1, PackDataBlockOk DEF Keeps
  <1>2. PackDataRange(start, r) = (CHOOSE g : g = Rec(g))[size]
    BY <1>0 DEF PackDataRange
  <1> HIDE DEF size
  <1>3. PICK f \in [0..size -> PackStates] : f[0] = start /\ \A k \in 1..size : f[k] = PackDataBlock(f[k - 1], r.start + k - 1)
    <2>1. IsStep(step, size, PackStates)
      BY <1>1 DEF IsStep
    <2>2. \A k \in 1..size : \A s \in PackStates : step[k][s] = PackDataBlock(s, r.start + k - 1)
      OBVIOUS
    <2> HIDE DEF step
    <2>3. PICK f : IsRun(f, step, size, PackStates, start)
      BY <1>0, <2>1, Iterates
    <2>4. \A k \in 1..size : k - 1 \in 0..size
      BY <1>0
    <2>5. f \in [0..size -> PackStates] /\ f[0] = start /\ \A k \in 1..size : f[k] = step[k][f[k - 1]]
      BY <2>3 DEF IsRun
    <2>6. \A k \in 1..size : f[k - 1] \in PackStates
      BY <2>4, <2>5
    <2>7. \A k \in 1..size : f[k] = PackDataBlock(f[k - 1], r.start + k - 1)
      BY <2>2, <2>5, <2>6
    <2> QED BY <2>5, <2>7
  <1>4. f = Rec(f)
    BY <1>0, <1>3
  <1>5. PICK g : PackDataRange(start, r) = g[size] /\ g = Rec(g)
    <2> HIDE DEF Rec
    <2> QED BY <1>2, <1>4
  <1>6. g[0] = start /\ \A k \in 1..size : g[k] = PackDataBlock(g[k - 1], r.start + k - 1)
    <2>1. \A h : h = Rec(h) => h[0] = start /\ \A k \in 1..size : h[k] = PackDataBlock(h[k - 1], r.start + k - 1)
      BY <1>0
    <2> HIDE DEF Rec
    <2> QED BY <1>5, <2>1
  <1> DEFINE G == {k \in 0..size : g[k] \in PackStates}
  <1>7. 0 \in G /\ \A k \in 1..size : k - 1 \in G => k \in G
    BY <1>0, <1>1, <1>6
  <1>8. \A k \in 0..size : k \in G
    <2> HIDE DEF G
    <2> QED BY <1>0, <1>7, UpTo
  <1>9. \A k \in 1..size : g[k - 1] \in PackStates
    BY <1>0, <1>8
  <1> QED BY <1>5, <1>6, <1>9 DEF size

\* A run of steps that each keep what was packed keeps it.
Chain(g, D, n) ==
  g[0] \in PackStates /\ \A k \in 1..n : g[k - 1] \in PackStates => Keeps(g[k], g[k - 1], D[k])

LEMMA ChainKeeps ==
  ASSUME NEW n \in Nat, NEW g, NEW D, Chain(g, D, n)
  PROVE  /\ g[n] \in PackStates /\ Held(g[n]) = Held(g[0]) \cup UNION {D[i] : i \in 1..n}
         /\ /\ Fresh(g[0]) /\ \A i \in 1..n : D[i] \cap Held(g[0]) = {}
            /\ \A i, j \in 1..n : i # j => D[i] \cap D[j] = {}
            => Fresh(g[n])
  <1> DEFINE Parts == /\ Fresh(g[0]) /\ \A i \in 1..n : D[i] \cap Held(g[0]) = {}
                      /\ \A i, j \in 1..n : i # j => D[i] \cap D[j] = {}
             Upto(k) == UNION {D[i] : i \in 1..k}
             G == {k \in 0..n : g[k] \in PackStates /\ Held(g[k]) = Held(g[0]) \cup Upto(k) /\ (Parts => Fresh(g[k]))}
  <1>1. 0 \in G
    <2>1. Upto(0) = {}
      OBVIOUS
    <2>2. 0 \in 0..n
      OBVIOUS
    <2> HIDE DEF Upto
    <2> QED BY <2>1, <2>2 DEF Chain
  <1>2. ASSUME NEW k \in 1..n, k - 1 \in G PROVE k \in G
    <2>1. g[k - 1] \in PackStates /\ Held(g[k - 1]) = Held(g[0]) \cup Upto(k - 1) /\ (Parts => Fresh(g[k - 1]))
      BY <1>2
    <2>2. /\ g[k] \in PackStates /\ Held(g[k]) = Held(g[k - 1]) \cup D[k]
          /\ Fresh(g[k - 1]) /\ D[k] \cap Held(g[k - 1]) = {} => Fresh(g[k])
      BY <2>1 DEF Keeps, Chain
    <2>3. \A i : i \in 1..k <=> i \in 1..k - 1 \/ i = k
      OBVIOUS
    <2>4. Upto(k) = Upto(k - 1) \cup D[k]
      BY <2>3
    <2>5. Parts => D[k] \cap Upto(k - 1) = {} /\ D[k] \cap Held(g[0]) = {}
      <3>1. \A i \in 1..k - 1 : i \in 1..n /\ i # k
        OBVIOUS
      <3> QED BY <3>1
    <2>6. k \in 0..n
      OBVIOUS
    <2> HIDE DEF Upto, Parts
    <2> QED BY <2>1, <2>2, <2>4, <2>5, <2>6
  <1>3. \A k \in 0..n : k \in G
    <2>1. \A k \in 1..n : k - 1 \in G => k \in G
      BY <1>2
    <2> HIDE DEF G
    <2> QED BY <1>1, <2>1, UpTo
  <1>4. n \in G
    <2> HIDE DEF G
    <2> QED BY <1>3
  <1> QED BY <1>4

LEMMA PackDataRangeOk ==
  ASSUME NEW p \in PackStates, NEW r \in Ranges
  PROVE  /\ Keeps(PackDataRange(p, r), p, r.start..r.end)
         /\ SmallBatches(p, MaxData) /\ p.count < MaxData =>
              SmallBatches(PackDataRange(p, r), MaxData) /\ PackDataRange(p, r).count < MaxData
  <1> DEFINE n == r.end - r.start + 1
             D == [k \in 1..n |-> {r.start + k - 1}]
             Small(s) == SmallBatches(s, MaxData) /\ s.count < MaxData
  <1>1. n \in Nat /\ n > 0 /\ r.start \in Nat /\ r.end \in Nat /\ \A k \in 1..n : r.start + k - 1 \in Nat
    BY DEF Ranges
  <1>2. PICK g : /\ PackDataRange(p, r) = g[n] /\ g[0] = p
                 /\ \A k \in 1..n : g[k - 1] \in PackStates /\ g[k] = PackDataBlock(g[k - 1], r.start + k - 1)
    BY DataRangeRun
  <1>3. \A k \in 1..n : Keeps(g[k], g[k - 1], D[k])
    <2> TAKE k \in 1..n
    <2>1. D[k] = {r.start + k - 1} /\ r.start + k - 1 \in Nat
      BY <1>1
    <2> HIDE DEF D
    <2> QED BY <1>2, <2>1, PackDataBlockOk
  <1>4. (UNION {D[i] : i \in 1..n}) = r.start..r.end
    <2>1. \A x \in r.start..r.end : x - r.start + 1 \in 1..n /\ x = r.start + (x - r.start + 1) - 1
      BY <1>1
    <2>2. \A i \in 1..n : r.start + i - 1 \in r.start..r.end
      BY <1>1
    <2>3. \A x \in r.start..r.end : \E i \in 1..n : x \in D[i]
      BY <2>1
    <2>4. \A i \in 1..n : D[i] \subseteq r.start..r.end
      BY <2>2
    <2> HIDE DEF D, n
    <2> QED BY <2>3, <2>4
  <1>5. /\ \A i, j \in 1..n : i # j => D[i] \cap D[j] = {}
        /\ \A i \in 1..n : D[i] \subseteq UNION {D[k] : k \in 1..n}
    <2>1. \A i, j \in 1..n : i # j => r.start + i - 1 # r.start + j - 1
      BY <1>1
    <2>2. \A i \in 1..n : D[i] = {r.start + i - 1}
      OBVIOUS
    <2> HIDE DEF D, n
    <2>3. \A i, j \in 1..n : i # j => D[i] \cap D[j] = {}
      BY <2>1, <2>2
    <2> QED BY <2>3
  <1> HIDE DEF D, n
  <1>6. /\ g[n] \in PackStates /\ Held(g[n]) = Held(p) \cup r.start..r.end
        /\ Fresh(p) /\ (r.start..r.end) \cap Held(p) = {} => Fresh(g[n])
    <2>1. /\ g[n] \in PackStates /\ Held(g[n]) = Held(g[0]) \cup UNION {D[i] : i \in 1..n}
          /\ /\ Fresh(g[0]) /\ \A i \in 1..n : D[i] \cap Held(g[0]) = {}
             /\ \A i, j \in 1..n : i # j => D[i] \cap D[j] = {}
             => Fresh(g[n])
      <3>1. Chain(g, D, n)
        BY <1>2, <1>3 DEF Chain
      <3> QED BY <1>1, <3>1, ChainKeeps
    <2>2. PICK U : U = r.start..r.end /\ U = UNION {D[i] : i \in 1..n}
      BY <1>4
    <2>3. U \cap Held(p) = {} => \A i \in 1..n : D[i] \cap Held(p) = {}
      BY <1>5, <2>2
    <2> QED BY <1>2, <1>5, <2>1, <2>2, <2>3
  <1>7. ASSUME Small(p) PROVE Small(g[n])
    <2> DEFINE G == {k \in 0..n : Small(g[k])}
    <2>1. 0 \in G
      BY <1>1, <1>2, <1>7
    <2>2. ASSUME NEW k \in 1..n, k - 1 \in G PROVE k \in G
      <3>1. Small(PackDataBlock(g[k - 1], r.start + k - 1))
        BY <1>1, <1>2, <2>2, PackDataBlockOk
      <3> HIDE DEF Small
      <3> QED BY <1>1, <1>2, <3>1
    <2>3. \A k \in 0..n : k \in G
      <3>1. \A k \in 1..n : k - 1 \in G => k \in G
        BY <2>2
      <3> HIDE DEF G
      <3> QED BY <1>1, <2>1, <3>1, UpTo
    <2>4. n \in G
      <3> HIDE DEF G
      <3> QED BY <1>1, <2>3
    <2> QED BY <2>4
  <1> QED BY <1>2, <1>6, <1>7 DEF Keeps

LEMMA DataRangesRun ==
  ASSUME NEW seq \in Seq(Ranges)
  PROVE  LET g == PackDataRanges(seq) IN
         g[0] = Packing /\ \A k \in 1..Len(seq) : g[k - 1] \in PackStates /\ g[k] = PackDataRange(g[k - 1], seq[k])
  <1> DEFINE Rec(f) == [k \in 0..Len(seq) |-> IF k = 0 THEN Packing ELSE PackDataRange(f[k - 1], seq[k])]
             step == [k \in 1..Len(seq) |-> [s \in PackStates |-> PackDataRange(s, seq[k])]]
  <1>0. Len(seq) \in Nat /\ Packing \in PackStates
    BY PackingStart
  <1>1. \A k \in 1..Len(seq) : \A s \in PackStates : PackDataRange(s, seq[k]) \in PackStates
    <2>1. \A k \in 1..Len(seq) : seq[k] \in Ranges
      OBVIOUS
    <2> QED BY <2>1, PackDataRangeOk DEF Keeps
  <1>2. PackDataRanges(seq) = CHOOSE g : g = Rec(g)
    BY DEF PackDataRanges
  <1>3. PICK f \in [0..Len(seq) -> PackStates] : f[0] = Packing /\ \A k \in 1..Len(seq) : f[k] = PackDataRange(f[k - 1], seq[k])
    <2>1. IsStep(step, Len(seq), PackStates)
      BY <1>1 DEF IsStep
    <2>2. \A k \in 1..Len(seq) : \A s \in PackStates : step[k][s] = PackDataRange(s, seq[k])
      OBVIOUS
    <2> HIDE DEF step
    <2>3. PICK f : IsRun(f, step, Len(seq), PackStates, Packing)
      BY <1>0, <2>1, Iterates
    <2>4. \A k \in 1..Len(seq) : k - 1 \in 0..Len(seq)
      BY <1>0
    <2>5. f \in [0..Len(seq) -> PackStates] /\ f[0] = Packing /\ \A k \in 1..Len(seq) : f[k] = step[k][f[k - 1]]
      BY <2>3 DEF IsRun
    <2>6. \A k \in 1..Len(seq) : f[k - 1] \in PackStates
      BY <2>4, <2>5
    <2>7. \A k \in 1..Len(seq) : f[k] = PackDataRange(f[k - 1], seq[k])
      BY <2>2, <2>5, <2>6
    <2> QED BY <2>5, <2>7
  <1>4. f = Rec(f)
    BY <1>0, <1>3
  <1>5. PICK g : g = PackDataRanges(seq) /\ g = Rec(g)
    <2> HIDE DEF Rec
    <2> QED BY <1>2, <1>4
  <1>6. g[0] = Packing /\ \A k \in 1..Len(seq) : g[k] = PackDataRange(g[k - 1], seq[k])
    <2>1. \A h : h = Rec(h) => h[0] = Packing /\ \A k \in 1..Len(seq) : h[k] = PackDataRange(h[k - 1], seq[k])
      BY <1>0
    <2> HIDE DEF Rec
    <2> QED BY <1>5, <2>1
  <1> DEFINE G == {k \in 0..Len(seq) : g[k] \in PackStates}
  <1>7. 0 \in G /\ \A k \in 1..Len(seq) : k - 1 \in G => k \in G
    BY <1>0, <1>1, <1>6
  <1>8. \A k \in 0..Len(seq) : k \in G
    <2> HIDE DEF G
    <2> QED BY <1>0, <1>7, UpTo
  <1>9. \A k \in 1..Len(seq) : g[k - 1] \in PackStates
    BY <1>0, <1>8
  <1> QED BY <1>5, <1>6, <1>9

LEMMA TagSorted ==
  ASSUME NEW tag \in TagType
  PROVE  /\ SortedRanges(tag) \in Seq(Ranges) /\ Len(SortedRanges(tag)) = Len(tag.ranges)
         /\ ToSet(SortedRanges(tag)) = ToSet(tag.ranges)
         /\ SortedBlocks(tag) \in Seq(Nat) /\ Len(SortedBlocks(tag)) = Len(tag.blocks)
         /\ ToSet(SortedBlocks(tag)) = ToSet(tag.blocks)
         /\ Separate(tag) =>
              /\ \A i, j \in 1..Len(tag.ranges) :
                   i # j => Span(SortedRanges(tag)[i]) \cap Span(SortedRanges(tag)[j]) = {}
              /\ \A i, j \in 1..Len(tag.blocks) : i # j => SortedBlocks(tag)[i] # SortedBlocks(tag)[j]
  <1> DEFINE rs == tag.ranges
             bs == tag.blocks
             key == [i \in DOMAIN rs |-> rs[i].start]
  <1>1. rs \in Seq(Ranges) /\ bs \in Seq(Nat) /\ DOMAIN rs = 1..Len(rs) /\ DOMAIN bs = 1..Len(bs)
    BY DEF TagType
  <1>2. key \in [1..Len(rs) -> Nat] /\ bs \in [1..Len(bs) -> Nat]
    BY <1>1 DEF Ranges
  <1>3. SortedRanges(tag) = SortBy(rs, key) /\ SortedBlocks(tag) = SortBy(bs, bs)
    BY DEF SortedRanges, SortedBlocks
  <1> HIDE DEF key, rs, bs
  <1>4. /\ SortBy(rs, key) \in Seq(Ranges) /\ Len(SortBy(rs, key)) = Len(rs)
        /\ ToSet(SortBy(rs, key)) = ToSet(rs)
    BY <1>1, <1>2, SortByOk
  <1>5. PICK o \in [1..Len(rs) -> 1..Len(rs)] :
          /\ \A i, j \in 1..Len(rs) : o[i] = o[j] => i = j
          /\ \A i \in 1..Len(rs) : SortBy(rs, key)[i] = rs[o[i]]
    <2>1. Permutes(SortBy(rs, key), rs)
      BY <1>1, <1>2, SortByOk
    <2> QED BY <2>1 DEF Permutes
  <1>6. /\ SortBy(bs, bs) \in Seq(Nat) /\ Len(SortBy(bs, bs)) = Len(bs) /\ ToSet(SortBy(bs, bs)) = ToSet(bs)
    BY <1>1, <1>2, SortByOk
  <1>7. PICK p \in [1..Len(bs) -> 1..Len(bs)] :
          /\ \A i, j \in 1..Len(bs) : p[i] = p[j] => i = j
          /\ \A i \in 1..Len(bs) : SortBy(bs, bs)[i] = bs[p[i]]
    <2>1. Permutes(SortBy(bs, bs), bs)
      BY <1>1, <1>2, SortByOk
    <2> QED BY <2>1 DEF Permutes
  <1>8. ASSUME Separate(tag)
        PROVE  /\ \A i, j \in 1..Len(rs) : i # j => Span(SortBy(rs, key)[i]) \cap Span(SortBy(rs, key)[j]) = {}
               /\ \A i, j \in 1..Len(bs) : i # j => SortBy(bs, bs)[i] # SortBy(bs, bs)[j]
    <2>1. /\ \A i, j \in 1..Len(rs) : i # j => Span(rs[i]) \cap Span(rs[j]) = {}
          /\ \A i, j \in 1..Len(bs) : i # j => bs[i] # bs[j]
      BY <1>1, <1>8 DEF Separate, rs, bs
    <2>2. \A i, j \in 1..Len(rs) : i # j => o[i] # o[j] /\ o[i] \in 1..Len(rs) /\ o[j] \in 1..Len(rs)
      BY <1>5
    <2>3. \A i, j \in 1..Len(bs) : i # j => p[i] # p[j] /\ p[i] \in 1..Len(bs) /\ p[j] \in 1..Len(bs)
      BY <1>7
    <2>4. ASSUME NEW i \in 1..Len(rs), NEW j \in 1..Len(rs), i # j
          PROVE  Span(SortBy(rs, key)[i]) \cap Span(SortBy(rs, key)[j]) = {}
      <3>1. Span(rs[o[i]]) \cap Span(rs[o[j]]) = {}
        BY <2>1, <2>2, <2>4
      <3> QED BY <1>5, <3>1
    <2>5. ASSUME NEW i \in 1..Len(bs), NEW j \in 1..Len(bs), i # j
          PROVE  SortBy(bs, bs)[i] # SortBy(bs, bs)[j]
      <3>1. bs[p[i]] # bs[p[j]]
        BY <2>1, <2>3, <2>5
      <3> QED BY <1>7, <3>1
    <2> QED BY <2>4, <2>5
  <1> QED BY <1>3, <1>4, <1>6, <1>8 DEF rs, bs

\* The ranges of a tag are packed, and all of them.
RangesPacked(p, tag) ==
  /\ p \in PackStates /\ Held(p) = UNION {Span(r) : r \in ToSet(tag.ranges)}
  /\ Separate(tag) => Fresh(p)

LEMMA RangesChain ==
  ASSUME NEW tag \in TagType, NEW g, g[0] = Packing,
         \A k \in 1..Len(tag.ranges) : Keeps(g[k], g[k - 1], Span(SortedRanges(tag)[k]))
  PROVE  RangesPacked(g[Len(tag.ranges)], tag)
  <1> DEFINE n == Len(tag.ranges)
             s == SortedRanges(tag)
             D == [i \in 1..n |-> Span(s[i])]
  <1>1. n \in Nat /\ s \in Seq(Ranges) /\ Len(s) = n /\ DOMAIN s = 1..n /\ ToSet(s) = ToSet(tag.ranges)
    <2>1. tag.ranges \in Seq(Ranges)
      BY DEF TagType
    <2> QED BY <2>1, TagSorted
  <1>2. Separate(tag) => \A i, j \in 1..n : i # j => Span(s[i]) \cap Span(s[j]) = {}
    BY TagSorted
  <1>3. \A k \in 1..n : Keeps(g[k], g[k - 1], D[k])
    OBVIOUS
  <1>4. \A i \in 1..n : D[i] = Span(s[i])
    OBVIOUS
  <1> HIDE DEF n, s, D
  <1>5. /\ g[n] \in PackStates /\ Held(g[n]) = Held(g[0]) \cup UNION {D[i] : i \in 1..n}
        /\ /\ Fresh(g[0]) /\ \A i \in 1..n : D[i] \cap Held(g[0]) = {}
           /\ \A i, j \in 1..n : i # j => D[i] \cap D[j] = {}
           => Fresh(g[n])
    <2>1. Chain(g, D, n)
      BY <1>3, PackingStart DEF Chain
    <2> QED BY <1>1, <2>1, ChainKeeps
  <1>6. Held(g[0]) = {} /\ Fresh(g[0])
    BY PackingStart
  <1>7. (UNION {D[i] : i \in 1..n}) = UNION {Span(r) : r \in ToSet(s)}
    BY <1>1, <1>4 DEF ToSet
  <1>8. Separate(tag) => Fresh(g[n])
    BY <1>2, <1>4, <1>5, <1>6
  <1>9. Held(g[n]) = UNION {Span(r) : r \in ToSet(tag.ranges)}
    BY <1>1, <1>5, <1>6, <1>7
  <1> QED BY <1>5, <1>8, <1>9 DEF RangesPacked, n

\* The batches of a tag ask for its blocks, and for none twice if the tag does not.
Batched(q, tag) ==
  /\ q \in Seq(SUBSET Nat) /\ UNION ToSet(q) = TagBlocks(tag)
  /\ Separate(tag) => \A i, j \in 1..Len(q) : i # j => q[i] \cap q[j] = {}

\* Flushing keeps what is held.
LEMMA FlushedOk ==
  ASSUME NEW p \in PackStates
  PROVE  /\ Flushed(p) \in Seq(SUBSET Nat) /\ UNION ToSet(Flushed(p)) = Held(p)
         /\ Fresh(p) => \A i, j \in 1..Len(Flushed(p)) : i # j => Flushed(p)[i] \cap Flushed(p)[j] = {}
         /\ \A max \in Nat : SmallBatches(p, max) =>
              \A i \in 1..Len(Flushed(p)) : Cardinality(Flushed(p)[i]) <= max
  <1>1. CASE p.count > 0
    <2>1. PICK c \in PackStates : c = CloseBatch(p) /\ Flushed(p) = c.batches /\ c.cur = {}
      BY <1>1, CloseOk DEF Flushed, CloseBatch
    <2>2. /\ Held(c) = Held(p) /\ (Fresh(p) => Fresh(c))
          /\ \A max \in Nat : SmallBatches(p, max) => SmallBatches(c, max)
      BY <2>1, CloseOk
    <2>3. c.batches \in Seq(SUBSET Nat)
      BY DEF PackStates
    <2>4. UNION ToSet(c.batches) = Held(c)
      BY <2>1 DEF Held
    <2> QED BY <2>1, <2>2, <2>3, <2>4 DEF Fresh, SmallBatches
  <1>2. CASE ~(p.count > 0)
    <2>1. p.count = 0 /\ p.cur = {} /\ p.batches \in Seq(SUBSET Nat)
      BY <1>2 DEF PackStates
    <2>2. Flushed(p) = p.batches /\ UNION ToSet(p.batches) = Held(p)
      BY <1>2, <2>1 DEF Flushed, Held
    <2> QED BY <2>1, <2>2 DEF Fresh, SmallBatches
  <1> QED BY <1>1, <1>2

\* The single blocks after the ranges, and what is left.
LEMMA BlocksAfterRanges ==
  ASSUME NEW tag \in TagType, NEW p, RangesPacked(p, tag), NEW max \in Nat \ {0}
  PROVE  LET q == Flushed(PackBlocks(p, SortedBlocks(tag), max)[Len(tag.blocks)]) IN
         /\ Batched(q, tag)
         /\ SmallBatches(p, max) => \A i \in 1..Len(q) : Cardinality(q[i]) <= max
  <1> DEFINE s == SortedBlocks(tag)
             n == Len(tag.blocks)
             D == [i \in 1..n |-> {s[i]}]
  <1>1. /\ n \in Nat /\ s \in Seq(Nat) /\ Len(s) = n /\ DOMAIN s = 1..n /\ ToSet(s) = ToSet(tag.blocks)
    <2>1. tag.blocks \in Seq(Nat)
      BY DEF TagType
    <2> QED BY <2>1, TagSorted
  <1>2. Separate(tag) => \A i, j \in 1..n : i # j => s[i] # s[j]
    BY TagSorted
  <1>3. \A i \in 1..n : D[i] = {s[i]} /\ s[i] \in Nat
    BY <1>1
  <1>4. /\ p \in PackStates /\ Held(p) = UNION {Span(r) : r \in ToSet(tag.ranges)}
        /\ Separate(tag) => Fresh(p)
    BY DEF RangesPacked
  <1> HIDE DEF s, n, D
  <1>5. PICK g : /\ g = PackBlocks(p, s, max) /\ g[0] = p
                 /\ \A k \in 1..n : g[k - 1] \in PackStates /\ g[k] = PackBlock(g[k - 1], s[k], max)
    <2> DEFINE g == PackBlocks(p, s, max)
    <2>1. g[0] = p /\ \A k \in 1..Len(s) : g[k - 1] \in PackStates /\ g[k] = PackBlock(g[k - 1], s[k], max)
      BY <1>1, <1>4, BlocksRun
    <2> HIDE DEF g
    <2> QED BY <1>1, <2>1 DEF g
  <1> DEFINE q == Flushed(g[n])
  <1>6. \A k \in 1..n : Keeps(g[k], g[k - 1], D[k])
    BY <1>3, <1>5, PackBlockOk
  <1>7. /\ g[n] \in PackStates /\ Held(g[n]) = Held(g[0]) \cup UNION {D[i] : i \in 1..n}
        /\ /\ Fresh(g[0]) /\ \A i \in 1..n : D[i] \cap Held(g[0]) = {}
           /\ \A i, j \in 1..n : i # j => D[i] \cap D[j] = {}
           => Fresh(g[n])
    <2>1. Chain(g, D, n)
      BY <1>4, <1>5, <1>6 DEF Chain
    <2>2. n \in Nat
      BY <1>1
    <2> HIDE DEF Chain
    <2> QED BY <2>1, <2>2, ChainKeeps, Zenon
  <1>8. Held(g[n]) = TagBlocks(tag)
    <2>1. (UNION {D[i] : i \in 1..n}) = ToSet(tag.blocks)
      <3>1. ToSet(s) = {s[i] : i \in 1..n}
        BY <1>1 DEF ToSet
      <3>2. \A x : (x \in UNION {D[i] : i \in 1..n}) <=> \E i \in 1..n : x \in D[i]
        OBVIOUS
      <3>3. \A x : (x \in UNION {D[i] : i \in 1..n}) <=> x \in ToSet(s)
        BY <1>3, <3>1, <3>2
      <3> QED BY <1>1, <3>3
    <2> QED BY <1>4, <1>5, <1>7, <2>1 DEF TagBlocks, Span
  <1>9. ASSUME Separate(tag) PROVE Fresh(g[n])
    <2>1. \A i, j \in 1..n : i # j => D[i] \cap D[j] = {}
      BY <1>2, <1>3, <1>9
    <2>2. \A i \in 1..n : s[i] \in ToSet(tag.blocks)
      BY <1>1 DEF ToSet
    <2>3. \A b \in ToSet(tag.blocks), r \in ToSet(tag.ranges) : b \notin Span(r)
      BY <1>9 DEF Separate, ToSet
    <2>4. \A i \in 1..n : D[i] \cap Held(g[0]) = {}
      BY <1>3, <1>4, <1>5, <2>2, <2>3
    <2> QED BY <1>4, <1>5, <1>7, <1>9, <2>1, <2>4
  <1>10. ASSUME SmallBatches(p, max) PROVE SmallBatches(g[n], max)
    <2> DEFINE G == {k \in 0..n : SmallBatches(g[k], max)}
    <2>1. 0 \in G
      BY <1>1, <1>5, <1>10
    <2>2. ASSUME NEW k \in 1..n, k - 1 \in G PROVE k \in G
      <3>1. SmallBatches(PackBlock(g[k - 1], s[k], max), max)
        BY <1>3, <1>5, <2>2, PackBlockOk
      <3> QED BY <1>1, <1>5, <3>1
    <2>a. \A k \in 1..n : k - 1 \in G => k \in G
      BY <2>2
    <2>3. n \in G
      <3> HIDE DEF G
      <3>1. \A k \in 0..n : k \in G
        BY <1>1, <2>1, <2>a, UpTo
      <3> QED BY <1>1, <3>1
    <2> QED BY <2>3
  <1>11. /\ q \in Seq(SUBSET Nat) /\ UNION ToSet(q) = Held(g[n])
         /\ Fresh(g[n]) => \A i, j \in 1..Len(q) : i # j => q[i] \cap q[j] = {}
         /\ SmallBatches(g[n], max) => \A i \in 1..Len(q) : Cardinality(q[i]) <= max
    BY <1>7, FlushedOk
  <1> HIDE DEF q
  <1> QED BY <1>5, <1>8, <1>9, <1>10, <1>11 DEF Batched, q, s, n

\* buildBatches cuts a tag into batches that ask for exactly its blocks.
THEOREM HeaderBatches ==
  ASSUME NEW tag \in TagType
  PROVE  Batched(BuildBatches(tag), tag)
  <1> DEFINE g == PackHeaderRanges(SortedRanges(tag))
             n == Len(tag.ranges)
  <1>1. /\ SortedRanges(tag) \in Seq(Ranges) /\ Len(SortedRanges(tag)) = n
    BY TagSorted
  <1>2. g[0] = Packing /\ \A k \in 1..n : g[k - 1] \in PackStates /\ g[k] = PackHeaderRange(g[k - 1], SortedRanges(tag)[k])
    BY <1>1, HeaderRangesRun
  <1>3. \A k \in 1..n : SortedRanges(tag)[k] \in Ranges
    BY <1>1
  <1> HIDE DEF g
  <1>4. \A k \in 1..n : Keeps(g[k], g[k - 1], Span(SortedRanges(tag)[k]))
    BY <1>2, <1>3, PackHeaderRangeOk DEF Span
  <1>5. RangesPacked(g[n], tag)
    BY <1>2, <1>4, RangesChain
  <1> QED BY <1>5, BlocksAfterRanges, BatchingAssumption DEF BuildBatches, g

\* buildDataBatches does too, in batches of at most MaxData blocks.
THEOREM DataBatches ==
  ASSUME NEW tag \in TagType
  PROVE  /\ Batched(BuildDataBatches(tag), tag)
         /\ \A i \in 1..Len(BuildDataBatches(tag)) : Cardinality(BuildDataBatches(tag)[i]) <= MaxData
  <1> DEFINE g == PackDataRanges(SortedRanges(tag))
             n == Len(tag.ranges)
  <1>0. MaxData \in Nat \ {0} /\ MaxData \in Nat /\ 0 < MaxData
    BY BatchingAssumption
  <1>1. /\ SortedRanges(tag) \in Seq(Ranges) /\ Len(SortedRanges(tag)) = n /\ n \in Nat
    <2>1. tag.ranges \in Seq(Ranges)
      BY DEF TagType
    <2> QED BY <2>1, TagSorted
  <1>2. g[0] = Packing /\ \A k \in 1..n : g[k - 1] \in PackStates /\ g[k] = PackDataRange(g[k - 1], SortedRanges(tag)[k])
    BY <1>1, DataRangesRun
  <1>3. \A k \in 1..n : SortedRanges(tag)[k] \in Ranges
    BY <1>1
  <1> HIDE DEF g
  <1>4. \A k \in 1..n : Keeps(g[k], g[k - 1], Span(SortedRanges(tag)[k]))
    BY <1>2, <1>3, PackDataRangeOk DEF Span
  <1>5. RangesPacked(g[n], tag)
    BY <1>2, <1>4, RangesChain
  <1>6. SmallBatches(g[n], MaxData)
    <2> HIDE DEF n
    <2> DEFINE G == {k \in 0..n : SmallBatches(g[k], MaxData) /\ g[k].count < MaxData}
    <2>1. 0 \in G
      BY <1>0, <1>1, <1>2, PackingStart
    <2>2. \A k \in 1..n : k - 1 \in G => k \in G
      BY <1>1, <1>2, <1>3, PackDataRangeOk
    <2>3. n \in G
      <3> HIDE DEF G
      <3>1. \A k \in 0..n : k \in G
        BY <1>1, <2>1, <2>2, UpTo
      <3> QED BY <1>1, <3>1
    <2> QED BY <2>3
  <1>7. BuildDataBatches(tag) = Flushed(PackBlocks(g[n], SortedBlocks(tag), MaxData)[Len(tag.blocks)])
    BY DEF BuildDataBatches, g
  <1> HIDE DEF n
  <1> QED BY <1>0, <1>5, <1>6, <1>7, BlocksAfterRanges

\* DivideTags: the chunks of a full sync do not overlap.
LEMMA DivideTagsOk ==
  ASSUME NEW start \in Nat, NEW end \in Nat
  PROVE  DivideTags(start, end) \in TagType /\ Separate(DivideTags(start, end))
  <1> DEFINE m == MaxHeaders
             chunks == IF start > end THEN 0 ELSE (end - start) \div m + 1
             from(i) == start + (i - 1) * m
             upto(i) == IF from(i) + m - 1 > end THEN end ELSE from(i) + m - 1
             ranges == [i \in 1..chunks |-> RangeTag(from(i), upto(i))]
  <1>0. m \in Nat \ {0}
    BY BatchingAssumption
  <1>1. DivideTags(start, end) = Tag(ranges, <<>>)
    BY DEF DivideTags
  <1>2. chunks \in Nat
    <2>1. CASE start > end
      BY <2>1
    <2>2. CASE ~(start > end)
      <3>1. end - start \in Nat
        BY <2>2
      <3>2. PICK q \in Nat : q = (end - start) \div m
        BY <1>0, <3>1, DivBounds
      <3>3. chunks = q + 1
        BY <2>2, <3>2
      <3> QED BY <3>2, <3>3
    <2> QED BY <2>1, <2>2
  <1>3. ASSUME NEW i \in 1..chunks
        PROVE  from(i) \in Nat /\ from(i) <= end /\ upto(i) \in Nat /\ from(i) <= upto(i) /\ upto(i) < from(i) + m
    <2>1. ~(start > end) /\ end - start \in Nat
      OBVIOUS
    <2>2. PICK q \in Nat, d \in Nat : q = (end - start) \div m /\ d = q * m /\ d <= end - start
      BY <1>0, <2>1, DivBounds
    <2>3. i - 1 \in Nat /\ i - 1 <= q
      BY <2>1, <2>2
    <2>4. PICK a \in Nat : a = (i - 1) * m /\ a <= d
      <3>1. PICK j \in Nat : j = i - 1 /\ j <= q
        BY <2>3
      <3>2. j * m \in Nat /\ j * m <= q * m
        BY <1>0, <3>1, Products, Monotone
      <3> QED BY <2>2, <3>1, <3>2
    <2>5. from(i) = start + a
      BY <2>4
    <2> HIDE DEF from, m
    <2> QED BY <1>0, <2>1, <2>2, <2>4, <2>5
  <1> HIDE DEF chunks
  <1>4. \A i \in 1..chunks : ranges[i] = RangeTag(from(i), upto(i)) /\ ranges[i] \in Ranges
                             /\ Span(ranges[i]) = from(i)..upto(i)
    <2> TAKE i \in 1..chunks
    <2>1. ranges[i] = RangeTag(from(i), upto(i))
      OBVIOUS
    <2>2. from(i) \in Nat /\ upto(i) \in Nat /\ from(i) <= upto(i)
      BY <1>3
    <2> HIDE DEF from, upto, ranges
    <2> QED BY <2>1, <2>2 DEF RangeTag, Ranges, Span
  <1>5. DOMAIN ranges = 1..chunks /\ ranges \in [1..chunks -> Ranges]
    <2>1. DOMAIN ranges = 1..chunks /\ ranges = [i \in 1..chunks |-> ranges[i]]
      OBVIOUS
    <2> HIDE DEF ranges
    <2> QED BY <1>4, <2>1
  <1>6. \A i, j \in 1..chunks : i < j => upto(i) < from(j)
    <2> SUFFICES ASSUME NEW i \in 1..chunks, NEW j \in 1..chunks, i < j PROVE upto(i) < from(j)
      OBVIOUS
    <2>1. PICK a \in Nat, b \in Nat : a = i - 1 /\ b = j - 1 /\ a + 1 <= b
      BY <1>2
    <2>2. PICK c \in Nat, d \in Nat : c = a * m /\ d = b * m /\ c + m <= d
      <3>1. a + 1 \in Nat
        OBVIOUS
      <3>2. (a + 1) * m <= b * m /\ (a + 1) * m = a * m + m /\ a * m \in Nat /\ b * m \in Nat
        BY <1>0, <2>1, <3>1, Monotone, Products
      <3> QED BY <3>2
    <2>3. from(i) = start + c /\ from(j) = start + d
      BY <2>1, <2>2
    <2>4. upto(i) < from(i) + m /\ upto(i) \in Nat
      BY <1>3
    <2> HIDE DEF from, upto, m
    <2> QED BY <1>0, <2>2, <2>3, <2>4
  <1> HIDE DEF ranges
  <1>7. DivideTags(start, end) \in TagType
    <2>1. ranges \in Seq(Ranges)
      BY <1>2, <1>5
    <2> QED BY <1>1, <2>1 DEF Tag, TagType
  <1>8. \A i, j \in 1..chunks : i < j => Span(ranges[i]) \cap Span(ranges[j]) = {}
    <2> SUFFICES ASSUME NEW i \in 1..chunks, NEW j \in 1..chunks, i < j
                 PROVE  Span(ranges[i]) \cap Span(ranges[j]) = {}
      OBVIOUS
    <2>1. Span(ranges[i]) = from(i)..upto(i) /\ Span(ranges[j]) = from(j)..upto(j)
      BY <1>4
    <2>2. upto(i) < from(j) /\ from(i) \in Nat /\ upto(i) \in Nat /\ from(j) \in Nat /\ upto(j) \in Nat
      BY <1>3, <1>6
    <2> HIDE DEF from, upto
    <2> QED BY <2>1, <2>2
  <1>9. Separate(DivideTags(start, end))
    <2>1. DivideTags(start, end).ranges = ranges /\ DivideTags(start, end).blocks = <<>>
      BY <1>1 DEF Tag
    <2>2. \A i, j \in 1..chunks : i # j => i < j \/ j < i
      BY <1>2
    <2>3. DOMAIN <<>> = {}
      OBVIOUS
    <2>4. \A i, j \in 1..chunks : i # j => Span(ranges[i]) \cap Span(ranges[j]) = {}
      BY <1>8, <2>2
    <2> QED BY <1>5, <2>1, <2>3, <2>4 DEF Separate
  <1> QED BY <1>7, <1>9

\* A tag of one range.
LEMMA OneRangeOk ==
  ASSUME NEW a \in Nat, NEW b \in Nat, a <= b
  PROVE  Tag(<<RangeTag(a, b)>>, <<>>) \in TagType /\ Separate(Tag(<<RangeTag(a, b)>>, <<>>))
  <1>1. RangeTag(a, b) \in Ranges
    BY DEF RangeTag, Ranges
  <1>2. <<RangeTag(a, b)>> \in Seq(Ranges) /\ DOMAIN <<RangeTag(a, b)>> = {1}
    BY <1>1
  <1>3. Tag(<<RangeTag(a, b)>>, <<>>).ranges = <<RangeTag(a, b)>> /\ Tag(<<RangeTag(a, b)>>, <<>>).blocks = <<>>
    BY DEF Tag
  <1>4. DOMAIN <<>> = {}
    OBVIOUS
  <1>5. Tag(<<RangeTag(a, b)>>, <<>>) \in TagType
    BY <1>2 DEF Tag, TagType
  <1> QED BY <1>2, <1>3, <1>4, <1>5 DEF Separate

Phases == {"header", "data"}

-----------------------------------------------------------------------------
(* The blocks of an instance.                                              *)

\* Every block of a remote or of the client's first database is in Blocks.
LEMMA BlocksBound ==
  /\ Blocks \subseteq Nat /\ IsFiniteSet(Blocks) /\ InitialBlocks \subseteq Blocks
  /\ Remotes = 1..Len(Serves) /\ Len(Serves) \in Nat /\ Remotes # {}
  /\ \A r \in Remotes : /\ Serves[r] \subseteq Blocks
                        /\ Tip(r) \in Serves[r] /\ \A b \in Serves[r] : b <= Tip(r)
  <1> DEFINE All == (UNION {Serves[r] : r \in Remotes}) \cup InitialBlocks
  <1>1. /\ Remotes = 1..Len(Serves) /\ Len(Serves) \in Nat /\ Remotes # {}
        /\ \A r \in Remotes : Serves[r] \in SUBSET Nat /\ IsFiniteSet(Serves[r]) /\ Serves[r] # {}
    BY BlockSyncAssumption DEF Remotes
  <1>2. \A r \in Remotes : Tip(r) \in Serves[r] /\ \A b \in Serves[r] : b <= Tip(r)
    BY <1>1, MaxFinite DEF Tip
  <1> DEFINE G == {n \in 0..Len(Serves) : \E b \in Nat : \A r \in 1..n : \A x \in Serves[r] : x <= b}
  <1>3. 0 \in G
    BY <1>1
  <1>4. ASSUME NEW n \in 1..Len(Serves), n - 1 \in G PROVE n \in G
    <2>1. PICK b \in Nat : \A r \in 1..n - 1 : \A x \in Serves[r] : x <= b
      BY <1>4
    <2>2. n \in Remotes /\ Tip(n) \in Nat /\ \A x \in Serves[n] : x \in Nat /\ x <= Tip(n)
      BY <1>1, <1>2
    <2>3. \A r \in 1..n : r \in 1..n - 1 \/ r = n
      BY <1>1
    <2>4. \A r \in 1..n - 1 : r \in Remotes /\ Serves[r] \subseteq Nat
      BY <1>1
    <2>5. PICK m \in Nat : \A r \in 1..n : \A x \in Serves[r] : x <= m
      <3> DEFINE m == b + Tip(n)
      <3>1. m \in Nat
        BY <2>2
      <3>2. \A r \in 1..n : \A x \in Serves[r] : x <= m
        BY <2>1, <2>2, <2>3, <2>4
      <3> HIDE DEF m
      <3> QED BY <3>1, <3>2
    <2>6. n \in 0..Len(Serves)
      BY <1>1
    <2> QED BY <2>5, <2>6
  <1>5. Len(Serves) \in G
    <2>1. \A n \in 1..Len(Serves) : n - 1 \in G => n \in G
      BY <1>4
    <2>2. Len(Serves) \in 0..Len(Serves)
      BY <1>1
    <2> HIDE DEF G
    <2>3. \A n \in 0..Len(Serves) : n \in G
      BY <1>1, <1>3, <2>1, UpTo
    <2> QED BY <2>2, <2>3
  <1>6. PICK b \in Nat : \A r \in Remotes : \A x \in Serves[r] : x <= b
    BY <1>1, <1>5
  <1>7. InitialBlocks \in SUBSET Nat /\ InitialBlocks # {}
    BY BlockSyncAssumption
  <1>8. PICK m \in Nat : \A x \in InitialBlocks : x <= m
    BY <1>7, BlockSyncAssumption, MaxFinite
  <1>0. \A x : x \in All <=> x \in InitialBlocks \/ \E r \in Remotes : x \in Serves[r]
    OBVIOUS
  <1>e. Blocks = 0..Max(All)
    BY DEF Blocks
  <1> HIDE DEF All
  <1>a. All \in SUBSET Nat /\ All # {}
    BY <1>0, <1>1, <1>7
  <1>b. \A x \in All : x <= b + m
    <2> TAKE x \in All
    <2>1. x \in Nat /\ (x <= b \/ x <= m)
      BY <1>0, <1>6, <1>8, <1>a
    <2> QED BY <2>1
  <1>9. \E x \in All : \A y \in All : x >= y
    <2>1. b + m \in Nat
      OBVIOUS
    <2> QED BY <1>a, <1>b, <2>1, GreatestExists
  <1>10. Max(All) \in All /\ \A y \in All : Max(All) >= y
    BY <1>9 DEF Max
  <1>11. Blocks = 0..Max(All) /\ Max(All) \in Nat
    BY <1>a, <1>10, <1>e
  <1>12. All \subseteq Blocks
    <2>1. \A x \in All : x \in Nat /\ x <= Max(All)
      BY <1>a, <1>10
    <2> QED BY <1>11, <2>1
  <1>13. Blocks \subseteq Nat /\ IsFiniteSet(Blocks)
    BY <1>11, FS_Interval
  <1>14. InitialBlocks \subseteq Blocks /\ \A r \in Remotes : Serves[r] \subseteq Blocks
    BY <1>0, <1>12
  <1> QED BY <1>1, <1>2, <1>13, <1>14

-----------------------------------------------------------------------------
(* The log comes first.                                                    *)

\* A batch that is about to be stored is in the WAL.
LogInv ==
  /\ phase \in Phases
  /\ pc = "store" => Logged(phase, cur.blocks) \subseteq wal
  /\ StoredIsLogged

LEMMA LogInit == Init => LogInv
  BY DEF Init, LogInv, StoredIsLogged, Logged, Phases

\* Steps that neither write nor store: the WAL keeps what it has.
LEMMA LogKept ==
  ASSUME LogInv, phase' \in Phases, wal \subseteq wal', headers' = headers, bodies' = bodies,
         pc' # "store"
  PROVE  LogInv'
  BY DEF LogInv, StoredIsLogged, Logged

LEMMA LogStep == LogInv /\ [Next]_vars => LogInv'
  <1> SUFFICES ASSUME LogInv, [Next]_vars PROVE LogInv'
    OBVIOUS
  <1>0. phase \in Phases
    BY DEF LogInv
  <1>1. CASE StartPriorSync \/ StartCatchUp \/ StartGapFill \/ StartFails
    BY <1>0, <1>1, LogKept DEF StartPriorSync, StartCatchUp, StartGapFill, StartFails,
       CallHeaderSync, Launch, dbVars, callVars, Phases
  <1>2. CASE CollectHeaders \/ HeadersCollected \/ NextHeaders
    BY <1>0, <1>2, LogKept DEF CollectHeaders, HeadersCollected, NextHeaders, Write, Fail,
       dbVars, callVars, Phases
  <1>3. CASE SkipConfirmation \/ SyncConfirmation
    BY <1>0, <1>3, LogKept DEF SkipConfirmation, SyncConfirmation, NextRound, CallDataSync,
       Launch, Fail, dbVars, callVars, Phases
  <1>4. CASE CollectData \/ NextData \/ DataFinished
    BY <1>0, <1>4, LogKept DEF CollectData, NextData, DataFinished, Write, Fail, dbVars, callVars
  <1>5. CASE LogBatch
    <2>1. CASE wal' = wal \cup Logged(phase, cur.blocks) /\ pc' = "store"
      BY <1>5, <2>1 DEF LogBatch, LogInv, StoredIsLogged, writeVars
    <2>2. CASE Fail /\ wal' = wal
      BY <1>0, <1>5, <2>2, LogKept DEF LogBatch, Fail
    <2> QED BY <1>5, <2>1, <2>2 DEF LogBatch
  <1>6. CASE StoreBatch
    <2>1. CASE Fail /\ headers' = headers /\ bodies' = bodies
      BY <1>0, <1>6, <2>1, LogKept DEF StoreBatch, Fail
    <2>2. CASE phase = "header" /\ headers' = headers \cup cur.blocks /\ bodies' = bodies /\ pc' = "next"
      BY <1>6, <2>2 DEF StoreBatch, LogInv, StoredIsLogged, Logged
    <2>3. CASE phase = "data" /\ bodies' = bodies \cup cur.blocks /\ headers' = headers /\ pc' = "next"
      BY <1>6, <2>3 DEF StoreBatch, LogInv, StoredIsLogged, Logged
    <2> QED BY <1>0, <1>6, <2>1, <2>2, <2>3 DEF StoreBatch, Phases
  <1>7. CASE Crash \/ Restart
    BY <1>0, <1>7, LogKept DEF Crash, Restart, dbVars, callVars, Phases
  <1>8. CASE \E w \in Workers : Work(w)
    BY <1>8 DEF Work, TakeJob, FetchOk, FetchFails, SkipRemote, SendResult, InWorkers, dbVars, writeVars,
       callVars, LogInv, StoredIsLogged
  <1>9. CASE UNCHANGED vars
    BY <1>9 DEF vars, dbVars, writeVars, callVars, LogInv, StoredIsLogged
  <1> QED BY <1>1, <1>2, <1>3, <1>4, <1>5, <1>6, <1>7, <1>8, <1>9 DEF Next, Step

\* Whatever the database gained is in the WAL, through failed writes, crashes and
\* repeated sessions.
THEOREM LogFirst == Spec => []StoredIsLogged
  <1>1. LogInv => StoredIsLogged
    BY DEF LogInv
  <1> QED BY LogInit, LogStep, <1>1, PTL DEF Spec

-----------------------------------------------------------------------------
(* The worker pool.                                                        *)

Active == {"fetch", "next", "log", "store"}   \* a phase is under way
Result == [id : Nat, blocks : SUBSET Blocks, ok : BOOLEAN, tries : SUBSET (Nat \X Nat)]
WorkerState == [pc : {"take", "fetch", "send", "exited"}, job : Nat, remote : Nat, attempt : Nat,
                res : Result]

PoolTypeOK ==
  /\ headers \in SUBSET Blocks /\ headers # {}
  /\ phase \in Phases /\ peers \in Seq(Remotes) /\ nextJob \in Nat \ {0}
  /\ worker \in [Workers -> WorkerState]
  /\ resultCh \in Seq(Result) /\ results \in SUBSET Result /\ cur \in Result

\* A result without an answer has been asked for wherever it can be, MaxRetries times.
Exhausted(r) == ~r.ok => r.tries = Askable \X (1..MaxRetries)

\* The attempts before attempt a at the k-th remote.
Counted(k, a) ==
  {t \in Askable \X (1..MaxRetries) : t[1] < k \/ (t[1] = k /\ t[2] < a)}

\* A worker that fetches has counted its attempts, at this remote and those before.
AttemptsCounted(me) ==
  /\ me.pc # "exited" => peers # <<>>
  /\ me.pc = "fetch" => /\ me.remote \in 1..Len(peers) /\ me.attempt \in 1..MaxRetries
                        /\ me.res.tries = Counted(me.remote, me.attempt)
  /\ me.pc = "send" => Exhausted(me.res)

PoolInv ==
  /\ PoolTypeOK
  /\ pc \in Active => peers # <<>>
  /\ \A w \in Workers : AttemptsCounted(worker[w])
  /\ \A r \in results : Exhausted(r)
  /\ \A i \in 1..Len(resultCh) : Exhausted(resultCh[i])

LEMMA IdleState == \A state \in {"take", "exited"} : /\ Idle(state) \in WorkerState
                                                     /\ Idle(state).pc = state
                                                     /\ Idle(state).res = NoResult
  BY DEF Idle, WorkerState, Result, NoResult

LEMMA NoResultType == NoResult \in Result /\ NoResult.ok = TRUE
  BY DEF NoResult, Result

LEMMA PoolInit == Init => PoolInv
  <1> SUFFICES ASSUME Init PROVE PoolInv
    OBVIOUS
  <1>1. headers \in SUBSET Blocks /\ headers # {} /\ phase \in Phases
    BY BlocksBound, BlockSyncAssumption DEF Init, Phases
  <1>2. worker \in [Workers -> WorkerState] /\ \A w \in Workers : worker[w].pc = "exited"
    BY IdleState DEF Init
  <1>3. peers = <<>> /\ resultCh = <<>> /\ results = {} /\ cur \in Result /\ nextJob = 1 /\ pc = "start"
    BY NoResultType DEF Init
  <1>4. peers \in Seq(Remotes) /\ resultCh \in Seq(Result) /\ Len(resultCh) = 0
    BY <1>3
  <1> QED BY <1>1, <1>2, <1>3, <1>4 DEF PoolInv, PoolTypeOK, AttemptsCounted, Active

\* A pool is started: nothing is left of the one before.
LEMMA PoolLaunch ==
  ASSUME PoolInv, NEW batches, Launch(batches), headers' = headers, phase' \in Phases,
         peers' \in Seq(Remotes), peers' # <<>>
  PROVE  PoolInv'
  <1>1. worker' \in [Workers -> WorkerState] /\ \A w \in Workers : worker'[w].pc \in {"take", "exited"}
    <2>1. \A w \in Workers : (IF w <= Len(batches) THEN "take" ELSE "exited") \in {"take", "exited"}
      OBVIOUS
    <2> QED BY <2>1, IdleState DEF Launch
  <1>2. resultCh' = <<>> /\ results' = {} /\ cur' \in Result /\ nextJob' = 1 /\ pc' = "fetch"
    BY NoResultType DEF Launch
  <1>3. resultCh' \in Seq(Result) /\ Len(resultCh') = 0
    BY <1>2
  <1>4. PoolTypeOK'
    BY <1>1, <1>2, <1>3 DEF PoolInv, PoolTypeOK
  <1>5. \A w \in Workers : AttemptsCounted(worker[w])'
    BY <1>1 DEF AttemptsCounted
  <1> QED BY <1>2, <1>3, <1>4, <1>5 DEF PoolInv

\* The session goroutine takes results or writes; the workers go on.
LEMMA PoolKept ==
  ASSUME PoolInv, headers' \in SUBSET Blocks, headers' # {}, phase' = phase, UNCHANGED <<peers, worker, nextJob>>,
         pc' \in Active => pc \in Active,
         resultCh' \in Seq(Result), results' \in SUBSET Result, cur' \in Result,
         \A r \in results' : r \in results \/ Exhausted(r),
         \A i \in 1..Len(resultCh') : Exhausted(resultCh'[i])
  PROVE  PoolInv'
  BY DEF PoolInv, PoolTypeOK, AttemptsCounted, Exhausted, Counted, Askable

\* The orders in which remotes answer.
LEMMA OrdersType ==
  ASSUME NEW order \in Orders
  PROVE  order \in Seq(Remotes) /\ order # <<>> /\ order[1] \in Remotes
  <1>1. PICK S \in Answering : order \in SetToSeqs(S)
    BY DEF Orders
  <1>2. S \in SUBSET Remotes /\ S # {} /\ IsFiniteSet(S)
    <2>1. IsFiniteSet(Remotes)
      <3>1. Remotes = 1..Len(Serves) /\ 1 \in Int /\ Len(Serves) \in Int
        BY BlocksBound
      <3> QED BY <3>1, FS_Interval
    <2> QED BY <2>1, FS_Subset DEF Answering
  <1>3. Cardinality(S) \in Nat \ {0}
    BY <1>2, FS_CardinalityType, FS_EmptySet
  <1>4. order \in [1..Cardinality(S) -> S]
    BY <1>1 DEF SetToSeqs
  <1> QED BY <1>2, <1>3, <1>4

\* The steps of the session goroutine.
LEMMA PoolSession ==
  ASSUME PoolInv, Step \/ Crash \/ Restart
  PROVE  PoolInv'
  <1> USE DEF Active
  <1>0. /\ headers \in SUBSET Blocks /\ headers # {} /\ phase \in Phases /\ peers \in Seq(Remotes)
        /\ resultCh \in Seq(Result) /\ results \in SUBSET Result /\ cur \in Result /\ NoResult \in Result
        /\ \A r \in results : Exhausted(r)
        /\ \A i \in 1..Len(resultCh) : resultCh[i] \in Result /\ Exhausted(resultCh[i])
        /\ pc \in Active => peers # <<>>
    BY NoResultType DEF PoolInv, PoolTypeOK
  <1>a. ASSUME NEW batches, Launch(batches), headers' = headers, phase' \in Phases, pc \in Active, peers' = peers
        PROVE  PoolInv'
    BY <1>0, <1>a, PoolLaunch
  <1>b. ASSUME NEW tag, NEW order, NEW x, CallHeaderSync(tag, order, x), order \in Orders, headers' = headers
        PROVE  PoolInv'
    BY <1>b, PoolLaunch, OrdersType DEF CallHeaderSync, Phases
  <1>c. ASSUME headers' = headers, phase' = phase, UNCHANGED <<peers, worker, nextJob, resultCh, results, cur>>,
               pc' \in Active => pc \in Active
        PROVE  PoolInv'
    BY <1>0, <1>c, PoolKept
  <1>d. ASSUME resultCh # <<>>
        PROVE  /\ Head(resultCh) \in Result /\ Exhausted(Head(resultCh)) /\ Tail(resultCh) \in Seq(Result)
               /\ \A i \in 1..Len(Tail(resultCh)) : Exhausted(Tail(resultCh)[i])
    <2>1. Len(resultCh) \in Nat /\ Len(resultCh) > 0 /\ Head(resultCh) = resultCh[1]
      BY <1>0, <1>d
    <2>2. /\ Tail(resultCh) \in Seq(Result) /\ Len(Tail(resultCh)) = Len(resultCh) - 1
          /\ \A i \in 1..Len(resultCh) - 1 : Tail(resultCh)[i] = resultCh[i + 1]
      BY <1>0, <1>d
    <2> QED BY <1>0, <2>1, <2>2
  <1>1. CASE StartPriorSync
    <2>1. CASE \E order \in Orders : \E tag : CallHeaderSync(tag, order, TRUE)
      BY <1>1, <1>b, <2>1 DEF StartPriorSync
    <2>2. CASE pc' = "done" /\ phase' = "header" /\ NoLaunch /\ peers' = peers
      <3>1. UNCHANGED <<worker, nextJob, resultCh, results, cur, headers>>
        BY <1>1, <2>2 DEF StartPriorSync, NoLaunch, poolVars, writeVars
      <3> QED BY <1>0, <2>2, <3>1
          DEF PoolInv, PoolTypeOK, AttemptsCounted, Exhausted, Counted, Askable, Phases
    <2> QED BY <1>1, <2>1, <2>2 DEF StartPriorSync
  <1>2. CASE StartCatchUp
    <2>1. PICK order \in Orders : LET f == FilterAvailable(order, Height + 1) IN
            \/ f # <<>> /\ CallHeaderSync(CatchUpTag(Height + 1), f, FALSE)
            \/ pc' = "failed" /\ NoLaunch /\ phase' = phase /\ peers' = peers
      BY <1>2 DEF StartCatchUp
    <2>2. CASE CallHeaderSync(CatchUpTag(Height + 1), order, FALSE)
      BY <1>2, <1>b, <2>2 DEF StartCatchUp, dbVars
    <2>3. CASE pc' = "failed" /\ NoLaunch /\ phase' = phase /\ peers' = peers
      BY <1>2, <1>c, <2>3 DEF StartCatchUp, NoLaunch, poolVars, writeVars, dbVars
    <2> QED BY <2>1, <2>2, <2>3 DEF FilterAvailable
  <1>3. CASE StartGapFill
    BY <1>3, <1>b DEF StartGapFill, dbVars
  <1>4. CASE StartFails
    BY <1>4, <1>c DEF StartFails, NoLaunch, poolVars, writeVars, dbVars, callVars
  <1>5. CASE CollectHeaders
    BY <1>0, <1>5, <1>d, PoolKept DEF CollectHeaders, dbVars, callVars
  <1>6. CASE HeadersCollected
    BY <1>6, <1>c DEF HeadersCollected, poolVars, writeVars, dbVars, Fail
  <1>7. CASE NextHeaders
    BY <1>0, <1>7, PoolKept DEF NextHeaders, Write, poolVars, dbVars, callVars
  <1>8. CASE SkipConfirmation
    BY <1>8, <1>a DEF SkipConfirmation, CallDataSync, dbVars, Phases
  <1>9. CASE SyncConfirmation
    <2>1. CASE CallDataSync
      BY <1>9, <1>a, <2>1 DEF SyncConfirmation, CallDataSync, dbVars, Phases
    <2>2. CASE \E tag : Launch(Plan(tag).header) /\ peers' = peers /\ phase' = phase
      BY <1>0, <1>9, <1>a, <2>2 DEF SyncConfirmation, dbVars
    <2>3. CASE Fail /\ NoLaunch /\ phase' = phase /\ peers' = peers
      BY <1>9, <1>c, <2>3 DEF SyncConfirmation, NoLaunch, Fail, poolVars, writeVars, dbVars
    <2> QED BY <1>9, <2>1, <2>2, <2>3 DEF SyncConfirmation, NextRound
  <1>10. CASE CollectData
    <2>1. resultCh # <<>> /\ resultCh' = Tail(resultCh) /\ pc \in Active
      BY <1>10 DEF CollectData
    <2>2. results' \in SUBSET Result /\ cur' \in Result /\ \A r \in results' : r \in results \/ Exhausted(r)
      BY <1>0, <1>10, <1>d, <2>1 DEF CollectData, Write
    <2> QED BY <1>0, <1>10, <1>d, <2>1, <2>2, PoolKept DEF CollectData, dbVars
  <1>11. CASE NextData
    <2>1. results' \in SUBSET results /\ cur' \in Result
      BY <1>0, <1>11 DEF NextData, Write
    <2> QED BY <1>0, <1>11, <2>1, PoolKept DEF NextData, poolVars, dbVars, callVars
  <1>12. CASE DataFinished
    BY <1>12, <1>c DEF DataFinished, poolVars, writeVars, dbVars, callVars
  <1>13. CASE LogBatch
    BY <1>13, <1>c DEF LogBatch, poolVars, writeVars, Fail
  <1>14. CASE StoreBatch
    <2>1. headers' \in SUBSET Blocks /\ headers' # {}
      BY <1>0, <1>14 DEF StoreBatch, Result
    <2> QED BY <1>0, <1>14, <2>1, PoolKept DEF StoreBatch, poolVars
  <1>15. CASE Crash
    <2>1. worker' \in [Workers -> WorkerState] /\ \A w \in Workers : worker'[w].pc = "exited"
      BY <1>15, IdleState DEF Crash
    <2>2. resultCh' = <<>> /\ resultCh' \in Seq(Result) /\ Len(resultCh') = 0
      BY <1>15 DEF Crash
    <2>3. PoolTypeOK'
      BY <1>15, <2>1, <2>2 DEF Crash, PoolInv, PoolTypeOK, dbVars, callVars
    <2>4. \A w \in Workers : AttemptsCounted(worker[w])'
      BY <2>1 DEF AttemptsCounted
    <2> QED BY <1>15, <2>2, <2>3, <2>4 DEF Crash, PoolInv
  <1>16. CASE Restart
    <2>2. resultCh' = <<>> /\ resultCh' \in Seq(Result) /\ Len(resultCh') = 0 /\ peers' \in Seq(Remotes)
      BY <1>16 DEF Restart
    <2>3. PoolTypeOK'
      BY <1>0, <1>16, <2>2 DEF Restart, PoolInv, PoolTypeOK, dbVars, Phases
    <2>4. \A w \in Workers : AttemptsCounted(worker[w])'
      BY <1>16 DEF AttemptsCounted, Restart
    <2> QED BY <1>16, <2>2, <2>3, <2>4 DEF Restart, PoolInv
  <1> QED BY <1>1, <1>2, <1>3, <1>4, <1>5, <1>6, <1>7, <1>8, <1>9, <1>10, <1>11, <1>12, <1>13, <1>14,
             <1>15, <1>16 DEF Step

\* A worker moves to a state that keeps its account.
LEMMA PoolWorker ==
  ASSUME PoolInv, NEW w \in Workers, NEW state \in WorkerState, SetWorker(w, state), InWorkers,
         AttemptsCounted(state), nextJob' \in Nat \ {0}, resultCh' \in Seq(Result),
         \A i \in 1..Len(resultCh') : Exhausted(resultCh'[i])
  PROVE  PoolInv'
  <1>1. UNCHANGED <<headers, phase, peers, results, cur, pc>>
    BY DEF InWorkers, dbVars, writeVars, callVars
  <1>2. worker' \in [Workers -> WorkerState] /\ worker'[w] = state
        /\ \A v \in Workers \ {w} : worker'[v] = worker[v]
    BY DEF SetWorker, PoolInv, PoolTypeOK
  <1>3. PoolTypeOK'
    BY <1>1, <1>2 DEF PoolInv, PoolTypeOK
  <1>4. \A me : AttemptsCounted(me)' <=> AttemptsCounted(me)
    BY <1>1 DEF AttemptsCounted, Exhausted, Counted, Askable
  <1>5. \A v \in Workers : AttemptsCounted(worker'[v])
    BY <1>2 DEF PoolInv
  <1> QED BY <1>1, <1>3, <1>4, <1>5 DEF PoolInv, AttemptsCounted, Exhausted, Counted, Askable

\* What a remote returns are blocks.
LEMMA FetchedBlocks ==
  ASSUME PoolInv, NEW w \in Workers, worker[w].pc = "fetch"
  PROVE  Fetched(w) \in SUBSET Blocks
  <1>1. worker[w].remote \in 1..Len(peers) /\ peers \in Seq(Remotes)
    BY DEF PoolInv, AttemptsCounted, PoolTypeOK
  <1>2. peers[worker[w].remote] \in Remotes
    BY <1>1
  <1> QED BY <1>2, BlocksBound DEF Fetched

\* The states a worker sends from.
LEMMA SendState == \A x : [Idle("send") EXCEPT !.res = x] =
    [pc |-> "send", job |-> 0, remote |-> 1, attempt |-> 1, res |-> x]
  BY DEF Idle

\* What they send: an answer, or the count of the attempts.
LEMMA OkResult ==
  ASSUME NEW i \in Nat, NEW b \in SUBSET Blocks
  PROVE  LET r == [NoResult EXCEPT !.id = i, !.blocks = b] IN
         r \in Result /\ r.id = i /\ r.blocks = b /\ r.ok = TRUE /\ r.tries = {}
  <1> DEFINE set(r) == [r EXCEPT !.id = i, !.blocks = b]
  <1>1. \A r \in Result : set(r) \in Result /\ set(r).id = i /\ set(r).blocks = b /\ set(r).tries = r.tries
    BY DEF Result
  <1>2. \A r \in Result : set(r).ok = r.ok
    BY DEF Result
  <1>3. NoResult \in Result /\ NoResult.tries = {} /\ NoResult.ok = TRUE
    BY DEF NoResult, Result
  <1> HIDE DEF set
  <1>4. set(NoResult) \in Result /\ set(NoResult).id = i /\ set(NoResult).blocks = b /\ set(NoResult).tries = {}
    BY <1>1, <1>3
  <1>5. set(NoResult).ok = TRUE
    BY <1>2, <1>3
  <1> QED BY <1>4, <1>5 DEF set

LEMMA FailedResult ==
  ASSUME NEW r \in Result, NEW i \in Nat
  PROVE  LET f == [r EXCEPT !.id = i, !.ok = FALSE] IN
         f \in Result /\ f.id = i /\ f.ok = FALSE /\ f.tries = r.tries
  <1> DEFINE f(z) == [r EXCEPT !.id = i, !.ok = z]
  <1>1. \A z \in BOOLEAN : f(z) \in Result /\ f(z).id = i /\ f(z).tries = r.tries
    BY DEF Result
  <1>2. \A z \in BOOLEAN : f(z).ok = z
    BY DEF Result
  <1> HIDE DEF f
  <1>3. f(FALSE) \in Result /\ f(FALSE).id = i /\ f(FALSE).tries = r.tries
    BY <1>1
  <1>4. f(FALSE).ok = FALSE
    BY <1>2
  <1> QED BY <1>3, <1>4 DEF f

\* How the attempts add up, at one remote and from one to the next.
LEMMA CountedStart == peers \in Seq(Remotes) => Counted(1, 1) = {}
  BY BlockSyncAssumption DEF Counted, Askable

LEMMA CountedAgain ==
  ASSUME NEW k \in Askable, NEW a \in 1..MaxRetries, MaxRetries \in Nat, peers \in Seq(Remotes)
  PROVE  Counted(k, a) \cup {<<k, a>>} = Counted(k, a + 1)
  <1>1. \A t \in Askable \X (1..MaxRetries) :
          /\ t = <<t[1], t[2]>> /\ t[1] \in Nat /\ t[2] \in Nat
    BY DEF Askable
  <1>2. <<k, a>> \in Askable \X (1..MaxRetries) /\ k \in Nat
    BY DEF Askable
  <1>3. Counted(k, a) \cup {<<k, a>>} \subseteq Counted(k, a + 1)
    BY <1>1, <1>2 DEF Counted
  <1>4. ASSUME NEW t \in Counted(k, a + 1) PROVE t \in Counted(k, a) \cup {<<k, a>>}
    <2>1. t \in Askable \X (1..MaxRetries) /\ (t[1] < k \/ (t[1] = k /\ t[2] < a + 1))
      BY DEF Counted
    <2>2. t[2] < a + 1 => t[2] < a \/ t[2] = a
      BY <1>1, <2>1
    <2>3. t[1] = k /\ t[2] = a => t = <<k, a>>
      BY <1>1, <2>1
    <2> QED BY <2>1, <2>2, <2>3 DEF Counted
  <1> QED BY <1>3, <1>4

LEMMA CountedNext ==
  ASSUME NEW k \in DOMAIN peers, NEW a \in 1..MaxRetries + 1, MaxRetries \in Nat,
         peers \in Seq(Remotes), k \in Askable => a = MaxRetries + 1
  PROVE  Counted(k, a) = Counted(k + 1, 1)
  <1>1. \A t \in Askable \X (1..MaxRetries) :
          t[1] \in Askable /\ t[1] \in Nat /\ t[2] \in 1..MaxRetries
    BY DEF Askable
  <1>2. k \in Nat
    OBVIOUS
  <1>3. ASSUME NEW t \in Askable \X (1..MaxRetries)
        PROVE  (t[1] < k \/ (t[1] = k /\ t[2] < a)) <=> (t[1] < k + 1 \/ (t[1] = k + 1 /\ t[2] < 1))
    <2>1. t[1] = k => t[2] < a
      BY <1>1
    <2>2. t[1] < k + 1 <=> t[1] < k \/ t[1] = k
      BY <1>1, <1>2
    <2>3. ~(t[2] < 1)
      BY <1>1
    <2> QED BY <2>1, <2>2, <2>3
  <1> QED BY <1>3 DEF Counted

LEMMA CountedAll ==
  ASSUME peers \in Seq(Remotes)
  PROVE  Counted(Len(peers) + 1, 1) = Askable \X (1..MaxRetries)
  <1>1. \A t \in Askable \X (1..MaxRetries) : t[1] < Len(peers) + 1
    BY DEF Askable
  <1> QED BY <1>1 DEF Counted

\* A worker done with a remote: it asks the next one, or gives the batch up.
Passed(old, more) ==
  IF old.remote < Len(peers)
  THEN [old EXCEPT !.res = more, !.remote = old.remote + 1, !.attempt = 1]
  ELSE [pc |-> "send", job |-> 0, remote |-> 1, attempt |-> 1,
        res |-> [more EXCEPT !.id = old.job, !.ok = FALSE]]

\* A worker whose attempt failed: one more attempt is counted, and it asks the same
\* remote again or is done with it.
AfterFailure(old, more) ==
  IF old.attempt < MaxRetries THEN [old EXCEPT !.res = more, !.attempt = old.attempt + 1]
  ELSE Passed(old, more)

LEMMA PassedIs ==
  ASSUME NEW old \in WorkerState, NEW more, NEW me, me = [old EXCEPT !.res = more]
  PROVE  NextRemote(me) = Passed(old, more)
  <1>2. /\ me.remote = old.remote /\ me.job = old.job
        /\ me.res = more
    BY DEF WorkerState
  <1>4. [me EXCEPT !.remote = @ + 1, !.attempt = 1]
           = [old EXCEPT !.res = more, !.remote = old.remote + 1, !.attempt = 1]
    BY <1>2 DEF WorkerState
  <1>5. [Idle("send") EXCEPT !.res = [me.res EXCEPT !.id = me.job, !.ok = FALSE]]
           = [pc |-> "send", job |-> 0, remote |-> 1, attempt |-> 1,
              res |-> [more EXCEPT !.id = old.job, !.ok = FALSE]]
    BY <1>2, SendState
  <1> QED BY <1>2, <1>4, <1>5 DEF NextRemote, Passed

LEMMA FailedStep ==
  ASSUME PoolInv, NEW w \in Workers, FetchFails(w)
  PROVE  /\ worker[w].pc = "fetch" /\ worker[w].remote \in Askable
         /\ \E more \in Result :
              /\ more.tries = worker[w].res.tries \cup {<<worker[w].remote, worker[w].attempt>>}
              /\ SetWorker(w, AfterFailure(worker[w], more))
  <1> DEFINE old == worker[w]
             n == old.res.tries \cup {<<old.remote, old.attempt>>}
             more == [old.res EXCEPT !.tries = n]
  <1>0. old \in WorkerState
    BY DEF PoolInv, PoolTypeOK
  <1>1. old.pc = "fetch" /\ old.res \in Result /\ n \in SUBSET (Nat \X Nat)
    BY <1>0 DEF FetchFails, Asking, WorkerState, Result
  <1>a. old.remote \in Askable
    <2>1. old.remote \in 1..Len(peers) /\ peers \in Seq(Remotes)
      BY <1>1 DEF PoolInv, PoolTypeOK, AttemptsCounted
    <2> QED BY <2>1 DEF FetchFails, Asking, Askable
  <1>2. more \in Result /\ more.tries = n
    <2> HIDE DEF n
    <2> QED BY <1>1 DEF Result
  <1> DEFINE again == [old EXCEPT !.res = more, !.attempt = old.attempt + 1]
             me == [old EXCEPT !.res = more]
  <1>4. SetWorker(w, IF old.attempt < MaxRetries THEN again ELSE NextRemote(me))
    <2>1. me = [old EXCEPT !.res.tries = @ \cup {<<old.remote, old.attempt>>}]
      BY <1>0 DEF WorkerState
    <2>2. me.attempt = old.attempt
      BY <1>0 DEF WorkerState
    <2>3. [me EXCEPT !.attempt = @ + 1] = again
      BY <1>0, <2>2 DEF WorkerState
    <2> HIDE DEF me, again
    <2> QED BY <2>1, <2>2, <2>3 DEF FetchFails
  <1>5. NextRemote(me) = Passed(old, more)
    <2> HIDE DEF more
    <2> QED BY <1>0, PassedIs
  <1>6. SetWorker(w, AfterFailure(old, more))
    <2> HIDE DEF me, more
    <2> QED BY <1>4, <1>5 DEF AfterFailure
  <1> HIDE DEF more
  <1> QED BY <1>1, <1>2, <1>6, <1>a

LEMMA SkippedStep ==
  ASSUME PoolInv, NEW w \in Workers, SkipRemote(w)
  PROVE  /\ worker[w].pc = "fetch" /\ worker[w].remote \notin Askable
         /\ SetWorker(w, Passed(worker[w], worker[w].res))
  <1> DEFINE old == worker[w]
  <1>0. old \in WorkerState
    BY DEF PoolInv, PoolTypeOK
  <1>1. old = [old EXCEPT !.res = old.res]
    BY <1>0 DEF WorkerState
  <1>2. NextRemote(old) = Passed(old, old.res)
    BY <1>0, <1>1, PassedIs
  <1> QED BY <1>2 DEF SkipRemote, Asking, Askable

\* The account is kept from one remote to the next.
LEMMA PassedKeeps ==
  ASSUME PoolInv, NEW w \in Workers, worker[w].pc = "fetch", NEW more \in Result,
         more.tries = Counted(worker[w].remote + 1, 1)
  PROVE  Passed(worker[w], more) \in WorkerState /\ AttemptsCounted(Passed(worker[w], more))
  <1> DEFINE old == worker[w]
             new == Passed(old, more)
  <1>0. /\ old \in WorkerState /\ peers \in Seq(Remotes) /\ Len(peers) \in Nat
        /\ old.remote \in 1..Len(peers) /\ peers # <<>> /\ MaxRetries \in Nat \ {0}
        /\ old.job \in Nat
    BY BlockSyncAssumption DEF PoolInv, PoolTypeOK, AttemptsCounted, WorkerState
  <1>1. CASE old.remote < Len(peers)
    <2> DEFINE m == old.remote + 1
    <2>1. m \in 1..Len(peers) /\ m \in Nat /\ more.tries = Counted(m, 1)
      BY <1>0, <1>1
    <2>2. new = [old EXCEPT !.res = more, !.remote = m, !.attempt = 1]
      BY <1>1 DEF Passed
    <2> HIDE DEF m, new
    <2>3. /\ new \in WorkerState /\ new.pc = "fetch" /\ new.remote = m /\ new.attempt = 1
          /\ new.res = more
      BY <1>0, <2>1, <2>2 DEF WorkerState
    <2>4. AttemptsCounted(new)
      BY <1>0, <2>1, <2>3 DEF AttemptsCounted
    <2> QED BY <2>3, <2>4 DEF new
  <1>2. CASE ~(old.remote < Len(peers))
    <2> DEFINE res == [more EXCEPT !.id = old.job, !.ok = FALSE]
    <2>1. old.remote = Len(peers)
      BY <1>0, <1>2
    <2>2. more.tries = Askable \X (1..MaxRetries)
      BY <1>0, <2>1, CountedAll
    <2>3. res \in Result /\ res.tries = more.tries
      BY <1>0, FailedResult
    <2> HIDE DEF res
    <2>4. new = [pc |-> "send", job |-> 0, remote |-> 1, attempt |-> 1, res |-> res]
      BY <1>2 DEF Passed, res
    <2> HIDE DEF new
    <2>5. new \in WorkerState /\ new.pc = "send" /\ new.res = res
      BY <2>3, <2>4 DEF WorkerState
    <2>6. AttemptsCounted(new)
      BY <1>0, <2>2, <2>3, <2>5 DEF AttemptsCounted, Exhausted
    <2> QED BY <2>5, <2>6 DEF new
  <1> QED BY <1>1, <1>2

LEMMA PoolWork ==
  ASSUME PoolInv, NEW w \in Workers, Work(w)
  PROVE  PoolInv'
  <1> DEFINE old == worker[w]
  <1>0. /\ old \in WorkerState /\ AttemptsCounted(old) /\ resultCh \in Seq(Result) /\ nextJob \in Nat \ {0}
        /\ \A i \in 1..Len(resultCh) : Exhausted(resultCh[i])
        /\ peers \in Seq(Remotes) /\ Len(peers) \in Nat /\ (peers # <<>> => Len(peers) >= 1)
        /\ MaxRetries \in Nat \ {0}
    BY BlockSyncAssumption DEF PoolInv, PoolTypeOK
  <1>1. CASE TakeJob(w)
    <2>1. CASE SetWorker(w, [Idle("fetch") EXCEPT !.job = nextJob]) /\ nextJob' = nextJob + 1
      <3> DEFINE new == [pc |-> "fetch", job |-> nextJob, remote |-> 1, attempt |-> 1, res |-> NoResult]
      <3>1. [Idle("fetch") EXCEPT !.job = nextJob] = new
        BY DEF Idle
      <3>2. new \in WorkerState
        BY <1>0, NoResultType DEF WorkerState
      <3>3. peers # <<>>
        BY <1>0, <1>1 DEF TakeJob, AttemptsCounted
      <3>4. AttemptsCounted(new)
        <4>1. NoResult.tries = Counted(1, 1)
          BY <1>0, CountedStart DEF NoResult
        <4> QED BY <1>0, <3>3, <4>1 DEF AttemptsCounted
      <3> HIDE DEF new
      <3>5. nextJob' \in Nat \ {0} /\ resultCh' = resultCh /\ InWorkers /\ SetWorker(w, new)
        BY <1>0, <1>1, <2>1, <3>1 DEF TakeJob
      <3>6. resultCh' \in Seq(Result) /\ \A i \in 1..Len(resultCh') : Exhausted(resultCh'[i])
        BY <1>0, <3>5
      <3> QED BY <3>2, <3>4, <3>5, <3>6, PoolWorker
    <2>2. CASE SetWorker(w, Idle("exited")) /\ nextJob' = nextJob
      <3>1. Idle("exited") \in WorkerState /\ AttemptsCounted(Idle("exited"))
        BY IdleState DEF AttemptsCounted
      <3> QED BY <1>0, <1>1, <2>2, <3>1, PoolWorker DEF TakeJob
    <2> QED BY <1>1, <2>1, <2>2 DEF TakeJob
  <1>2. CASE FetchOk(w)
    <2> DEFINE res == [NoResult EXCEPT !.id = old.job, !.blocks = Fetched(w)]
    <2> DEFINE new == [pc |-> "send", job |-> 0, remote |-> 1, attempt |-> 1, res |-> res]
    <2>1. SetWorker(w, new)
      BY <1>2, SendState DEF FetchOk
    <2>2. res \in Result /\ res.ok = TRUE
      <3>1. old.job \in Nat /\ Fetched(w) \in SUBSET Blocks
        BY <1>0, <1>2, FetchedBlocks DEF FetchOk, Asking, WorkerState
      <3> QED BY <3>1, OkResult
    <2>3. new \in WorkerState
      <3> HIDE DEF res
      <3> QED BY <2>2 DEF WorkerState
    <2>4. AttemptsCounted(new)
      <3> HIDE DEF res
      <3> QED BY <1>0, <1>2, <2>2 DEF FetchOk, Asking, AttemptsCounted, Exhausted
    <2> HIDE DEF new
    <2> QED BY <1>0, <1>2, <2>1, <2>3, <2>4, PoolWorker DEF FetchOk
  <1>3. CASE FetchFails(w)
    <2>1. old.pc = "fetch" /\ old.remote \in Askable
      BY <1>3, FailedStep
    <2>2. PICK more \in Result : /\ more.tries = old.res.tries \cup {<<old.remote, old.attempt>>}
                                 /\ SetWorker(w, AfterFailure(old, more))
      BY <1>3, FailedStep
    <2>3. /\ old.remote \in 1..Len(peers) /\ old.attempt \in 1..MaxRetries /\ peers # <<>>
          /\ old.res.tries = Counted(old.remote, old.attempt)
      BY <1>0, <2>1 DEF AttemptsCounted
    <2>4. more.tries = Counted(old.remote, old.attempt + 1)
      BY <1>0, <2>1, <2>2, <2>3, CountedAgain
    <2>5. CASE old.attempt < MaxRetries
      <3> DEFINE m == old.attempt + 1
                 new == [old EXCEPT !.res = more, !.attempt = m]
      <3>1. m \in 1..MaxRetries /\ m \in Nat /\ SetWorker(w, new) /\ more.tries = Counted(old.remote, m)
        BY <1>0, <2>2, <2>3, <2>4, <2>5 DEF AfterFailure
      <3> HIDE DEF m
      <3>2. /\ new \in WorkerState /\ new.pc = "fetch" /\ new.remote = old.remote /\ new.attempt = m
            /\ new.res = more
        BY <1>0, <2>1, <3>1 DEF WorkerState
      <3> HIDE DEF new
      <3>3. AttemptsCounted(new)
        BY <2>3, <3>1, <3>2 DEF AttemptsCounted
      <3> QED BY <1>0, <1>3, <3>1, <3>2, <3>3, PoolWorker DEF FetchFails
    <2>6. CASE ~(old.attempt < MaxRetries)
      <3>1. old.attempt = MaxRetries /\ old.remote \in DOMAIN peers /\ MaxRetries + 1 \in 1..MaxRetries + 1
        BY <1>0, <2>3, <2>6
      <3>2. Counted(old.remote, MaxRetries + 1) = Counted(old.remote + 1, 1)
        BY <1>0, <3>1, CountedNext
      <3>3. Passed(old, more) \in WorkerState /\ AttemptsCounted(Passed(old, more))
        BY <2>1, <2>4, <3>1, <3>2, PassedKeeps
      <3>4. SetWorker(w, Passed(old, more))
        BY <2>2, <2>6 DEF AfterFailure
      <3> QED BY <1>0, <1>3, <3>3, <3>4, PoolWorker DEF FetchFails
    <2> QED BY <2>5, <2>6
  <1>5. CASE SkipRemote(w)
    <2>1. old.pc = "fetch" /\ old.remote \notin Askable /\ SetWorker(w, Passed(old, old.res))
      BY <1>5, SkippedStep
    <2>2. /\ old.remote \in DOMAIN peers /\ old.attempt \in 1..MaxRetries + 1
          /\ old.res.tries = Counted(old.remote, old.attempt) /\ old.res \in Result
      BY <1>0, <2>1 DEF AttemptsCounted, WorkerState
    <2>3. old.res.tries = Counted(old.remote + 1, 1)
      BY <1>0, <2>1, <2>2, CountedNext
    <2>4. Passed(old, old.res) \in WorkerState /\ AttemptsCounted(Passed(old, old.res))
      BY <2>1, <2>2, <2>3, PassedKeeps
    <2> QED BY <1>0, <1>5, <2>1, <2>4, PoolWorker DEF SkipRemote
  <1>4. CASE SendResult(w)
    <2>1. old.res \in Result /\ Exhausted(old.res) /\ peers # <<>>
      BY <1>0, <1>4 DEF SendResult, WorkerState, AttemptsCounted
    <2>2. /\ resultCh' \in Seq(Result) /\ Len(resultCh') = Len(resultCh) + 1
          /\ resultCh'[Len(resultCh) + 1] = old.res
          /\ \A i \in 1..Len(resultCh) : resultCh'[i] = resultCh[i]
      BY <1>0, <1>4, <2>1 DEF SendResult
    <2>3. \A i \in 1..Len(resultCh') : Exhausted(resultCh'[i])
      BY <1>0, <2>1, <2>2
    <2>4. Idle("take") \in WorkerState /\ AttemptsCounted(Idle("take"))
      BY <2>1, IdleState DEF AttemptsCounted
    <2> QED BY <1>0, <1>4, <2>2, <2>3, <2>4, PoolWorker DEF SendResult
  <1> QED BY <1>1, <1>2, <1>3, <1>4, <1>5 DEF Work

LEMMA PoolStep == PoolInv /\ [Next]_vars => PoolInv'
  <1> SUFFICES ASSUME PoolInv, [Next]_vars PROVE PoolInv'
    OBVIOUS
  <1>1. CASE UNCHANGED vars
    BY <1>1 DEF vars, dbVars, poolVars, writeVars, callVars, PoolInv, PoolTypeOK, AttemptsCounted, Exhausted,
       Counted, Askable
  <1> QED BY <1>1, PoolSession, PoolWork DEF Next

\* A batch is given up only after every remote whose nodeinfo parses was asked MaxRetries
\* times, in the order of the list.
THEOREM GivesUpLast == Spec => []FailureIsLastResort
  <1>1. PoolInv => FailureIsLastResort
    <2> SUFFICES ASSUME PoolInv, NEW r \in results \cup ToSet(resultCh) PROVE Exhausted(r)
      BY DEF FailureIsLastResort, Exhausted
    <2>1. resultCh \in Seq(Result) /\ DOMAIN resultCh = 1..Len(resultCh)
      BY DEF PoolInv, PoolTypeOK
    <2> QED BY <2>1 DEF PoolInv, ToSet
  <1> QED BY PoolInit, PoolStep, <1>1, PTL DEF Spec

-----------------------------------------------------------------------------
(* Tags and their batches.                                                 *)

GoodTag(tag) == tag \in Tags /\ tag \in TagType /\ Separate(tag)

\* A node's tree exists: its leaves are not empty.
LEMMA MergeOk ==
  ASSUME NEW n \in Nat \ {0}
  PROVE  BlockMerge(n) \in Nat \ {0}
  BY BisectionAssumption, CeilBounds DEF BlockMerge

\* A remote's tip is its highest block.
LEMMA TipOk ==
  ASSUME NEW r \in Remotes
  PROVE  /\ Serves[r] \subseteq Nat /\ Tip(r) \in Serves[r] /\ Tip(r) \in Nat /\ Tip(r) \in Blocks
         /\ \A b \in Serves[r] : b <= Tip(r)
  <1>1. Serves[r] \in SUBSET Nat /\ Serves[r] # {} /\ IsFiniteSet(Serves[r])
    BY BlockSyncAssumption DEF Remotes
  <1>2. Max(Serves[r]) \in Serves[r] /\ \A b \in Serves[r] : b <= Max(Serves[r])
    BY <1>1, MaxFinite
  <1> QED BY <1>1, <1>2, BlocksBound DEF Tip

\* The height of a client that has headers.
LEMMA HeightOk ==
  ASSUME headers \in SUBSET Blocks, headers # {}
  PROVE  Height \in headers /\ Height \in Blocks /\ Height \in Nat /\ \A b \in headers : b <= Height
  <1>1. headers \in SUBSET Nat /\ IsFiniteSet(headers)
    BY BlocksBound, FS_Subset
  <1>2. Max(headers) \in headers /\ \A b \in headers : b <= Max(headers)
    BY <1>1, MaxFinite
  <1> QED BY <1>1, <1>2 DEF Height

\* An answer to the SYNC_REQUEST of a client with these headers: without a difference the
\* client has the remote's blocks up to the compared end; otherwise the tag is one to work
\* on, and after a comparison it holds all differences up to that end.
Compared(r, end) == IF end > Tip(r) THEN Tip(r) ELSE end

LEMMA Answers ==
  ASSUME headers \in SUBSET Blocks, headers # {}, NEW r \in Remotes, NEW end \in Nat,
         NEW answer \in SyncRequest(r, end)
  PROVE  /\ answer.synced => /\ Serves[r] \cap 0..Compared(r, end) \subseteq headers
                             /\ headers \subseteq Serves[r]
         /\ ~answer.synced => GoodTag(answer.tag)
         /\ ~answer.synced /\ ~FullSync(r) =>
              Differing(Serves[r], headers, Compared(r, end), Height) \subseteq TagBlocks(answer.tag)
  <1>0. /\ Height \in Blocks /\ Height \in Nat /\ headers \subseteq 0..Height
        /\ Tip(r) \in Nat /\ Compared(r, end) \in Nat
    <2>1. headers \subseteq Nat
      BY BlocksBound
    <2>2. Height \in Blocks /\ Height \in Nat /\ \A b \in headers : b <= Height
      BY HeightOk
    <2>3. headers \subseteq 0..Height
      BY <2>1, <2>2
    <2>4. Tip(r) \in Nat
      BY TipOk
    <2>5. Compared(r, end) \in Nat
      BY <2>4 DEF Compared
    <2> QED BY <2>2, <2>3, <2>4, <2>5
  <1>1. CASE FullSync(r)
    <2>1. answer = [synced |-> FALSE, tag |-> DivideTags(Height, Tip(r))]
      BY <1>1 DEF SyncRequest
    <2>2. answer.synced = FALSE /\ answer.tag = DivideTags(Height, Tip(r))
      BY <2>1
    <2>3. answer.tag \in Tags
      BY <1>0, <2>2 DEF Tags
    <2>4. answer.tag \in TagType /\ Separate(answer.tag)
      BY <1>0, <2>2, DivideTagsOk
    <2> QED BY <1>1, <2>2, <2>3, <2>4 DEF GoodTag
  <1>2. CASE ~FullSync(r)
    <2>1. answer \in Comparisons /\ answer.remote = r /\ answer.of = headers /\ answer.end = end
      BY <1>2 DEF SyncRequest
    <2>2. PICK q \in Remotes, of \in (SUBSET Blocks) \ {{}}, e \in Blocks, lost \in LostRequests :
            answer = Compare(q, of, e, lost)
      BY <2>1 DEF Comparisons
    <2> DEFINE last == Compared(r, end)
               merge == BlockMerge(Height + 1)
               same == MerkleTree(Serves[r], 0, last, merge) = MerkleTree(headers, 0, Height, merge)
               tag == IF same THEN EmptyTag ELSE DataBisect(Serves[r], headers, 0, last, Height, merge, lost)
    <2>3. q = r /\ of = headers /\ e = end
      BY <2>1, <2>2 DEF Compare
    <2>4. answer = [remote |-> r, of |-> headers, end |-> end, synced |-> same, tag |-> tag]
      BY <2>2, <2>3 DEF Compare, Compared, Height
    <2>5. (answer.synced <=> same) /\ answer.tag = tag
      <3> HIDE DEF same, tag
      <3>1. answer.tag = tag
        BY <2>4
      <3>2. answer.synced = same
        BY <2>4
      <3> QED BY <3>1, <3>2
    <2>6. merge \in Nat \ {0}
      <3>1. Height + 1 \in Nat \ {0}
        BY <1>0
      <3> QED BY <3>1, MergeOk
    <2>7. ASSUME same PROVE Serves[r] \cap 0..last \subseteq headers /\ headers \subseteq Serves[r]
      <3>1. Serves[r] \cap 0..last \subseteq headers /\ headers \cap 0..Height \subseteq Serves[r]
        <4> HIDE DEF merge, last
        <4> QED BY <1>0, <2>6, <2>7, EqualTrees DEF last
      <3> QED BY <1>0, <3>1
    <2>8. ASSUME ~same
          PROVE  /\ tag \in TagType /\ Separate(tag)
                 /\ Differing(Serves[r], headers, last, Height) \subseteq TagBlocks(tag)
      <3>1. tag = DataBisect(Serves[r], headers, 0, last, Height, merge, lost)
        BY <2>8
      <3> HIDE DEF tag, merge, last
      <3> QED BY <1>0, <2>6, <3>1, BisectionCovers DEF last
    <2>9. answer.tag \in Tags
      BY <2>1 DEF Tags
    <2> HIDE DEF same, tag, last
    <2> QED BY <1>2, <2>5, <2>7, <2>8, <2>9 DEF GoodTag, last
  <1> QED BY <1>1, <1>2

\* The batches of a tag are the builders'.
LEMMA PlanOk ==
  ASSUME NEW tag, GoodTag(tag)
  PROVE  /\ Batched(Plan(tag).header, tag) /\ Batched(Plan(tag).data, tag)
         /\ \A i \in 1..Len(Plan(tag).data) : Cardinality(Plan(tag).data[i]) <= MaxData
  <1>1. tag \in Tags /\ tag \in TagType
    BY DEF GoodTag
  <1> DEFINE made(t) == [tag |-> t, header |-> BuildBatches(t), data |-> BuildDataBatches(t)]
  <1>2. Plans = {made(t) : t \in Tags}
    BY DEF Plans
  <1>3. \A t : made(t).tag = t /\ made(t).header = BuildBatches(t) /\ made(t).data = BuildDataBatches(t)
    OBVIOUS
  <1> HIDE DEF made
  <1>4. made(tag) \in Plans /\ made(tag).tag = tag
    BY <1>1, <1>2, <1>3
  <1>5. Plan(tag) \in Plans /\ Plan(tag).tag = tag
    BY <1>4 DEF Plan
  <1>6. Plan(tag) = made(tag)
    BY <1>2, <1>3, <1>5
  <1> QED BY <1>1, <1>3, <1>6, HeaderBatches, DataBatches

\* The tag of a catch-up is one range, since highestBlock reaches its first block.
LEMMA CatchUpTagOk ==
  ASSUME headers \in SUBSET Blocks, headers # {}, AvailabilityBlockMerge(Height + 1) >= Height + 1
  PROVE  GoodTag(CatchUpTag(Height + 1))
  <1> DEFINE m == AvailabilityBlockMerge(Height + 1)
  <1>1. Height \in Blocks /\ Height \in Nat
    BY HeightOk
  <1>2. m \in Nat
    <2> DEFINE n == (Wrap - (Height + 1)) % Wrap
    <2>1. n \in Nat
      <3>1. Wrap \in Nat /\ Wrap > 0 /\ Wrap - (Height + 1) \in Int
        BY <1>1, BlockSyncAssumption
      <3> QED BY <3>1
    <2>2. BlockMerge(n) \in Nat
      BY <2>1, BisectionAssumption DEF BlockMerge, Ceil
    <2>3. MergeWrap \in Nat \ {0}
      BY BlockSyncAssumption
    <2>4. m = BlockMerge(n) % MergeWrap
      BY DEF AvailabilityBlockMerge
    <2> HIDE DEF n, m
    <2> QED BY <2>2, <2>3, <2>4
  <1>3. CatchUpTag(Height + 1) \in Tags
    BY <1>1 DEF Tags
  <1>4. Height + 1 \in Nat /\ Height + 1 <= m
    BY <1>1, <1>2
  <1>5. CatchUpTag(Height + 1) = Tag(<<RangeTag(Height + 1, m)>>, <<>>)
    BY DEF CatchUpTag
  <1> HIDE DEF m
  <1> QED BY <1>2, <1>3, <1>4, <1>5, OneRangeOk DEF GoodTag

\* The queue holds the batches of the tag, or of a later round's.
QueueInv ==
  /\ round \in Nat \ {0}
  /\ queue \in Seq(SUBSET Nat)
  /\ \A i, j \in 1..Len(queue) : i # j => queue[i] \cap queue[j] = {}
  /\ pc \in Active => GoodTag(originalTag)
  /\ pc \in Active /\ (phase = "data" \/ round = 1) => UNION ToSet(queue) = TagBlocks(originalTag)
  /\ phase = "data" => \A i \in 1..Len(queue) : Cardinality(queue[i]) <= MaxData

LEMMA QueueInit == Init => QueueInv
  <1> SUFFICES ASSUME Init PROVE QueueInv
    OBVIOUS
  <1>1. queue = <<>> /\ round = 1 /\ pc = "start" /\ phase = "header"
    BY DEF Init
  <1>2. queue \in Seq(SUBSET Nat) /\ Len(queue) = 0
    BY <1>1
  <1>3. \A i \in 1..Len(queue) : FALSE
    BY <1>2
  <1> QED BY <1>1, <1>2, <1>3 DEF QueueInv, Active

\* A phase starts with the batches of its tag.
LEMMA QueueHeaders ==
  ASSUME NEW tag, GoodTag(tag), Launch(Plan(tag).header), phase' = "header", GoodTag(originalTag'),
         round' \in Nat \ {0}, round' = 1 => originalTag' = tag
  PROVE  QueueInv'
  <1>1. Batched(Plan(tag).header, tag) /\ Separate(tag)
    BY PlanOk DEF GoodTag
  <1>2. queue' = Plan(tag).header
    BY DEF Launch
  <1> QED BY <1>1, <1>2 DEF QueueInv, Batched

LEMMA QueueData ==
  ASSUME QueueInv, pc \in Active, CallDataSync
  PROVE  QueueInv'
  <1>1. GoodTag(originalTag) /\ round \in Nat \ {0}
    BY DEF QueueInv
  <1>2. /\ Batched(Plan(originalTag).data, originalTag) /\ Separate(originalTag)
        /\ \A i \in 1..Len(Plan(originalTag).data) : Cardinality(Plan(originalTag).data[i]) <= MaxData
    BY <1>1, PlanOk DEF GoodTag
  <1>3. queue' = Plan(originalTag).data /\ originalTag' = originalTag /\ round' = round
    BY DEF CallDataSync, Launch
  <1> QED BY <1>1, <1>2, <1>3 DEF QueueInv, Batched

LEMMA QueueKept ==
  ASSUME QueueInv, UNCHANGED <<queue, originalTag, round, phase>>, pc' \in Active => pc \in Active
  PROVE  QueueInv'
  BY DEF QueueInv

LEMMA QueueStep == PoolInv /\ QueueInv /\ [Next]_vars => QueueInv'
  <1> SUFFICES ASSUME PoolInv, QueueInv, [Next]_vars PROVE QueueInv'
    OBVIOUS
  <1> USE DEF Active
  <1>0. headers \in SUBSET Blocks /\ headers # {} /\ peers \in Seq(Remotes) /\ round \in Nat \ {0}
    BY DEF PoolInv, PoolTypeOK, QueueInv
  <1>a. ASSUME NEW tag, NEW order, NEW x, CallHeaderSync(tag, order, x), GoodTag(tag) PROVE QueueInv'
    BY <1>a, QueueHeaders DEF CallHeaderSync
  <1>1. CASE StartPriorSync
    <2>0. PICK order \in Orders : \E answer \in SyncRequest(order[1], Tip(order[1])) :
            \/ ~answer.synced /\ CallHeaderSync(answer.tag, order, TRUE)
            \/ pc' = "done" /\ phase' = "header" /\ NoLaunch /\ originalTag' = originalTag /\ round' = round
      BY <1>1 DEF StartPriorSync
    <2>1. PICK answer \in SyncRequest(order[1], Tip(order[1])) :
            \/ ~answer.synced /\ CallHeaderSync(answer.tag, order, TRUE)
            \/ pc' = "done" /\ phase' = "header" /\ NoLaunch /\ originalTag' = originalTag /\ round' = round
      BY <2>0
    <2>2. CASE ~answer.synced /\ CallHeaderSync(answer.tag, order, TRUE)
      <3>1. order[1] \in Remotes
        BY OrdersType
      <3>2. Tip(order[1]) \in Nat
        BY <3>1, TipOk
      <3>3. GoodTag(answer.tag)
        BY <1>0, <2>2, <3>1, <3>2, Answers
      <3> QED BY <1>a, <2>2, <3>3
    <2>3. CASE pc' = "done" /\ phase' = "header" /\ NoLaunch /\ originalTag' = originalTag /\ round' = round
      BY <2>3 DEF QueueInv, NoLaunch, poolVars
    <2> QED BY <2>1, <2>2, <2>3
  <1>2. CASE StartCatchUp
    <2>1. PICK order \in Orders : LET f == FilterAvailable(order, Height + 1) IN
            \/ f # <<>> /\ CallHeaderSync(CatchUpTag(Height + 1), f, FALSE)
            \/ pc' = "failed" /\ NoLaunch /\ phase' = phase /\ originalTag' = originalTag /\ round' = round
      BY <1>2 DEF StartCatchUp
    <2>2. CASE FilterAvailable(order, Height + 1) # <<>>
               /\ CallHeaderSync(CatchUpTag(Height + 1), FilterAvailable(order, Height + 1), FALSE)
      <3>1. AvailabilityBlockMerge(Height + 1) >= Height + 1
        BY <2>2 DEF FilterAvailable
      <3> QED BY <1>0, <1>a, <2>2, <3>1, CatchUpTagOk
    <2>3. CASE pc' = "failed" /\ NoLaunch /\ phase' = phase /\ originalTag' = originalTag /\ round' = round
      BY <2>3, QueueKept DEF NoLaunch, poolVars
    <2> QED BY <2>1, <2>2, <2>3
  <1>3. CASE StartGapFill
    <2>1. PICK order \in Orders, tag \in GapTags : CallHeaderSync(tag, order, FALSE)
      BY <1>3 DEF StartGapFill
    <2>2. GoodTag(tag)
      BY BlockSyncAssumption DEF GoodTag, Tags
    <2> QED BY <1>a, <2>1, <2>2
  <1>4. CASE StartFails
    BY <1>4, QueueKept DEF StartFails, NoLaunch, poolVars, callVars
  <1>5. CASE CollectHeaders \/ HeadersCollected \/ NextHeaders
    BY <1>5, QueueKept DEF CollectHeaders, HeadersCollected, NextHeaders, Fail, poolVars, callVars
  <1>6. CASE SkipConfirmation
    BY <1>6, QueueData DEF SkipConfirmation
  <1>7. CASE SyncConfirmation
    <2>1. CASE CallDataSync
      BY <1>7, <2>1, QueueData DEF SyncConfirmation
    <2>2. CASE \E r \in ToSet(peers) : \E answer \in SyncRequest(r, Height) :
                 ~answer.synced /\ NextRound(answer.tag) /\ round < MaxSyncRounds
      <3>1. PICK r \in ToSet(peers) : \E answer \in SyncRequest(r, Height) :
                 ~answer.synced /\ NextRound(answer.tag) /\ round < MaxSyncRounds
        BY <2>2
      <3>2. PICK answer \in SyncRequest(r, Height) :
                 ~answer.synced /\ NextRound(answer.tag) /\ round < MaxSyncRounds
        BY <3>1
      <3>3. r \in Remotes
        BY <1>0, <3>1 DEF ToSet
      <3>4. Height \in Nat
        BY <1>0, HeightOk
      <3>5. GoodTag(answer.tag)
        BY <1>0, <3>2, <3>3, <3>4, Answers
      <3>6. MaxSyncRounds \in Nat
        BY BlockSyncAssumption
      <3>9. round # MaxSyncRounds /\ round + 1 \in Nat \ {0} /\ round + 1 # 1
        BY <1>0, <3>2, <3>6
      <3>7. /\ Launch(Plan(answer.tag).header) /\ phase' = "header" /\ originalTag' = originalTag
            /\ round' = round + 1
        BY <1>7, <3>2, <3>9 DEF NextRound, SyncConfirmation
      <3>8. GoodTag(originalTag)
        BY <1>7 DEF QueueInv, SyncConfirmation
      <3> QED BY <3>5, <3>7, <3>8, <3>9, QueueHeaders
    <2>3. CASE Fail /\ NoLaunch /\ UNCHANGED <<phase, originalTag, round>>
      BY <2>3, QueueKept DEF NoLaunch, Fail, poolVars
    <2> QED BY <1>7, <2>1, <2>2, <2>3 DEF SyncConfirmation, NextRound
  <1>8. CASE CollectData \/ NextData \/ DataFinished
    BY <1>8, QueueKept DEF CollectData, NextData, DataFinished, Write, Fail, poolVars, callVars
  <1>9. CASE LogBatch \/ StoreBatch
    BY <1>9, QueueKept DEF LogBatch, StoreBatch, Fail, poolVars
  <1>10. CASE Crash
    BY <1>10, QueueKept DEF Crash, callVars
  <1>11. CASE Restart
    <2>1. queue' = <<>> /\ round' = 1 /\ pc' = "start" /\ phase' = "header"
      BY <1>11 DEF Restart
    <2>2. queue' \in Seq(SUBSET Nat) /\ Len(queue') = 0
      BY <2>1
    <2>3. \A i \in 1..Len(queue') : FALSE
      BY <2>2
    <2> QED BY <2>1, <2>2, <2>3 DEF QueueInv
  <1>12. CASE \E w \in Workers : Work(w)
    <2>1. UNCHANGED <<queue, originalTag, round, phase, pc>>
      BY <1>12 DEF Work, TakeJob, FetchOk, FetchFails, SkipRemote, SendResult, InWorkers, callVars
    <2> QED BY <2>1, QueueKept
  <1>13. CASE UNCHANGED vars
    BY <1>13, QueueKept DEF vars, poolVars, callVars
  <1> QED BY <1>1, <1>2, <1>3, <1>4, <1>5, <1>6, <1>7, <1>8, <1>9, <1>10, <1>11, <1>12, <1>13 DEF Next, Step

\* The batches of a phase ask for every block of the tag, each in one batch, and a data
\* batch holds at most MaxData blocks: buildBatches and buildDataBatches, for the tags of
\* every comparison, of catch-ups and of PoTS answers.
THEOREM BatchesPartition == Spec => []BatchesPartitionTag
  <1>1. QueueInv => BatchesPartitionTag
    BY DEF QueueInv, BatchesPartitionTag, Active
  <1> QED BY PoolInit, PoolStep, QueueInit, QueueStep, <1>1, PTL DEF Spec

-----------------------------------------------------------------------------
(* The comparisons: what a tag covers, and what a confirmation confirms.   *)

LEMMA CoverInit == Init => TagCoversDifference
  BY DEF Init, TagCoversDifference

LEMMA CoverStep == PoolInv /\ QueueInv /\ TagCoversDifference /\ [Next]_vars => TagCoversDifference'
  <1> SUFFICES ASSUME PoolInv, QueueInv, TagCoversDifference, [Next]_vars PROVE TagCoversDifference'
    OBVIOUS
  <1>0. headers \in SUBSET Blocks /\ headers # {} /\ round \in Nat \ {0}
    BY DEF PoolInv, PoolTypeOK, QueueInv
  <1>a. ASSUME pc' # "fetch" \/ phase' # "header" \/ ~confirm' \/ round' # 1 PROVE TagCoversDifference'
    BY <1>a DEF TagCoversDifference
  <1>b. ASSUME UNCHANGED <<pc, phase, confirm, round, headers, peers, originalTag>> PROVE TagCoversDifference'
    BY <1>b DEF TagCoversDifference, FullSync, Height
  <1>1. CASE StartPriorSync
    <2>1. PICK order \in Orders : \E answer \in SyncRequest(order[1], Tip(order[1])) :
            \/ ~answer.synced /\ CallHeaderSync(answer.tag, order, TRUE)
            \/ pc' = "done"
      BY <1>1 DEF StartPriorSync
    <2>2. PICK answer \in SyncRequest(order[1], Tip(order[1])) :
            \/ ~answer.synced /\ CallHeaderSync(answer.tag, order, TRUE)
            \/ pc' = "done"
      BY <2>1
    <2>3. CASE pc' = "done"
      BY <1>a, <2>3
    <2>4. CASE ~answer.synced /\ CallHeaderSync(answer.tag, order, TRUE)
      <3> DEFINE r == order[1]
      <3>1. peers' = order /\ originalTag' = answer.tag /\ headers' = headers
        BY <1>1, <2>4 DEF StartPriorSync, CallHeaderSync
      <3>2. r \in Remotes
        BY OrdersType
      <3>3. Tip(r) \in Nat /\ Serves[r] \subseteq Nat /\ \A b \in Serves[r] : b <= Tip(r)
        BY <3>2, TipOk
      <3>4. headers \subseteq Nat /\ Height \in Nat /\ \A b \in headers : b <= Height
        BY <1>0, HeightOk, BlocksBound
      <3>5. FullSync(r)' <=> FullSync(r)
        BY <3>1 DEF FullSync, Height
      <3>6. ASSUME ~FullSync(r) PROVE SymDiff(headers, Serves[r]) \subseteq TagBlocks(answer.tag)
        <4>1. Compared(r, Tip(r)) = Tip(r)
          BY DEF Compared
        <4>2. Differing(Serves[r], headers, Tip(r), Height) \subseteq TagBlocks(answer.tag)
          <5> HIDE DEF r
          <5>1. answer \in SyncRequest(r, Tip(r))
            BY DEF r
          <5> QED BY <1>0, <2>4, <3>2, <3>3, <3>6, <4>1, <5>1, Answers
        <4>3. Serves[r] \subseteq 0..Tip(r) /\ headers \subseteq 0..Height
          BY <3>3, <3>4
        <4>4. SymDiff(headers, Serves[r]) \subseteq Differing(Serves[r], headers, Tip(r), Height)
          BY <4>3 DEF SymDiff, Differing
        <4> QED BY <4>2, <4>4
      <3> QED BY <3>1, <3>5, <3>6 DEF TagCoversDifference
    <2> QED BY <2>2, <2>3, <2>4
  <1>2. CASE StartCatchUp \/ StartGapFill \/ StartFails
    <2>1. pc' = "failed" \/ ~confirm'
      BY <1>2 DEF StartCatchUp, StartGapFill, StartFails, CallHeaderSync
    <2> QED BY <1>a, <2>1
  <1>3. CASE CollectHeaders
    BY <1>3, <1>b DEF CollectHeaders, dbVars, callVars
  <1>4. CASE HeadersCollected \/ NextHeaders \/ SkipConfirmation \/ DataFinished \/ LogBatch \/ StoreBatch
    <2>1. pc' # "fetch" \/ phase' # "header"
      BY <1>4 DEF HeadersCollected, NextHeaders, SkipConfirmation, DataFinished, LogBatch, StoreBatch,
         CallDataSync, Write, Fail
    <2> QED BY <1>a, <2>1
  <1>5. CASE SyncConfirmation
    <2>1. pc' = "failed" \/ phase' = "data" \/ round' = round + 1
      BY <1>5 DEF SyncConfirmation, CallDataSync, NextRound, Fail
    <2>2. round + 1 # 1
      BY <1>0
    <2> QED BY <1>a, <2>1, <2>2
  <1>6. CASE CollectData \/ NextData
    <2>1. phase' # "header"
      BY <1>6 DEF CollectData, NextData, callVars
    <2> QED BY <1>a, <2>1
  <1>7. CASE Crash \/ Restart
    <2>1. pc' # "fetch"
      BY <1>7 DEF Crash, Restart
    <2> QED BY <1>a, <2>1
  <1>8. CASE \E w \in Workers : Work(w)
    <2>1. UNCHANGED <<pc, phase, confirm, round, headers, peers, originalTag>>
      BY <1>8 DEF Work, TakeJob, FetchOk, FetchFails, SkipRemote, SendResult, InWorkers, dbVars, callVars
    <2> QED BY <1>b, <2>1
  <1>9. CASE UNCHANGED vars
    BY <1>9, <1>b DEF vars, dbVars, callVars
  <1> QED BY <1>1, <1>2, <1>3, <1>4, <1>5, <1>6, <1>7, <1>8, <1>9 DEF Next, Step

\* The tag of a comparison holds every block on which the client and the remote that
\* compared differ: for every pair of chains, whatever BlockMerge makes of the leaves,
\* LAYER_THRESHOLD and the sub-tree requests that failed.
THEOREM TagCovers == Spec => []TagCoversDifference
  BY PoolInit, PoolStep, QueueInit, QueueStep, CoverInit, CoverStep, PTL DEF Spec

\* While DataSync runs after a confirmation, the headers are the confirming remote's.
Confirmed(r) == r \in Remotes /\ headers = Serves[r] \cap 0..Height

ConfirmInv == phase = "data" /\ confirm => Confirmed(confirmedBy)

LEMMA ConfirmInit == Init => ConfirmInv
  BY DEF Init, ConfirmInv

LEMMA ConfirmStep == PoolInv /\ ConfirmInv /\ [Next]_vars => ConfirmInv'
  <1> SUFFICES ASSUME PoolInv, ConfirmInv, [Next]_vars PROVE ConfirmInv'
    OBVIOUS
  <1>0. headers \in SUBSET Blocks /\ headers # {} /\ phase \in Phases /\ peers \in Seq(Remotes)
    BY DEF PoolInv, PoolTypeOK
  <1>a. ASSUME phase' = "header" \/ ~confirm' PROVE ConfirmInv'
    BY <1>a DEF ConfirmInv
  <1>b. ASSUME UNCHANGED <<phase, confirm, headers, confirmedBy>> PROVE ConfirmInv'
    BY <1>b DEF ConfirmInv, Confirmed, Height
  <1>1. CASE StartPriorSync \/ StartCatchUp \/ StartGapFill \/ StartFails
    <2>1. phase' = "header" \/ UNCHANGED <<phase, confirm, headers, confirmedBy>>
      BY <1>1 DEF StartPriorSync, StartCatchUp, StartGapFill, StartFails, CallHeaderSync, dbVars, callVars
    <2> QED BY <1>a, <1>b, <2>1
  <1>2. CASE CollectHeaders \/ HeadersCollected \/ NextHeaders \/ CollectData \/ NextData \/ DataFinished
    BY <1>2, <1>b DEF CollectHeaders, HeadersCollected, NextHeaders, CollectData, NextData, DataFinished,
       dbVars, callVars
  <1>3. CASE SkipConfirmation
    BY <1>3, <1>a DEF SkipConfirmation, CallDataSync
  <1>4. CASE SyncConfirmation
    <2>1. CASE \E r \in ToSet(peers) : \E answer \in SyncRequest(r, Height) :
                 answer.synced /\ CallDataSync /\ confirmedBy' = r
      <3>1. PICK r \in ToSet(peers) : \E answer \in SyncRequest(r, Height) :
                 answer.synced /\ CallDataSync /\ confirmedBy' = r
        BY <2>1
      <3>2. PICK answer \in SyncRequest(r, Height) : answer.synced /\ CallDataSync /\ confirmedBy' = r
        BY <3>1
      <3>3. r \in Remotes
        BY <1>0, <3>1 DEF ToSet
      <3>4. Height \in Nat /\ headers \subseteq Nat /\ \A b \in headers : b <= Height
        BY <1>0, HeightOk, BlocksBound
      <3>5. Serves[r] \cap 0..Compared(r, Height) \subseteq headers /\ headers \subseteq Serves[r]
        BY <1>0, <3>2, <3>3, <3>4, Answers
      <3>6. Serves[r] \cap 0..Height \subseteq 0..Compared(r, Height)
        <4>1. Tip(r) \in Nat /\ Serves[r] \subseteq Nat /\ \A b \in Serves[r] : b <= Tip(r)
          BY <3>3, TipOk
        <4> QED BY <3>4, <4>1 DEF Compared
      <3>7. headers \subseteq 0..Height
        BY <3>4
      <3>8. Confirmed(r)
        BY <3>3, <3>5, <3>6, <3>7 DEF Confirmed
      <3>9. headers' = headers
        BY <1>4 DEF SyncConfirmation, dbVars
      <3> QED BY <3>2, <3>8, <3>9 DEF ConfirmInv, Confirmed, Height
    <2>2. CASE phase' = phase
      BY <1>4, <1>a, <2>2 DEF SyncConfirmation
    <2> QED BY <1>4, <2>1, <2>2 DEF SyncConfirmation, NextRound
  <1>5. CASE LogBatch
    BY <1>5, <1>b DEF LogBatch
  <1>6. CASE StoreBatch
    <2>1. CASE phase = "header"
      BY <1>6, <1>a, <2>1 DEF StoreBatch
    <2>2. CASE phase = "data"
      BY <1>6, <1>b, <2>2 DEF StoreBatch
    <2> QED BY <1>0, <2>1, <2>2 DEF Phases
  <1>7. CASE Crash \/ Restart
    <2>1. phase' = "header" \/ UNCHANGED <<phase, confirm, headers, confirmedBy>>
      BY <1>7 DEF Crash, Restart, dbVars, callVars
    <2> QED BY <1>a, <1>b, <2>1
  <1>8. CASE \E w \in Workers : Work(w)
    <2>1. UNCHANGED <<phase, confirm, headers, confirmedBy>>
      BY <1>8 DEF Work, TakeJob, FetchOk, FetchFails, SkipRemote, SendResult, InWorkers, dbVars, callVars
    <2> QED BY <1>b, <2>1
  <1>9. CASE UNCHANGED vars
    BY <1>9, <1>b DEF vars, dbVars, callVars
  <1> QED BY <1>1, <1>2, <1>3, <1>4, <1>5, <1>6, <1>7, <1>8, <1>9 DEF Next, Step

\* A HeaderSync that ran its confirmation hands over to DataSync only with exactly the
\* headers of the remote that confirmed, up to the client's height.
THEOREM ConfirmationIsSound == Spec => []ConfirmedHeadersMatch
  <1>1. ConfirmInv => ConfirmedHeadersMatch
    BY BlocksBound DEF ConfirmInv, Confirmed, ConfirmedHeadersMatch
  <1> QED BY PoolInit, PoolStep, ConfirmInit, ConfirmStep, <1>1, PTL DEF Spec

-----------------------------------------------------------------------------
(* DataSync writes its batches in order.                                   *)

OrderInv ==
  phase = "data" =>
    /\ expected \in Nat \ {0} /\ written \in Seq(Nat) /\ Len(written) = expected - 1
    /\ \A i \in 1..Len(written) : written[i] = i
    /\ pc \in {"log", "store"} => cur.id = expected

LEMMA OrderInit == Init => OrderInv
  BY DEF Init, OrderInv

LEMMA OrderStep == PoolInv /\ OrderInv /\ [Next]_vars => OrderInv'
  <1> SUFFICES ASSUME PoolInv, OrderInv, [Next]_vars PROVE OrderInv'
    OBVIOUS
  <1>0. phase \in Phases
    BY DEF PoolInv, PoolTypeOK
  <1>a. ASSUME phase' = "header" PROVE OrderInv'
    BY <1>a DEF OrderInv
  <1>b. ASSUME UNCHANGED <<phase, expected, written>>, pc' \notin {"log", "store"} \/ cur'.id = expected
        PROVE OrderInv'
    BY <1>b DEF OrderInv
  <1>c. ASSUME UNCHANGED <<phase, expected, written, cur>>, pc' \in {"log", "store"} => pc \in {"log", "store"}
        PROVE OrderInv'
    BY <1>c DEF OrderInv
  <1>d. ASSUME NEW batches, Launch(batches) PROVE OrderInv'
    <2>1. expected' = 1 /\ written' = <<>> /\ pc' = "fetch"
      BY <1>d DEF Launch
    <2>2. written' \in Seq(Nat) /\ Len(written') = 0
      BY <2>1
    <2>3. \A i \in 1..Len(written') : FALSE
      BY <2>2
    <2> QED BY <2>1, <2>2, <2>3 DEF OrderInv
  <1>1. CASE StartPriorSync \/ StartCatchUp \/ StartGapFill \/ StartFails
    <2>1. \/ phase' = "header"
          \/ UNCHANGED <<phase, expected, written, cur>> /\ pc' = "failed"
      BY <1>1 DEF StartPriorSync, StartCatchUp, StartGapFill, StartFails, CallHeaderSync, NoLaunch,
         writeVars, callVars
    <2> QED BY <1>a, <1>b, <2>1
  <1>2. CASE CollectHeaders \/ HeadersCollected \/ NextHeaders
    <2>1. phase' = "header"
      BY <1>2 DEF CollectHeaders, HeadersCollected, NextHeaders, callVars
    <2> QED BY <1>a, <2>1
  <1>3. CASE SkipConfirmation \/ SyncConfirmation
    <2>1. phase' = "header" \/ \E batches : Launch(batches)
      BY <1>3 DEF SkipConfirmation, SyncConfirmation, NextRound, CallDataSync
    <2> QED BY <1>a, <1>d, <2>1
  <1>4. CASE CollectData
    <2>1. UNCHANGED <<phase, expected, written>> /\ (pc' \notin {"log", "store"} \/ cur'.id = expected)
      BY <1>4 DEF CollectData, Write, Fail
    <2> QED BY <1>b, <2>1
  <1>5. CASE NextData
    <2>1. UNCHANGED <<phase, expected, written>> /\ (pc' \notin {"log", "store"} \/ cur'.id = expected)
      BY <1>5 DEF NextData, Write, callVars
    <2> QED BY <1>b, <2>1
  <1>6. CASE DataFinished \/ Crash
    BY <1>6, <1>c DEF DataFinished, Crash, writeVars, callVars
  <1>7. CASE LogBatch
    BY <1>7, <1>c DEF LogBatch, Fail, writeVars
  <1>8. CASE StoreBatch
    <2>1. CASE Fail /\ UNCHANGED <<written, expected>>
      BY <1>8, <1>b, <2>1 DEF StoreBatch, Fail
    <2>2. CASE phase = "data" /\ written' = Append(written, cur.id) /\ expected' = expected + 1 /\ pc' = "next"
      <3>1. /\ expected \in Nat \ {0} /\ written \in Seq(Nat) /\ Len(written) = expected - 1
            /\ \A i \in 1..Len(written) : written[i] = i
            /\ cur.id = expected
        BY <1>8, <2>2 DEF OrderInv, StoreBatch
      <3>2. written' \in Seq(Nat) /\ Len(written') = expected
        BY <2>2, <3>1
      <3>3. \A i \in 1..Len(written') : written'[i] = i
        BY <2>2, <3>1, <3>2
      <3> QED BY <2>2, <3>1, <3>2, <3>3 DEF OrderInv
    <2>3. CASE phase = "header"
      BY <1>8, <1>a, <2>3 DEF StoreBatch
    <2> QED BY <1>0, <1>8, <2>1, <2>2, <2>3 DEF StoreBatch, Phases
  <1>9. CASE Restart
    BY <1>9, <1>a DEF Restart
  <1>10. CASE \E w \in Workers : Work(w)
    <2>1. UNCHANGED <<phase, expected, written, cur, pc>>
      BY <1>10 DEF Work, TakeJob, FetchOk, FetchFails, SkipRemote, SendResult, InWorkers, writeVars, callVars
    <2> QED BY <1>c, <2>1
  <1>11. CASE UNCHANGED vars
    BY <1>11, <1>c DEF vars, writeVars, callVars
  <1> QED BY <1>1, <1>2, <1>3, <1>4, <1>5, <1>6, <1>7, <1>8, <1>9, <1>10, <1>11 DEF Next, Step

\* However the workers finish, and wherever the session fails or crashes, DataSync has
\* written batch 1, 2, 3, ... and nothing else.
THEOREM BodiesInOrder == Spec => []BodiesInBatchOrder
  <1>1. OrderInv => BodiesInBatchOrder
    BY DEF OrderInv, BodiesInBatchOrder
  <1> QED BY PoolInit, PoolStep, OrderInit, OrderStep, <1>1, PTL DEF Spec

-----------------------------------------------------------------------------
(* Every job of the pool is in one place.                                  *)

Busy(me)    == me.pc \in {"fetch", "send"}
Carried(me) == IF me.pc = "fetch" THEN me.job ELSE me.res.id

\* The jobs from `low` to the last one taken are each with one worker, in the channel or
\* among the results, and no other job is anywhere.
InPlace(W, ch, rs, low, next) ==
  /\ \A w \in Workers : Busy(W[w]) => Carried(W[w]) \in low..next - 1
  /\ \A i \in 1..Len(ch) : ch[i].id \in low..next - 1
  /\ \A r \in rs : r.id \in low..next - 1

Once(W, ch, rs) ==
  /\ \A v, w \in Workers : Busy(W[v]) /\ Busy(W[w]) /\ Carried(W[v]) = Carried(W[w]) => v = w
  /\ \A i, j \in 1..Len(ch) : ch[i].id = ch[j].id => i = j
  /\ \A w \in Workers, i \in 1..Len(ch) : Busy(W[w]) => Carried(W[w]) # ch[i].id
  /\ \A w \in Workers, r \in rs : Busy(W[w]) => Carried(W[w]) # r.id
  /\ \A i \in 1..Len(ch), r \in rs : ch[i].id # r.id
  /\ \A r, s \in rs : r.id = s.id => r = s

Somewhere(W, ch, rs, j) ==
  \/ \E w \in Workers : Busy(W[w]) /\ Carried(W[w]) = j
  \/ \E i \in 1..Len(ch) : ch[i].id = j
  \/ \E r \in rs : r.id = j

Accounted(W, ch, rs, low, next) ==
  /\ low \in Nat /\ next \in Nat /\ low <= next
  /\ InPlace(W, ch, rs, low, next) /\ Once(W, ch, rs)
  /\ \A j \in low..next - 1 : Somewhere(W, ch, rs, j)

\* A worker takes the next job.
LEMMA AccountTake ==
  ASSUME NEW W \in [Workers -> WorkerState], NEW ch, NEW rs, NEW low, NEW next,
         Accounted(W, ch, rs, low, next), NEW w \in Workers, NEW s \in WorkerState,
         ~Busy(W[w]), Busy(s), Carried(s) = next
  PROVE  Accounted([W EXCEPT ![w] = s], ch, rs, low, next + 1)
  <1> DEFINE X == [W EXCEPT ![w] = s]
             m == next + 1
  <1>0. low \in Nat /\ next \in Nat /\ low <= next
    BY DEF Accounted
  <1>1. X[w] = s /\ \A v \in Workers \ {w} : X[v] = W[v]
    OBVIOUS
  <1> HIDE DEF X
  <1>2. \A j \in low..next - 1 : j \in low..next /\ j # next
    BY <1>0
  <1>3. m - 1 = next /\ next \in low..next /\ m \in Nat /\ low <= m
    BY <1>0
  <1> HIDE DEF m
  <1>4. InPlace(X, ch, rs, low, m)
    BY <1>1, <1>2, <1>3 DEF Accounted, InPlace
  <1>5. Once(X, ch, rs)
    BY <1>1, <1>2 DEF Accounted, InPlace, Once
  <1>6. \A j \in low..next - 1 : Somewhere(X, ch, rs, j)
    BY <1>1 DEF Accounted, Somewhere
  <1>7. Somewhere(X, ch, rs, next)
    BY <1>1 DEF Somewhere
  <1>8. \A j \in low..next : j = next \/ j \in low..next - 1
    BY <1>0
  <1>9. \A j \in low..m - 1 : Somewhere(X, ch, rs, j)
    BY <1>3, <1>6, <1>7, <1>8
  <1>10. Accounted(X, ch, rs, low, m)
    BY <1>0, <1>3, <1>4, <1>5, <1>9 DEF Accounted
  <1> QED BY <1>10 DEF X, m

\* A worker keeps its job, or stays without one.
LEMMA AccountKeep ==
  ASSUME NEW W \in [Workers -> WorkerState], NEW ch, NEW rs, NEW low, NEW next,
         Accounted(W, ch, rs, low, next), NEW w \in Workers, NEW s \in WorkerState,
         Busy(s) <=> Busy(W[w]), Busy(s) => Carried(s) = Carried(W[w])
  PROVE  Accounted([W EXCEPT ![w] = s], ch, rs, low, next)
  <1> DEFINE X == [W EXCEPT ![w] = s]
  <1>1. X[w] = s /\ \A v \in Workers \ {w} : X[v] = W[v]
    OBVIOUS
  <1> HIDE DEF X
  <1>2. \A v \in Workers : (Busy(X[v]) <=> Busy(W[v])) /\ (Busy(X[v]) => Carried(X[v]) = Carried(W[v]))
    BY <1>1
  <1>3. InPlace(X, ch, rs, low, next)
    BY <1>2 DEF Accounted, InPlace
  <1>4. Once(X, ch, rs)
    BY <1>2 DEF Accounted, Once
  <1>5. \A j \in low..next - 1 : Somewhere(X, ch, rs, j)
    BY <1>2 DEF Accounted, Somewhere
  <1> QED BY <1>3, <1>4, <1>5 DEF Accounted, X

\* A worker sends its result.
LEMMA AccountSend ==
  ASSUME NEW W \in [Workers -> WorkerState], NEW ch \in Seq(Result), NEW rs, NEW low, NEW next,
         Accounted(W, ch, rs, low, next), NEW w \in Workers, NEW s \in WorkerState, NEW r \in Result,
         Busy(W[w]), ~Busy(s), Carried(W[w]) = r.id
  PROVE  Accounted([W EXCEPT ![w] = s], Append(ch, r), rs, low, next)
  <1> DEFINE X == [W EXCEPT ![w] = s]
             c == Append(ch, r)
             n == Len(ch)
  <1>1. X[w] = s /\ \A v \in Workers \ {w} : X[v] = W[v]
    OBVIOUS
  <1>2. n \in Nat /\ Len(c) = n + 1 /\ c[n + 1] = r /\ \A i \in 1..n : c[i] = ch[i]
    OBVIOUS
  <1> HIDE DEF X, c
  <1>3. 1..Len(c) = 1..n \cup {n + 1} /\ n + 1 \notin 1..n
    BY <1>2
  <1> HIDE DEF n
  <1>4. \A v \in Workers : Busy(X[v]) => v # w /\ Busy(W[v]) /\ Carried(X[v]) = Carried(W[v])
    BY <1>1
  <1>5. InPlace(X, c, rs, low, next)
    BY <1>2, <1>3, <1>4 DEF Accounted, InPlace, n
  <1>6. Once(X, c, rs)
    <2>1. Once(W, ch, rs)
      BY DEF Accounted
    <2>2. \A v, u \in Workers : Busy(X[v]) /\ Busy(X[u]) /\ Carried(X[v]) = Carried(X[u]) => v = u
      BY <1>4, <2>1 DEF Once
    <2>3. \A i \in 1..n : ch[i].id # r.id
      BY <2>1 DEF Once, n
    <2>4. \A i, j \in 1..Len(c) : c[i].id = c[j].id => i = j
      BY <1>2, <1>3, <2>1, <2>3 DEF Once, n
    <2>5. \A v \in Workers, i \in 1..Len(c) : Busy(X[v]) => Carried(X[v]) # c[i].id
      BY <1>2, <1>3, <1>4, <2>1 DEF Once, n
    <2>6. \A v \in Workers, q \in rs : Busy(X[v]) => Carried(X[v]) # q.id
      BY <1>4, <2>1 DEF Once
    <2>7. \A i \in 1..Len(c), q \in rs : c[i].id # q.id
      BY <1>2, <1>3, <2>1 DEF Once, n
    <2>8. \A q, t \in rs : q.id = t.id => q = t
      BY <2>1 DEF Once
    <2> QED BY <2>2, <2>4, <2>5, <2>6, <2>7, <2>8 DEF Once
  <1>7. ASSUME NEW j \in low..next - 1 PROVE Somewhere(X, c, rs, j)
    <2>1. Somewhere(W, ch, rs, j)
      BY DEF Accounted
    <2>2. CASE \E v \in Workers : Busy(W[v]) /\ Carried(W[v]) = j
      <3>1. PICK v \in Workers : Busy(W[v]) /\ Carried(W[v]) = j
        BY <2>2
      <3>2. CASE v = w
        BY <1>2, <1>3, <3>1, <3>2 DEF Somewhere
      <3>3. CASE v # w
        BY <1>1, <3>1, <3>3 DEF Somewhere
      <3> QED BY <3>2, <3>3
    <2>3. CASE \E i \in 1..n : ch[i].id = j
      BY <1>2, <1>3, <2>3 DEF Somewhere
    <2>4. CASE \E q \in rs : q.id = j
      BY <2>4 DEF Somewhere
    <2> QED BY <2>1, <2>2, <2>3, <2>4 DEF Somewhere, n
  <1> QED BY <1>5, <1>6, <1>7 DEF Accounted, X, c

\* A result that came early is kept.
LEMMA AccountBuffer ==
  ASSUME NEW W, NEW ch \in Seq(Result), ch # <<>>, NEW rs \in SUBSET Result, NEW low, NEW next,
         Accounted(W, ch, rs, low, next)
  PROVE  Accounted(W, Tail(ch), rs \cup {Head(ch)}, low, next)
  <1> DEFINE c == Tail(ch)
             n == Len(ch)
             q == rs \cup {ch[1]}
  <1>1. n \in Nat \ {0} /\ Len(c) = n - 1 /\ Head(ch) = ch[1] /\ \A i \in 1..n - 1 : c[i] = ch[i + 1]
    OBVIOUS
  <1> HIDE DEF c
  <1>2. \A i \in 1..Len(c) : i + 1 \in 1..n /\ i + 1 # 1 /\ c[i] = ch[i + 1]
    BY <1>1
  <1>3. \A i \in 1..n : i = 1 \/ \E k \in 1..Len(c) : k + 1 = i
    <2> TAKE i \in 1..n
    <2>1. i = 1 \/ (i - 1 \in 1..Len(c) /\ i - 1 + 1 = i)
      BY <1>1
    <2> QED BY <2>1
  <1>4. 1 \in 1..n /\ \A i, j \in 1..Len(c) : i + 1 = j + 1 => i = j
    BY <1>1
  <1> HIDE DEF n
  <1>5. InPlace(W, c, q, low, next)
    BY <1>2, <1>4 DEF Accounted, InPlace, n
  <1>6. Once(W, c, q)
    <2>1. Once(W, ch, rs)
      BY DEF Accounted
    <2>2. \A i, j \in 1..Len(c) : c[i].id = c[j].id => i = j
      BY <1>2, <1>4, <2>1 DEF Once, n
    <2>3. \A v \in Workers, i \in 1..Len(c) : Busy(W[v]) => Carried(W[v]) # c[i].id
      BY <1>2, <2>1 DEF Once, n
    <2>4. \A v \in Workers, t \in q : Busy(W[v]) => Carried(W[v]) # t.id
      BY <1>4, <2>1 DEF Once, n
    <2>5. \A i \in 1..Len(c), t \in q : c[i].id # t.id
      BY <1>2, <1>4, <2>1 DEF Once, n
    <2>6. \A t, u \in q : t.id = u.id => t = u
      BY <1>4, <2>1 DEF Once, n
    <2> QED BY <2>1, <2>2, <2>3, <2>4, <2>5, <2>6 DEF Once
  <1>7. ASSUME NEW j \in low..next - 1 PROVE Somewhere(W, c, q, j)
    <2>1. Somewhere(W, ch, rs, j)
      BY DEF Accounted
    <2>2. CASE \E i \in 1..n : ch[i].id = j
      <3>1. PICK i \in 1..n : ch[i].id = j
        BY <2>2
      <3>2. CASE i = 1
        BY <3>1, <3>2 DEF Somewhere
      <3>3. CASE i # 1
        <4>1. PICK k \in 1..Len(c) : k + 1 = i
          BY <1>3, <3>3
        <4>2. c[k].id = j
          BY <1>2, <3>1, <4>1
        <4> QED BY <4>2 DEF Somewhere
      <3> QED BY <3>2, <3>3
    <2> QED BY <2>1, <2>2 DEF Somewhere, n
  <1> QED BY <1>1, <1>5, <1>6, <1>7 DEF Accounted, c

\* The lowest result leaves: for good, because it is nowhere else.
LEMMA AccountWrite ==
  ASSUME NEW W, NEW ch, NEW rs \in SUBSET Result, NEW low, NEW next,
         Accounted(W, ch, rs, low, next), NEW r \in rs, r.id = low
  PROVE  Accounted(W, ch, rs \ {r}, low + 1, next)
  <1> DEFINE q == rs \ {r}
  <1>0. low \in Nat /\ next \in Nat /\ low <= next /\ low \in low..next - 1
    BY DEF Accounted, InPlace
  <1>1. low + 1 \in Nat /\ low + 1 <= next
    BY <1>0
  <1>2. \A j \in low..next - 1 : j # low => j \in low + 1..next - 1
    BY <1>0
  <1>3. \A j \in low + 1..next - 1 : j \in low..next - 1 /\ j # low
    BY <1>0
  <1>4. Once(W, ch, rs)
    BY DEF Accounted
  <1>5. InPlace(W, ch, q, low + 1, next)
    <2>1. \A w \in Workers : Busy(W[w]) => Carried(W[w]) # low
      BY <1>4 DEF Once
    <2>2. \A i \in 1..Len(ch) : ch[i].id # low
      BY <1>4 DEF Once
    <2>3. \A s \in q : s.id # low
      BY <1>4 DEF Once
    <2> QED BY <1>2, <2>1, <2>2, <2>3 DEF Accounted, InPlace
  <1>6. Once(W, ch, q)
    BY <1>4 DEF Once
  <1>7. \A j \in low + 1..next - 1 : Somewhere(W, ch, q, j)
    BY <1>3 DEF Accounted, Somewhere
  <1> QED BY <1>0, <1>1, <1>5, <1>6, <1>7 DEF Accounted

LEMMA AccountHead ==
  ASSUME NEW W, NEW ch \in Seq(Result), ch # <<>>, NEW rs \in SUBSET Result, NEW low, NEW next,
         Accounted(W, ch, rs, low, next), Head(ch).id = low
  PROVE  Accounted(W, Tail(ch), rs, low + 1, next)
  <1> DEFINE h == Head(ch)
  <1>1. Head(ch) = ch[1] /\ Len(ch) \in Nat \ {0} /\ Head(ch) \in Result
    OBVIOUS
  <1>2. 1 \in 1..Len(ch)
    BY <1>1
  <1>3. \A r \in rs : ch[1].id # r.id
    BY <1>2 DEF Accounted, Once
  <1>4. (rs \cup {h}) \ {h} = rs /\ rs \cup {h} \in SUBSET Result /\ h \in rs \cup {h}
    BY <1>1, <1>3
  <1>5. Accounted(W, Tail(ch), rs \cup {h}, low, next)
    BY AccountBuffer
  <1> HIDE DEF h
  <1>6. h.id = low
    BY DEF h
  <1>7. Accounted(W, Tail(ch), (rs \cup {h}) \ {h}, low + 1, next)
    BY <1>4, <1>5, <1>6, AccountWrite
  <1> QED BY <1>4, <1>7

-----------------------------------------------------------------------------
(* Success means that every batch was written.                             *)

Running == phase = "data" /\ pc \in Active

\* The first batch that is neither written nor being written.
Low == IF pc \in {"log", "store"} THEN expected + 1 ELSE expected

PlaceInv ==
  Running =>
    /\ Accounted(worker, resultCh, results, Low, nextJob) /\ nextJob <= Len(queue) + 1
    /\ \A w \in Workers : worker[w].pc = "exited" => nextJob > Len(queue) \/ w > Len(queue)
    /\ pc = "fetch" => \A r \in results : r.id # expected

\* An answer holds blocks of its batch.
Answer(r) == r.ok => r.blocks # {} /\ r.blocks \subseteq queue[r.id]

ContentInv ==
  Running =>
    /\ \A w \in Workers : worker[w].pc = "send" => Answer(worker[w].res)
    /\ \A i \in 1..Len(resultCh) : Answer(resultCh[i])
    /\ \A r \in results : r.ok /\ Answer(r)
    /\ pc \in {"log", "store"} => cur.ok /\ Answer(cur) /\ cur.blocks \subseteq tagged
    /\ \A i \in 1..expected - 1 : queue[i] \cap bodies \cap tagged # {}

DataInv == PlaceInv /\ ContentInv /\ SuccessIsComplete

LEMMA DataInit == Init => DataInv
  BY DEF Init, DataInv, PlaceInv, ContentInv, Running, SuccessIsComplete

LEMMA DataLaunch ==
  ASSUME NEW batches, Launch(batches), QueueInv'
  PROVE  PlaceInv' /\ ContentInv' /\ SuccessIsComplete'
  <1>1. /\ queue' = batches /\ nextJob' = 1 /\ resultCh' = <<>> /\ results' = {} /\ expected' = 1 /\ pc' = "fetch"
    BY DEF Launch
  <1>2. queue' \in Seq(SUBSET Nat) /\ Len(queue') \in Nat
    BY DEF QueueInv
  <1>3. \A w \in Workers : worker'[w].pc = IF w <= Len(queue') THEN "take" ELSE "exited"
    BY <1>1 DEF Launch, Idle
  <1>4. \A w \in Workers : worker'[w].pc = "exited" => w > Len(queue')
    BY <1>2, <1>3 DEF Workers
  <1>5. Len(resultCh') = 0 /\ \A i \in 1..Len(resultCh') : FALSE
    <2>1. Len(resultCh') = 0
      BY <1>1
    <2> QED BY <2>1
  <1>6. \A w \in Workers : ~Busy(worker'[w]) /\ worker'[w].pc # "send"
    BY <1>3 DEF Busy
  <1>7. Low' = 1
    BY <1>1 DEF Low
  <1>8. Accounted(worker', resultCh', results', 1, 1)
    <2>1. \A j \in 1..1 - 1 : FALSE
      OBVIOUS
    <2>2. InPlace(worker', resultCh', results', 1, 1)
      BY <1>1, <1>5, <1>6 DEF InPlace
    <2>3. Once(worker', resultCh', results')
      BY <1>1, <1>5, <1>6 DEF Once
    <2> QED BY <2>1, <2>2, <2>3 DEF Accounted
  <1>9. PlaceInv'
    BY <1>1, <1>2, <1>4, <1>7, <1>8 DEF PlaceInv
  <1>10. \A i \in 1..expected' - 1 : FALSE
    BY <1>1
  <1>11. ContentInv'
    BY <1>1, <1>5, <1>6, <1>10 DEF ContentInv
  <1> QED BY <1>1, <1>9, <1>11 DEF SuccessIsComplete

\* A failed attempt, and a remote passed over, keep the job.
LEMMA PassedCarries ==
  ASSUME NEW old \in WorkerState, old.pc = "fetch", NEW more \in Result
  PROVE  LET s == Passed(old, more) IN
         s \in WorkerState /\ Busy(s) /\ Carried(s) = old.job /\ (s.pc = "send" => Answer(s.res))
  <1> DEFINE s == Passed(old, more)
  <1>0. old.job \in Nat /\ old.attempt \in Nat /\ old.remote \in Nat
    BY DEF WorkerState
  <1>2. CASE old.remote < Len(peers)
    <2> DEFINE m == old.remote + 1
    <2>1. m \in Nat /\ s = [old EXCEPT !.res = more, !.remote = m, !.attempt = 1]
      BY <1>0, <1>2 DEF Passed
    <2> HIDE DEF m, s
    <2>2. s \in WorkerState /\ s.pc = "fetch" /\ s.job = old.job
      BY <1>0, <2>1 DEF WorkerState
    <2> QED BY <2>2 DEF Busy, Carried, s
  <1>3. CASE ~(old.remote < Len(peers))
    <2> DEFINE f == [more EXCEPT !.id = old.job, !.ok = FALSE]
    <2>1. s = [pc |-> "send", job |-> 0, remote |-> 1, attempt |-> 1, res |-> f]
      BY <1>3 DEF Passed
    <2>2. f \in Result /\ f.id = old.job /\ f.ok = FALSE
      BY <1>0, FailedResult
    <2> HIDE DEF f, s
    <2>3. s \in WorkerState /\ s.pc = "send" /\ s.res = f
      BY <2>1, <2>2 DEF WorkerState
    <2> QED BY <2>2, <2>3 DEF Busy, Carried, Answer, s
  <1> QED BY <1>2, <1>3

LEMMA FailureCarries ==
  ASSUME PoolInv, NEW w \in Workers, worker[w].pc = "fetch", NEW more \in Result
  PROVE  LET s == AfterFailure(worker[w], more) IN
         s \in WorkerState /\ Busy(s) /\ Carried(s) = worker[w].job /\ (s.pc = "send" => Answer(s.res))
  <1> DEFINE old == worker[w]
             s == AfterFailure(old, more)
  <1>0. old \in WorkerState /\ old.job \in Nat /\ old.attempt \in Nat
    BY DEF PoolInv, PoolTypeOK, WorkerState
  <1>1. CASE old.attempt < MaxRetries
    <2> DEFINE m == old.attempt + 1
    <2>1. m \in Nat /\ s = [old EXCEPT !.res = more, !.attempt = m]
      BY <1>0, <1>1 DEF AfterFailure
    <2> HIDE DEF m, s
    <2>2. s \in WorkerState /\ s.pc = "fetch" /\ s.job = old.job
      BY <1>0, <2>1 DEF WorkerState
    <2> QED BY <2>2 DEF Busy, Carried, s
  <1>2. CASE ~(old.attempt < MaxRetries)
    <2>1. s = Passed(old, more)
      BY <1>2 DEF AfterFailure
    <2> HIDE DEF s
    <2> QED BY <1>0, <2>1, PassedCarries DEF s
  <1> QED BY <1>1, <1>2

\* The steps of a worker, with what each leaves to send.
LEMMA DataWork ==
  ASSUME PoolInv, QueueInv, DataInv, NEW w \in Workers, Work(w)
  PROVE  DataInv'
  <1> DEFINE old == worker[w]
  <1>0. /\ worker \in [Workers -> WorkerState] /\ old \in WorkerState /\ resultCh \in Seq(Result)
        /\ nextJob \in Nat \ {0} /\ Len(queue) \in Nat
    BY DEF PoolInv, PoolTypeOK, QueueInv
  <1>1. UNCHANGED <<queue, results, expected, cur, written, tagged, bodies, pc, phase>>
    BY DEF Work, TakeJob, FetchOk, FetchFails, SkipRemote, SendResult, InWorkers, dbVars, writeVars, callVars
  <1>2. SuccessIsComplete'
    BY <1>1 DEF DataInv, SuccessIsComplete
  <1>3. (Running' <=> Running) /\ Low' = Low
    BY <1>1 DEF Running, Low
  <1>4. CASE ~Running
    BY <1>2, <1>3, <1>4 DEF DataInv, PlaceInv, ContentInv
  <1>5. CASE Running
    <2>1. /\ Accounted(worker, resultCh, results, Low, nextJob) /\ nextJob <= Len(queue) + 1
          /\ \A v \in Workers : worker[v].pc = "exited" => nextJob > Len(queue) \/ v > Len(queue)
          /\ pc = "fetch" => \A r \in results : r.id # expected
      BY <1>5 DEF DataInv, PlaceInv
    <2>2. /\ \A v \in Workers : worker[v].pc = "send" => Answer(worker[v].res)
          /\ \A i \in 1..Len(resultCh) : Answer(resultCh[i])
      BY <1>5 DEF DataInv, ContentInv
    <2>a. ASSUME NEW s \in WorkerState, SetWorker(w, s),
                 Accounted([worker EXCEPT ![w] = s], resultCh', results, Low, nextJob'),
                 nextJob' \in Nat, nextJob <= nextJob', nextJob' <= Len(queue) + 1,
                 s.pc = "exited" => nextJob' > Len(queue)
          PROVE  PlaceInv'
      <3>1. worker' = [worker EXCEPT ![w] = s] /\ worker'[w] = s /\ \A v \in Workers \ {w} : worker'[v] = worker[v]
        BY <1>0, <2>a DEF SetWorker
      <3>2. Accounted(worker', resultCh', results', Low', nextJob')
        BY <1>1, <1>3, <2>a, <3>1
      <3>3. \A v \in Workers : worker'[v].pc = "exited" => nextJob' > Len(queue) \/ v > Len(queue)
        <4> TAKE v \in Workers
        <4>1. CASE v = w
          BY <2>a, <3>1, <4>1
        <4>2. CASE v # w
          <5>1. worker'[v].pc = "exited" => nextJob > Len(queue) \/ v > Len(queue)
            BY <2>1, <3>1, <4>2
          <5> QED BY <1>0, <2>a, <5>1
        <4> QED BY <4>1, <4>2
      <3> QED BY <1>1, <2>1, <2>a, <3>2, <3>3 DEF PlaceInv
    <2>b. ASSUME NEW s \in WorkerState, SetWorker(w, s), s.pc = "send" => Answer(s.res),
                 \A i \in 1..Len(resultCh') : Answer(resultCh'[i])
          PROVE  ContentInv'
      <3>1. \A v \in Workers : worker'[v] = IF v = w THEN s ELSE worker[v]
        BY <1>0, <2>b DEF SetWorker
      <3>2. \A r : Answer(r)' <=> Answer(r)
        BY <1>1 DEF Answer
      <3>3. \A v \in Workers : worker'[v].pc = "send" => Answer(worker'[v].res)
        BY <2>2, <2>b, <3>1
      <3>4. /\ \A r \in results : r.ok /\ Answer(r)
            /\ pc \in {"log", "store"} => cur.ok /\ Answer(cur) /\ cur.blocks \subseteq tagged
            /\ \A i \in 1..expected - 1 : queue[i] \cap bodies \cap tagged # {}
        BY <1>5 DEF DataInv, ContentInv
      <3> QED BY <1>1, <2>b, <3>3, <3>4 DEF ContentInv, Answer
    <2>3. CASE TakeJob(w)
      <3>1. ~Busy(old) /\ resultCh' = resultCh
        BY <2>3 DEF TakeJob, Busy
      <3>2. CASE nextJob <= Len(queue)
        <4> DEFINE s == [pc |-> "fetch", job |-> nextJob, remote |-> 1, attempt |-> 1, res |-> NoResult]
        <4>1. [Idle("fetch") EXCEPT !.job = nextJob] = s
          BY DEF Idle
        <4>2. s \in WorkerState /\ Busy(s) /\ Carried(s) = nextJob /\ s.pc = "fetch"
          BY <1>0, NoResultType DEF WorkerState, Busy, Carried
        <4>3. SetWorker(w, s) /\ nextJob' = nextJob + 1
          BY <2>3, <3>2, <4>1 DEF TakeJob
        <4> HIDE DEF s
        <4>4. Accounted([worker EXCEPT ![w] = s], resultCh', results, Low, nextJob')
          BY <1>0, <2>1, <3>1, <4>2, <4>3, AccountTake
        <4>5. nextJob' \in Nat /\ nextJob <= nextJob' /\ nextJob' <= Len(queue) + 1
          BY <1>0, <3>2, <4>3
        <4>6. PlaceInv'
          BY <2>a, <4>2, <4>3, <4>4, <4>5
        <4>7. ContentInv'
          BY <2>2, <2>b, <3>1, <4>2, <4>3
        <4> QED BY <1>2, <4>6, <4>7 DEF DataInv
      <3>3. CASE ~(nextJob <= Len(queue))
        <4> DEFINE s == Idle("exited")
        <4>1. s \in WorkerState /\ ~Busy(s) /\ s.pc = "exited"
          BY IdleState DEF Busy
        <4>2. SetWorker(w, s) /\ nextJob' = nextJob
          BY <2>3, <3>3 DEF TakeJob
        <4> HIDE DEF s
        <4>3. Accounted([worker EXCEPT ![w] = s], resultCh', results, Low, nextJob')
          BY <1>0, <2>1, <3>1, <4>1, <4>2, AccountKeep
        <4>4. nextJob' > Len(queue) /\ nextJob' \in Nat /\ nextJob <= nextJob'
          BY <1>0, <3>3, <4>2
        <4>5. PlaceInv'
          BY <2>1, <2>a, <4>1, <4>2, <4>3, <4>4
        <4>6. ContentInv'
          BY <2>2, <2>b, <3>1, <4>1, <4>2
        <4> QED BY <1>2, <4>5, <4>6 DEF DataInv
      <3> QED BY <3>2, <3>3
    <2>c. ASSUME NEW s \in WorkerState, SetWorker(w, s), UNCHANGED <<nextJob, resultCh>>,
                 Busy(old), Busy(s), Carried(s) = Carried(old), s.pc = "send" => Answer(s.res)
          PROVE  DataInv'
      <3>1. Accounted([worker EXCEPT ![w] = s], resultCh', results, Low, nextJob')
        BY <1>0, <2>1, <2>c, AccountKeep
      <3>2. nextJob' \in Nat /\ nextJob <= nextJob' /\ s.pc # "exited"
        BY <1>0, <2>c DEF Busy
      <3>3. PlaceInv'
        BY <2>1, <2>a, <2>c, <3>1, <3>2
      <3>4. ContentInv'
        BY <2>2, <2>b, <2>c
      <3> QED BY <1>2, <3>3, <3>4 DEF DataInv
    <2>4. CASE FetchOk(w)
      <3> DEFINE r == [NoResult EXCEPT !.id = old.job, !.blocks = Fetched(w)]
                 s == [pc |-> "send", job |-> 0, remote |-> 1, attempt |-> 1, res |-> r]
      <3>1. old.pc = "fetch" /\ Fetched(w) # {} /\ SetWorker(w, s) /\ UNCHANGED <<nextJob, resultCh>>
        BY <2>4, SendState DEF FetchOk, Asking
      <3>2. old.job \in Nat /\ Fetched(w) \in SUBSET Blocks /\ Fetched(w) \subseteq queue[old.job]
        BY <1>0, <3>1, FetchedBlocks DEF WorkerState, Fetched
      <3>3. r \in Result /\ r.id = old.job /\ r.blocks = Fetched(w)
        <4>1. PICK i \in Nat, b \in SUBSET Blocks : i = old.job /\ b = Fetched(w)
          BY <3>2
        <4> QED BY <4>1, OkResult
      <3>4. Answer(r)
        BY <3>1, <3>2, <3>3 DEF Answer
      <3> HIDE DEF r
      <3>5. s \in WorkerState /\ Busy(s) /\ Carried(s) = r.id /\ s.res = r
        BY <3>3 DEF WorkerState, Busy, Carried
      <3>6. Busy(old) /\ Carried(old) = old.job
        BY <3>1 DEF Busy, Carried
      <3> HIDE DEF s
      <3> QED BY <2>c, <3>1, <3>3, <3>4, <3>5, <3>6
    <2>5. CASE FetchFails(w)
      <3>1. old.pc = "fetch"
        BY <2>5, FailedStep
      <3>2. PICK more \in Result : SetWorker(w, AfterFailure(old, more))
        BY <2>5, FailedStep
      <3>4. /\ AfterFailure(old, more) \in WorkerState /\ Busy(AfterFailure(old, more))
            /\ Carried(AfterFailure(old, more)) = old.job
            /\ AfterFailure(old, more).pc = "send" => Answer(AfterFailure(old, more).res)
        BY <3>1, FailureCarries
      <3>3. Busy(old) /\ Carried(old) = old.job /\ UNCHANGED <<nextJob, resultCh>>
        BY <2>5, <3>1 DEF Busy, Carried, FetchFails
      <3> QED BY <2>c, <3>2, <3>3, <3>4
    <2>7. CASE SkipRemote(w)
      <3>1. old.pc = "fetch" /\ old.res \in Result /\ SetWorker(w, Passed(old, old.res))
        BY <1>0, <2>7, SkippedStep DEF WorkerState
      <3>2. /\ Passed(old, old.res) \in WorkerState /\ Busy(Passed(old, old.res))
            /\ Carried(Passed(old, old.res)) = old.job
            /\ Passed(old, old.res).pc = "send" => Answer(Passed(old, old.res).res)
        BY <1>0, <3>1, PassedCarries
      <3>3. Busy(old) /\ Carried(old) = old.job /\ UNCHANGED <<nextJob, resultCh>>
        BY <2>7, <3>1 DEF Busy, Carried, SkipRemote
      <3> QED BY <2>c, <3>1, <3>2, <3>3
    <2>6. CASE SendResult(w)
      <3> DEFINE r == old.res
                 s == Idle("take")
      <3>1. old.pc = "send" /\ resultCh' = Append(resultCh, r) /\ SetWorker(w, s) /\ nextJob' = nextJob
        BY <2>6 DEF SendResult
      <3>2. r \in Result /\ Busy(old) /\ Carried(old) = r.id
        BY <1>0, <3>1 DEF WorkerState, Busy, Carried
      <3>3. s \in WorkerState /\ ~Busy(s) /\ s.pc = "take"
        BY IdleState DEF Busy
      <3>4. Answer(r)
        BY <2>2, <3>1
      <3> HIDE DEF r, s
      <3>5. Accounted([worker EXCEPT ![w] = s], resultCh', results, Low, nextJob')
        BY <1>0, <2>1, <3>1, <3>2, <3>3, AccountSend
      <3>6. nextJob' \in Nat /\ nextJob <= nextJob'
        BY <1>0, <3>1
      <3>7. PlaceInv'
        BY <2>1, <2>a, <3>1, <3>3, <3>5, <3>6
      <3>8. \A i \in 1..Len(resultCh') : Answer(resultCh'[i])
        <4>1. /\ Len(resultCh') = Len(resultCh) + 1 /\ resultCh'[Len(resultCh) + 1] = r
              /\ \A i \in 1..Len(resultCh) : resultCh'[i] = resultCh[i]
          BY <1>0, <3>1, <3>2
        <4>2. \A i \in 1..Len(resultCh') : i \in 1..Len(resultCh) \/ i = Len(resultCh) + 1
          BY <1>0, <4>1
        <4> QED BY <2>2, <3>4, <4>1, <4>2
      <3>9. ContentInv'
        BY <2>b, <3>1, <3>3, <3>8
      <3> QED BY <1>2, <3>7, <3>9 DEF DataInv
    <2> QED BY <2>3, <2>4, <2>5, <2>6, <2>7 DEF Work
  <1> QED BY <1>4, <1>5

\* Steps that leave a phase, or are not of a data phase.
LEMMA DataQuiet ==
  ASSUME phase' = "header" \/ pc' \in {"start", "failed"}
  PROVE  DataInv'
  <1>1. ~Running'
    BY DEF Running, Active, Phases
  <1> QED BY <1>1 DEF DataInv, PlaceInv, ContentInv, SuccessIsComplete

\* CollectData and NextData with the batch that is expected: it is written next.
LEMMA DataWrite ==
  ASSUME PoolInv, OrderInv, DataInv, Running, pc \notin {"log", "store"}, NEW r, NEW rest, Write(r, rest),
         UNCHANGED <<queue, nextJob, worker, expected, written, phase, bodies>>,
         Accounted(worker, resultCh', rest, expected + 1, nextJob), rest \in SUBSET results,
         r.ok, Answer(r), \A i \in 1..Len(resultCh') : Answer(resultCh'[i])
  PROVE  DataInv'
  <1>1. cur' = r /\ results' = rest /\ pc' = "log" /\ tagged' = tagged \cup r.blocks
    BY DEF Write, Running
  <1>2. Low' = expected + 1
    BY <1>1 DEF Low
  <1>3. PlaceInv'
    BY <1>1, <1>2 DEF DataInv, PlaceInv
  <1>4. \A i \in 1..expected - 1 : queue[i] \cap bodies \cap tagged' # {}
    BY <1>1 DEF DataInv, ContentInv
  <1>5. ContentInv'
    BY <1>1, <1>4 DEF DataInv, ContentInv, Answer
  <1> QED BY <1>1, <1>3, <1>5 DEF DataInv, SuccessIsComplete

\* The channel without its first result.
LEMMA ChannelTail ==
  ASSUME PoolInv, DataInv, Running, resultCh # <<>>
  PROVE  /\ Head(resultCh) \in Result /\ Answer(Head(resultCh))
         /\ \A i \in 1..Len(Tail(resultCh)) : Answer(Tail(resultCh)[i])
  <1>1. resultCh \in Seq(Result) /\ \A i \in 1..Len(resultCh) : Answer(resultCh[i])
    BY DEF PoolInv, PoolTypeOK, DataInv, ContentInv
  <1>2. Len(resultCh) \in Nat /\ Len(resultCh) > 0 /\ Head(resultCh) = resultCh[1]
    BY <1>1
  <1>3. /\ Len(Tail(resultCh)) = Len(resultCh) - 1
        /\ \A i \in 1..Len(resultCh) - 1 : Tail(resultCh)[i] = resultCh[i + 1]
    BY <1>1
  <1>4. \A i \in 1..Len(resultCh) - 1 : i + 1 \in 1..Len(resultCh)
    BY <1>2
  <1>5. 1 \in 1..Len(resultCh) /\ resultCh[1] \in Result
    BY <1>1, <1>2
  <1> QED BY <1>1, <1>2, <1>3, <1>4, <1>5

LEMMA DataCollect ==
  ASSUME PoolInv, OrderInv, DataInv, CollectData
  PROVE  DataInv'
  <1> DEFINE r == Head(resultCh)
  <1>0. /\ resultCh # <<>> /\ resultCh' = Tail(resultCh) /\ Running /\ pc = "fetch"
        /\ UNCHANGED <<queue, nextJob, worker, expected, written, phase, bodies>>
    BY DEF CollectData, Running, Active, dbVars
  <1>1. /\ resultCh \in Seq(Result) /\ results \in SUBSET Result
        /\ Accounted(worker, resultCh, results, expected, nextJob)
    BY <1>0 DEF PoolInv, PoolTypeOK, DataInv, PlaceInv, Low
  <1>2. /\ r \in Result /\ Answer(r) /\ \A i \in 1..Len(resultCh') : Answer(resultCh'[i])
    BY <1>0, ChannelTail
  <1>3. CASE pc' = "failed"
    BY <1>3, DataQuiet
  <1>4. CASE r.ok /\ r.id = expected /\ Write(r, results)
    <2>1. Accounted(worker, resultCh', results, expected + 1, nextJob)
      BY <1>0, <1>1, <1>4, AccountHead
    <2> HIDE DEF r
    <2> QED BY <1>0, <1>2, <1>4, <2>1, DataWrite
  <1>5. CASE r.ok /\ r.id # expected /\ results' = results \cup {r} /\ UNCHANGED <<pc, cur, tagged>>
    <2>1. Accounted(worker, resultCh', results', expected, nextJob)
      BY <1>0, <1>1, <1>5, AccountBuffer
    <2>2. Low' = expected
      BY <1>0, <1>5 DEF Low
    <2> HIDE DEF r
    <2>3. PlaceInv'
      BY <1>0, <1>5, <2>1, <2>2 DEF DataInv, PlaceInv
    <2>4. ContentInv'
      BY <1>0, <1>2, <1>5 DEF DataInv, ContentInv, Answer
    <2> QED BY <1>0, <1>5, <2>3, <2>4 DEF DataInv, SuccessIsComplete
  <1> QED BY <1>3, <1>4, <1>5 DEF CollectData, Fail

LEMMA DataNext ==
  ASSUME PoolInv, OrderInv, DataInv, NextData
  PROVE  DataInv'
  <1>0. /\ Running /\ pc = "next" /\ resultCh' = resultCh
        /\ UNCHANGED <<queue, nextJob, worker, expected, written, phase, bodies>>
    BY DEF NextData, Running, Active, dbVars, poolVars, callVars
  <1>1. /\ results \in SUBSET Result /\ Accounted(worker, resultCh, results, expected, nextJob)
        /\ \A i \in 1..Len(resultCh) : Answer(resultCh[i])
        /\ \A r \in results : r.ok /\ Answer(r)
    BY <1>0 DEF PoolInv, PoolTypeOK, DataInv, PlaceInv, ContentInv, Low
  <1>2. CASE \E r \in results : r.id = expected /\ Write(r, results \ {r})
    <2>1. PICK r \in results : r.id = expected /\ Write(r, results \ {r})
      BY <1>2
    <2>2. Accounted(worker, resultCh', results \ {r}, expected + 1, nextJob)
      BY <1>0, <1>1, <2>1, AccountWrite
    <2> QED BY <1>0, <1>1, <2>1, <2>2, DataWrite
  <1>3. CASE (\A r \in results : r.id # expected) /\ pc' = "fetch" /\ UNCHANGED <<cur, results, tagged>>
    <2>1. Low' = Low
      BY <1>0, <1>3 DEF Low
    <2>2. PlaceInv'
      BY <1>0, <1>3, <2>1 DEF DataInv, PlaceInv
    <2>3. ContentInv'
      BY <1>0, <1>3 DEF DataInv, ContentInv, Answer
    <2> QED BY <1>3, <2>2, <2>3 DEF DataInv, SuccessIsComplete
  <1> QED BY <1>2, <1>3 DEF NextData

LEMMA DataStore ==
  ASSUME PoolInv, OrderInv, DataInv, LogBatch \/ StoreBatch
  PROVE  DataInv'
  <1>0. phase \in Phases /\ phase' = phase
    BY DEF PoolInv, PoolTypeOK, LogBatch, StoreBatch
  <1>1. CASE phase = "header" \/ pc' = "failed"
    BY <1>0, <1>1, DataQuiet
  <1>2. CASE phase = "data" /\ LogBatch /\ pc' = "store"
    <2>1. /\ UNCHANGED <<queue, nextJob, worker, resultCh, results, expected, cur, tagged, bodies, phase>>
          /\ Running /\ pc = "log"
      BY <1>2 DEF LogBatch, poolVars, writeVars, Running, Active
    <2>2. Low' = Low
      BY <1>2, <2>1 DEF Low
    <2>3. PlaceInv'
      BY <1>2, <2>1, <2>2 DEF DataInv, PlaceInv
    <2>4. ContentInv'
      BY <1>2, <2>1 DEF DataInv, ContentInv, Answer
    <2> QED BY <1>2, <2>3, <2>4 DEF DataInv, SuccessIsComplete
  <1>3. CASE phase = "data" /\ StoreBatch /\ pc' = "next"
    <2>1. /\ UNCHANGED <<queue, nextJob, worker, resultCh, results, cur, tagged, phase>>
          /\ Running /\ pc = "store" /\ bodies' = bodies \cup cur.blocks /\ expected' = expected + 1
      BY <1>3 DEF StoreBatch, Fail, poolVars, Running, Active
    <2>2. Low' = Low
      BY <1>3, <2>1 DEF Low
    <2>3. PlaceInv'
      BY <1>3, <2>1, <2>2 DEF DataInv, PlaceInv
    <2>4. expected \in Nat \ {0} /\ cur.id = expected
      BY <1>3, <2>1 DEF OrderInv
    <2>5. queue[expected] \cap bodies' \cap tagged # {}
      BY <2>1, <2>4 DEF DataInv, ContentInv, Answer
    <2>6. \A i \in 1..expected' - 1 : i \in 1..expected - 1 \/ i = expected
      BY <2>1, <2>4
    <2>7. \A i \in 1..expected - 1 : queue[i] \cap bodies' \cap tagged # {}
      BY <2>1 DEF DataInv, ContentInv
    <2>8. \A i \in 1..expected' - 1 : queue'[i] \cap bodies' \cap tagged' # {}
      BY <2>1, <2>5, <2>6, <2>7
    <2>9. ContentInv'
      BY <1>3, <2>1, <2>8 DEF DataInv, ContentInv, Answer
    <2> QED BY <1>3, <2>3, <2>9 DEF DataInv, SuccessIsComplete
  <1> QED BY <1>0, <1>1, <1>2, <1>3 DEF LogBatch, StoreBatch, Fail, Phases

\* All workers have exited and the channel is empty: the queue is written.
LEMMA DataEnds ==
  ASSUME PoolInv, QueueInv, OrderInv, DataInv, DataFinished
  PROVE  DataInv'
  <1>0. /\ Running /\ pc = "fetch" /\ pc' = "done" /\ phase' = phase /\ PoolDone
        /\ UNCHANGED <<queue, written, results, bodies, tagged>>
    BY DEF DataFinished, Running, Active, dbVars, poolVars, writeVars, callVars
  <1>1. /\ Accounted(worker, resultCh, results, expected, nextJob) /\ nextJob <= Len(queue) + 1
        /\ \A w \in Workers : worker[w].pc = "exited" => nextJob > Len(queue) \/ w > Len(queue)
        /\ \A r \in results : r.id # expected
        /\ \A i \in 1..expected - 1 : queue[i] \cap bodies \cap tagged # {}
    BY <1>0 DEF DataInv, PlaceInv, ContentInv, Low
  <1>2. /\ expected \in Nat \ {0} /\ Len(written) = expected - 1
        /\ nextJob \in Nat \ {0} /\ Len(queue) \in Nat /\ DOMAIN queue = 1..Len(queue)
    BY <1>0 DEF OrderInv, Running, PoolInv, PoolTypeOK, QueueInv
  <1>3. nextJob = Len(queue) + 1
    <2>1. 1 \in Workers
      BY BlockSyncAssumption DEF Workers
    <2>2. nextJob > Len(queue) \/ 1 > Len(queue)
      BY <1>0, <1>1, <2>1 DEF PoolDone
    <2> QED BY <1>1, <1>2, <2>2
  <1>4. expected <= nextJob /\ InPlace(worker, resultCh, results, expected, nextJob)
        /\ \A j \in expected..nextJob - 1 : Somewhere(worker, resultCh, results, j)
    BY <1>1 DEF Accounted
  <1>5. \A w \in Workers : ~Busy(worker[w])
    BY <1>0 DEF PoolDone, Busy
  <1>6. \A i \in 1..Len(resultCh) : FALSE
    <2>1. Len(resultCh) = 0
      BY <1>0 DEF PoolDone
    <2> QED BY <2>1
  <1>7. \A j \in expected..nextJob - 1 : \E r \in results : r.id = j
    BY <1>4, <1>5, <1>6 DEF Somewhere
  <1>8. expected = nextJob
    <2> SUFFICES ASSUME expected # nextJob PROVE FALSE
      OBVIOUS
    <2>1. expected \in expected..nextJob - 1
      BY <1>2, <1>4
    <2> QED BY <1>1, <1>7, <2>1
  <1>9. results = {}
    <2> SUFFICES ASSUME NEW r \in results PROVE FALSE
      OBVIOUS
    <2>1. r.id \in expected..nextJob - 1
      BY <1>4 DEF InPlace
    <2> QED BY <1>2, <1>8, <2>1
  <1>10. Len(written) = Len(queue) /\ expected - 1 = Len(queue)
    BY <1>2, <1>3, <1>8
  <1>11. \A i \in DOMAIN queue : queue[i] \cap bodies \cap tagged # {}
    BY <1>1, <1>2, <1>10
  <1>12. SuccessIsComplete'
    BY <1>0, <1>9, <1>10, <1>11 DEF SuccessIsComplete
  <1> QED BY <1>0, <1>12 DEF DataInv, PlaceInv, ContentInv, Running, Active

LEMMA DataStep ==
  PoolInv /\ QueueInv /\ OrderInv /\ DataInv /\ [Next]_vars => DataInv'
  <1> SUFFICES ASSUME PoolInv, QueueInv, OrderInv, DataInv, [Next]_vars PROVE DataInv'
    OBVIOUS
  <1>0. QueueInv'
    BY QueueStep
  <1>1. CASE StartPriorSync \/ StartCatchUp \/ StartGapFill \/ StartFails
    <2>1. phase' = "header" \/ pc' = "failed"
      BY <1>1 DEF StartPriorSync, StartCatchUp, StartGapFill, StartFails, CallHeaderSync
    <2> QED BY <2>1, DataQuiet
  <1>2. CASE CollectHeaders \/ HeadersCollected \/ NextHeaders
    <2>1. phase' = "header"
      BY <1>2 DEF CollectHeaders, HeadersCollected, NextHeaders, callVars
    <2> QED BY <2>1, DataQuiet
  <1>3. CASE SkipConfirmation \/ SyncConfirmation
    <2>1. phase' = "header" \/ \E batches : Launch(batches)
      BY <1>3 DEF SkipConfirmation, SyncConfirmation, NextRound, CallDataSync
    <2>2. ASSUME NEW batches, Launch(batches) PROVE DataInv'
      BY <1>0, <2>2, DataLaunch DEF DataInv
    <2> QED BY <2>1, <2>2, DataQuiet
  <1>4. CASE CollectData
    BY <1>4, DataCollect
  <1>5. CASE NextData
    BY <1>5, DataNext
  <1>6. CASE DataFinished
    BY <1>6, DataEnds
  <1>7. CASE LogBatch \/ StoreBatch
    BY <1>7, DataStore
  <1>8. CASE Crash \/ Restart
    <2>1. pc' \in {"start", "failed"}
      BY <1>8 DEF Crash, Restart
    <2> QED BY <2>1, DataQuiet
  <1>9. CASE \E w \in Workers : Work(w)
    BY <1>9, DataWork
  <1>10. CASE UNCHANGED vars
    <2>1. UNCHANGED <<queue, nextJob, worker, resultCh, results, expected, cur, written, tagged, bodies, pc, phase>>
      BY <1>10 DEF vars, dbVars, poolVars, writeVars, callVars
    <2>2. PlaceInv'
      BY <2>1 DEF DataInv, PlaceInv, Running, Low
    <2>3. ContentInv'
      BY <2>1 DEF DataInv, ContentInv, Running, Answer
    <2> QED BY <2>1, <2>2, <2>3 DEF DataInv, SuccessIsComplete
  <1> QED BY <1>1, <1>2, <1>3, <1>4, <1>5, <1>6, <1>7, <1>8, <1>9, <1>10 DEF Next, Step

\* DataSync reports success only when every batch was written, no early batch is left in
\* outOfOrderBatches, and each batch brought bodies that are stored and whose accounts
\* were tagged.
THEOREM SuccessComplete == Spec => []SuccessIsComplete
  <1>1. DataInv => SuccessIsComplete
    BY DEF DataInv
  <1> QED BY PoolInit, PoolStep, QueueInit, QueueStep, OrderInit, OrderStep, DataInit, DataStep, <1>1, PTL
          DEF Spec

=============================================================================
