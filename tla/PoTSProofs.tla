----------------------------- MODULE PoTSProofs -----------------------------
(***************************************************************************)
(* Proofs about PoTS, for any starting chain, numbers of blocks, streams,  *)
(* requests and changes of availability, any limits of Read and any faults.*)
(***************************************************************************)
EXTENDS PoTS, SequenceTheorems, FiniteSetTheorems, WellFoundedInduction, TLAPS

-----------------------------------------------------------------------------
(* Numbers, finite sets and sequences.                                     *)

\* A set of natural numbers that is not empty has a least one.
LEMMA LeastExists ==
  ASSUME NEW T \in SUBSET Nat, T # {}
  PROVE  \E x \in T : \A y \in T : x <= y
  <1> DEFINE R == {p \in Nat \X Nat : p[1] < p[2]}
  <1>1. IsWellFoundedOn(R, Nat)
    <2>1. R = OpToRel(<, Nat)
      BY DEF OpToRel
    <2> QED BY <2>1, NatLessThanWellFounded
  <1> HIDE DEF R
  <1>2. PICK x \in T : \A y \in T : ~(<<y, x>> \in R)
    BY <1>1, WFMin
  <1>3. \A y \in T : ~(y < x)
    <2> TAKE y \in T
    <2>1. x \in Nat /\ y \in Nat
      OBVIOUS
    <2>2. y < x => <<y, x>> \in R
      BY <2>1 DEF R
    <2> QED BY <1>2, <2>2
  <1> QED BY <1>3

\* What holds of 0, and of each number up to b when it holds of the one before, holds
\* up to b; the set G is where it holds.
LEMMA UpTo ==
  ASSUME NEW b \in Nat, NEW G, 0 \in G, \A n \in 1..b : n - 1 \in G => n \in G
  PROVE  \A n \in 0..b : n \in G
  <1> DEFINE Bad == {n \in 0..b : n \notin G}
  <1> SUFFICES ASSUME Bad # {} PROVE FALSE
    OBVIOUS
  <1>1. PICK x \in Bad : \A y \in Bad : x <= y
    <2>1. Bad \in SUBSET Nat
      OBVIOUS
    <2> HIDE DEF Bad
    <2> QED BY <2>1, LeastExists
  <1>2. x \in 1..b /\ x - 1 \in 0..b /\ x \notin G
    OBVIOUS
  <1>3. x - 1 \in G
    BY <1>1, <1>2
  <1> QED BY <1>2, <1>3

\* A set of naturals with an upper bound that is not empty has a greatest one.
LEMMA GreatestExists ==
  ASSUME NEW T \in SUBSET Nat, T # {}, NEW b \in Nat, \A x \in T : x <= b
  PROVE  \E x \in T : \A y \in T : x >= y
  <1> DEFINE U == {n \in Nat : \A y \in T : y <= n}
  <1>1. U \in SUBSET Nat /\ U # {}
    OBVIOUS
  <1>2. PICK u \in U : \A v \in U : u <= v
    BY <1>1, LeastExists
  <1>3. u \in Nat /\ \A y \in T : y <= u
    OBVIOUS
  <1>4. u \in T
    <2> SUFFICES ASSUME u \notin T PROVE FALSE
      OBVIOUS
    <2>1. \A y \in T : y < u
      BY <1>3
    <2>2. PICK y \in T : y < u
      BY <2>1
    <2>3. u - 1 \in Nat /\ \A z \in T : z <= u - 1
      BY <1>3, <2>1, <2>2
    <2> QED BY <1>2, <1>3, <2>3
  <1> QED BY <1>3, <1>4

\* A finite set of naturals that is not empty has a maximum.
LEMMA MaxFinite ==
  ASSUME NEW S \in SUBSET Nat, IsFiniteSet(S), S # {}
  PROVE  Max(S) \in S /\ \A x \in S : x <= Max(S)
  <1> DEFINE c == Cardinality(S)
  <1> DEFINE G == {n \in 0..c : \A T \in SUBSET S : Cardinality(T) = n => \E b \in Nat : \A x \in T : x <= b}
  <1>1. c \in Nat
    BY FS_CardinalityType
  <1>2. \A T \in SUBSET S : IsFiniteSet(T) /\ Cardinality(T) \in Nat
    BY FS_Subset, FS_CardinalityType
  <1>3. 0 \in G
    <2>1. \A T \in SUBSET S : Cardinality(T) = 0 => T = {}
      BY <1>2, FS_EmptySet
    <2> QED BY <1>1, <2>1
  <1>4. ASSUME NEW n \in 1..c, n - 1 \in G PROVE n \in G
    <2> SUFFICES ASSUME NEW T \in SUBSET S, Cardinality(T) = n
                 PROVE  \E b \in Nat : \A x \in T : x <= b
      BY <1>1
    <2>0. n # 0 /\ Cardinality({}) = 0
      BY FS_EmptySet
    <2>1. PICK x \in T : TRUE
      BY <2>0
    <2>2. Cardinality(T \ {x}) = n - 1
      BY <1>1, <1>2, FS_RemoveElement
    <2>3. PICK b \in Nat : \A y \in T \ {x} : y <= b
      BY <1>4, <2>2
    <2>4. x \in Nat /\ T \subseteq Nat
      OBVIOUS
    <2>5. CASE x <= b
      BY <2>3, <2>5
    <2>6. CASE x > b
      BY <2>3, <2>4, <2>6
    <2> QED BY <2>4, <2>5, <2>6
  <1>5. \A n \in 0..c : n \in G
    <2>1. \A n \in 1..c : n - 1 \in G => n \in G
      BY <1>4
    <2> HIDE DEF G, c
    <2> QED BY <1>1, <1>3, <2>1, UpTo
  <1>6. PICK b \in Nat : \A x \in S : x <= b
    BY <1>1, <1>5
  <1>7. \E x \in S : \A y \in S : x >= y
    BY <1>6, GreatestExists
  <1>8. Max(S) \in S /\ \A y \in S : Max(S) >= y
    BY <1>7 DEF Max
  <1> QED BY <1>8
\* A sequence over a set is one over a larger set.
LEMMA SeqWiden ==
  ASSUME NEW A, NEW B, A \subseteq B, NEW s \in Seq(A)
  PROVE  s \in Seq(B)
  <1>1. PICK n \in Nat : s \in [1..n -> A]
    OBVIOUS
  <1>2. s \in [1..n -> B]
    BY <1>1
  <1> QED BY <1>2

\* SetToSeq lists a finite set.
LEMMA SetToSeqLists ==
  ASSUME NEW S, IsFiniteSet(S)
  PROVE  /\ SetToSeq(S) \in Seq(S) /\ ToSet(SetToSeq(S)) = S
         /\ \A i, j \in DOMAIN SetToSeq(S) : i # j => SetToSeq(S)[i] # SetToSeq(S)[j]
  <1> DEFINE n == Cardinality(S)
             s == SetToSeq(S)
  <1>1. n \in Nat /\ ExistsBijection(1..n, S)
    BY FS_CardinalityType
  <1>2. s \in [1..n -> S] /\ IsInjective(s)
    <2>1. \E f \in [1..n -> S] : IsInjective(f)
      BY <1>1 DEF ExistsBijection, Bijection, Injection
    <2>2. s = CHOOSE f \in [1..n -> S] : IsInjective(f)
      BY DEF SetToSeq
    <2> HIDE DEF s, n
    <2> QED BY <2>1, <2>2
  <1> HIDE DEF s
  <1>3. s \in Injection(1..n, S)
    BY <1>2 DEF Injection
  <1>4. Cardinality(1..n) = n
    <2>1. 1 \in Int /\ n \in Int
      BY <1>1
    <2>2. Cardinality(1..n) = IF 1 > n THEN 0 ELSE n - 1 + 1
      BY <2>1, FS_Interval
    <2> HIDE DEF n
    <2> QED BY <1>1, <2>2
  <1>5. s \in Surjection(1..n, S)
    BY <1>3, <1>4, FS_Injection
  <1> HIDE DEF n
  <1>6. s \in Seq(S)
    BY <1>1, <1>2
  <1>7. ToSet(s) = S
    BY <1>2, <1>5 DEF ToSet, Surjection
  <1>8. \A i, j \in DOMAIN s : i # j => s[i] # s[j]
    BY <1>2 DEF IsInjective
  <1> QED BY <1>6, <1>7, <1>8 DEF s


\* A set of naturals up to b is finite.
LEMMA BoundedFinite ==
  ASSUME NEW b \in Nat, NEW S \in SUBSET (0..b)
  PROVE  IsFiniteSet(S)
  <1>1. 0 \in Int /\ b \in Int
    OBVIOUS
  <1>2. IsFiniteSet(0..b)
    BY <1>1, FS_Interval
  <1> QED BY <1>2, FS_Subset

\* The maximum of a finite set is the element that no other exceeds.
LEMMA MaxIs ==
  ASSUME NEW S \in SUBSET Nat, IsFiniteSet(S), NEW m \in S, \A x \in S : x <= m
  PROVE  Max(S) = m
  <1>1. Max(S) \in S /\ \A x \in S : x <= Max(S)
    BY MaxFinite
  <1>2. Max(S) \in Nat /\ m \in Nat /\ Max(S) <= m /\ m <= Max(S)
    BY <1>1
  <1> QED BY <1>2

\* The rank of an element is its place in the order.
LEMMA RankOk ==
  ASSUME NEW S \in SUBSET Nat, IsFiniteSet(S)
  PROVE  /\ \A x \in S : Rank(S, x) \in 1..Cardinality(S)
         /\ \A x, y \in S : x < y => Rank(S, x) < Rank(S, y)
  <1> DEFINE To(x) == {y \in S : y <= x}
  <1>1. Cardinality(S) \in Nat
    BY FS_CardinalityType
  <1>2. ASSUME NEW x \in S
        PROVE  /\ IsFiniteSet(To(x)) /\ Cardinality(To(x)) \in Nat
               /\ Cardinality(To(x)) <= Cardinality(S) /\ Cardinality(To(x)) # 0
    <2>1. To(x) \in SUBSET S /\ x \in To(x)
      OBVIOUS
    <2> HIDE DEF To
    <2>2. IsFiniteSet(To(x)) /\ Cardinality(To(x)) <= Cardinality(S)
      BY <2>1, FS_Subset
    <2>3. Cardinality(To(x)) \in Nat
      BY <2>2, FS_CardinalityType
    <2>4. Cardinality(To(x)) # 0
      BY <2>1, <2>2, FS_EmptySet
    <2> QED BY <2>2, <2>3, <2>4
  <1>3. ASSUME NEW x \in S, NEW y \in S, x < y
        PROVE  Cardinality(To(x)) < Cardinality(To(y))
    <2>1. To(x) \in SUBSET To(y) /\ y \in To(y) /\ y \notin To(x)
      <3>1. x \in Nat /\ y \in Nat
        OBVIOUS
      <3>2. \A z \in S : z \in Nat /\ (z <= x => z <= y)
        BY <1>3, <3>1
      <3>3. To(x) \in SUBSET To(y)
        BY <3>2
      <3> QED BY <1>3, <3>1, <3>3
    <2>2. IsFiniteSet(To(y)) /\ Cardinality(To(x)) \in Nat /\ Cardinality(To(y)) \in Nat
      BY <1>2
    <2> HIDE DEF To
    <2>3. To(x) # To(y)
      BY <2>1
    <2>4. Cardinality(To(x)) <= Cardinality(To(y)) /\ (Cardinality(To(x)) = Cardinality(To(y)) => To(x) = To(y))
      BY <2>1, <2>2, FS_Subset
    <2> QED BY <2>2, <2>3, <2>4
  <1>4. \A x : Rank(S, x) = Cardinality(To(x))
    BY DEF Rank
  <1> HIDE DEF To
  <1>5. ASSUME NEW x \in S PROVE Rank(S, x) \in 1..Cardinality(S)
    BY <1>1, <1>2, <1>4
  <1>6. ASSUME NEW x \in S, NEW y \in S, x < y PROVE Rank(S, x) < Rank(S, y)
    BY <1>3, <1>4, <1>6
  <1> QED BY <1>5, <1>6

\* InOrder lists a finite set of numbers in increasing order.
LEMMA InOrderOk ==
  ASSUME NEW S \in SUBSET Nat, IsFiniteSet(S)
  PROVE  /\ InOrder(S) \in Seq(S) /\ ToSet(InOrder(S)) = S
         /\ DOMAIN InOrder(S) = 1..Len(InOrder(S))
         /\ \A i, j \in DOMAIN InOrder(S) : i < j => InOrder(S)[i] < InOrder(S)[j]
  <1> DEFINE n == Cardinality(S)
             s == InOrder(S)
             r == [x \in S |-> Rank(S, x)]
  <1>1. n \in Nat
    BY FS_CardinalityType
  <1>2. /\ \A x \in S : Rank(S, x) \in 1..n
        /\ \A x, y \in S : x < y => Rank(S, x) < Rank(S, y)
    BY RankOk
  <1>3. DOMAIN s = 1..n /\ \A i \in 1..n : s[i] = CHOOSE x \in S : Rank(S, x) = i
    BY DEF InOrder
  <1> HIDE DEF n, s
  <1>4. \A x, y \in S : Rank(S, x) = Rank(S, y) => x = y
    <2> SUFFICES ASSUME NEW x \in S, NEW y \in S, Rank(S, x) = Rank(S, y), x # y PROVE FALSE
      OBVIOUS
    <2>1. x \in Nat /\ y \in Nat /\ Rank(S, x) \in Nat
      BY <1>1, <1>2
    <2>2. x < y \/ y < x
      BY <2>1
    <2>3. Rank(S, x) < Rank(S, y) \/ Rank(S, y) < Rank(S, x)
      BY <1>2, <2>2
    <2> QED BY <2>1, <2>3
  <1>5. \A i \in 1..n : \E x \in S : Rank(S, x) = i
    <2>1. r \in [S -> 1..n] /\ \A x \in S : r[x] = Rank(S, x)
      BY <1>2
    <2> HIDE DEF r
    <2>2. r \in Injection(S, 1..n)
      BY <1>4, <2>1 DEF Injection, IsInjective
    <2>3. IsFiniteSet(1..n) /\ Cardinality(1..n) = n
      <3>1. 1 \in Int /\ n \in Int
        BY <1>1
      <3>2. IsFiniteSet(1..n) /\ Cardinality(1..n) = IF 1 > n THEN 0 ELSE n - 1 + 1
        BY <3>1, FS_Interval
      <3> QED BY <1>1, <3>2
    <2>4. r \in Surjection(S, 1..n)
      BY <2>2, <2>3, FS_Injection DEF n
    <2> QED BY <2>1, <2>4 DEF Surjection
  <1>6. \A i \in 1..n : s[i] \in S /\ Rank(S, s[i]) = i
    BY <1>3, <1>5
  <1>7. s \in [1..n -> S]
    <2>1. s = [i \in 1..n |-> s[i]]
      <3>1. s = [i \in 1..Cardinality(S) |-> CHOOSE x \in S : Rank(S, x) = i]
        BY DEF InOrder, s
      <3> QED BY <1>3, <3>1 DEF n
    <2> QED BY <1>6, <2>1
  <1>8. s \in Seq(S) /\ Len(s) = n /\ DOMAIN s = 1..n
    BY <1>1, <1>7
  <1>9. ToSet(s) = S
    <2>1. ToSet(s) = {s[i] : i \in 1..n}
      BY <1>8 DEF ToSet
    <2>2. \A x \in S : Rank(S, x) \in 1..n /\ s[Rank(S, x)] = x
      BY <1>2, <1>4, <1>6
    <2> QED BY <1>6, <2>1, <2>2
  <1>10. \A i, j \in 1..n : i < j => s[i] < s[j]
    <2> SUFFICES ASSUME NEW i \in 1..n, NEW j \in 1..n, i < j PROVE s[i] < s[j]
      OBVIOUS
    <2>1. s[i] \in S /\ s[j] \in S /\ s[i] \in Nat /\ s[j] \in Nat
      BY <1>6
    <2>2. ~(s[j] < s[i]) /\ s[j] # s[i]
      BY <1>1, <1>2, <1>6, <2>1
    <2> QED BY <2>1, <2>2
  <1> QED BY <1>8, <1>9, <1>10 DEF s

-----------------------------------------------------------------------------
(* The stream of a subscription.                                           *)

\* Appending to a sequence, as its reader sees it.
LEMMA AppendSeen ==
  ASSUME NEW S, NEW s \in Seq(S), NEW x \in S
  PROVE  /\ Append(s, x) \in Seq(S) /\ Append(s, x) # <<>>
         /\ s = <<>> => Head(Append(s, x)) = x /\ Tail(Append(s, x)) = <<>>
         /\ s # <<>> => /\ Head(Append(s, x)) = Head(s) /\ Head(s) \in S /\ Tail(s) \in Seq(S)
                        /\ Tail(Append(s, x)) = Append(Tail(s), x)
  <1>1. Append(s, x) \in Seq(S) /\ Append(s, x) # <<>>
    BY AppendProperties
  <1>2. s = <<>> => Head(Append(s, x)) = x /\ Tail(Append(s, x)) = <<>>
    OBVIOUS
  <1>3. ASSUME s # <<>>
        PROVE  /\ Head(Append(s, x)) = Head(s) /\ Head(s) \in S /\ Tail(s) \in Seq(S)
               /\ Tail(Append(s, x)) = Append(Tail(s), x)
    <2>1. Head(s) \in S /\ Tail(s) \in Seq(S) /\ Len(s) > 0 /\ Head(Append(s, x)) = Head(s)
      BY <1>3
    <2>2. /\ Tail(Append(s, x)) \in Seq(S) /\ Append(Tail(s), x) \in Seq(S)
          /\ Len(Tail(Append(s, x))) = Len(s) /\ Len(Append(Tail(s), x)) = Len(s)
      BY <1>3, <2>1
    <2>3. \A i \in 1..Len(s) : Tail(Append(s, x))[i] = Append(Tail(s), x)[i]
      BY <1>3, <2>1
    <2>4. Tail(Append(s, x)) = Append(Tail(s), x)
      BY <2>2, <2>3, SeqEqual
    <2> QED BY <2>1, <2>4
  <1> QED BY <1>1, <1>2, <1>3

LEMMA MinPair ==
  ASSUME NEW a \in Int, NEW b \in Int
  PROVE  Min({a, b}) \in {a, b} /\ Min({a, b}) <= a /\ Min({a, b}) <= b
  <1>1. \E x \in {a, b} : \A y \in {a, b} : x <= y
    OBVIOUS
  <1>2. Min({a, b}) = CHOOSE x \in {a, b} : \A y \in {a, b} : x <= y
    BY DEF Min
  <1>3. Min({a, b}) \in {a, b} /\ \A y \in {a, b} : Min({a, b}) <= y
    BY <1>1, <1>2
  <1> QED BY <1>3

Kinds == {"block", "other", "accepted", "refused", "done"}
Frames == [kind : Kinds, block : Nat, version : Nat]

LEMMA FrameTypes ==
  /\ \A kind \in Kinds : Frame(kind) \in Frames /\ Frame(kind).kind = kind
  /\ \A b, v \in Nat : Block(b, v) \in Frames /\ Block(b, v).kind = "block" /\ Block(b, v).block = b
  BY DEF Frame, Frames, Block, Kinds

WireType ==
  /\ chain \in Seq(Nat) /\ nextPub \in Nat \ {0}
  /\ sub \in [pc : {"idle", "handshake", "loop"}, stream : 0..MaxSubs]
  /\ handler \in [Subs -> {"none", "request", "accept", "refuse", "added", "done"}]
  /\ streams \in SUBSET Subs
  /\ frames \in Seq(Frames) /\ owed \in Seq(Frames)
  /\ link \in {"open", "reset", "closed", "gone"}

\* f is what is owed to the client, and PubSubDone once the server has closed its end.
OnTheWay(f) == f = owed \/ (link = "closed" /\ f = Append(owed, Frame("done")))

\* Where the handler of the subscriber's stream is, and what it has written to it.
IdleInv == sub.pc = "idle" => frames = <<>> /\ owed = <<>> /\ link = "gone"
StreamInv ==
  sub.pc # "idle" => sub.stream \in Subs /\ handler[sub.stream] # "none" /\ link # "gone"
LaterInv == \A s \in Subs : s > sub.stream => handler[s] = "none"
AddedInv == \A s \in streams : handler[s] \in {"added", "done"}
SilentInv ==
  sub.pc = "handshake" /\ handler[sub.stream] \in {"request", "accept", "refuse"} =>
    frames = <<>> /\ owed = <<>> /\ link = "open"
EarlyInv ==
  sub.pc = "handshake" /\ handler[sub.stream] = "added" /\ link # "reset" => OnTheWay(frames)
GreetedInv ==
  sub.pc = "handshake" /\ handler[sub.stream] = "done" /\ link # "reset" =>
    (frames # <<>> /\ Head(frames).kind = "accepted" => OnTheWay(Tail(frames)))
LoopInv ==
  sub.pc = "loop" => handler[sub.stream] = "done" /\ (link # "reset" => OnTheWay(frames))
OwedInv == \A i \in DOMAIN owed : owed[i].kind = "block"

WireInv ==
  /\ WireType /\ IdleInv /\ StreamInv /\ LaterInv /\ AddedInv
  /\ SilentInv /\ EarlyInv /\ GreetedInv /\ LoopInv /\ OwedInv

\* The invariant is about these variables alone.
LEMMA WireKept ==
  ASSUME WireInv, UNCHANGED <<chain, nextPub, sub, handler, streams, frames, link, owed>>
  PROVE  WireInv'
  BY DEF WireInv, WireType, IdleInv, StreamInv, LaterInv, AddedInv, SilentInv, EarlyInv,
         GreetedInv, LoopInv, OwedInv, OnTheWay

LEMMA WireInit == Init => WireInv
  <1> SUFFICES ASSUME Init PROVE WireInv
    OBVIOUS
  <1>0. StartBlocks \in Nat /\ MaxSubs \in Nat
    BY PoTSAssumption
  <1>1. chain \in Seq(Nat)
    BY <1>0 DEF Init
  <1>2. WireType
    BY <1>0, <1>1 DEF Init, WireType, Subs
  <1>3. IdleInv /\ StreamInv /\ LaterInv /\ AddedInv /\ SilentInv /\ EarlyInv /\ GreetedInv /\ LoopInv /\ OwedInv
    BY DEF Init, IdleInv, StreamInv, LaterInv, AddedInv, SilentInv, EarlyInv, GreetedInv, LoopInv, OwedInv
  <1> QED BY <1>2, <1>3 DEF WireInv

\* A frame appended by the server to what it wrote before.
LEMMA WireSent ==
  ASSUME WireInv, NEW b \in Frames, b.kind = "block", link = "open",
         frames' = Append(frames, b), owed' = Append(owed, b),
         UNCHANGED <<sub, handler, link>>, handler[sub.stream] \in {"added", "done"},
         sub.pc # "idle", WireType'
  PROVE  IdleInv' /\ StreamInv' /\ SilentInv' /\ EarlyInv' /\ GreetedInv' /\ LoopInv' /\ OwedInv'
  <1>1. frames \in Seq(Frames) /\ owed \in Seq(Frames)
    BY DEF WireInv, WireType
  <1>2. IdleInv' /\ StreamInv' /\ SilentInv'
    BY DEF WireInv, IdleInv, StreamInv, SilentInv
  <1>3. EarlyInv' /\ LoopInv'
    BY DEF WireInv, EarlyInv, LoopInv, OnTheWay
  <1>4. GreetedInv'
    <2> SUFFICES ASSUME sub.pc = "handshake", handler[sub.stream] = "done",
                        frames' # <<>>, Head(frames').kind = "accepted"
                 PROVE  Tail(frames') = owed'
      BY DEF GreetedInv, OnTheWay
    <2>1. frames # <<>>
      BY <1>1, AppendSeen
    <2>2. Head(frames') = Head(frames) /\ Tail(frames') = Append(Tail(frames), b)
      BY <1>1, <2>1, AppendSeen
    <2>3. Tail(frames) = owed
      BY <2>1, <2>2 DEF WireInv, GreetedInv, OnTheWay
    <2> QED BY <2>2, <2>3
  <1>5. OwedInv'
    BY <1>1 DEF WireInv, OwedInv
  <1> QED BY <1>2, <1>3, <1>4, <1>5

LEMMA WirePublish == WireInv /\ Publish => WireInv'
  <1> SUFFICES ASSUME WireInv, Publish PROVE WireInv'
    OBVIOUS
  <1> DEFINE b == Block(nextPub, chain[nextPub])
             s == sub.stream
  <1>1. b \in Frames /\ b.kind = "block"
    <2>1. nextPub \in 1..Len(chain) /\ chain \in Seq(Nat)
      BY DEF Publish, WireInv, WireType
    <2>2. nextPub \in Nat /\ chain[nextPub] \in Nat
      BY <2>1
    <2> QED BY <2>2, FrameTypes
  <1>2. PICK failed \in SUBSET {t \in streams : WriteFails(t)} :
          /\ IF s \in streams \ failed THEN WriteTo(s, b) ELSE UNCHANGED frames
          /\ IF s \in streams /\ Live(s) THEN owed' = Append(owed, b) /\ UNCHANGED missed
             ELSE missed' = missed \cup {b} /\ UNCHANGED owed
          /\ link' = IF s \in failed /\ Live(s) THEN "reset" ELSE link
          /\ streams' = streams \ failed
    BY DEF Publish
  <1>3. /\ chain' = chain /\ nextPub' = nextPub + 1 /\ UNCHANGED <<handler, sub>>
    BY DEF Publish
  <1> HIDE DEF b
  <1>4. WireType'
    <2>1. /\ frames \in Seq(Frames) /\ Append(frames, b) \in Seq(Frames)
          /\ owed \in Seq(Frames) /\ Append(owed, b) \in Seq(Frames)
      BY <1>1, AppendSeen DEF WireInv, WireType
    <2>2. /\ frames' \in {frames, Append(frames, b)} /\ owed' \in {owed, Append(owed, b)}
          /\ link' \in {link, "reset"} /\ streams' \in SUBSET streams
      BY <1>2 DEF WriteTo
    <2>3. nextPub' \in Nat \ {0}
      BY <1>3 DEF WireInv, WireType
    <2> QED BY <1>3, <2>1, <2>2, <2>3 DEF WireInv, WireType
  <1>5. LaterInv' /\ AddedInv'
    BY <1>2, <1>3 DEF WireInv, LaterInv, AddedInv
  <1>6. CASE s \in streams /\ Live(s)
    <2>1. link = "open" /\ handler[s] \in {"added", "done"} /\ sub.pc # "idle"
      BY <1>6 DEF Live, WireInv, AddedInv, IdleInv
    <2>2. CASE s \in failed
      <3>1. link' = "reset" /\ frames' = frames /\ owed' = Append(owed, b)
        BY <1>2, <1>6, <2>2
      <3> QED BY <1>1, <1>3, <1>4, <1>5, <2>1, <3>1
         DEF WireInv, WireType, IdleInv, StreamInv, SilentInv, EarlyInv, GreetedInv, LoopInv, OwedInv
    <2>3. CASE s \notin failed
      <3>1. frames' = Append(frames, b) /\ owed' = Append(owed, b) /\ link' = link
        BY <1>2, <1>6, <2>3 DEF WriteTo
      <3> QED BY <1>1, <1>3, <1>4, <1>5, <2>1, <3>1, WireSent DEF WireInv
    <2> QED BY <2>2, <2>3
  <1>7. CASE ~(s \in streams /\ Live(s))
    <2>1. frames' = frames /\ owed' = owed /\ link' = link
      BY <1>2, <1>7 DEF WriteTo
    <2> QED BY <1>3, <1>4, <1>5, <2>1
            DEF WireInv, IdleInv, StreamInv, SilentInv, EarlyInv, GreetedInv, LoopInv, OwedInv, OnTheWay
  <1> QED BY <1>6, <1>7

\* terminateAll in any of the watcher's steps.
LEMMA WireTerminate ==
  ASSUME WireInv, TerminateAll, UNCHANGED <<chain, nextPub, handler, owed, sub>>
  PROVE  WireInv'
  <1> DEFINE s == sub.stream
             d == Frame("done")
  <1>1. d \in Frames /\ d.kind = "done"
    BY FrameTypes DEF Kinds
  <1> HIDE DEF d
  <1>2. WireType'
    <2>1. frames \in Seq(Frames) /\ Append(frames, d) \in Seq(Frames)
      BY <1>1, AppendSeen DEF WireInv, WireType
    <2>2. frames' \in {frames, Append(frames, d)} /\ link' \in {link, "closed"} /\ streams' = {}
      BY DEF TerminateAll, WriteTo, d
    <2> QED BY <2>1, <2>2 DEF WireInv, WireType
  <1>3. LaterInv' /\ AddedInv' /\ OwedInv'
    BY DEF WireInv, LaterInv, AddedInv, OwedInv, TerminateAll
  <1>4. frames \in Seq(Frames) /\ owed \in Seq(Frames)
    BY DEF WireInv, WireType
  <1>5. CASE s \in streams /\ Live(s)
    <2>1. link = "open" /\ handler[s] \in {"added", "done"} /\ sub.pc # "idle"
      BY <1>5 DEF Live, WireInv, AddedInv, IdleInv
    <2>2. frames' = Append(frames, d) /\ link' = "closed"
      BY <1>5 DEF TerminateAll, WriteTo, d
    <2>3. IdleInv' /\ StreamInv' /\ SilentInv'
      BY <2>1, <2>2 DEF WireInv, IdleInv, StreamInv, SilentInv
    <2>4. EarlyInv' /\ LoopInv'
      BY <2>1, <2>2 DEF WireInv, EarlyInv, LoopInv, OnTheWay, d
    <2>5. GreetedInv'
      <3> SUFFICES ASSUME sub.pc = "handshake", handler[sub.stream] = "done",
                          frames' # <<>>, Head(frames').kind = "accepted"
                   PROVE  Tail(frames') = Append(owed, d)
        BY <2>2 DEF GreetedInv, OnTheWay, d
      <3>1. frames # <<>>
        BY <1>1, <1>4, <2>2, AppendSeen
      <3>2. Head(frames') = Head(frames) /\ Tail(frames') = Append(Tail(frames), d)
        BY <1>1, <1>4, <2>2, <3>1, AppendSeen
      <3>3. Tail(frames) = owed
        BY <2>1, <3>1, <3>2 DEF WireInv, GreetedInv, OnTheWay
      <3> QED BY <3>2, <3>3
    <2> QED BY <1>2, <1>3, <2>3, <2>4, <2>5 DEF WireInv
  <1>6. CASE ~(s \in streams /\ Live(s))
    <2>1. frames' = frames /\ link' = link
      BY <1>6 DEF TerminateAll
    <2> QED BY <1>2, <1>3, <2>1
            DEF WireInv, IdleInv, StreamInv, SilentInv, EarlyInv, GreetedInv, LoopInv, OnTheWay
  <1> QED BY <1>5, <1>6

\* The handlers of the streams.
LEMMA WireDecide ==
  ASSUME WireInv, NEW s \in Subs, Decide(s)
  PROVE  WireInv'
  <1>1. PICK pc \in {"accept", "refuse"} : handler' = [handler EXCEPT ![s] = pc]
    BY DEF Decide, SetHandler
  <1>2. handler[s] = "request" /\ UNCHANGED <<chain, nextPub, sub, streams, frames, link, owed>>
    BY DEF Decide, serverVars, wireVars
  <1>3. handler \in [Subs -> {"none", "request", "accept", "refuse", "added", "done"}] /\ WireType'
    BY <1>1, <1>2 DEF WireInv, WireType
  <1>4. /\ handler'[s] = pc /\ \A t \in Subs : t # s => handler'[t] = handler[t]
    BY <1>1, <1>3
  <1>5. LaterInv' /\ AddedInv' /\ StreamInv'
    BY <1>2, <1>4 DEF WireInv, WireType, LaterInv, AddedInv, StreamInv
  <1>6. IdleInv' /\ OwedInv'
    BY <1>2 DEF WireInv, IdleInv, OwedInv
  <1>7. SilentInv' /\ EarlyInv' /\ GreetedInv' /\ LoopInv'
    <2>1. CASE s = sub.stream
      BY <1>2, <1>4, <2>1 DEF WireInv, SilentInv, EarlyInv, GreetedInv, LoopInv
    <2>2. CASE s # sub.stream
      <3>1. sub.pc # "idle" => handler'[sub.stream] = handler[sub.stream]
        BY <1>4, <2>2 DEF WireInv, StreamInv
      <3> QED BY <1>2, <3>1 DEF WireInv, SilentInv, EarlyInv, GreetedInv, LoopInv, OnTheWay
    <2> QED BY <2>1, <2>2
  <1> QED BY <1>3, <1>5, <1>6, <1>7 DEF WireInv

LEMMA WireAdd ==
  ASSUME WireInv, NEW s \in Subs, AddStream(s)
  PROVE  WireInv'
  <1>1. handler' = [handler EXCEPT ![s] = "added"] /\ streams' = streams \cup {s}
    BY DEF AddStream, SetHandler
  <1>2. handler[s] = "accept" /\ UNCHANGED <<chain, nextPub, sub, frames, link, owed>>
    BY DEF AddStream, serverVars, wireVars
  <1>3. handler \in [Subs -> {"none", "request", "accept", "refuse", "added", "done"}] /\ WireType'
    BY <1>1, <1>2 DEF WireInv, WireType
  <1>4. /\ handler'[s] = "added" /\ \A t \in Subs : t # s => handler'[t] = handler[t]
    BY <1>1, <1>3
  <1>5. LaterInv' /\ AddedInv' /\ StreamInv'
    BY <1>1, <1>2, <1>4 DEF WireInv, WireType, LaterInv, AddedInv, StreamInv
  <1>6. IdleInv' /\ OwedInv'
    BY <1>2 DEF WireInv, IdleInv, OwedInv
  <1>7. SilentInv' /\ EarlyInv' /\ GreetedInv' /\ LoopInv'
    <2>1. CASE s = sub.stream
      BY <1>2, <1>4, <2>1 DEF WireInv, SilentInv, EarlyInv, GreetedInv, LoopInv, OnTheWay
    <2>2. CASE s # sub.stream
      <3>1. sub.pc # "idle" => handler'[sub.stream] = handler[sub.stream]
        BY <1>4, <2>2 DEF WireInv, StreamInv
      <3> QED BY <1>2, <3>1 DEF WireInv, SilentInv, EarlyInv, GreetedInv, LoopInv, OnTheWay
    <2> QED BY <2>1, <2>2
  <1> QED BY <1>3, <1>5, <1>6, <1>7 DEF WireInv

LEMMA WireRespond ==
  ASSUME WireInv, NEW s \in Subs, Respond(s)
  PROVE  WireInv'
  <1> DEFINE f == Frame(IF handler[s] = "added" THEN "accepted" ELSE "refused")
  <1>1. handler' = [handler EXCEPT ![s] = "done"] /\ handler[s] \in {"added", "refuse"}
    BY DEF Respond, SetHandler
  <1>2. UNCHANGED <<chain, nextPub, sub, streams, owed>>
    BY DEF Respond, serverVars
  <1>3. f \in Frames /\ f.kind = (IF handler[s] = "added" THEN "accepted" ELSE "refused")
    BY FrameTypes DEF Kinds
  <1>4. /\ frames' = IF Live(s) THEN Append(frames, f) ELSE frames
        /\ link' = IF Live(s) /\ handler[s] = "refuse" THEN "closed" ELSE link
    BY DEF Respond, WriteTo
  <1> HIDE DEF f
  <1>5. handler \in [Subs -> {"none", "request", "accept", "refuse", "added", "done"}]
    BY DEF WireInv, WireType
  <1>6. frames \in Seq(Frames) /\ owed \in Seq(Frames) /\ Append(frames, f) \in Seq(Frames)
    BY <1>3, AppendSeen DEF WireInv, WireType
  <1>7. WireType'
    <2>1. handler' \in [Subs -> {"none", "request", "accept", "refuse", "added", "done"}]
      BY <1>1, <1>5
    <2>2. frames' \in {frames, Append(frames, f)} /\ link' \in {link, "closed"}
      BY <1>4
    <2> QED BY <1>2, <1>6, <2>1, <2>2 DEF WireInv, WireType
  <1>8. /\ handler'[s] = "done" /\ \A t \in Subs : t # s => handler'[t] = handler[t]
    BY <1>1, <1>5
  <1>9. LaterInv' /\ AddedInv' /\ OwedInv'
    BY <1>1, <1>2, <1>8 DEF WireInv, WireType, LaterInv, AddedInv, OwedInv
  <1>10. IdleInv'
    BY <1>2, <1>4 DEF WireInv, IdleInv, Live
  <1>11. StreamInv'
    BY <1>2, <1>4, <1>8 DEF WireInv, StreamInv
  <1>12. CASE s = sub.stream /\ sub.pc # "idle"
    <2>1. sub.pc = "handshake"
      BY <1>1, <1>12 DEF WireInv, WireType, LoopInv
    <2>2. SilentInv' /\ EarlyInv' /\ LoopInv'
      BY <1>2, <1>8, <1>12, <2>1 DEF SilentInv, EarlyInv, LoopInv
    <2>3. ASSUME link' # "reset", frames' # <<>>, Head(frames').kind = "accepted"
          PROVE  Tail(frames') = owed
      <3>1. frames = <<>>
        <4>1. handler[s] = "added" /\ link # "reset" => OnTheWay(frames)
          BY <1>12, <2>1 DEF WireInv, EarlyInv
        <4>2. handler[s] = "refuse" => frames = <<>>
          BY <1>12, <2>1 DEF WireInv, SilentInv
        <4>3. handler[s] = "added" => link = link'
          BY <1>4
        <4>4. frames # <<>> => Head(frames') = Head(frames)
          BY <1>3, <1>4, <1>6, AppendSeen
        <4>5. ASSUME OnTheWay(frames), frames # <<>> PROVE Head(frames).kind \in {"block", "done"}
          <5>1. owed # <<>> => Head(owed).kind = "block" /\ \A d : Head(Append(owed, d)) = Head(owed)
            BY <1>6 DEF WireInv, OwedInv
          <5>2. Head(Append(<<>>, Frame("done"))).kind = "done"
            BY DEF Frame
          <5> QED BY <4>5, <5>1, <5>2 DEF OnTheWay
        <4> QED BY <1>1, <2>3, <4>1, <4>2, <4>3, <4>4, <4>5
      <3>2. Live(s)
        BY <1>4, <2>3, <3>1
      <3>3. frames' = Append(frames, f) /\ f.kind = "accepted" /\ handler[s] = "added"
        <4>1. Head(Append(frames, f)) = f
          BY <1>3, <1>6, <3>1, AppendSeen
        <4> QED BY <1>1, <1>3, <1>4, <2>3, <3>2, <4>1
      <3>4. owed = <<>>
        BY <1>12, <2>1, <3>1, <3>2, <3>3 DEF WireInv, EarlyInv, OnTheWay, Live
      <3> QED BY <1>3, <1>6, <3>1, <3>3, <3>4, AppendSeen
    <2>4. GreetedInv'
      BY <1>2, <2>3 DEF GreetedInv, OnTheWay
    <2> QED BY <1>7, <1>9, <1>10, <1>11, <2>2, <2>4 DEF WireInv
  <1>13. CASE ~(s = sub.stream /\ sub.pc # "idle")
    <2>1. frames' = frames /\ link' = link
      BY <1>4, <1>13 DEF WireInv, IdleInv, Live
    <2>2. sub.pc # "idle" => handler'[sub.stream] = handler[sub.stream]
      BY <1>8, <1>13 DEF WireInv, StreamInv
    <2>3. SilentInv' /\ EarlyInv' /\ GreetedInv' /\ LoopInv'
      BY <1>2, <2>1, <2>2 DEF WireInv, SilentInv, EarlyInv, GreetedInv, LoopInv, OnTheWay
    <2> QED BY <1>7, <1>9, <1>10, <1>11, <2>3 DEF WireInv
  <1> QED BY <1>12, <1>13

\* The subscriber leaves its stream.
LEMMA WireReturn ==
  ASSUME WireInv, NEW lost, Leave(lost), UNCHANGED <<chain, nextPub, handler, streams>>
  PROVE  WireInv'
  <1>1. /\ sub' = [sub EXCEPT !.pc = "idle"] /\ frames' = <<>> /\ link' = "gone" /\ owed' = <<>>
    BY DEF Leave
  <1>2. sub'.pc = "idle" /\ sub'.stream = sub.stream /\ sub' \in [pc : {"idle", "handshake", "loop"}, stream : 0..MaxSubs]
    BY <1>1 DEF WireInv, WireType
  <1>3. WireType'
    BY <1>1, <1>2 DEF WireInv, WireType
  <1>4. LaterInv' /\ AddedInv'
    BY <1>2 DEF WireInv, LaterInv, AddedInv
  <1>5. IdleInv' /\ StreamInv' /\ SilentInv' /\ EarlyInv' /\ GreetedInv' /\ LoopInv' /\ OwedInv'
    BY <1>1, <1>2 DEF IdleInv, StreamInv, SilentInv, EarlyInv, GreetedInv, LoopInv, OwedInv
  <1> QED BY <1>3, <1>4, <1>5 DEF WireInv

LEMMA WireSubscribe == WireInv /\ Subscribe => WireInv'
  <1> SUFFICES ASSUME WireInv, Subscribe PROVE WireInv'
    OBVIOUS
  <1> DEFINE s == sub.stream + 1
  <1>1. /\ sub.pc = "idle" /\ sub.stream < MaxSubs /\ sub' = [pc |-> "handshake", stream |-> s]
        /\ handler' = [handler EXCEPT ![s] = "request"] /\ link' = "open"
        /\ UNCHANGED <<chain, nextPub, streams, frames, owed>>
    BY DEF Subscribe, SetHandler, serverVars
  <1>2. MaxSubs \in Nat /\ sub.stream \in 0..MaxSubs
    BY PoTSAssumption DEF WireInv, WireType
  <1>3. s \in Subs /\ s > sub.stream
    BY <1>1, <1>2 DEF Subs
  <1>4. frames = <<>> /\ owed = <<>> /\ handler[s] = "none" /\ \A t \in streams : t \in Subs /\ t # s
    BY <1>1, <1>3 DEF WireInv, WireType, IdleInv, LaterInv, AddedInv
  <1>5. sub'.pc = "handshake" /\ sub'.stream = s
    BY <1>1
  <1>6. handler \in [Subs -> {"none", "request", "accept", "refuse", "added", "done"}]
    BY DEF WireInv, WireType
  <1>7. /\ handler' \in [Subs -> {"none", "request", "accept", "refuse", "added", "done"}]
        /\ handler'[s] = "request" /\ \A t \in Subs : t # s => handler'[t] = handler[t]
    BY <1>1, <1>3, <1>6
  <1>8. WireType'
    <2>1. sub' \in [pc : {"idle", "handshake", "loop"}, stream : 0..MaxSubs]
      BY <1>1, <1>2
    <2> QED BY <1>1, <1>7, <2>1 DEF WireInv, WireType
  <1>9. LaterInv'
    <2>1. \A t \in Subs : t > s => t # s /\ t > sub.stream
      BY <1>2 DEF Subs
    <2> HIDE DEF s
    <2> QED BY <1>5, <1>7, <2>1 DEF WireInv, LaterInv
  <1> HIDE DEF s
  <1>10. AddedInv'
    BY <1>1, <1>4, <1>7 DEF WireInv, AddedInv
  <1>11. IdleInv' /\ StreamInv' /\ SilentInv' /\ EarlyInv' /\ GreetedInv' /\ LoopInv' /\ OwedInv'
    BY <1>1, <1>3, <1>4, <1>5, <1>7
       DEF IdleInv, StreamInv, SilentInv, EarlyInv, GreetedInv, LoopInv, OwedInv
  <1> QED BY <1>8, <1>9, <1>10, <1>11 DEF WireInv

LEMMA WireAccepted == WireInv /\ ReadResponse => WireInv'
  <1> SUFFICES ASSUME WireInv, ReadResponse PROVE WireInv'
    OBVIOUS
  <1>1. /\ sub.pc = "handshake" /\ link # "reset" /\ frames # <<>>
        /\ UNCHANGED <<chain, nextPub, handler, streams>>
    BY DEF ReadResponse, serverVars, pubVars
  <1>2. CASE Head(frames).kind = "accepted"
    <2>1. /\ sub' = [sub EXCEPT !.pc = "loop"] /\ frames' = Tail(frames) /\ link' = link /\ owed' = owed
      BY <1>2 DEF ReadResponse
    <2>2. sub'.pc = "loop" /\ sub'.stream = sub.stream /\ sub' \in [pc : {"idle", "handshake", "loop"}, stream : 0..MaxSubs]
      BY <2>1 DEF WireInv, WireType
    <2>3. frames \in Seq(Frames) /\ owed \in Seq(Frames) /\ frames' \in Seq(Frames)
      BY <1>1, <2>1 DEF WireInv, WireType
    <2>4. WireType'
      BY <1>1, <2>1, <2>2, <2>3 DEF WireInv, WireType
    <2>5. LaterInv' /\ AddedInv' /\ OwedInv' /\ StreamInv'
      BY <1>1, <2>1, <2>2 DEF WireInv, LaterInv, AddedInv, OwedInv, StreamInv
    <2>6. handler[sub.stream] = "done"
      <3>1. handler[sub.stream] \in {"request", "accept", "refuse", "added", "done"}
        BY <1>1 DEF WireInv, WireType, StreamInv
      <3>2. handler[sub.stream] \notin {"request", "accept", "refuse"}
        BY <1>1 DEF WireInv, SilentInv
      <3>3. handler[sub.stream] # "added"
        <4> SUFFICES ASSUME handler[sub.stream] = "added" PROVE FALSE
          OBVIOUS
        <4>1. OnTheWay(frames)
          BY <1>1 DEF WireInv, EarlyInv
        <4>2. owed # <<>> => Head(owed).kind = "block" /\ \A d : Head(Append(owed, d)) = Head(owed)
          BY <2>3 DEF WireInv, OwedInv
        <4>3. Head(Append(<<>>, Frame("done"))).kind = "done"
          BY DEF Frame
        <4> QED BY <1>1, <1>2, <4>1, <4>2, <4>3 DEF OnTheWay
      <3> QED BY <3>1, <3>2, <3>3
    <2>7. OnTheWay(Tail(frames))
      BY <1>1, <1>2, <2>6 DEF WireInv, GreetedInv
    <2>8. LoopInv'
      BY <1>1, <2>1, <2>2, <2>6, <2>7 DEF LoopInv, OnTheWay
    <2>9. IdleInv' /\ SilentInv' /\ EarlyInv' /\ GreetedInv'
      BY <2>2 DEF IdleInv, SilentInv, EarlyInv, GreetedInv
    <2> QED BY <2>4, <2>5, <2>8, <2>9 DEF WireInv
  <1>3. CASE Head(frames).kind # "accepted"
    BY <1>1, <1>3, WireReturn DEF ReadResponse, Return
  <1> QED BY <1>2, <1>3

\* A block received is the first of those owed.
LEMMA WireReceived ==
  ASSUME WireInv, sub.pc = "loop", link # "reset", frames # <<>>, Head(frames).kind = "block"
  PROVE  owed # <<>> /\ Head(owed) = Head(frames)
         /\ (frames = owed \/ (link = "closed" /\ Tail(frames) = Append(Tail(owed), Frame("done"))))
  <1>1. OnTheWay(frames) /\ owed \in Seq(Frames) /\ Frame("done") \in Frames /\ Frame("done").kind = "done"
    BY FrameTypes DEF WireInv, WireType, LoopInv, Kinds
  <1>2. owed # <<>>
    <2>1. Head(Append(<<>>, Frame("done"))) = Frame("done")
      OBVIOUS
    <2> QED BY <1>1, <2>1 DEF OnTheWay
  <1> QED BY <1>1, <1>2, AppendSeen DEF OnTheWay

LEMMA WireBlock == WireInv /\ ReceiveBlock => WireInv'
  <1> SUFFICES ASSUME WireInv, ReceiveBlock PROVE WireInv'
    OBVIOUS
  <1>1. /\ sub.pc = "loop" /\ link # "reset" /\ frames # <<>> /\ Head(frames).kind = "block"
        /\ frames' = Tail(frames) /\ owed' = Tail(owed)
        /\ UNCHANGED <<chain, nextPub, handler, streams, sub, link>>
    BY DEF ReceiveBlock, serverVars, pubVars
  <1>2. owed # <<>> /\ (frames = owed \/ (link = "closed" /\ Tail(frames) = Append(Tail(owed), Frame("done"))))
    BY <1>1, WireReceived
  <1>3. /\ frames \in Seq(Frames) /\ owed \in Seq(Frames)
        /\ frames' \in Seq(Frames) /\ owed' \in Seq(Frames)
    BY <1>1, <1>2 DEF WireInv, WireType
  <1>4. WireType'
    BY <1>1, <1>3 DEF WireInv, WireType
  <1>5. OwedInv'
    <2>1. \A i \in DOMAIN Tail(owed) : i + 1 \in DOMAIN owed /\ Tail(owed)[i] = owed[i + 1]
      BY <1>2, <1>3
    <2> QED BY <1>1, <2>1 DEF WireInv, OwedInv
  <1>6. LoopInv'
    BY <1>1, <1>2 DEF WireInv, LoopInv, OnTheWay
  <1>7. LaterInv' /\ AddedInv' /\ StreamInv'
    BY <1>1 DEF WireInv, LaterInv, AddedInv, StreamInv
  <1>8. IdleInv' /\ SilentInv' /\ EarlyInv' /\ GreetedInv'
    BY <1>1 DEF IdleInv, SilentInv, EarlyInv, GreetedInv
  <1> QED BY <1>4, <1>5, <1>6, <1>7, <1>8 DEF WireInv

\* The server's node.
LEMMA WireNode == WireInv /\ (Produce \/ Reorg) => WireInv'
  <1> SUFFICES ASSUME WireInv, Produce \/ Reorg PROVE WireInv'
    OBVIOUS
  <1>1. UNCHANGED <<sub, handler, streams, frames, link, owed>>
    BY DEF Produce, Reorg, pubVars, wireVars
  <1>2. chain \in Seq(Nat) /\ nextPub \in Nat \ {0}
    BY DEF WireInv, WireType
  <1>3. chain' \in Seq(Nat) /\ nextPub' \in Nat \ {0}
    <2>1. CASE Produce
      BY <1>2, <2>1 DEF Produce
    <2>2. CASE Reorg
      <3>1. Len(chain) \in Nat \ {0} /\ chain' = [chain EXCEPT ![Len(chain)] = 2]
        BY <1>2, <2>2 DEF Reorg
      <3>2. nextPub' \in {nextPub, Len(chain)}
        <4>1. nextPub \in Int /\ Len(chain) \in Int /\ nextPub' = Min({nextPub, Len(chain)})
          BY <1>2, <2>2, <3>1 DEF Reorg
        <4> QED BY <4>1, MinPair
      <3>3. chain' \in Seq(Nat)
        BY <1>2, <3>1
      <3> QED BY <1>2, <3>1, <3>2, <3>3
    <2> QED BY <2>1, <2>2
  <1>4. WireType'
    BY <1>1, <1>3 DEF WireInv, WireType
  <1> QED BY <1>1, <1>4 DEF WireInv, IdleInv, StreamInv, LaterInv, AddedInv, SilentInv, EarlyInv,
                            GreetedInv, LoopInv, OwedInv, OnTheWay

LEMMA WireStep == WireInv /\ [Next]_vars => WireInv'
  <1> SUFFICES ASSUME WireInv, [Next]_vars PROVE WireInv'
    OBVIOUS
  <1> USE DEF serverVars, pubVars, wireVars
  <1>1. CASE Publish
    BY <1>1, WirePublish
  <1>2. CASE Watch
    BY <1>2, WireTerminate DEF Watch
  <1>3. CASE \E s \in Subs : Decide(s) \/ AddStream(s) \/ Respond(s)
    BY <1>3, WireDecide, WireAdd, WireRespond
  <1>4. CASE ReadResponse
    BY <1>4, WireAccepted
  <1>5. CASE ReceiveBlock
    BY <1>5, WireBlock
  <1>6. CASE ReceiveDone \/ ReadError \/ EndSubscription \/ Crash
    BY <1>6, WireReturn DEF ReceiveDone, ReadError, EndSubscription, Crash, Return
  <1>7. CASE Produce \/ Reorg
    BY <1>7, WireNode
  <1>8. CASE SetAvailability \/ ClosePublisher \/ Rotate \/ Repair
    BY <1>8, WireKept DEF SetAvailability, ClosePublisher, Rotate, Repair, SendPoTSRequest,
                           ProcessPoTSRequest, GapFilled
  <1>9. CASE Subscribe
    BY <1>9, WireSubscribe
  <1>10. CASE UNCHANGED vars
    BY <1>10, WireKept DEF vars
  <1> QED BY <1>1, <1>2, <1>3, <1>4, <1>5, <1>6, <1>7, <1>8, <1>9, <1>10
          DEF Next, Server, Client, Environment

\* Spec => []NoSilentHole: in every subscription the client listens to, what is on the way
\* is what HandlePubsub's stream was published and has not delivered, in that order, and
\* then at most PubSubDone: for any number of blocks, streams and faults.
THEOREM NoHole == Spec => []NoSilentHole
  <1>1. WireInv => NoSilentHole
    BY DEF WireInv, LoopInv, OnTheWay, NoSilentHole
  <1> QED BY <1>1, WireInit, WireStep, PTL DEF Spec

-----------------------------------------------------------------------------
(* The index of the PoTS WAL.                                              *)

\* The blocks of the entries T of l, and the entries of block b among them.
BlocksOf(l, T) == {l[lsn].block : lsn \in T}
EntriesOf(l, T, b) == {lsn \in T : l[lsn].block = b}

\* i, o and m are the index of some entries of l, their order and their highest block.
Describes(l, o, i, m) ==
  /\ \A lsn \in ToSet(o) : lsn \in DOMAIN l /\ l[lsn].kind = "block"
  /\ \A j, k \in DOMAIN o : j < k => o[j] < o[k]
  /\ i = [b \in BlocksOf(l, ToSet(o)) |-> Max(EntriesOf(l, ToSet(o), b))]
  /\ m = Max({0} \cup BlocksOf(l, ToSet(o)))

LEMMA MatchesDescribes == IndexMatchesLog <=> Describes(log, order, index, latest)
  BY DEF IndexMatchesLog, Describes, BlocksOf, EntriesOf

\* The entries of a log are finitely many, and so are their blocks.
LEMMA EntriesFinite ==
  ASSUME NEW l \in Seq(Frames), NEW T \in SUBSET DOMAIN l
  PROVE  /\ T \in SUBSET Nat /\ IsFiniteSet(T)
         /\ BlocksOf(l, T) \in SUBSET Nat /\ IsFiniteSet(BlocksOf(l, T))
         /\ \A b : EntriesOf(l, T, b) \in SUBSET Nat /\ IsFiniteSet(EntriesOf(l, T, b))
         /\ \A b : EntriesOf(l, T, b) # {} <=> b \in BlocksOf(l, T)
  <1>1. Len(l) \in Nat /\ DOMAIN l = 1..Len(l)
    OBVIOUS
  <1>2. T \in SUBSET (0..Len(l)) /\ T \in SUBSET Nat
    BY <1>1
  <1>3. IsFiniteSet(T)
    BY <1>1, <1>2, BoundedFinite
  <1>4. \A lsn \in T : l[lsn].block \in Nat
    <2>1. \A lsn \in T : lsn \in 1..Len(l) /\ l[lsn] \in Frames
      BY <1>1
    <2>2. \A x \in Frames : x.block \in Nat
      BY DEF Frames
    <2> QED BY <2>1, <2>2
  <1>5. BlocksOf(l, T) \in SUBSET Nat
    BY <1>4 DEF BlocksOf
  <1>6. IsFiniteSet(BlocksOf(l, T))
    <2> DEFINE f == [lsn \in T |-> l[lsn].block]
    <2>1. f \in Surjection(T, BlocksOf(l, T))
      BY DEF Surjection, BlocksOf
    <2> HIDE DEF f
    <2> QED BY <1>3, <2>1, FS_Surjection
  <1>7. \A b : EntriesOf(l, T, b) \in SUBSET T
    BY DEF EntriesOf
  <1>8. \A b : EntriesOf(l, T, b) \in SUBSET Nat /\ IsFiniteSet(EntriesOf(l, T, b))
    BY <1>2, <1>3, <1>7, FS_Subset
  <1>9. \A b : EntriesOf(l, T, b) # {} <=> b \in BlocksOf(l, T)
    BY DEF EntriesOf, BlocksOf
  <1> QED BY <1>2, <1>3, <1>5, <1>6, <1>8, <1>9

\* A log that grows at its end is still described.
LEMMA DescribesMore ==
  ASSUME NEW l \in Seq(Frames), NEW k \in Seq(Frames), NEW o, NEW i, NEW m, Describes(l, o, i, m)
  PROVE  Describes(l \o k, o, i, m) /\ l \o k \in Seq(Frames)
  <1>1. l \o k \in Seq(Frames)
    OBVIOUS
  <1>2. \A lsn \in DOMAIN l : lsn \in DOMAIN (l \o k) /\ (l \o k)[lsn] = l[lsn]
    OBVIOUS
  <1>3. \A lsn \in ToSet(o) : lsn \in DOMAIN l /\ l[lsn].kind = "block" /\ (l \o k)[lsn] = l[lsn]
    BY <1>2 DEF Describes
  <1>4. BlocksOf(l \o k, ToSet(o)) = BlocksOf(l, ToSet(o))
    BY <1>3 DEF BlocksOf
  <1>5. \A b : EntriesOf(l \o k, ToSet(o), b) = EntriesOf(l, ToSet(o), b)
    BY <1>3 DEF EntriesOf
  <1>6. [b \in BlocksOf(l \o k, ToSet(o)) |-> Max(EntriesOf(l \o k, ToSet(o), b))]
          = [b \in BlocksOf(l, ToSet(o)) |-> Max(EntriesOf(l, ToSet(o), b))]
    BY <1>4, <1>5
  <1> QED BY <1>1, <1>2, <1>3, <1>4, <1>6 DEF Describes

\* The positions of a sequence of a elements followed by one of c.
LEMMA Positions ==
  ASSUME NEW a \in Nat, NEW c \in Nat
  PROVE  /\ \A i \in 1..a + c : i \in Int /\ (i \in 1..a \/ (i > a /\ i \notin 1..a /\ i - a \in 1..c))
         /\ \A i \in 1..c : i + a \in 1..a + c
         /\ \A j, k \in 1..a + c : j < k => j - a < k - a /\ (k \in 1..a => j \in 1..a)
  OBVIOUS

\* One increasing sequence after another.
LEMMA OrderGrows ==
  ASSUME NEW o \in Seq(Nat), NEW p \in Seq(Nat),
         \A j, k \in DOMAIN o : j < k => o[j] < o[k],
         \A j, k \in DOMAIN p : j < k => p[j] < p[k],
         \A x \in ToSet(o), y \in ToSet(p) : x < y
  PROVE  /\ o \o p \in Seq(Nat) /\ ToSet(o \o p) = ToSet(o) \cup ToSet(p)
         /\ \A j, k \in DOMAIN (o \o p) : j < k => (o \o p)[j] < (o \o p)[k]
  <1> DEFINE q == o \o p
  <1>1. /\ q \in Seq(Nat) /\ Len(q) = Len(o) + Len(p) /\ Len(o) \in Nat /\ Len(p) \in Nat
        /\ DOMAIN q = 1..Len(o) + Len(p) /\ DOMAIN o = 1..Len(o) /\ DOMAIN p = 1..Len(p)
        /\ \A i \in 1..Len(o) : q[i] = o[i]
        /\ \A i \in 1..Len(o) + Len(p) : i > Len(o) => q[i] = p[i - Len(o)]
        /\ \A i \in 1..Len(p) : q[i + Len(o)] = p[i]
    OBVIOUS
  <1>0. \A x \in ToSet(o), y \in ToSet(p) : x \in Nat /\ y \in Nat /\ x < y
    BY DEF ToSet
  <1> HIDE DEF q
  <1>7. PICK a \in Nat, c \in Nat : a = Len(o) /\ c = Len(p)
    BY <1>1
  <1>2. /\ DOMAIN q = 1..a + c /\ DOMAIN o = 1..a /\ DOMAIN p = 1..c
        /\ \A i \in 1..a : q[i] = o[i]
        /\ \A i \in 1..a + c : i > a => q[i] = p[i - a]
        /\ \A i \in 1..c : q[i + a] = p[i]
    BY <1>1, <1>7
  <1>5. /\ \A i \in 1..a + c : i \in Int /\ (i \in 1..a \/ (i > a /\ i \notin 1..a /\ i - a \in 1..c))
        /\ \A i \in 1..c : i + a \in 1..a + c
        /\ \A j, k \in 1..a + c : j < k => j - a < k - a /\ (k \in 1..a => j \in 1..a)
    BY Positions
  <1>6. ASSUME NEW i \in 1..a + c
        PROVE  \/ i \in 1..a /\ q[i] = o[i] /\ o[i] \in ToSet(o)
               \/ i > a /\ i - a \in 1..c /\ q[i] = p[i - a] /\ p[i - a] \in ToSet(p)
    <2>1. CASE i \in 1..a
      BY <1>2, <2>1 DEF ToSet
    <2>2. CASE i > a /\ i - a \in 1..c
      BY <1>2, <2>2 DEF ToSet
    <2> QED BY <1>5, <2>1, <2>2
  <1>3. ToSet(q) = ToSet(o) \cup ToSet(p)
    <2>1. ToSet(q) \subseteq ToSet(o) \cup ToSet(p)
      <3>1. \A i \in 1..a + c : q[i] \in ToSet(o) \/ q[i] \in ToSet(p)
        BY <1>6
      <3>2. ToSet(q) = {q[i] : i \in 1..a + c}
        BY <1>2 DEF ToSet
      <3> QED BY <3>1, <3>2
    <2>2. ASSUME NEW i \in 1..a PROVE o[i] \in ToSet(q)
      <3>1. i \in 1..a + c
        OBVIOUS
      <3> QED BY <1>2, <3>1 DEF ToSet
    <2>3. ASSUME NEW i \in 1..c PROVE p[i] \in ToSet(q)
      <3>1. i + a \in DOMAIN q /\ q[i + a] = p[i]
        BY <1>2, <1>5
      <3> QED BY <3>1 DEF ToSet
    <2>4. ToSet(p) \subseteq ToSet(q) /\ ToSet(o) \subseteq ToSet(q)
      BY <1>2, <2>2, <2>3 DEF ToSet
    <2> QED BY <2>1, <2>4
  <1>4. ASSUME NEW j \in DOMAIN q, NEW k \in DOMAIN q, j < k PROVE q[j] < q[k]
    <2>0. j \in 1..a + c /\ k \in 1..a + c
      BY <1>2
    <2>1. CASE j \in 1..a /\ k \in 1..a
      BY <1>2, <1>4, <2>1
    <2>2. CASE j \in 1..a /\ k \notin 1..a
      <3>1. q[k] \in ToSet(p)
        BY <1>6, <2>0, <2>2
      <3>2. q[j] \in ToSet(o)
        BY <1>2, <2>2 DEF ToSet
      <3> QED BY <1>0, <3>1, <3>2
    <2>3. CASE j \notin 1..a
      <3>1. j > a /\ j - a \in 1..c /\ q[j] = p[j - a]
        BY <1>2, <1>5, <2>0, <2>3
      <3>2. k \notin 1..a /\ j - a < k - a
        BY <1>4, <1>5, <2>0, <2>3
      <3>3. k > a /\ k - a \in 1..c /\ q[k] = p[k - a]
        BY <1>2, <1>5, <2>0, <3>2
      <3>4. p[j - a] < p[k - a]
        BY <1>2, <3>1, <3>2, <3>3
      <3> QED BY <3>1, <3>3, <3>4
    <2> QED BY <2>1, <2>2, <2>3
  <1> QED BY <1>1, <1>3, <1>4 DEF q

\* The entries T of the log, all of them after the indexed ones, are added to the index.
LEMMA IndexGrows ==
  ASSUME NEW l \in Seq(Frames), NEW o \in Seq(Nat), NEW i, NEW m, Describes(l, o, i, m),
         NEW T \in SUBSET DOMAIN l, \A lsn \in T : l[lsn].kind = "block",
         \A x \in ToSet(o), y \in T : x < y
  PROVE  /\ o \o InOrder(T) \in Seq(Nat)
         /\ Describes(l, o \o InOrder(T), Indexed(l, T, i), NewLatest(l, T, m))
  <1> DEFINE P == ToSet(o)
  <1>1. P \in SUBSET DOMAIN l /\ \A lsn \in P : l[lsn].kind = "block"
    BY DEF Describes
  <1>2. P \cup T \in SUBSET DOMAIN l
    BY <1>1
  <1>3. /\ T \in SUBSET Nat /\ IsFiniteSet(T)
        /\ BlocksOf(l, T) \in SUBSET Nat /\ IsFiniteSet(BlocksOf(l, T))
        /\ \A b : EntriesOf(l, T, b) \in SUBSET Nat /\ IsFiniteSet(EntriesOf(l, T, b))
        /\ \A b : EntriesOf(l, T, b) # {} <=> b \in BlocksOf(l, T)
    BY EntriesFinite
  <1>4. /\ BlocksOf(l, P) \in SUBSET Nat /\ IsFiniteSet(BlocksOf(l, P))
    BY <1>1, EntriesFinite
  <1>5. /\ P \cup T \in SUBSET Nat
        /\ BlocksOf(l, P \cup T) \in SUBSET Nat /\ IsFiniteSet(BlocksOf(l, P \cup T))
        /\ \A b : EntriesOf(l, P \cup T, b) \in SUBSET Nat /\ IsFiniteSet(EntriesOf(l, P \cup T, b))
    <2> DEFINE U == P \cup T
    <2>1. U \in SUBSET DOMAIN l
      BY <1>2
    <2> HIDE DEF U
    <2>2. /\ U \in SUBSET Nat /\ BlocksOf(l, U) \in SUBSET Nat /\ IsFiniteSet(BlocksOf(l, U))
          /\ \A b : EntriesOf(l, U, b) \in SUBSET Nat /\ IsFiniteSet(EntriesOf(l, U, b))
      BY <2>1, EntriesFinite
    <2> QED BY <2>2 DEF U
  <1>6. /\ InOrder(T) \in Seq(Nat) /\ ToSet(InOrder(T)) = T
        /\ \A j, k \in DOMAIN InOrder(T) : j < k => InOrder(T)[j] < InOrder(T)[k]
    <2>1. InOrder(T) \in Seq(T)
      BY <1>3, InOrderOk
    <2>2. InOrder(T) \in Seq(Nat)
      BY <1>3, <2>1, SeqWiden
    <2> QED BY <1>3, <2>2, InOrderOk
  <1>7. /\ o \o InOrder(T) \in Seq(Nat) /\ ToSet(o \o InOrder(T)) = P \cup T
        /\ \A j, k \in DOMAIN (o \o InOrder(T)) : j < k => (o \o InOrder(T))[j] < (o \o InOrder(T))[k]
    <2>1. \A j, k \in DOMAIN o : j < k => o[j] < o[k]
      BY DEF Describes
    <2> QED BY <1>6, <2>1, OrderGrows
  <1>8. BlocksOf(l, P \cup T) = BlocksOf(l, P) \cup BlocksOf(l, T)
    BY DEF BlocksOf
  <1>9. \A x \in P, y \in T : x < y
    OBVIOUS
  <1>10. i = [b \in BlocksOf(l, P) |-> Max(EntriesOf(l, P, b))] /\ m = Max({0} \cup BlocksOf(l, P))
    BY DEF Describes
  <1>11. Indexed(l, T, i) = [b \in DOMAIN i \cup BlocksOf(l, T) |->
                               IF b \in BlocksOf(l, T) THEN Max(EntriesOf(l, T, b)) ELSE i[b]]
    BY DEF Indexed, BlocksOf, EntriesOf
  <1>12. NewLatest(l, T, m) = Max({m} \cup BlocksOf(l, T))
    BY DEF NewLatest, BlocksOf
  <1> HIDE DEF P
  <1>13. ASSUME NEW b \in BlocksOf(l, T)
         PROVE  Max(EntriesOf(l, P \cup T, b)) = Max(EntriesOf(l, T, b))
    <2>1. /\ EntriesOf(l, T, b) \in SUBSET Nat /\ IsFiniteSet(EntriesOf(l, T, b)) /\ EntriesOf(l, T, b) # {}
      BY <1>3
    <2>2. PICK x \in EntriesOf(l, T, b) : x = Max(EntriesOf(l, T, b)) /\ \A y \in EntriesOf(l, T, b) : y <= x
      BY <2>1, MaxFinite
    <2>3. x \in EntriesOf(l, P \cup T, b) /\ x \in T /\ x \in Nat
      BY <2>1 DEF EntriesOf
    <2>4. ASSUME NEW y \in EntriesOf(l, P \cup T, b) PROVE y <= x
      <3>1. y \in EntriesOf(l, T, b) \/ y \in P
        BY DEF EntriesOf
      <3>2. y \in Nat
        BY <1>5
      <3>3. y \in P => y < x
        BY <1>9, <2>3
      <3> QED BY <2>2, <2>3, <3>1, <3>2, <3>3
    <2> QED BY <1>5, <2>2, <2>3, <2>4, MaxIs
  <1>14. ASSUME NEW b \in BlocksOf(l, P), b \notin BlocksOf(l, T)
         PROVE  EntriesOf(l, P \cup T, b) = EntriesOf(l, P, b)
    BY <1>14 DEF EntriesOf, BlocksOf
  <1>15. Indexed(l, T, i) = [b \in BlocksOf(l, P \cup T) |-> Max(EntriesOf(l, P \cup T, b))]
    <2>1. DOMAIN i = BlocksOf(l, P) /\ \A b \in BlocksOf(l, P) : i[b] = Max(EntriesOf(l, P, b))
      BY <1>10
    <2>2. ASSUME NEW b \in BlocksOf(l, P \cup T)
          PROVE  (IF b \in BlocksOf(l, T) THEN Max(EntriesOf(l, T, b)) ELSE i[b])
                   = Max(EntriesOf(l, P \cup T, b))
      BY <1>8, <1>13, <1>14, <2>1
    <2> QED BY <1>8, <1>11, <2>1, <2>2
  <1>16. NewLatest(l, T, m) = Max({0} \cup BlocksOf(l, P \cup T))
    <2>1. /\ {0} \cup BlocksOf(l, P) \in SUBSET Nat /\ IsFiniteSet({0} \cup BlocksOf(l, P))
          /\ {0} \cup BlocksOf(l, P \cup T) \in SUBSET Nat /\ IsFiniteSet({0} \cup BlocksOf(l, P \cup T))
      <3>1. IsFiniteSet({0})
        BY FS_Singleton
      <3>2. IsFiniteSet({0} \cup BlocksOf(l, P))
        BY <1>4, <3>1, FS_Union
      <3>3. IsFiniteSet({0} \cup BlocksOf(l, P \cup T))
        BY <1>5, <3>1, FS_Union
      <3>4. {0} \cup BlocksOf(l, P) \in SUBSET Nat
        BY <1>4
      <3>5. {0} \cup BlocksOf(l, P \cup T) \in SUBSET Nat
        <4>1. \A B \in SUBSET Nat : {0} \cup B \in SUBSET Nat
          OBVIOUS
        <4>2. BlocksOf(l, P \cup T) \in SUBSET Nat
          BY <1>5
        <4> QED BY <4>1, <4>2, Zenon
      <3> QED BY <3>2, <3>3, <3>4, <3>5
    <2>2. m \in {0} \cup BlocksOf(l, P) /\ \A y \in {0} \cup BlocksOf(l, P) : y <= m
      BY <1>10, <2>1, MaxFinite
    <2>3. {m} \cup BlocksOf(l, T) \in SUBSET Nat /\ IsFiniteSet({m} \cup BlocksOf(l, T))
      BY <1>3, <2>1, <2>2, FS_Singleton, FS_Union
    <2>4. PICK x \in {m} \cup BlocksOf(l, T) : /\ x = Max({m} \cup BlocksOf(l, T))
                                               /\ \A y \in {m} \cup BlocksOf(l, T) : y <= x
      BY <2>3, MaxFinite
    <2>5. x \in Nat /\ m \in Nat /\ m <= x /\ x \in {0} \cup BlocksOf(l, P \cup T)
      BY <1>8, <2>1, <2>2, <2>3, <2>4
    <2>6. ASSUME NEW y \in {0} \cup BlocksOf(l, P \cup T) PROVE y <= x
      <3>1. y \in Nat
        BY <2>1
      <3>2. CASE y \in BlocksOf(l, T)
        BY <2>4, <3>2
      <3>3. CASE y \in {0} \cup BlocksOf(l, P)
        BY <2>2, <2>5, <3>1, <3>3
      <3> QED BY <1>8, <3>2, <3>3
    <2>7. Max({0} \cup BlocksOf(l, P \cup T)) = x
      BY <2>1, <2>5, <2>6, MaxIs
    <2> QED BY <1>12, <2>4, <2>7
  <1> QED BY <1>1, <1>2, <1>7, <1>15, <1>16 DEF Describes

IndexInv ==
  /\ log \in Seq(Frames) /\ buf \in Seq(Frames) /\ order \in Seq(Nat) /\ cut \in Nat
  /\ Describes(log, order, index, latest)

\* The empty index describes any log.
LEMMA NothingIndexed ==
  ASSUME NEW l
  PROVE  <<>> \in Seq(Nat) /\ ToSet(<<>>) = {} /\ Describes(l, <<>>, EmptyIndex, 0)
  <1>1. <<>> \in Seq(Nat) /\ DOMAIN <<>> = {} /\ ToSet(<<>>) = {}
    BY DEF ToSet
  <1>2. BlocksOf(l, {}) = {}
    BY DEF BlocksOf
  <1>3. Max({0}) = 0
    BY MaxIs, FS_Singleton
  <1>4. Max({0} \cup BlocksOf(l, {})) = 0
    BY <1>2, <1>3
  <1>5. EmptyIndex = [b \in BlocksOf(l, {}) |-> Max(EntriesOf(l, {}, b))]
    BY <1>2 DEF EmptyIndex
  <1> QED BY <1>1, <1>4, <1>5 DEF Describes

LEMMA IndexInit == Init => IndexInv
  <1> SUFFICES ASSUME Init PROVE IndexInv
    OBVIOUS
  <1> DEFINE n == StartBlocks
             blocks == [b \in 1..n |-> Block(b, 1)]
             l == Append(blocks, OtherEvent)
             o == [b \in 1..n |-> b]
  <1>0. n \in Nat
    BY PoTSAssumption
  <1>1. log = l /\ buf = <<>> /\ order = o /\ index = o /\ latest = n /\ cut \in Nat
    BY DEF Init
  <1>2. blocks \in Seq(Frames) /\ Len(blocks) = n /\ \A b \in 1..n : blocks[b] = Block(b, 1)
    <2>1. \A b \in 1..n : Block(b, 1) \in Frames
      BY FrameTypes
    <2>2. blocks \in [1..n -> Frames]
      BY <2>1
    <2> QED BY <1>0, <2>2
  <1>3. OtherEvent \in Frames
    BY FrameTypes DEF OtherEvent, Kinds
  <1> HIDE DEF blocks
  <1>4. l \in Seq(Frames) /\ DOMAIN l = 1..n + 1 /\ \A b \in 1..n : l[b] = Block(b, 1)
    BY <1>0, <1>2, <1>3
  <1>5. o \in Seq(Nat) /\ DOMAIN o = 1..n /\ \A b \in 1..n : o[b] = b
    BY <1>0
  <1> HIDE DEF l, o, n
  <1>6. ToSet(o) = 1..n
    BY <1>5 DEF ToSet
  <1>7. \A b \in 1..n : /\ b \in DOMAIN l /\ l[b].kind = "block" /\ l[b].block = b
    BY <1>0, <1>4, FrameTypes
  <1>8. \A lsn \in ToSet(o) : lsn \in DOMAIN l /\ l[lsn].kind = "block"
    BY <1>6, <1>7
  <1>9. BlocksOf(l, ToSet(o)) = 1..n
    BY <1>6, <1>7 DEF BlocksOf
  <1>10. ASSUME NEW b \in 1..n PROVE Max(EntriesOf(l, ToSet(o), b)) = b
    <2>1. EntriesOf(l, ToSet(o), b) = {b}
      BY <1>6, <1>7 DEF EntriesOf
    <2>2. PICK x \in Nat : x = b
      OBVIOUS
    <2>3. Max({x}) = x
      <3>1. IsFiniteSet({x})
        BY FS_Singleton
      <3>2. {x} \in SUBSET Nat /\ \A y \in {x} : y <= x
        OBVIOUS
      <3> QED BY <3>1, <3>2, MaxIs
    <2> QED BY <2>1, <2>2, <2>3
  <1>11. o = [b \in BlocksOf(l, ToSet(o)) |-> Max(EntriesOf(l, ToSet(o), b))]
    <2>1. o = [b \in 1..n |-> b]
      BY DEF o
    <2> QED BY <1>9, <1>10, <2>1
  <1>12. n = Max({0} \cup BlocksOf(l, ToSet(o)))
    <2>1. {0} \cup 1..n = 0..n
      BY <1>0
    <2>2. 0..n \in SUBSET Nat /\ IsFiniteSet(0..n) /\ n \in 0..n /\ \A x \in 0..n : x <= n
      <3>1. 0..n \in SUBSET (0..n)
        OBVIOUS
      <3>2. IsFiniteSet(0..n)
        BY <1>0, <3>1, BoundedFinite
      <3> QED BY <1>0, <3>2
    <2>3. Max(0..n) = n
      BY <2>2, MaxIs
    <2> QED BY <1>9, <2>1, <2>3
  <1>13. Describes(l, o, o, n)
    <2>1. \A j, k \in DOMAIN o : j < k => o[j] < o[k]
      BY <1>0, <1>5
    <2> QED BY <1>8, <1>11, <1>12, <2>1, Zenon DEF Describes
  <1> QED BY <1>1, <1>4, <1>5, <1>13 DEF IndexInv

LEMMA IndexKept ==
  ASSUME IndexInv, UNCHANGED walVars
  PROVE  IndexInv'
  BY DEF IndexInv, walVars, indexVars, Describes, BlocksOf, EntriesOf

\* Write with one block.
LEMMA IndexWrite ==
  ASSUME IndexInv, NEW x \in Frames, x.kind = "block", Write(<<x>>)
  PROVE  IndexInv'
  <1> DEFINE entries == log \o buf \o <<x>>
             n == Len(log) + Len(buf) + 1
             T == n..Len(entries)
  <1>0. log \in Seq(Frames) /\ buf \in Seq(Frames) /\ order \in Seq(Nat) /\ <<x>> \in Seq(Frames)
    BY DEF IndexInv
  <1>1. cut' = cut
    BY DEF Write
  <1>2. CASE logOpen /\ log' = entries /\ buf' = <<>> /\ AddToIndex(entries, T)
    <2>1. log \o buf \in Seq(Frames) /\ Describes(log \o buf, order, index, latest)
      BY <1>0, DescribesMore DEF IndexInv
    <2>2. entries \in Seq(Frames) /\ Describes(entries, order, index, latest)
      BY <1>0, <2>1, DescribesMore
    <2>3. Len(log) \in Nat /\ n \in Nat /\ n > Len(log) /\ Len(entries) = n /\ DOMAIN entries = 1..n /\ entries[n] = x
      BY <1>0
    <2>4. T = {n} /\ T \in SUBSET DOMAIN entries
      BY <2>3
    <2>5. \A lsn \in T : entries[lsn].kind = "block"
      BY <2>3, <2>4
    <2>6. \A y \in ToSet(order), z \in T : y < z
      <3>1. \A y \in ToSet(order) : y \in 1..Len(log)
        BY <1>0 DEF IndexInv, Describes
      <3> QED BY <2>3, <2>4, <3>1
    <2>7. /\ order' = order \o InOrder(T) /\ index' = Indexed(entries, T, index)
          /\ latest' = NewLatest(entries, T, latest)
      BY <1>2 DEF AddToIndex
    <2> HIDE DEF entries, T
    <2>8. /\ order \o InOrder(T) \in Seq(Nat)
          /\ Describes(entries, order \o InOrder(T), Indexed(entries, T, index), NewLatest(entries, T, latest))
      BY <1>0, <2>2, <2>4, <2>5, <2>6, IndexGrows
    <2> QED BY <1>1, <1>2, <2>2, <2>7, <2>8 DEF IndexInv
  <1>3. CASE buf' = buf \o <<x>> /\ UNCHANGED <<log, indexVars>>
    <2>1. buf' \in Seq(Frames)
      BY <1>0, <1>3
    <2> QED BY <1>1, <1>3, <2>1 DEF IndexInv, indexVars
  <1> QED BY <1>2, <1>3 DEF Write

LEMMA IndexRebuilt ==
  ASSUME IndexInv, RebuildIndex, log' = log, cut' = cut, buf' = <<>>
  PROVE  IndexInv'
  <1> DEFINE T == Entries
  <1>1. /\ index' = Indexed(log, T, EmptyIndex) /\ order' = InOrder(T)
        /\ latest' = NewLatest(log, T, 0)
    BY DEF RebuildIndex
  <1>2. T \in SUBSET DOMAIN log /\ \A lsn \in T : log[lsn].kind = "block"
    BY DEF Entries, IndexInv
  <1> HIDE DEF T
  <1>3. log \in Seq(Frames)
    BY DEF IndexInv
  <1>4. /\ <<>> \o InOrder(T) \in Seq(Nat)
        /\ Describes(log, <<>> \o InOrder(T), Indexed(log, T, EmptyIndex), NewLatest(log, T, 0))
    <2>1. <<>> \in Seq(Nat) /\ ToSet(<<>>) = {} /\ Describes(log, <<>>, EmptyIndex, 0)
      BY NothingIndexed
    <2>2. \A x \in ToSet(<<>>), y \in T : x < y
      BY <2>1
    <2> QED BY <1>2, <1>3, <2>1, <2>2, IndexGrows
  <1>5. <<>> \o InOrder(T) = InOrder(T)
    <2>1. InOrder(T) \in Seq(T)
      <3>1. T \in SUBSET Nat /\ IsFiniteSet(T)
        BY <1>2, <1>3, EntriesFinite
      <3> QED BY <3>1, InOrderOk
    <2> QED BY <2>1
  <1> QED BY <1>1, <1>3, <1>4, <1>5 DEF IndexInv

LEMMA IndexStep == WireInv /\ IndexInv /\ [Next]_vars => IndexInv'
  <1> SUFFICES ASSUME WireInv, IndexInv, [Next]_vars PROVE IndexInv'
    OBVIOUS
  <1>1. CASE ReceiveBlock
    <2>1. Head(frames) \in Frames /\ Head(frames).kind = "block" /\ Write(<<Head(frames)>>)
      BY <1>1 DEF ReceiveBlock, WireInv, WireType
    <2> QED BY <2>1, IndexWrite
  <1>2. CASE Crash
    BY <1>2, IndexRebuilt DEF Crash
  <1>3. CASE GapFilled
    <2>1. CASE UNCHANGED walVars
      BY <2>1, IndexKept
    <2>2. CASE CloseLog
      <3>1. CASE log' = log \o buf /\ buf' = <<>> /\ UNCHANGED <<indexVars, cut>>
        BY <3>1, DescribesMore DEF IndexInv, indexVars
      <3>2. CASE UNCHANGED <<log, buf, indexVars, cut>>
        BY <3>2 DEF IndexInv, indexVars
      <3> QED BY <2>2, <3>1, <3>2 DEF CloseLog
    <2> QED BY <1>3, <2>1, <2>2 DEF GapFilled
  <1>4. CASE UNCHANGED walVars
    BY <1>4, IndexKept
  <1>5. CASE Rotate
    <2>1. MaxCut \in Int /\ Len(log) - 1 \in Int /\ cut \in Nat
      BY PoTSAssumption DEF IndexInv
    <2>2. Min({MaxCut, Len(log) - 1}) \in Int
      BY <2>1, MinPair
    <2>3. cut' \in Nat /\ UNCHANGED <<log, buf, indexVars>>
      BY <1>5, <2>1, <2>2 DEF Rotate
    <2> QED BY <2>3 DEF IndexInv, indexVars
  <1>6. ReceiveBlock \/ Crash \/ GapFilled \/ Rotate \/ UNCHANGED walVars
    <2>1. Server \/ ReadResponse \/ ReceiveDone \/ ReadError => UNCHANGED walVars
      BY DEF Server, Publish, Watch, Decide, AddStream, Respond, ReadResponse, ReceiveDone, ReadError
    <2>2. Environment => Crash \/ Rotate \/ UNCHANGED walVars
      BY DEF Environment, Produce, Reorg, SetAvailability, ClosePublisher, Subscribe, EndSubscription
    <2>3. Repair => GapFilled \/ UNCHANGED walVars
      BY DEF Repair, SendPoTSRequest, ProcessPoTSRequest
    <2>4. UNCHANGED vars => UNCHANGED walVars
      BY DEF vars
    <2> QED BY <2>1, <2>2, <2>3, <2>4 DEF Next, Client
  <1> QED BY <1>1, <1>2, <1>3, <1>4, <1>5, <1>6

\* Spec => []IndexMatchesLog: blockIndex, lsnOrder and latestBlock of the PoTS WAL describe
\* the entries on disk after any number of writes, failed flushes, replaced blocks, closed
\* logs, rotations, crashes and rebuilds.
THEOREM IndexIsTrue == Spec => []IndexMatchesLog
  <1>1. IndexInv => IndexMatchesLog
    BY MatchesDescribes DEF IndexInv
  <1> QED BY <1>1, WireInit, WireStep, IndexInit, IndexStep, PTL DEF Spec

-----------------------------------------------------------------------------
(* The tag of a PoTS response.                                             *)

\* The blocks that end a run of S which starts at b, and the run's end.
RunEnds(S, b) == {e \in S : b <= e /\ b..e \subseteq S}
RunEnd(S, b) == Max(RunEnds(S, b))
RunStarts(S) == {b \in S : b - 1 \notin S}

LEMMA RunEndOk ==
  ASSUME NEW S \in SUBSET Nat, IsFiniteSet(S), NEW b \in S
  PROVE  /\ RunEnd(S, b) \in S /\ b <= RunEnd(S, b) /\ b..RunEnd(S, b) \subseteq S
         /\ \A e \in S : b <= e /\ b..e \subseteq S => e <= RunEnd(S, b)
  <1>1. RunEnds(S, b) \in SUBSET S
    BY DEF RunEnds
  <1>2. b \in RunEnds(S, b)
    <2>1. b \in Nat /\ b..b = {b}
      OBVIOUS
    <2> QED BY <2>1 DEF RunEnds
  <1>3. RunEnds(S, b) \in SUBSET Nat /\ IsFiniteSet(RunEnds(S, b)) /\ RunEnds(S, b) # {}
    BY <1>1, <1>2, FS_Subset
  <1>4. RunEnd(S, b) \in RunEnds(S, b) /\ \A e \in RunEnds(S, b) : e <= RunEnd(S, b)
    BY <1>3, MaxFinite DEF RunEnd
  <1> HIDE DEF RunEnd
  <1> QED BY <1>4 DEF RunEnds

\* Every block of S is in a run.
LEMMA RunExists ==
  ASSUME NEW S \in SUBSET Nat, NEW x \in S
  PROVE  \E b \in RunStarts(S) : b <= x /\ b..x \subseteq S
  <1> DEFINE T == {b \in Nat : b <= x /\ b..x \subseteq S}
  <1>1. x \in T
    <2>1. x \in Nat /\ x..x = {x}
      OBVIOUS
    <2> QED BY <2>1
  <1>2. T \in SUBSET Nat /\ T # {}
    BY <1>1
  <1>3. PICK b \in T : \A y \in T : b <= y
    BY <1>2, LeastExists
  <1>4. b \in Nat /\ x \in Nat /\ b <= x /\ b..x \subseteq S
    OBVIOUS
  <1>5. b \in S
    BY <1>4
  <1>6. b - 1 \notin S
    <2> SUFFICES ASSUME b - 1 \in S PROVE FALSE
      OBVIOUS
    <2>1. b - 1 \in Nat /\ b - 1 <= x
      BY <1>4
    <2>2. \A y \in (b - 1)..x : y = b - 1 \/ y \in b..x
      BY <1>4, <2>1
    <2>3. b - 1 \in T
      BY <1>4, <2>1, <2>2
    <2> QED BY <1>3, <1>4, <2>3
  <1> QED BY <1>4, <1>5, <1>6 DEF RunStarts

\* Runs that start at different blocks are apart.
LEMMA RunsApart ==
  ASSUME NEW S \in SUBSET Nat, IsFiniteSet(S),
         NEW b \in RunStarts(S), NEW c \in RunStarts(S), b < c
  PROVE  \A x \in b..RunEnd(S, b) : x < c
  <1>1. b \in S /\ c \in S /\ b \in Nat /\ c \in Nat /\ c - 1 \notin S
    BY DEF RunStarts
  <1>2. RunEnd(S, b) \in Nat /\ b..RunEnd(S, b) \subseteq S
    BY <1>1, RunEndOk
  <1> SUFFICES ASSUME NEW x \in b..RunEnd(S, b), ~(x < c) PROVE FALSE
    OBVIOUS
  <1>3. c - 1 \in b..RunEnd(S, b)
    BY <1>1, <1>2
  <1> QED BY <1>1, <1>2, <1>3

\* GenerateTagsFromMap names the blocks it is given, each once, and no other.
LEMMA TagIsSet ==
  ASSUME NEW S \in SUBSET Nat, IsFiniteSet(S)
  PROVE  /\ GenerateTagsFromMap(S) \in TagType /\ TagBlocks(GenerateTagsFromMap(S)) = S
         /\ Separate(GenerateTagsFromMap(S))
  <1> DEFINE C == {c \in RunStarts(S) : RunEnd(S, c) > c}
             R == {RangeTag(b, RunEnd(S, b)) : b \in C}
             B == {b \in RunStarts(S) : RunEnd(S, b) = b}
  <1>1. GenerateTagsFromMap(S) = Tag(SetToSeq(R), InOrder(B))
    BY DEF GenerateTagsFromMap, RunEnd, RunEnds, RunStarts
  <1>2. C \in SUBSET S /\ B \in SUBSET S /\ B \in SUBSET Nat
    BY DEF RunStarts
  <1>3. IsFiniteSet(C) /\ IsFiniteSet(B)
    BY <1>2, FS_Subset
  <1>4. R \in SUBSET Ranges
    <2> SUFFICES ASSUME NEW b \in C PROVE RangeTag(b, RunEnd(S, b)) \in Ranges
      OBVIOUS
    <2>1. RunEnd(S, b) \in S /\ b <= RunEnd(S, b) /\ b \in S
      BY <1>2, RunEndOk
    <2> QED BY <2>1 DEF Ranges, RangeTag
  <1>5. IsFiniteSet(R)
    <2> DEFINE f == [b \in C |-> RangeTag(b, RunEnd(S, b))]
    <2>1. f \in Surjection(C, R)
      BY DEF Surjection
    <2> HIDE DEF f, C, R
    <2> QED BY <1>3, <2>1, FS_Surjection
  <1>6. \A r \in R : \E b \in C : r = RangeTag(b, RunEnd(S, b))
    OBVIOUS
  <1>7. \A b \in C : RangeTag(b, RunEnd(S, b)) \in R
    OBVIOUS
  <1>8. \A b \in RunStarts(S) : (RunEnd(S, b) > b => b \in C) /\ (RunEnd(S, b) = b => b \in B)
    OBVIOUS
  <1> HIDE DEF C, R, B
  <1>9. /\ SetToSeq(R) \in Seq(Ranges) /\ ToSet(SetToSeq(R)) = R
        /\ \A i, j \in DOMAIN SetToSeq(R) : i # j => SetToSeq(R)[i] # SetToSeq(R)[j]
    <2>1. /\ SetToSeq(R) \in Seq(R) /\ ToSet(SetToSeq(R)) = R
          /\ \A i, j \in DOMAIN SetToSeq(R) : i # j => SetToSeq(R)[i] # SetToSeq(R)[j]
      BY <1>5, SetToSeqLists
    <2> QED BY <1>4, <2>1, SeqWiden
  <1>10. /\ InOrder(B) \in Seq(Nat) /\ ToSet(InOrder(B)) = B /\ DOMAIN InOrder(B) = 1..Len(InOrder(B))
         /\ \A i, j \in DOMAIN InOrder(B) : i < j => InOrder(B)[i] < InOrder(B)[j]
    <2>1. /\ InOrder(B) \in Seq(B) /\ ToSet(InOrder(B)) = B /\ DOMAIN InOrder(B) = 1..Len(InOrder(B))
          /\ \A i, j \in DOMAIN InOrder(B) : i < j => InOrder(B)[i] < InOrder(B)[j]
      BY <1>2, <1>3, InOrderOk
    <2> QED BY <1>2, <2>1, SeqWiden
  <1>11. Tag(SetToSeq(R), InOrder(B)) \in TagType
    BY <1>9, <1>10 DEF Tag, TagType
  <1>12. TagBlocks(Tag(SetToSeq(R), InOrder(B))) = B \cup UNION {r.start..r.end : r \in R}
    BY <1>9, <1>10 DEF TagBlocks, Tag
  <1>13. ASSUME NEW x \in UNION {r.start..r.end : r \in R} PROVE x \in S
    <2>1. PICK r \in R : x \in r.start..r.end
      OBVIOUS
    <2>2. PICK b \in C : r = RangeTag(b, RunEnd(S, b))
      BY <1>6
    <2>3. b..RunEnd(S, b) \subseteq S
      BY <1>2, RunEndOk
    <2> QED BY <2>1, <2>2, <2>3 DEF RangeTag
  <1>14. ASSUME NEW x \in S PROVE x \in B \cup UNION {r.start..r.end : r \in R}
    <2>1. PICK b \in RunStarts(S) : b <= x /\ b..x \subseteq S
      BY RunExists
    <2>2. b \in S /\ x \in Nat /\ b \in Nat
      BY DEF RunStarts
    <2>3. RunEnd(S, b) \in Nat /\ b <= RunEnd(S, b) /\ x <= RunEnd(S, b)
      BY <2>1, <2>2, RunEndOk
    <2>4. CASE RunEnd(S, b) = b
      BY <1>8, <2>1, <2>2, <2>3, <2>4
    <2>5. CASE RunEnd(S, b) > b
      <3>1. RangeTag(b, RunEnd(S, b)) \in R
        BY <1>7, <1>8, <2>5
      <3>2. /\ RangeTag(b, RunEnd(S, b)).start = b /\ RangeTag(b, RunEnd(S, b)).end = RunEnd(S, b)
        BY DEF RangeTag
      <3>3. x \in b..RunEnd(S, b)
        BY <2>1, <2>2, <2>3
      <3> QED BY <3>1, <3>2, <3>3
    <2> QED BY <2>2, <2>3, <2>4, <2>5
  <1>15. TagBlocks(Tag(SetToSeq(R), InOrder(B))) = S
    BY <1>2, <1>12, <1>13, <1>14
  <1>16. \A b \in C : b \in RunStarts(S) /\ RunEnd(S, b) > b
    BY DEF C
  <1>17. \A b \in B : b \in RunStarts(S) /\ RunEnd(S, b) = b
    BY DEF B
  <1>18. \A b \in RunStarts(S) : b \in S /\ b \in Nat
    BY DEF RunStarts
  <1>19. ASSUME NEW r \in R, NEW q \in R, r # q PROVE Span(r) \cap Span(q) = {}
    <2>1. PICK b \in C : r = RangeTag(b, RunEnd(S, b))
      BY <1>6
    <2>2. PICK c \in C : q = RangeTag(c, RunEnd(S, c))
      BY <1>6
    <2>3. b # c
      BY <1>19, <2>1, <2>2
    <2>4. b \in RunStarts(S) /\ c \in RunStarts(S) /\ b \in Nat /\ c \in Nat
      BY <1>16, <1>18
    <2>5. /\ Span(r) = b..RunEnd(S, b) /\ Span(q) = c..RunEnd(S, c)
      BY <2>1, <2>2 DEF Span, RangeTag
    <2>6. CASE b < c
      <3>1. \A x \in b..RunEnd(S, b) : x < c
        BY <2>4, <2>6, RunsApart
      <3>2. \A x \in c..RunEnd(S, c) : x \in Int /\ c <= x /\ ~(x < c)
        BY <2>4
      <3> QED BY <2>5, <3>1, <3>2
    <2>7. CASE c < b
      <3>1. \A x \in c..RunEnd(S, c) : x < b
        BY <2>4, <2>7, RunsApart
      <3>2. \A x \in b..RunEnd(S, b) : x \in Int /\ b <= x /\ ~(x < b)
        BY <2>4
      <3> QED BY <2>5, <3>1, <3>2
    <2> QED BY <2>3, <2>4, <2>6, <2>7
  <1>20. ASSUME NEW r \in R, NEW c \in B PROVE c \notin Span(r)
    <2>1. PICK b \in C : r = RangeTag(b, RunEnd(S, b))
      BY <1>6
    <2>2. /\ b \in RunStarts(S) /\ c \in RunStarts(S) /\ b \in Nat /\ c \in Nat
          /\ RunEnd(S, b) > b /\ RunEnd(S, c) = c
      BY <1>16, <1>17, <1>18
    <2>3. b # c
      BY <2>2
    <2>4. Span(r) = b..RunEnd(S, b)
      BY <2>1 DEF Span, RangeTag
    <2>5. CASE b < c
      BY <2>2, <2>4, <2>5, RunsApart
    <2>6. CASE c < b
      BY <2>2, <2>4, <2>6
    <2> QED BY <2>2, <2>3, <2>5, <2>6
  <1>21. Separate(Tag(SetToSeq(R), InOrder(B)))
    <2> DEFINE rs == SetToSeq(R)
               bs == InOrder(B)
    <2>1. \A i \in DOMAIN rs : rs[i] \in R
      BY <1>9 DEF ToSet
    <2>2. \A i \in DOMAIN bs : bs[i] \in B /\ bs[i] \in Nat /\ i \in Nat
      BY <1>2, <1>10 DEF ToSet
    <2>3. \A i, j \in DOMAIN rs : i # j => rs[i] # rs[j]
      BY <1>9
    <2>4. \A i, j \in DOMAIN bs : i < j => bs[i] < bs[j]
      BY <1>10
    <2>5. Tag(rs, bs).ranges = rs /\ Tag(rs, bs).blocks = bs
      BY DEF Tag
    <2> HIDE DEF rs, bs
    <2>6. \A i, j \in DOMAIN rs : i # j => Span(rs[i]) \cap Span(rs[j]) = {}
      BY <1>19, <2>1, <2>3
    <2>7. \A i, j \in DOMAIN bs : i # j => bs[i] # bs[j]
      <3> SUFFICES ASSUME NEW i \in DOMAIN bs, NEW j \in DOMAIN bs, i # j PROVE bs[i] # bs[j]
        OBVIOUS
      <3>1. (i < j \/ j < i) /\ bs[i] \in Nat /\ bs[j] \in Nat
        BY <2>2
      <3>2. bs[i] < bs[j] \/ bs[j] < bs[i]
        BY <2>4, <3>1
      <3> QED BY <3>1, <3>2
    <2>8. \A i \in DOMAIN rs, j \in DOMAIN bs : bs[j] \notin Span(rs[i])
      BY <1>20, <2>1, <2>2
    <2>9. Separate(Tag(rs, bs))
      BY <2>5, <2>6, <2>7, <2>8 DEF Separate
    <2> QED BY <2>9 DEF rs, bs
  <1> QED BY <1>1, <1>11, <1>15, <1>21

RequestType ==
  [pc : {"idle", "asked", "answered"}, done : Nat, blocks : SUBSET Frames, latest : Nat,
   tip : Nat, tag : TagType]

\* What was sent is not above the highest block that was sent with it.
AskedInv == request.pc = "asked" => \A x \in request.blocks : x.block <= request.latest

\* The tag of a PoTS response holds the server's blocks above the highest block of the
\* request, up to the server's own highest, and nothing below (see OnlyOldHolesRemain).
RepairCoversGap ==
  request.pc = "answered" => TagBlocks(request.tag) = (request.latest + 1)..request.tip

\* The tag of a PoTS response is one that HeaderSync and DataSync take: it names each
\* block once, in a range or by itself.
TagNamesOnce == request.pc = "answered" => request.tag \in {t \in TagType : Separate(t)}

RequestInv == request \in RequestType /\ AskedInv /\ RepairCoversGap /\ TagNamesOnce

LEMMA NoTag == /\ Tag(<<>>, <<>>) \in TagType /\ TagBlocks(Tag(<<>>, <<>>)) = {}
               /\ Separate(Tag(<<>>, <<>>))
  BY DEF Tag, TagType, TagBlocks, ToSet, Separate

LEMMA NoRequestOk ==
  ASSUME NEW n \in Nat, request' = NoRequest(n)
  PROVE  RequestInv'
  <1>1. request'.pc = "idle" /\ request' \in RequestType
    BY NoTag DEF NoRequest, RequestType
  <1> QED BY <1>1 DEF RequestInv, AskedInv, RepairCoversGap, TagNamesOnce

LEMMA RequestInit == Init => RequestInv
  <1> SUFFICES ASSUME Init PROVE RequestInv
    OBVIOUS
  <1>1. request.pc = "idle" /\ request \in RequestType
    BY NoTag DEF Init, NoRequest, RequestType
  <1> QED BY <1>1 DEF RequestInv, AskedInv, RepairCoversGap, TagNamesOnce

LEMMA RequestKept ==
  ASSUME RequestInv, UNCHANGED request
  PROVE  RequestInv'
  BY DEF RequestInv, AskedInv, RepairCoversGap, TagNamesOnce

\* runPoTS sends entries of the log, none of them above latestBlock.
LEMMA ReadOk ==
  ASSUME IndexInv, NEW limit \in Nat
  PROVE  /\ latest \in Nat /\ RequestBlocks(limit) \in SUBSET Frames
         /\ \A x \in RequestBlocks(limit) : x.block <= latest
  <1>1. log \in Seq(Frames) /\ order \in Seq(Nat) /\ ToSet(order) \in SUBSET DOMAIN log
    BY DEF IndexInv, Describes
  <1>2. /\ {0} \cup BlocksOf(log, ToSet(order)) \in SUBSET Nat
        /\ IsFiniteSet({0} \cup BlocksOf(log, ToSet(order)))
    <2>1. BlocksOf(log, ToSet(order)) \in SUBSET Nat /\ IsFiniteSet(BlocksOf(log, ToSet(order)))
      BY <1>1, EntriesFinite
    <2>2. \A B \in SUBSET Nat : {0} \cup B \in SUBSET Nat
      OBVIOUS
    <2> QED BY <2>1, <2>2, FS_Singleton, FS_Union
  <1>3. latest \in Nat /\ \A b \in BlocksOf(log, ToSet(order)) : b <= latest
    <2>1. latest = Max({0} \cup BlocksOf(log, ToSet(order)))
      BY DEF IndexInv, Describes
    <2> QED BY <1>2, <2>1, MaxFinite
  <1>4. ASSUME NEW x \in RequestBlocks(limit) PROVE x \in Frames /\ x.block <= latest
    <2>1. Min({limit, Len(order)}) \in Nat /\ Min({limit, Len(order)}) <= Len(order)
      <3>1. PICK len \in Nat : len = Len(order)
        BY <1>1
      <3>2. Min({limit, len}) \in {limit, len} /\ Min({limit, len}) <= len
        BY MinPair
      <3>3. Min({limit, len}) \in Nat
        BY <3>2
      <3> QED BY <3>1, <3>2, <3>3
    <2>2. PICK i \in 1..Min({limit, Len(order)}) : x = log[order[i]]
      BY DEF RequestBlocks, Read, ToSet
    <2>3. i \in DOMAIN order /\ order[i] \in ToSet(order)
      BY <1>1, <2>1 DEF ToSet
    <2>4. x.block \in BlocksOf(log, ToSet(order))
      BY <2>2, <2>3 DEF BlocksOf
    <2>5. x \in Frames
      BY <1>1, <2>2, <2>3
    <2> QED BY <1>3, <2>4, <2>5
  <1> QED BY <1>3, <1>4

LEMMA RequestSent == IndexInv /\ RequestInv /\ SendPoTSRequest => RequestInv'
  <1> SUFFICES ASSUME IndexInv, RequestInv, SendPoTSRequest PROVE RequestInv'
    OBVIOUS
  <1>1. request \in RequestType /\ request.done + 1 \in Nat
    BY DEF RequestInv, RequestType
  <1>2. PICK limit \in ReadLimits :
          request' = IF ReadFails(limit) \/ RequestBlocks(limit) = {} THEN NoRequest(request.done + 1)
                     ELSE [request EXCEPT !.pc = "asked", !.blocks = RequestBlocks(limit), !.latest = latest]
    BY DEF SendPoTSRequest
  <1>3. /\ latest \in Nat /\ RequestBlocks(limit) \in SUBSET Frames
        /\ \A x \in RequestBlocks(limit) : x.block <= latest
    <2>1. limit \in Nat
      BY PoTSAssumption
    <2> QED BY <2>1, ReadOk
  <1>4. CASE ReadFails(limit) \/ RequestBlocks(limit) = {}
    BY <1>1, <1>2, <1>4, NoRequestOk
  <1>5. CASE ~(ReadFails(limit) \/ RequestBlocks(limit) = {})
    <2>1. /\ request' \in RequestType /\ request'.pc = "asked" /\ request'.blocks = RequestBlocks(limit)
          /\ request'.latest = latest
      BY <1>1, <1>2, <1>3, <1>5 DEF RequestType
    <2> QED BY <1>3, <2>1 DEF RequestInv, AskedInv, RepairCoversGap, TagNamesOnce
  <1> QED BY <1>4, <1>5

LEMMA RequestAnswered == WireInv /\ RequestInv /\ ProcessPoTSRequest => RequestInv'
  <1> SUFFICES ASSUME WireInv, RequestInv, ProcessPoTSRequest PROVE RequestInv'
    OBVIOUS
  <1> DEFINE n == Len(chain)
             from == request.latest + 1
             S == CompareMaps(from, request.blocks)
             tag == IF request.latest >= n THEN Tag(<<>>, <<>>) ELSE GenerateTagsFromMap(S)
  <1>1. request \in RequestType /\ request.latest \in Nat /\ request.done + 1 \in Nat /\ request.pc = "asked"
    BY DEF RequestInv, RequestType, ProcessPoTSRequest
  <1>2. chain \in Seq(Nat) /\ n \in Nat
    BY DEF WireInv, WireType
  <1>3. CASE request' = NoRequest(request.done + 1)
    BY <1>1, <1>3, NoRequestOk
  <1>4. CASE request' = [request EXCEPT !.pc = "answered", !.tip = n, !.tag = tag]
    <2>1. S = from..n
      <3>1. \A b \in from..n : Block(b, chain[b]) \notin request.blocks
        <4>1. \A b \in from..n : Block(b, chain[b]).block = b /\ b > request.latest /\ ~(b <= request.latest)
          BY <1>1, <1>2 DEF Block
        <4>2. \A x \in request.blocks : x.block <= request.latest
          BY <1>1 DEF RequestInv, AskedInv
        <4> QED BY <4>1, <4>2
      <3> QED BY <3>1 DEF CompareMaps
    <2>2. from..n \in SUBSET Nat /\ IsFiniteSet(from..n)
      <3>1. from..n \in SUBSET (0..n)
        BY <1>1, <1>2
      <3>2. IsFiniteSet(from..n)
        BY <1>2, <3>1, BoundedFinite
      <3> QED BY <1>1, <1>2, <3>2
    <2>3. /\ GenerateTagsFromMap(S) \in TagType /\ TagBlocks(GenerateTagsFromMap(S)) = from..n
          /\ Separate(GenerateTagsFromMap(S))
      BY <2>1, <2>2, TagIsSet
    <2>4. request.latest >= n => from..n = {}
      BY <1>1, <1>2
    <2>5. tag \in TagType /\ TagBlocks(tag) = from..n /\ Separate(tag)
      BY <2>3, <2>4, NoTag
    <2> HIDE DEF tag, S, n
    <2>6. /\ request' \in RequestType /\ request'.pc = "answered" /\ request'.tag = tag
          /\ request'.tip = n /\ request'.latest = request.latest
      BY <1>1, <1>2, <1>4, <2>5 DEF RequestType
    <2> QED BY <2>5, <2>6 DEF RequestInv, AskedInv, RepairCoversGap, TagNamesOnce
  <1> QED BY <1>3, <1>4 DEF ProcessPoTSRequest

LEMMA RequestStep == WireInv /\ IndexInv /\ RequestInv /\ [Next]_vars => RequestInv'
  <1> SUFFICES ASSUME WireInv, IndexInv, RequestInv, [Next]_vars PROVE RequestInv'
    OBVIOUS
  <1>0. request.done \in Nat /\ request.done + 1 \in Nat
    BY DEF RequestInv, RequestType
  <1>1. CASE SendPoTSRequest
    BY <1>1, RequestSent
  <1>2. CASE ProcessPoTSRequest
    BY <1>2, RequestAnswered
  <1>3. CASE GapFilled
    BY <1>0, <1>3, NoRequestOk DEF GapFilled
  <1>4. CASE Crash
    BY <1>0, <1>4, NoRequestOk DEF Crash
  <1>5. CASE UNCHANGED request
    BY <1>5, RequestKept
  <1>6. Repair \/ Crash \/ UNCHANGED request
    <2>1. Server \/ Client => UNCHANGED request
      BY DEF Server, Client, Publish, Watch, Decide, AddStream, Respond, ReadResponse, ReceiveBlock,
             ReceiveDone, ReadError
    <2>2. Environment => Crash \/ UNCHANGED request
      BY DEF Environment, Produce, Reorg, SetAvailability, ClosePublisher, Subscribe, EndSubscription, Rotate
    <2>3. UNCHANGED vars => UNCHANGED request
      BY DEF vars
    <2> QED BY <2>1, <2>2, <2>3 DEF Next
  <1> QED BY <1>1, <1>2, <1>3, <1>4, <1>5, <1>6 DEF Repair

\* Spec => []RepairCoversGap: the tag of a PoTS response holds exactly the server's blocks
\* above the highest block of the request's WAL, up to the server's own highest, whatever
\* part of its WAL the client sent and whatever was replaced meanwhile.
THEOREM GapIsCovered == Spec => []RepairCoversGap
  <1>1. RequestInv => RepairCoversGap
    BY DEF RequestInv
  <1> QED BY <1>1, WireInit, WireStep, IndexInit, IndexStep, RequestInit, RequestStep, PTL DEF Spec

\* Spec => []TagNamesOnce: what ProcessPoTSRequest answers is a tag with ranges and blocks
\* apart from each other, as module BlockSync assumes of the tags (GapTags) with which a
\* session is started after a PoTS response.
THEOREM GapTagUsable == Spec => []TagNamesOnce
  <1>1. RequestInv => TagNamesOnce
    BY DEF RequestInv
  <1> QED BY <1>1, WireInit, WireStep, IndexInit, IndexStep, RequestInit, RequestStep, PTL DEF Spec

=============================================================================
