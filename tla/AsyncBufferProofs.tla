-------------------------- MODULE AsyncBufferProofs --------------------------
(***************************************************************************)
(* What the asynchronous WAL buffer does with every entry it is given,     *)
(* whatever the number of writers, what they push, how many buffers are    *)
(* created and closed, and however the goroutines interleave.              *)
(***************************************************************************)
EXTENDS AsyncBuffer, SequenceTheorems, FiniteSetTheorems, WellFoundedInduction, TLAPS

\* What a buffer is given, and what its stack is made of.
Kinds    == {"data", "checkpoint"}
ItemType == [kind : Kinds, by : Writers, n : Nat, buf : Buffer]
Items    == Seq(ItemType)
NodeType == [kind : Kinds, items : Items]
Nodes    == Seq(NodeType)

\* Adjacent nodes differ in kind.
Alternating(nodes) == \A i \in 1..Len(nodes) - 1 : nodes[i].kind # nodes[i + 1].kind

\* Every item of the nodes was accepted by buffer b.
ItemsOf(b, nodes) ==
  \A i \in 1..Len(nodes) : \A j \in 1..Len(nodes[i].items) : nodes[i].items[j].buf = b

\* The types of the state, the ones TypeOK leaves to the other invariants included.
Types ==
  /\ TypeOK
  /\ stack \in [Buffer -> Nodes] /\ snapshot \in [Buffer -> Nodes]
  /\ pushed \in [Buffer -> Items] /\ wal \in Items
  /\ at \in [Writers -> Nat \ {0}]
  /\ lost \in SUBSET ItemType

\* Where the goroutines can be at the same time.
Control ==
  /\ \A w \in Writers : wpc[w] # "load" => at[w] <= Len(Plan[w])
  /\ \A w \in Writers : wpc[w] \in {"push", "first"} => wbuf[w] \in 1..used
  /\ \A b \in Buffer : bpc[b] = "unborn" <=> b > used
  /\ \A b \in Buffer : closed[b] <=> bpc[b] \in {"unregister", "drain", "exited"}
  /\ cpc = "waiting" => cbuf # 0

\* Each buffer holds its own items; it has a snapshot only while it writes one; and
\* what it accepted, and what was lost, came from calls that have returned.
BufferOK(b, held, writes, pc) ==
  /\ ItemsOf(b, held) /\ ItemsOf(b, writes)
  /\ pc \in {"unborn", "select", "close"} => writes = <<>>

Returned(items, index) == \A i \in 1..Len(items) : items[i].n < index[items[i].by]

Contents ==
  /\ \A b \in Buffer :
       BufferOK(b, stack[b], snapshot[b], bpc[b]) /\ Returned(pushed[b], at)
  /\ \A x \in lost : x.n < at[x.by]

-----------------------------------------------------------------------------
(* Numbers and recursive functions.                                        *)

\* A set of natural numbers that is not empty has a least one.
LEMMA LeastExists ==
  ASSUME NEW T \in SUBSET Nat, T # {}
  PROVE  \E x \in T : \A y \in T : x <= y
  <1> DEFINE R == {p \in Nat \X Nat : p[1] < p[2]}
  <1>1. IsWellFoundedOn(R, Nat)
    <2>1. R = OpToRel(<, Nat)
      BY DEF OpToRel
    <2> QED BY <2>1, NatLessThanWellFounded
  <1> HIDE DEF R
  <1>2. PICK x \in T : \A y \in T : ~(<<y, x>> \in R)
    BY <1>1, WFMin
  <1>3. \A y \in T : ~(y < x)
    <2> TAKE y \in T
    <2>1. x \in Nat /\ y \in Nat
      OBVIOUS
    <2>2. y < x => <<y, x>> \in R
      BY <2>1 DEF R
    <2> QED BY <1>2, <2>2
  <1> QED BY <1>3

\* What holds of 0, and of each number up to b when it holds of the one before, holds
\* up to b; the set G is where it holds.
LEMMA UpTo ==
  ASSUME NEW b \in Nat, NEW G, 0 \in G, \A n \in 1..b : n - 1 \in G => n \in G
  PROVE  \A n \in 0..b : n \in G
  <1> DEFINE Bad == {n \in 0..b : n \notin G}
  <1> SUFFICES ASSUME Bad # {} PROVE FALSE
    OBVIOUS
  <1>1. PICK x \in Bad : \A y \in Bad : x <= y
    <2>1. Bad \in SUBSET Nat
      OBVIOUS
    <2> HIDE DEF Bad
    <2> QED BY <2>1, LeastExists
  <1>2. x \in 1..b /\ x - 1 \in 0..b /\ x \notin G
    OBVIOUS
  <1>3. x - 1 \in G
    BY <1>1, <1>2
  <1> QED BY <1>2, <1>3

\* A function defined by recursion on 0..n exists: each value follows from the one before.
IsStep(step, n, S) == step \in [1..n -> [S -> S]]
IsRun(f, step, n, S, init) ==
  f \in [0..n -> S] /\ f[0] = init /\ \A k \in 1..n : f[k] = step[k][f[k - 1]]

LEMMA Iterates ==
  ASSUME NEW n \in Nat, NEW S, NEW init \in S, NEW step, IsStep(step, n, S)
  PROVE  \E f : IsRun(f, step, n, S, init)
  <1>0. step \in [1..n -> [S -> S]]
    BY DEF IsStep
  <1> DEFINE Good(f, m) == f[0] = init /\ \A k \in 1..m : f[k] = step[k][f[k - 1]]
             G == {m \in 0..n : \E f \in [0..m -> S] : Good(f, m)}
  <1>1. 0 \in G
    <2> DEFINE f == [k \in 0..0 |-> init]
    <2>1. f \in [0..0 -> S] /\ Good(f, 0)
      OBVIOUS
    <2>2. 0 \in 0..n
      OBVIOUS
    <2> HIDE DEF f
    <2> QED BY <2>1, <2>2
  <1>2. ASSUME NEW m \in 1..n, m - 1 \in G PROVE m \in G
    <2>1. PICK f \in [0..m - 1 -> S] : Good(f, m - 1)
      BY <1>2
    <2>2. f[m - 1] \in S /\ step[m] \in [S -> S]
      BY <1>0
    <2>3. PICK v \in S : v = step[m][f[m - 1]]
      BY <2>2
    <2> DEFINE h == [k \in 0..m |-> IF k < m THEN f[k] ELSE v]
    <2>4. h \in [0..m -> S]
      OBVIOUS
    <2>5. Good(h, m)
      <3>1. h[0] = init
        BY <2>1
      <3>2. ASSUME NEW k \in 1..m PROVE h[k] = step[k][h[k - 1]]
        <4>1. h[k - 1] = f[k - 1]
          OBVIOUS
        <4>2. CASE k < m
          BY <2>1, <4>1, <4>2
        <4>3. CASE k = m
          <5>1. h[m] = v
            OBVIOUS
          <5> HIDE DEF h
          <5> QED BY <2>3, <4>1, <4>3, <5>1
        <4> QED BY <4>2, <4>3
      <3> QED BY <3>1, <3>2
    <2> HIDE DEF h, Good
    <2>6. m \in 0..n
      OBVIOUS
    <2> QED BY <2>4, <2>5, <2>6
  <1>3. n \in G
    <2>1. \A m \in 1..n : m - 1 \in G => m \in G
      BY <1>2
    <2> HIDE DEF G
    <2>2. \A m \in 0..n : m \in G
      BY <1>1, <2>1, UpTo
    <2> QED BY <2>2
  <1> QED BY <1>3 DEF IsRun

-----------------------------------------------------------------------------
(* The items of a sequence of nodes, in order.                             *)

\* Concatenation, under a name that the provers do not expand.
Cat(x, y) == x \o y

\* Sequences of items can be concatenated, and sequences of nodes cut and extended.
LEMMA ItemsFacts ==
  /\ <<>> \in Items
  /\ \A x \in Items : Cat(x, <<>>) = x /\ Cat(<<>>, x) = x
  /\ \A x, y \in Items : Cat(x, y) \in Items
  /\ \A x, y, z \in Items : Cat(Cat(x, y), z) = Cat(x, Cat(y, z))
  <1>1. <<>> \in Items
    BY DEF Items
  <1>2. \A x \in Items : Cat(x, <<>>) = x /\ Cat(<<>>, x) = x
    BY ConcatEmptySeq DEF Items, Cat
  <1>3. \A x, y \in Items : Cat(x, y) \in Items
    BY ConcatProperties DEF Items, Cat
  <1>4. \A x, y, z \in Items : Cat(Cat(x, y), z) = Cat(x, Cat(y, z))
    BY ConcatAssociative DEF Items, Cat
  <1> QED BY <1>1, <1>2, <1>3, <1>4

LEMMA NodesFacts ==
  ASSUME NEW nodes \in Nodes
  PROVE  /\ Len(nodes) \in Nat /\ DOMAIN nodes = 1..Len(nodes)
         /\ \A k \in 1..Len(nodes) : nodes[k] \in NodeType /\ nodes[k].items \in Items
         /\ nodes # <<>> <=> Len(nodes) # 0
  <1>1. Len(nodes) \in Nat /\ DOMAIN nodes = 1..Len(nodes)
    BY LenProperties DEF Nodes
  <1>2. \A k \in 1..Len(nodes) : nodes[k] \in NodeType
    BY ElementOfSeq DEF Nodes
  <1>3. \A x \in NodeType : x.items \in Items
    BY DEF NodeType
  <1>4. nodes # <<>> <=> Len(nodes) # 0
    BY EmptySeq DEF Nodes
  <1> QED BY <1>1, <1>2, <1>3, <1>4

LEMMA NodesAppend ==
  ASSUME NEW nodes \in Nodes, NEW node \in NodeType
  PROVE  /\ Append(nodes, node) \in Nodes
         /\ Len(Append(nodes, node)) = Len(nodes) + 1
         /\ Append(nodes, node)[Len(nodes) + 1] = node
         /\ \A k \in 1..Len(nodes) : Append(nodes, node)[k] = nodes[k]
  <1>1. nodes \in Seq(NodeType)
    BY DEF Nodes
  <1> QED BY <1>1, AppendProperties, NodesFacts DEF Nodes

LEMMA NodesTail ==
  ASSUME NEW nodes \in Nodes, nodes # <<>>
  PROVE  /\ Tail(nodes) \in Nodes /\ Len(Tail(nodes)) = Len(nodes) - 1
         /\ Head(nodes) = nodes[1]
         /\ \A k \in 1..Len(nodes) - 1 : nodes[k + 1] = Tail(nodes)[k]
  <1>1. nodes \in Seq(NodeType)
    BY DEF Nodes
  <1>2. Tail(nodes) \in Seq(NodeType) /\ Len(Tail(nodes)) = Len(nodes) - 1
    BY <1>1, HeadTailProperties
  <1>3. \A k \in 1..Len(Tail(nodes)) : Tail(nodes)[k] = nodes[k + 1]
    BY <1>1, HeadTailProperties
  <1>4. Head(nodes) = nodes[1]
    BY <1>1
  <1> QED BY <1>2, <1>3, <1>4 DEF Nodes

\* f[k] is what the first k nodes hold.
IsFlat(f, nodes) ==
  /\ f \in [0..Len(nodes) -> Items]
  /\ f[0] = <<>>
  /\ \A k \in 1..Len(nodes) : f[k] = Cat(f[k - 1], nodes[k].items)

LEMMA FlatExists ==
  ASSUME NEW nodes \in Nodes
  PROVE  \E f : IsFlat(f, nodes)
  <1> DEFINE step == [k \in 1..Len(nodes) |-> [v \in Items |-> Cat(v, nodes[k].items)]]
  <1>1. Len(nodes) \in Nat /\ \A k \in 1..Len(nodes) : nodes[k].items \in Items
    BY NodesFacts
  <1>2. \A k \in 1..Len(nodes) : \A v \in Items : Cat(v, nodes[k].items) \in Items
    BY <1>1, ItemsFacts
  <1>3. IsStep(step, Len(nodes), Items) /\ <<>> \in Items
    BY <1>2, ItemsFacts DEF IsStep
  <1>4. \A k \in 1..Len(nodes) : \A v \in Items : step[k][v] = Cat(v, nodes[k].items)
    OBVIOUS
  <1> HIDE DEF step
  <1>5. PICK f : IsRun(f, step, Len(nodes), Items, <<>>)
    BY <1>1, <1>3, Iterates
  <1>6. \A k \in 1..Len(nodes) : k - 1 \in 0..Len(nodes)
    BY <1>1
  <1>7. /\ f \in [0..Len(nodes) -> Items] /\ f[0] = <<>>
        /\ \A k \in 1..Len(nodes) : f[k] = step[k][f[k - 1]]
    BY <1>5 DEF IsRun
  <1>8. \A k \in 1..Len(nodes) : f[k] = Cat(f[k - 1], nodes[k].items)
    <2> TAKE k \in 1..Len(nodes)
    <2>1. f[k - 1] \in Items
      BY <1>6, <1>7
    <2> QED BY <1>4, <1>7, <2>1
  <1> QED BY <1>7, <1>8 DEF IsFlat

\* Flat is the last of them.
LEMMA FlatIs ==
  ASSUME NEW nodes \in Nodes, NEW f, IsFlat(f, nodes)
  PROVE  Flat(nodes) = f[Len(nodes)] /\ Flat(nodes) \in Items
  <1>1. PICK len \in Nat : len = Len(nodes) /\ DOMAIN nodes = 1..len
    BY NodesFacts
  <1>2. \A k \in 1..len : nodes[k].items \in Items
    BY <1>1, NodesFacts
  <1>3. PICK seqs : seqs = [i \in 1..len |-> nodes[i].items]
    OBVIOUS
  <1>4. seqs \in Seq(Items) /\ Len(seqs) = len
    BY <1>1, <1>2, <1>3
  <1>5. \A k \in 1..len : seqs[k] = nodes[k].items
    BY <1>3
  <1>6. f[0] = <<>> /\ \A k \in 1..len : f[k] = Cat(f[k - 1], seqs[k])
    BY <1>1, <1>5 DEF IsFlat
  <1>7. f \in [0..len -> Items] /\ \A k \in 1..len : seqs[k] \in Items
    BY <1>1, <1>2, <1>5 DEF IsFlat
  <1>8. Flat(nodes) = FlattenSeq(seqs)
    BY <1>1, <1>3 DEF Flat
  <1>9. len # 0 => f[1] = seqs[1]
    <2> SUFFICES ASSUME len # 0 PROVE f[1] = seqs[1]
      OBVIOUS
    <2>1. 1 \in 1..len /\ 1 - 1 = 0
      OBVIOUS
    <2>2. f[1] = Cat(<<>>, seqs[1]) /\ seqs[1] \in Items
      BY <1>6, <1>7, <2>1
    <2> QED BY <2>2, ItemsFacts
  <1>10. CASE len = 0
    <2>1. seqs = <<>>
      BY <1>4, <1>10, EmptySeq
    <2> QED BY <1>1, <1>4, <1>6, <1>8, <1>10, <2>1, ItemsFacts DEF FlattenSeq
  <1>11. CASE len # 0
    <2> DEFINE Rec(g) == [i \in 1..Len(seqs) |-> IF i = 1 THEN seqs[i] ELSE Cat(g[i - 1], seqs[i])]
               fl == CHOOSE g : g = Rec(g)
               h == [i \in 1..Len(seqs) |-> f[i]]
    <2>1. FlattenSeq(seqs) = fl[Len(seqs)]
      BY <1>4, <1>11 DEF FlattenSeq, Cat
    <2>2. h = Rec(h)
      <3>1. f[1] = seqs[1]
        BY <1>9, <1>11
      <3>2. ASSUME NEW i \in 1..len PROVE f[i] = IF i = 1 THEN seqs[i] ELSE Cat(h[i - 1], seqs[i])
        <4>1. CASE i = 1
          BY <3>1, <4>1
        <4>2. CASE i # 1
          <5>1. i - 1 \in 1..len
            BY <4>2
          <5>2. h[i - 1] = f[i - 1]
            BY <1>4, <5>1
          <5> HIDE DEF h
          <5> QED BY <1>6, <4>2, <5>2
        <4> QED BY <4>1, <4>2
      <3> QED BY <1>4, <3>2
    <2>3. fl = Rec(fl)
      <3> HIDE DEF Rec, h
      <3> QED BY <2>2
    <2> HIDE DEF fl
    <2>4. ASSUME NEW i \in 1..len PROVE fl[i] = IF i = 1 THEN seqs[i] ELSE Cat(fl[i - 1], seqs[i])
      <3>1. fl[i] = Rec(fl)[i]
        BY <2>3
      <3> QED BY <1>4, <3>1
    <2> DEFINE G == {n \in 0..len : n # 0 => fl[n] = f[n]}
    <2>5. 0 \in G
      OBVIOUS
    <2>6. ASSUME NEW n \in 1..len, n - 1 \in G PROVE n \in G
      <3>1. CASE n = 1
        <4>1. f[1] = seqs[1]
          BY <1>9, <1>11
        <4> QED BY <2>4, <3>1, <4>1
      <3>2. CASE n # 1
        <4>1. fl[n - 1] = f[n - 1]
          BY <2>6, <3>2
        <4>2. fl[n] = f[n]
          BY <1>6, <2>4, <3>2, <4>1
        <4> QED BY <4>2
      <3> QED BY <3>1, <3>2
    <2>7. \A n \in 0..len : n \in G
      <3> HIDE DEF G
      <3> QED BY <2>5, <2>6, UpTo
    <2>8. fl[len] = f[len] /\ f[len] \in Items
      BY <1>7, <1>11, <2>7
    <2> QED BY <1>1, <1>4, <1>8, <2>1, <2>8
  <1> QED BY <1>10, <1>11

LEMMA FlatEmpty == Flat(<<>>) = <<>>
  <1>1. <<>> \in Nodes /\ Len(<<>>) = 0
    BY DEF Nodes
  <1>2. PICK f : IsFlat(f, <<>>)
    BY <1>1, FlatExists
  <1> QED BY <1>1, <1>2, FlatIs DEF IsFlat

\* A node pushed last adds its items at the end.
LEMMA FlatSnoc ==
  ASSUME NEW nodes \in Nodes, NEW node \in NodeType
  PROVE  /\ Flat(Append(nodes, node)) = Cat(Flat(nodes), node.items)
         /\ Flat(nodes) \in Items
  <1>1. PICK f : IsFlat(f, nodes)
    BY FlatExists
  <1>2. PICK x \in Items : x = node.items
    BY DEF NodeType
  <1>3. PICK len \in Nat : len = Len(nodes)
    BY NodesFacts
  <1>4. PICK more \in Nodes : more = Append(nodes, node)
    BY NodesAppend
  <1>5. Len(more) = len + 1 /\ more[len + 1] = node /\ \A k \in 1..len : more[k] = nodes[k]
    BY <1>3, <1>4, NodesAppend
  <1>6. /\ f \in [0..len -> Items] /\ f[0] = <<>>
        /\ \A k \in 1..len : f[k] = Cat(f[k - 1], nodes[k].items)
    BY <1>1, <1>3 DEF IsFlat
  <1>7. PICK last \in Items : last = Cat(f[len], x)
    BY <1>6, ItemsFacts
  <1> DEFINE h == [k \in 0..len + 1 |-> IF k <= len THEN f[k] ELSE last]
  <1>8. h \in [0..len + 1 -> Items] /\ h[0] = <<>> /\ h[len + 1] = last
    BY <1>6
  <1>9. ASSUME NEW k \in 1..len + 1 PROVE h[k] = Cat(h[k - 1], more[k].items)
    <2>1. h[k - 1] = f[k - 1]
      OBVIOUS
    <2>2. CASE k <= len
      <3>1. h[k] = f[k]
        BY <2>2
      <3> HIDE DEF h
      <3> QED BY <1>5, <1>6, <2>1, <2>2, <3>1
    <2>3. CASE k = len + 1
      <3> HIDE DEF h
      <3> QED BY <1>2, <1>5, <1>7, <1>8, <2>1, <2>3
    <2> QED BY <2>2, <2>3
  <1> HIDE DEF h
  <1>10. IsFlat(h, more)
    BY <1>5, <1>8, <1>9 DEF IsFlat
  <1>11. Flat(more) = last
    BY <1>5, <1>8, <1>10, FlatIs
  <1> QED BY <1>1, <1>2, <1>3, <1>4, <1>7, <1>11, FlatIs

\* Taking the first node takes its items from the front.
LEMMA FlatCons ==
  ASSUME NEW nodes \in Nodes, nodes # <<>>
  PROVE  /\ Flat(nodes) = Cat(Head(nodes).items, Flat(Tail(nodes)))
         /\ Flat(Tail(nodes)) \in Items /\ Head(nodes).items \in Items
  <1>1. PICK rest \in Nodes : rest = Tail(nodes)
    BY NodesTail
  <1>2. PICK f : IsFlat(f, rest)
    BY FlatExists
  <1>3. PICK len \in Nat : len = Len(rest) /\ Len(nodes) = len + 1
    <2>1. Len(rest) \in Nat /\ Len(nodes) \in Nat /\ Len(rest) = Len(nodes) - 1
      BY <1>1, NodesFacts, NodesTail
    <2> QED BY <2>1
  <1>4. PICK x \in Items : x = Head(nodes).items /\ x = nodes[1].items
    BY <1>3, NodesFacts, NodesTail
  <1>5. \A k \in 1..len : nodes[k + 1] = rest[k] /\ rest[k].items \in Items
    BY <1>1, <1>3, NodesTail, NodesFacts
  <1>6. /\ f \in [0..len -> Items] /\ f[0] = <<>>
        /\ \A k \in 1..len : f[k] = Cat(f[k - 1], rest[k].items)
    BY <1>2, <1>3 DEF IsFlat
  <1> DEFINE h == [k \in 0..len + 1 |-> IF k = 0 THEN <<>> ELSE Cat(x, f[k - 1])]
  <1>7. h \in [0..len + 1 -> Items]
    <2>1. \A k \in 1..len + 1 : f[k - 1] \in Items
      BY <1>6
    <2>2. \A k \in 1..len + 1 : Cat(x, f[k - 1]) \in Items
      BY <2>1, ItemsFacts
    <2> QED BY <2>2, ItemsFacts
  <1>8. h[0] = <<>> /\ \A k \in 1..len + 1 : h[k] = Cat(x, f[k - 1])
    OBVIOUS
  <1> HIDE DEF h
  <1>9. ASSUME NEW k \in 1..len + 1 PROVE h[k] = Cat(h[k - 1], nodes[k].items)
    <2>1. CASE k = 1
      <3>1. 1 \in 1..len + 1 /\ 1 - 1 = 0
        OBVIOUS
      <3>2. h[1] = Cat(x, <<>>) /\ h[0] = <<>>
        BY <1>6, <1>8, <3>1
      <3>3. h[1] = x /\ Cat(<<>>, x) = x
        BY <3>2, ItemsFacts
      <3> QED BY <1>4, <2>1, <3>1, <3>2, <3>3
    <2>2. CASE k # 1
      <3>1. PICK j \in 1..len : k = j + 1
        BY <2>2
      <3>2. j - 1 \in 0..len /\ j + 1 \in 1..len + 1 /\ j \in 1..len + 1 /\ (j + 1) - 1 = j
        OBVIOUS
      <3>3. h[k] = Cat(x, f[j]) /\ h[k - 1] = Cat(x, f[j - 1])
        BY <1>8, <3>1, <3>2
      <3>4. f[j] = Cat(f[j - 1], rest[j].items) /\ f[j - 1] \in Items /\ rest[j].items \in Items
        BY <1>5, <1>6, <3>2
      <3>5. Cat(x, f[j]) = Cat(Cat(x, f[j - 1]), rest[j].items)
        <4>1. PICK y \in Items, z \in Items : y = f[j - 1] /\ z = rest[j].items
          BY <3>4
        <4>2. Cat(Cat(x, y), z) = Cat(x, Cat(y, z))
          BY ItemsFacts
        <4> QED BY <3>4, <4>1, <4>2
      <3> QED BY <1>5, <3>1, <3>3, <3>5
    <2> QED BY <2>1, <2>2
  <1>10. IsFlat(h, nodes)
    BY <1>3, <1>7, <1>8, <1>9 DEF IsFlat
  <1>11. Flat(nodes) = h[len + 1] /\ Flat(rest) = f[len] /\ Flat(rest) \in Items
    BY <1>2, <1>3, <1>10, FlatIs
  <1>12. h[len + 1] = Cat(x, f[len])
    BY <1>8
  <1> QED BY <1>1, <1>4, <1>11, <1>12

-----------------------------------------------------------------------------
(* What the log holds of one buffer.                                       *)

\* One node for each item of s: the item if it is b's, and nothing otherwise.
Piece(b, x) == Node("data", IF x.buf = b THEN <<x>> ELSE <<>>)
Pieces(b, s) == [i \in 1..Len(s) |-> Piece(b, s[i])]

LEMMA ItemSeq ==
  ASSUME NEW s \in Items
  PROVE  /\ Len(s) \in Nat /\ DOMAIN s = 1..Len(s)
         /\ \A k \in 1..Len(s) : s[k] \in ItemType /\ <<s[k]>> \in Items
  <1>1. s \in Seq(ItemType)
    BY DEF Items
  <1>2. Len(s) \in Nat /\ DOMAIN s = 1..Len(s)
    BY <1>1, LenProperties
  <1>3. \A k \in 1..Len(s) : s[k] \in ItemType
    BY <1>1, ElementOfSeq
  <1>4. \A x \in ItemType : <<x>> \in Items
    BY DEF Items
  <1> QED BY <1>2, <1>3, <1>4

LEMMA PiecesType ==
  ASSUME NEW b, NEW s \in Items
  PROVE  /\ Pieces(b, s) \in Nodes /\ Len(Pieces(b, s)) = Len(s)
         /\ \A k \in 1..Len(s) : /\ s[k].buf = b => Pieces(b, s)[k].items = <<s[k]>>
                                 /\ s[k].buf # b => Pieces(b, s)[k].items = <<>>
  <1>1. ASSUME NEW k \in 1..Len(s) PROVE Piece(b, s[k]) \in NodeType
    <2>1. (IF s[k].buf = b THEN <<s[k]>> ELSE <<>>) \in Items
      BY ItemSeq, ItemsFacts
    <2> QED BY <2>1 DEF Piece, Node, NodeType, Kinds
  <1>2. PICK len \in Nat : len = Len(s)
    BY ItemSeq
  <1>3. Pieces(b, s) \in [1..len -> NodeType] /\ \A k \in 1..len : Pieces(b, s)[k] = Piece(b, s[k])
    BY <1>1, <1>2 DEF Pieces
  <1>4. Pieces(b, s) \in Seq(NodeType) /\ Len(Pieces(b, s)) = len
    BY <1>3
  <1> QED BY <1>2, <1>3, <1>4 DEF Nodes, Piece, Node

LEMMA WrittenIsFlat ==
  ASSUME NEW b, wal \in Items
  PROVE  WrittenBy(b) = Flat(Pieces(b, wal))
  <1>1. PICK p : p = Pieces(b, wal)
    OBVIOUS
  <1>2. DOMAIN p = 1..Len(wal) /\ DOMAIN wal = 1..Len(wal)
    BY <1>1, ItemSeq DEF Pieces
  <1>3. \A i \in 1..Len(wal) : p[i].items = IF wal[i].buf = b THEN <<wal[i]>> ELSE <<>>
    BY <1>1 DEF Pieces, Piece, Node
  <1>4. [i \in DOMAIN p |-> p[i].items]
          = [i \in DOMAIN wal |-> IF wal[i].buf = b THEN <<wal[i]>> ELSE <<>>]
    BY <1>2, <1>3
  <1> QED BY <1>1, <1>4 DEF WrittenBy, Flat

\* The first k items of a sequence.
Prefix(t, k) == SubSeq(t, 1, k)

LEMMA PrefixFacts ==
  ASSUME NEW t \in Items, NEW n \in Nat, n = Len(t)
  PROVE  /\ Prefix(t, 0) = <<>> /\ Prefix(t, n) = t
         /\ \A k \in 0..n : Prefix(t, k) \in Items
         /\ \A k \in 1..n : Prefix(t, k) = Cat(Prefix(t, k - 1), <<t[k]>>)
  <1>1. t \in Seq(ItemType)
    BY DEF Items
  <1>2. Prefix(t, 0) = <<>> /\ Prefix(t, n) = t
    BY <1>1, SubSeqEmpty, SubSeqFull DEF Prefix
  <1>3. ASSUME NEW k \in 0..n PROVE Prefix(t, k) \in Items
    <2>1. \A i \in 1..k : t[i] \in ItemType
      BY <1>1, ItemSeq
    <2> QED BY <2>1, SubSeqProperties DEF Items, Prefix
  <1>4. ASSUME NEW k \in 1..n PROVE Prefix(t, k) = Cat(Prefix(t, k - 1), <<t[k]>>)
    <2>1. 1 \in 1..Len(t) /\ k \in 1..Len(t)
      OBVIOUS
    <2> QED BY <1>1, <2>1, SubSeqRecursiveSecond DEF Cat, Prefix
  <1> QED BY <1>2, <1>3, <1>4

\* What is written at the end of the log counts for its own buffer only.
LEMMA FlatPiecesConcat ==
  ASSUME NEW b, NEW s \in Items, NEW t \in Items, NEW mine \in BOOLEAN,
         \A k \in 1..Len(t) : (t[k].buf = b) <=> mine
  PROVE  Flat(Pieces(b, Cat(s, t))) = IF mine THEN Cat(Flat(Pieces(b, s)), t)
                                      ELSE Flat(Pieces(b, s))
  <1>1. PICK m \in Nat, n \in Nat : m = Len(s) /\ n = Len(t)
    BY ItemSeq
  <1>2. PICK st \in Items : st = Cat(s, t)
    BY ItemsFacts
  <1>3. /\ Len(st) = m + n /\ \A k \in 1..m : st[k] = s[k]
        /\ \A k \in 1..n : st[m + k] = t[k]
    <2>1. s \in Seq(ItemType) /\ t \in Seq(ItemType)
      BY DEF Items
    <2>2. Len(st) = m + n
      BY <1>1, <1>2, <2>1, ConcatProperties DEF Cat
    <2>3. \A i \in 1..m + n : st[i] = IF i <= m THEN s[i] ELSE t[i - m]
      BY <1>1, <1>2, <2>1, ConcatProperties DEF Cat
    <2> QED BY <2>2, <2>3
  <1>4. PICK ps \in Nodes : ps = Pieces(b, s)
    BY PiecesType
  <1>5. PICK pst \in Nodes : pst = Pieces(b, st)
    BY PiecesType
  <1>6. Len(ps) = m /\ Len(pst) = m + n
    BY <1>1, <1>3, <1>4, <1>5, PiecesType
  <1>7. ASSUME NEW k \in 1..m PROVE pst[k].items = ps[k].items
    <2>1. k \in 1..m + n
      OBVIOUS
    <2>2. /\ s[k].buf = b => ps[k].items = <<s[k]>>
          /\ s[k].buf # b => ps[k].items = <<>>
      BY <1>1, <1>4, PiecesType
    <2>3. /\ st[k].buf = b => pst[k].items = <<st[k]>>
          /\ st[k].buf # b => pst[k].items = <<>>
      BY <1>3, <1>5, <2>1, PiecesType
    <2>4. st[k] = s[k]
      BY <1>3
    <2> QED BY <2>2, <2>3, <2>4
  <1>8. ASSUME NEW k \in 1..n PROVE pst[m + k].items = IF mine THEN <<t[k]>> ELSE <<>>
    <2>1. m + k \in 1..m + n
      OBVIOUS
    <2>2. st[m + k] = t[k] /\ ((t[k].buf = b) <=> mine)
      BY <1>1, <1>3
    <2>3. /\ st[m + k].buf = b => pst[m + k].items = <<st[m + k]>>
          /\ st[m + k].buf # b => pst[m + k].items = <<>>
      BY <1>3, <1>5, <2>1, PiecesType
    <2> QED BY <2>2, <2>3
  <1>9. PICK f : IsFlat(f, ps)
    BY FlatExists
  <1>10. /\ f \in [0..m -> Items] /\ f[0] = <<>>
         /\ \A k \in 1..m : f[k] = Cat(f[k - 1], ps[k].items)
    BY <1>6, <1>9 DEF IsFlat
  <1>11. PICK e \in Items : e = f[m]
    BY <1>10
  <1>12. PICK pre \in [0..n -> Items] :
            /\ pre[0] = <<>> /\ pre[n] = IF mine THEN t ELSE <<>>
            /\ \A k \in 1..n : pre[k] = Cat(pre[k - 1], IF mine THEN <<t[k]>> ELSE <<>>)
    <2>1. CASE mine
      <3> DEFINE pre == [k \in 0..n |-> Prefix(t, k)]
      <3>0. /\ Prefix(t, 0) = <<>> /\ Prefix(t, n) = t
            /\ \A k \in 0..n : Prefix(t, k) \in Items
            /\ \A k \in 1..n : Prefix(t, k) = Cat(Prefix(t, k - 1), <<t[k]>>)
        BY <1>1, PrefixFacts
      <3>1. pre \in [0..n -> Items]
        BY <3>0
      <3>2. pre[0] = <<>> /\ pre[n] = t
        BY <3>0
      <3>3. \A k \in 1..n : pre[k] = Cat(pre[k - 1], <<t[k]>>)
        BY <3>0
      <3> HIDE DEF pre
      <3> QED BY <2>1, <3>1, <3>2, <3>3
    <2>2. CASE ~mine
      <3> DEFINE pre == [k \in 0..n |-> <<>>]
      <3>1. pre \in [0..n -> Items]
        BY ItemsFacts
      <3>2. pre[0] = <<>> /\ pre[n] = <<>>
        OBVIOUS
      <3>3. \A k \in 1..n : pre[k] = Cat(pre[k - 1], <<>>)
        <4>1. \A k \in 1..n : pre[k] = <<>> /\ pre[k - 1] = <<>>
          OBVIOUS
        <4> HIDE DEF pre
        <4> QED BY <4>1, ItemsFacts
      <3> HIDE DEF pre
      <3> QED BY <2>2, <3>1, <3>2, <3>3
    <2> QED BY <2>1, <2>2
  <1> DEFINE h == [k \in 0..m + n |-> IF k <= m THEN f[k] ELSE Cat(e, pre[k - m])]
  <1>13. h \in [0..m + n -> Items]
    <2>1. \A k \in 0..n : Cat(e, pre[k]) \in Items
      BY <1>12, ItemsFacts
    <2> QED BY <1>10, <2>1
  <1>14. /\ h[0] = <<>> /\ \A k \in 0..m : h[k] = f[k]
         /\ \A k \in 1..n : h[m + k] = Cat(e, pre[k])
    BY <1>10
  <1> HIDE DEF h
  <1>15. \A k \in 0..n : h[m + k] = Cat(e, pre[k])
    <2>1. h[m] = Cat(e, pre[0])
      <3>1. h[m] = f[m]
        BY <1>14
      <3>2. Cat(e, <<>>) = e
        BY ItemsFacts
      <3> QED BY <1>11, <1>12, <3>1, <3>2
    <2>2. ASSUME NEW k \in 0..n PROVE h[m + k] = Cat(e, pre[k])
      <3>1. CASE k = 0
        BY <2>1, <3>1
      <3>2. CASE k # 0
        BY <1>14, <3>2
      <3> QED BY <3>1, <3>2
    <2> QED BY <2>2
  <1>16. ASSUME NEW k \in 1..m + n PROVE h[k] = Cat(h[k - 1], pst[k].items)
    <2>1. CASE k <= m
      <3>1. k \in 1..m /\ k \in 0..m /\ k - 1 \in 0..m
        BY <2>1
      <3>2. h[k] = f[k] /\ h[k - 1] = f[k - 1]
        BY <1>14, <3>1
      <3>3. f[k] = Cat(f[k - 1], pst[k].items)
        BY <1>7, <1>10, <3>1
      <3> QED BY <3>2, <3>3
    <2>2. CASE k > m
      <3>1. PICK j \in 1..n : k = m + j
        <4>1. k - m \in 1..n /\ k = m + (k - m)
          BY <2>2
        <4> QED BY <4>1
      <3>2. j - 1 \in 0..n /\ k - 1 = m + (j - 1) /\ j \in 0..n
        BY <3>1
      <3>3. h[k] = Cat(e, pre[j]) /\ h[k - 1] = Cat(e, pre[j - 1])
        BY <1>15, <3>1, <3>2
      <3>4. PICK y \in Items : y = IF mine THEN <<t[j]>> ELSE <<>>
        BY <1>1, ItemSeq, ItemsFacts
      <3>5. pre[j] = Cat(pre[j - 1], y) /\ pre[j - 1] \in Items /\ pst[k].items = y
        BY <1>8, <1>12, <3>1, <3>2, <3>4
      <3>6. Cat(e, Cat(pre[j - 1], y)) = Cat(Cat(e, pre[j - 1]), y)
        <4>1. PICK z \in Items : z = pre[j - 1]
          BY <3>5
        <4> QED BY <4>1, ItemsFacts
      <3> QED BY <3>3, <3>5, <3>6
    <2> QED BY <2>1, <2>2
  <1>17. IsFlat(h, pst)
    BY <1>6, <1>13, <1>14, <1>16 DEF IsFlat
  <1>18. Flat(pst) = h[m + n] /\ Flat(ps) = e
    BY <1>6, <1>9, <1>11, <1>17, FlatIs
  <1>19. Flat(pst) = Cat(e, pre[n])
    BY <1>15, <1>18
  <1>20. CASE mine
    BY <1>2, <1>4, <1>5, <1>12, <1>18, <1>19, <1>20
  <1>21. CASE ~mine
    <2>1. Cat(e, <<>>) = e
      BY ItemsFacts
    <2> QED BY <1>2, <1>4, <1>5, <1>12, <1>18, <1>19, <1>21, <2>1
  <1> QED BY <1>20, <1>21

-----------------------------------------------------------------------------
(* A push into an open buffer.                                             *)

\* The top node of a stack that is not empty, and what is below it.
LEMMA TopAndFront ==
  ASSUME NEW nodes \in Nodes, nodes # <<>>
  PROVE  \E front \in Nodes : /\ nodes = Append(front, nodes[Len(nodes)])
                              /\ Len(nodes) = Len(front) + 1
  <1>1. nodes \in Seq(NodeType)
    BY DEF Nodes
  <1>2. PICK front \in Seq(NodeType), top \in NodeType : nodes = Append(front, top)
    BY <1>1, SequenceEmptyOrAppend
  <1>3. front \in Nodes
    BY DEF Nodes
  <1>4. Len(nodes) = Len(front) + 1 /\ nodes[Len(front) + 1] = top
    BY <1>2, <1>3, NodesAppend
  <1> QED BY <1>2, <1>3, <1>4

LEMMA ItemsAppend ==
  ASSUME NEW s \in Items, NEW x \in ItemType
  PROVE  /\ Append(s, x) \in Items /\ Append(s, x) = Cat(s, <<x>>)
         /\ Len(Append(s, x)) = Len(s) + 1 /\ Append(s, x)[Len(s) + 1] = x
         /\ \A k \in 1..Len(s) : Append(s, x)[k] = s[k]
  <1>1. s \in Seq(ItemType)
    BY DEF Items
  <1>2. Append(s, x) = s \o <<x>>
    BY <1>1, AppendIsConcat
  <1>3. Append(s, x) \in Seq(ItemType) /\ Len(Append(s, x)) = Len(s) + 1
    BY <1>1, AppendProperties
  <1>4. Append(s, x)[Len(s) + 1] = x /\ \A k \in 1..Len(s) : Append(s, x)[k] = s[k]
    BY <1>1, AppendProperties
  <1> QED BY <1>2, <1>3, <1>4 DEF Cat, Items

\* The stack after a push that is not merged.
Extended(s, kind, x) == Append(s, Node(kind, <<x>>))

\* A data push merged into the top node: the items grow at the end.
LEMMA MergeTop ==
  ASSUME NEW b, NEW s \in Nodes, s # <<>>, NEW x \in ItemType, x.buf = b,
         Alternating(s), ItemsOf(b, s),
         NEW t, t = Merged(s, x)
  PROVE  t \in Nodes /\ Alternating(t) /\ ItemsOf(b, t) /\ Flat(t) = Cat(Flat(s), <<x>>)
  <1>1. PICK front \in Nodes : s = Append(front, s[Len(s)]) /\ Len(s) = Len(front) + 1
    BY TopAndFront
  <1>2. PICK len \in Nat : len = Len(front) /\ Len(s) = len + 1
    BY <1>1, NodesFacts
  <1>3. PICK top \in NodeType : top = s[len + 1]
    BY <1>2, NodesFacts
  <1>4. PICK items \in Items : items = top.items
    BY DEF NodeType
  <1>5. PICK grown \in Items : grown = Append(items, x) /\ grown = Cat(items, <<x>>)
    BY ItemsAppend
  <1>6. PICK top2 \in NodeType : top2 = [top EXCEPT !.items = grown]
    BY DEF NodeType
  <1>7. top2.items = grown /\ top2.kind = top.kind
    BY <1>6 DEF NodeType
  <1>8. PICK u \in Nodes : u = Append(front, top2)
    BY NodesAppend
  <1>9. /\ Len(u) = len + 1 /\ u[len + 1] = top2 /\ DOMAIN u = 1..len + 1
        /\ \A k \in 1..len : u[k] = front[k]
    BY <1>2, <1>8, NodesAppend, NodesFacts
  <1>10. DOMAIN s = 1..len + 1 /\ \A k \in 1..len : s[k] = front[k]
    <2>1. s = Append(front, top)
      BY <1>1, <1>2, <1>3
    <2>2. \A k \in 1..len : Append(front, top)[k] = front[k]
      BY <1>2, NodesAppend
    <2>3. DOMAIN s = 1..len + 1
      BY <1>2, NodesFacts
    <2> QED BY <2>1, <2>2, <2>3
  <1>11. t = u
    <2>1. t = [s EXCEPT ![len + 1] = top2]
      BY <1>2, <1>3, <1>4, <1>5, <1>6 DEF Merged
    <2>2. t = [k \in 1..len + 1 |-> IF k = len + 1 THEN top2 ELSE s[k]]
      BY <1>10, <2>1
    <2>3. u = [k \in 1..len + 1 |-> u[k]]
      BY <1>9, NodesFacts DEF Nodes
    <2>4. \A k \in 1..len + 1 : u[k] = IF k = len + 1 THEN top2 ELSE s[k]
      BY <1>9, <1>10
    <2> QED BY <2>2, <2>3, <2>4
  <1>12. \A k \in 1..len + 1 : u[k].kind = s[k].kind
    BY <1>3, <1>7, <1>9, <1>10
  <1>13. Alternating(u)
    BY <1>2, <1>9, <1>12 DEF Alternating
  <1>14. ItemsOf(b, u)
    <2> SUFFICES ASSUME NEW k \in 1..len + 1, NEW j \in 1..Len(u[k].items)
                 PROVE  u[k].items[j].buf = b
      BY <1>9 DEF ItemsOf
    <2>1. CASE k <= len
      <3>1. u[k] = s[k]
        BY <1>9, <1>10, <2>1
      <3> QED BY <1>2, <3>1 DEF ItemsOf
    <2>2. CASE k = len + 1
      <3>1. u[k].items = grown /\ \A i \in 1..Len(items) : items[i].buf = b
        BY <1>2, <1>3, <1>4, <1>7, <1>9, <2>2 DEF ItemsOf
      <3>2. grown[j].buf = b
        <4>1. PICK n \in Nat : n = Len(items)
          BY ItemSeq
        <4>2. Len(grown) = n + 1 /\ grown[n + 1] = x /\ \A i \in 1..n : grown[i] = items[i]
          BY <1>5, <4>1, ItemsAppend
        <4>3. j \in 1..n + 1
          BY <3>1, <4>2
        <4>4. CASE j \in 1..n
          BY <3>1, <4>1, <4>2, <4>4
        <4>5. CASE j = n + 1
          BY <4>2, <4>5
        <4> QED BY <4>3, <4>4, <4>5
      <3> QED BY <3>1, <3>2
    <2> QED BY <2>1, <2>2
  <1>15. Flat(s) = Cat(Flat(front), items) /\ Flat(front) \in Items
    BY <1>1, <1>2, <1>3, <1>4, FlatSnoc
  <1>16. Flat(u) = Cat(Flat(front), grown)
    BY <1>7, <1>8, FlatSnoc
  <1>17. <<x>> \in Items
    BY DEF Items
  <1>18. Cat(Flat(front), Cat(items, <<x>>)) = Cat(Cat(Flat(front), items), <<x>>)
    <2>1. PICK y \in Items, z \in Items : y = Flat(front) /\ z = <<x>>
      BY <1>15, <1>17
    <2> QED BY <2>1, ItemsFacts
  <1> QED BY <1>5, <1>11, <1>13, <1>14, <1>15, <1>16, <1>18

\* A push that adds a node of another kind than the top one.
LEMMA PushNode ==
  ASSUME NEW b, NEW s \in Nodes, NEW x \in ItemType, x.buf = b, NEW kind \in Kinds,
         s # <<>> => s[Len(s)].kind # kind, Alternating(s), ItemsOf(b, s),
         NEW t, t = Extended(s, kind, x)
  PROVE  t \in Nodes /\ Alternating(t) /\ ItemsOf(b, t) /\ Flat(t) = Cat(Flat(s), <<x>>)
  <1>1. PICK one \in Items : one = <<x>> /\ Len(one) = 1 /\ one[1] = x
    <2>1. <<x>> \in Items
      BY DEF Items
    <2>2. Len(<<x>>) = 1 /\ <<x>>[1] = x
      OBVIOUS
    <2> QED BY <2>1, <2>2
  <1>2. PICK node \in NodeType : node = Node(kind, <<x>>)
    BY <1>1 DEF Node, NodeType
  <1>3. node.items = one /\ node.kind = kind
    BY <1>1, <1>2 DEF Node
  <1>4. PICK len \in Nat : len = Len(s) /\ (s # <<>> <=> len # 0)
    BY NodesFacts
  <1>5. t \in Nodes /\ Len(t) = len + 1 /\ t[len + 1] = node /\ \A k \in 1..len : t[k] = s[k]
    BY <1>2, <1>4, NodesAppend DEF Extended
  <1>6. Alternating(t)
    <2> SUFFICES ASSUME NEW k \in 1..len PROVE t[k].kind # t[k + 1].kind
      BY <1>5 DEF Alternating
    <2>1. CASE k < len
      <3>1. k \in 1..Len(s) - 1 /\ k + 1 \in 1..len
        BY <1>4, <2>1
      <3> QED BY <1>5, <3>1 DEF Alternating
    <2>2. CASE k = len
      BY <1>3, <1>4, <1>5, <2>2
    <2>3. k < len \/ k = len
      OBVIOUS
    <2> QED BY <2>1, <2>2, <2>3
  <1>7. ItemsOf(b, t)
    <2> SUFFICES ASSUME NEW k \in 1..len + 1, NEW j \in 1..Len(t[k].items)
                 PROVE  t[k].items[j].buf = b
      BY <1>5 DEF ItemsOf
    <2>1. CASE k <= len
      <3>1. t[k] = s[k]
        BY <1>5, <2>1
      <3> QED BY <1>4, <2>1, <3>1 DEF ItemsOf
    <2>2. CASE k = len + 1
      BY <1>1, <1>3, <1>5, <2>2
    <2>3. k <= len \/ k = len + 1
      OBVIOUS
    <2> QED BY <2>1, <2>2, <2>3
  <1>8. Flat(t) = Cat(Flat(s), one)
    BY <1>2, <1>3, FlatSnoc DEF Extended
  <1> QED BY <1>1, <1>5, <1>6, <1>7, <1>8

\* What a push does: it adds the writer's item at the end of what the buffer holds,
\* or it is a checkpoint right after another and does nothing.
Added(b, w, x, t) ==
  /\ x = Item(w, b)
  /\ pushed' = [pushed EXCEPT ![b] = Append(@, x)]
  /\ stack' = [stack EXCEPT ![b] = t]
  /\ Alternating(t) /\ ItemsOf(b, t) /\ Flat(t) = Cat(Flat(stack[b]), <<x>>)

Skipped(w) == UNCHANGED <<stack, pushed>> /\ Plan[w][at[w]] # "data"

LEMMA PushOutcome ==
  ASSUME Types, Contents, NEW w \in Writers, NEW b \in Buffer, at[w] <= Len(Plan[w]), Push(b, w)
  PROVE  Skipped(w) \/ \E x \in ItemType : \E t \in Nodes : Added(b, w, x, t)
  <1>1. PICK kind \in Kinds : kind = Plan[w][at[w]]
    BY AsyncBufferAssumption DEF Types, Kinds
  <1>2. PICK x \in ItemType : x = Item(w, b)
    <2>1. at[w] \in Nat
      BY DEF Types
    <2> QED BY <1>1, <2>1 DEF Item, ItemType
  <1>3. x.buf = b
    BY <1>2 DEF Item
  <1>4. PICK s \in Nodes : s = stack[b]
    BY DEF Types
  <1>5. Alternating(s) /\ ItemsOf(b, s)
    BY <1>4 DEF Types, TypeOK, Contents, BufferOK, Alternating
  <1>6. /\ DOMAIN stack = Buffer /\ DOMAIN pushed = Buffer
    BY DEF Types
  <1>7. CASE kind = "data" /\ s # <<>> /\ s[Len(s)].kind = "data"
    <2>1. PICK t : t = Merged(s, x)
      OBVIOUS
    <2>2. t \in Nodes /\ Alternating(t) /\ ItemsOf(b, t) /\ Flat(t) = Cat(Flat(s), <<x>>)
      BY <1>3, <1>5, <1>7, <2>1, MergeTop
    <2>3. PushData(b, x)
      BY <1>1, <1>2, <1>7 DEF Push
    <2>4. pushed' = [pushed EXCEPT ![b] = Append(@, x)]
      BY <2>3 DEF PushData
    <2>5. stack' = [stack EXCEPT ![b] = t]
      BY <1>4, <1>7, <2>1, <2>3 DEF PushData, Top
    <2> QED BY <1>2, <1>4, <2>2, <2>4, <2>5 DEF Added
  <1>8. CASE kind = "data" /\ ~(s # <<>> /\ s[Len(s)].kind = "data")
    <2>1. PICK t : t = Extended(s, "data", x)
      OBVIOUS
    <2>2. t \in Nodes /\ Alternating(t) /\ ItemsOf(b, t) /\ Flat(t) = Cat(Flat(s), <<x>>)
      BY <1>3, <1>5, <1>8, <2>1, PushNode DEF Kinds
    <2>3. PushData(b, x)
      BY <1>1, <1>2, <1>8 DEF Push
    <2>4. /\ pushed' = [pushed EXCEPT ![b] = Append(@, x)]
          /\ stack' = [stack EXCEPT ![b] = t]
      BY <1>4, <1>6, <1>8, <2>1, <2>3 DEF PushData, Top, Merged, Extended
    <2> QED BY <1>2, <1>4, <2>2, <2>4 DEF Added
  <1>9. CASE kind # "data" /\ s # <<>> /\ s[Len(s)].kind = "checkpoint"
    <2>1. PushCheckpoint(b, x)
      BY <1>1, <1>2, <1>9 DEF Push
    <2> QED BY <1>1, <1>4, <1>9, <2>1 DEF PushCheckpoint, Top, Skipped
  <1>10. CASE kind # "data" /\ ~(s # <<>> /\ s[Len(s)].kind = "checkpoint")
    <2>1. PICK t : t = Extended(s, "checkpoint", x)
      OBVIOUS
    <2>2. t \in Nodes /\ Alternating(t) /\ ItemsOf(b, t) /\ Flat(t) = Cat(Flat(s), <<x>>)
      BY <1>3, <1>5, <1>10, <2>1, PushNode DEF Kinds
    <2>3. PushCheckpoint(b, x)
      BY <1>1, <1>2, <1>10 DEF Push
    <2>4. /\ pushed' = [pushed EXCEPT ![b] = Append(@, x)]
          /\ stack' = [stack EXCEPT ![b] = t]
      BY <1>4, <1>6, <1>10, <2>1, <2>3 DEF PushCheckpoint, Top, Extended
    <2> QED BY <1>2, <1>4, <2>2, <2>4 DEF Added
  <1> QED BY <1>7, <1>8, <1>9, <1>10

-----------------------------------------------------------------------------
(* Types and control.                                                      *)

LEMMA InitTypes == Init => Types /\ Control /\ OpenBufferRegistered /\ Contents
  <1> SUFFICES ASSUME Init PROVE Types /\ Control /\ OpenBufferRegistered /\ Contents
    OBVIOUS
  <1>1. <<>> \in Nodes /\ <<>> \in Items /\ Len(<<>>) = 0
    BY DEF Nodes, Items
  <1>2. TypeOK
    <2>1. \A b \in Buffer : \A i \in 1..Len(stack[b]) - 1 : FALSE
      BY <1>1 DEF Init
    <2>2. \A b \in Buffer : \A i \in 1..Len(stack[b]) - 1 : stack[b][i].kind # stack[b][i + 1].kind
      BY <2>1
    <2>3. /\ slot \in 0..used /\ used \in 0..MaxBuffers
          /\ wbuf \in [Writers -> 0..MaxBuffers] /\ cbuf \in 0..MaxBuffers
      BY AsyncBufferAssumption DEF Init
    <2> QED BY <2>2, <2>3 DEF Init, TypeOK
  <1>3. Types
    BY <1>1, <1>2 DEF Init, Types
  <1>4. Control
    BY AsyncBufferAssumption DEF Init, Control, Buffer
  <1>5. OpenBufferRegistered
    BY DEF Init, OpenBufferRegistered
  <1>6. Contents
    BY <1>1 DEF Init, Contents, BufferOK, Returned, ItemsOf
  <1> QED BY <1>3, <1>4, <1>5, <1>6

\* What the steps of the goroutines need to know and keep.
Base == Types /\ Control /\ OpenBufferRegistered /\ Contents

LEMMA LoadSlotBase ==
  ASSUME Base, NEW w \in Writers, LoadSlot(w)
  PROVE  Base'
  <1>1. Types'
    BY AsyncBufferAssumption DEF Base, Types, TypeOK, LoadSlot, bufVars, closeVars, Buffer
  <1>2. Control'
    BY AsyncBufferAssumption
    DEF Base, Types, TypeOK, Control, LoadSlot, bufVars, closeVars, Buffer
  <1>3. OpenBufferRegistered'
    BY DEF Base, OpenBufferRegistered, LoadSlot, bufVars
  <1>4. Contents'
    BY DEF Base, Contents, LoadSlot, bufVars
  <1> QED BY <1>1, <1>2, <1>3, <1>4 DEF Base

LEMMA RetryBase ==
  ASSUME Base, NEW w \in Writers, wpc[w] # "load",
         wpc' = [wpc EXCEPT ![w] = "load"], UNCHANGED <<bufVars, wbuf, at, closeVars, wal, pushed, lost>>
  PROVE  Base'
  <1>1. Types'
    BY AsyncBufferAssumption DEF Base, Types, TypeOK, bufVars, closeVars, Buffer
  <1>2. Control'
    BY AsyncBufferAssumption
    DEF Base, Types, TypeOK, Control, bufVars, closeVars, Buffer
  <1>3. OpenBufferRegistered'
    BY DEF Base, OpenBufferRegistered, bufVars
  <1>4. Contents'
    BY DEF Base, Contents, bufVars
  <1> QED BY <1>1, <1>2, <1>3, <1>4 DEF Base

LEMMA InstallBase ==
  ASSUME Base, NEW w \in Writers, Install(w)
  PROVE  Base'
  <1>1. CASE slot # 0
    <2>1. /\ wpc[w] # "load" /\ wpc' = [wpc EXCEPT ![w] = "load"]
          /\ UNCHANGED <<bufVars, wbuf, at, closeVars, wal, pushed, lost>>
      BY <1>1 DEF Install, bufVars
    <2> QED BY <2>1, RetryBase
  <1>2. CASE slot = 0
    <2>0. /\ used < MaxBuffers /\ used' = used + 1 /\ slot' = used + 1
          /\ used + 1 \in Buffer /\ bpc' = [bpc EXCEPT ![used + 1] = "select"]
          /\ wbuf' = [wbuf EXCEPT ![w] = used + 1] /\ wpc' = [wpc EXCEPT ![w] = "first"]
      BY <1>2, AsyncBufferAssumption DEF Base, Types, TypeOK, Install, Buffer
    <2>1. Types'
      BY <1>2, <2>0, AsyncBufferAssumption
      DEF Base, Types, TypeOK, Install, closeVars, Buffer
    <2>2. Control'
      <3>1. UNCHANGED <<cpc, cbuf>>
        BY DEF Install, closeVars
      <3>3. bpc[used + 1] = "unborn" /\ closed' = closed /\ at' = at
        BY <2>0, AsyncBufferAssumption DEF Base, Control, Install, Buffer, Types, TypeOK
      <3>4. \A b \in Buffer : bpc'[b] = IF b = used + 1 THEN "select" ELSE bpc[b]
        BY <2>0 DEF Base, Types, TypeOK
      <3>5. \A v \in Writers : wpc'[v] # "load" => at'[v] <= Len(Plan[v])
        BY <2>0, <3>3 DEF Base, Types, TypeOK, Control, Install
      <3>6. \A v \in Writers : wpc'[v] \in {"push", "first"} => wbuf'[v] \in 1..used'
        BY <2>0, AsyncBufferAssumption DEF Base, Types, TypeOK, Control
      <3>8. \A b \in Buffer : bpc'[b] = "unborn" <=> b > used'
        BY <2>0, <3>4, AsyncBufferAssumption DEF Base, Types, TypeOK, Control, Buffer
      <3>9. \A b \in Buffer : closed'[b] <=> bpc'[b] \in {"unregister", "drain", "exited"}
        BY <3>3, <3>4 DEF Base, Control
      <3> QED BY <3>1, <3>5, <3>6, <3>8, <3>9 DEF Base, Control
    <2>3. OpenBufferRegistered'
      <3>1. \A b \in 1..used : closed[b]
        BY <1>2, AsyncBufferAssumption DEF Base, OpenBufferRegistered, Types, TypeOK
      <3> QED BY <2>0, <3>1, AsyncBufferAssumption
          DEF OpenBufferRegistered, Install, Base, Types, TypeOK
    <2>4. Contents'
      <3>1. bpc[used + 1] = "unborn"
        BY <2>0, AsyncBufferAssumption DEF Base, Control, Buffer, Types, TypeOK
      <3>2. \A b \in Buffer : bpc'[b] = IF b = used + 1 THEN "select" ELSE bpc[b]
        BY <2>0 DEF Base, Types, TypeOK
      <3> QED BY <3>1, <3>2 DEF Base, Contents, BufferOK, Install
    <2> QED BY <2>1, <2>2, <2>3, <2>4 DEF Base
  <1> QED BY <1>1, <1>2

LEMMA TickBase ==
  ASSUME Base, NEW b \in Buffer, Tick(b)
  PROVE  Base'
  <1>0. /\ stack' = [stack EXCEPT ![b] = <<>>] /\ snapshot' = [snapshot EXCEPT ![b] = stack[b]]
        /\ bpc' = [bpc EXCEPT ![b] = "flush"] /\ bpc[b] = "select"
        /\ <<>> \in Nodes /\ Len(<<>>) = 0
    BY DEF Tick, Goto, Nodes
  <1>1. Types'
    BY <1>0, AsyncBufferAssumption
    DEF Base, Types, TypeOK, Tick, writerVars, closeVars, Buffer
  <1>2. Control'
    BY <1>0, AsyncBufferAssumption
    DEF Base, Types, TypeOK, Control, Tick, writerVars, closeVars, Buffer
  <1>3. OpenBufferRegistered'
    BY DEF Base, OpenBufferRegistered, Tick
  <1>4. Contents'
    BY <1>0 DEF Base, Types, TypeOK, Contents, BufferOK, Tick, writerVars
  <1> QED BY <1>1, <1>2, <1>3, <1>4 DEF Base

LEMMA WriteNodeBase ==
  ASSUME Base, NEW b \in Buffer, WriteNode(b)
  PROVE  Base'
  <1>0. PICK nodes \in Nodes : nodes = snapshot[b] /\ nodes # <<>>
    BY DEF Base, Types, WriteNode
  <1>1. /\ Tail(nodes) \in Nodes /\ Head(nodes).items \in Items
        /\ snapshot' = [snapshot EXCEPT ![b] = Tail(nodes)]
    BY <1>0, NodesTail, FlatCons DEF WriteNode
  <1>2. wal' \in Items
    <2>1. wal' = wal \/ wal' = Cat(wal, Head(nodes).items)
      BY <1>0 DEF WriteNode, Cat
    <2>2. PICK y \in Items : y = Head(nodes).items
      BY <1>1
    <2>3. wal \in Items /\ Cat(wal, y) \in Items
      BY ItemsFacts DEF Base, Types
    <2> QED BY <2>1, <2>2, <2>3
  <1>3. Types'
    <2>1. TypeOK'
      BY DEF Base, Types, TypeOK, WriteNode, writerVars, closeVars
    <2>2. snapshot' \in [Buffer -> Nodes] /\ UNCHANGED <<stack, pushed, at, lost>>
      BY <1>1 DEF Base, Types, WriteNode, writerVars
    <2> QED BY <1>2, <2>1, <2>2 DEF Base, Types
  <1>4. Control'
    BY AsyncBufferAssumption
    DEF Base, Types, TypeOK, Control, WriteNode, writerVars, closeVars, Buffer
  <1>5. OpenBufferRegistered'
    BY DEF Base, OpenBufferRegistered, WriteNode
  <1>6. ItemsOf(b, Tail(nodes))
    <2>1. PICK rest \in Nodes : rest = Tail(nodes)
      BY <1>1
    <2>2. PICK len \in Nat : Len(rest) = len /\ Len(nodes) = len + 1
      <3>1. Len(nodes) \in Nat /\ Len(rest) \in Nat /\ Len(rest) = Len(nodes) - 1
        BY <1>0, <2>1, NodesFacts, NodesTail
      <3> QED BY <3>1
    <2>3. \A k \in 1..len : rest[k] = nodes[k + 1]
      BY <1>0, <2>1, <2>2, NodesTail
    <2>4. \A k \in 1..len + 1 : \A j \in 1..Len(nodes[k].items) : nodes[k].items[j].buf = b
      <3>1. ItemsOf(b, nodes)
        BY <1>0 DEF Base, Contents, BufferOK
      <3> QED BY <2>2, <3>1 DEF ItemsOf
    <2>5. ASSUME NEW k \in 1..len PROVE \A j \in 1..Len(rest[k].items) : rest[k].items[j].buf = b
      <3>1. k + 1 \in 1..len + 1
        OBVIOUS
      <3> QED BY <2>3, <2>4, <3>1
    <2> QED BY <2>1, <2>2, <2>5 DEF ItemsOf
  <1>7. \A c \in Buffer : snapshot'[c] = IF c = b THEN Tail(nodes) ELSE snapshot[c]
    BY <1>1 DEF Base, Types
  <1>8. Contents'
    <2>1. UNCHANGED <<stack, pushed, at, bpc, lost>> /\ bpc[b] \in {"flush", "drain"}
      BY DEF WriteNode, writerVars
    <2>2. ASSUME NEW c \in Buffer
          PROVE  BufferOK(c, stack'[c], snapshot'[c], bpc'[c]) /\ Returned(pushed'[c], at')
      <3>1. CASE c = b
        BY <1>6, <1>7, <2>1, <3>1 DEF Base, Contents, BufferOK
      <3>2. CASE c # b
        BY <1>7, <2>1, <3>2 DEF Base, Contents
      <3> QED BY <3>1, <3>2
    <2> QED BY <2>1, <2>2 DEF Base, Contents
  <1> QED BY <1>3, <1>4, <1>5, <1>8 DEF Base

LEMMA WriteDoneBase ==
  ASSUME Base, NEW b \in Buffer, WriteDone(b)
  PROVE  Base'
  <1>0. PICK pc \in {"select", "exited"} :
          /\ bpc' = [bpc EXCEPT ![b] = pc] /\ (pc = "select" <=> bpc[b] = "flush")
          /\ bpc[b] \in {"flush", "drain"} /\ snapshot[b] = <<>>
          /\ drainDone' \in [Buffer -> BOOLEAN]
    BY DEF WriteDone, Goto, Base, Types, TypeOK
  <1>1. Types'
    BY <1>0, AsyncBufferAssumption
    DEF Base, Types, TypeOK, WriteDone, writerVars, closeVars, Buffer
  <1>2. Control'
    <2>1. UNCHANGED <<wpc, at, wbuf, used, closed, done, cpc, cbuf>>
      BY DEF WriteDone, writerVars, closeVars
    <2>2. \A c \in Buffer : bpc'[c] = IF c = b THEN pc ELSE bpc[c]
      BY <1>0 DEF Base, Types, TypeOK
    <2>5. \A c \in Buffer : bpc'[c] = "unborn" <=> c > used
      BY <1>0, <2>2 DEF Base, Control
    <2>6. \A c \in Buffer : closed[c] <=> bpc'[c] \in {"unregister", "drain", "exited"}
      BY <1>0, <2>2 DEF Base, Control
    <2> QED BY <2>1, <2>5, <2>6 DEF Base, Control
  <1>3. OpenBufferRegistered'
    BY DEF Base, OpenBufferRegistered, WriteDone
  <1>4. Contents'
    BY <1>0 DEF Base, Types, TypeOK, Contents, BufferOK, WriteDone, writerVars
  <1> QED BY <1>1, <1>2, <1>3, <1>4 DEF Base

LEMMA StopRunningBase ==
  ASSUME Base, NEW b \in Buffer, StopRunning(b)
  PROVE  Base'
  <1>0. bpc' = [bpc EXCEPT ![b] = "close"] /\ bpc[b] = "select"
    BY DEF StopRunning, Goto
  <1>1. Types'
    BY <1>0, AsyncBufferAssumption
    DEF Base, Types, TypeOK, StopRunning, writerVars, closeVars, Buffer
  <1>3. Control'
    BY <1>0, AsyncBufferAssumption
    DEF Base, Types, TypeOK, Control, StopRunning, writerVars, closeVars, Buffer
  <1>4. OpenBufferRegistered'
    BY DEF Base, OpenBufferRegistered, StopRunning
  <1>5. Contents'
    BY <1>0 DEF Base, Types, TypeOK, Contents, BufferOK, StopRunning, writerVars
  <1> QED BY <1>1, <1>3, <1>4, <1>5 DEF Base

LEMMA CloseBufferBase ==
  ASSUME Base, NEW b \in Buffer, CloseBuffer(b)
  PROVE  Base'
  <1>0. /\ stack' = [stack EXCEPT ![b] = <<>>] /\ snapshot' = [snapshot EXCEPT ![b] = stack[b]]
        /\ bpc' = [bpc EXCEPT ![b] = "unregister"] /\ bpc[b] = "close"
        /\ closed' = [closed EXCEPT ![b] = TRUE]
        /\ <<>> \in Nodes /\ Len(<<>>) = 0
    BY DEF CloseBuffer, Goto, Nodes
  <1>1. Types'
    BY <1>0, AsyncBufferAssumption
    DEF Base, Types, TypeOK, CloseBuffer, writerVars, closeVars, Buffer
  <1>2. Control'
    BY <1>0, AsyncBufferAssumption
    DEF Base, Types, TypeOK, Control, CloseBuffer, writerVars, closeVars, Buffer
  <1>3. OpenBufferRegistered'
    BY <1>0 DEF Base, Types, TypeOK, OpenBufferRegistered, CloseBuffer, Buffer
  <1>4. Contents'
    BY <1>0 DEF Base, Types, TypeOK, Contents, BufferOK, CloseBuffer, writerVars
  <1> QED BY <1>1, <1>2, <1>3, <1>4 DEF Base

LEMMA UnregisterBase ==
  ASSUME Base, NEW b \in Buffer, Unregister(b)
  PROVE  Base'
  <1>0. bpc' = [bpc EXCEPT ![b] = "drain"] /\ bpc[b] = "unregister"
    BY DEF Unregister, Goto
  <1>1. Types'
    BY <1>0, AsyncBufferAssumption
    DEF Base, Types, TypeOK, Unregister, writerVars, closeVars, Buffer
  <1>2. Control'
    BY <1>0, AsyncBufferAssumption
    DEF Base, Types, TypeOK, Control, Unregister, writerVars, closeVars, Buffer
  <1>3. OpenBufferRegistered'
    <2>1. closed[b]
      BY <1>0 DEF Base, Control
    <2> QED BY <2>1 DEF Base, OpenBufferRegistered, Unregister
  <1>4. Contents'
    BY <1>0 DEF Base, Types, TypeOK, Contents, BufferOK, Unregister, writerVars
  <1> QED BY <1>1, <1>2, <1>3, <1>4 DEF Base

LEMMA ClosingBase ==
  ASSUME Base, Closing
  PROVE  Base'
  <1>1. CASE DrainAsyncBuffer
    <2>1. Types'
      <3>1. slot \in 0..MaxBuffers /\ cbuf' \in 0..MaxBuffers
        BY <1>1, AsyncBufferAssumption DEF Base, Types, TypeOK, DrainAsyncBuffer
      <3>2. done' \in [Buffer -> BOOLEAN] /\ cpc' \in {"waiting", "drained"}
        BY <1>1 DEF Base, Types, TypeOK, DrainAsyncBuffer
      <3>3. UNCHANGED <<slot, used, stack, closed, drainDone, bpc, snapshot, wpc, wbuf, at,
                        walClosed, wal, pushed, lost>>
        BY <1>1 DEF DrainAsyncBuffer, writerVars
      <3>4. TypeOK'
        BY <3>1, <3>2, <3>3 DEF Base, Types, TypeOK
      <3> QED BY <3>3, <3>4 DEF Base, Types
    <2>2. Control'
      <3>2. cpc' = "waiting" => cbuf' # 0
        BY <1>1 DEF DrainAsyncBuffer
      <3>3. UNCHANGED <<wpc, at, wbuf, used, closed, bpc>>
        BY <1>1 DEF DrainAsyncBuffer, writerVars
      <3> QED BY <3>2, <3>3 DEF Base, Control
    <2>3. OpenBufferRegistered'
      BY <1>1 DEF Base, OpenBufferRegistered, DrainAsyncBuffer
    <2>4. Contents'
      BY <1>1 DEF Base, Contents, DrainAsyncBuffer, writerVars
    <2> QED BY <2>1, <2>2, <2>3, <2>4 DEF Base
  <1>2. CASE Drained \/ DrainReturns \/ CloseLog
    <2>1. Types'
      BY <1>2 DEF Base, Types, TypeOK, Drained, DrainReturns, CloseLog, bufVars, writerVars
    <2>2. Control'
      BY <1>2
      DEF Base, Types, TypeOK, Control, Drained, DrainReturns, CloseLog, bufVars, writerVars
    <2>3. OpenBufferRegistered'
      BY <1>2 DEF Base, OpenBufferRegistered, Drained, DrainReturns, CloseLog, bufVars
    <2>4. Contents'
      BY <1>2 DEF Base, Contents, Drained, DrainReturns, CloseLog, bufVars, writerVars
    <2> QED BY <2>1, <2>2, <2>3, <2>4 DEF Base
  <1> QED BY <1>1, <1>2 DEF Closing

\* The push of PushLoaded and of PushFirst, into a buffer that accepts it.
PushStep(w) ==
  /\ wpc[w] \in {"push", "first"} /\ ~closed[wbuf[w]]
  /\ Push(wbuf[w], w) /\ Returns(w)
  /\ UNCHANGED <<slot, used, closed, done, drainDone, bpc, snapshot, wbuf, closeVars, wal,
                 lost>>

\* The first push into a buffer that has closed: the call returns, the item is lost.
LostStep(w) ==
  /\ wpc[w] = "first" /\ Returns(w)
  /\ lost' = lost \cup {Item(w, wbuf[w])}
  /\ UNCHANGED <<slot, used, stack, closed, done, drainDone, bpc, snapshot, wbuf, closeVars,
                 wal, pushed>>

LEMMA FirstPush ==
  ASSUME NEW w \in Writers, PushFirst(w)
  PROVE  PushStep(w) \/ LostStep(w)
  BY DEF PushFirst, PushStep, LostStep

LEMMA PushStepFacts ==
  ASSUME Base, NEW w \in Writers, PushStep(w)
  PROVE  \E b \in Buffer :
           /\ b = wbuf[w] /\ at[w] \in Nat \ {0} /\ at[w] <= Len(Plan[w])
           /\ Skipped(w) \/ \E x \in ItemType : \E t \in Nodes : Added(b, w, x, t)
  <1>1. wbuf[w] \in Buffer /\ at[w] <= Len(Plan[w])
    BY AsyncBufferAssumption DEF PushStep, Base, Control, Types, TypeOK, Buffer
  <1>2. PICK b \in Buffer : b = wbuf[w]
    BY <1>1
  <1>3. at[w] \in Nat \ {0}
    BY DEF Base, Types
  <1>4. Skipped(w) \/ \E x \in ItemType : \E t \in Nodes : Added(b, w, x, t)
    BY <1>1, <1>2, PushOutcome DEF PushStep, Base
  <1> QED BY <1>1, <1>2, <1>3, <1>4

\* What was lost stays the item of a call that has returned.
LEMMA LaterReturn ==
  ASSUME Base, NEW w \in Writers, at[w] \in Nat,
         \A v \in Writers : at'[v] = IF v = w THEN at[w] + 1 ELSE at[v]
  PROVE  \A x \in lost : x.n < at'[x.by]
  <1> SUFFICES ASSUME NEW x \in lost PROVE x.n < at'[x.by]
    OBVIOUS
  <1>1. x \in ItemType /\ x.n < at[x.by]
    BY DEF Base, Types, Contents
  <1>2. x.n \in Nat /\ x.by \in Writers
    BY <1>1 DEF ItemType
  <1>3. at[x.by] \in Nat
    BY <1>2 DEF Base, Types
  <1> QED BY <1>1, <1>2, <1>3

LEMMA PushBase ==
  ASSUME Base, NEW w \in Writers, PushStep(w)
  PROVE  Base'
  <1>1. PICK b \in Buffer :
          /\ b = wbuf[w] /\ at[w] \in Nat \ {0} /\ at[w] <= Len(Plan[w])
          /\ Skipped(w) \/ \E x \in ItemType : \E t \in Nodes : Added(b, w, x, t)
    BY PushStepFacts
  <1>2. /\ UNCHANGED <<slot, used, closed, done, drainDone, bpc, snapshot, wbuf,
                        cpc, cbuf, walClosed, wal, lost>>
        /\ at' = [at EXCEPT ![w] = @ + 1] /\ wpc' = [wpc EXCEPT ![w] = "load"]
    BY DEF PushStep, Returns, closeVars
  <1>3. /\ at' \in [Writers -> Nat \ {0}]
        /\ \A v \in Writers : at'[v] = IF v = w THEN at[w] + 1 ELSE at[v]
    BY <1>1, <1>2 DEF Base, Types
  <1>4. /\ stack' \in [Buffer -> Nodes] /\ pushed' \in [Buffer -> Items]
        /\ \A c \in Buffer : /\ Alternating(stack'[c]) /\ ItemsOf(c, stack'[c])
                              /\ Returned(pushed'[c], at')
    <2>1. /\ stack \in [Buffer -> Nodes] /\ pushed \in [Buffer -> Items]
          /\ \A c \in Buffer : /\ Alternating(stack[c]) /\ ItemsOf(c, stack[c])
                                /\ Returned(pushed[c], at)
      BY DEF Base, Types, TypeOK, Contents, BufferOK, Alternating
    <2>2. ASSUME NEW s \in Items, Returned(s, at) PROVE Returned(s, at')
      <3> SUFFICES ASSUME NEW i \in 1..Len(s) PROVE s[i].n < at'[s[i].by]
        BY DEF Returned
      <3>1. s[i] \in ItemType /\ s[i].n < at[s[i].by]
        BY <2>2, ItemSeq DEF Returned
      <3>2. s[i].n \in Nat /\ s[i].by \in Writers
        BY <3>1 DEF ItemType
      <3>3. at[s[i].by] \in Nat
        BY <3>2 DEF Base, Types
      <3> QED BY <1>1, <1>3, <3>1, <3>2, <3>3
    <2>3. CASE Skipped(w)
      BY <2>1, <2>2, <2>3 DEF Skipped
    <2>4. CASE ~Skipped(w)
      <3>1. PICK x \in ItemType, t \in Nodes : Added(b, w, x, t)
        <4>1. PICK x \in ItemType : \E t \in Nodes : Added(b, w, x, t)
          BY <1>1, <2>4
        <4>2. PICK t \in Nodes : Added(b, w, x, t)
          BY <4>1
        <4> QED BY <4>2
      <3>2. /\ stack' = [stack EXCEPT ![b] = t] /\ Alternating(t) /\ ItemsOf(b, t)
            /\ pushed' = [pushed EXCEPT ![b] = Append(pushed[b], x)]
            /\ x.by = w /\ x.n = at[w]
        BY <3>1 DEF Added, Item
      <3>3. PICK s \in Items : s = pushed[b] /\ Returned(s, at')
        BY <2>1, <2>2
      <3>4. PICK more \in Items : more = Append(s, x) /\ Returned(more, at')
        <4>1. PICK more \in Items : more = Append(s, x)
          BY ItemsAppend
        <4>2. PICK n \in Nat : n = Len(s)
          BY ItemSeq
        <4>3. Len(more) = n + 1 /\ more[n + 1] = x /\ \A k \in 1..n : more[k] = s[k]
          BY <4>1, <4>2, ItemsAppend
        <4>4. \A k \in 1..n : more[k].n < at'[more[k].by]
          BY <3>3, <4>2, <4>3 DEF Returned
        <4>5. more[n + 1].n < at'[more[n + 1].by]
          BY <1>1, <1>3, <3>2, <4>3
        <4>6. \A k \in 1..n + 1 : k \in 1..n \/ k = n + 1
          OBVIOUS
        <4> QED BY <4>1, <4>3, <4>4, <4>5, <4>6 DEF Returned
      <3>5. stack' \in [Buffer -> Nodes] /\ pushed' \in [Buffer -> Items]
        BY <2>1, <3>2, <3>3, <3>4
      <3>6. \A c \in Buffer : /\ stack'[c] = IF c = b THEN t ELSE stack[c]
                              /\ pushed'[c] = IF c = b THEN more ELSE pushed[c]
        BY <2>1, <3>2, <3>3, <3>4
      <3>7. \A c \in Buffer : pushed[c] \in Items
        BY <2>1
      <3> QED BY <2>1, <2>2, <3>2, <3>4, <3>5, <3>6, <3>7
    <2> QED BY <2>3, <2>4
  <1>5. TypeOK'
    <2>1. \A c \in Buffer : \A i \in 1..Len(stack'[c]) - 1 : stack'[c][i].kind # stack'[c][i + 1].kind
      BY <1>4 DEF Alternating
    <2> QED BY <1>2, <2>1 DEF Base, Types, TypeOK
  <1>6. Types'
    BY <1>2, <1>3, <1>4, <1>5 DEF Base, Types
  <1>7. Control'
    BY <1>2 DEF Base, Types, TypeOK, Control
  <1>8. OpenBufferRegistered'
    BY <1>2 DEF Base, OpenBufferRegistered
  <1>9. \A x \in lost : x.n < at'[x.by]
    BY <1>1, <1>2, <1>3, LaterReturn
  <1>10. Contents'
    BY <1>2, <1>4, <1>9 DEF Base, Contents, BufferOK
  <1> QED BY <1>6, <1>7, <1>8, <1>10 DEF Base

LEMMA LostBase ==
  ASSUME Base, NEW w \in Writers, LostStep(w)
  PROVE  Base'
  <1>1. /\ UNCHANGED <<slot, used, stack, closed, done, drainDone, bpc, snapshot, wbuf,
                        cpc, cbuf, walClosed, wal, pushed>>
        /\ at' = [at EXCEPT ![w] = @ + 1] /\ wpc' = [wpc EXCEPT ![w] = "load"]
    BY DEF LostStep, Returns, closeVars
  <1>2. /\ at' \in [Writers -> Nat \ {0}]
        /\ \A v \in Writers : at'[v] = IF v = w THEN at[w] + 1 ELSE at[v]
        /\ at[w] \in Nat \ {0}
    BY <1>1 DEF Base, Types
  <1>3. PICK x \in ItemType : x = Item(w, wbuf[w])
    <2>1. wbuf[w] \in Buffer /\ at[w] <= Len(Plan[w])
      BY AsyncBufferAssumption DEF LostStep, Base, Control, Types, TypeOK, Buffer
    <2>2. Plan[w][at[w]] \in Kinds
      BY <1>2, <2>1, AsyncBufferAssumption DEF Kinds
    <2> QED BY <1>2, <2>1, <2>2 DEF Item, ItemType
  <1>4. lost' = lost \cup {x} /\ x.by = w /\ x.n = at[w]
    BY <1>3 DEF LostStep, Item
  <1>5. TypeOK'
    BY <1>1 DEF Base, Types, TypeOK
  <1>6. Types'
    BY <1>1, <1>2, <1>4, <1>5 DEF Base, Types
  <1>7. Control'
    BY <1>1 DEF Base, Types, TypeOK, Control
  <1>8. OpenBufferRegistered'
    BY <1>1 DEF Base, OpenBufferRegistered
  <1>9. \A y \in lost' : y.n < at'[y.by]
    <2>1. \A y \in lost : y.n < at'[y.by]
      BY <1>2, LaterReturn
    <2> QED BY <1>2, <1>4, <2>1
  <1>10. \A c \in Buffer : Returned(pushed[c], at')
    <2> SUFFICES ASSUME NEW c \in Buffer, NEW i \in 1..Len(pushed[c])
                 PROVE  pushed[c][i].n < at'[pushed[c][i].by]
      BY DEF Returned
    <2>1. pushed[c] \in Items /\ pushed[c][i].n < at[pushed[c][i].by]
      BY DEF Base, Types, Contents, Returned
    <2>2. pushed[c][i] \in ItemType
      BY <2>1, ItemSeq
    <2>3. pushed[c][i].n \in Nat /\ pushed[c][i].by \in Writers
      BY <2>2 DEF ItemType
    <2>4. at[pushed[c][i].by] \in Nat
      BY <2>3 DEF Base, Types
    <2> QED BY <1>2, <2>1, <2>3, <2>4
  <1>11. Contents'
    BY <1>1, <1>9, <1>10 DEF Base, Contents
  <1> QED BY <1>6, <1>7, <1>8, <1>11 DEF Base

LEMMA BaseStep ==
  ASSUME Base, [Next]_vars
  PROVE  Base'
  <1>1. ASSUME NEW w \in Writers, PushLoaded(w) PROVE Base'
    <2>1. CASE closed[wbuf[w]]
      <3>1. /\ wpc[w] # "load" /\ wpc' = [wpc EXCEPT ![w] = "load"]
            /\ UNCHANGED <<bufVars, wbuf, at, closeVars, wal, pushed, lost>>
        BY <1>1, <2>1 DEF PushLoaded, bufVars
      <3> QED BY <3>1, RetryBase
    <2>2. CASE ~closed[wbuf[w]]
      <3>1. PushStep(w)
        BY <1>1, <2>2 DEF PushLoaded, PushStep
      <3> QED BY <3>1, PushBase
    <2> QED BY <2>1, <2>2
  <1>2. ASSUME NEW w \in Writers, PushFirst(w) PROVE Base'
    BY <1>2, FirstPush, PushBase, LostBase
  <1>3. ASSUME NEW w \in Writers, Writer(w) PROVE Base'
    BY <1>1, <1>2, <1>3, LoadSlotBase, InstallBase DEF Writer
  <1>4. ASSUME NEW b \in Buffer, Run(b) PROVE Base'
    BY <1>4, TickBase, WriteNodeBase, WriteDoneBase, StopRunningBase, CloseBufferBase, UnregisterBase
    DEF Run
  <1>5. CASE UNCHANGED vars
    <2>1. UNCHANGED <<slot, used, stack, closed, done, drainDone, bpc, snapshot, wpc, wbuf, at,
                      cpc, cbuf, walClosed, wal, pushed, lost>>
      BY <1>5 DEF vars, bufVars, writerVars, closeVars
    <2>2. TypeOK' /\ Control' /\ OpenBufferRegistered' /\ Contents'
      BY <2>1 DEF Base, Types, TypeOK, Control, OpenBufferRegistered, Contents
    <2> QED BY <2>1, <2>2 DEF Base, Types
  <1> QED BY <1>3, <1>4, <1>5, ClosingBase DEF Next

-----------------------------------------------------------------------------
(* Order: what a buffer has written and what it holds is what it accepted. *)

InOrder(b, log, writes, held, accepted) ==
  Cat(Flat(Pieces(b, log)), Cat(Flat(writes), Flat(held))) = accepted

OrderInv ==
  ~walClosed => \A b \in Buffer : InOrder(b, wal, snapshot[b], stack[b], pushed[b])

LEMMA OrderIsFIFO ==
  ASSUME Types, OrderInv
  PROVE  BufferFIFO
  <1> SUFFICES ASSUME ~walClosed, NEW b \in Buffer
               PROVE  WrittenBy(b) \o Held(b) = pushed[b]
    BY DEF BufferFIFO
  <1>1. WrittenBy(b) = Flat(Pieces(b, wal))
    BY WrittenIsFlat DEF Types
  <1>2. Held(b) = Cat(Flat(snapshot[b]), Flat(stack[b]))
    BY DEF Held, Cat
  <1>3. Cat(WrittenBy(b), Held(b)) = pushed[b]
    BY <1>1, <1>2 DEF OrderInv, InOrder
  <1> QED BY <1>3 DEF Cat

LEMMA FlatType ==
  ASSUME NEW nodes \in Nodes
  PROVE  Flat(nodes) \in Items
  BY FlatExists, FlatIs

LEMMA OrderInit == Init => OrderInv
  <1> SUFFICES ASSUME Init PROVE OrderInv
    OBVIOUS
  <1>1. <<>> \in Items /\ Len(<<>>) = 0
    BY DEF Items
  <1>2. ASSUME NEW b \in Buffer PROVE InOrder(b, <<>>, <<>>, <<>>, <<>>)
    <2>1. Pieces(b, <<>>) \in Nodes /\ Len(Pieces(b, <<>>)) = 0
      BY <1>1, PiecesType
    <2>2. Pieces(b, <<>>) = <<>>
      BY <2>1, NodesFacts
    <2>3. Cat(<<>>, <<>>) = <<>>
      BY <1>1, ItemsFacts
    <2> QED BY <2>2, <2>3, FlatEmpty DEF InOrder
  <1>3. wal = <<>> /\ \A b \in Buffer : /\ snapshot[b] = <<>> /\ stack[b] = <<>>
                                        /\ pushed[b] = <<>>
    BY DEF Init
  <1> QED BY <1>2, <1>3 DEF OrderInv

\* Swapping the stack out, when no snapshot is left, moves everything it holds.
LEMMA OrderSwap ==
  ASSUME NEW b, NEW log, NEW held \in Nodes, NEW accepted, InOrder(b, log, <<>>, held, accepted)
  PROVE  InOrder(b, log, held, <<>>, accepted)
  <1>1. PICK y \in Items : y = Flat(held)
    BY FlatType
  <1>2. Cat(<<>>, y) = y /\ Cat(y, <<>>) = y
    BY ItemsFacts
  <1> QED BY <1>1, <1>2, FlatEmpty DEF InOrder

\* A push adds the item at the end.
LEMMA OrderPush ==
  ASSUME NEW b, NEW log \in Items, NEW writes \in Nodes, NEW held \in Nodes, NEW more \in Nodes,
         NEW accepted \in Items, NEW x \in ItemType, Flat(more) = Cat(Flat(held), <<x>>),
         InOrder(b, log, writes, held, accepted)
  PROVE  InOrder(b, log, writes, more, Append(accepted, x))
  <1>1. PICK p \in Nodes : p = Pieces(b, log)
    BY PiecesType
  <1>2. PICK u \in Items : u = Flat(p)
    BY FlatType
  <1>3. PICK v \in Items : v = Flat(writes)
    BY FlatType
  <1>4. PICK y \in Items : y = Flat(held)
    BY FlatType
  <1>5. PICK e \in Items : e = <<x>>
    <2>1. <<x>> \in Items
      BY DEF Items
    <2> QED BY <2>1
  <1>6. Cat(v, Cat(y, e)) = Cat(Cat(v, y), e) /\ Cat(v, y) \in Items
    BY ItemsFacts
  <1>7. Cat(u, Cat(Cat(v, y), e)) = Cat(Cat(u, Cat(v, y)), e)
    BY <1>6, ItemsFacts
  <1>8. Cat(u, Cat(v, y)) = accepted
    BY <1>1, <1>2, <1>3, <1>4 DEF InOrder
  <1>9. Append(accepted, x) = Cat(accepted, e)
    BY <1>5, ItemsAppend
  <1> QED BY <1>1, <1>2, <1>3, <1>4, <1>5, <1>6, <1>7, <1>8, <1>9 DEF InOrder

\* The first node of a snapshot goes to the end of the log.
LEMMA OrderWrite ==
  ASSUME NEW b, NEW log \in Items, NEW writes \in Nodes, writes # <<>>, NEW held \in Nodes,
         NEW accepted, ItemsOf(b, writes), InOrder(b, log, writes, held, accepted)
  PROVE  InOrder(b, Cat(log, Head(writes).items), Tail(writes), held, accepted)
  <1>1. PICK h \in Items : h = Head(writes).items
    BY FlatCons
  <1>2. PICK r \in Items : r = Flat(Tail(writes)) /\ Flat(writes) = Cat(h, r)
    BY <1>1, FlatCons
  <1>3. PICK y \in Items : y = Flat(held)
    BY FlatType
  <1>4. PICK p \in Nodes : p = Pieces(b, log)
    BY PiecesType
  <1>5. PICK u \in Items : u = Flat(p)
    BY FlatType
  <1>6. \A k \in 1..Len(h) : (h[k].buf = b) <=> TRUE
    <2>1. 1 \in 1..Len(writes) /\ Head(writes) = writes[1]
      BY NodesFacts, NodesTail
    <2> QED BY <1>1, <2>1 DEF ItemsOf
  <1>7. Flat(Pieces(b, Cat(log, h))) = Cat(u, h)
    <2>1. PICK mine \in BOOLEAN : mine = TRUE
      OBVIOUS
    <2>2. \A k \in 1..Len(h) : (h[k].buf = b) <=> mine
      BY <1>6, <2>1
    <2>3. Flat(Pieces(b, Cat(log, h))) = IF mine THEN Cat(Flat(Pieces(b, log)), h)
                                         ELSE Flat(Pieces(b, log))
      BY <2>2, FlatPiecesConcat
    <2> QED BY <1>4, <1>5, <2>1, <2>3
  <1>8. Cat(u, Cat(Cat(h, r), y)) = accepted
    BY <1>2, <1>3, <1>4, <1>5 DEF InOrder
  <1>9. Cat(Cat(h, r), y) = Cat(h, Cat(r, y)) /\ Cat(r, y) \in Items
    BY ItemsFacts
  <1>10. Cat(u, Cat(h, Cat(r, y))) = Cat(Cat(u, h), Cat(r, y))
    BY <1>9, ItemsFacts
  <1> QED BY <1>1, <1>2, <1>3, <1>7, <1>8, <1>9, <1>10 DEF InOrder

\* It is nothing to the other buffers.
LEMMA OrderOther ==
  ASSUME NEW b, NEW c, c # b, NEW log \in Items, NEW writes \in Nodes, writes # <<>>,
         ItemsOf(b, writes)
  PROVE  Flat(Pieces(c, Cat(log, Head(writes).items))) = Flat(Pieces(c, log))
  <1>1. PICK h \in Items : h = Head(writes).items
    BY FlatCons
  <1>2. \A k \in 1..Len(h) : (h[k].buf = c) <=> FALSE
    <2>1. 1 \in 1..Len(writes) /\ Head(writes) = writes[1]
      BY NodesFacts, NodesTail
    <2> QED BY <1>1, <2>1 DEF ItemsOf
  <1> QED BY <1>1, <1>2, FlatPiecesConcat

LEMMA OrderStep ==
  ASSUME Base, OrderInv, [Next]_vars
  PROVE  OrderInv'
  <1> SUFFICES ASSUME ~walClosed', NEW c \in Buffer
               PROVE  InOrder(c, wal', snapshot'[c], stack'[c], pushed'[c])
    BY DEF OrderInv
  <1>1. ~walClosed
    BY
    DEF Next, vars, Writer, LoadSlot, PushLoaded, Install, PushFirst, Run, Tick, WriteNode,
           WriteDone, StopRunning, CloseBuffer, Unregister, Closing, DrainAsyncBuffer, Drained,
           DrainReturns, CloseLog, closeVars
  <1>2. InOrder(c, wal, snapshot[c], stack[c], pushed[c])
    BY <1>1 DEF OrderInv
  <1>3. /\ stack \in [Buffer -> Nodes] /\ snapshot \in [Buffer -> Nodes]
        /\ pushed \in [Buffer -> Items] /\ wal \in Items
    BY DEF Base, Types
  <1>4. CASE UNCHANGED <<wal, snapshot, stack, pushed>>
    BY <1>2, <1>4
  <1>5. ASSUME NEW w \in Writers, PushStep(w)
        PROVE  InOrder(c, wal', snapshot'[c], stack'[c], pushed'[c])
    <2>1. PICK b \in Buffer :
            Skipped(w) \/ \E x \in ItemType : \E t \in Nodes : Added(b, w, x, t)
      BY <1>5, PushStepFacts
    <2>2. UNCHANGED <<wal, snapshot>>
      BY <1>5 DEF PushStep
    <2>3. CASE Skipped(w)
      BY <1>2, <2>2, <2>3 DEF Skipped
    <2>4. CASE ~Skipped(w)
      <3>1. PICK x \in ItemType : \E t \in Nodes : Added(b, w, x, t)
        BY <2>1, <2>4
      <3>2. PICK t \in Nodes : Added(b, w, x, t)
        BY <3>1
      <3>3. /\ stack'[c] = IF c = b THEN t ELSE stack[c]
            /\ pushed'[c] = IF c = b THEN Append(pushed[c], x) ELSE pushed[c]
            /\ Flat(t) = Cat(Flat(stack[b]), <<x>>)
        BY <1>3, <3>2 DEF Added
      <3>4. CASE c = b
        <4>1. InOrder(c, wal, snapshot[c], t, Append(pushed[c], x))
          BY <1>2, <1>3, <3>3, <3>4, OrderPush
        <4> QED BY <2>2, <3>3, <3>4, <4>1
      <3>5. CASE c # b
        BY <1>2, <2>2, <3>3, <3>5
      <3> QED BY <3>4, <3>5
    <2> QED BY <2>3, <2>4
  <1>6. ASSUME NEW b \in Buffer, Tick(b) \/ CloseBuffer(b)
        PROVE  InOrder(c, wal', snapshot'[c], stack'[c], pushed'[c])
    <2>1. UNCHANGED <<wal, pushed>> /\ bpc[b] \in {"select", "close"}
      BY <1>6 DEF Tick, CloseBuffer
    <2>2. snapshot[b] = <<>>
      BY <2>1 DEF Base, Contents, BufferOK
    <2>3. /\ snapshot'[c] = IF c = b THEN stack[c] ELSE snapshot[c]
          /\ stack'[c] = IF c = b THEN <<>> ELSE stack[c]
      BY <1>3, <1>6 DEF Tick, CloseBuffer
    <2>4. CASE c = b
      <3>1. InOrder(c, wal, stack[c], <<>>, pushed[c])
        BY <1>2, <1>3, <2>2, <2>4, OrderSwap
      <3> QED BY <2>1, <2>3, <2>4, <3>1
    <2>5. CASE c # b
      BY <1>2, <2>1, <2>3, <2>5
    <2> QED BY <2>4, <2>5
  <1>7. ASSUME NEW b \in Buffer, WriteNode(b)
        PROVE  InOrder(c, wal', snapshot'[c], stack'[c], pushed'[c])
    <2>1. PICK writes \in Nodes : writes = snapshot[b] /\ writes # <<>>
      BY <1>3, <1>7 DEF WriteNode
    <2>2. wal' = Cat(wal, Head(writes).items) /\ UNCHANGED <<stack, pushed>>
      BY <1>1, <1>7, <2>1 DEF WriteNode, Cat
    <2>3. snapshot'[c] = IF c = b THEN Tail(writes) ELSE snapshot[c]
      BY <1>3, <1>7, <2>1 DEF WriteNode
    <2>4. ItemsOf(b, writes)
      BY <2>1 DEF Base, Contents, BufferOK
    <2>5. CASE c = b
      <3>1. InOrder(c, Cat(wal, Head(writes).items), Tail(writes), stack[c], pushed[c])
        <4>1. InOrder(c, wal, writes, stack[c], pushed[c])
          BY <1>2, <2>1, <2>5
        <4> QED BY <1>3, <2>1, <2>4, <2>5, <4>1, OrderWrite
      <3> QED BY <2>2, <2>3, <2>5, <3>1
    <2>6. CASE c # b
      <3>1. Flat(Pieces(c, wal')) = Flat(Pieces(c, wal))
        BY <1>3, <2>1, <2>2, <2>4, <2>6, OrderOther
      <3> QED BY <1>2, <2>2, <2>3, <2>6, <3>1 DEF InOrder
    <2> QED BY <2>5, <2>6
  <1>8. ASSUME NEW w \in Writers, Writer(w)
        PROVE  PushStep(w) \/ UNCHANGED <<wal, snapshot, stack, pushed>>
    BY <1>8, FirstPush DEF Writer, LoadSlot, PushLoaded, Install, LostStep, PushStep, bufVars
  <1>9. ASSUME NEW b \in Buffer, Run(b)
        PROVE  Tick(b) \/ CloseBuffer(b) \/ WriteNode(b) \/ UNCHANGED <<wal, snapshot, stack, pushed>>
    BY <1>9 DEF Run, WriteDone, StopRunning, Unregister
  <1>10. Closing \/ UNCHANGED vars => UNCHANGED <<wal, snapshot, stack, pushed>>
    BY DEF Closing, DrainAsyncBuffer, Drained, DrainReturns, CloseLog, vars, bufVars
  <1> QED BY <1>4, <1>5, <1>6, <1>7, <1>8, <1>9, <1>10 DEF Next

-----------------------------------------------------------------------------
(* Each returned push is in one place.                                     *)

\* Another item does not count; the item itself counts once if it was not there.
LEMMA CopiesAppend ==
  ASSUME NEW s \in Items, NEW x \in ItemType, NEW w, NEW n
  PROVE  /\ ~(x.by = w /\ x.n = n) => Copies(w, n, Append(s, x)) = Copies(w, n, s)
         /\ x.by = w /\ x.n = n /\ (\A i \in 1..Len(s) : ~(s[i].by = w /\ s[i].n = n))
              => Copies(w, n, Append(s, x)) = 1
  <1>1. PICK len \in Nat : len = Len(s) /\ DOMAIN s = 1..len
    BY ItemSeq
  <1>2. PICK m \in Items : m = Append(s, x)
    BY ItemsAppend
  <1>3. Len(m) = len + 1 /\ m[len + 1] = x /\ \A k \in 1..len : m[k] = s[k]
    BY <1>1, <1>2, ItemsAppend
  <1>4. DOMAIN m = 1..len + 1 /\ \A k \in 1..len + 1 : k \in 1..len \/ k = len + 1
    BY <1>3, ItemSeq
  <1>5. ASSUME ~(x.by = w /\ x.n = n)
        PROVE  {i \in DOMAIN m : m[i].by = w /\ m[i].n = n}
                 = {i \in DOMAIN s : s[i].by = w /\ s[i].n = n}
    BY <1>1, <1>3, <1>4, <1>5
  <1>6. ASSUME x.by = w, x.n = n, \A i \in 1..Len(s) : ~(s[i].by = w /\ s[i].n = n)
        PROVE  {i \in DOMAIN m : m[i].by = w /\ m[i].n = n} = {len + 1}
    BY <1>1, <1>3, <1>4, <1>6
  <1>7. Cardinality({len + 1}) = 1
    BY FS_Singleton
  <1> QED BY <1>2, <1>5, <1>6, <1>7 DEF Copies

LEMMA CopiesNone ==
  ASSUME NEW s, DOMAIN s = 1..Len(s), NEW w, NEW n,
         \A i \in 1..Len(s) : ~(s[i].by = w /\ s[i].n = n)
  PROVE  Copies(w, n, s) = 0
  <1>1. {i \in DOMAIN s : s[i].by = w /\ s[i].n = n} = {}
    OBVIOUS
  <1> QED BY <1>1, FS_EmptySet DEF Copies

\* The data push n of w is in one buffer, once.
Placed(w, n, accepted) ==
  \E b \in Buffer : /\ Copies(w, n, accepted[b]) = 1
                    /\ \A c \in Buffer \ {b} : Copies(w, n, accepted[c]) = 0

\* It was dropped, and is in none.
Dropped(w, n, accepted, dropped) ==
  /\ \E x \in dropped : x.by = w /\ x.n = n
  /\ \A c \in Buffer : Copies(w, n, accepted[c]) = 0

Accounted(w, n, accepted, dropped) ==
  \/ Placed(w, n, accepted) /\ ~\E x \in dropped : x.by = w /\ x.n = n
  \/ Dropped(w, n, accepted, dropped)

\* What is not yet returned is in no buffer and was not dropped.
LEMMA NotYet ==
  ASSUME Base, NEW w \in Writers
  PROVE  /\ \A c \in Buffer : /\ Copies(w, at[w], pushed[c]) = 0
                             /\ \A i \in 1..Len(pushed[c]) :
                                  ~(pushed[c][i].by = w /\ pushed[c][i].n = at[w])
         /\ ~\E x \in lost : x.by = w /\ x.n = at[w]
  <1>1. ASSUME NEW c \in Buffer, NEW i \in 1..Len(pushed[c])
        PROVE  ~(pushed[c][i].by = w /\ pushed[c][i].n = at[w])
    <2>1. pushed[c] \in Items /\ pushed[c][i].n < at[pushed[c][i].by]
      BY DEF Base, Types, Contents, Returned
    <2>2. pushed[c][i].n \in Nat
      BY <2>1, ItemSeq DEF ItemType
    <2> QED BY <2>1, <2>2
  <1>2. ASSUME NEW c \in Buffer PROVE Copies(w, at[w], pushed[c]) = 0
    <2>1. DOMAIN pushed[c] = 1..Len(pushed[c])
      BY ItemSeq DEF Base, Types
    <2> QED BY <1>1, <2>1, CopiesNone
  <1>3. ASSUME NEW x \in lost PROVE ~(x.by = w /\ x.n = at[w])
    <2>1. x \in ItemType /\ x.n < at[x.by]
      BY DEF Base, Types, Contents
    <2>2. x.n \in Nat
      BY <2>1 DEF ItemType
    <2> QED BY <2>1, <2>2
  <1> QED BY <1>1, <1>2, <1>3

LEMMA AccountedInit == Init => EntryAccounted
  BY DEF Init, EntryAccounted

LEMMA AccountedStep ==
  ASSUME Base, EntryAccounted, [Next]_vars
  PROVE  EntryAccounted'
  <1> SUFFICES ASSUME NEW v \in Writers, NEW n \in 1..at'[v] - 1, Plan[v][n] = "data"
               PROVE  Accounted(v, n, pushed', lost')
    BY DEF EntryAccounted, Lost, Placed, Dropped, Accounted
  <1>1. n \in 1..at[v] - 1 => Accounted(v, n, pushed, lost)
    BY DEF EntryAccounted, Lost, Placed, Dropped, Accounted
  <1>2. CASE UNCHANGED <<pushed, at, lost>>
    BY <1>1, <1>2
  <1>3. ASSUME NEW w \in Writers, PushStep(w)
        PROVE  Accounted(v, n, pushed', lost')
    <2>1. PICK b \in Buffer :
            /\ b = wbuf[w] /\ at[w] \in Nat \ {0}
            /\ Skipped(w) \/ \E x \in ItemType : \E t \in Nodes : Added(b, w, x, t)
      BY <1>3, PushStepFacts
    <2>2. at'[v] = IF v = w THEN at[w] + 1 ELSE at[v]
      BY <1>3 DEF PushStep, Returns, Base, Types
    <2>3. /\ at[v] \in Nat /\ (n \in 1..at[v] - 1 \/ (v = w /\ n = at[w]))
          /\ lost' = lost
      BY <1>3, <2>1, <2>2 DEF PushStep, Base, Types
    <2>4. CASE Skipped(w)
      BY <1>1, <2>3, <2>4 DEF Skipped
    <2>5. CASE ~Skipped(w)
      <3>1. PICK x \in ItemType : \E t \in Nodes : Added(b, w, x, t)
        BY <2>1, <2>5
      <3>2. x.by = w /\ x.n = at[w] /\ pushed' = [pushed EXCEPT ![b] = Append(pushed[b], x)]
        BY <3>1 DEF Added, Item
      <3>3. \A c \in Buffer : pushed[c] \in Items
        BY DEF Base, Types
      <3>4. \A c \in Buffer : pushed'[c] = IF c = b THEN Append(pushed[b], x) ELSE pushed[c]
        BY <3>2 DEF Base, Types
      <3>5. CASE n \in 1..at[v] - 1
        <4>1. ~(x.by = v /\ x.n = n)
          BY <2>3, <3>2, <3>5
        <4>2. \A c \in Buffer : Copies(v, n, pushed'[c]) = Copies(v, n, pushed[c])
          BY <3>3, <3>4, <4>1, CopiesAppend
        <4> QED BY <1>1, <2>3, <3>5, <4>2 DEF Accounted, Placed, Dropped
      <3>6. CASE v = w /\ n = at[w]
        <4>1. /\ \A c \in Buffer : /\ Copies(v, n, pushed[c]) = 0
                                  /\ \A i \in 1..Len(pushed[c]) :
                                       ~(pushed[c][i].by = v /\ pushed[c][i].n = n)
              /\ ~\E y \in lost : y.by = v /\ y.n = n
          BY <3>6, NotYet
        <4>2. Copies(v, n, pushed'[b]) = 1
          BY <3>2, <3>3, <3>4, <3>6, <4>1, CopiesAppend
        <4>3. \A c \in Buffer \ {b} : Copies(v, n, pushed'[c]) = 0
          BY <3>4, <4>1
        <4> QED BY <2>3, <4>1, <4>2, <4>3 DEF Accounted, Placed
      <3> QED BY <2>3, <3>5, <3>6
    <2> QED BY <2>4, <2>5
  <1>4. ASSUME NEW w \in Writers, LostStep(w)
        PROVE  Accounted(v, n, pushed', lost')
    <2>1. /\ at'[v] = IF v = w THEN at[w] + 1 ELSE at[v]
          /\ pushed' = pushed /\ at[w] \in Nat
      BY <1>4 DEF LostStep, Returns, Base, Types
    <2>2. at[v] \in Nat /\ (n \in 1..at[v] - 1 \/ (v = w /\ n = at[w]))
      BY <2>1 DEF Base, Types
    <2>3. PICK x : lost' = lost \cup {x} /\ x.by = w /\ x.n = at[w]
      <3>1. lost' = lost \cup {Item(w, wbuf[w])}
        BY <1>4 DEF LostStep
      <3>2. Item(w, wbuf[w]).by = w /\ Item(w, wbuf[w]).n = at[w]
        BY DEF Item
      <3> QED BY <3>1, <3>2
    <2>4. CASE n \in 1..at[v] - 1
      <3>1. ~(x.by = v /\ x.n = n)
        BY <2>2, <2>3, <2>4
      <3>2. (\E y \in lost' : y.by = v /\ y.n = n) <=> (\E y \in lost : y.by = v /\ y.n = n)
        BY <2>3, <3>1
      <3> QED BY <1>1, <2>1, <2>4, <3>2 DEF Accounted, Dropped
    <2>5. CASE v = w /\ n = at[w]
      <3>1. \A c \in Buffer : Copies(v, n, pushed[c]) = 0
        BY <2>5, NotYet
      <3>2. \E y \in lost' : y.by = v /\ y.n = n
        BY <2>3, <2>5
      <3> QED BY <2>1, <3>1, <3>2 DEF Accounted, Dropped
    <2> QED BY <2>2, <2>4, <2>5
  <1>5. ASSUME NEW w \in Writers, Writer(w)
        PROVE  PushStep(w) \/ LostStep(w) \/ UNCHANGED <<pushed, at, lost>>
    <2>1. CASE PushLoaded(w)
      BY <2>1 DEF PushLoaded, PushStep
    <2>2. CASE LoadSlot(w) \/ Install(w)
      BY <2>2 DEF LoadSlot, Install
    <2> QED BY <1>5, <2>1, <2>2, FirstPush DEF Writer
  <1>6. ASSUME NEW b \in Buffer, Run(b)
        PROVE  UNCHANGED <<pushed, at, lost>>
    BY <1>6
    DEF Run, Tick, WriteNode, WriteDone, StopRunning, CloseBuffer, Unregister, writerVars
  <1>7. Closing \/ UNCHANGED vars => UNCHANGED <<pushed, at, lost>>
    BY DEF Closing, DrainAsyncBuffer, Drained, DrainReturns, CloseLog, vars, writerVars
  <1> QED BY <1>2, <1>3, <1>4, <1>5, <1>6, <1>7 DEF Next

-----------------------------------------------------------------------------
(* The theorems.                                                           *)

\* The inductive invariant.
AsyncInv == Base /\ OrderInv /\ EntryAccounted

LEMMA AsyncInvariant == Spec => []AsyncInv
  <1>1. Init => AsyncInv
    BY InitTypes, OrderInit, AccountedInit DEF AsyncInv, Base
  <1>2. AsyncInv /\ [Next]_vars => AsyncInv'
    BY BaseStep, OrderStep, AccountedStep DEF AsyncInv
  <1> QED BY <1>1, <1>2, PTL DEF Spec

\* The slot, the flags and the goroutines of the buffers stay in their ranges, and no
\* two adjacent nodes of a stack have the same kind: the merge rules of pushData and
\* pushCheckpoint hold through every flush and close.
THEOREM TypeCorrect == Spec => []TypeOK
  <1>1. AsyncInv => TypeOK
    BY DEF AsyncInv, Base, Types
  <1> QED BY <1>1, AsyncInvariant, PTL

\* A buffer that still accepts pushes is the one in the slot, however many writers race
\* to install one and however buffers close themselves.
THEOREM OpenIsRegistered == Spec => []OpenBufferRegistered
  <1>1. AsyncInv => OpenBufferRegistered
    BY DEF AsyncInv, Base
  <1> QED BY <1>1, AsyncInvariant, PTL

\* Until the log is closed, what a buffer has written, followed by what it holds, is
\* what it accepted: writeToWAL loses, repeats and reorders nothing, and a checkpoint
\* fires after the data pushed before it.
THEOREM FIFO == Spec => []BufferFIFO
  <1>1. AsyncInv => BufferFIFO
    BY OrderIsFIFO DEF AsyncInv, Base
  <1> QED BY <1>1, AsyncInvariant, PTL

\* Every AddToBufferWAL that returned has its entry in exactly one buffer, or made the
\* ignored first push into a buffer that had closed and has it in none: the retries of
\* the load and CompareAndSwap loop neither drop nor repeat a push, and no other path
\* loses one.
THEOREM OnePlace == Spec => []EntryAccounted
  <1>1. AsyncInv => EntryAccounted
    BY DEF AsyncInv
  <1> QED BY <1>1, AsyncInvariant, PTL

==============================================================================
