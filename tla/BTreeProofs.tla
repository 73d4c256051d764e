---------------------------- MODULE BTreeProofs ----------------------------
(***************************************************************************)
(* Proofs about BTree, for any keys, payloads and sizes of pages: searches *)
(* find what was put in, every page has one use, and insertions find room. *)
(* One operation at a time, from the lemmas of BTreePartsProofs about the  *)
(* pages, the chains and the tree.                                         *)
(***************************************************************************)
EXTENDS BTreePartsProofs
-----------------------------------------------------------------------------
(* Contents *)

In(items, x) == \E i \in 1 .. Len(items) : items[i] = x

\* Some leaf holds x.
Has(T, x) == \E a \in DOMAIN T : T[a].kind = "Leaf" /\ In(T[a].items, x)

\* ContentsOK, item by item.
LEMMA ContentsAre ==
  ASSUME NEW T, NEW D, NEW ch
  PROVE  ContentsOK(T, D, ch) <=>
           /\ \A x : Has(T, x) => x.key \in DOMAIN D /\ x = Entry(x.key, D[x.key], Link(ch[x.key], 1))
           /\ \A k \in DOMAIN D : \E x : Has(T, x) /\ x.key = k
  <1>1. ASSUME ContentsOK(T, D, ch), NEW x, Has(T, x)
        PROVE  x.key \in DOMAIN D /\ x = Entry(x.key, D[x.key], Link(ch[x.key], 1))
    <2>1. PICK a \in DOMAIN T : T[a].kind = "Leaf" /\ In(T[a].items, x)
      BY <1>1 DEF Has
    <2>2. PICK i \in 1 .. Len(T[a].items) : T[a].items[i] = x
      BY <2>1 DEF In
    <2> QED
      BY <1>1, <2>1, <2>2 DEF ContentsOK
  <1>2. ASSUME ContentsOK(T, D, ch), NEW k \in DOMAIN D PROVE \E x : Has(T, x) /\ x.key = k
    <2>1. PICK a \in DOMAIN T : T[a].kind = "Leaf" /\ \E i \in 1 .. Len(T[a].items) : T[a].items[i].key = k
      BY <1>2 DEF ContentsOK
    <2>2. PICK i \in 1 .. Len(T[a].items) : T[a].items[i].key = k
      BY <2>1
    <2>3. Has(T, T[a].items[i])
      BY <2>1, <2>2 DEF Has, In
    <2> QED
      BY <2>2, <2>3
  <1>3. ASSUME \A x : Has(T, x) => x.key \in DOMAIN D /\ x = Entry(x.key, D[x.key], Link(ch[x.key], 1)),
               \A k \in DOMAIN D : \E x : Has(T, x) /\ x.key = k
        PROVE  ContentsOK(T, D, ch)
    <2>1. ASSUME NEW a \in DOMAIN T, T[a].kind = "Leaf", NEW i \in 1 .. Len(T[a].items)
          PROVE  /\ T[a].items[i].key \in DOMAIN D
                 /\ T[a].items[i] = Entry(T[a].items[i].key, D[T[a].items[i].key], Link(ch[T[a].items[i].key], 1))
      <3>1. Has(T, T[a].items[i])
        BY <2>1 DEF Has, In
      <3> QED
        BY <1>3, <3>1
    <2>2. ASSUME NEW k \in DOMAIN D
          PROVE  \E a \in DOMAIN T : T[a].kind = "Leaf" /\ \E i \in 1 .. Len(T[a].items) : T[a].items[i].key = k
      <3>1. PICK x : Has(T, x) /\ x.key = k
        BY <1>3
      <3> QED
        BY <3>1 DEF Has, In
    <2> QED
      BY <2>1, <2>2 DEF ContentsOK
  <1> QED
    BY <1>1, <1>2, <1>3

\* The items of changed sequences.
LEMMA InInserted ==
  ASSUME NEW q \in Seq(Item), NEW i \in 1 .. Len(q) + 1, NEW e, NEW r, Inserted(q, i, e, r), NEW x
  PROVE  In(r, x) <=> x = e \/ In(q, x)
  <1>1. Len(q) \in Nat /\ Len(r) = Len(q) + 1 /\ r[i] = e /\ (\A j \in 1 .. i - 1 : r[j] = q[j])
        /\ \A j \in i + 1 .. Len(q) + 1 : r[j] = q[j - 1]
    BY DEF Inserted
  <1>2. ASSUME In(r, x) PROVE x = e \/ In(q, x)
    <2>1. PICK j \in 1 .. Len(q) + 1 : r[j] = x
      BY <1>1, <1>2 DEF In
    <2>2. CASE j = i
      BY <1>1, <2>1, <2>2
    <2>3. CASE j < i
      <3>1. j \in 1 .. i - 1 /\ j \in 1 .. Len(q)
        BY <1>1, <2>3
      <3> QED
        BY <1>1, <2>1, <3>1 DEF In
    <2>4. CASE j > i
      <3>1. j \in i + 1 .. Len(q) + 1 /\ j - 1 \in 1 .. Len(q)
        BY <1>1, <2>4
      <3> QED
        BY <1>1, <2>1, <3>1 DEF In
    <2> QED
      BY <1>1, <2>2, <2>3, <2>4
  <1>3. ASSUME x = e PROVE In(r, x)
    <2>1. i \in 1 .. Len(r)
      BY <1>1
    <2> QED
      BY <1>1, <1>3, <2>1 DEF In
  <1>4. ASSUME In(q, x) PROVE In(r, x)
    <2>1. PICK j \in 1 .. Len(q) : q[j] = x
      BY <1>4 DEF In
    <2>2. CASE j < i
      <3>1. j \in 1 .. i - 1 /\ j \in 1 .. Len(r)
        BY <1>1, <2>2
      <3> QED
        BY <1>1, <2>1, <3>1 DEF In
    <2>3. CASE j >= i
      <3>1. j + 1 \in i + 1 .. Len(q) + 1 /\ j + 1 \in 1 .. Len(r) /\ (j + 1) - 1 = j
        BY <1>1, <2>3
      <3>2. r[j + 1] = q[j]
        BY <1>1, <3>1
      <3> QED
        BY <2>1, <3>1, <3>2 DEF In
    <2> QED
      BY <1>1, <2>2, <2>3
  <1> QED
    BY <1>2, <1>3, <1>4

\* What is left in sorted items after a removal.
LEMMA InRemoved ==
  ASSUME NEW q \in Seq(Item), Sorted(q), NEW i \in 1 .. Len(q), NEW r, Removed(q, i, r), NEW x
  PROVE  In(r, x) <=> In(q, x) /\ x.key # q[i].key
  <1>1. r \in Seq(Item) /\ i \in 1 .. Len(r) + 1 /\ q[i] \in Item /\ Inserted(r, i, q[i], q) /\ Len(q) \in Nat
    BY RemovedInserted
  <1>2. Len(r) = Len(q) - 1 /\ (\A j \in 1 .. i - 1 : r[j] = q[j]) /\ \A j \in i .. Len(q) - 1 : r[j] = q[j + 1]
    BY DEF Removed
  <1>3. In(q, x) <=> x = q[i] \/ In(r, x)
    BY <1>1, InInserted
  <1>4. \A j \in 1 .. Len(q) : q[j].key \in Nat
    <2>1. \A j \in 1 .. Len(q) : q[j] \in Item
      OBVIOUS
    <2> QED
      BY <2>1 DEF Item
  <1>5. ASSUME In(r, x) PROVE x.key # q[i].key
    <2>1. PICK j \in 1 .. Len(q) - 1 : r[j] = x
      BY <1>2, <1>5 DEF In
    <2>2. CASE j < i
      <3>1. j \in 1 .. i - 1 /\ j \in 1 .. Len(q)
        BY <1>1, <2>2
      <3>2. q[j].key < q[i].key
        BY <2>2, <3>1 DEF Sorted
      <3> QED
        BY <1>2, <1>4, <2>1, <3>1, <3>2
    <2>3. CASE j >= i
      <3>1. j \in i .. Len(q) - 1 /\ j + 1 \in 1 .. Len(q) /\ i < j + 1
        BY <1>1, <2>3
      <3>2. q[i].key < q[j + 1].key
        BY <3>1 DEF Sorted
      <3> QED
        BY <1>2, <1>4, <2>1, <3>1, <3>2
    <2> QED
      BY <1>1, <2>2, <2>3
  <1> QED
    BY <1>3, <1>5

\* What two sequences put together hold.
LEMMA InJoined ==
  ASSUME NEW a, NEW b, NEW q, Joined(a, b, q), NEW x
  PROVE  In(q, x) <=> In(a, x) \/ In(b, x)
  <1>1. Len(a) \in Nat /\ Len(b) \in Nat /\ Len(q) = Len(a) + Len(b)
        /\ (\A i \in 1 .. Len(a) : q[i] = a[i]) /\ \A i \in 1 .. Len(b) : q[Len(a) + i] = b[i]
    BY DEF Joined
  <1>2. ASSUME In(q, x) PROVE In(a, x) \/ In(b, x)
    <2>1. PICK j \in 1 .. Len(a) + Len(b) : q[j] = x
      BY <1>1, <1>2 DEF In
    <2>2. CASE j <= Len(a)
      <3>1. j \in 1 .. Len(a)
        BY <1>1, <2>2
      <3> QED
        BY <1>1, <2>1, <3>1 DEF In
    <2>3. CASE j > Len(a)
      <3>1. PICK k \in 1 .. Len(b) : Len(a) + k = j
        <4>1. j - Len(a) \in 1 .. Len(b) /\ Len(a) + (j - Len(a)) = j
          BY <1>1, <2>3
        <4> QED
          BY <4>1
      <3> QED
        BY <1>1, <2>1, <3>1 DEF In
    <2> QED
      BY <1>1, <2>2, <2>3
  <1>3. ASSUME In(a, x) PROVE In(q, x)
    <2>1. PICK j \in 1 .. Len(a) : a[j] = x
      BY <1>3 DEF In
    <2>2. j \in 1 .. Len(q)
      BY <1>1
    <2> QED
      BY <1>1, <2>1, <2>2 DEF In
  <1>4. ASSUME In(b, x) PROVE In(q, x)
    <2>1. PICK j \in 1 .. Len(b) : b[j] = x
      BY <1>4 DEF In
    <2>2. Len(a) + j \in 1 .. Len(q)
      BY <1>1
    <2> QED
      BY <1>1, <2>1, <2>2 DEF In
  <1> QED
    BY <1>2, <1>3, <1>4

\* Only the leaf that is responsible for a key holds it.
LEMMA LeafHolds ==
  ASSUME NEW T, NEW r, NEW g, NEW left, NEW right, TreeOK(T, r, g, left, right), NEW a \in DOMAIN T, T[a].kind = "Leaf",
         NEW key \in Nat, Covers(g, a, key), NEW b \in DOMAIN T, T[b].kind = "Leaf", NEW x, In(T[b].items, x), x.key = key
  PROVE  b = a
  <1>1. PICK i \in 1 .. Len(T[b].items) : T[b].items[i] = x
    BY DEF In
  <1>2. NodeOK(T, g, a) /\ NodeOK(T, g, b)
    BY TreeFacts
  <1>3. g.lo[a] \in Nat /\ g.hi[a] \in Nat \cup {Inf} /\ g.lvl[a] = 0
    BY <1>2, NodeFacts
  <1>4. g.lo[b] \in Nat /\ g.hi[b] \in Nat \cup {Inf} /\ g.lvl[b] = 0 /\ g.lo[b] <= key /\ Before(key, g.hi[b])
    BY <1>1, <1>2, NodeFacts
  <1>5. a # b => Ends(g, a, b) \/ Ends(g, b, a)
    BY <1>3, <1>4 DEF TreeOK, ApartOK
  <1> QED
    BY <1>3, <1>4, <1>5 DEF Ends, Covers, Before

\* An entry is an item of bounded size.
Small(e, key) ==
  e \in Item /\ e.key = key /\ ItemCost(e) \in Nat /\ ItemCost(e) <= SlotSize + LeafHeader + MaxInline

\* An entry is an item of its key that takes at most a third of a page.
LEMMA EntryFacts == \A key \in Nat, v \in Seq(Nat), f \in Nat : Small(Entry(key, v, f), key)
  <1> SUFFICES ASSUME NEW key \in Nat, NEW v \in Seq(Nat), NEW f \in Nat, NEW e, e = Entry(key, v, f) PROVE Small(e, key)
    OBVIOUS
  <1>1. Len(v) \in Nat
    OBVIOUS
  <1>2. CASE Len(v) <= MaxInline
    <2>1. e = [key |-> key, size |-> LeafHeader + Len(v), data |-> <<"Inline", v>>]
      BY <1>2 DEF Entry
    <2>2. <<"Inline", v>> \in Data
      BY DEF Data
    <2>3. LeafHeader + Len(v) \in Nat
      BY <1>1, Sizes
    <2> QED
      BY <1>1, <1>2, <2>1, <2>2, <2>3, Sizes DEF Item, ItemCost, Small
  <1>3. CASE ~(Len(v) <= MaxInline)
    <2>1. e = [key |-> key, size |-> OverflowDescriptor, data |-> <<"Overflow", Len(v), f>>]
      BY <1>3 DEF Entry
    <2>2. <<"Overflow", Len(v), f>> \in Data
      BY <1>1 DEF Data
    <2> QED
      BY <2>1, <2>2, Sizes DEF Item, ItemCost, Small
  <1> QED
    BY <1>2, <1>3

\* The items, with e for what there was of the key; and without it.
Gains(old, items, key, e) == \A x : In(items, x) <=> x = e \/ (In(old, x) /\ x.key # key)

Loses(old, items, key) == \A x : In(items, x) <=> In(old, x) /\ x.key # key

\* A leaf in which an entry is put in or replaced.
LEMMA ContentsPut ==
  ASSUME NEW T, NEW r, NEW g, NEW left, NEW right, TreeOK(T, r, g, left, right), NEW a \in DOMAIN T, T[a].kind = "Leaf",
         NEW key \in Nat, Covers(g, a, key), NEW D, NEW ch, ContentsOK(T, D, ch),
         NEW v, NEW D2, Sets(D, key, v, D2), NEW c, NEW ch2, ch2[key] = c, Same(ch, ch2, D, key),
         NEW e, e = Entry(key, v, Link(c, 1)), e.key = key,
         NEW page, page.kind = "Leaf", Gains(T[a].items, page.items, key, e),
         NEW T2, Sets(T, a, page, T2)
  PROVE  ContentsOK(T2, D2, ch2)
  <1>1. /\ \A x : Has(T, x) => x.key \in DOMAIN D /\ x = Entry(x.key, D[x.key], Link(ch[x.key], 1))
        /\ \A k \in DOMAIN D : \E x : Has(T, x) /\ x.key = k
    BY ContentsAre
  <1>2. DOMAIN T2 = DOMAIN T /\ T2[a] = page /\ \A b \in DOMAIN T : b # a => T2[b] = T[b]
    BY DEF Sets
  <1>3. ASSUME NEW x, Has(T2, x) PROVE x = e \/ (Has(T, x) /\ x.key # key)
    <2>1. PICK b \in DOMAIN T2 : T2[b].kind = "Leaf" /\ In(T2[b].items, x)
      BY <1>3 DEF Has
    <2>2. CASE b = a
      BY <1>2, <2>1, <2>2 DEF Has, Gains
    <2>3. CASE b # a
      <3>1. b \in DOMAIN T /\ T[b].kind = "Leaf" /\ In(T[b].items, x)
        BY <1>2, <2>1, <2>3
      <3>2. x.key # key
        BY <2>3, <3>1, LeafHolds
      <3> QED
        BY <3>1, <3>2 DEF Has
    <2> QED
      BY <2>2, <2>3
  <1>4. ASSUME NEW x, Has(T, x), x.key # key PROVE Has(T2, x)
    <2>1. PICK b \in DOMAIN T : T[b].kind = "Leaf" /\ In(T[b].items, x)
      BY <1>4 DEF Has
    <2>2. CASE b = a
      BY <1>2, <1>4, <2>1, <2>2 DEF Has, Gains
    <2>3. CASE b # a
      BY <1>2, <2>1, <2>3 DEF Has
    <2> QED
      BY <2>2, <2>3
  <1>5. Has(T2, e)
    BY <1>2 DEF Has, Gains
  <1>6. DOMAIN D2 = DOMAIN D \cup {key} /\ D2[key] = v /\ \A y \in DOMAIN D : y # key => D2[y] = D[y]
    BY DEF Sets
  <1>7. ASSUME NEW x, Has(T2, x) PROVE x.key \in DOMAIN D2 /\ x = Entry(x.key, D2[x.key], Link(ch2[x.key], 1))
    <2>1. CASE x = e
      BY <1>6, <2>1
    <2>2. CASE Has(T, x) /\ x.key # key
      <3>1. x.key \in DOMAIN D /\ x = Entry(x.key, D[x.key], Link(ch[x.key], 1))
        BY <1>1, <2>2
      <3>2. D2[x.key] = D[x.key] /\ ch2[x.key] = ch[x.key]
        BY <1>6, <2>2, <3>1 DEF Same
      <3> QED
        BY <1>6, <3>1, <3>2
    <2> QED
      BY <1>3, <1>7, <2>1, <2>2
  <1>8. ASSUME NEW k \in DOMAIN D2 PROVE \E x : Has(T2, x) /\ x.key = k
    <2>1. CASE k = key
      BY <1>5, <2>1
    <2>2. CASE k # key
      <3>1. k \in DOMAIN D
        BY <1>6, <2>2
      <3>2. PICK x : Has(T, x) /\ x.key = k
        BY <1>1, <3>1
      <3> QED
        BY <1>4, <2>2, <3>2
    <2> QED
      BY <2>1, <2>2
  <1> QED
    BY <1>7, <1>8, ContentsAre

\* A leaf from which an entry is removed.
LEMMA ContentsDrop ==
  ASSUME NEW T, NEW r, NEW g, NEW left, NEW right, TreeOK(T, r, g, left, right), NEW a \in DOMAIN T, T[a].kind = "Leaf",
         NEW key \in Nat, Covers(g, a, key), NEW D, NEW ch, ContentsOK(T, D, ch), NEW D2, Drops(D, key, D2),
         NEW page, page.kind = "Leaf", Loses(T[a].items, page.items, key),
         NEW T2, Sets(T, a, page, T2)
  PROVE  ContentsOK(T2, D2, ch)
  <1>1. /\ \A x : Has(T, x) => x.key \in DOMAIN D /\ x = Entry(x.key, D[x.key], Link(ch[x.key], 1))
        /\ \A k \in DOMAIN D : \E x : Has(T, x) /\ x.key = k
    BY ContentsAre
  <1>2. DOMAIN T2 = DOMAIN T /\ T2[a] = page /\ \A b \in DOMAIN T : b # a => T2[b] = T[b]
    BY DEF Sets
  <1>3. ASSUME NEW x, Has(T2, x) PROVE Has(T, x) /\ x.key # key
    <2>1. PICK b \in DOMAIN T2 : T2[b].kind = "Leaf" /\ In(T2[b].items, x)
      BY <1>3 DEF Has
    <2>2. CASE b = a
      BY <1>2, <2>1, <2>2 DEF Has, Loses
    <2>3. CASE b # a
      <3>1. b \in DOMAIN T /\ T[b].kind = "Leaf" /\ In(T[b].items, x)
        BY <1>2, <2>1, <2>3
      <3>2. x.key # key
        BY <2>3, <3>1, LeafHolds
      <3> QED
        BY <3>1, <3>2 DEF Has
    <2> QED
      BY <2>2, <2>3
  <1>4. ASSUME NEW x, Has(T, x), x.key # key PROVE Has(T2, x)
    <2>1. PICK b \in DOMAIN T : T[b].kind = "Leaf" /\ In(T[b].items, x)
      BY <1>4 DEF Has
    <2>2. CASE b = a
      BY <1>2, <1>4, <2>1, <2>2 DEF Has, Loses
    <2>3. CASE b # a
      BY <1>2, <2>1, <2>3 DEF Has
    <2> QED
      BY <2>2, <2>3
  <1>6. DOMAIN D2 = DOMAIN D \ {key} /\ \A y \in DOMAIN D2 : D2[y] = D[y]
    BY DEF Drops
  <1>7. ASSUME NEW x, Has(T2, x) PROVE x.key \in DOMAIN D2 /\ x = Entry(x.key, D2[x.key], Link(ch[x.key], 1))
    <2>1. Has(T, x) /\ x.key # key
      BY <1>3, <1>7
    <2>2. x.key \in DOMAIN D /\ x = Entry(x.key, D[x.key], Link(ch[x.key], 1))
      BY <1>1, <2>1
    <2>3. x.key \in DOMAIN D2
      BY <1>6, <2>1, <2>2
    <2> QED
      BY <1>6, <2>2, <2>3
  <1>8. ASSUME NEW k \in DOMAIN D2 PROVE \E x : Has(T2, x) /\ x.key = k
    <2>1. k \in DOMAIN D /\ k # key
      BY <1>6
    <2>2. PICK x : Has(T, x) /\ x.key = k
      BY <1>1, <2>1
    <2> QED
      BY <1>4, <2>1, <2>2
  <1> QED
    BY <1>7, <1>8, ContentsAre

\* A leaf whose items are divided between two.
LEMMA ContentsSplit ==
  ASSUME NEW T, NEW D, NEW ch, ContentsOK(T, D, ch), NEW a \in DOMAIN T, T[a].kind = "Leaf",
         NEW b, b \notin DOMAIN T, NEW pa, NEW pb, NEW T2, Splits(T, a, pa, b, pb, T2),
         pa.kind = "Leaf", pb.kind = "Leaf", Joined(pa.items, pb.items, T[a].items)
  PROVE  ContentsOK(T2, D, ch)
  <1>1. DOMAIN T2 = DOMAIN T \cup {b} /\ T2[a] = pa /\ T2[b] = pb /\ \A c \in DOMAIN T : c # a => T2[c] = T[c]
    BY DEF Splits
  <1>2. \A x : In(T[a].items, x) <=> In(pa.items, x) \/ In(pb.items, x)
    BY InJoined
  <1>3. ASSUME NEW x PROVE Has(T2, x) <=> Has(T, x)
    <2>1. ASSUME Has(T2, x) PROVE Has(T, x)
      <3>1. PICK c \in DOMAIN T2 : T2[c].kind = "Leaf" /\ In(T2[c].items, x)
        BY <2>1 DEF Has
      <3>2. CASE c = a \/ c = b
        BY <1>1, <1>2, <3>1, <3>2 DEF Has
      <3>3. CASE c # a /\ c # b
        BY <1>1, <3>1, <3>3 DEF Has
      <3> QED
        BY <3>2, <3>3
    <2>2. ASSUME Has(T, x) PROVE Has(T2, x)
      <3>1. PICK c \in DOMAIN T : T[c].kind = "Leaf" /\ In(T[c].items, x)
        BY <2>2 DEF Has
      <3>2. CASE c = a
        BY <1>1, <1>2, <3>1, <3>2 DEF Has
      <3>3. CASE c # a
        BY <1>1, <3>1, <3>3 DEF Has
      <3> QED
        BY <3>2, <3>3
    <2> QED
      BY <2>1, <2>2
  <1> QED
    BY <1>3, ContentsAre

\* An item put in at its place keeps the order.
LEMMA InsertedSorted ==
  ASSUME NEW q \in Seq(Item), Sorted(q), NEW i \in 1 .. Len(q) + 1, NEW e \in Item, NEW r, Inserted(q, i, e, r),
         \A j \in 1 .. i - 1 : q[j].key < e.key, \A j \in i .. Len(q) : e.key < q[j].key
  PROVE  Sorted(r)
  <1>1. Len(q) \in Nat /\ Len(r) = Len(q) + 1 /\ r[i] = e /\ (\A j \in 1 .. i - 1 : r[j] = q[j])
        /\ \A j \in i + 1 .. Len(q) + 1 : r[j] = q[j - 1]
    BY DEF Inserted
  <1>2. ASSUME NEW a \in 1 .. Len(r), NEW b \in 1 .. Len(r), a < b PROVE r[a].key < r[b].key
    <2>1. CASE b < i
      <3>1. a \in 1 .. i - 1 /\ b \in 1 .. i - 1 /\ a \in 1 .. Len(q) /\ b \in 1 .. Len(q)
        BY <1>1, <1>2, <2>1
      <3>2. q[a].key < q[b].key
        BY <1>2, <3>1 DEF Sorted
      <3> QED
        BY <1>1, <3>1, <3>2
    <2>2. CASE b = i
      <3>1. a \in 1 .. i - 1
        BY <1>1, <1>2, <2>2
      <3> QED
        BY <1>1, <2>2, <3>1
    <2>3. CASE b > i
      <3>1. b \in i + 1 .. Len(q) + 1 /\ b - 1 \in i .. Len(q) /\ b - 1 \in 1 .. Len(q)
        BY <1>1, <2>3
      <3>2. r[b] = q[b - 1] /\ e.key < q[b - 1].key
        BY <1>1, <3>1
      <3>3. CASE a = i
        BY <1>1, <3>2, <3>3
      <3>4. CASE a < i
        <4>1. a \in 1 .. i - 1 /\ a \in 1 .. Len(q) /\ a < b - 1
          BY <1>1, <2>3, <3>4
        <4>2. q[a].key < q[b - 1].key
          BY <3>1, <4>1 DEF Sorted
        <4> QED
          BY <1>1, <3>2, <4>1, <4>2
      <3>5. CASE a > i
        <4>1. a \in i + 1 .. Len(q) + 1 /\ a - 1 \in 1 .. Len(q) /\ a - 1 < b - 1
          BY <1>1, <1>2, <3>5
        <4>2. q[a - 1].key < q[b - 1].key
          BY <3>1, <4>1 DEF Sorted
        <4> QED
          BY <1>1, <3>2, <4>1, <4>2
      <3> QED
        BY <1>1, <3>3, <3>4, <3>5
    <2> QED
      BY <1>1, <2>1, <2>2, <2>3
  <1> QED
    BY <1>2 DEF Sorted

\* Payloads are sequences of bytes.
Payload(D) == \A k \in DOMAIN D : D[k] \in Seq(Nat)

\* The items of a leaf are small.
LEMMA LeafItemCost ==
  ASSUME NEW T, NEW D, NEW ch, ContentsOK(T, D, ch), Payload(D),
         NEW a \in DOMAIN T, T[a].kind = "Leaf", NEW x, In(T[a].items, x)
  PROVE  ItemCost(x) <= SlotSize + LeafHeader + MaxInline
  <1>1. Has(T, x)
    BY DEF Has
  <1>2. x.key \in DOMAIN D /\ x = Entry(x.key, D[x.key], Link(ch[x.key], 1))
    BY <1>1, ContentsAre
  <1>3. PICK v \in Seq(Nat) : v = D[x.key]
    BY <1>2 DEF Payload
  <1>4. Len(v) \in Nat
    OBVIOUS
  <1>5. PICK k, f : x = Entry(k, v, f)
    BY <1>2, <1>3
  <1>6. CASE Len(v) <= MaxInline
    <2>1. x = [key |-> k, size |-> LeafHeader + Len(v), data |-> <<"Inline", v>>]
      BY <1>5, <1>6 DEF Entry
    <2>2. x.size = LeafHeader + Len(v)
      BY <2>1
    <2> QED
      BY <1>4, <1>6, <2>2, Sizes DEF ItemCost
  <1>7. CASE ~(Len(v) <= MaxInline)
    <2>1. x = [key |-> k, size |-> OverflowDescriptor, data |-> <<"Overflow", Len(v), f>>]
      BY <1>5, <1>7 DEF Entry
    <2>2. x.size = OverflowDescriptor
      BY <2>1
    <2> QED
      BY <2>2, Sizes DEF ItemCost
  <1> QED
    BY <1>6, <1>7

\* Items that a node is responsible for.
Within(g, a, items) == \A i \in 1 .. Len(items) : g.lo[a] <= items[i].key /\ Before(items[i].key, g.hi[a])

\* Where an entry for a key goes in a leaf.
Gap(items, key, at) ==
  /\ at \in 1 .. Len(items) + 1
  /\ \A j \in 1 .. at - 1 : items[j].key < key
  /\ \A j \in at .. Len(items) : key < items[j].key

\* The leaf's items with a new entry: sorted, within the leaf's bounds, and the
\* new entry besides the old ones.
Takes(g, a, old, key, e, items) ==
  /\ Sorted(items) /\ items \in Seq(Item) /\ Len(items) = Len(old) + 1 /\ Within(g, a, items)
  /\ Gains(old, items, key, e)
  /\ Cost(items) = Cost(old) + ItemCost(e)

\* A new item put into its gap leaves the items sorted and within the leaf's range.
LEMMA LeafTakes ==
  ASSUME NEW g, NEW a, NEW old \in Seq(Item), Sorted(old), Within(g, a, old), NEW key \in Nat, Covers(g, a, key),
         NEW at, Gap(old, key, at), NEW e \in Item, e.key = key, NEW items, Inserted(old, at, e, items)
  PROVE  Takes(g, a, old, key, e, items)
  <1>2. /\ old \in Seq(Item) /\ Len(old) \in Nat /\ Sorted(old) /\ \A i \in 1 .. Len(old) : old[i].key \in Nat
        /\ \A i \in 1 .. Len(old) : g.lo[a] <= old[i].key /\ Before(old[i].key, g.hi[a])
    <2>1. \A i \in 1 .. Len(old) : old[i] \in Item
      OBVIOUS
    <2> QED
      BY <2>1 DEF Item, Within
  <1>3. /\ at \in 1 .. Len(old) + 1 /\ (\A j \in 1 .. at - 1 : old[j].key < e.key) /\ \A j \in at .. Len(old) : e.key < old[j].key
    BY DEF Gap
  <1>4. Inserted(old, at, e, items)
    OBVIOUS
  <1>5. Sorted(items)
    BY <1>2, <1>3, <1>4, InsertedSorted
  <1>6. items \in Seq(Item) /\ Len(items) = Len(old) + 1
    BY <1>4 DEF Inserted
  <1>7. \A x : In(items, x) <=> x = e \/ In(old, x)
    BY <1>2, <1>3, <1>4, InInserted
  <1>8. ASSUME NEW i \in 1 .. Len(items) PROVE g.lo[a] <= items[i].key /\ Before(items[i].key, g.hi[a])
    <2>1. In(items, items[i])
      BY DEF In
    <2>2. CASE items[i] = e
      BY <2>2 DEF Covers
    <2>3. CASE In(old, items[i])
      BY <1>2, <2>3 DEF In
    <2> QED
      BY <1>7, <2>1, <2>2, <2>3
  <1>9. ASSUME NEW x, In(old, x) PROVE x.key # key
    <2>1. PICK j \in 1 .. Len(old) : old[j] = x
      BY <1>9 DEF In
    <2>2. CASE j < at
      <3>1. j \in 1 .. at - 1
        BY <1>3, <2>2
      <3>2. old[j].key < key
        BY <1>3, <3>1
      <3> QED
        BY <1>2, <2>1, <3>2
    <2>3. CASE j >= at
      <3>1. j \in at .. Len(old)
        BY <1>3, <2>3
      <3>2. key < old[j].key
        BY <1>3, <3>1
      <3> QED
        BY <1>2, <2>1, <3>2
    <2> QED
      BY <1>3, <2>2, <2>3
  <1>10. Cost(items) = Cost(old) + ItemCost(e)
    BY <1>2, <1>3, <1>4, CostInserted
  <1> QED
    BY <1>5, <1>6, <1>7, <1>8, <1>9, <1>10 DEF Takes, Gains, Within

\* The path leads to leaf a, which is responsible for the key.
Located(s, r, g, q, D, ch, key, path, m, a) ==
  /\ FileOK(s, q) /\ TreeOK(Tree(s), r, g, NoPage, NoPage) /\ ContentsOK(Tree(s), D, ch)
  /\ \A b \in Nodes(s) : FitsOK(s.pages[b])
  /\ m \in Nat /\ Len(path) = m + 1 /\ Last(path) = a /\ PathTo(Tree(s), r, g, path, m, a)
  /\ a \in Nodes(s) /\ s.pages[a].kind = "Leaf" /\ Covers(g, a, key)

\* e is the entry for the payload v and the chain c, which D2 and ch2 add to D and ch.
NewEntry(D, ch, key, v, c, e, D2, ch2) ==
  /\ v \in Seq(Nat) /\ Link(c, 1) \in Nat /\ e = Entry(key, v, Link(c, 1))
  /\ Sets(D, key, v, D2) /\ ch2[key] = c /\ Same(ch, ch2, D, key)

\* An insertion has succeeded.
Whole(res, D, L, ch) ==
  res.outcome = "ok" /\ \E g, q : Mid(res.s, res.root, D, L, g, q, ch, NoPage, NoPage)

\* A leaf with items is split: the new entry is in the tree.
LEMMA SplitLeafOK ==
  ASSUME NEW s, NEW r, NEW g, NEW q, NEW D, NEW ch, NEW key \in Nat, NEW path, NEW m, NEW a,
         Located(s, r, g, q, D, ch, key, path, m, a), Payload(D),
         Len(s.pages[a].items) > 0, NEW at, Gap(s.pages[a].items, key, at),
         NEW v, NEW c, NEW e, NEW D2, NEW ch2, NewEntry(D, ch, key, v, c, e, D2, ch2),
         NEW L, ChainsOK(Over(s), ch2, D2, L), NEW res, res = SplitLeaf(s, r, path, at, e)
  PROVE  Whole(res, D2, L, ch2)
  <1>a. /\ FileOK(s, q) /\ TreeOK(Tree(s), r, g, NoPage, NoPage) /\ ContentsOK(Tree(s), D, ch)
        /\ \A b \in Nodes(s) : FitsOK(s.pages[b])
    BY DEF Located
  <1>b. /\ m \in Nat /\ Len(path) = m + 1 /\ Last(path) = a /\ PathTo(Tree(s), r, g, path, m, a)
        /\ a \in Nodes(s) /\ s.pages[a].kind = "Leaf" /\ Covers(g, a, key)
    BY DEF Located
  <1>c. v \in Seq(Nat) /\ Link(c, 1) \in Nat /\ e = Entry(key, v, Link(c, 1)) /\ Sets(D, key, v, D2)
        /\ ch2[key] = c /\ Same(ch, ch2, D, key)
    BY DEF NewEntry
  <1>1. PICK page : page = s.pages[a]
    OBVIOUS
  <1>2. PICK T : T = Tree(s)
    OBVIOUS
  <1>3. TreeOK(T, r, g, NoPage, NoPage) /\ ContentsOK(T, D, ch) /\ PathTo(T, r, g, path, m, a)
    BY <1>a, <1>b, <1>2
  <1>4. page \in Node /\ DOMAIN T = Nodes(s) /\ T[a] = page /\ page.extra <= Len(s.pages) /\ Len(s.pages) \in Nat
        /\ a \in DOMAIN T /\ page.kind = "Leaf" /\ FitsOK(page)
    <2>1. s.pages[a] \in Node /\ a \in DOMAIN s.pages /\ DOMAIN s.pages = 1 .. Len(s.pages) /\ Len(s.pages) \in Nat
      BY <1>a, <1>b, FileFacts, Parts
    <2>2. DOMAIN Tree(s) = Nodes(s) /\ Tree(s)[a] = s.pages[a]
      BY <1>b, Parts
    <2>3. s.pages[a].extra <= Len(s.pages)
      BY <1>a, <2>1 DEF FileOK, Linked
    <2> QED
      BY <1>a, <1>b, <1>1, <1>2, <2>1, <2>2, <2>3
  <1>5. NodeOK(T, g, a)
    BY <1>3, <1>4, TreeFacts
  <1>6. page.items \in Seq(Item) /\ Len(page.items) \in Nat /\ page.free \in Nat /\ page.extra \in Nat
    BY <1>4 DEF Node
  <1>7. e \in Item /\ e.key = key /\ ItemCost(e) \in Nat /\ ItemCost(e) <= SlotSize + LeafHeader + MaxInline
    <2>1. Small(e, key)
      BY <1>c, EntryFacts, Zenon
    <2> QED
      BY <2>1 DEF Small
  <1>8. PICK items : items = InsertAt(page.items, at, e)
    OBVIOUS
  <1>9. Inserted(page.items, at, e, items)
    <2>1. at \in 1 .. Len(page.items) + 1
      BY <1>1 DEF Gap
    <2> QED
      BY <1>6, <1>7, <1>8, <2>1, InsertAtIs
  <1>46. Takes(g, a, page.items, key, e, items)
    <2>1. Gap(page.items, key, at)
      BY <1>1
    <2>2. Sorted(page.items) /\ Within(g, a, page.items)
      BY <1>4, <1>5, NodeFacts DEF Within
    <2> QED
      BY <1>b, <1>6, <1>7, <1>9, <2>1, <2>2, LeafTakes, Zenon
  <1>10. /\ Sorted(items) /\ items \in Seq(Item) /\ Len(items) = Len(page.items) + 1
         /\ (\A i \in 1 .. Len(items) : g.lo[a] <= items[i].key /\ Before(items[i].key, g.hi[a]))
         /\ Gains(page.items, items, key, e)
         /\ Cost(items) = Cost(page.items) + ItemCost(e)
    BY <1>46 DEF Takes, Within
  <1>11. Len(items) >= 2 /\ Len(items) \in Nat
    BY <1>1, <1>6, <1>10
  <1>12. PICK M \in Nat : M = SlotSize + LeafHeader + MaxInline /\ 3 * M <= PageSpace
    BY Sizes
  <1>13. ASSUME NEW i \in 1 .. Len(items) PROVE ItemCost(items[i]) <= M
    <2>1. In(items, items[i])
      BY DEF In
    <2>2. CASE items[i] = e
      BY <1>7, <1>12, <2>2
    <2>3. CASE In(page.items, items[i])
      <3>1. In(T[a].items, items[i]) /\ T[a].kind = "Leaf"
        BY <1>4, <2>3
      <3> QED
        BY <1>3, <1>4, <1>12, <3>1, LeafItemCost
    <2> QED
      BY <1>10, <2>1, <2>2, <2>3 DEF Gains
  <1>14. Cost(items) <= PageSpace + M
    <2>1. Cost(page.items) \in Nat /\ PageSpace \in Nat
      BY <1>6, CostNat, Sizes
    <2>2. page.free + Cost(page.items) <= PageSpace
      BY <1>4 DEF FitsOK
    <2> QED
      BY <1>6, <1>7, <1>10, <1>12, <2>1, <2>2
  <1>15. PICK k : k = SplitAt(items)
    OBVIOUS
  <1>16. PICK lft : lft = SubSeq(items, 1, k)
    OBVIOUS
  <1>17. PICK rgt : rgt = SubSeq(items, k + 1, Len(items))
    OBVIOUS
  <1>18. k \in 1 .. Len(items) - 1 /\ Cost(lft) <= PageSpace /\ Cost(rgt) <= PageSpace
    BY <1>10, <1>11, <1>12, <1>13, <1>14, <1>15, <1>16, <1>17, Halves
  <1>19. k \in 0 .. Len(items)
    BY <1>11, <1>18
  <1>20. Joined(lft, rgt, items) /\ Len(lft) = k /\ Len(rgt) = Len(items) - k
    BY <1>10, <1>16, <1>17, <1>19, Cut
  <1>21. lft \in Seq(Item) /\ rgt \in Seq(Item) /\ Len(lft) > 0 /\ Len(rgt) > 0 /\ Cost(lft) \in Nat /\ Cost(rgt) \in Nat
    <2>1. lft \in Seq(Item) /\ rgt \in Seq(Item)
      BY <1>20 DEF Joined
    <2> QED
      BY <1>11, <1>18, <1>20, <2>1, CostNat
  <1>22. PICK new : new = AllocPage(s, "Leaf")
    OBVIOUS
  <1>23. /\ Len(s.pages) <= Len(new.s.pages) /\ Len(new.s.pages) \in Nat /\ new.id <= Len(new.s.pages) /\ new.id \in Nat \ {0}
    <2>1. PICK q3 : FileOK(new.s, q3)
      BY <1>a, <1>22, AllocNode
    <2>2. Len(new.s.pages) \in Nat
      BY <2>1, FileFacts
    <2> QED
      BY <1>a, <1>22, <2>2, AllocNode
  <1>24. PICK pa : pa = Filled("Leaf", new.id, lft)
    OBVIOUS
  <1>25. PICK pb : pb = Filled("Leaf", page.extra, rgt)
    OBVIOUS
  <1>26. pa \in Node /\ pa.kind = "Leaf" /\ pa.extra = new.id /\ pa.items = lft /\ pa.free + Cost(pa.items) = PageSpace
    BY <1>18, <1>21, <1>23, <1>24, FilledIs
  <1>27. pb \in Node /\ pb.kind = "Leaf" /\ pb.extra = page.extra /\ pb.items = rgt /\ pb.free + Cost(pb.items) = PageSpace
    <2>1. page.extra \in Nat /\ rgt \in Seq(Item) /\ Cost(rgt) <= PageSpace
      BY <1>6, <1>18, <1>21
    <2> QED
      BY <1>25, <2>1, FilledIs
  <1>28. pa.extra <= Len(new.s.pages) /\ pb.extra <= Len(new.s.pages)
    BY <1>4, <1>6, <1>23, <1>26, <1>27
  <1>29. PICK s2 : s2 = Put(Put(new.s, a, pa), new.id, pb)
    OBVIOUS
  <1>30. PICK q2 : FileOK(s2, q2)
    BY <1>a, <1>b, <1>22, <1>26, <1>27, <1>28, <1>29, SplitFile
  <1>31. /\ Splits(Tree(s), a, pa, new.id, pb, Tree(s2)) /\ Over(s2) = Over(s)
         /\ new.id \notin Nodes(s) /\ new.id \in Nat \ {0}
    BY <1>a, <1>b, <1>22, <1>26, <1>27, <1>28, <1>29, SplitFile
  <1>32. PICK b : b = new.id
    OBVIOUS
  <1>33. PICK T2 : T2 = Tree(s2)
    OBVIOUS
  <1>34. Splits(T, a, pa, b, pb, T2) /\ b \notin DOMAIN T /\ b \in Nat \ {0}
    BY <1>2, <1>4, <1>31, <1>32, <1>33
  <1>35. PICK g2 : Halved(T, g, a, b, pb.items[1].key, g2) /\ TreeOK(T2, r, g2, a, b)
    <2>1. T[a].kind = "Leaf" /\ pa.extra = b /\ pb.extra = T[a].extra /\ Joined(pa.items, pb.items, items)
          /\ Len(pa.items) > 0 /\ Len(pb.items) > 0
      BY <1>4, <1>20, <1>21, <1>26, <1>27, <1>32
    <2> QED
      BY <1>3, <1>4, <1>10, <1>26, <1>27, <1>34, <2>1, LeafSplit
  <1>36. ContentsOK(T2, D2, ch2)
    <2>1. PICK vp : vp = [kind |-> "Leaf", extra |-> page.extra, items |-> items, free |-> 0]
      OBVIOUS
    <2>2. vp.kind = "Leaf" /\ vp.items = items
      BY <2>1
    <2>3. PICK T1 : T1 = [T EXCEPT ![a] = vp]
      OBVIOUS
    <2>4. Sets(T, a, vp, T1) /\ DOMAIN T1 = DOMAIN T /\ T1[a] = vp
      BY <1>4, <2>3 DEF Sets
    <2>5. Gains(T[a].items, vp.items, key, e) /\ T[a].kind = "Leaf"
      BY <1>4, <1>10, <2>2
    <2>6. ContentsOK(T1, D2, ch2)
      BY <1>b, <1>c, <1>3, <1>4, <1>7, <2>2, <2>4, <2>5, ContentsPut
    <2>7. Splits(T1, a, pa, b, pb, T2)
      BY <1>4, <1>34, <2>3 DEF Splits
    <2>8. T1[a].kind = "Leaf" /\ Joined(pa.items, pb.items, T1[a].items) /\ b \notin DOMAIN T1 /\ a \in DOMAIN T1
      BY <1>4, <1>20, <1>26, <1>27, <1>34, <2>2, <2>4
    <2> QED
      BY <1>26, <1>27, <2>6, <2>7, <2>8, ContentsSplit
  <1>37. \A d \in Nodes(s2) : FitsOK(s2.pages[d])
    <2>1. FitsOK(pa)
      BY <1>26, Sizes DEF FitsOK
    <2>2. FitsOK(pb)
      BY <1>27, Sizes DEF FitsOK
    <2> QED
      BY <1>a, <1>31, <2>1, <2>2, FitsSplit
  <1>38. Mid(s2, r, D2, L, g2, q2, ch2, a, b)
    BY <1>30, <1>31, <1>33, <1>35, <1>36, <1>37 DEF Mid
  <1>39. a # NoPage
    BY <1>3, <1>4, TreeFacts DEF NoPage
  <1>40. PICK p2 : p2 = Front(path)
    OBVIOUS
  <1>41. p2 \in Seq(Nat) /\ Len(p2) = m /\ \A i \in 1 .. m : p2[i] = path[i]
    <2>1. path \in Seq(Nat)
      BY <1>3 DEF PathTo
    <2>2. p2 = SubSeq(path, 1, m)
      BY <1>b, <1>40 DEF Front
    <2> QED
      BY <1>b, <2>1, <2>2
  <1>42. PathTo(T2, r, g2, p2, m, a)
    <2>1. \A i \in 1 .. m : path[i] \in DOMAIN T /\ T[path[i]].kind = "Internal"
      BY <1>3 DEF PathTo
    <2>2. ASSUME NEW i \in 1 .. m
          PROVE  path[i] \in DOMAIN T2 /\ T2[path[i]] = T[path[i]] /\ g2.lvl[path[i]] = g.lvl[path[i]]
      <3>1. path[i] \in DOMAIN T /\ path[i] # a
        BY <1>4, <2>1
      <3> QED
        BY <1>34, <1>35, <3>1 DEF Splits, Halved
    <2>3. g2.lvl[r] = g.lvl[r] /\ m <= Len(p2)
      <3>1. r \in DOMAIN T
        BY <1>3, TreeFacts
      <3> QED
        BY <1>35, <1>41, <3>1 DEF Halved
    <2> QED
      BY <1>b, <1>3, <1>41, <2>2, <2>3, PathKept
  <1>43. PICK sep : sep = rgt[1].key
    OBVIOUS
  <1>44. sep = g2.lo[b]
    BY <1>27, <1>35, <1>43 DEF Halved
  <1>45. res = Propagate(s2, r, p2, sep, b)
    <2>1. ~(Len(items) < 2) /\ ~(Cost(lft) > PageSpace) /\ ~(Cost(rgt) > PageSpace)
      BY <1>11, <1>18, <1>21, Sizes
    <2> QED
      BY <1>b, <1>1, <1>8, <1>15, <1>16, <1>17, <1>22, <1>24, <1>25, <1>29, <1>32, <1>40, <1>43, <2>1, Zenon DEF SplitLeaf
  <1> QED
    <2>1. PathTo(Tree(s2), r, g2, p2, Len(p2), a)
      BY <1>33, <1>41, <1>42
    <2>2. res.outcome = "ok" /\ \E g3, q3 : Mid(res.s, res.root, D2, L, g3, q3, ch2, NoPage, NoPage)
      BY <1>38, <1>39, <1>44, <1>45, <2>1, PropagateOK
    <2> QED
      BY <2>2 DEF Whole

\* A leaf without the item of a key.
Dropped(g, a, old, key, at, items) ==
  /\ Sorted(items) /\ items \in Seq(Item) /\ Len(items) = Len(old) - 1 /\ Within(g, a, items)
  /\ Loses(old, items, key) /\ Gap(items, key, at)
  /\ Cost(old) = Cost(items) + ItemCost(old[at])

\* What is left of a leaf is sorted and within its bounds.
LEMMA LeafDrops ==
  ASSUME NEW g, NEW a, NEW old \in Seq(Item), Sorted(old), Within(g, a, old), NEW key \in Nat,
         NEW at \in 1 .. Len(old), old[at].key = key, NEW items, Removed(old, at, items)
  PROVE  Dropped(g, a, old, key, at, items)
  <1>1. items \in Seq(Item) /\ Len(old) \in Nat /\ Len(items) = Len(old) - 1
        /\ (\A j \in 1 .. at - 1 : items[j] = old[j]) /\ \A j \in at .. Len(old) - 1 : items[j] = old[j + 1]
    BY DEF Removed
  <1>2. Cost(old) = Cost(items) + ItemCost(old[at])
    BY RemovedInserted
  <1>3. Loses(old, items, key)
    <2>1. \A x : In(items, x) <=> In(old, x) /\ x.key # old[at].key
      BY InRemoved
    <2> QED
      BY <2>1 DEF Loses
  <1>4. ASSUME NEW j \in 1 .. Len(items)
        PROVE  \E i \in 1 .. Len(old) : items[j] = old[i] /\ (j < at => i = j) /\ (j >= at => i = j + 1)
    <2>1. CASE j < at
      <3>1. j \in 1 .. at - 1 /\ j \in 1 .. Len(old)
        BY <1>1, <2>1
      <3> QED
        BY <1>1, <2>1, <3>1
    <2>2. CASE j >= at
      <3>1. j \in at .. Len(old) - 1 /\ j + 1 \in 1 .. Len(old)
        BY <1>1, <2>2
      <3> QED
        BY <1>1, <2>2, <3>1
    <2> QED
      BY <1>1, <2>1, <2>2
  <1>5. Within(g, a, items)
    BY <1>4 DEF Within
  <1>6. ASSUME NEW i \in 1 .. Len(items), NEW j \in 1 .. Len(items), i < j PROVE items[i].key < items[j].key
    <2>1. PICK x \in 1 .. Len(old) : items[i] = old[x] /\ (i < at => x = i) /\ (i >= at => x = i + 1)
      BY <1>4
    <2>2. PICK y \in 1 .. Len(old) : items[j] = old[y] /\ (j < at => y = j) /\ (j >= at => y = j + 1)
      BY <1>4
    <2>3. x < y
      BY <1>1, <1>6, <2>1, <2>2
    <2> QED
      BY <2>1, <2>2, <2>3 DEF Sorted
  <1>7. ASSUME NEW j \in 1 .. at - 1 PROVE items[j].key < key
    <2>1. j \in 1 .. Len(old) /\ j < at
      BY <1>1
    <2>2. old[j].key < key
      BY <2>1 DEF Sorted
    <2> QED
      BY <1>1, <2>2
  <1>8. ASSUME NEW j \in at .. Len(items) PROVE key < items[j].key
    <2>1. j \in at .. Len(old) - 1 /\ j + 1 \in 1 .. Len(old) /\ at < j + 1
      BY <1>1
    <2>2. key < old[j + 1].key
      BY <2>1 DEF Sorted
    <2> QED
      BY <1>1, <2>1, <2>2
  <1>9. Gap(items, key, at)
    <2>1. at \in 1 .. Len(items) + 1
      BY <1>1
    <2> QED
      BY <1>7, <1>8, <2>1 DEF Gap
  <1> QED
    BY <1>1, <1>2, <1>3, <1>5, <1>6, <1>9 DEF Dropped, Sorted

\* A page with one item less.
LEMMA RemoveItemIs ==
  ASSUME NEW page \in Node, NEW i \in 1 .. Len(page.items), NEW p2, p2 = RemoveItem(page, i)
  PROVE  /\ p2 \in Node /\ p2.kind = page.kind /\ p2.extra = page.extra /\ Removed(page.items, i, p2.items)
         /\ p2.free = page.free + SlotSize /\ p2.free + Cost(p2.items) <= page.free + Cost(page.items)
  <1>1. page.items \in Seq(Item) /\ page.free \in Nat /\ page.extra \in Nat /\ page.kind \in {"Leaf", "Internal"}
        /\ page = [kind |-> page.kind, extra |-> page.extra, items |-> page.items, free |-> page.free]
    BY DEF Node
  <1>2. PICK mid : mid = RemoveAt(page.items, i)
    OBVIOUS
  <1>3. Removed(page.items, i, mid)
    BY <1>1, <1>2, RemoveAtIs
  <1>4. p2 = [kind |-> page.kind, extra |-> page.extra, items |-> mid, free |-> page.free + SlotSize]
    BY <1>1, <1>2 DEF RemoveItem
  <1>5. mid \in Seq(Item) /\ SlotSize \in Nat
    BY <1>3, Sizes DEF Removed
  <1>6. p2 \in Node /\ p2.kind = page.kind /\ p2.extra = page.extra /\ p2.items = mid /\ p2.free = page.free + SlotSize
    BY <1>1, <1>4, <1>5 DEF Node
  <1>7. Cost(page.items) = Cost(mid) + ItemCost(page.items[i]) /\ page.items[i] \in Item
    BY <1>1, <1>3, RemovedInserted
  <1>8. Cost(mid) \in Nat /\ Cost(page.items) \in Nat
    BY <1>1, <1>5, CostNat
  <1>9. page.items[i].size \in Nat
    BY <1>7 DEF Item
  <1>10. p2.free + Cost(p2.items) <= page.free + Cost(page.items)
    <2>1. PICK old \in Nat : old = Cost(page.items)
      BY <1>8
    <2>2. PICK new \in Nat : new = Cost(mid)
      BY <1>8
    <2>3. PICK size \in Nat : size = page.items[i].size
      BY <1>9
    <2>4. ItemCost(page.items[i]) = size + SlotSize
      BY <2>3 DEF ItemCost
    <2>5. old = new + (size + SlotSize)
      BY <1>7, <2>1, <2>2, <2>4
    <2>6. PICK free \in Nat : free = page.free
      BY <1>1
    <2>7. (free + SlotSize) + new <= free + old
      BY <1>5, <2>5
    <2> QED
      BY <1>6, <2>1, <2>2, <2>6, <2>7
  <1> QED
    BY <1>3, <1>6, <1>10

\* A page with another item in a slot: the old one is taken out, the new one put in.
LEMMA ReplaceItemIs ==
  ASSUME NEW page \in Node, page.kind = "Leaf", FitsOK(page), NEW i \in 1 .. Len(page.items), NEW e \in Item,
         CanReplace(page, i, e), NEW p2, p2 = ReplaceItem(page, i, e)
  PROVE  /\ p2 \in Node /\ p2.kind = "Leaf" /\ p2.extra = page.extra /\ FitsOK(p2)
         /\ \E mid : Removed(page.items, i, mid) /\ Inserted(mid, i, e, p2.items)
  <1>1. page.items \in Seq(Item) /\ page.free \in Nat /\ page.extra \in Nat /\ Len(page.items) \in Nat
        /\ page = [kind |-> page.kind, extra |-> page.extra, items |-> page.items, free |-> page.free]
    BY DEF Node
  <1>2. page.free + Cost(page.items) <= PageSpace /\ PageSpace \in Nat /\ SlotSize \in Nat
    BY Sizes DEF FitsOK
  <1>3. PICK rem : rem = RemoveItem(page, i)
    OBVIOUS
  <1>4. /\ rem \in Node /\ rem.kind = "Leaf" /\ rem.extra = page.extra /\ Removed(page.items, i, rem.items)
        /\ rem.free = page.free + SlotSize /\ rem.free + Cost(rem.items) <= page.free + Cost(page.items)
    BY <1>3, RemoveItemIs
  <1>5. PICK mid : mid = rem.items
    OBVIOUS
  <1>6. mid \in Seq(Item) /\ i \in 1 .. Len(mid) + 1 /\ Removed(page.items, i, mid)
        /\ Cost(page.items) = Cost(mid) + ItemCost(page.items[i]) /\ Cost(mid) \in Nat /\ Cost(page.items) \in Nat
    <2>1. mid \in Seq(Item) /\ i \in 1 .. Len(mid) + 1 /\ Cost(page.items) = Cost(mid) + ItemCost(page.items[i])
      BY <1>1, <1>4, <1>5, RemovedInserted
    <2> QED
      BY <1>1, <1>4, <1>5, <2>1, CostNat
  <1>7. CASE e.size = page.items[i].size
    <2>1. p2 = [page EXCEPT !.items[i] = e]
      BY <1>7 DEF ReplaceItem
    <2>2. PICK new : new = [page.items EXCEPT ![i] = e]
      OBVIOUS
    <2>3. p2 = [kind |-> page.kind, extra |-> page.extra, items |-> new, free |-> page.free]
      BY <1>1, <2>1, <2>2
    <2>4. new \in Seq(Item) /\ Len(new) = Len(page.items) /\ new[i] = e
          /\ \A j \in 1 .. Len(page.items) : j # i => new[j] = page.items[j]
      BY <1>1, <2>2
    <2>5. Len(mid) = Len(page.items) - 1 /\ (\A j \in 1 .. i - 1 : mid[j] = page.items[j])
          /\ \A j \in i .. Len(page.items) - 1 : mid[j] = page.items[j + 1]
      BY <1>6 DEF Removed
    <2>6. ASSUME NEW j \in 1 .. i - 1 PROVE new[j] = mid[j]
      <3>1. j \in 1 .. Len(page.items) /\ j # i
        BY <1>1
      <3> QED
        BY <2>4, <2>5, <3>1
    <2>7. ASSUME NEW j \in i + 1 .. Len(mid) + 1 PROVE new[j] = mid[j - 1]
      <3>1. j \in 1 .. Len(page.items) /\ j # i /\ j - 1 \in i .. Len(page.items) - 1 /\ (j - 1) + 1 = j
        BY <1>1, <2>5
      <3>2. mid[j - 1] = page.items[j]
        BY <2>5, <3>1
      <3> QED
        BY <2>4, <3>1, <3>2
    <2>8. Inserted(mid, i, e, new)
      <3>1. Len(new) = Len(mid) + 1
        BY <1>1, <2>4, <2>5
      <3> QED
        BY <2>4, <2>6, <2>7, <3>1 DEF Inserted
    <2>9. Cost(new) = Cost(mid) + ItemCost(e)
      BY <1>6, <2>8, CostInserted
    <2>10. Cost(new) = Cost(page.items)
      BY <1>6, <1>7, <2>9 DEF ItemCost
    <2>11. p2 \in Node /\ p2.kind = "Leaf" /\ p2.extra = page.extra /\ p2.items = new /\ p2.free = page.free
      BY <1>1, <2>3, <2>4 DEF Node
    <2>12. FitsOK(p2)
      BY <1>2, <2>10, <2>11 DEF FitsOK
    <2> QED
      BY <1>6, <2>8, <2>11, <2>12
  <1>8. CASE e.size # page.items[i].size
    <2>1. PICK vac : vac = Vacated(page, i, e)
      OBVIOUS
    <2>2. CanInsert(vac, e) /\ p2 = InsertItem(vac, i, e)
      BY <1>8, <2>1 DEF CanReplace, ReplaceItem
    <2>3. vac \in Node /\ vac.kind = "Leaf" /\ vac.extra = page.extra /\ vac.items = mid /\ vac.free + Cost(vac.items) <= PageSpace
      <3>1. CASE vac = rem
        <4>1. rem.free + Cost(mid) <= PageSpace
          BY <1>1, <1>2, <1>4, <1>5, <1>6
        <4> QED
          BY <1>4, <1>5, <3>1, <4>1
      <3>2. CASE vac = Compact(rem)
        <4>1. rem = [kind |-> rem.kind, extra |-> rem.extra, items |-> rem.items, free |-> rem.free]
          BY <1>4 DEF Node
        <4>2. vac = [kind |-> rem.kind, extra |-> rem.extra, items |-> mid, free |-> PageSpace - Cost(mid)]
          BY <1>5, <3>2, <4>1 DEF Compact
        <4>3. PageSpace - Cost(mid) \in Nat
          BY <1>1, <1>2, <1>4, <1>5, <1>6
        <4>4. vac.kind = "Leaf" /\ vac.extra = page.extra /\ vac.items = mid /\ vac.free = PageSpace - Cost(mid)
          BY <1>4, <4>2
        <4>5. vac \in Node
          BY <1>1, <1>4, <1>6, <4>2, <4>3 DEF Node
        <4> QED
          BY <1>2, <1>6, <4>4, <4>5
      <3> QED
        BY <1>3, <2>1, <3>1, <3>2 DEF Vacated
    <2>4. /\ p2 \in Node /\ p2.kind = vac.kind /\ p2.extra = vac.extra /\ Inserted(vac.items, i, e, p2.items)
          /\ p2.free + Cost(p2.items) = vac.free + Cost(vac.items)
      <3>1. i \in 1 .. Len(vac.items) + 1
        BY <1>6, <2>3
      <3> QED
        BY <2>2, <2>3, <3>1, InsertItemIs
    <2>5. FitsOK(p2)
      BY <2>3, <2>4 DEF FitsOK
    <2> QED
      BY <1>6, <2>3, <2>4, <2>5
  <1> QED
    BY <1>7, <1>8
-----------------------------------------------------------------------------
(* Operations on the leaf for a key *)

\* What follows for the leaf's page.
LEMMA LocatedFacts ==
  ASSUME NEW s, NEW r, NEW g, NEW q, NEW D, NEW ch, NEW key, NEW path, NEW m, NEW a,
         Located(s, r, g, q, D, ch, key, path, m, a), NEW page, page = s.pages[a], NEW T, T = Tree(s)
  PROVE  /\ a \in DOMAIN T /\ DOMAIN T = Nodes(s) /\ T[a] = page /\ page \in Node /\ page.kind = "Leaf"
         /\ page.items \in Seq(Item) /\ Len(page.items) \in Nat /\ page.free \in Nat /\ page.extra \in Nat
         /\ Sorted(page.items) /\ Within(g, a, page.items) /\ FitsOK(page)
         /\ page.extra <= Len(s.pages) /\ TreeOK(T, r, g, NoPage, NoPage) /\ ContentsOK(T, D, ch)
  <1>1. FileOK(s, q) /\ TreeOK(T, r, g, NoPage, NoPage) /\ ContentsOK(T, D, ch) /\ a \in Nodes(s)
        /\ page.kind = "Leaf" /\ FitsOK(page)
    BY DEF Located
  <1>2. DOMAIN T = Nodes(s) /\ T[a] = page
    BY <1>1, Parts
  <1>3. NodeOK(T, g, a)
    BY <1>1, <1>2, TreeFacts
  <1>4. page \in Node /\ page.items \in Seq(Item) /\ Len(page.items) \in Nat /\ page.free \in Nat /\ page.extra \in Nat
        /\ Sorted(page.items) /\ Within(g, a, page.items)
    BY <1>2, <1>3, NodeFacts DEF Within
  <1>5. page.extra <= Len(s.pages)
    <2>1. a \in DOMAIN s.pages
      BY <1>1, Parts
    <2> QED
      BY <1>1, <2>1 DEF FileOK, Linked
  <1> QED
    BY <1>1, <1>2, <1>4, <1>5

\* Pages of other kinds do not matter.
LEMMA SameTree ==
  ASSUME NEW s, NEW s2, Tree(s2) = Tree(s)
  PROVE  Nodes(s2) = Nodes(s) /\ \A a \in Nodes(s) : s2.pages[a] = s.pages[a]
  <1>1. DOMAIN Tree(s) = Nodes(s) /\ \A a \in Nodes(s) : Tree(s)[a] = s.pages[a]
    BY Parts
  <1>2. DOMAIN Tree(s2) = Nodes(s2) /\ \A a \in Nodes(s2) : Tree(s2)[a] = s2.pages[a]
    BY Parts
  <1> QED
    BY <1>1, <1>2

\* A path located in a tree is located in any store with the same nodes.
LEMMA LocatedKept ==
  ASSUME NEW s, NEW r, NEW g, NEW q, NEW D, NEW ch, NEW key, NEW path, NEW m, NEW a,
         Located(s, r, g, q, D, ch, key, path, m, a), NEW s2, NEW q2, FileOK(s2, q2), Tree(s2) = Tree(s)
  PROVE  Located(s2, r, g, q2, D, ch, key, path, m, a) /\ s2.pages[a] = s.pages[a]
  <1>1. Nodes(s2) = Nodes(s) /\ \A b \in Nodes(s) : s2.pages[b] = s.pages[b]
    BY SameTree
  <1> QED
    BY <1>1 DEF Located

\* The leaf's page is written.
LEMMA PutLeafOK ==
  ASSUME NEW s, NEW r, NEW g, NEW q, NEW D, NEW ch, NEW key, NEW path, NEW m, NEW a,
         Located(s, r, g, q, D, ch, key, path, m, a),
         NEW page \in Node, page.kind = "Leaf", page.extra = s.pages[a].extra, Sorted(page.items),
         Within(g, a, page.items), FitsOK(page), NEW s2, s2 = Put(s, a, page)
  PROVE  /\ FileOK(s2, q) /\ Over(s2) = Over(s) /\ Sets(Tree(s), a, page, Tree(s2))
         /\ TreeOK(Tree(s2), r, g, NoPage, NoPage) /\ \A b \in Nodes(s2) : FitsOK(s2.pages[b])
  <1>1. FileOK(s, q) /\ a \in Nodes(s) /\ \A b \in Nodes(s) : FitsOK(s.pages[b])
    BY DEF Located
  <1>2. PICK T : T = Tree(s)
    OBVIOUS
  <1>3. PICK old : old = s.pages[a]
    OBVIOUS
  <1>4. a \in DOMAIN T /\ T[a] = old /\ old.kind = "Leaf" /\ old.extra <= Len(s.pages) /\ TreeOK(T, r, g, NoPage, NoPage)
    BY <1>2, <1>3, LocatedFacts
  <1>5. page.extra <= Len(s.pages)
    BY <1>3, <1>4
  <1>6. FileOK(s2, q) /\ Sets(Tree(s), a, page, Tree(s2)) /\ Over(s2) = Over(s)
    BY <1>1, <1>5, PutNode
  <1>7. PICK T2 : T2 = Tree(s2)
    OBVIOUS
  <1>8. TreeOK(T2, r, g, NoPage, NoPage)
    <2>1. Sets(T, a, page, T2) /\ T[a].kind = "Leaf" /\ page.extra = T[a].extra
      BY <1>2, <1>3, <1>4, <1>6, <1>7
    <2>2. \A i \in 1 .. Len(page.items) : g.lo[a] <= page.items[i].key /\ Before(page.items[i].key, g.hi[a])
      BY DEF Within
    <2> QED
      BY <1>4, <2>1, <2>2, LeafChanged
  <1>9. \A b \in Nodes(s2) : FitsOK(s2.pages[b])
    BY <1>1, <1>6, FitsSet
  <1> QED
    BY <1>6, <1>7, <1>8, <1>9

\* The key's slot in a page.
KeyAt(page, at, key) == at \in 1 .. Len(page.items) /\ page.items[at].key = key

\* The leaf of a key, which no longer holds it.
LeafWithout(s, r, g, q, D2, ch, key, path, m, a, page, at, p2, s2) ==
  /\ Located(s2, r, g, q, D2, ch, key, path, m, a) /\ Over(s2) = Over(s)
  /\ s2.pages[a] = p2 /\ Gap(p2.items, key, at) /\ Len(p2.items) = Len(page.items) - 1

\* The entry of a key is removed from its leaf.
LEMMA LocatedDrop ==
  ASSUME NEW s, NEW r, NEW g, NEW q, NEW D, NEW ch, NEW key \in Nat, NEW path, NEW m, NEW a,
         Located(s, r, g, q, D, ch, key, path, m, a), NEW page, page = s.pages[a],
         NEW at, KeyAt(page, at, key), NEW p2, p2 = RemoveItem(page, at),
         NEW D2, Drops(D, key, D2), NEW s2, s2 = Put(s, a, p2)
  PROVE  LeafWithout(s, r, g, q, D2, ch, key, path, m, a, page, at, p2, s2)
  <1>1. PICK T : T = Tree(s)
    OBVIOUS
  <1>2. /\ a \in DOMAIN T /\ DOMAIN T = Nodes(s) /\ T[a] = page /\ page \in Node /\ page.kind = "Leaf"
        /\ page.items \in Seq(Item) /\ Sorted(page.items) /\ Within(g, a, page.items) /\ FitsOK(page)
        /\ TreeOK(T, r, g, NoPage, NoPage) /\ ContentsOK(T, D, ch) /\ page.free \in Nat
    BY <1>1, LocatedFacts
  <1>3. /\ p2 \in Node /\ p2.kind = page.kind /\ p2.extra = page.extra /\ Removed(page.items, at, p2.items)
        /\ p2.free + Cost(p2.items) <= page.free + Cost(page.items)
    BY <1>2, RemoveItemIs DEF KeyAt
  <1>4. Dropped(g, a, page.items, key, at, p2.items)
    BY <1>2, <1>3, LeafDrops DEF KeyAt
  <1>5. Sorted(p2.items) /\ Within(g, a, p2.items) /\ Loses(page.items, p2.items, key) /\ Gap(p2.items, key, at)
        /\ Len(p2.items) = Len(page.items) - 1 /\ p2.items \in Seq(Item)
    BY <1>4 DEF Dropped
  <1>6. FitsOK(p2)
    <2>1. Cost(page.items) \in Nat /\ Cost(p2.items) \in Nat /\ p2.free \in Nat /\ PageSpace \in Nat
      BY <1>2, <1>3, <1>5, CostNat, Sizes DEF Node
    <2>2. page.free + Cost(page.items) <= PageSpace
      BY <1>2 DEF FitsOK
    <2> QED
      BY <1>2, <1>3, <2>1, <2>2 DEF FitsOK
  <1>7. /\ FileOK(s2, q) /\ Over(s2) = Over(s) /\ Sets(Tree(s), a, p2, Tree(s2))
        /\ TreeOK(Tree(s2), r, g, NoPage, NoPage) /\ \A b \in Nodes(s2) : FitsOK(s2.pages[b])
    BY <1>2, <1>3, <1>5, <1>6, PutLeafOK
  <1>8. PICK T2 : T2 = Tree(s2)
    OBVIOUS
  <1>9. DOMAIN T2 = DOMAIN T /\ T2[a] = p2 /\ \A b \in DOMAIN T : b # a => T2[b] = T[b]
    BY <1>1, <1>2, <1>7, <1>8 DEF Sets
  <1>10. a \in Nodes(s2) /\ s2.pages[a] = p2
    <2>1. DOMAIN Tree(s2) = Nodes(s2) /\ \A b \in Nodes(s2) : Tree(s2)[b] = s2.pages[b]
      BY Parts, ZenonT(30)
    <2> QED
      BY <1>2, <1>8, <1>9, <2>1
  <1>11. ContentsOK(T2, D2, ch)
    <2>1. T[a].kind = "Leaf" /\ p2.kind = "Leaf" /\ Loses(T[a].items, p2.items, key) /\ Sets(T, a, p2, T2) /\ Covers(g, a, key)
      BY <1>1, <1>2, <1>3, <1>5, <1>7, <1>8 DEF Located
    <2> QED
      BY <1>2, <2>1, ContentsDrop
  <1>12. PathTo(T2, r, g, path, m, a)
    <2>1. PathTo(T, r, g, path, m, a)
      BY <1>1 DEF Located
    <2>2. path \in Seq(Nat) /\ m <= Len(path) /\ \A i \in 1 .. m : path[i] \in DOMAIN T /\ T[path[i]].kind = "Internal"
      BY <2>1 DEF PathTo
    <2>3. \A i \in 1 .. m : path[i] \in DOMAIN T2 /\ T2[path[i]] = T[path[i]]
      BY <1>2, <1>9, <2>2
    <2> QED
      BY <2>1, <2>2, <2>3, PathKept
  <1>13. Located(s2, r, g, q, D2, ch, key, path, m, a)
    BY <1>3, <1>2, <1>5, <1>7, <1>8, <1>10, <1>11, <1>12 DEF Located
  <1> QED
    BY <1>5, <1>7, <1>10, <1>13 DEF LeafWithout

\* An entry is written into the leaf of its key.
LEMMA EntryPut ==
  ASSUME NEW s, NEW r, NEW g, NEW q, NEW D, NEW ch, NEW key \in Nat, NEW path, NEW m, NEW a,
         Located(s, r, g, q, D, ch, key, path, m, a), NEW page, page = s.pages[a],
         NEW v, NEW c, NEW e, e = Entry(key, v, Link(c, 1)), e.key = key,
         NEW p2 \in Node, p2.kind = "Leaf", p2.extra = page.extra, FitsOK(p2), Sorted(p2.items), Within(g, a, p2.items),
         Gains(page.items, p2.items, key, e),
         NEW D2, Sets(D, key, v, D2), NEW ch2, ch2[key] = c, Same(ch, ch2, D, key), NEW L, ChainsOK(Over(s), ch2, D2, L),
         NEW s2, s2 = Put(s, a, p2)
  PROVE  Mid(s2, r, D2, L, g, q, ch2, NoPage, NoPage)
  <1>1. /\ FileOK(s2, q) /\ Over(s2) = Over(s) /\ Sets(Tree(s), a, p2, Tree(s2))
        /\ TreeOK(Tree(s2), r, g, NoPage, NoPage) /\ \A b \in Nodes(s2) : FitsOK(s2.pages[b])
    BY PutLeafOK
  <1>2. PICK T : T = Tree(s)
    OBVIOUS
  <1>3. a \in DOMAIN T /\ T[a] = page /\ page.kind = "Leaf" /\ TreeOK(T, r, g, NoPage, NoPage) /\ ContentsOK(T, D, ch)
    BY <1>2, LocatedFacts
  <1>4. PICK T2 : T2 = Tree(s2)
    OBVIOUS
  <1>5. ContentsOK(T2, D2, ch2)
    <2>1. Gains(T[a].items, p2.items, key, e) /\ Sets(T, a, p2, T2) /\ T[a].kind = "Leaf" /\ Covers(g, a, key)
      BY <1>1, <1>2, <1>3, <1>4 DEF Located
    <2> QED
      BY <1>3, <2>1, ContentsPut
  <1> QED
    BY <1>1, <1>4, <1>5 DEF Mid

\* A key that its leaf does not hold is not in the tree.
LEMMA NotFound ==
  ASSUME NEW s, NEW r, NEW g, NEW q, NEW D, NEW ch, NEW key \in Nat, NEW path, NEW m, NEW a,
         Located(s, r, g, q, D, ch, key, path, m, a), NEW at, Gap(s.pages[a].items, key, at)
  PROVE  key \notin DOMAIN D
  <1>1. PICK T : T = Tree(s)
    OBVIOUS
  <1>2. PICK page : page = s.pages[a]
    OBVIOUS
  <1>3. a \in DOMAIN T /\ T[a] = page /\ page.kind = "Leaf" /\ TreeOK(T, r, g, NoPage, NoPage) /\ ContentsOK(T, D, ch)
        /\ page.items \in Seq(Item) /\ Len(page.items) \in Nat
    BY <1>1, <1>2, LocatedFacts
  <1>4. SUFFICES ASSUME key \in DOMAIN D PROVE FALSE
    OBVIOUS
  <1>5. PICK x : Has(T, x) /\ x.key = key
    BY <1>3, <1>4, ContentsAre
  <1>6. PICK b \in DOMAIN T : T[b].kind = "Leaf" /\ In(T[b].items, x)
    BY <1>5 DEF Has
  <1>7. b = a
    <2>1. Covers(g, a, key) /\ T[a].kind = "Leaf"
      BY <1>3 DEF Located
    <2> QED
      BY <1>3, <1>5, <1>6, <2>1, LeafHolds
  <1>8. PICK i \in 1 .. Len(page.items) : page.items[i] = x
    BY <1>3, <1>6, <1>7 DEF In
  <1>9. at \in 1 .. Len(page.items) + 1 /\ (\A j \in 1 .. at - 1 : page.items[j].key < key)
        /\ \A j \in at .. Len(page.items) : key < page.items[j].key
    BY <1>2 DEF Gap
  <1>10. CASE i < at
    <2>1. i \in 1 .. at - 1
      BY <1>9, <1>10
    <2>2. page.items[i].key < key
      BY <1>9, <2>1
    <2> QED
      BY <1>5, <1>8, <2>2
  <1>11. CASE i >= at
    <2>1. i \in at .. Len(page.items)
      BY <1>9, <1>11
    <2>2. key < page.items[i].key
      BY <1>9, <2>1
    <2> QED
      BY <1>5, <1>8, <2>2
  <1> QED
    BY <1>9, <1>10, <1>11

\* The entry that the leaf of a key holds.
LEMMA FoundEntry ==
  ASSUME NEW s, NEW r, NEW g, NEW q, NEW D, NEW ch, NEW key \in Nat, NEW path, NEW m, NEW a,
         Located(s, r, g, q, D, ch, key, path, m, a), NEW page, page = s.pages[a], NEW at \in 1 .. Len(page.items),
         page.items[at].key = key
  PROVE  key \in DOMAIN D /\ page.items[at] = Entry(key, D[key], Link(ch[key], 1))
  <1>1. PICK T : T = Tree(s)
    OBVIOUS
  <1>3. a \in DOMAIN T /\ T[a] = page /\ page.kind = "Leaf" /\ ContentsOK(T, D, ch)
    BY <1>1, LocatedFacts
  <1>4. PICK x : x = page.items[at]
    OBVIOUS
  <1>5. Has(T, x)
    BY <1>3, <1>4 DEF Has, In
  <1>6. x.key \in DOMAIN D /\ x = Entry(x.key, D[x.key], Link(ch[x.key], 1))
    BY <1>3, <1>5, ContentsAre
  <1>7. x.key = key
    BY <1>4
  <1>8. key \in DOMAIN D /\ x = Entry(key, D[key], Link(ch[key], 1))
    BY <1>6, <1>7
  <1> QED
    BY <1>4, <1>8

\* What upsert may do: the entry is in the tree, or nothing but a chain has
\* been built since the leaf is empty and full.
UpsertedOK(s, r, D, D2, L, res) ==
  \/ res.outcome = "ok" /\ \E g, q, ch : Mid(res.s, res.root, D2, L, g, q, ch, NoPage, NoPage)
  \/ /\ res.outcome = "single entry" /\ res.root = r
     /\ \E g, q, ch : Mid(res.s, r, D, L \cup (Overflowing(res.s) \ Overflowing(s)), g, q, ch, NoPage, NoPage)
     /\ \E id \in DOMAIN res.s.pages : res.s.pages[id].kind = "Leaf" /\ res.s.pages[id].items = <<>>

\* A page that cannot take an item in place of another has more than that one.
LEMMA LastIsReplaced ==
  ASSUME NEW page \in Node, NEW i \in 1 .. Len(page.items), NEW e, ItemCost(e) \in Nat, ItemCost(e) <= PageSpace,
         ~CanReplace(page, i, e)
  PROVE  Len(page.items) > 1
  <1>1. SUFFICES ASSUME Len(page.items) <= 1 PROVE FALSE
    BY DEF Node
  <1>2. PICK rem : rem = RemoveItem(page, i)
    OBVIOUS
  <1>3. rem \in Node /\ Removed(page.items, i, rem.items)
    BY <1>2, RemoveItemIs
  <1>4. rem.items \in Seq(Item) /\ Len(rem.items) = 0
    <2>1. page.items \in Seq(Item)
      BY DEF Node
    <2>2. PICK n \in Nat : n = Len(page.items)
      BY <2>1
    <2>3. n <= 1 /\ i \in 1 .. n
      BY <1>1, <2>2
    <2>4. n = 1
      BY <2>3
    <2> QED
      BY <1>3, <2>2, <2>4 DEF Removed
  <1>5. Cost(rem.items) = 0
    BY <1>4, CostEmpty
  <1>6. PICK com : com = Compact(rem)
    OBVIOUS
  <1>7. rem = [kind |-> rem.kind, extra |-> rem.extra, items |-> rem.items, free |-> rem.free]
    BY <1>3 DEF Node
  <1>8. com.free = PageSpace
    BY <1>5, <1>6, <1>7, Sizes DEF Compact
  <1>9. CanInsert(com, e)
    BY <1>8 DEF CanInsert
  <1>10. CanInsert(Vacated(page, i, e), e)
    BY <1>2, <1>6, <1>9 DEF Vacated
  <1> QED
    BY <1>10 DEF CanReplace

\* The chain of a new entry.
LEMMA ChainExtended ==
  ASSUME NEW D, NEW ch, NEW key, NEW c
  PROVE  \E ch2 : ch2[key] = c /\ Same(ch, ch2, D, key)
  <1>1. PICK ch2 : ch2 = [y \in DOMAIN D \cup {key} |-> IF y = key THEN c ELSE ch[y]]
    OBVIOUS
  <1>2. ch2[key] = c
    BY <1>1
  <1>3. Same(ch, ch2, D, key)
    BY <1>1 DEF Same
  <1> QED
    BY <1>2, <1>3

\* The new entry replaces the old one in its leaf.
LEMMA EntryReplaced ==
  ASSUME NEW s, NEW r, NEW g, NEW q, NEW D, NEW ch, NEW key \in Nat, NEW path, NEW m, NEW a,
         Located(s, r, g, q, D, ch, key, path, m, a), NEW page, page = s.pages[a],
         NEW at, KeyAt(page, at, key),
         NEW v, NEW c, NEW e, e \in Item, e.key = key, NEW D2, NEW ch2, NewEntry(D, ch, key, v, c, e, D2, ch2),
         NEW L, ChainsOK(Over(s), ch2, D2, L), CanReplace(page, at, e), NEW s2, s2 = Put(s, a, ReplaceItem(page, at, e))
  PROVE  Mid(s2, r, D2, L, g, q, ch2, NoPage, NoPage)
  <1>1. PICK T : T = Tree(s)
    OBVIOUS
  <1>2. page \in Node /\ page.kind = "Leaf" /\ page.items \in Seq(Item) /\ Sorted(page.items) /\ Within(g, a, page.items)
        /\ FitsOK(page) /\ Len(page.items) \in Nat
    BY <1>1, LocatedFacts
  <1>a. at \in 1 .. Len(page.items) /\ page.items[at].key = key
    BY DEF KeyAt
  <1>3. PICK p2 : p2 = ReplaceItem(page, at, e)
    OBVIOUS
  <1>4. p2 \in Node /\ p2.kind = "Leaf" /\ p2.extra = page.extra /\ FitsOK(p2)
    BY <1>a, <1>2, <1>3, ReplaceItemIs
  <1>5. PICK mid : Removed(page.items, at, mid) /\ Inserted(mid, at, e, p2.items)
    BY <1>a, <1>2, <1>3, ReplaceItemIs
  <1>6. Dropped(g, a, page.items, key, at, mid)
    BY <1>a, <1>2, <1>5, LeafDrops
  <1>7. Sorted(mid) /\ mid \in Seq(Item) /\ Within(g, a, mid) /\ Loses(page.items, mid, key) /\ Gap(mid, key, at)
    BY <1>6 DEF Dropped
  <1>8. Covers(g, a, key)
    BY DEF Located
  <1>9. Takes(g, a, mid, key, e, p2.items)
    BY <1>5, <1>7, <1>8, LeafTakes
  <1>10. Sorted(p2.items) /\ Within(g, a, p2.items) /\ Gains(mid, p2.items, key, e)
    BY <1>9 DEF Takes
  <1>11. Gains(page.items, p2.items, key, e)
    BY <1>7, <1>10 DEF Gains, Loses
  <1> QED
    BY <1>3, <1>4, <1>10, <1>11, EntryPut DEF NewEntry

\* s2 is s without slot at of page a.
Removal(s, a, page, at, p2, s2) == page = s.pages[a] /\ p2 = RemoveItem(page, at) /\ s2 = Put(s, a, p2)

\* LocatedDrop, as a whole.
LEMMA LocatedRemoval ==
  ASSUME NEW s, NEW r, NEW g, NEW q, NEW D, NEW ch, NEW key \in Nat, NEW path, NEW m, NEW a,
         Located(s, r, g, q, D, ch, key, path, m, a), NEW page, NEW at, KeyAt(page, at, key), NEW p2, NEW s2,
         Removal(s, a, page, at, p2, s2), NEW D2, Drops(D, key, D2)
  PROVE  LeafWithout(s, r, g, q, D2, ch, key, path, m, a, page, at, p2, s2)
  <1>1. page = s.pages[a] /\ p2 = RemoveItem(page, at) /\ s2 = Put(s, a, p2)
    BY DEF Removal
  <1> QED
    BY <1>1, LocatedDrop

\* A page with more than one item.
Several(page) == Len(page.items) > 1

\* The old entry is removed and the leaf is split for the new one.
LEMMA EntryMoved ==
  ASSUME NEW s, NEW r, NEW g, NEW q, NEW D, NEW ch, NEW key \in Nat, NEW path, NEW m, NEW a,
         Located(s, r, g, q, D, ch, key, path, m, a), NEW page, Payload(D), key \in DOMAIN D,
         NEW at, KeyAt(page, at, key), Several(page), NEW p2, NEW s2, Removal(s, a, page, at, p2, s2),
         NEW v, NEW c, NEW e, NEW D2, NEW ch2, NewEntry(D, ch, key, v, c, e, D2, ch2), NEW L, ChainsOK(Over(s), ch2, D2, L),
         NEW res, res = SplitLeaf(s2, r, path, at, e)
  PROVE  Whole(res, D2, L, ch2)
  <1>1. page = s.pages[a] /\ p2 = RemoveItem(page, at) /\ s2 = Put(s, a, p2)
    BY DEF Removal
  <1>3. PICK D1 : D1 = [y \in DOMAIN D \ {key} |-> D[y]]
    OBVIOUS
  <1>4. Drops(D, key, D1)
    BY <1>3 DEF Drops
  <1>5. Payload(D1)
    BY <1>3 DEF Payload
  <1>6. /\ Located(s2, r, g, q, D1, ch, key, path, m, a) /\ Over(s2) = Over(s)
        /\ s2.pages[a] = p2 /\ Gap(p2.items, key, at) /\ Len(p2.items) = Len(page.items) - 1
    <2>1. LeafWithout(s, r, g, q, D1, ch, key, path, m, a, page, at, p2, s2)
      BY <1>4, LocatedRemoval
    <2> QED
      BY <2>1 DEF LeafWithout
  <1>7. NewEntry(D1, ch, key, v, c, e, D2, ch2)
    <2>1. DOMAIN D2 = DOMAIN D /\ D2[key] = v /\ \A y \in DOMAIN D : y # key => D2[y] = D[y]
      BY DEF NewEntry, Sets
    <2>2. Sets(D1, key, v, D2)
      BY <1>4, <2>1 DEF Drops, Sets
    <2>3. Same(ch, ch2, D1, key)
      BY <1>4 DEF Drops, Same, NewEntry
    <2> QED
      BY <2>2, <2>3 DEF NewEntry
  <1>9. Len(p2.items) > 0
    <2>1. PICK n : n = Len(page.items)
      OBVIOUS
    <2>2. n \in Nat
      <3>1. PICK T : T = Tree(s)
        OBVIOUS
      <3> QED
        BY <1>1, <2>1, <3>1, LocatedFacts
    <2> QED
      BY <1>6, <2>1, <2>2 DEF Several
  <1>10. ChainsOK(Over(s2), ch2, D2, L)
    BY <1>6
  <1>12. Len(s2.pages[a].items) > 0 /\ Gap(s2.pages[a].items, key, at)
    BY <1>6, <1>9
  <1> QED
    BY <1>5, <1>6, <1>7, <1>10, <1>12, SplitLeafOK

\* The new item is built in b, with its chain c.
Built(s, key, v, b, q1, c, e) ==
  /\ FileOK(b, q1) /\ Tree(b) = Tree(s) /\ ChainOK(Over(b), c, v) /\ Grown(Over(s), c, Over(b))
  /\ e = Entry(key, v, Link(c, 1))

\* The results of upsert, for a key that is there and for a new one.
FoundResult(b, r, path, a, page, at, e, res) ==
  LET released == ReleaseItem(b, page.items[at])
  IN  /\ CanReplace(page, at, e) => res = Done(Put(released, a, ReplaceItem(page, at, e)), r)
      /\ ~CanReplace(page, at, e) => res = SplitLeaf(Put(released, a, RemoveItem(page, at)), r, path, at, e)

NewResult(b, r, path, a, page, at, e, res) ==
  /\ CanInsert(page, e) => res = Done(Put(b, a, InsertItem(page, at, e)), r)
  /\ ~CanInsert(page, e) => res = SplitLeaf(b, r, path, at, e)

\* upsert of a key that is there.
LEMMA UpsertFound ==
  ASSUME NEW s, NEW r, NEW g, NEW q, NEW D, NEW ch, NEW key \in Nat, NEW path, NEW m, NEW a,
         Located(s, r, g, q, D, ch, key, path, m, a), Payload(D),
         NEW L, ChainsOK(Over(s), ch, D, L), NEW page, page = s.pages[a],
         NEW at, KeyAt(page, at, key),
         NEW v \in Seq(Nat), NEW D2, Sets(D, key, v, D2), NEW b, NEW q1, NEW c, NEW e, Built(s, key, v, b, q1, c, e),
         NEW res, FoundResult(b, r, path, a, page, at, e, res)
  PROVE  UpsertedOK(s, r, D, D2, L, res)
  <1>b. /\ FileOK(b, q1) /\ Tree(b) = Tree(s) /\ ChainOK(Over(b), c, v) /\ Grown(Over(s), c, Over(b))
        /\ e = Entry(key, v, Link(c, 1))
    BY DEF Built
  <1>c. PICK released : released = ReleaseItem(b, page.items[at])
    OBVIOUS
  <1>d. /\ CanReplace(page, at, e) => res = Done(Put(released, a, ReplaceItem(page, at, e)), r)
        /\ ~CanReplace(page, at, e) => res = SplitLeaf(Put(released, a, RemoveItem(page, at)), r, path, at, e)
    BY <1>c DEF FoundResult
  <1>2. c \in Seq(Nat)
    BY <1>b DEF ChainOK
  <1>3. Link(c, 1) \in Nat
    BY <1>2 DEF Link, NoPage
  <1>4. Small(e, key)
    BY <1>b, <1>3, EntryFacts, Zenon
  <1>5. e \in Item /\ e.key = key /\ ItemCost(e) \in Nat /\ ItemCost(e) <= PageSpace
    <2>1. SlotSize + LeafHeader + MaxInline <= PageSpace /\ SlotSize + LeafHeader + MaxInline \in Nat /\ PageSpace \in Nat
      BY Sizes
    <2> QED
      BY <1>4, <2>1 DEF Small
  <1>6. PICK ch2 : ch2[key] = c /\ Same(ch, ch2, D, key)
    BY ChainExtended
  <1>a. NewEntry(D, ch, key, v, c, e, D2, ch2)
    BY <1>b, <1>3, <1>6 DEF NewEntry
  <1>7. key \in DOMAIN D /\ page.items[at] = Entry(key, D[key], Link(ch[key], 1))
    BY FoundEntry DEF KeyAt
  <1>8. ChainOK(Over(s), ch[key], D[key])
    BY <1>7 DEF ChainsOK
  <1>9. ChainOK(Over(b), ch[key], D[key])
    <2>1. \A i \in 1 .. Len(ch[key]) : ch[key][i] \in DOMAIN Over(s)
      BY <1>8 DEF ChainOK
    <2>2. \A i \in 1 .. Len(ch[key]) : ch[key][i] \in DOMAIN Over(b) /\ Over(b)[ch[key][i]] = Over(s)[ch[key][i]]
      BY <1>b, <2>1 DEF Grown
    <2> QED
      BY <1>8, <2>2, ChainKept
  <1>10. PICK w \in Seq(Nat) : w = D[key]
    BY <1>7 DEF Payload
  <1>11. PICK d : d = ch[key]
    OBVIOUS
  <1>12. ChainOK(Over(b), d, w) /\ page.items[at] = Entry(key, w, Link(d, 1))
    BY <1>7, <1>9, <1>10, <1>11
  <1>13. PICK q2 : FileOK(released, q2)
    BY <1>b, <1>c, <1>12, ReleaseItemOK
  <1>14. Tree(released) = Tree(b) /\ Shrunk(Over(b), d, Len(d), Over(released))
    BY <1>b, <1>c, <1>12, ReleaseItemOK
  <1>15. ChainsOK(Over(released), ch2, D2, L)
    <2>1. Shrunk(Over(b), ch[key], Len(ch[key]), Over(released))
      BY <1>11, <1>14
    <2> QED
      BY <1>b, <1>6, <1>7, <2>1, ChainsSwap
  <1>16. Located(released, r, g, q2, D, ch, key, path, m, a) /\ page = released.pages[a]
    <2>1. Tree(released) = Tree(s)
      BY <1>b, <1>14
    <2> QED
      BY <1>13, <2>1, LocatedKept
  <1>17. CASE CanReplace(page, at, e)
    <2>1. PICK s2 : s2 = Put(released, a, ReplaceItem(page, at, e))
      OBVIOUS
    <2>2. Mid(s2, r, D2, L, g, q2, ch2, NoPage, NoPage)
      BY <1>a, <1>5, <1>15, <1>16, <1>17, <2>1, EntryReplaced
    <2>3. res = Done(s2, r)
      BY <1>d, <1>17, <2>1
    <2>4. res.outcome = "ok" /\ res.s = s2 /\ res.root = r
      BY <2>3 DEF Done
    <2> QED
      BY <2>2, <2>4 DEF UpsertedOK
  <1>18. CASE ~CanReplace(page, at, e)
    <2>1. page \in Node
      <3>1. PICK T : T = Tree(s)
        OBVIOUS
      <3> QED
        BY <3>1, LocatedFacts
    <2>2. Len(page.items) > 1
      BY <1>5, <1>18, <2>1, LastIsReplaced DEF KeyAt
    <2>3. PICK p2 : p2 = RemoveItem(page, at)
      OBVIOUS
    <2>5. PICK s2 : s2 = Put(released, a, p2)
      OBVIOUS
    <2>6. Removal(released, a, page, at, p2, s2) /\ Several(page)
      BY <1>16, <2>2, <2>3, <2>5 DEF Removal, Several
    <2>7. res = SplitLeaf(s2, r, path, at, e)
      BY <1>d, <1>18, <2>3, <2>5
    <2>4. Whole(res, D2, L, ch2)
      BY <1>a, <1>7, <1>15, <1>16, <2>6, <2>7, EntryMoved
    <2> QED
      BY <2>4 DEF UpsertedOK, Whole
  <1> QED
    BY <1>17, <1>18

\* upsert of a new key.
LEMMA UpsertNew ==
  ASSUME NEW s, NEW r, NEW g, NEW q, NEW D, NEW ch, NEW key \in Nat, NEW path, NEW m, NEW a,
         Located(s, r, g, q, D, ch, key, path, m, a), Payload(D),
         NEW L, ChainsOK(Over(s), ch, D, L), NEW page, page = s.pages[a], NEW at, Gap(page.items, key, at),
         NEW v \in Seq(Nat), NEW D2, Sets(D, key, v, D2), NEW b, NEW q1, NEW c, NEW e, Built(s, key, v, b, q1, c, e),
         NEW res, NewResult(b, r, path, a, page, at, e, res)
  PROVE  UpsertedOK(s, r, D, D2, L, res)
  <1>b. /\ FileOK(b, q1) /\ Tree(b) = Tree(s) /\ ChainOK(Over(b), c, v) /\ Grown(Over(s), c, Over(b))
        /\ e = Entry(key, v, Link(c, 1))
    BY DEF Built
  <1>d. /\ CanInsert(page, e) => res = Done(Put(b, a, InsertItem(page, at, e)), r)
        /\ ~CanInsert(page, e) => res = SplitLeaf(b, r, path, at, e)
    BY DEF NewResult
  <1>2. c \in Seq(Nat)
    BY <1>b DEF ChainOK
  <1>3. Link(c, 1) \in Nat
    BY <1>2 DEF Link, NoPage
  <1>4. Small(e, key)
    BY <1>b, <1>3, EntryFacts, Zenon
  <1>5. e \in Item /\ e.key = key
    BY <1>4 DEF Small
  <1>6. PICK ch2 : ch2[key] = c /\ Same(ch, ch2, D, key)
    BY ChainExtended
  <1>a. NewEntry(D, ch, key, v, c, e, D2, ch2)
    BY <1>b, <1>3, <1>6 DEF NewEntry
  <1>7. key \notin DOMAIN D
    BY NotFound
  <1>8. ChainsOK(Over(b), ch2, D2, L)
    BY <1>b, <1>6, <1>7, ChainsAdd
  <1>9. Located(b, r, g, q1, D, ch, key, path, m, a) /\ page = b.pages[a]
    BY <1>b, LocatedKept
  <1>10. PICK T : T = Tree(b)
    OBVIOUS
  <1>11. page \in Node /\ page.kind = "Leaf" /\ page.items \in Seq(Item) /\ Sorted(page.items) /\ Within(g, a, page.items)
         /\ FitsOK(page) /\ Len(page.items) \in Nat
    BY <1>9, <1>10, LocatedFacts
  <1>12. CASE CanInsert(page, e)
    <2>1. PICK p2 : p2 = InsertItem(page, at, e)
      OBVIOUS
    <2>2. at \in 1 .. Len(page.items) + 1
      BY DEF Gap
    <2>3. /\ p2 \in Node /\ p2.kind = page.kind /\ p2.extra = page.extra /\ Inserted(page.items, at, e, p2.items)
          /\ p2.free + Cost(p2.items) = page.free + Cost(page.items)
      BY <1>5, <1>11, <1>12, <2>1, <2>2, InsertItemIs
    <2>4. FitsOK(p2)
      BY <1>11, <2>3 DEF FitsOK
    <2>5. Covers(g, a, key)
      BY DEF Located
    <2>6. Takes(g, a, page.items, key, e, p2.items)
      BY <1>5, <1>11, <2>3, <2>5, LeafTakes
    <2>7. Sorted(p2.items) /\ Within(g, a, p2.items) /\ Gains(page.items, p2.items, key, e)
      BY <2>6 DEF Takes
    <2>8. PICK s2 : s2 = Put(b, a, p2)
      OBVIOUS
    <2>9. Mid(s2, r, D2, L, g, q1, ch2, NoPage, NoPage)
      <3>1. p2.kind = "Leaf"
        BY <1>11, <2>3
      <3> QED
        BY <1>b, <1>5, <1>6, <1>8, <1>9, <2>3, <2>4, <2>7, <2>8, <3>1, EntryPut
    <2>10. res = Done(s2, r)
      BY <1>d, <1>12, <2>1, <2>8
    <2>11. res.outcome = "ok" /\ res.s = s2 /\ res.root = r
      BY <2>10 DEF Done
    <2> QED
      BY <2>9, <2>11 DEF UpsertedOK
  <1>13. CASE ~CanInsert(page, e) /\ Len(page.items) = 0
    <2>1. res = SplitLeaf(b, r, path, at, e)
      BY <1>d, <1>13
    <2>2. PICK items : items = InsertAt(page.items, at, e)
      OBVIOUS
    <2>3. at \in 1 .. Len(page.items) + 1
      BY DEF Gap
    <2>4. Inserted(page.items, at, e, items)
      BY <1>5, <1>11, <2>2, <2>3, InsertAtIs
    <2>5. Len(items) < 2
      BY <1>13, <2>4 DEF Inserted
    <2>6. Last(path) = a
      BY DEF Located
    <2>7. res = Failed(b, r, "single entry")
      BY <1>9, <2>1, <2>2, <2>5, <2>6, Zenon DEF SplitLeaf
    <2>8. res.outcome = "single entry" /\ res.s = b /\ res.root = r
      BY <2>7 DEF Failed
    <2>9. PICK L2 : L2 = L \cup (Overflowing(b) \ Overflowing(s))
      OBVIOUS
    <2>10. ChainsOK(Over(b), ch, D, L2)
      <3>1. DOMAIN Over(b) = Overflowing(b) /\ DOMAIN Over(s) = Overflowing(s)
        BY Parts
      <3>2. L2 = L \cup (DOMAIN Over(b) \ DOMAIN Over(s))
        BY <2>9, <3>1
      <3> QED
        BY <1>b, <3>2, ChainsLose
    <2>11. Mid(b, r, D, L2, g, q1, ch, NoPage, NoPage)
      BY <1>9, <2>10 DEF Mid, Located
    <2>12. a \in DOMAIN b.pages /\ b.pages[a].kind = "Leaf" /\ b.pages[a].items = <<>>
      <3>1. a \in Nodes(b)
        BY <1>9 DEF Located
      <3>2. page.items = <<>>
        BY <1>11, <1>13
      <3> QED
        BY <1>9, <1>11, <3>1, <3>2, Parts
    <2> QED
      BY <2>8, <2>9, <2>11, <2>12 DEF UpsertedOK
  <1>14. CASE ~CanInsert(page, e) /\ Len(page.items) # 0
    <2>1. res = SplitLeaf(b, r, path, at, e)
      BY <1>d, <1>14
    <2>3. Len(b.pages[a].items) > 0 /\ Gap(b.pages[a].items, key, at)
      <3>1. PICK n : n = Len(page.items)
        OBVIOUS
      <3>2. n \in Nat /\ n # 0
        BY <1>11, <1>14, <3>1
      <3>3. n > 0
        BY <3>2
      <3> QED
        BY <1>9, <3>1, <3>3
    <2>4. Whole(res, D2, L, ch2)
      BY <1>a, <1>8, <1>9, <2>1, <2>3, SplitLeafOK
    <2> QED
      BY <2>4 DEF UpsertedOK, Whole
  <1> QED
    BY <1>12, <1>13, <1>14

\* A descent ends in the leaf for the key.
LEMMA LocateOK ==
  ASSUME NEW s, NEW r, NEW D, NEW L, NEW g, NEW q, NEW ch, Mid(s, r, D, L, g, q, ch, NoPage, NoPage), NEW key \in Nat,
         NEW path, path = Descend(s, r, key), NEW a, a = Last(path)
  PROVE  \E m : Located(s, r, g, q, D, ch, key, path, m, a)
  <1>1. FileOK(s, q) /\ TreeOK(Tree(s), r, g, NoPage, NoPage)
    BY DEF Mid
  <1>2. PICK m \in Nat : /\ Len(path) = m + 1 /\ PathTo(Tree(s), r, g, path, m, path[m + 1]) /\ Last(path) = path[m + 1]
                         /\ path[m + 1] \in DOMAIN Tree(s) /\ Tree(s)[path[m + 1]].kind = "Leaf" /\ Covers(g, path[m + 1], key)
    BY <1>1, DescendOK
  <1>3. a = path[m + 1]
    BY <1>2
  <1>4. PathTo(Tree(s), r, g, path, m, a) /\ a \in DOMAIN Tree(s) /\ Tree(s)[a].kind = "Leaf" /\ Covers(g, a, key)
    BY <1>2, <1>3
  <1>5. DOMAIN Tree(s) = Nodes(s) /\ \A b \in Nodes(s) : Tree(s)[b] = s.pages[b]
    BY Parts
  <1>6. a \in Nodes(s) /\ s.pages[a].kind = "Leaf"
    BY <1>4, <1>5
  <1>7. Len(path) = m + 1 /\ Last(path) = a /\ m \in Nat
    BY <1>2
  <1> QED
    BY <1>4, <1>6, <1>7 DEF Located, Mid

\* What a search of a leaf returns.
LEMMA LeafSlot ==
  ASSUME NEW s, NEW r, NEW g, NEW q, NEW D, NEW ch, NEW key \in Nat, NEW path, NEW m, NEW a,
         Located(s, r, g, q, D, ch, key, path, m, a), NEW page, page = s.pages[a], NEW slot, slot = SlotSearch(page, key)
  PROVE  /\ slot.found \in BOOLEAN
         /\ slot.found => KeyAt(page, slot.at, key)
         /\ ~slot.found => Gap(page.items, key, slot.at)
  <1>1. PICK T : T = Tree(s)
    OBVIOUS
  <1>2. page.items \in Seq(Item) /\ Sorted(page.items) /\ Len(page.items) \in Nat
    BY <1>1, LocatedFacts
  <1>3. SlotOK(page.items, key, slot)
    BY <1>2, SlotIs
  <1>4. ASSUME slot.found PROVE KeyAt(page, slot.at, key)
    BY <1>2, <1>3, <1>4 DEF SlotOK, KeyAt
  <1>5. ASSUME ~slot.found PROVE Gap(page.items, key, slot.at)
    <2>1. slot.at \in 1 .. Len(page.items) + 1 /\ (\A j \in 1 .. slot.at - 1 : page.items[j].key < key)
          /\ \A j \in slot.at .. Len(page.items) : page.items[j].key > key
      BY <1>3, <1>5 DEF SlotOK
    <2>2. PICK items \in Seq(Item) : items = page.items
      BY <1>2
    <2>4. PICK n \in Nat : n = slot.at
      BY <1>2, <2>1
    <2>5. \A j \in n .. Len(items) : j \in 1 .. Len(items)
      BY <1>2, <2>1, <2>2, <2>4
    <2>6. \A j \in n .. Len(items) : items[j] \in Item
      BY <2>5
    <2>7. \A j \in n .. Len(items) : items[j].key \in Nat
      BY <2>6 DEF Item
    <2>3. \A j \in slot.at .. Len(page.items) : key < page.items[j].key
      BY <2>1, <2>2, <2>4, <2>7
    <2> QED
      BY <2>1, <2>3 DEF Gap
  <1>6. slot.found \in BOOLEAN
    BY <1>3 DEF SlotOK
  <1> QED
    BY <1>4, <1>5, <1>6

\* upsert.
LEMMA UpsertOK ==
  ASSUME NEW s, NEW r, NEW D, NEW L, NEW g, NEW q, NEW ch, Mid(s, r, D, L, g, q, ch, NoPage, NoPage), Payload(D),
         NEW key \in Nat, NEW v \in Seq(Nat), NEW D2, Sets(D, key, v, D2), NEW res, res = Upsert(s, r, key, v)
  PROVE  UpsertedOK(s, r, D, D2, L, res)
  <1>1. PICK path : path = Descend(s, r, key)
    OBVIOUS
  <1>2. PICK a : a = Last(path)
    OBVIOUS
  <1>3. PICK page : page = s.pages[a]
    OBVIOUS
  <1>4. PICK slot : slot = SlotSearch(page, key)
    OBVIOUS
  <1>5. PICK built : built = BuildItem(s, key, v)
    OBVIOUS
  <1>6. PICK released : released = ReleaseItem(built.s, page.items[slot.at])
    OBVIOUS
  <1>7. res = IF slot.found /\ CanReplace(page, slot.at, built.item)
              THEN Done(Put(released, a, ReplaceItem(page, slot.at, built.item)), r)
              ELSE IF slot.found
              THEN SplitLeaf(Put(released, a, RemoveItem(page, slot.at)), r, path, slot.at, built.item)
              ELSE IF CanInsert(page, built.item)
              THEN Done(Put(built.s, a, InsertItem(page, slot.at, built.item)), r)
              ELSE SplitLeaf(built.s, r, path, slot.at, built.item)
    BY <1>1, <1>2, <1>3, <1>4, <1>5, <1>6, Zenon DEF Upsert
  <1>8. PICK m : Located(s, r, g, q, D, ch, key, path, m, a)
    BY <1>1, <1>2, LocateOK
  <1>9. /\ slot.found \in BOOLEAN
        /\ slot.found => KeyAt(page, slot.at, key)
        /\ ~slot.found => Gap(page.items, key, slot.at)
    BY <1>3, <1>4, <1>8, LeafSlot
  <1>10. FileOK(s, q) /\ ChainsOK(Over(s), ch, D, L)
    BY DEF Mid
  <1>11. PICK c, q1 : /\ FileOK(built.s, q1) /\ Tree(built.s) = Tree(s) /\ Len(s.pages) <= Len(built.s.pages)
                      /\ ChainOK(Over(built.s), c, v) /\ built.item = Entry(key, v, Link(c, 1))
                      /\ Grown(Over(s), c, Over(built.s))
    BY <1>5, <1>10, BuildItemOK
  <1>12. PICK b : b = built.s
    OBVIOUS
  <1>13. PICK e : e = built.item
    OBVIOUS
  <1>14. PICK at : at = slot.at
    OBVIOUS
  <1>15. /\ FileOK(b, q1) /\ Tree(b) = Tree(s) /\ ChainOK(Over(b), c, v) /\ e = Entry(key, v, Link(c, 1))
         /\ Grown(Over(s), c, Over(b)) /\ released = ReleaseItem(b, page.items[at])
    BY <1>6, <1>11, <1>12, <1>13, <1>14
  <1>18. Built(s, key, v, b, q1, c, e)
    BY <1>15 DEF Built
  <1>16. CASE slot.found
    <2>1. CanReplace(page, at, e) => res = Done(Put(released, a, ReplaceItem(page, at, e)), r)
      BY <1>7, <1>12, <1>13, <1>14, <1>16
    <2>2. ~CanReplace(page, at, e) => res = SplitLeaf(Put(released, a, RemoveItem(page, at)), r, path, at, e)
      BY <1>7, <1>12, <1>13, <1>14, <1>16
    <2>3. KeyAt(page, at, key)
      BY <1>9, <1>14, <1>16
    <2>4. FoundResult(b, r, path, a, page, at, e, res)
      BY <1>15, <2>1, <2>2 DEF FoundResult
    <2> QED
      BY <1>3, <1>8, <1>10, <1>18, <2>3, <2>4, UpsertFound
  <1>17. CASE ~slot.found
    <2>1. CanInsert(page, e) => res = Done(Put(b, a, InsertItem(page, at, e)), r)
      BY <1>7, <1>12, <1>13, <1>14, <1>17
    <2>2. ~CanInsert(page, e) => res = SplitLeaf(b, r, path, at, e)
      BY <1>7, <1>12, <1>13, <1>14, <1>17
    <2>3. Gap(page.items, key, at)
      BY <1>9, <1>14, <1>17
    <2>4. NewResult(b, r, path, a, page, at, e, res)
      BY <2>1, <2>2 DEF NewResult
    <2> QED
      BY <1>3, <1>8, <1>10, <1>18, <2>3, <2>4, UpsertNew
  <1> QED
    BY <1>9, <1>16, <1>17

\* remove: the entry and its chain go, if there are any.
LEMMA RemoveKeyOK ==
  ASSUME NEW s, NEW r, NEW D, NEW L, NEW g, NEW q, NEW ch, Mid(s, r, D, L, g, q, ch, NoPage, NoPage), Payload(D),
         NEW key \in Nat, NEW D2, Drops(D, key, D2), NEW s2, s2 = RemoveKey(s, r, key)
  PROVE  \E q2 : Mid(s2, r, D2, L, g, q2, ch, NoPage, NoPage)
  <1>1. PICK path : path = Descend(s, r, key)
    OBVIOUS
  <1>2. PICK a : a = Last(path)
    OBVIOUS
  <1>3. PICK page : page = s.pages[a]
    OBVIOUS
  <1>4. PICK slot : slot = SlotSearch(page, key)
    OBVIOUS
  <1>5. PICK at : at = slot.at
    OBVIOUS
  <1>6. PICK released : released = ReleaseItem(s, page.items[at])
    OBVIOUS
  <1>7. s2 = IF ~slot.found THEN s ELSE Put(released, a, RemoveItem(page, at))
    BY <1>1, <1>2, <1>3, <1>4, <1>5, <1>6, Zenon DEF RemoveKey
  <1>8. PICK m : Located(s, r, g, q, D, ch, key, path, m, a)
    BY <1>1, <1>2, LocateOK
  <1>9. /\ slot.found \in BOOLEAN
        /\ slot.found => KeyAt(page, at, key)
        /\ ~slot.found => Gap(page.items, key, at)
    BY <1>3, <1>4, <1>5, <1>8, LeafSlot
  <1>10. FileOK(s, q) /\ ChainsOK(Over(s), ch, D, L)
    BY DEF Mid
  <1>11. CASE ~slot.found
    <2>1. key \notin DOMAIN D
      BY <1>3, <1>8, <1>9, <1>11, NotFound
    <2>2. DOMAIN D2 = DOMAIN D /\ \A y \in DOMAIN D : D2[y] = D[y]
      BY <2>1 DEF Drops
    <2>3. ChainsOK(Over(s), ch, D2, L)
      BY <1>10, <2>2 DEF ChainsOK
    <2>4. ContentsOK(Tree(s), D2, ch)
      <3>1. ContentsOK(Tree(s), D, ch)
        BY DEF Mid
      <3> QED
        BY <2>2, <3>1 DEF ContentsOK
    <2> QED
      BY <1>7, <1>11, <2>3, <2>4 DEF Mid
  <1>12. CASE slot.found
    <2>1. KeyAt(page, at, key)
      BY <1>9, <1>12
    <2>2. key \in DOMAIN D /\ page.items[at] = Entry(key, D[key], Link(ch[key], 1))
      BY <1>3, <1>8, <2>1, FoundEntry DEF KeyAt
    <2>3. PICK w \in Seq(Nat) : w = D[key]
      BY <2>2 DEF Payload
    <2>4. PICK d : d = ch[key]
      OBVIOUS
    <2>5. ChainOK(Over(s), d, w) /\ page.items[at] = Entry(key, w, Link(d, 1))
      BY <1>10, <2>2, <2>3, <2>4 DEF ChainsOK
    <2>6. PICK q2 : FileOK(released, q2)
      BY <1>6, <1>10, <2>5, ReleaseItemOK
    <2>7. Tree(released) = Tree(s) /\ Shrunk(Over(s), d, Len(d), Over(released))
      BY <1>6, <1>10, <2>5, ReleaseItemOK
    <2>8. Located(released, r, g, q2, D, ch, key, path, m, a) /\ released.pages[a] = s.pages[a]
      BY <1>8, <2>6, <2>7, LocatedKept
    <2>9. PICK p2 : p2 = RemoveItem(page, at)
      OBVIOUS
    <2>10. s2 = Put(released, a, p2)
      BY <1>7, <1>12, <2>9
    <2>11. Removal(released, a, page, at, p2, s2)
      BY <1>3, <2>8, <2>9, <2>10 DEF Removal
    <2>12. LeafWithout(released, r, g, q2, D2, ch, key, path, m, a, page, at, p2, s2)
      BY <2>1, <2>8, <2>11, LocatedRemoval
    <2>13. Located(s2, r, g, q2, D2, ch, key, path, m, a) /\ Over(s2) = Over(released)
      BY <2>12 DEF LeafWithout
    <2>14. ChainsOK(Over(released), ch, D2, L)
      <3>1. Shrunk(Over(s), ch[key], Len(ch[key]), Over(released))
        BY <2>4, <2>7
      <3> QED
        BY <1>10, <2>2, <3>1, ChainsDrop
    <2> QED
      BY <2>13, <2>14 DEF Mid, Located
  <1> QED
    BY <1>9, <1>11, <1>12
-----------------------------------------------------------------------------
(* Destruction *)

\* a is on a stack.
On(q, a) == \E i \in 1 .. Len(q) : q[i] = a

\* The stack q with the children c in place of its last node.
Unrolled(q, id, c, q2) == q2 \in Seq(Nat) /\ Distinct(q2) /\ \A a : On(q2, a) <=> (On(q, a) /\ a # id) \/ On(c, a)

\* Stacks without a common node.
Separate(c, q) == \A a : On(c, a) => ~On(q, a)

\* The stack q is f and id on top of it.
Topped(q, f, l, id) ==
  /\ l \in Nat /\ f \in Seq(Nat) /\ Len(f) = l /\ Len(q) = l + 1 /\ q[l + 1] = id
  /\ \A i \in 1 .. l : f[i] = q[i]

\* The front of a stack and its last node.
LEMMA FrontIs ==
  ASSUME NEW q \in Seq(Nat), q # <<>>
  PROVE  \E l : Topped(q, Front(q), l, Last(q))
  <1>1. PICK n \in Nat : n = Len(q)
    OBVIOUS
  <1>2. n # 0
    BY <1>1
  <1>3. PICK l \in Nat : n = l + 1
    BY <1>2
  <1>4. PICK f : f = Front(q)
    OBVIOUS
  <1>5. n - 1 = l
    BY <1>3
  <1>6. f = SubSeq(q, 1, l) /\ Last(q) = q[l + 1]
    <2>1. f = SubSeq(q, 1, n - 1) /\ Last(q) = q[n]
      BY <1>1, <1>4 DEF Front, Last
    <2> QED
      BY <1>3, <1>5, <2>1
  <1>7. f \in Seq(Nat) /\ Len(f) = l /\ \A i \in 1 .. l : f[i] = q[i]
    <2>1. l <= Len(q)
      BY <1>1, <1>3
    <2> QED
      BY <1>6, <2>1
  <1> QED
    BY <1>1, <1>3, <1>4, <1>6, <1>7 DEF Topped

\* A node is on a stack when it is the last one or on the front.
LEMMA ToppedOn ==
  ASSUME NEW q, NEW f, NEW l, NEW id, Topped(q, f, l, id), Distinct(q)
  PROVE  Distinct(f) /\ On(q, id) /\ \A a : On(f, a) <=> On(q, a) /\ a # id
  <1>1. /\ l \in Nat /\ Len(f) = l /\ Len(q) = l + 1 /\ q[l + 1] = id
        /\ \A i \in 1 .. l : f[i] = q[i]
    BY DEF Topped
  <1>2. \A i, j \in 1 .. l + 1 : q[i] = q[j] => i = j
    BY <1>1 DEF Distinct
  <1>3. l + 1 \in 1 .. l + 1 /\ \A i \in 1 .. l : i \in 1 .. l + 1 /\ i # l + 1
    BY <1>1
  <1>4. Distinct(f)
    BY <1>1, <1>2, <1>3 DEF Distinct
  <1>5. On(q, id)
    BY <1>1, <1>3 DEF On
  <1>6. ASSUME NEW a, On(f, a) PROVE On(q, a) /\ a # id
    <2>1. PICK i \in 1 .. l : q[i] = a
      BY <1>1, <1>6 DEF On
    <2>2. i \in 1 .. l + 1 /\ i # l + 1
      BY <1>3
    <2> QED
      BY <1>1, <1>2, <1>3, <2>1, <2>2 DEF On
  <1>7. ASSUME NEW a, On(q, a), a # id PROVE On(f, a)
    <2>1. PICK i \in 1 .. l + 1 : q[i] = a
      BY <1>1, <1>7 DEF On
    <2>2. i # l + 1
      BY <1>1, <1>7, <2>1
    <2>3. i \in 1 .. l
      BY <1>1, <2>1, <2>2
    <2> QED
      BY <1>1, <2>1, <2>3 DEF On
  <1> QED
    BY <1>4, <1>5, <1>6, <1>7

\* A node is on a concatenation when it is on one of its parts.
LEMMA ConcatOn ==
  ASSUME NEW f \in Seq(Nat), Distinct(f), NEW c \in Seq(Nat), Distinct(c), Separate(c, f), NEW q2, q2 = f \o c
  PROVE  q2 \in Seq(Nat) /\ Distinct(q2) /\ \A a : On(q2, a) <=> On(f, a) \/ On(c, a)
  <1>1. Concats(f, c, q2)
    BY Concat
  <1>2. PICK l \in Nat : l = Len(f)
    OBVIOUS
  <1>3. PICK m \in Nat : m = Len(c)
    OBVIOUS
  <1>4. q2 \in Seq(Nat) /\ Len(q2) = l + m /\ (\A i \in 1 .. l : q2[i] = f[i]) /\ \A i \in 1 .. m : q2[i + l] = c[i]
    BY <1>1, <1>2, <1>3 DEF Concats
  <1>5. \A i \in 1 .. l : On(f, q2[i])
    BY <1>2, <1>4 DEF On
  <1>6. \A i \in 1 .. m : On(c, q2[i + l])
    BY <1>3, <1>4 DEF On
  <1>7. \A i \in 1 .. l + m : i \in 1 .. l \/ \E j \in 1 .. m : i = j + l
    <2> SUFFICES ASSUME NEW i \in 1 .. l + m, i > l PROVE \E j \in 1 .. m : i = j + l
      OBVIOUS
    <2>1. PICK j : j = i - l
      OBVIOUS
    <2>2. j \in 1 .. m /\ i = j + l
      BY <2>1
    <2> QED
      BY <2>2
  <1>8. Distinct(q2)
    <2> SUFFICES ASSUME NEW i \in 1 .. l + m, NEW j \in 1 .. l + m, q2[i] = q2[j] PROVE i = j
      BY <1>4 DEF Distinct
    <2>1. CASE i \in 1 .. l /\ j \in 1 .. l
      <3>1. f[i] = f[j]
        BY <1>4, <2>1
      <3> QED
        BY <1>2, <2>1, <3>1 DEF Distinct
    <2>2. ASSUME NEW x \in 1 .. m, i = x + l, NEW y \in 1 .. m, j = y + l PROVE i = j
      <3>1. c[x] = c[y]
        BY <1>4, <2>2
      <3>2. x = y
        BY <1>3, <3>1 DEF Distinct
      <3> QED
        BY <2>2, <3>2
    <2>3. ASSUME i \in 1 .. l, NEW y \in 1 .. m, j = y + l PROVE FALSE
      BY <1>5, <1>6, <2>3 DEF Separate
    <2>4. ASSUME j \in 1 .. l, NEW y \in 1 .. m, i = y + l PROVE FALSE
      BY <1>5, <1>6, <2>4 DEF Separate
    <2> QED
      BY <1>7, <2>1, <2>2, <2>3, <2>4
  <1>9. ASSUME NEW a, On(q2, a) PROVE On(f, a) \/ On(c, a)
    <2>1. PICK i \in 1 .. l + m : q2[i] = a
      BY <1>4, <1>9 DEF On
    <2> QED
      BY <1>5, <1>6, <1>7, <2>1
  <1>10. ASSUME NEW a, On(f, a) PROVE On(q2, a)
    <2>1. PICK i \in 1 .. l : f[i] = a
      BY <1>2, <1>10 DEF On
    <2>2. i \in 1 .. l + m /\ q2[i] = a
      BY <1>4, <2>1
    <2> QED
      BY <1>4, <2>2 DEF On
  <1>11. ASSUME NEW a, On(c, a) PROVE On(q2, a)
    <2>1. PICK i \in 1 .. m : c[i] = a
      BY <1>3, <1>11 DEF On
    <2>2. i + l \in 1 .. l + m /\ q2[i + l] = a
      BY <1>4, <2>1
    <2> QED
      BY <1>4, <2>2 DEF On
  <1> QED
    BY <1>4, <1>8, <1>9, <1>10, <1>11

\* The last node of a stack goes, and its children come.
LEMMA Unroll ==
  ASSUME NEW q \in Seq(Nat), q # <<>>, Distinct(q), NEW c \in Seq(Nat), Distinct(c), Separate(c, q),
         NEW q2, q2 = Front(q) \o c
  PROVE  Unrolled(q, Last(q), c, q2) /\ On(q, Last(q))
  <1>1. PICK f : f = Front(q)
    OBVIOUS
  <1>2. PICK id : id = Last(q)
    OBVIOUS
  <1>3. PICK l : Topped(q, f, l, id)
    BY <1>1, <1>2, FrontIs
  <1>4. Distinct(f) /\ On(q, id) /\ \A a : On(f, a) <=> On(q, a) /\ a # id
    BY <1>3, ToppedOn
  <1>5. f \in Seq(Nat)
    BY <1>3 DEF Topped
  <1>6. Separate(c, f)
    BY <1>4 DEF Separate
  <1>7. q2 \in Seq(Nat) /\ Distinct(q2) /\ \A a : On(q2, a) <=> On(f, a) \/ On(c, a)
    BY <1>1, <1>4, <1>5, <1>6, ConcatOn
  <1> QED
    BY <1>2, <1>4, <1>7 DEF Unrolled

\* The last node of a stack goes.
LEMMA Pop ==
  ASSUME NEW q \in Seq(Nat), q # <<>>, Distinct(q), NEW q2, q2 = Front(q)
  PROVE  Unrolled(q, Last(q), <<>>, q2) /\ On(q, Last(q))
  <1>2. PICK id : id = Last(q)
    OBVIOUS
  <1>3. PICK l : Topped(q, q2, l, id)
    BY <1>2, FrontIs
  <1>4. Distinct(q2) /\ On(q, id) /\ \A a : On(q2, a) <=> On(q, a) /\ a # id
    BY <1>3, ToppedOn
  <1>5. q2 \in Seq(Nat)
    BY <1>3 DEF Topped
  <1>6. \A a : ~On(<<>>, a)
    BY DEF On
  <1> QED
    BY <1>2, <1>4, <1>5, <1>6 DEF Unrolled

\* a is a child of a node.
ChildOf(page, a) == \E j \in 0 .. Len(page.items) : Child(page, j) = a

\* A node with n items and n + 1 children.
Branches(page, n) == page.items \in Seq(Item) /\ n = Len(page.items) /\ \A j \in 0 .. n : Child(page, j) \in Nat

\* c lists the children of a node.
Lists(page, n, c) == c \in Seq(Nat) /\ Len(c) = n + 1 /\ \A j \in 0 .. n : c[j + 1] = Child(page, j)

\* The children of a node, as destroy lists them.
LEMMA ChildrenAre ==
  ASSUME NEW page, NEW n \in Nat, Branches(page, n), NEW c, c = Children(page)
  PROVE  Lists(page, n, c)
  <1>a. page.items \in Seq(Item) /\ n = Len(page.items) /\ \A j \in 0 .. n : Child(page, j) \in Nat
    BY DEF Branches
  <1>1. PICK x : x = <<page.extra>>
    OBVIOUS
  <1>2. PICK z : z = [i \in DOMAIN page.items |-> page.items[i].data[2]]
    OBVIOUS
  <1>3. page.extra \in Nat
    <2>1. Child(page, 0) = page.extra
      BY DEF Child
    <2> QED
      BY <1>a, <2>1
  <1>4. x \in Seq(Nat) /\ Len(x) = 1 /\ x[1] = page.extra
    BY <1>1, <1>3
  <1>5. \A i \in 1 .. n : z[i] = Child(page, i) /\ z[i] \in Nat
    <2> SUFFICES ASSUME NEW i \in 1 .. n PROVE z[i] = Child(page, i) /\ z[i] \in Nat
      OBVIOUS
    <2>1. i \in DOMAIN page.items /\ i \in 0 .. n /\ i # 0
      BY <1>a
    <2>2. z[i] = page.items[i].data[2]
      BY <1>2, <2>1
    <2> QED
      BY <1>a, <2>1, <2>2 DEF Child
  <1>6. z \in Seq(Nat) /\ Len(z) = n
    <2>1. DOMAIN page.items = 1 .. n
      BY <1>a
    <2>2. z \in [1 .. n -> Nat]
      BY <1>2, <1>5, <2>1
    <2> QED
      BY <2>2
  <1>7. c = x \o z
    BY <1>1, <1>2 DEF Children
  <1>8. Concats(x, z, c)
    BY <1>4, <1>6, <1>7, Concat
  <1>9. c \in Seq(Nat) /\ Len(c) = n + 1 /\ c[1] = page.extra /\ \A i \in 1 .. n : c[i + 1] = z[i]
    BY <1>4, <1>6, <1>8 DEF Concats
  <1>10. ASSUME NEW j \in 0 .. n PROVE c[j + 1] = Child(page, j)
    <2>1. CASE j = 0
      BY <1>9, <2>1 DEF Child
    <2>2. CASE j # 0
      <3>1. j \in 1 .. n
        BY <2>2
      <3> QED
        BY <1>5, <1>9, <3>1
    <2> QED
      BY <2>1, <2>2
  <1> QED
    BY <1>9, <1>10 DEF Lists

\* The children of a node of the tree.
LEMMA ChildrenOn ==
  ASSUME NEW T, NEW r, NEW g, TreeOK(T, r, g, NoPage, NoPage), NEW id \in DOMAIN T, T[id].kind = "Internal",
         NEW c, c = Children(T[id])
  PROVE  c \in Seq(Nat) /\ Distinct(c) /\ \A a : On(c, a) <=> ChildOf(T[id], a)
  <1>1. PICK page : page = T[id]
    OBVIOUS
  <1>2. NodeOK(T, g, id)
    BY TreeFacts
  <1>3. PICK n \in Nat : n = Len(page.items) /\ page.items \in Seq(Item)
    BY <1>1, <1>2, NodeFacts
  <1>4. ASSUME NEW j \in 0 .. n PROVE Child(page, j) \in Nat
    <2>1. Child(page, j) \in DOMAIN T
      BY <1>1, <1>3, ChildFacts
    <2> QED
      BY <2>1, TreeFacts
  <1>5. c \in Seq(Nat) /\ Len(c) = n + 1 /\ \A j \in 0 .. n : c[j + 1] = Child(page, j)
    <2>1. Branches(page, n)
      BY <1>3, <1>4 DEF Branches
    <2>2. Lists(page, n, c)
      BY <1>1, <2>1, ChildrenAre
    <2> QED
      BY <2>2 DEF Lists
  <1>6. \A i \in 1 .. n + 1 : i - 1 \in 0 .. n /\ (i - 1) + 1 = i
    OBVIOUS
  <1>7. \A i \in 1 .. n + 1 : c[i] = Child(page, i - 1)
    BY <1>5, <1>6
  <1>8. Distinct(c)
    <2> SUFFICES ASSUME NEW i \in 1 .. n + 1, NEW j \in 1 .. n + 1, c[i] = c[j] PROVE i = j
      BY <1>5 DEF Distinct
    <2>1. PICK x \in 0 .. n : x = i - 1
      BY <1>6
    <2>2. PICK y \in 0 .. n : y = j - 1
      BY <1>6
    <2>3. Child(T[id], x) = Child(T[id], y) /\ x \in 0 .. Len(T[id].items) /\ y \in 0 .. Len(T[id].items)
      BY <1>1, <1>3, <1>7, <2>1, <2>2
    <2>4. x = y
      BY <2>3, OneParent
    <2> QED
      BY <2>1, <2>2, <2>4
  <1>9. ASSUME NEW a, On(c, a) PROVE ChildOf(page, a)
    <2>1. PICK i \in 1 .. n + 1 : c[i] = a
      BY <1>5, <1>9 DEF On
    <2>2. PICK x \in 0 .. n : x = i - 1
      BY <1>6
    <2> QED
      BY <1>3, <1>7, <2>1, <2>2 DEF ChildOf
  <1>10. ASSUME NEW a, ChildOf(page, a) PROVE On(c, a)
    <2>1. PICK j \in 0 .. n : Child(page, j) = a
      BY <1>3, <1>10 DEF ChildOf
    <2>2. j + 1 \in 1 .. n + 1 /\ c[j + 1] = a
      BY <1>5, <2>1
    <2> QED
      BY <1>5, <2>2 DEF On
  <1> QED
    BY <1>1, <1>5, <1>8, <1>9, <1>10

\* a has its parent among the nodes R.
Parented(T, R, a) == \E p \in R : T[p].kind = "Internal" /\ ChildOf(T[p], a)

\* The nodes R that are left are those of the subtrees whose roots are on the stack q.
Hanging(T, R, q) ==
  /\ R \subseteq DOMAIN T /\ q \in Seq(Nat) /\ Distinct(q)
  /\ \A a : On(q, a) => a \in R /\ ~Parented(T, R, a)
  /\ \A a \in R : On(q, a) \/ Parented(T, R, a)
  /\ \A a : Parented(T, R, a) => a \in R

\* An internal node makes way for its children.
LEMMA HangInternal ==
  ASSUME NEW T, NEW r, NEW g, TreeOK(T, r, g, NoPage, NoPage), NEW R, NEW q, Hanging(T, R, q), q # <<>>,
         NEW id, id = Last(q), T[id].kind = "Internal", NEW q2, q2 = Front(q) \o Children(T[id]), NEW R2, R2 = R \ {id}
  PROVE  Hanging(T, R2, q2)
  <1>1. PICK c : c = Children(T[id])
    OBVIOUS
  <1>2. R \subseteq DOMAIN T /\ q \in Seq(Nat) /\ Distinct(q)
    BY DEF Hanging
  <1>3. On(q, id)
    BY <1>2, Pop
  <1>4. id \in R /\ id \in DOMAIN T /\ ~Parented(T, R, id)
    BY <1>2, <1>3 DEF Hanging
  <1>5. c \in Seq(Nat) /\ Distinct(c) /\ \A a : On(c, a) <=> ChildOf(T[id], a)
    BY <1>1, <1>4, ChildrenOn
  <1>6. \A a : On(c, a) => Parented(T, R, a)
    BY <1>4, <1>5 DEF Parented
  <1>7. Separate(c, q)
    BY <1>6 DEF Separate, Hanging
  <1>8. Unrolled(q, id, c, q2)
    BY <1>1, <1>2, <1>5, <1>7, Unroll
  <1>9. q2 \in Seq(Nat) /\ Distinct(q2) /\ \A a : On(q2, a) <=> (On(q, a) /\ a # id) \/ On(c, a)
    BY <1>8 DEF Unrolled
  <1>10. \A a : Parented(T, R, a) <=> Parented(T, R2, a) \/ On(c, a)
    BY <1>4, <1>5 DEF Parented
  <1>11. ASSUME NEW a, Parented(T, R2, a) PROVE ~On(c, a)
    <2>1. PICK p \in R2 : T[p].kind = "Internal" /\ ChildOf(T[p], a)
      BY <1>11 DEF Parented
    <2>2. PICK j \in 0 .. Len(T[p].items) : Child(T[p], j) = a
      BY <2>1 DEF ChildOf
    <2>3. p \in DOMAIN T /\ p # id
      BY <1>2
    <2>4. ASSUME On(c, a) PROVE FALSE
      <3>1. PICK i \in 0 .. Len(T[id].items) : Child(T[id], i) = a
        BY <1>5, <2>4 DEF ChildOf
      <3>2. p = id
        BY <1>4, <2>1, <2>2, <2>3, <3>1, OneParent
      <3> QED
        BY <2>3, <3>2
    <2> QED
      BY <2>4
  <1>12. \A a : On(q2, a) => a \in R2 /\ ~Parented(T, R2, a)
    BY <1>4, <1>6, <1>9, <1>10, <1>11 DEF Hanging
  <1>13. \A a \in R2 : On(q2, a) \/ Parented(T, R2, a)
    BY <1>9, <1>10 DEF Hanging
  <1>14. \A a : Parented(T, R2, a) => a \in R2
    BY <1>4, <1>10 DEF Hanging
  <1> QED
    BY <1>2, <1>9, <1>12, <1>13, <1>14 DEF Hanging

\* A leaf goes.
LEMMA HangLeaf ==
  ASSUME NEW T, NEW R, NEW q, Hanging(T, R, q), q # <<>>,
         NEW id, id = Last(q), T[id].kind = "Leaf", NEW q2, q2 = Front(q), NEW R2, R2 = R \ {id}
  PROVE  Hanging(T, R2, q2)
  <1>2. R \subseteq DOMAIN T /\ q \in Seq(Nat) /\ Distinct(q)
    BY DEF Hanging
  <1>3. Unrolled(q, id, <<>>, q2) /\ On(q, id)
    BY <1>2, Pop
  <1>4. id \in R /\ id \in DOMAIN T /\ ~Parented(T, R, id)
    BY <1>2, <1>3 DEF Hanging
  <1>5. \A a : ~On(<<>>, a)
    BY DEF On
  <1>9. q2 \in Seq(Nat) /\ Distinct(q2) /\ \A a : On(q2, a) <=> (On(q, a) /\ a # id)
    BY <1>3, <1>5 DEF Unrolled
  <1>10. \A a : Parented(T, R, a) <=> Parented(T, R2, a)
    BY DEF Parented
  <1>12. \A a : On(q2, a) => a \in R2 /\ ~Parented(T, R2, a)
    BY <1>4, <1>9, <1>10 DEF Hanging
  <1>13. \A a \in R2 : On(q2, a) \/ Parented(T, R2, a)
    BY <1>9, <1>10 DEF Hanging
  <1>14. \A a : Parented(T, R2, a) => a \in R2
    BY <1>4, <1>10 DEF Hanging
  <1> QED
    BY <1>2, <1>9, <1>12, <1>13, <1>14 DEF Hanging

\* D2 is D without the keys of the first k items.
Trimmed(D, items, k, D2) ==
  /\ \A y : y \in DOMAIN D2 <=> y \in DOMAIN D /\ \A i \in 1 .. k : items[i].key # y
  /\ \A y \in DOMAIN D2 : D2[y] = D[y]

\* The items are entries of D.
Entries(items, D, ch) ==
  /\ items \in Seq(Item) /\ Sorted(items)
  /\ \A i \in 1 .. Len(items) : items[i].key \in DOMAIN D
                                /\ items[i] = Entry(items[i].key, D[items[i].key], Link(ch[items[i].key], 1))

\* After the chains of the first k items are released.
Unchained(s, D, ch, L, items, k, s2) ==
  \E q2, D2 : /\ FileOK(s2, q2) /\ Tree(s2) = Tree(s) /\ Len(s2.pages) = Len(s.pages)
              /\ Trimmed(D, items, k, D2) /\ ChainsOK(Over(s2), ch, D2, L)

\* One item more.
LEMMA UnchainedMore ==
  ASSUME NEW s, NEW D, NEW ch, NEW L, NEW items, Entries(items, D, ch), Payload(D), NEW k \in Nat, k < Len(items), NEW s2,
         Unchained(s, D, ch, L, items, k, s2), NEW s3, s3 = ReleaseItem(s2, items[k + 1])
  PROVE  Unchained(s, D, ch, L, items, k + 1, s3)
  <1>1. PICK q2, D2 : /\ FileOK(s2, q2) /\ Tree(s2) = Tree(s) /\ Len(s2.pages) = Len(s.pages)
                      /\ Trimmed(D, items, k, D2) /\ ChainsOK(Over(s2), ch, D2, L)
    BY DEF Unchained
  <1>2. PICK n \in Nat : n = Len(items)
    BY DEF Entries
  <1>3. PICK m \in 1 .. n : m = k + 1
    BY <1>2
  <1>4. PICK item : item = items[m]
    OBVIOUS
  <1>5. PICK key : key = item.key
    OBVIOUS
  <1>6. key \in DOMAIN D /\ item = Entry(key, D[key], Link(ch[key], 1))
    BY <1>2, <1>4, <1>5 DEF Entries
  <1>7. \A i \in 1 .. k : items[i].key # key
    <2> SUFFICES ASSUME NEW i \in 1 .. k PROVE items[i].key # key
      OBVIOUS
    <2>1. i \in 1 .. n /\ i < m
      BY <1>3
    <2>2. items[i].key < items[m].key
      BY <1>2, <2>1 DEF Entries, Sorted
    <2>3. items[i] \in Item /\ items[m] \in Item
      BY <1>2, <2>1 DEF Entries
    <2>4. items[i].key \in Nat /\ items[m].key \in Nat
      BY <2>3 DEF Item
    <2> QED
      BY <1>4, <1>5, <2>2, <2>4
  <1>8. key \in DOMAIN D2 /\ D2[key] = D[key]
    BY <1>1, <1>6, <1>7 DEF Trimmed
  <1>9. PICK w \in Seq(Nat) : w = D[key]
    BY <1>6 DEF Payload
  <1>10. PICK d : d = ch[key]
    OBVIOUS
  <1>11. ChainOK(Over(s2), d, w)
    BY <1>1, <1>8, <1>9, <1>10 DEF ChainsOK
  <1>12. item = Entry(key, w, Link(d, 1)) /\ s3 = ReleaseItem(s2, item)
    BY <1>3, <1>4, <1>6, <1>9, <1>10
  <1>13. PICK q3 : FileOK(s3, q3)
    BY <1>1, <1>11, <1>12, ReleaseItemOK
  <1>14. Tree(s3) = Tree(s2) /\ Shrunk(Over(s2), d, Len(d), Over(s3)) /\ Len(s3.pages) = Len(s2.pages)
    BY <1>1, <1>11, <1>12, ReleaseItemOK
  <1>15. PICK D3 : D3 = [y \in DOMAIN D2 \ {key} |-> D2[y]]
    OBVIOUS
  <1>16. Drops(D2, key, D3)
    BY <1>15 DEF Drops
  <1>17. ChainsOK(Over(s3), ch, D3, L)
    <2>1. Shrunk(Over(s2), ch[key], Len(ch[key]), Over(s3))
      BY <1>10, <1>14
    <2> QED
      BY <1>1, <1>8, <1>16, <2>1, ChainsDrop
  <1>18. Trimmed(D, items, k + 1, D3)
    <2>1. \A y : (\A i \in 1 .. k + 1 : items[i].key # y) <=> (\A i \in 1 .. k : items[i].key # y) /\ y # key
      <3>1. \A i : i \in 1 .. k + 1 <=> i \in 1 .. k \/ i = m
        BY <1>3
      <3> QED
        BY <1>4, <1>5, <3>1
    <2> QED
      BY <1>1, <1>16, <2>1 DEF Trimmed, Drops
  <1>19. Tree(s3) = Tree(s) /\ Len(s3.pages) = Len(s.pages)
    BY <1>1, <1>14
  <1> QED
    BY <1>13, <1>17, <1>18, <1>19 DEF Unchained

\* The chains of all items of a leaf are released.
LEMMA ReleasedItemsOK ==
  ASSUME NEW s, NEW q, FileOK(s, q), NEW D, NEW ch, NEW L, ChainsOK(Over(s), ch, D, L), NEW page, Entries(page.items, D, ch),
         Payload(D), NEW s2, s2 = ReleasedItems(s, page)
  PROVE  Unchained(s, D, ch, L, page.items, Len(page.items), s2)
  <1>1. PICK items : items = page.items
    OBVIOUS
  <1>2. Entries(items, D, ch)
    BY <1>1
  <1>3. PICK n \in Nat : n = Len(items)
    BY <1>2 DEF Entries
  <1>4. PICK f : /\ f[0] = s
                 /\ \A k \in 0 .. n - 1 : f[k + 1] = ReleaseItem(f[k], items[k + 1])
                 /\ ReleasedItems(s, page) = f[n]
    BY <1>1, <1>3, ReleasedItemsIs
  <1> DEFINE S == {k \in Nat : k <= n => Unchained(s, D, ch, L, items, k, f[k])}
  <1>5. 0 \in S
    <2>1. Trimmed(D, items, 0, D)
      BY DEF Trimmed
    <2>2. Unchained(s, D, ch, L, items, 0, s)
      BY <2>1 DEF Unchained
    <2> QED
      BY <1>4, <2>2
  <1>6. ASSUME NEW k \in Nat, k \in S PROVE k + 1 \in S
    <2> SUFFICES ASSUME k + 1 <= n PROVE Unchained(s, D, ch, L, items, k + 1, f[k + 1])
      OBVIOUS
    <2>1. k <= n /\ k < n /\ k \in 0 .. n - 1
      OBVIOUS
    <2>2. PICK x : x = f[k]
      OBVIOUS
    <2>3. PICK z : z = f[k + 1]
      OBVIOUS
    <2>4. Unchained(s, D, ch, L, items, k, x)
      BY <1>6, <2>1, <2>2
    <2>5. z = ReleaseItem(x, items[k + 1])
      BY <1>4, <2>1, <2>2, <2>3
    <2>6. k < Len(items)
      BY <1>3, <2>1
    <2>7. Unchained(s, D, ch, L, items, k + 1, z)
      BY <1>2, <2>4, <2>5, <2>6, UnchainedMore
    <2> QED
      BY <2>3, <2>7
  <1>7. n \in S
    <2> HIDE DEF S
    <2>1. Nat \subseteq S
      BY <1>5, <1>6, SetInduction
    <2> QED
      BY <2>1
  <1> QED
    BY <1>1, <1>3, <1>4, <1>7

\* The nodes that are left are as they were in the tree T.
Remains(T, s) == \A a \in Nodes(s) : s.pages[a] = T[a]

\* After k rounds of destroy, the stack is empty or k nodes of the tree T are gone.
Destroying(T, ch, L, n, k, acc) ==
  /\ \E q, D : FileOK(acc.s, q) /\ Payload(D) /\ ChainsOK(Over(acc.s), ch, D, L) /\ ContentsOK(Tree(acc.s), D, ch)
  /\ Len(acc.s.pages) = n
  /\ Hanging(T, Nodes(acc.s), acc.stack) /\ Remains(T, acc.s)
  /\ acc.stack = <<>> \/ Cardinality(Nodes(acc.s)) + k <= n

\* A leaf holds the entries of its keys.
LEMMA LeafEntries ==
  ASSUME NEW T, NEW D, NEW ch, ContentsOK(T, D, ch), NEW a \in DOMAIN T, T[a].kind = "Leaf",
         T[a].items \in Seq(Item), Sorted(T[a].items)
  PROVE  Entries(T[a].items, D, ch)
  BY DEF ContentsOK, Entries

\* A leaf goes, and its keys with it.
LEMMA ContentsGone ==
  ASSUME NEW T0, NEW r, NEW g, TreeOK(T0, r, g, NoPage, NoPage), NEW T, DOMAIN T \subseteq DOMAIN T0,
         \A b \in DOMAIN T : T[b] = T0[b],
         NEW D, NEW ch, ContentsOK(T, D, ch), NEW a \in DOMAIN T, T[a].kind = "Leaf",
         NEW D2, Trimmed(D, T[a].items, Len(T[a].items), D2), NEW T2, Drops(T, a, T2)
  PROVE  ContentsOK(T2, D2, ch)
  <1>1. DOMAIN T2 = DOMAIN T \ {a} /\ \A b \in DOMAIN T2 : T2[b] = T[b]
    BY DEF Drops
  <1>2. ASSUME NEW b \in DOMAIN T2, T2[b].kind = "Leaf", NEW i \in 1 .. Len(T2[b].items)
        PROVE  T2[b].items[i].key \in DOMAIN D2
               /\ T2[b].items[i] = Entry(T2[b].items[i].key, D2[T2[b].items[i].key], Link(ch[T2[b].items[i].key], 1))
    <2>1. b \in DOMAIN T /\ b # a /\ T2[b] = T[b] /\ b \in DOMAIN T0 /\ T[b] = T0[b] /\ a \in DOMAIN T0 /\ T[a] = T0[a]
      BY <1>1
    <2>2. PICK x : x = T[b].items[i]
      OBVIOUS
    <2>3. PICK k : k = x.key
      OBVIOUS
    <2>4. k \in DOMAIN D /\ x = Entry(k, D[k], Link(ch[k], 1))
      BY <1>2, <2>1, <2>2, <2>3 DEF ContentsOK
    <2>5. NodeOK(T0, g, b)
      BY <2>1, TreeFacts
    <2>6. k \in Nat /\ Covers(g, b, k)
      BY <1>2, <2>1, <2>2, <2>3, <2>5, NodeFacts DEF Covers
    <2>7. ASSUME NEW j \in 1 .. Len(T[a].items), T[a].items[j].key = k PROVE FALSE
      <3>1. PICK y : y = T0[a].items[j]
        OBVIOUS
      <3>2. In(T0[a].items, y) /\ y.key = k
        BY <2>1, <2>7, <3>1 DEF In
      <3>3. T0[a].kind = "Leaf" /\ T0[b].kind = "Leaf"
        BY <1>2, <2>1
      <3>4. a = b
        BY <2>1, <2>6, <3>2, <3>3, LeafHolds
      <3> QED
        BY <2>1, <3>4
    <2>8. k \in DOMAIN D2 /\ D2[k] = D[k]
      BY <2>4, <2>7 DEF Trimmed
    <2> QED
      BY <2>1, <2>2, <2>3, <2>4, <2>8
  <1>3. ASSUME NEW k \in DOMAIN D2
        PROVE  \E b \in DOMAIN T2 : T2[b].kind = "Leaf" /\ \E i \in 1 .. Len(T2[b].items) : T2[b].items[i].key = k
    <2>1. k \in DOMAIN D /\ \A i \in 1 .. Len(T[a].items) : T[a].items[i].key # k
      BY DEF Trimmed
    <2>2. PICK b \in DOMAIN T : T[b].kind = "Leaf" /\ \E i \in 1 .. Len(T[b].items) : T[b].items[i].key = k
      BY <2>1 DEF ContentsOK
    <2>3. b # a
      BY <2>1, <2>2
    <2>4. b \in DOMAIN T2 /\ T2[b] = T[b]
      BY <1>1, <2>2, <2>3
    <2> QED
      BY <2>2, <2>4
  <1> QED
    BY <1>2, <1>3 DEF ContentsOK

\* One node fewer.
LEMMA NodesDropped ==
  ASSUME NEW s, NEW q, FileOK(s, q), NEW id \in Nodes(s), NEW s2, Drops(Tree(s), id, Tree(s2))
  PROVE  /\ Nodes(s2) = Nodes(s) \ {id} /\ \A a \in Nodes(s2) : s2.pages[a] = s.pages[a]
         /\ Cardinality(Nodes(s)) \in Nat /\ Cardinality(Nodes(s2)) + 1 = Cardinality(Nodes(s))
  <1>1. DOMAIN Tree(s) = Nodes(s) /\ \A a \in Nodes(s) : Tree(s)[a] = s.pages[a]
    BY Parts
  <1>2. DOMAIN Tree(s2) = Nodes(s2) /\ \A a \in Nodes(s2) : Tree(s2)[a] = s2.pages[a]
    BY Parts
  <1>3. Nodes(s2) = Nodes(s) \ {id} /\ \A a \in Nodes(s2) : s2.pages[a] = s.pages[a]
    BY <1>1, <1>2 DEF Drops
  <1>4. IsFiniteSet(Nodes(s))
    <2>1. PICK n \in Nat : n = Len(s.pages)
      BY FileFacts
    <2>2. Nodes(s) \subseteq 1 .. n
      BY <2>1, FileFacts
    <2>3. IsFiniteSet(1 .. n)
      BY FS_Interval
    <2> QED
      BY <2>2, <2>3, FS_Subset
  <1>5. Cardinality(Nodes(s)) \in Nat
    BY <1>4, FS_CardinalityType
  <1>6. Cardinality(Nodes(s) \ {id}) = Cardinality(Nodes(s)) - 1
    BY <1>4, FS_RemoveElement
  <1> QED
    BY <1>3, <1>5, <1>6

\* One round of destroy.
LEMMA DestroyMore ==
  ASSUME NEW T, NEW r, NEW g, TreeOK(T, r, g, NoPage, NoPage), NEW ch, NEW L, NEW n \in Nat, NEW k \in Nat,
         NEW acc, Destroying(T, ch, L, n, k, acc), NEW next, next = DestroyStep(acc)
  PROVE  Destroying(T, ch, L, n, k + 1, next)
  <1>1. PICK s : s = acc.s
    OBVIOUS
  <1>2. PICK st : st = acc.stack
    OBVIOUS
  <1>3. PICK q, D : FileOK(s, q) /\ Payload(D) /\ ChainsOK(Over(s), ch, D, L) /\ ContentsOK(Tree(s), D, ch)
    BY <1>1 DEF Destroying
  <1>4. Len(s.pages) = n /\ Hanging(T, Nodes(s), st) /\ Remains(T, s) /\ (st = <<>> \/ Cardinality(Nodes(s)) + k <= n)
    BY <1>1, <1>2 DEF Destroying
  <1>5. CASE st = <<>>
    <2>1. next = acc
      BY <1>2, <1>5 DEF DestroyStep
    <2> QED
      BY <1>2, <1>5, <2>1 DEF Destroying
  <1>6. CASE st # <<>>
    <2>1. PICK id : id = Last(st)
      OBVIOUS
    <2>2. PICK page : page = s.pages[id]
      OBVIOUS
    <2>3. Nodes(s) \subseteq DOMAIN T /\ st \in Seq(Nat) /\ Distinct(st)
      BY <1>4 DEF Hanging
    <2>4. On(st, id)
      BY <1>6, <2>1, <2>3, Pop
    <2>5. id \in Nodes(s)
      BY <1>4, <2>4 DEF Hanging
    <2>6. id \in DOMAIN T /\ page = T[id]
      BY <1>4, <2>2, <2>3, <2>5 DEF Remains
    <2>7. page.kind \in {"Leaf", "Internal"}
      BY <2>2, <2>5 DEF Nodes
    <2>8. next = IF page.kind = "Internal"
                 THEN [s |-> FreePage(s, id), stack |-> Front(st) \o Children(page)]
                 ELSE [s |-> FreePage(ReleasedItems(s, page), id), stack |-> Front(st)]
      BY <1>1, <1>2, <1>6, <2>1, <2>2, Zenon DEF DestroyStep
    <2>9. PICK s2 : s2 = next.s
      OBVIOUS
    <2>10. PICK st2 : st2 = next.stack
      OBVIOUS
    <2>11. DOMAIN Tree(s) = Nodes(s) /\ \A a \in Nodes(s) : Tree(s)[a] = s.pages[a]
      BY Parts
    <2>12. ASSUME NEW q2, NEW D2, FileOK(s2, q2), Payload(D2), ChainsOK(Over(s2), ch, D2, L), ContentsOK(Tree(s2), D2, ch),
                  Len(s2.pages) = n, Drops(Tree(s), id, Tree(s2)), Hanging(T, Nodes(s) \ {id}, st2)
           PROVE  Destroying(T, ch, L, n, k + 1, next)
      <3>1. /\ Nodes(s2) = Nodes(s) \ {id} /\ \A a \in Nodes(s2) : s2.pages[a] = s.pages[a]
            /\ Cardinality(Nodes(s)) \in Nat /\ Cardinality(Nodes(s2)) + 1 = Cardinality(Nodes(s))
        BY <1>3, <2>5, <2>12, NodesDropped
      <3>2. Remains(T, s2)
        BY <1>4, <3>1 DEF Remains
      <3>3. Hanging(T, Nodes(s2), st2)
        BY <2>12, <3>1
      <3>4. Cardinality(Nodes(s2)) + (k + 1) <= n
        <4>1. IsFiniteSet(Nodes(s2))
          <5>1. Len(s2.pages) \in Nat /\ Nodes(s2) \subseteq 1 .. Len(s2.pages)
            BY <2>12, FileFacts
          <5>2. IsFiniteSet(1 .. Len(s2.pages))
            BY <5>1, FS_Interval
          <5> QED
            BY <5>1, <5>2, FS_Subset
        <4>2. Cardinality(Nodes(s2)) \in Nat
          BY <4>1, FS_CardinalityType
        <4> QED
          BY <1>4, <1>6, <3>1, <4>2
      <3> QED
        BY <2>9, <2>10, <2>12, <3>2, <3>3, <3>4 DEF Destroying
    <2>13. CASE page.kind = "Internal"
      <3>1. s2 = FreePage(s, id) /\ st2 = Front(st) \o Children(T[id])
        BY <2>6, <2>8, <2>9, <2>10, <2>13
      <3>2. PICK q2 : FileOK(s2, q2)
        BY <1>3, <2>5, <3>1, FreePart
      <3>3. Drops(Tree(s), id, Tree(s2)) /\ Over(s2) = Over(s) /\ Len(s2.pages) = Len(s.pages)
        BY <1>3, <2>5, <3>1, FreePart
      <3>4. ContentsOK(Tree(s2), D, ch)
        <4>1. DOMAIN Tree(s2) = DOMAIN Tree(s) \ {id} /\ \A a \in DOMAIN Tree(s2) : Tree(s2)[a] = Tree(s)[a]
          BY <3>3 DEF Drops
        <4>2. Tree(s)[id].kind # "Leaf"
          BY <2>2, <2>5, <2>11, <2>13
        <4>3. \A a \in DOMAIN Tree(s) : Tree(s)[a].kind = "Leaf" => a \in DOMAIN Tree(s2) /\ Tree(s2)[a] = Tree(s)[a]
          BY <4>1, <4>2
        <4>4. \A a \in DOMAIN Tree(s2) : Tree(s2)[a].kind = "Leaf" => a \in DOMAIN Tree(s) /\ Tree(s2)[a] = Tree(s)[a]
          BY <4>1
        <4> QED
          BY <1>3, <4>3, <4>4, ContentsKept
      <3>5. Hanging(T, Nodes(s) \ {id}, st2)
        <4>1. T[id].kind = "Internal"
          BY <2>6, <2>13
        <4> QED
          BY <1>4, <1>6, <2>1, <3>1, <4>1, HangInternal
      <3> QED
        BY <1>3, <1>4, <2>12, <3>2, <3>3, <3>4, <3>5
    <2>14. CASE page.kind = "Leaf"
      <3>1. PICK s1 : s1 = ReleasedItems(s, page)
        OBVIOUS
      <3>2. s2 = FreePage(s1, id) /\ st2 = Front(st)
        BY <2>8, <2>9, <2>10, <2>14, <3>1
      <3>3. page.items \in Seq(Item) /\ Sorted(page.items)
        <4>1. NodeOK(T, g, id)
          BY <2>6, TreeFacts
        <4> QED
          BY <2>6, <4>1, NodeFacts
      <3>4. Entries(page.items, D, ch)
        <4>1. id \in DOMAIN Tree(s) /\ Tree(s)[id] = page
          BY <2>2, <2>5, <2>11
        <4> QED
          BY <1>3, <2>14, <3>3, <4>1, LeafEntries
      <3>5. Unchained(s, D, ch, L, page.items, Len(page.items), s1)
        BY <1>3, <3>1, <3>4, ReleasedItemsOK
      <3>6. PICK q1, D1 : /\ FileOK(s1, q1) /\ Tree(s1) = Tree(s) /\ Len(s1.pages) = Len(s.pages)
                          /\ Trimmed(D, page.items, Len(page.items), D1) /\ ChainsOK(Over(s1), ch, D1, L)
        BY <3>5 DEF Unchained
      <3>7. id \in Nodes(s1)
        <4>1. DOMAIN Tree(s1) = Nodes(s1)
          BY Parts
        <4> QED
          BY <2>5, <2>11, <3>6, <4>1
      <3>8. PICK q2 : FileOK(s2, q2)
        BY <3>2, <3>6, <3>7, FreePart
      <3>9. Drops(Tree(s1), id, Tree(s2)) /\ Over(s2) = Over(s1) /\ Len(s2.pages) = Len(s1.pages)
        BY <3>2, <3>6, <3>7, FreePart
      <3>10. Payload(D1)
        BY <1>3, <3>6 DEF Payload, Trimmed
      <3>11. ContentsOK(Tree(s2), D1, ch)
        <4>1. PICK X : X = Tree(s)
          OBVIOUS
        <4>2. PICK X2 : X2 = Tree(s2)
          OBVIOUS
        <4>3. DOMAIN X \subseteq DOMAIN T /\ id \in DOMAIN X /\ X[id] = page /\ Drops(X, id, X2) /\ ContentsOK(X, D, ch)
          BY <1>3, <2>2, <2>3, <2>5, <2>11, <3>6, <3>9, <4>1, <4>2
        <4>4. \A b \in DOMAIN X : X[b] = T[b]
          BY <1>4, <2>11, <4>1 DEF Remains
        <4>5. ContentsOK(X2, D1, ch)
          BY <2>14, <3>6, <4>3, <4>4, ContentsGone
        <4> QED
          BY <4>2, <4>5
      <3>12. Hanging(T, Nodes(s) \ {id}, st2)
        <4>1. T[id].kind = "Leaf"
          BY <2>6, <2>14
        <4> QED
          BY <1>4, <1>6, <2>1, <3>2, <4>1, HangLeaf
      <3>13. ChainsOK(Over(s2), ch, D1, L) /\ Drops(Tree(s), id, Tree(s2)) /\ Len(s2.pages) = n
        BY <1>4, <3>6, <3>9
      <3> QED
        BY <2>12, <3>8, <3>10, <3>11, <3>12, <3>13
    <2> QED
      BY <2>7, <2>13, <2>14
  <1> QED
    BY <1>5, <1>6

\* On every level down from the root there is a node responsible for a key.
LEMMA AtLevel ==
  ASSUME NEW T, NEW r, NEW g, TreeOK(T, r, g, NoPage, NoPage), NEW key \in Nat, NEW d \in Nat, d <= g.lvl[r]
  PROVE  \E p \in DOMAIN T : g.lvl[p] + d = g.lvl[r] /\ Covers(g, p, key)
  <1> DEFINE S == {n \in Nat : n <= g.lvl[r] => \E p \in DOMAIN T : g.lvl[p] + n = g.lvl[r] /\ Covers(g, p, key)}
  <1>1. r \in DOMAIN T /\ g.lo[r] = 0 /\ g.hi[r] = Inf
    <2>1. r \in DOMAIN T /\ g.lo[r] = 0 /\ HiOf(g, NoPage, NoPage, r) = Inf /\ r \in Nat \ {0}
      BY TreeFacts
    <2> QED
      BY <2>1 DEF HiOf, NoPage
  <1>2. g.lvl[r] \in Nat
    <2>1. NodeOK(T, g, r)
      BY <1>1, TreeFacts
    <2> QED
      BY <2>1, NodeFacts
  <1>3. 0 \in S
    <2>1. Covers(g, r, key)
      BY <1>1 DEF Covers, Before
    <2>2. g.lvl[r] + 0 = g.lvl[r]
      BY <1>2
    <2> QED
      BY <1>1, <2>1, <2>2
  <1>4. ASSUME NEW n \in Nat, n \in S PROVE n + 1 \in S
    <2> SUFFICES ASSUME n + 1 <= g.lvl[r] PROVE \E p \in DOMAIN T : g.lvl[p] + (n + 1) = g.lvl[r] /\ Covers(g, p, key)
      OBVIOUS
    <2>1. n <= g.lvl[r]
      BY <1>2
    <2>2. PICK p \in DOMAIN T : g.lvl[p] + n = g.lvl[r] /\ Covers(g, p, key)
      BY <1>4, <2>1
    <2>3. NodeOK(T, g, p)
      BY TreeFacts
    <2>4. g.lvl[p] \in Nat /\ (T[p].kind = "Internal" <=> g.lvl[p] # 0)
      BY <2>3, NodeFacts
    <2>5. T[p].kind = "Internal"
      BY <1>2, <2>2, <2>4
    <2>6. PICK i \in 0 .. Len(T[p].items) : Child(T[p], i) = ChildFor(T[p], key) /\ Covers(g, Child(T[p], i), key)
      BY <2>2, <2>5, ChildForOK
    <2>7. PICK c : c = Child(T[p], i)
      OBVIOUS
    <2>8. c \in DOMAIN T /\ g.lvl[c] + 1 = g.lvl[p]
      BY <2>5, <2>7, ChildFacts
    <2>9. g.lvl[c] \in Nat
      BY <2>8, TreeFacts, NodeFacts
    <2>10. g.lvl[c] + (n + 1) = g.lvl[r]
      <3>1. PICK x \in Nat : x = g.lvl[c]
        BY <2>9
      <3>2. PICK y \in Nat : y = g.lvl[p]
        BY <2>4
      <3>3. x + 1 = y /\ y + n = g.lvl[r]
        BY <2>2, <2>8, <3>1, <3>2
      <3>4. x + (n + 1) = y + n
        BY <3>3
      <3> QED
        BY <3>1, <3>3, <3>4
    <2> QED
      BY <2>6, <2>7, <2>8, <2>10
  <1>5. d \in S
    <2> HIDE DEF S
    <2> QED
      BY <1>3, <1>4, SetInduction
  <1> QED
    BY <1>5

\* Two nodes of a level are not responsible for the same key.
LEMMA OneAtLevel ==
  ASSUME NEW T, NEW r, NEW g, NEW left, NEW right, TreeOK(T, r, g, left, right), NEW a \in DOMAIN T, NEW b \in DOMAIN T,
         g.lvl[a] = g.lvl[b], NEW key \in Nat, Covers(g, a, key), Covers(g, b, key)
  PROVE  a = b
  <1> SUFFICES ASSUME a # b PROVE FALSE
    OBVIOUS
  <1>1. Ends(g, a, b) \/ Ends(g, b, a)
    BY DEF TreeOK, ApartOK
  <1>2. NodeOK(T, g, a) /\ NodeOK(T, g, b)
    BY TreeFacts
  <1>3. g.lo[a] \in Nat /\ g.hi[a] \in Nat \cup {Inf} /\ g.lo[b] \in Nat /\ g.hi[b] \in Nat \cup {Inf}
    BY <1>2 DEF NodeOK
  <1> QED
    BY <1>1, <1>3 DEF Ends, Covers, Before, Inf

\* Every node but the root is a child of one.
LEMMA HasParent ==
  ASSUME NEW T, NEW r, NEW g, TreeOK(T, r, g, NoPage, NoPage), NEW a \in DOMAIN T, a # r
  PROVE  Parented(T, DOMAIN T, a)
  <1>1. NodeOK(T, g, a) /\ NodeOK(T, g, r) /\ r \in DOMAIN T
    BY TreeFacts
  <1>2. g.lvl[a] \in Nat /\ g.lvl[r] \in Nat /\ g.lo[a] \in Nat /\ Before(g.lo[a], g.hi[a])
    BY <1>1, NodeFacts
  <1>3. g.lvl[a] < g.lvl[r]
    <2>1. g.lvl[a] <= g.lvl[r] /\ (g.lvl[a] = g.lvl[r] => a = r \/ a = NoPage) /\ a \in Nat \ {0}
      BY TreeFacts
    <2> QED
      BY <1>2, <2>1 DEF NoPage
  <1>4. PICK key \in Nat : key = g.lo[a]
    BY <1>2
  <1>5. Covers(g, a, key)
    BY <1>2, <1>4 DEF Covers
  <1>6. PICK d \in Nat : g.lvl[a] + d + 1 = g.lvl[r]
    <2>1. g.lvl[r] - g.lvl[a] - 1 \in Nat /\ g.lvl[a] + (g.lvl[r] - g.lvl[a] - 1) + 1 = g.lvl[r]
      BY <1>2, <1>3
    <2> QED
      BY <2>1
  <1>7. PICK p \in DOMAIN T : g.lvl[p] + d = g.lvl[r] /\ Covers(g, p, key)
    <2>1. PICK x \in Nat : x = g.lvl[a]
      BY <1>2
    <2>2. PICK y \in Nat : y = g.lvl[r]
      BY <1>2
    <2>3. x + d + 1 = y
      BY <1>6, <2>1, <2>2
    <2>4. d <= y
      BY <2>3
    <2>5. d <= g.lvl[r]
      BY <2>2, <2>4
    <2> QED
      BY <2>5, AtLevel
  <1>8. NodeOK(T, g, p)
    BY TreeFacts
  <1>9. g.lvl[p] \in Nat /\ (T[p].kind = "Internal" <=> g.lvl[p] # 0)
    BY <1>8, NodeFacts
  <1>10. T[p].kind = "Internal"
    BY <1>2, <1>6, <1>7, <1>9
  <1>11. PICK i \in 0 .. Len(T[p].items) : Child(T[p], i) = ChildFor(T[p], key) /\ Covers(g, Child(T[p], i), key)
    BY <1>7, <1>10, ChildForOK
  <1>12. PICK c : c = Child(T[p], i)
    OBVIOUS
  <1>13. c \in DOMAIN T /\ g.lvl[c] + 1 = g.lvl[p]
    BY <1>10, <1>12, ChildFacts
  <1>14. g.lvl[c] \in Nat
    BY <1>13, TreeFacts, NodeFacts
  <1>15. g.lvl[c] = g.lvl[a]
    <2>1. PICK x \in Nat : x = g.lvl[a]
      BY <1>2
    <2>2. PICK y \in Nat : y = g.lvl[p]
      BY <1>9
    <2>3. PICK z \in Nat : z = g.lvl[c]
      BY <1>14
    <2>4. x + d + 1 = g.lvl[r] /\ y + d = g.lvl[r] /\ z + 1 = y
      BY <1>6, <1>7, <1>13, <2>1, <2>2, <2>3
    <2>5. x + d + 1 = y + d
      BY <2>4
    <2>6. x = z
      BY <2>4, <2>5
    <2> QED
      BY <2>1, <2>3, <2>6
  <1>16. c = a
    BY <1>5, <1>11, <1>12, <1>13, <1>15, OneAtLevel
  <1> QED
    BY <1>10, <1>11, <1>12, <1>16 DEF Parented, ChildOf

\* The whole tree hangs from its root.
LEMMA HangingRoot ==
  ASSUME NEW T, NEW r, NEW g, TreeOK(T, r, g, NoPage, NoPage), NEW q, q = <<r>>
  PROVE  Hanging(T, DOMAIN T, q)
  <1>1. NodeOK(T, g, r) /\ r \in DOMAIN T /\ r \in Nat
    BY TreeFacts
  <1>2. q \in Seq(Nat) /\ Len(q) = 1 /\ q[1] = r
    BY <1>1
  <1>3. Distinct(q) /\ \A a : On(q, a) <=> a = r
    BY <1>2 DEF Distinct, On
  <1>4. ASSUME NEW a, Parented(T, DOMAIN T, a) PROVE a \in DOMAIN T /\ a # r
    <2>1. PICK p \in DOMAIN T : T[p].kind = "Internal" /\ ChildOf(T[p], a)
      BY <1>4 DEF Parented
    <2>2. PICK i \in 0 .. Len(T[p].items) : Child(T[p], i) = a
      BY <2>1 DEF ChildOf
    <2>3. a \in DOMAIN T /\ g.lvl[a] + 1 = g.lvl[p]
      BY <2>1, <2>2, ChildFacts
    <2>4. NodeOK(T, g, p) /\ NodeOK(T, g, a) /\ g.lvl[p] <= g.lvl[r]
      BY <2>3, TreeFacts
    <2>5. g.lvl[p] \in Nat /\ g.lvl[a] \in Nat /\ g.lvl[r] \in Nat
      BY <1>1, <2>4, NodeFacts
    <2> QED
      BY <2>3, <2>4, <2>5
  <1> QED
    BY <1>1, <1>2, <1>3, <1>4, HasParent DEF Hanging

\* Nothing hangs from an empty stack.
LEMMA NothingHangs ==
  ASSUME NEW T, NEW r, NEW g, TreeOK(T, r, g, NoPage, NoPage), NEW R, Hanging(T, R, <<>>)
  PROVE  R = {}
  <1> SUFFICES ASSUME R # {} PROVE FALSE
    OBVIOUS
  <1>1. \A a : ~On(<<>>, a)
    BY DEF On
  <1>2. R \subseteq DOMAIN T /\ \A a \in R : Parented(T, R, a)
    BY <1>1 DEF Hanging
  <1>3. r \in DOMAIN T
    BY TreeFacts
  <1>4. g.lvl[r] \in Nat
    BY <1>3, TreeFacts, NodeFacts
  <1> DEFINE S == {n \in Nat : \E a \in R : n <= g.lvl[a]}
  <1>5. 0 \in S
    <2>1. PICK a \in R : TRUE
      OBVIOUS
    <2>2. a \in DOMAIN T
      BY <1>2
    <2>3. g.lvl[a] \in Nat
      BY <2>2, TreeFacts, NodeFacts
    <2> QED
      BY <2>3
  <1>6. ASSUME NEW n \in Nat, n \in S PROVE n + 1 \in S
    <2>1. PICK a \in R : n <= g.lvl[a]
      BY <1>6
    <2>2. PICK p \in R : T[p].kind = "Internal" /\ ChildOf(T[p], a)
      BY <1>2 DEF Parented
    <2>3. PICK i \in 0 .. Len(T[p].items) : Child(T[p], i) = a
      BY <2>2 DEF ChildOf
    <2>4. p \in DOMAIN T
      BY <1>2
    <2>5. a \in DOMAIN T /\ g.lvl[a] + 1 = g.lvl[p]
      BY <2>2, <2>3, <2>4, ChildFacts
    <2>6. g.lvl[a] \in Nat
      BY <2>5, TreeFacts, NodeFacts
    <2> QED
      BY <2>1, <2>5, <2>6
  <1>7. g.lvl[r] + 1 \in S
    <2> HIDE DEF S
    <2> QED
      BY <1>4, <1>5, <1>6, SetInduction
  <1>8. PICK a \in R : g.lvl[r] + 1 <= g.lvl[a]
    BY <1>7
  <1>9. a \in DOMAIN T /\ g.lvl[a] <= g.lvl[r]
    BY <1>2, TreeFacts
  <1>10. g.lvl[a] \in Nat
    BY <1>9, TreeFacts, NodeFacts
  <1> QED
    BY <1>4, <1>8, <1>9, <1>10

\* destroy: no node is left, no chain of an entry, and what was lost before.
LEMMA DestroyOK ==
  ASSUME NEW s, NEW r, NEW D, NEW L, NEW g, NEW q, NEW ch, Mid(s, r, D, L, g, q, ch, NoPage, NoPage), Payload(D),
         NEW D2, DOMAIN D2 = {}, NEW s2, s2 = Destroy(s, r)
  PROVE  (\E q2 : FileOK(s2, q2)) /\ Nodes(s2) = {} /\ ChainsOK(Over(s2), ch, D2, L)
  <1>1. FileOK(s, q) /\ ChainsOK(Over(s), ch, D, L) /\ ContentsOK(Tree(s), D, ch)
    BY DEF Mid
  <1>2. PICK T : T = Tree(s)
    OBVIOUS
  <1>3. TreeOK(T, r, g, NoPage, NoPage)
    BY <1>2 DEF Mid
  <1>4. PICK n \in Nat : n = Len(s.pages)
    BY <1>1, FileFacts
  <1>5. PICK f : /\ f[0] = [s |-> s, stack |-> <<r>>]
                 /\ \A k \in 0 .. n - 1 : f[k + 1] = DestroyStep(f[k])
                 /\ Destroy(s, r) = f[n].s
    BY <1>4, DestroyIs
  <1> DEFINE S == {k \in Nat : k <= n => Destroying(T, ch, L, n, k, f[k])}
  <1>6. 0 \in S
    <2>1. PICK x : x = f[0]
      OBVIOUS
    <2>2. x.s = s /\ x.stack = <<r>>
      BY <1>5, <2>1
    <2>3. DOMAIN T = Nodes(s) /\ \A a \in Nodes(s) : s.pages[a] = T[a]
      BY <1>2, Parts
    <2>4. Hanging(T, Nodes(s), x.stack) /\ Remains(T, x.s)
      BY <1>3, <2>2, <2>3, HangingRoot DEF Remains
    <2>5. Cardinality(Nodes(s)) + 0 <= n
      <3>1. Nodes(s) \subseteq 1 .. n
        BY <1>1, <1>4, FileFacts
      <3>2. IsFiniteSet(1 .. n) /\ Cardinality(1 .. n) = n
        <4>1. 1 \in Int /\ n \in Int
          OBVIOUS
        <4>2. IsFiniteSet(1 .. n) /\ Cardinality(1 .. n) = IF 1 > n THEN 0 ELSE n - 1 + 1
          BY <4>1, FS_Interval
        <4> QED
          BY <4>2
      <3>3. Cardinality(Nodes(s)) <= Cardinality(1 .. n) /\ IsFiniteSet(Nodes(s))
        BY <3>1, <3>2, FS_Subset
      <3>4. Cardinality(Nodes(s)) \in Nat
        BY <3>3, FS_CardinalityType
      <3> QED
        BY <3>2, <3>3, <3>4
    <2>6. Destroying(T, ch, L, n, 0, x)
      BY <1>1, <1>4, <2>2, <2>4, <2>5 DEF Destroying
    <2> QED
      BY <2>1, <2>6
  <1>7. ASSUME NEW k \in Nat, k \in S PROVE k + 1 \in S
    <2> SUFFICES ASSUME k + 1 <= n PROVE Destroying(T, ch, L, n, k + 1, f[k + 1])
      OBVIOUS
    <2>1. k <= n /\ k \in 0 .. n - 1
      OBVIOUS
    <2>2. PICK x : x = f[k]
      OBVIOUS
    <2>3. PICK z : z = f[k + 1]
      OBVIOUS
    <2>4. Destroying(T, ch, L, n, k, x)
      BY <1>7, <2>1, <2>2
    <2>5. z = DestroyStep(x)
      BY <1>5, <2>1, <2>2, <2>3
    <2>6. Destroying(T, ch, L, n, k + 1, z)
      BY <1>3, <2>4, <2>5, DestroyMore
    <2> QED
      BY <2>3, <2>6
  <1>8. n \in S
    <2> HIDE DEF S
    <2> QED
      BY <1>6, <1>7, SetInduction
  <1>9. PICK acc : acc = f[n]
    OBVIOUS
  <1>10. Destroying(T, ch, L, n, n, acc)
    BY <1>8, <1>9
  <1>11. acc.s = s2
    BY <1>5, <1>9
  <1>12. PICK q2, D1 : FileOK(s2, q2) /\ ChainsOK(Over(s2), ch, D1, L) /\ ContentsOK(Tree(s2), D1, ch)
    BY <1>10, <1>11 DEF Destroying
  <1>13. Hanging(T, Nodes(s2), acc.stack) /\ (acc.stack = <<>> \/ Cardinality(Nodes(s2)) + n <= n)
    BY <1>10, <1>11 DEF Destroying
  <1>14. Nodes(s2) = {}
    <2>1. CASE acc.stack = <<>>
      BY <1>3, <1>13, <2>1, NothingHangs
    <2>2. CASE Cardinality(Nodes(s2)) + n <= n
      <3>1. IsFiniteSet(Nodes(s2))
        <4>1. Len(s2.pages) \in Nat /\ Nodes(s2) \subseteq 1 .. Len(s2.pages)
          BY <1>12, FileFacts
        <4>2. IsFiniteSet(1 .. Len(s2.pages))
          BY <4>1, FS_Interval
        <4> QED
          BY <4>1, <4>2, FS_Subset
      <3>2. Cardinality(Nodes(s2)) \in Nat
        BY <3>1, FS_CardinalityType
      <3>3. Cardinality(Nodes(s2)) = 0
        BY <2>2, <3>2
      <3> QED
        BY <3>1, <3>3, FS_EmptySet
    <2> QED
      BY <1>13, <2>1, <2>2
  <1>15. DOMAIN D1 = {}
    <2>1. DOMAIN Tree(s2) = {}
      BY <1>14, Parts
    <2> QED
      BY <1>12, <2>1 DEF ContentsOK
  <1>16. ChainsOK(Over(s2), ch, D2, L)
    BY <1>12, <1>15 DEF ChainsOK
  <1> QED
    BY <1>12, <1>14, <1>16
-----------------------------------------------------------------------------
(* The invariant *)

\* create: a tree of one empty leaf.
LEMMA CreateOK ==
  ASSUME NEW s, NEW D, NEW L, NEW g, NEW q, NEW ch, TreeInv(s, NoPage, D, L, g, q, ch), NEW new, new = AllocPage(s, "Leaf")
  PROVE  \E g2, q2 : Mid(new.s, new.id, D, L, g2, q2, ch, NoPage, NoPage)
  <1>1. FileOK(s, q) /\ ChainsOK(Over(s), ch, D, L) /\ Nodes(s) = {} /\ DOMAIN D = {}
    BY DEF TreeInv
  <1>2. PICK q2 : FileOK(new.s, q2)
    BY <1>1, AllocNode
  <1>3. /\ Sets(Tree(s), new.id, NewPage("Leaf"), Tree(new.s)) /\ Over(new.s) = Over(s)
        /\ new.id \in Nodes(new.s) /\ new.id \in Nat \ {0}
    BY <1>1, AllocNode
  <1>4. PICK T : T = Tree(new.s)
    OBVIOUS
  <1>5. PICK a : a = new.id
    OBVIOUS
  <1>6. PICK page : page = NewPage("Leaf")
    OBVIOUS
  <1>7. DOMAIN T = {a} /\ T[a] = page
    <2>1. DOMAIN Tree(s) = {}
      BY <1>1, Parts
    <2> QED
      BY <1>3, <1>4, <1>5, <1>6, <2>1 DEF Sets
  <1>8. page.kind = "Leaf" /\ page.extra = NoPage /\ Len(page.items) = 0 /\ page.free = PageSpace /\ page.items = <<>>
    BY <1>6 DEF NewPage
  <1>9. page \in Node
    <2>1. DOMAIN Tree(new.s) = Nodes(new.s) /\ \A b \in Nodes(new.s) : Tree(new.s)[b] = new.s.pages[b]
      BY Parts
    <2>2. new.s.pages[a] = page
      BY <1>3, <1>4, <1>5, <1>7, <2>1
    <2> QED
      BY <1>2, <1>3, <1>5, <2>2, FileFacts
  <1>10. PICK g2 : g2 = [lo |-> [x \in {a} |-> 0], hi |-> [x \in {a} |-> Inf], lvl |-> [x \in {a} |-> 0]]
    OBVIOUS
  <1>11. g2.lo[a] = 0 /\ g2.hi[a] = Inf /\ g2.lvl[a] = 0
    BY <1>10
  <1>12. NodeOK(T, g2, a)
    BY <1>3, <1>5, <1>7, <1>8, <1>9, <1>11 DEF NodeOK, Before
  <1>13. ChildrenOK(T, g2, NoPage, NoPage, a) /\ NextOK(T, g2, a)
    BY <1>7, <1>8, <1>11 DEF ChildrenOK, NextOK
  <1>14. ApartOK(T, g2) /\ SplitOK(T, g2, NoPage, NoPage)
    BY <1>7 DEF ApartOK, SplitOK
  <1>15. RootOK(T, a, g2, NoPage, NoPage)
    BY <1>3, <1>5, <1>7, <1>11 DEF RootOK, HiOf, NoPage
  <1>16. TreeOK(T, a, g2, NoPage, NoPage)
    BY <1>7, <1>12, <1>13, <1>14, <1>15 DEF TreeOK
  <1>17. ContentsOK(T, D, ch)
    BY <1>1, <1>7, <1>8 DEF ContentsOK
  <1>18. \A b \in Nodes(new.s) : FitsOK(new.s.pages[b])
    <2>1. DOMAIN Tree(new.s) = Nodes(new.s) /\ \A b \in Nodes(new.s) : Tree(new.s)[b] = new.s.pages[b]
      BY Parts
    <2>2. FitsOK(page)
      <3>1. Cost(page.items) = 0
        BY <1>8, <1>9, CostEmpty DEF Node
      <3>2. PageSpace \in Nat
        BY Sizes
      <3> QED
        BY <1>8, <3>1, <3>2 DEF FitsOK
    <2> QED
      BY <1>4, <1>7, <2>1, <2>2
  <1>19. ChainsOK(Over(new.s), ch, D, L)
    BY <1>1, <1>3
  <1> QED
    BY <1>2, <1>4, <1>5, <1>16, <1>17, <1>18, <1>19 DEF Mid

\* The payloads of the history.
LEMMA Payloads_are ==
  ASSUME NEW D, \A k \in DOMAIN D : k \in Nat /\ D[k] \in Payloads
  PROVE  Payload(D)
  BY BTreeAssumption DEF Payload

\* The invariant, while there is a tree.
LEMMA InvMid ==
  ASSUME NEW s, NEW r, NEW D, NEW L, NEW g, NEW q, NEW ch, TreeInv(s, r, D, L, g, q, ch), r # NoPage
  PROVE  Mid(s, r, D, L, g, q, ch, NoPage, NoPage)
  BY DEF TreeInv, Mid

\* And back.
LEMMA MidInv ==
  ASSUME NEW s, NEW r, NEW D, NEW L, NEW g, NEW q, NEW ch, Mid(s, r, D, L, g, q, ch, NoPage, NoPage)
  PROVE  TreeInv(s, r, D, L, g, q, ch) /\ r # NoPage
  <1>1. r \in DOMAIN Tree(s) /\ \A a \in DOMAIN Tree(s) : a \in Nat \ {0}
    BY TreeFacts DEF Mid
  <1>2. r # NoPage
    BY <1>1 DEF NoPage
  <1> QED
    BY <1>2 DEF TreeInv, Mid

\* The empty file, before create.
LEMMA BTreeInitial == Init => BTreeInv
  <1> SUFFICES ASSUME Init PROVE BTreeInv
    OBVIOUS
  <1>1. /\ store = [pages |-> <<>>, free |-> NoPage] /\ root = NoPage /\ dict = <<>> /\ outcome = "ok"
        /\ lost = {} /\ order \in Orders /\ keys = ToSet(order)
    BY DEF Init
  <1>2. keys \subseteq Nat
    <2>1. order \in Seq(Nat)
      BY <1>1, BTreeAssumption
    <2> QED
      BY <1>1, <2>1 DEF ToSet
  <1>3. DOMAIN dict = {}
    BY <1>1
  <1>4. InsertionsSucceed
    BY <1>1 DEF InsertionsSucceed
  <1>5. store.pages = <<>> /\ store.free = 0
    BY <1>1 DEF NoPage
  <1>6. DOMAIN store.pages = {} /\ Len(store.pages) = 0
    BY <1>5
  <1>7. Nodes(store) = {} /\ Overflowing(store) = {} /\ Frees(store) = {}
    BY <1>6 DEF Nodes, Overflowing, Frees
  <1>8. PICK q \in Seq(Nat) : q = <<>>
    <2>1. <<>> \in Seq(Nat)
      OBVIOUS
    <2> QED
      BY <2>1
  <1>9. Len(q) = 0
    BY <1>8
  <1>10. FreeList(store, q)
    BY <1>5, <1>7, <1>9 DEF FreeList, Distinct, Link, NoPage
  <1>11. store \in Store
    <2>1. <<>> \in Seq(Node \cup Other)
      OBVIOUS
    <2> QED
      BY <1>1, <2>1 DEF Store, NoPage
  <1>12. FileOK(store, q)
    BY <1>5, <1>6, <1>10, <1>11 DEF FileOK, Linked
  <1>13. DOMAIN Over(store) = {}
    BY <1>7 DEF Over
  <1>14. ChainsOK(Over(store), dict, dict, lost)
    BY <1>1, <1>3, <1>13 DEF ChainsOK
  <1>15. TreeInv(store, root, dict, lost, dict, q, dict)
    BY <1>1, <1>3, <1>7, <1>12, <1>14 DEF TreeInv
  <1> QED
    BY <1>2, <1>3, <1>4, <1>15 DEF BTreeInv

\* CreateTree keeps the invariant.
LEMMA CreateStep == BTreeInv /\ CreateTree => BTreeInv'
  <1> SUFFICES ASSUME BTreeInv, CreateTree PROVE BTreeInv'
    OBVIOUS
  <1>1. PICK g, q, ch : TreeInv(store, root, dict, lost, g, q, ch)
    BY DEF BTreeInv
  <1>2. PICK new : new = AllocPage(store, "Leaf")
    OBVIOUS
  <1>3. store' = new.s /\ root' = new.id /\ outcome' = "ok" /\ UNCHANGED <<dict, lost, keys>> /\ root = NoPage
    BY <1>2 DEF CreateTree
  <1>4. PICK g2, q2 : Mid(new.s, new.id, dict, lost, g2, q2, ch, NoPage, NoPage)
    BY <1>1, <1>2, <1>3, CreateOK
  <1>5. TreeInv(store', root', dict', lost', g2, q2, ch)
    BY <1>3, <1>4, MidInv
  <1>6. InsertionsSucceed'
    BY <1>3 DEF InsertionsSucceed
  <1>7. keys' \subseteq Nat /\ \A k \in DOMAIN dict' : k \in Nat /\ dict'[k] \in Payloads
    BY <1>3 DEF BTreeInv
  <1> QED
    BY <1>5, <1>6, <1>7 DEF BTreeInv

\* DestroyTree keeps the invariant.
LEMMA DestroyTreeStep == BTreeInv /\ DestroyTree => BTreeInv'
  <1> SUFFICES ASSUME BTreeInv, DestroyTree PROVE BTreeInv'
    OBVIOUS
  <1>1. PICK g, q, ch : TreeInv(store, root, dict, lost, g, q, ch)
    BY DEF BTreeInv
  <1>2. /\ root # NoPage /\ store' = Destroy(store, root) /\ root' = NoPage /\ dict' = <<>> /\ outcome' = "ok"
        /\ lost' = lost /\ keys' = keys
    BY DEF DestroyTree
  <1>3. Mid(store, root, dict, lost, g, q, ch, NoPage, NoPage)
    BY <1>1, <1>2, InvMid
  <1>4. Payload(dict)
    BY Payloads_are DEF BTreeInv
  <1>5. DOMAIN dict' = {}
    BY <1>2
  <1>6. (\E q2 : FileOK(store', q2)) /\ Nodes(store') = {} /\ ChainsOK(Over(store'), ch, dict', lost)
    BY <1>2, <1>3, <1>4, <1>5, DestroyOK
  <1>7. PICK q2 : FileOK(store', q2)
    BY <1>6
  <1>8. TreeInv(store', root', dict', lost', g, q2, ch)
    BY <1>2, <1>5, <1>6, <1>7 DEF TreeInv
  <1>9. InsertionsSucceed'
    BY <1>2 DEF InsertionsSucceed
  <1>10. keys' \subseteq Nat /\ \A k \in DOMAIN dict' : k \in Nat /\ dict'[k] \in Payloads
    BY <1>2, <1>5 DEF BTreeInv
  <1> QED
    BY <1>8, <1>9, <1>10 DEF BTreeInv

\* RemoveStep keeps the invariant.
LEMMA RemoveStepStep == ASSUME NEW key \in keys PROVE BTreeInv /\ RemoveStep(key) => BTreeInv'
  <1> SUFFICES ASSUME BTreeInv, RemoveStep(key) PROVE BTreeInv'
    OBVIOUS
  <1>1. PICK g, q, ch : TreeInv(store, root, dict, lost, g, q, ch)
    BY DEF BTreeInv
  <1>2. /\ root # NoPage /\ store' = RemoveKey(store, root, key) /\ outcome' = "ok"
        /\ dict' = [k \in DOMAIN dict \ {key} |-> dict[k]] /\ lost' = lost /\ keys' = keys /\ root' = root
    BY DEF RemoveStep
  <1>3. Mid(store, root, dict, lost, g, q, ch, NoPage, NoPage)
    BY <1>1, <1>2, InvMid
  <1>4. Payload(dict) /\ key \in Nat
    BY Payloads_are DEF BTreeInv
  <1>5. Drops(dict, key, dict')
    BY <1>2 DEF Drops
  <1>6. PICK q2 : Mid(store', root, dict', lost, g, q2, ch, NoPage, NoPage)
    BY <1>2, <1>3, <1>4, <1>5, RemoveKeyOK
  <1>7. TreeInv(store', root', dict', lost', g, q2, ch)
    BY <1>2, <1>6, MidInv
  <1>8. InsertionsSucceed'
    BY <1>2 DEF InsertionsSucceed
  <1>9. keys' \subseteq Nat /\ \A k \in DOMAIN dict' : k \in Nat /\ dict'[k] \in Payloads
    BY <1>2 DEF BTreeInv
  <1> QED
    BY <1>7, <1>8, <1>9 DEF BTreeInv

\* UpsertStep keeps the invariant: a failed one leaves the tree as it was, and
\* the pages of the chain it built are lost.
LEMMA UpsertStepStep == ASSUME NEW key \in keys, NEW payload \in Payloads PROVE BTreeInv /\ UpsertStep(key, payload) => BTreeInv'
  <1> SUFFICES ASSUME BTreeInv, UpsertStep(key, payload) PROVE BTreeInv'
    OBVIOUS
  <1>1. PICK g, q, ch : TreeInv(store, root, dict, lost, g, q, ch)
    BY DEF BTreeInv
  <1>2. PICK res : res = Upsert(store, root, key, payload)
    OBVIOUS
  <1>3. PICK D2 : D2 = [k \in DOMAIN dict \cup {key} |-> IF k = key THEN payload ELSE dict[k]]
    OBVIOUS
  <1>4. /\ root # NoPage /\ keys' = keys /\ store' = res.s /\ root' = res.root /\ outcome' = res.outcome
        /\ dict' = IF res.outcome = "ok" THEN D2 ELSE dict
        /\ lost' = IF res.outcome = "ok" THEN lost ELSE lost \cup (Overflowing(res.s) \ Overflowing(store))
    BY <1>2, <1>3 DEF UpsertStep
  <1>5. Mid(store, root, dict, lost, g, q, ch, NoPage, NoPage)
    BY <1>1, <1>4, InvMid
  <1>6. Payload(dict) /\ key \in Nat
    BY Payloads_are DEF BTreeInv
  <1>7. payload \in Seq(Nat)
    BY BTreeAssumption
  <1>8. Sets(dict, key, payload, D2)
    BY <1>3 DEF Sets
  <1>9. UpsertedOK(store, root, dict, D2, lost, res)
    BY <1>2, <1>5, <1>6, <1>7, <1>8, UpsertOK
  <1>10. CASE res.outcome = "ok"
    <2>1. dict' = D2 /\ lost' = lost /\ outcome' = "ok"
      BY <1>4, <1>10
    <2>2. PICK g2, q2, ch2 : Mid(res.s, res.root, D2, lost, g2, q2, ch2, NoPage, NoPage)
      BY <1>9, <1>10 DEF UpsertedOK
    <2>3. TreeInv(store', root', dict', lost', g2, q2, ch2)
      BY <1>4, <2>1, <2>2, MidInv
    <2>4. InsertionsSucceed'
      BY <2>1 DEF InsertionsSucceed
    <2>5. keys' \subseteq Nat /\ \A k \in DOMAIN dict' : k \in Nat /\ dict'[k] \in Payloads
      BY <1>3, <1>4, <1>6, <2>1 DEF BTreeInv
    <2> QED
      BY <2>3, <2>4, <2>5 DEF BTreeInv
  <1>11. CASE res.outcome # "ok"
    <2>1. dict' = dict /\ lost' = lost \cup (Overflowing(res.s) \ Overflowing(store))
      BY <1>4, <1>11
    <2>2. /\ res.outcome = "single entry" /\ res.root = root
          /\ \E id \in DOMAIN res.s.pages : res.s.pages[id].kind = "Leaf" /\ res.s.pages[id].items = <<>>
      BY <1>9, <1>11 DEF UpsertedOK
    <2>3. PICK g2, q2, ch2 : Mid(res.s, root, dict, lost', g2, q2, ch2, NoPage, NoPage)
      BY <1>9, <1>11, <2>1 DEF UpsertedOK
    <2>4. TreeInv(store', root', dict', lost', g2, q2, ch2)
      BY <1>4, <2>1, <2>2, <2>3, MidInv
    <2>5. InsertionsSucceed'
      BY <1>4, <2>2 DEF InsertionsSucceed
    <2>6. keys' \subseteq Nat /\ \A k \in DOMAIN dict' : k \in Nat /\ dict'[k] \in Payloads
      BY <1>4, <2>1 DEF BTreeInv
    <2> QED
      BY <2>4, <2>5, <2>6 DEF BTreeInv
  <1> QED
    BY <1>10, <1>11

\* The tree, its chains and the free list divide the file among them, and hold
\* what the operations have put in, after any sequence of operations.
THEOREM BTreeInvariance == Spec => []BTreeInv
  <1>1. Init => BTreeInv
    BY BTreeInitial
  <1>2. BTreeInv /\ [Next]_vars => BTreeInv'
    <2> SUFFICES ASSUME BTreeInv, [Next]_vars PROVE BTreeInv'
      OBVIOUS
    <2>1. CASE CreateTree
      BY <2>1, CreateStep
    <2>2. CASE DestroyTree
      BY <2>2, DestroyTreeStep
    <2>3. CASE UNCHANGED vars
      BY <2>3 DEF vars, BTreeInv, InsertionsSucceed
    <2>4. CASE ReadStep
      BY <2>3, <2>4 DEF ReadStep
    <2>5. ASSUME NEW key \in keys, RemoveStep(key) PROVE BTreeInv'
      BY <2>5, RemoveStepStep
    <2>6. ASSUME NEW key \in keys, NEW payload \in Payloads, UpsertStep(key, payload) PROVE BTreeInv'
      BY <2>6, UpsertStepStep
    <2> QED
      BY <2>1, <2>2, <2>3, <2>4, <2>5, <2>6 DEF Next
  <1> QED
    BY <1>1, <1>2, PTL DEF Spec

\* Every insertion finds room, but for the one exception (InsertionsSucceed:
\* upsert, split_leaf, split_internal, propagate).
THEOREM BTreeInsertions == Spec => []InsertionsSucceed
  <1>1. BTreeInv => InsertionsSucceed
    BY DEF BTreeInv
  <1> QED
    BY <1>1, BTreeInvariance, PTL

\* Slots, items and free room lie within their page, and links within the file
\* (TypeOK: the slotted pages of page.rs under every operation of the tree).
THEOREM BTreeTypeOK == Spec => []TypeOK
  <1>1. BTreeInv => TypeOK
    <2> SUFFICES ASSUME BTreeInv PROVE TypeOK
      OBVIOUS
    <2>1. PICK g, q, ch : TreeInv(store, root, dict, lost, g, q, ch)
      BY DEF BTreeInv
    <2>2. FileOK(store, q)
      BY <2>1 DEF TreeInv
    <2>3. PICK n \in Nat : n = Len(store.pages) /\ DOMAIN store.pages = 1 .. n
      BY <2>2, FileFacts
    <2>4. /\ store.free \in Nat /\ store.free <= n
          /\ \A id \in DOMAIN store.pages : store.pages[id] \in Node \cup Other /\ store.pages[id].extra <= n
      BY <2>2, <2>3, FileFacts DEF FileOK, Linked
    <2>5. root \in 0 .. n
      <3>1. CASE root = NoPage
        BY <3>1 DEF NoPage
      <3>2. CASE root # NoPage
        <4>1. TreeOK(Tree(store), root, g, NoPage, NoPage)
          BY <2>1, <3>2 DEF TreeInv
        <4>2. root \in DOMAIN Tree(store)
          BY <4>1, TreeFacts
        <4>3. root \in Nodes(store)
          BY <4>2, Parts
        <4>4. root \in 1 .. n
          BY <2>2, <2>3, <4>3, FileFacts
        <4> QED
          BY <4>4
      <3> QED
        BY <3>1, <3>2
    <2>6. ASSUME NEW id \in DOMAIN store.pages, NEW page, page = store.pages[id]
          PROVE  /\ page.kind \in {"Leaf", "Internal", "Overflow", "Free"} /\ page.extra \in 0 .. n
                 /\ page.kind \in {"Leaf", "Internal"} => page.free >= 0 /\ page.free + Cost(page.items) <= PageSpace
      <3>1. page \in Node \cup Other /\ page.extra <= n
        BY <2>4, <2>6
      <3>2. page.kind \in {"Leaf", "Internal", "Overflow", "Free"} /\ page.extra \in Nat /\ page.free \in Nat
        BY <3>1 DEF Node, Other
      <3>3. ASSUME page.kind \in {"Leaf", "Internal"} PROVE page.free + Cost(page.items) <= PageSpace
        <4>1. id \in Nodes(store)
          BY <2>6, <3>3 DEF Nodes
        <4>2. root # NoPage
          BY <2>1, <4>1 DEF TreeInv
        <4>3. FitsOK(page)
          BY <2>1, <2>6, <4>1, <4>2 DEF TreeInv
        <4> QED
          BY <4>3 DEF FitsOK
      <3> QED
        BY <3>1, <3>2, <3>3
    <2>7. store.free \in 0 .. n
      BY <2>4
    <2> QED
      BY <2>3, <2>5, <2>6, <2>7 DEF TypeOK
  <1> QED
    BY <1>1, BTreeInvariance, PTL
-----------------------------------------------------------------------------
(* Searches *)

\* lookup.
LEMMA LookupOK ==
  ASSUME NEW s, NEW r, NEW D, NEW L, NEW g, NEW q, NEW ch, Mid(s, r, D, L, g, q, ch, NoPage, NoPage), Payload(D), NEW key \in Nat
  PROVE  Lookup(s, r, key) = IF key \in DOMAIN D THEN <<D[key]>> ELSE <<>>
  <1>1. PICK path : path = Descend(s, r, key)
    OBVIOUS
  <1>2. PICK a : a = Last(path)
    OBVIOUS
  <1>3. PICK page : page = s.pages[a]
    OBVIOUS
  <1>4. PICK slot : slot = SlotSearch(page, key)
    OBVIOUS
  <1>5. Lookup(s, r, key) = IF slot.found THEN PayloadOf(s, page.items[slot.at]) ELSE <<>>
    BY <1>1, <1>2, <1>3, <1>4, Zenon DEF Lookup
  <1>6. PICK m : Located(s, r, g, q, D, ch, key, path, m, a)
    BY <1>1, <1>2, LocateOK
  <1>7. /\ slot.found \in BOOLEAN
        /\ slot.found => KeyAt(page, slot.at, key)
        /\ ~slot.found => Gap(page.items, key, slot.at)
    BY <1>3, <1>4, <1>6, LeafSlot
  <1>8. FileOK(s, q) /\ ChainsOK(Over(s), ch, D, L)
    BY DEF Mid
  <1>9. CASE slot.found
    <2>1. KeyAt(page, slot.at, key)
      BY <1>7, <1>9
    <2>2. key \in DOMAIN D /\ page.items[slot.at] = Entry(key, D[key], Link(ch[key], 1))
      BY <1>3, <1>6, <2>1, FoundEntry DEF KeyAt
    <2>3. PICK w \in Seq(Nat) : w = D[key]
      BY <2>2 DEF Payload
    <2>4. PICK d : d = ch[key]
      OBVIOUS
    <2>5. ChainOK(Over(s), d, w)
      BY <1>8, <2>2, <2>3, <2>4 DEF ChainsOK
    <2>6. PICK item : item = page.items[slot.at]
      OBVIOUS
    <2>7. item = Entry(key, w, Link(d, 1))
      BY <2>2, <2>3, <2>4, <2>6
    <2>8. PayloadOf(s, item) = <<w>>
      BY <1>8, <2>5, <2>7, PayloadOfOK
    <2> QED
      BY <1>5, <1>9, <2>2, <2>3, <2>6, <2>8
  <1>10. CASE ~slot.found
    <2>1. key \notin DOMAIN D
      BY <1>3, <1>6, <1>7, <1>10, NotFound
    <2> QED
      BY <1>5, <1>10, <2>1
  <1> QED
    BY <1>7, <1>9, <1>10

\* A key is in the leaf responsible for it.
LEMMA InLeaf ==
  ASSUME NEW T, NEW r, NEW g, TreeOK(T, r, g, NoPage, NoPage), NEW D, NEW ch, ContentsOK(T, D, ch),
         NEW a \in DOMAIN T, T[a].kind = "Leaf", NEW y \in DOMAIN D, y \in Nat, Covers(g, a, y)
  PROVE  \E j \in 1 .. Len(T[a].items) : T[a].items[j].key = y
  <1>1. PICK b \in DOMAIN T : T[b].kind = "Leaf" /\ \E i \in 1 .. Len(T[b].items) : T[b].items[i].key = y
    BY DEF ContentsOK
  <1>2. NodeOK(T, g, a) /\ NodeOK(T, g, b)
    BY TreeFacts
  <1>3. g.lvl[a] = g.lvl[b]
    BY <1>1, <1>2, NodeFacts
  <1>4. PICK i \in 1 .. Len(T[b].items) : T[b].items[i].key = y
    BY <1>1
  <1>5. Covers(g, b, y)
    BY <1>2, <1>4, NodeFacts DEF Covers
  <1>6. a = b
    BY <1>3, <1>5, OneAtLevel
  <1> QED
    BY <1>4, <1>6

\* The keys of D.
Keyed(D) == \A y \in DOMAIN D : y \in Nat

\* The leaves from a on.
LeavesFrom(T, g, a) == {b \in DOMAIN T : T[b].kind = "Leaf" /\ g.lo[a] <= g.lo[b]}

\* No key from `key` on comes before the leaf a.
AllFrom(D, g, key, a) == \A y \in DOMAIN D : key <= y => g.lo[a] <= y

\* All keys come before `key`.
NoneFrom(D, key) == \A y \in DOMAIN D : y < key

\* The search ends in a leaf.
Settled(page, key) == SlotSearch(page, key).at <= Len(page.items)

\* After k rounds of seek.
Seeking(T, g, D, key, n, k, id) ==
  \/ id = NoPage /\ NoneFrom(D, key)
  \/ /\ id \in DOMAIN T /\ T[id].kind = "Leaf" /\ AllFrom(D, g, key, id)
     /\ Settled(T[id], key) \/ Cardinality(LeavesFrom(T, g, id)) + k <= n

\* A leaf without a key from `key` on passes the search to the next one.
LEMMA SeekNext ==
  ASSUME NEW T, NEW r, NEW g, TreeOK(T, r, g, NoPage, NoPage), NEW D, NEW ch, ContentsOK(T, D, ch), Keyed(D), NEW key \in Nat,
         NEW a \in DOMAIN T, T[a].kind = "Leaf", AllFrom(D, g, key, a), ~Settled(T[a], key), NEW b, b = T[a].extra
  PROVE  \/ b = NoPage /\ NoneFrom(D, key)
         \/ b \in DOMAIN T /\ T[b].kind = "Leaf" /\ AllFrom(D, g, key, b) /\ g.lo[a] < g.lo[b]
  <1>1. NodeOK(T, g, a) /\ NextOK(T, g, a)
    BY TreeFacts
  <1>2. /\ T[a].items \in Seq(Item) /\ Sorted(T[a].items) /\ Len(T[a].items) \in Nat
        /\ g.lo[a] \in Nat /\ g.hi[a] \in Nat \cup {Inf} /\ Before(g.lo[a], g.hi[a])
    BY <1>1, NodeFacts
  <1>3. PICK slot : slot = SlotSearch(T[a], key)
    OBVIOUS
  <1>4. SlotOK(T[a].items, key, slot)
    BY <1>2, <1>3, SlotIs
  <1>5. ~(slot.at <= Len(T[a].items))
    BY <1>3 DEF Settled
  <1>6. \A j \in 1 .. Len(T[a].items) : T[a].items[j].key < key
    <2>1. slot.at \in 1 .. Len(T[a].items) + 1 /\ \A j \in 1 .. slot.at - 1 : T[a].items[j].key < key
      BY <1>4 DEF SlotOK
    <2>2. slot.at = Len(T[a].items) + 1
      BY <1>2, <1>5, <2>1
    <2>3. slot.at - 1 = Len(T[a].items)
      BY <1>2, <2>2
    <2> QED
      BY <2>1, <2>3
  <1>7. ASSUME NEW y \in DOMAIN D, key <= y PROVE ~Before(y, g.hi[a])
    <2> SUFFICES ASSUME Before(y, g.hi[a]) PROVE FALSE
      OBVIOUS
    <2>1. y \in Nat
      BY DEF Keyed
    <2>2. g.lo[a] <= y
      BY <1>7 DEF AllFrom
    <2>3. Covers(g, a, y)
      BY <2>2 DEF Covers
    <2>4. PICK j \in 1 .. Len(T[a].items) : T[a].items[j].key = y
      BY <2>1, <2>3, InLeaf
    <2>5. y < key
      BY <1>6, <2>4
    <2> QED
      BY <1>7, <2>1, <2>5
  <1>8. CASE g.hi[a] = Inf
    <2>1. b = NoPage
      BY <1>1, <1>8 DEF NextOK
    <2>2. ASSUME NEW y \in DOMAIN D PROVE y < key
      <3>1. y \in Nat /\ Before(y, g.hi[a])
        BY <1>8 DEF Keyed, Before
      <3>2. ~(key <= y)
        BY <1>7, <3>1
      <3> QED
        BY <3>1, <3>2
    <2> QED
      BY <2>1, <2>2 DEF NoneFrom
  <1>9. CASE g.hi[a] # Inf
    <2>1. b \in DOMAIN T /\ T[b].kind = "Leaf" /\ g.lo[b] = g.hi[a]
      BY <1>1, <1>9 DEF NextOK
    <2>2. g.hi[a] \in Nat /\ g.lo[a] < g.hi[a]
      BY <1>2, <1>9 DEF Before
    <2>3. ASSUME NEW y \in DOMAIN D, key <= y PROVE g.lo[b] <= y
      <3>1. y \in Nat /\ ~(y < g.hi[a])
        BY <1>7, <1>9, <2>3 DEF Keyed, Before
      <3> QED
        BY <2>1, <2>2, <3>1
    <2> QED
      BY <2>1, <2>2, <2>3 DEF AllFrom
  <1> QED
    BY <1>8, <1>9

\* Fewer leaves are left after each.
LEMMA FewerLeaves ==
  ASSUME NEW T, NEW r, NEW g, TreeOK(T, r, g, NoPage, NoPage), IsFiniteSet(DOMAIN T),
         NEW a \in DOMAIN T, T[a].kind = "Leaf", NEW b \in DOMAIN T, g.lo[a] < g.lo[b]
  PROVE  /\ Cardinality(LeavesFrom(T, g, a)) \in Nat /\ Cardinality(LeavesFrom(T, g, b)) \in Nat
         /\ Cardinality(LeavesFrom(T, g, b)) + 1 <= Cardinality(LeavesFrom(T, g, a))
  <1>1. PICK A : A = LeavesFrom(T, g, a)
    OBVIOUS
  <1>2. PICK B : B = LeavesFrom(T, g, b)
    OBVIOUS
  <1>3. \A c \in DOMAIN T : g.lo[c] \in Nat
    BY TreeFacts DEF NodeOK
  <1>4. IsFiniteSet(A)
    BY <1>1, FS_Subset DEF LeavesFrom
  <1>5. a \in A /\ B \subseteq A \ {a}
    BY <1>1, <1>2, <1>3 DEF LeavesFrom
  <1>6. Cardinality(A \ {a}) = Cardinality(A) - 1 /\ IsFiniteSet(A \ {a})
    BY <1>4, <1>5, FS_RemoveElement
  <1>7. Cardinality(B) <= Cardinality(A \ {a}) /\ IsFiniteSet(B)
    BY <1>5, <1>6, FS_Subset
  <1>8. Cardinality(A) \in Nat /\ Cardinality(B) \in Nat
    BY <1>4, <1>7, FS_CardinalityType
  <1> QED
    BY <1>1, <1>2, <1>6, <1>7, <1>8

\* One round of seek.
LEMMA SeekMore ==
  ASSUME NEW s, NEW q, FileOK(s, q), NEW T, T = Tree(s), NEW r, NEW g, TreeOK(T, r, g, NoPage, NoPage), NEW D, NEW ch,
         ContentsOK(T, D, ch), Keyed(D), NEW key \in Nat, NEW n \in Nat, NEW k \in Nat, NEW id, Seeking(T, g, D, key, n, k, id),
         NEW next, next = SeekStep(s, key, id)
  PROVE  Seeking(T, g, D, key, n, k + 1, next)
  <1>1. CASE id = NoPage
    <2>1. next = id
      BY <1>1 DEF SeekStep
    <2>2. id \notin DOMAIN T
      BY <1>1, TreeFacts DEF NoPage
    <2> QED
      BY <2>1, <2>2 DEF Seeking
  <1>2. CASE id # NoPage
    <2>1. /\ id \in DOMAIN T /\ T[id].kind = "Leaf" /\ AllFrom(D, g, key, id)
          /\ Settled(T[id], key) \/ Cardinality(LeavesFrom(T, g, id)) + k <= n
      BY <1>2 DEF Seeking
    <2>2. s.pages[id] = T[id]
      BY <2>1, Parts
    <2>3. next = IF Settled(T[id], key) THEN id ELSE T[id].extra
      BY <1>2, <2>2 DEF SeekStep, Settled
    <2>4. CASE Settled(T[id], key)
      BY <2>1, <2>3, <2>4 DEF Seeking
    <2>5. CASE ~Settled(T[id], key)
      <3>1. next = T[id].extra
        BY <2>3, <2>5
      <3>2. \/ next = NoPage /\ NoneFrom(D, key)
            \/ next \in DOMAIN T /\ T[next].kind = "Leaf" /\ AllFrom(D, g, key, next) /\ g.lo[id] < g.lo[next]
        BY <2>1, <2>5, <3>1, SeekNext
      <3>3. CASE next = NoPage /\ NoneFrom(D, key)
        BY <3>3 DEF Seeking
      <3>4. CASE next \in DOMAIN T /\ T[next].kind = "Leaf" /\ AllFrom(D, g, key, next) /\ g.lo[id] < g.lo[next]
        <4>1. IsFiniteSet(DOMAIN T)
          <5>1. DOMAIN T = Nodes(s)
            BY Parts
          <5>2. Len(s.pages) \in Nat /\ Nodes(s) \subseteq 1 .. Len(s.pages)
            BY FileFacts
          <5>3. IsFiniteSet(1 .. Len(s.pages))
            BY <5>2, FS_Interval
          <5> QED
            BY <5>1, <5>2, <5>3, FS_Subset
        <4>2. PICK x : x = Cardinality(LeavesFrom(T, g, id))
          OBVIOUS
        <4>3. PICK y : y = Cardinality(LeavesFrom(T, g, next))
          OBVIOUS
        <4>4. x \in Nat /\ y \in Nat /\ y + 1 <= x
          BY <2>1, <3>4, <4>1, <4>2, <4>3, FewerLeaves
        <4>5. x + k <= n
          BY <2>1, <2>5, <4>2
        <4>6. y + (k + 1) <= n
          BY <4>4, <4>5
        <4> QED
          BY <3>4, <4>3, <4>6 DEF Seeking
      <3> QED
        BY <3>2, <3>3, <3>4
    <2> QED
      BY <2>4, <2>5
  <1> QED
    BY <1>1, <1>2

\* The first key from `key` on.
FirstFrom(D, key, k) == k \in DOMAIN D /\ key <= k /\ \A y \in DOMAIN D : key <= y => k <= y

\* The slot at which a search settles holds the first key from `key` on.
LEMMA SettledIs ==
  ASSUME NEW T, NEW r, NEW g, TreeOK(T, r, g, NoPage, NoPage), NEW D, NEW ch, ContentsOK(T, D, ch), Keyed(D), NEW key \in Nat,
         NEW a \in DOMAIN T, T[a].kind = "Leaf", AllFrom(D, g, key, a), Settled(T[a], key),
         NEW item, item = T[a].items[SlotSearch(T[a], key).at]
  PROVE  FirstFrom(D, key, item.key) /\ item = Entry(item.key, D[item.key], Link(ch[item.key], 1))
  <1>1. NodeOK(T, g, a)
    BY TreeFacts
  <1>2. PICK items : items = T[a].items
    OBVIOUS
  <1>3. PICK n \in Nat : n = Len(items)
    BY <1>1, <1>2, NodeFacts
  <1>4. /\ items \in Seq(Item) /\ Sorted(items) /\ g.hi[a] \in Nat \cup {Inf}
        /\ \A i \in 1 .. n : items[i].key \in Nat /\ Before(items[i].key, g.hi[a])
    BY <1>1, <1>2, <1>3, NodeFacts
  <1>5. PICK slot : slot = SlotSearch(T[a], key)
    OBVIOUS
  <1>6. SlotOK(items, key, slot)
    BY <1>2, <1>4, <1>5, SlotIs
  <1>7. PICK at \in 1 .. n : at = slot.at
    <2>1. slot.at \in 1 .. n + 1
      BY <1>3, <1>6 DEF SlotOK
    <2>2. slot.at <= n
      BY <1>2, <1>3, <1>5 DEF Settled
    <2> QED
      BY <2>1, <2>2
  <1>8. item = items[at]
    BY <1>2, <1>5, <1>7
  <1>9. PICK k \in Nat : k = item.key
    BY <1>4, <1>8
  <1>10. key <= k
    <2>1. slot.found \in BOOLEAN /\ (slot.found => items[slot.at].key = key) /\ (~slot.found => \A j \in slot.at .. n : items[j].key > key)
      BY <1>3, <1>6 DEF SlotOK
    <2>2. CASE slot.found
      BY <1>7, <1>8, <1>9, <2>1, <2>2
    <2>3. CASE ~slot.found
      <3>1. at \in at .. n
        OBVIOUS
      <3>2. items[at].key > key
        BY <1>7, <2>1, <2>3, <3>1
      <3> QED
        BY <1>8, <1>9, <3>2
    <2> QED
      BY <2>1, <2>2, <2>3
  <1>11. k \in DOMAIN D /\ item = Entry(k, D[k], Link(ch[k], 1))
    BY <1>2, <1>3, <1>8, <1>9 DEF ContentsOK
  <1>12. ASSUME NEW y \in DOMAIN D, key <= y PROVE k <= y
    <2>1. y \in Nat /\ g.lo[a] <= y
      BY <1>12 DEF Keyed, AllFrom
    <2>2. CASE Before(y, g.hi[a])
      <3>1. Covers(g, a, y)
        BY <2>1, <2>2 DEF Covers
      <3>2. PICK j \in 1 .. n : items[j].key = y
        BY <1>2, <1>3, <2>1, <3>1, InLeaf
      <3>3. at <= j
        <4> SUFFICES ASSUME j < at PROVE FALSE
          OBVIOUS
        <4>1. j \in 1 .. slot.at - 1
          BY <1>7
        <4>2. items[j].key < key
          BY <1>6, <4>1 DEF SlotOK
        <4> QED
          BY <1>12, <2>1, <3>2, <4>2
      <3>4. CASE at = j
        BY <1>8, <1>9, <2>1, <3>2, <3>4
      <3>5. CASE at < j
        <4>1. items[at].key < items[j].key
          BY <1>3, <1>4, <3>5 DEF Sorted
        <4> QED
          BY <1>8, <1>9, <2>1, <3>2, <4>1
      <3> QED
        BY <3>3, <3>4, <3>5
    <2>3. CASE ~Before(y, g.hi[a])
      <3>1. g.hi[a] \in Nat /\ g.hi[a] <= y /\ g.hi[a] # Inf
        BY <1>4, <2>1, <2>3 DEF Before
      <3>2. k < g.hi[a]
        BY <1>4, <1>8, <1>9, <3>1 DEF Before
      <3> QED
        BY <2>1, <3>1, <3>2
    <2> QED
      BY <2>2, <2>3
  <1> QED
    BY <1>9, <1>10, <1>11, <1>12 DEF FirstFrom

\* Where seek ends.
LEMMA SeekLeafOK ==
  ASSUME NEW s, NEW r, NEW D, NEW L, NEW g, NEW q, NEW ch, Mid(s, r, D, L, g, q, ch, NoPage, NoPage), Keyed(D), NEW key \in Nat,
         NEW T, T = Tree(s), NEW a, a = SeekLeaf(s, r, key)
  PROVE  \/ a = NoPage /\ NoneFrom(D, key)
         \/ a \in DOMAIN T /\ T[a].kind = "Leaf" /\ AllFrom(D, g, key, a) /\ Settled(T[a], key)
  <1>1. FileOK(s, q) /\ TreeOK(T, r, g, NoPage, NoPage) /\ ContentsOK(T, D, ch)
    BY DEF Mid
  <1>2. PICK n \in Nat : n = Len(s.pages)
    BY <1>1, FileFacts
  <1>3. PICK path : path = Descend(s, r, key)
    OBVIOUS
  <1>4. PICK b : b = Last(path)
    OBVIOUS
  <1>5. PICK f : f[0] = b /\ (\A k \in 0 .. n - 1 : f[k + 1] = SeekStep(s, key, f[k])) /\ a = f[n]
    BY <1>2, <1>3, <1>4, SeekLeafIs
  <1>6. IsFiniteSet(DOMAIN T) /\ Cardinality(DOMAIN T) <= n
    <2>1. DOMAIN T = Nodes(s)
      BY Parts
    <2>2. DOMAIN T \subseteq 1 .. n
      BY <1>1, <1>2, <2>1, FileFacts
    <2>3. IsFiniteSet(1 .. n) /\ Cardinality(1 .. n) = n
      <3>1. IsFiniteSet(1 .. n) /\ Cardinality(1 .. n) = IF 1 > n THEN 0 ELSE n - 1 + 1
        BY FS_Interval
      <3> QED
        BY <3>1
    <2> QED
      BY <2>2, <2>3, FS_Subset
  <1>7. \A c \in DOMAIN T : Cardinality(LeavesFrom(T, g, c)) <= n /\ Cardinality(LeavesFrom(T, g, c)) \in Nat
    <2> SUFFICES ASSUME NEW c \in DOMAIN T, NEW C, C = LeavesFrom(T, g, c) PROVE Cardinality(C) <= n /\ Cardinality(C) \in Nat
      OBVIOUS
    <2>1. C \subseteq DOMAIN T
      BY DEF LeavesFrom
    <2>2. IsFiniteSet(C) /\ Cardinality(C) <= Cardinality(DOMAIN T)
      BY <1>6, <2>1, FS_Subset
    <2>3. Cardinality(C) \in Nat /\ Cardinality(DOMAIN T) \in Nat
      BY <1>6, <2>2, FS_CardinalityType
    <2> QED
      BY <1>6, <2>2, <2>3
  <1> DEFINE S == {k \in Nat : k <= n => Seeking(T, g, D, key, n, k, f[k])}
  <1>8. 0 \in S
    <2>1. PICK m : Located(s, r, g, q, D, ch, key, path, m, b)
      BY <1>3, <1>4, LocateOK
    <2>2. b \in Nodes(s) /\ s.pages[b].kind = "Leaf" /\ Covers(g, b, key)
      BY <2>1 DEF Located
    <2>3. b \in DOMAIN T /\ T[b].kind = "Leaf"
      BY <2>2, Parts
    <2>4. g.lo[b] \in Nat /\ g.lo[b] <= key
      BY <1>1, <2>2, <2>3, TreeFacts, NodeFacts DEF Covers
    <2>5. AllFrom(D, g, key, b)
      BY <2>4 DEF AllFrom, Keyed
    <2>6. Cardinality(LeavesFrom(T, g, b)) + 0 <= n
      BY <1>7, <2>3
    <2>7. Seeking(T, g, D, key, n, 0, b)
      BY <2>3, <2>5, <2>6 DEF Seeking
    <2> QED
      BY <1>5, <2>7
  <1>9. ASSUME NEW k \in Nat, k \in S PROVE k + 1 \in S
    <2> SUFFICES ASSUME k + 1 <= n PROVE Seeking(T, g, D, key, n, k + 1, f[k + 1])
      OBVIOUS
    <2>1. k <= n /\ k \in 0 .. n - 1
      OBVIOUS
    <2>2. PICK x : x = f[k]
      OBVIOUS
    <2>3. PICK z : z = f[k + 1]
      OBVIOUS
    <2>4. Seeking(T, g, D, key, n, k, x)
      BY <1>9, <2>1, <2>2
    <2>5. z = SeekStep(s, key, x)
      BY <1>5, <2>1, <2>2, <2>3
    <2>6. Seeking(T, g, D, key, n, k + 1, z)
      BY <1>1, <2>4, <2>5, SeekMore
    <2> QED
      BY <2>3, <2>6
  <1>10. Seeking(T, g, D, key, n, n, a)
    <2>1. n \in S
      <3> HIDE DEF S
      <3> QED
        BY <1>8, <1>9, SetInduction
    <2> QED
      BY <1>5, <2>1
  <1>11. ASSUME a \in DOMAIN T, T[a].kind = "Leaf" PROVE ~(Cardinality(LeavesFrom(T, g, a)) + n <= n)
    <2>1. PICK C : C = LeavesFrom(T, g, a)
      OBVIOUS
    <2>2. a \in C
      <3>1. g.lo[a] \in Nat
        BY <1>1, <1>11, TreeFacts, NodeFacts
      <3> QED
        BY <1>11, <2>1, <3>1 DEF LeavesFrom
    <2>3. IsFiniteSet(C)
      BY <1>6, <2>1, FS_Subset DEF LeavesFrom
    <2>4. Cardinality(C) # 0
      BY <2>2, <2>3, FS_EmptySet
    <2>5. Cardinality(C) \in Nat
      BY <2>3, FS_CardinalityType
    <2> QED
      BY <2>1, <2>4, <2>5
  <1> QED
    BY <1>10, <1>11 DEF Seeking

\* One element after another.
LEMMA TwoOnes == \A x, y : <<x>> \o <<y>> = <<x, y>>
  <1> SUFFICES ASSUME NEW x, NEW y PROVE <<x>> \o <<y>> = <<x, y>>
    OBVIOUS
  <1>1. PICK U : x \in U /\ y \in U
    <2>1. x \in {x, y} /\ y \in {x, y}
      OBVIOUS
    <2> QED
      BY <2>1
  <1>2. <<x>> \in Seq(U) /\ Len(<<x>>) = 1
    BY <1>1
  <1>3. <<y>> \in Seq(U) /\ Len(<<y>>) = 1
    BY <1>1
  <1>4. <<x, y>> \in Seq(U) /\ Len(<<x, y>>) = 2
    BY <1>1
  <1>5. PICK p \in Seq(U) : p = <<x>>
    BY <1>2
  <1>6. PICK q \in Seq(U) : q = <<y>>
    BY <1>3
  <1>7. Len(p) = 1 /\ Len(q) = 1 /\ p[1] = x /\ q[1] = y
    BY <1>2, <1>3, <1>5, <1>6
  <1>8. PICK z : z = p \o q
    OBVIOUS
  <1>a. z \in Seq(U) /\ Len(z) = Len(p) + Len(q)
    BY <1>8
  <1>b. \A i \in 1 .. Len(p) + Len(q) : z[i] = IF i <= Len(p) THEN p[i] ELSE q[i - Len(p)]
    BY <1>8
  <1>c. Len(z) = 2 /\ 1 \in 1 .. Len(p) + Len(q) /\ 2 \in 1 .. Len(p) + Len(q) /\ 1 <= Len(p) /\ ~(2 <= Len(p)) /\ 2 - Len(p) = 1
    BY <1>7, <1>a
  <1>9. Len(z) = 2 /\ z[1] = x /\ z[2] = y
    BY <1>7, <1>b, <1>c
  <1>10. PICK w \in Seq(U) : w = <<x, y>>
    BY <1>4
  <1>11. Len(w) = 2 /\ w[1] = x /\ w[2] = y
    BY <1>4, <1>10
  <1>12. Len(z) = Len(w) /\ \A i \in 1 .. Len(z) : z[i] = w[i]
    <2>1. \A i \in 1 .. 2 : i = 1 \/ i = 2
      OBVIOUS
    <2> QED
      BY <1>9, <1>11, <2>1
  <1>13. z = w
    BY <1>a, <1>12, SeqsEqual
  <1> QED
    BY <1>5, <1>6, <1>8, <1>10, <1>13

\* seek.
LEMMA SeekOK ==
  ASSUME NEW s, NEW r, NEW D, NEW L, NEW g, NEW q, NEW ch, Mid(s, r, D, L, g, q, ch, NoPage, NoPage), Payload(D), Keyed(D),
         NEW key \in Nat
  PROVE  \/ Seek(s, r, key) = <<>> /\ NoneFrom(D, key)
         \/ \E k : FirstFrom(D, key, k) /\ Seek(s, r, key) = <<k, D[k]>>
  <1>1. PICK T : T = Tree(s)
    OBVIOUS
  <1>2. PICK a : a = SeekLeaf(s, r, key)
    OBVIOUS
  <1>3. FileOK(s, q) /\ TreeOK(T, r, g, NoPage, NoPage) /\ ContentsOK(T, D, ch) /\ ChainsOK(Over(s), ch, D, L)
    BY <1>1 DEF Mid
  <1>4. PICK page : page = s.pages[a]
    OBVIOUS
  <1>5. PICK item : item = page.items[SlotSearch(page, key).at]
    OBVIOUS
  <1>6. Seek(s, r, key) = IF a = NoPage THEN <<>> ELSE <<item.key>> \o PayloadOf(s, item)
    BY <1>2, <1>4, <1>5, Zenon DEF Seek
  <1>7. \/ a = NoPage /\ NoneFrom(D, key)
        \/ a \in DOMAIN T /\ T[a].kind = "Leaf" /\ AllFrom(D, g, key, a) /\ Settled(T[a], key)
    BY <1>1, <1>2, SeekLeafOK
  <1>8. CASE a = NoPage /\ NoneFrom(D, key)
    BY <1>6, <1>8
  <1>9. CASE a \in DOMAIN T /\ T[a].kind = "Leaf" /\ AllFrom(D, g, key, a) /\ Settled(T[a], key)
    <2>1. a # NoPage
      BY <1>3, <1>9, TreeFacts DEF NoPage
    <2>2. page = T[a]
      BY <1>1, <1>4, <1>9, Parts
    <2>3. FirstFrom(D, key, item.key) /\ item = Entry(item.key, D[item.key], Link(ch[item.key], 1))
      BY <1>3, <1>5, <1>9, <2>2, SettledIs
    <2>4. PICK k : k = item.key
      OBVIOUS
    <2>5. k \in DOMAIN D /\ FirstFrom(D, key, k)
      BY <2>3, <2>4 DEF FirstFrom
    <2>6. PICK w \in Seq(Nat) : w = D[k]
      BY <2>5 DEF Payload
    <2>7. PICK d : d = ch[k]
      OBVIOUS
    <2>8. ChainOK(Over(s), d, w) /\ item = Entry(k, w, Link(d, 1))
      BY <1>3, <2>3, <2>4, <2>5, <2>6, <2>7 DEF ChainsOK
    <2>9. PayloadOf(s, item) = <<w>>
      BY <1>3, <2>8, PayloadOfOK
    <2>10. Seek(s, r, key) = <<k>> \o <<w>>
      BY <1>6, <2>1, <2>4, <2>9
    <2>11. <<k>> \o <<w>> = <<k, w>>
      BY TwoOnes
    <2> QED
      BY <2>5, <2>6, <2>10, <2>11
  <1> QED
    BY <1>7, <1>8, <1>9

\* lookup finds the payload last put under a key and nothing else, and seek the
\* first entry from a key on, after any sequence of operations (SearchesAgree:
\* descend, child_for, slot_search, lookup, seek, read_overflow).
THEOREM BTreeSearches == Spec => []SearchesAgree
  <1>1. BTreeInv => SearchesAgree
    <2> SUFFICES ASSUME BTreeInv, root # NoPage, NEW key \in keys
                 PROVE  LET later == {k \in DOMAIN dict : k >= key}
                            first == CHOOSE k \in later : \A other \in later : k <= other
                        IN  /\ Lookup(store, root, key) = IF key \in DOMAIN dict THEN <<dict[key]>> ELSE <<>>
                            /\ Seek(store, root, key) = IF later = {} THEN <<>> ELSE <<first, dict[first]>>
      BY DEF SearchesAgree
    <2>1. PICK g, q, ch : TreeInv(store, root, dict, lost, g, q, ch)
      BY DEF BTreeInv
    <2>2. Mid(store, root, dict, lost, g, q, ch, NoPage, NoPage)
      BY <2>1, InvMid
    <2>3. Payload(dict) /\ Keyed(dict) /\ key \in Nat
      BY Payloads_are DEF BTreeInv, Keyed
    <2> DEFINE later == {k \in DOMAIN dict : k >= key}
               first == CHOOSE k \in later : \A other \in later : k <= other
    <2>4. Lookup(store, root, key) = IF key \in DOMAIN dict THEN <<dict[key]>> ELSE <<>>
      BY <2>2, <2>3, LookupOK
    <2>5. \A y \in DOMAIN dict : y \in Nat
      BY <2>3 DEF Keyed
    <2>6. Seek(store, root, key) = IF later = {} THEN <<>> ELSE <<first, dict[first]>>
      <3>1. \/ Seek(store, root, key) = <<>> /\ NoneFrom(dict, key)
            \/ \E k : FirstFrom(dict, key, k) /\ Seek(store, root, key) = <<k, dict[k]>>
        BY <2>2, <2>3, SeekOK
      <3>2. CASE Seek(store, root, key) = <<>> /\ NoneFrom(dict, key)
        <4>1. later = {}
          BY <2>3, <2>5, <3>2 DEF NoneFrom
        <4> QED
          BY <3>2, <4>1
      <3>3. ASSUME NEW k, FirstFrom(dict, key, k), Seek(store, root, key) = <<k, dict[k]>>
            PROVE  Seek(store, root, key) = IF later = {} THEN <<>> ELSE <<first, dict[first]>>
        <4>1. k \in later /\ \A other \in later : k <= other
          BY <2>3, <2>5, <3>3 DEF FirstFrom
        <4>2. first \in later /\ \A other \in later : first <= other
          BY <4>1
        <4>3. first <= k /\ k <= first /\ first \in Nat /\ k \in Nat
          BY <2>5, <4>1, <4>2
        <4>4. first = k
          <5> HIDE DEF first, later
          <5> QED
            BY <4>3
        <4>5. later # {}
          BY <4>1
        <4> HIDE DEF first, later
        <4> QED
          BY <3>3, <4>4, <4>5
      <3> QED
        BY <3>1, <3>2, <3>3
    <2> QED
      BY <2>4, <2>6
  <1> QED
    BY <1>1, BTreeInvariance, PTL
-----------------------------------------------------------------------------
(* The uses of pages *)

\* Slot i of page a, one of ids, holds on to page t; the links of the tree's
\* root and of the free list are those of NoPage.
Leads(s, r, ids, a, i, t) ==
  \/ a = NoPage /\ i = 0 /\ t = r
  \/ a = NoPage /\ i = 1 /\ t = s.free
  \/ a \in ids /\ i \in DOMAIN Held(s.pages[a]) /\ t = Held(s.pages[a])[i]

\* Links, one by one.
LEMMA LinksAre ==
  ASSUME NEW s, NEW r, NEW ids
  PROVE  \A l : l \in Links(s, r, ids) <=> \E a, i, t : l = <<a, i, t>> /\ Leads(s, r, ids, a, i, t)
  <1>1. \A l : l \in Links(s, r, ids) <=>
          \/ l = <<NoPage, 0, r>> \/ l = <<NoPage, 1, s.free>>
          \/ \E id \in ids : \E i \in DOMAIN Held(s.pages[id]) : l = <<id, i, Held(s.pages[id])[i]>>
    <2>1. PICK W : W = UNION {{<<id, i, Held(s.pages[id])[i]>> : i \in DOMAIN Held(s.pages[id])} : id \in ids}
      OBVIOUS
    <2>2. \A l : l \in W <=> \E id \in ids : \E i \in DOMAIN Held(s.pages[id]) : l = <<id, i, Held(s.pages[id])[i]>>
      BY <2>1
    <2>3. Links(s, r, ids) = {<<NoPage, 0, r>>, <<NoPage, 1, s.free>>} \cup W
      BY <2>1 DEF Links
    <2> QED
      BY <2>2, <2>3, Zenon
  <1> QED
    BY <1>1, Zenon DEF Leads

\* One round of following links.
LEMMA ReachIs ==
  ASSUME NEW s, NEW r, NEW ids
  PROVE  \A t : t \in ReachStep(s, r, ids) <=> t \in ids \/ (t # NoPage /\ \E a, i : Leads(s, r, ids, a, i, t))
  <1>1. \A t : t \in {link[3] : link \in Links(s, r, ids)} <=> \E l \in Links(s, r, ids) : t = l[3]
    OBVIOUS
  <1>2. \A t : (\E l \in Links(s, r, ids) : t = l[3]) <=> \E a, i : Leads(s, r, ids, a, i, t)
    <2>1. ASSUME NEW t, NEW l \in Links(s, r, ids), t = l[3] PROVE \E a, i : Leads(s, r, ids, a, i, t)
      <3>1. PICK a, i, u : l = <<a, i, u>> /\ Leads(s, r, ids, a, i, u)
        BY LinksAre
      <3>2. u = t
        BY <2>1, <3>1
      <3> QED
        BY <3>1, <3>2
    <2>2. ASSUME NEW t, NEW a, NEW i, Leads(s, r, ids, a, i, t) PROVE \E l \in Links(s, r, ids) : t = l[3]
      <3>1. <<a, i, t>> \in Links(s, r, ids)
        BY <2>2, LinksAre
      <3>2. <<a, i, t>>[3] = t
        OBVIOUS
      <3> QED
        BY <3>1, <3>2
    <2> QED
      BY <2>1, <2>2
  <1> QED
    BY <1>1, <1>2 DEF ReachStep

\* What a page holds on to.
LEMMA HeldIs ==
  ASSUME NEW page, page \in Node \cup Other
  PROVE  /\ page.kind = "Internal" => DOMAIN Held(page) = 0 .. Len(page.items) /\ \A i \in 0 .. Len(page.items) : Held(page)[i] = Child(page, i)
         /\ page.kind = "Leaf" => /\ DOMAIN Held(page) = {i \in DOMAIN page.items : page.items[i].data[1] = "Overflow"}
                                  /\ \A i \in DOMAIN Held(page) : Held(page)[i] = page.items[i].data[3]
         /\ page.kind \notin {"Leaf", "Internal"} => DOMAIN Held(page) = {0} /\ Held(page)[0] = page.extra
  <1>1. CASE page.kind = "Internal"
    <2>1. Held(page) = [i \in 0 .. Len(page.items) |-> IF i = 0 THEN page.extra ELSE page.items[i].data[2]]
      BY <1>1 DEF Held
    <2> QED
      BY <1>1, <2>1 DEF Child
  <1>2. CASE page.kind = "Leaf"
    <2>1. PICK slots : slots = {i \in DOMAIN page.items : page.items[i].data[1] = "Overflow"}
      OBVIOUS
    <2>2. Held(page) = [i \in slots |-> page.items[i].data[3]]
      BY <1>2, <2>1 DEF Held
    <2> QED
      BY <1>2, <2>1, <2>2
  <1>3. CASE page.kind \notin {"Leaf", "Internal"}
    <2>1. Held(page) = [i \in {0} |-> page.extra]
      BY <1>3 DEF Held
    <2> QED
      BY <1>3, <2>1
  <1> QED
    BY <1>1, <1>2, <1>3

\* A link from the root or an internal node.
NodeLink(T, r, a, i, t) ==
  /\ t \in DOMAIN T
  /\ \/ a = NoPage /\ i = 0 /\ t = r
     \/ a \in DOMAIN T /\ T[a].kind = "Internal" /\ i \in 0 .. Len(T[a].items) /\ t = Child(T[a], i)

\* A link along the sequence c.
Along(c, a, i, t) == \E j \in 1 .. Len(c) - 1 : a = c[j] /\ i = 0 /\ t = c[j + 1]

\* A link from the entry of x to its chain, or along the chain.
ChainLink(T, ch, x, a, i, t) ==
  \/ /\ Len(ch[x]) >= 1 /\ t = ch[x][1]
     /\ a \in DOMAIN T /\ T[a].kind = "Leaf" /\ i \in 1 .. Len(T[a].items) /\ T[a].items[i].key = x
  \/ Along(ch[x], a, i, t)

\* A link of the free list.
FreeLink(q, a, i, t) == (a = NoPage /\ i = 1 /\ Len(q) >= 1 /\ t = q[1]) \/ Along(q, a, i, t)

\* The data of an entry.
LEMMA EntryData ==
  ASSUME NEW key, NEW v \in Seq(Nat), NEW first, NEW e, e = Entry(key, v, first)
  PROVE  /\ e.key = key
         /\ Len(v) <= MaxInline => e.data[1] # "Overflow"
         /\ Len(v) > MaxInline => e.data[1] = "Overflow" /\ e.data[3] = first
  <1>1. Len(v) \in Nat /\ MaxInline \in Nat
    BY Sizes
  <1>2. CASE Len(v) <= MaxInline
    BY <1>1, <1>2 DEF Entry
  <1>3. CASE Len(v) > MaxInline
    <2>1. ~(Len(v) <= MaxInline)
      BY <1>1, <1>3
    <2> QED
      BY <1>1, <1>3, <2>1 DEF Entry
  <1> QED
    BY <1>1, <1>2, <1>3

\* An entry has a chain when its payload is not inline.
LEMMA ChainLength ==
  ASSUME NEW O, NEW c, NEW v \in Seq(Nat), ChainOK(O, c, v)
  PROVE  Len(c) \in Nat /\ (Len(v) > MaxInline <=> Len(c) >= 1)
  <1>1. c \in Seq(Nat) /\ Len(c) = IF Len(v) <= MaxInline THEN 0 ELSE Chunks(v)
    BY DEF ChainOK
  <1>2. Len(v) \in Nat /\ MaxInline \in Nat \ {0} /\ OverflowChunk \in Nat \ {0} /\ Len(c) \in Nat
    BY <1>1, Sizes
  <1>3. Len(v) > 0 => Chunks(v) >= 1
    <2> SUFFICES ASSUME Len(v) > 0 PROVE Chunks(v) >= 1
      OBVIOUS
    <2>1. PICK n \in Nat : n = Len(v)
      BY <1>2
    <2>2. PICK d \in Nat \ {0} : d = OverflowChunk
      BY <1>2
    <2>3. n + d - 1 >= d
      BY <2>1
    <2>4. (n + d - 1) \div d >= 1
      BY <2>3
    <2> QED
      BY <2>1, <2>2, <2>4 DEF Chunks
  <1> QED
    BY <1>1, <1>2, <1>3

\* The link at place i of a sequence.
LEMMA LinkAlong ==
  ASSUME NEW c \in Seq(Nat), NEW j \in 1 .. Len(c), NEW t, t = Link(c, j + 1), t # NoPage
  PROVE  Along(c, c[j], 0, t)
  <1>1. Len(c) \in Nat
    OBVIOUS
  <1>2. j + 1 <= Len(c) /\ t = c[j + 1]
    BY DEF Link
  <1>3. j \in 1 .. Len(c) - 1
    BY <1>1, <1>2
  <1> QED
    BY <1>2, <1>3 DEF Along

\* A link of the tree, of a chain or of the free list.
SomeLink(T, r, D, ch, q, a, i, t) ==
  \/ NodeLink(T, r, a, i, t)
  \/ \E x \in DOMAIN D : ChainLink(T, ch, x, a, i, t)
  \/ FreeLink(q, a, i, t)

\* What an overflow page or a free page holds on to.
LEMMA OtherHeld ==
  ASSUME NEW page, page \in Node \cup Other, page.kind \in {"Overflow", "Free"}, NEW i \in DOMAIN Held(page), NEW t, t = Held(page)[i]
  PROVE  i = 0 /\ t = page.extra
  <1>1. page.kind \notin {"Leaf", "Internal"}
    OBVIOUS
  <1>2. DOMAIN Held(page) = {0} /\ Held(page)[0] = page.extra
    BY <1>1, HeldIs
  <1> QED
    BY <1>2

\* The links of a page in a chain.
LEMMA OverLeads ==
  ASSUME NEW s, NEW q, FileOK(s, q), NEW D, NEW ch, NEW L, ChainsOK(Over(s), ch, D, L), NEW T, NEW a \in Overflowing(s), a \notin L,
         NEW i \in DOMAIN Held(s.pages[a]), NEW t, t = Held(s.pages[a])[i], t # NoPage
  PROVE  \E x \in DOMAIN D : ChainLink(T, ch, x, a, i, t)
  <1>1. PICK page : page = s.pages[a]
    OBVIOUS
  <1>2. page \in Node \cup Other /\ page.kind = "Overflow" /\ Over(s)[a] = page /\ a \in DOMAIN Over(s)
    BY <1>1, FileFacts, Parts
  <1>3. i = 0 /\ t = page.extra
    BY <1>1, <1>2, OtherHeld
  <1>4. PICK x \in DOMAIN D : \E j \in 1 .. Len(ch[x]) : ch[x][j] = a
    BY <1>2 DEF ChainsOK
  <1>5. PICK c : c = ch[x]
    OBVIOUS
  <1>6. PICK j \in 1 .. Len(c) : c[j] = a
    BY <1>4, <1>5
  <1>7. ChainOK(Over(s), c, D[x])
    BY <1>5 DEF ChainsOK
  <1>8. c \in Seq(Nat) /\ Over(s)[c[j]].extra = Link(c, j + 1)
    BY <1>7 DEF ChainOK
  <1>9. t = Link(c, j + 1)
    BY <1>2, <1>3, <1>6, <1>8
  <1>10. Along(c, a, i, t)
    BY <1>3, <1>6, <1>8, <1>9, LinkAlong
  <1> QED
    BY <1>5, <1>10 DEF ChainLink

\* The links of a free page.
LEMMA FreeLeads ==
  ASSUME NEW s, NEW q, FileOK(s, q), NEW a \in Frees(s), NEW i \in DOMAIN Held(s.pages[a]), NEW t, t = Held(s.pages[a])[i], t # NoPage
  PROVE  FreeLink(q, a, i, t)
  <1>1. PICK page : page = s.pages[a]
    OBVIOUS
  <1>2. page \in Node \cup Other /\ page.kind = "Free"
    BY <1>1, FileFacts DEF Frees
  <1>3. i = 0 /\ t = page.extra
    BY <1>1, <1>2, OtherHeld
  <1>4. FreeList(s, q)
    BY DEF FileOK
  <1>5. PICK j \in 1 .. Len(q) : q[j] = a
    BY <1>4 DEF FreeList
  <1>6. q \in Seq(Nat) /\ s.pages[q[j]].extra = Link(q, j + 1)
    BY <1>4 DEF FreeList
  <1>7. t = Link(q, j + 1)
    BY <1>1, <1>3, <1>5, <1>6
  <1>8. Along(q, a, i, t)
    BY <1>3, <1>5, <1>6, <1>7, LinkAlong
  <1> QED
    BY <1>8 DEF FreeLink

\* The links of a leaf.
LEMMA LeafLeads ==
  ASSUME NEW O, NEW T, NEW r, NEW g, TreeOK(T, r, g, NoPage, NoPage), NEW D, NEW ch, NEW L, ContentsOK(T, D, ch), ChainsOK(O, ch, D, L),
         Payload(D), NEW a \in DOMAIN T, T[a].kind = "Leaf", NEW i \in DOMAIN Held(T[a]), NEW t, t = Held(T[a])[i]
  PROVE  \E x \in DOMAIN D : ChainLink(T, ch, x, a, i, t)
  <1>1. T[a] \in Node /\ T[a].items \in Seq(Item)
    BY TreeFacts, NodeFacts
  <1>2. i \in DOMAIN T[a].items /\ T[a].items[i].data[1] = "Overflow" /\ t = T[a].items[i].data[3]
    <2>1. PICK page : page = T[a]
      OBVIOUS
    <2>2. page \in Node \cup Other /\ page.kind = "Leaf"
      BY <1>1, <2>1
    <2>3. DOMAIN Held(page) = {k \in DOMAIN page.items : page.items[k].data[1] = "Overflow"}
      BY <2>2, HeldIs
    <2>4. \A k \in DOMAIN Held(page) : Held(page)[k] = page.items[k].data[3]
      BY <2>2, HeldIs
    <2>5. i \in DOMAIN Held(page) /\ t = Held(page)[i]
      BY <2>1
    <2> HIDE DEF Held
    <2>6. i \in DOMAIN page.items /\ page.items[i].data[1] = "Overflow"
      BY <2>3, <2>5
    <2> QED
      BY <2>1, <2>4, <2>5, <2>6
  <1>3. i \in 1 .. Len(T[a].items)
    BY <1>1, <1>2
  <1>4. PICK item : item = T[a].items[i]
    OBVIOUS
  <1>5. PICK x : x = item.key
    OBVIOUS
  <1>6. x \in DOMAIN D /\ item = Entry(x, D[x], Link(ch[x], 1))
    BY <1>3, <1>4, <1>5 DEF ContentsOK
  <1>7. PICK v \in Seq(Nat) : v = D[x]
    BY <1>6 DEF Payload
  <1>8. PICK c : c = ch[x]
    OBVIOUS
  <1>9. ChainOK(O, c, v)
    BY <1>6, <1>7, <1>8 DEF ChainsOK
  <1>10. item = Entry(x, v, Link(c, 1))
    BY <1>6, <1>7, <1>8
  <1>11. Len(v) > MaxInline /\ t = Link(c, 1)
    <2>1. Len(v) <= MaxInline \/ Len(v) > MaxInline
      BY Sizes
    <2> QED
      BY <1>2, <1>4, <1>10, <2>1, EntryData
  <1>12. Len(c) \in Nat /\ Len(c) >= 1
    BY <1>9, <1>11, ChainLength
  <1>13. t = c[1]
    BY <1>11, <1>12 DEF Link
  <1> QED
    BY <1>3, <1>4, <1>5, <1>6, <1>8, <1>12, <1>13 DEF ChainLink

\* Every link of pages in use is one of these.
LEMMA LeadsSome ==
  ASSUME NEW s, NEW r, NEW D, NEW L, NEW g, NEW q, NEW ch, TreeInv(s, r, D, L, g, q, ch), Payload(D), NEW T, T = Tree(s),
         NEW ids, ids \subseteq DOMAIN s.pages \ L, NEW a, NEW i, NEW t, Leads(s, r, ids, a, i, t), t # NoPage
  PROVE  SomeLink(T, r, D, ch, q, a, i, t)
  <1>1. FileOK(s, q) /\ ChainsOK(Over(s), ch, D, L)
    BY DEF TreeInv
  <1>2. DOMAIN T = Nodes(s) /\ \A b \in Nodes(s) : T[b] = s.pages[b]
    BY Parts
  <1>3. r # NoPage => TreeOK(T, r, g, NoPage, NoPage) /\ ContentsOK(T, D, ch)
    BY DEF TreeInv
  <1>4. CASE a = NoPage /\ i = 0 /\ t = r
    <2>1. r \in DOMAIN T
      BY <1>3, <1>4, TreeFacts
    <2> QED
      BY <1>4, <2>1 DEF SomeLink, NodeLink
  <1>5. CASE a = NoPage /\ i = 1 /\ t = s.free
    <2>1. q \in Seq(Nat) /\ t = Link(q, 1)
      BY <1>1, <1>5 DEF FileOK, FreeList
    <2>2. Len(q) >= 1 /\ t = q[1]
      BY <2>1 DEF Link
    <2> QED
      BY <1>5, <2>2 DEF SomeLink, FreeLink
  <1>6. CASE a \in ids /\ i \in DOMAIN Held(s.pages[a]) /\ t = Held(s.pages[a])[i]
    <2>1. a \in DOMAIN s.pages /\ a \notin L
      BY <1>6
    <2>2. s.pages[a] \in Node \cup Other
      BY <1>1, <2>1, FileFacts
    <2>3. a \in Nodes(s) \/ a \in Overflowing(s) \/ a \in Frees(s)
      BY <2>1, <2>2 DEF Nodes, Overflowing, Frees, Node, Other
    <2>4. CASE a \in Nodes(s)
      <3>1. r # NoPage
        BY <2>4 DEF TreeInv
      <3>2. a \in DOMAIN T /\ T[a] = s.pages[a] /\ TreeOK(T, r, g, NoPage, NoPage) /\ ContentsOK(T, D, ch)
        BY <1>2, <1>3, <2>4, <3>1
      <3>3. i \in DOMAIN Held(T[a]) /\ t = Held(T[a])[i]
        BY <1>6, <3>2
      <3>4. T[a] \in Node /\ T[a].kind \in {"Leaf", "Internal"}
        BY <3>2, TreeFacts, NodeFacts
      <3>5. CASE T[a].kind = "Internal"
        <4>1. i \in 0 .. Len(T[a].items) /\ t = Child(T[a], i)
          BY <3>3, <3>4, <3>5, HeldIs
        <4>2. t \in DOMAIN T
          BY <3>2, <3>5, <4>1, ChildFacts
        <4> QED
          BY <3>2, <3>5, <4>1, <4>2 DEF SomeLink, NodeLink
      <3>6. CASE T[a].kind = "Leaf"
        <4>1. \E x \in DOMAIN D : ChainLink(T, ch, x, a, i, t)
          BY <1>1, <3>2, <3>3, <3>6, LeafLeads
        <4> QED
          BY <4>1 DEF SomeLink
      <3> QED
        BY <3>4, <3>5, <3>6
    <2>5. CASE a \in Overflowing(s)
      <3>1. \E x \in DOMAIN D : ChainLink(T, ch, x, a, i, t)
        BY <1>1, <1>6, <2>1, <2>5, OverLeads
      <3> QED
        BY <3>1 DEF SomeLink
    <2>6. CASE a \in Frees(s)
      <3>1. FreeLink(q, a, i, t)
        BY <1>1, <1>6, <2>6, FreeLeads
      <3> QED
        BY <3>1 DEF SomeLink
    <2> QED
      BY <2>3, <2>4, <2>5, <2>6
  <1> QED
    BY <1>4, <1>5, <1>6 DEF Leads

\* The next page along a sequence.
LEMMA AlongIs ==
  ASSUME NEW c \in Seq(Nat), NEW a, NEW i, NEW t, Along(c, a, i, t)
  PROVE  i = 0 /\ \E j \in 1 .. Len(c) : j + 1 \in 1 .. Len(c) /\ a = c[j] /\ t = c[j + 1]
  <1>1. PICK j \in 1 .. Len(c) - 1 : a = c[j] /\ i = 0 /\ t = c[j + 1]
    BY DEF Along
  <1>2. Len(c) \in Nat
    OBVIOUS
  <1>3. j \in 1 .. Len(c) /\ j + 1 \in 1 .. Len(c)
    BY <1>2
  <1> QED
    BY <1>1, <1>3

\* A link leads to a page in use, of its kind.
LEMMA LinkTarget ==
  ASSUME NEW s, NEW r, NEW D, NEW L, NEW g, NEW q, NEW ch, TreeInv(s, r, D, L, g, q, ch), NEW T, T = Tree(s), NEW a, NEW i, NEW t
  PROVE  /\ NodeLink(T, r, a, i, t) => t \in Nodes(s)
         /\ \A x \in DOMAIN D : ChainLink(T, ch, x, a, i, t) => t \in Overflowing(s) \ L /\ \E j \in 1 .. Len(ch[x]) : ch[x][j] = t
         /\ FreeLink(q, a, i, t) => t \in Frees(s)
  <1>1. FileOK(s, q) /\ ChainsOK(Over(s), ch, D, L)
    BY DEF TreeInv
  <1>2. DOMAIN T = Nodes(s) /\ DOMAIN Over(s) = Overflowing(s)
    BY Parts
  <1>3. ASSUME NodeLink(T, r, a, i, t) PROVE t \in Nodes(s)
    BY <1>2, <1>3 DEF NodeLink
  <1>4. ASSUME NEW x \in DOMAIN D, ChainLink(T, ch, x, a, i, t)
        PROVE  t \in Overflowing(s) \ L /\ \E j \in 1 .. Len(ch[x]) : ch[x][j] = t
    <2>1. PICK c : c = ch[x]
      OBVIOUS
    <2>2. ChainOK(Over(s), c, D[x])
      BY <1>1, <2>1 DEF ChainsOK
    <2>3. c \in Seq(Nat) /\ \A j \in 1 .. Len(c) : c[j] \in Overflowing(s)
      BY <1>2, <2>2 DEF ChainOK
    <2>4. \A j \in 1 .. Len(c) : c[j] \notin L
      BY <1>1, <2>1 DEF ChainsOK
    <2>5. \E j \in 1 .. Len(c) : c[j] = t
      <3>1. CASE Len(c) >= 1 /\ t = c[1]
        <4>1. 1 \in 1 .. Len(c)
          BY <2>3, <3>1
        <4> QED
          BY <3>1, <4>1
      <3>2. CASE Along(c, a, i, t)
        BY <2>3, <3>2, AlongIs
      <3> QED
        BY <1>4, <2>1, <3>1, <3>2 DEF ChainLink
    <2> QED
      BY <2>1, <2>3, <2>4, <2>5
  <1>5. ASSUME FreeLink(q, a, i, t) PROVE t \in Frees(s)
    <2>1. q \in Seq(Nat) /\ \A j \in 1 .. Len(q) : q[j] \in Frees(s)
      BY <1>1 DEF FileOK, FreeList
    <2>2. \E j \in 1 .. Len(q) : q[j] = t
      <3>1. CASE Len(q) >= 1 /\ t = q[1]
        <4>1. 1 \in 1 .. Len(q)
          BY <2>1, <3>1
        <4> QED
          BY <3>1, <4>1
      <3>2. CASE Along(q, a, i, t)
        BY <2>1, <3>2, AlongIs
      <3> QED
        BY <1>5, <3>1, <3>2 DEF FreeLink
    <2> QED
      BY <2>1, <2>2
  <1> QED
    BY <1>3, <1>4, <1>5

\* No link leads out of the pages F.
Closed(s, r, F) == \A a, i, t : Leads(s, r, F, a, i, t) /\ t # NoPage => t \in F

\* Pages that another round adds nothing to.
LEMMA ClosedIs ==
  ASSUME NEW s, NEW r, NEW F, ReachStep(s, r, F) = F
  PROVE  Closed(s, r, F)
  <1> SUFFICES ASSUME NEW a, NEW i, NEW t, Leads(s, r, F, a, i, t), t # NoPage PROVE t \in F
    BY DEF Closed
  <1>1. t \in ReachStep(s, r, F)
    BY ReachIs
  <1> QED
    BY <1>1

\* A set with the first page of a sequence and closed along it has all of it.
LEMMA AlongClosed ==
  ASSUME NEW c \in Seq(Nat), NEW F, Len(c) >= 1 => c[1] \in F,
         \A j \in 1 .. Len(c) : j + 1 \in 1 .. Len(c) /\ c[j] \in F => c[j + 1] \in F
  PROVE  \A j \in 1 .. Len(c) : c[j] \in F
  <1> DEFINE S == {n \in Nat : n + 1 \in 1 .. Len(c) => c[n + 1] \in F}
  <1>1. Len(c) \in Nat
    OBVIOUS
  <1>2. 0 \in S
    BY <1>1
  <1>3. ASSUME NEW n \in Nat, n \in S PROVE n + 1 \in S
    <2> SUFFICES ASSUME (n + 1) + 1 \in 1 .. Len(c) PROVE c[(n + 1) + 1] \in F
      OBVIOUS
    <2>1. PICK m \in Nat : m = n + 1
      OBVIOUS
    <2>2. m \in 1 .. Len(c) /\ m + 1 \in 1 .. Len(c)
      BY <1>1, <2>1
    <2>3. c[m] \in F
      BY <1>3, <2>1, <2>2
    <2> QED
      BY <2>1, <2>2, <2>3
  <1>4. \A n \in Nat : n \in S
    <2> HIDE DEF S
    <2> QED
      BY <1>2, <1>3, SetInduction
  <1> TAKE j \in 1 .. Len(c)
  <1>5. PICK n \in Nat : j = n + 1
    <2>1. j - 1 \in Nat /\ j = (j - 1) + 1
      BY <1>1
    <2> QED
      BY <2>1
  <1>6. n \in S
    BY <1>4
  <1> QED
    BY <1>5, <1>6

\* The free list is in use.
LEMMA FreesIn ==
  ASSUME NEW s, NEW r, NEW q, FileOK(s, q), NEW F, Closed(s, r, F)
  PROVE  Frees(s) \subseteq F
  <1>1. q \in Seq(Nat) /\ s.free = Link(q, 1) /\ \A j \in 1 .. Len(q) : q[j] \in Frees(s) /\ s.pages[q[j]].extra = Link(q, j + 1)
    BY DEF FileOK, FreeList
  <1>2. \A a \in Frees(s) : s.pages[a] \in Node \cup Other /\ s.pages[a].kind = "Free" /\ a # NoPage
    <2>1. \A a \in Frees(s) : a \in DOMAIN s.pages /\ s.pages[a].kind = "Free"
      BY DEF Frees
    <2> QED
      BY <2>1, FileFacts DEF NoPage
  <1>3. Len(q) >= 1 => q[1] \in F
    <2> SUFFICES ASSUME Len(q) >= 1 PROVE q[1] \in F
      OBVIOUS
    <2>1. 1 \in 1 .. Len(q) /\ s.free = q[1]
      BY <1>1 DEF Link
    <2>2. q[1] # NoPage
      BY <1>1, <1>2, <2>1
    <2>3. Leads(s, r, F, NoPage, 1, q[1])
      BY <2>1 DEF Leads
    <2> QED
      BY <2>2, <2>3 DEF Closed
  <1>4. ASSUME NEW j \in 1 .. Len(q), j + 1 \in 1 .. Len(q), q[j] \in F PROVE q[j + 1] \in F
    <2>1. PICK a : a = q[j]
      OBVIOUS
    <2>2. PICK t : t = q[j + 1]
      OBVIOUS
    <2>3. t # NoPage /\ a \in Frees(s) /\ s.pages[a].extra = t
      BY <1>1, <1>2, <1>4, <2>1, <2>2 DEF Link
    <2>4. PICK page : page = s.pages[a]
      OBVIOUS
    <2>5. page \in Node \cup Other /\ page.kind \notin {"Leaf", "Internal"}
      BY <1>2, <2>3, <2>4
    <2>6. DOMAIN Held(page) = {0} /\ Held(page)[0] = page.extra
      BY <2>5, HeldIs
    <2>7. Leads(s, r, F, a, 0, t)
      <3>1. 0 \in DOMAIN Held(s.pages[a]) /\ t = Held(s.pages[a])[0] /\ a \in F
        BY <1>4, <2>1, <2>3, <2>4, <2>6
      <3> QED
        BY <3>1 DEF Leads
    <2> QED
      BY <2>2, <2>3, <2>7 DEF Closed
  <1>5. \A j \in 1 .. Len(q) : q[j] \in F
    BY <1>1, <1>3, <1>4, AlongClosed
  <1> QED
    BY <1>5 DEF FileOK, FreeList

\* The child of a page in use is in use.
LEMMA ChildIn ==
  ASSUME NEW s, NEW r, NEW g, NEW T, T = Tree(s), TreeOK(T, r, g, NoPage, NoPage), NEW F, Closed(s, r, F),
         NEW p \in DOMAIN T, p \in F, T[p].kind = "Internal", NEW i \in 0 .. Len(T[p].items)
  PROVE  Child(T[p], i) \in F
  <1>1. p \in Nodes(s) /\ T[p] = s.pages[p]
    BY Parts
  <1>2. PICK page : page = T[p]
    OBVIOUS
  <1>3. page \in Node \cup Other
    BY <1>2, TreeFacts, NodeFacts
  <1>4. PICK t : t = Child(page, i)
    OBVIOUS
  <1>5. t # NoPage
    BY <1>2, <1>4, ChildFacts
  <1>6. i \in DOMAIN Held(page) /\ t = Held(page)[i]
    BY <1>2, <1>3, <1>4, HeldIs
  <1>7. Leads(s, r, F, p, i, t)
    BY <1>1, <1>2, <1>6 DEF Leads
  <1> QED
    BY <1>2, <1>4, <1>5, <1>7 DEF Closed

\* The nodes are in use.
LEMMA NodesIn ==
  ASSUME NEW s, NEW r, NEW g, NEW T, T = Tree(s), TreeOK(T, r, g, NoPage, NoPage), NEW F, Closed(s, r, F)
  PROVE  DOMAIN T \subseteq F
  <1> DEFINE S == {n \in Nat : \A a \in DOMAIN T : g.lvl[a] + n = g.lvl[r] => a \in F}
  <1>1. r \in DOMAIN T /\ \A a \in DOMAIN T : a \in Nat \ {0} /\ NodeOK(T, g, a) /\ g.lvl[a] <= g.lvl[r]
    BY TreeFacts
  <1>2. \A a \in DOMAIN T : g.lvl[a] \in Nat
    BY <1>1, NodeFacts
  <1>3. r \in F
    <2>1. r # NoPage
      BY <1>1 DEF NoPage
    <2>2. Leads(s, r, F, NoPage, 0, r)
      BY DEF Leads
    <2> QED
      BY <2>1, <2>2 DEF Closed
  <1>4. ASSUME NEW a \in DOMAIN T, a # r PROVE \E p \in DOMAIN T : g.lvl[a] + 1 = g.lvl[p] /\ (p \in F => a \in F)
    <2>1. PICK p \in DOMAIN T : T[p].kind = "Internal" /\ ChildOf(T[p], a)
      BY <1>4, HasParent DEF Parented
    <2>2. PICK i \in 0 .. Len(T[p].items) : Child(T[p], i) = a
      BY <2>1 DEF ChildOf
    <2>3. g.lvl[a] + 1 = g.lvl[p]
      BY <2>1, <2>2, ChildFacts
    <2>4. ASSUME p \in F PROVE a \in F
      BY <2>1, <2>2, <2>4, ChildIn
    <2> QED
      BY <2>3, <2>4
  <1>5. 0 \in S
    <2> SUFFICES ASSUME NEW a \in DOMAIN T, g.lvl[a] + 0 = g.lvl[r] PROVE a \in F
      OBVIOUS
    <2>1. PICK x \in Nat : x = g.lvl[a]
      BY <1>2
    <2>2. g.lvl[a] = g.lvl[r]
      BY <2>1
    <2>3. a = r
      BY <1>1, <2>2, TreeFacts DEF NoPage
    <2> QED
      BY <1>3, <2>3
  <1>6. ASSUME NEW n \in Nat, n \in S PROVE n + 1 \in S
    <2> SUFFICES ASSUME NEW a \in DOMAIN T, g.lvl[a] + (n + 1) = g.lvl[r] PROVE a \in F
      OBVIOUS
    <2>1. CASE a = r
      BY <1>3, <2>1
    <2>2. CASE a # r
      <3>1. PICK p \in DOMAIN T : g.lvl[a] + 1 = g.lvl[p] /\ (p \in F => a \in F)
        BY <1>4, <2>2
      <3>2. PICK x \in Nat : x = g.lvl[a]
        BY <1>2
      <3>3. PICK y \in Nat : y = g.lvl[p]
        BY <1>2
      <3>4. x + (n + 1) = g.lvl[r] /\ x + 1 = y
        BY <3>1, <3>2, <3>3
      <3>5. y + n = x + (n + 1)
        BY <3>4
      <3>6. g.lvl[p] + n = g.lvl[r]
        BY <3>3, <3>4, <3>5
      <3> QED
        BY <1>6, <3>1, <3>6
    <2> QED
      BY <2>1, <2>2
  <1>7. \A n \in Nat : n \in S
    <2> HIDE DEF S
    <2> QED
      BY <1>5, <1>6, SetInduction
  <1> SUFFICES ASSUME NEW a \in DOMAIN T PROVE a \in F
    OBVIOUS
  <1>8. PICK n \in Nat : g.lvl[a] + n = g.lvl[r]
    <2>1. PICK x \in Nat : x = g.lvl[a]
      BY <1>2
    <2>2. PICK y \in Nat : y = g.lvl[r]
      BY <1>1, <1>2
    <2>3. x <= y
      BY <1>1, <2>1, <2>2
    <2>4. y - x \in Nat /\ x + (y - x) = y
      BY <2>3
    <2> QED
      BY <2>1, <2>2, <2>4
  <1>9. n \in S
    BY <1>7
  <1> QED
    BY <1>8, <1>9

\* The chain of an entry of a page in use is in use.
LEMMA ChainIn ==
  ASSUME NEW s, NEW r, NEW D, NEW L, NEW g, NEW q, NEW ch, TreeInv(s, r, D, L, g, q, ch), Payload(D), r # NoPage,
         NEW F, Closed(s, r, F), Nodes(s) \subseteq F, NEW x \in DOMAIN D, NEW c, c = ch[x]
  PROVE  \A j \in 1 .. Len(c) : c[j] \in F
  <1>1. FileOK(s, q) /\ ChainsOK(Over(s), ch, D, L) /\ ContentsOK(Tree(s), D, ch) /\ TreeOK(Tree(s), r, g, NoPage, NoPage)
    BY DEF TreeInv
  <1>2. PICK v \in Seq(Nat) : v = D[x]
    BY DEF Payload
  <1>3. ChainOK(Over(s), c, v)
    BY <1>1, <1>2 DEF ChainsOK
  <1>4. c \in Seq(Nat) /\ \A j \in 1 .. Len(c) : c[j] \in DOMAIN Over(s) /\ Over(s)[c[j]].extra = Link(c, j + 1)
    BY <1>3 DEF ChainOK
  <1>5. \A j \in 1 .. Len(c) : c[j] \in Overflowing(s) /\ s.pages[c[j]].extra = Link(c, j + 1)
    BY <1>4, Parts, ZenonT(30)
  <1>6. \A a \in Overflowing(s) : s.pages[a] \in Node \cup Other /\ s.pages[a].kind = "Overflow" /\ a # NoPage
    <2>1. \A a \in Overflowing(s) : a \in DOMAIN s.pages /\ s.pages[a].kind = "Overflow"
      BY DEF Overflowing
    <2> QED
      BY <2>1, FileFacts, <1>1 DEF NoPage
  <1>7. Len(c) >= 1 => c[1] \in F
    <2> SUFFICES ASSUME Len(c) >= 1 PROVE c[1] \in F
      OBVIOUS
    <2>1. PICK a \in DOMAIN Tree(s) : Tree(s)[a].kind = "Leaf" /\ \E i \in 1 .. Len(Tree(s)[a].items) : Tree(s)[a].items[i].key = x
      BY <1>1 DEF ContentsOK
    <2>2. PICK page : page = Tree(s)[a]
      OBVIOUS
    <2>3. PICK i \in 1 .. Len(page.items) : page.items[i].key = x
      BY <2>1, <2>2
    <2>4. page.items[i] = Entry(x, D[x], Link(ch[x], 1))
      BY <1>1, <2>1, <2>2, <2>3 DEF ContentsOK
    <2>5. PICK item : item = page.items[i]
      OBVIOUS
    <2>6. Link(ch[x], 1) = c[1]
      BY DEF Link
    <2>7. item = Entry(x, v, c[1])
      BY <1>2, <2>4, <2>5, <2>6
    <2>8. Len(v) > MaxInline
      BY <1>3, ChainLength
    <2>9. item.data[1] = "Overflow" /\ item.data[3] = c[1]
      BY <2>7, <2>8, EntryData
    <2>10. page \in Node /\ page.items \in Seq(Item) /\ page = s.pages[a] /\ a \in Nodes(s) /\ page.kind = "Leaf"
      <3>1. NodeOK(Tree(s), g, a)
        BY <1>1, TreeFacts
      <3>2. Tree(s)[a] \in Node /\ Tree(s)[a].items \in Seq(Item)
        BY <3>1, NodeFacts
      <3>3. a \in Nodes(s)
        BY Parts
      <3>4. Tree(s)[a] = s.pages[a]
        BY <3>3, Parts
      <3> QED
        BY <2>1, <2>2, <3>2, <3>3, <3>4
    <2>11. i \in DOMAIN page.items
      BY <2>10
    <2>12. page \in Node \cup Other
      BY <2>10
    <2>13. DOMAIN Held(page) = {k \in DOMAIN page.items : page.items[k].data[1] = "Overflow"}
      BY <2>10, <2>12, HeldIs, ZenonT(30)
    <2>14. \A k \in DOMAIN Held(page) : Held(page)[k] = page.items[k].data[3]
      BY <2>10, <2>12, HeldIs
    <2>15. i \in DOMAIN Held(page)
      BY <2>5, <2>9, <2>11, <2>13
    <2>16. Held(page)[i] = c[1]
      BY <2>5, <2>9, <2>14, <2>15
    <2>17. Leads(s, r, F, a, i, c[1])
      BY <2>10, <2>15, <2>16 DEF Leads
    <2>18. 1 \in 1 .. Len(c)
      BY <1>4
    <2>19. c[1] # NoPage
      BY <1>5, <1>6, <2>18
    <2> QED
      BY <2>17, <2>19 DEF Closed
  <1>8. ASSUME NEW j \in 1 .. Len(c), j + 1 \in 1 .. Len(c), c[j] \in F PROVE c[j + 1] \in F
    <2>1. PICK a : a = c[j]
      OBVIOUS
    <2>2. PICK t : t = c[j + 1]
      OBVIOUS
    <2>3. t # NoPage /\ a \in Overflowing(s) /\ s.pages[a].extra = t
      <3>1. Link(c, j + 1) = t
        BY <1>4, <1>8, <2>2 DEF Link
      <3>2. a \in Overflowing(s) /\ s.pages[a].extra = t
        BY <1>5, <2>1, <3>1
      <3>3. t \in Overflowing(s)
        BY <1>5, <1>8, <2>2
      <3> QED
        BY <1>6, <3>2, <3>3
    <2>4. PICK page : page = s.pages[a]
      OBVIOUS
    <2>5. page \in Node \cup Other /\ page.kind \notin {"Leaf", "Internal"}
      BY <1>6, <2>3, <2>4
    <2>6. DOMAIN Held(page) = {0} /\ Held(page)[0] = page.extra
      BY <2>5, HeldIs
    <2>7. Leads(s, r, F, a, 0, t)
      <3>1. 0 \in DOMAIN Held(s.pages[a]) /\ t = Held(s.pages[a])[0] /\ a \in F
        BY <1>8, <2>1, <2>3, <2>4, <2>6
      <3> QED
        BY <3>1 DEF Leads
    <2> QED
      BY <2>2, <2>3, <2>7 DEF Closed
  <1> QED
    BY <1>4, <1>7, <1>8, AlongClosed

\* The pages in use and not lost.
Usable(s, L) == DOMAIN s.pages \ L

\* A closed set has every usable page.
LEMMA ClosedHasAll ==
  ASSUME NEW s, NEW r, NEW D, NEW L, NEW g, NEW q, NEW ch, TreeInv(s, r, D, L, g, q, ch), Payload(D), NEW F, Closed(s, r, F)
  PROVE  Usable(s, L) \subseteq F
  <1>1. FileOK(s, q) /\ ChainsOK(Over(s), ch, D, L)
    BY DEF TreeInv
  <1>2. Nodes(s) \subseteq F
    <2>1. CASE r = NoPage
      BY <2>1 DEF TreeInv
    <2>2. CASE r # NoPage
      <3>1. TreeOK(Tree(s), r, g, NoPage, NoPage)
        BY <2>2 DEF TreeInv
      <3>2. DOMAIN Tree(s) \subseteq F
        BY <3>1, NodesIn
      <3>3. DOMAIN Tree(s) = Nodes(s)
        BY Parts
      <3> QED
        BY <3>2, <3>3
    <2> QED
      BY <2>1, <2>2
  <1>3. Frees(s) \subseteq F
    BY <1>1, FreesIn
  <1>4. ASSUME NEW a \in Overflowing(s), a \notin L PROVE a \in F
    <2>1. DOMAIN Over(s) = Overflowing(s)
      BY Parts
    <2>2. PICK x \in DOMAIN D : \E i \in 1 .. Len(ch[x]) : ch[x][i] = a
      BY <1>1, <1>4, <2>1 DEF ChainsOK
    <2>3. PICK c : c = ch[x]
      OBVIOUS
    <2>4. r # NoPage
      BY <2>2 DEF TreeInv
    <2>5. \A j \in 1 .. Len(c) : c[j] \in F
      BY <1>2, <2>3, <2>4, ChainIn
    <2> QED
      BY <2>2, <2>3, <2>5
  <1>5. ASSUME NEW a \in DOMAIN s.pages PROVE a \in Nodes(s) \/ a \in Overflowing(s) \/ a \in Frees(s)
    <2>1. s.pages[a] \in Node \cup Other
      BY <1>1, FileFacts
    <2> QED
      BY <2>1 DEF Nodes, Overflowing, Frees, Node, Other
  <1> QED
    BY <1>2, <1>3, <1>4, <1>5 DEF Usable

\* A round stays within the usable pages.
LEMMA StaysUsable ==
  ASSUME NEW s, NEW r, NEW D, NEW L, NEW g, NEW q, NEW ch, TreeInv(s, r, D, L, g, q, ch), Payload(D), NEW ids, ids \subseteq Usable(s, L)
  PROVE  ReachStep(s, r, ids) \subseteq Usable(s, L)
  <1> SUFFICES ASSUME NEW t, t \in ReachStep(s, r, ids), t \notin ids PROVE t \in Usable(s, L)
    OBVIOUS
  <1>1. PICK a, i : t # NoPage /\ Leads(s, r, ids, a, i, t)
    BY ReachIs
  <1>2. ids \subseteq DOMAIN s.pages \ L
    BY DEF Usable
  <1>3. PICK T : T = Tree(s)
    OBVIOUS
  <1>4. SomeLink(T, r, D, ch, q, a, i, t)
    BY <1>1, <1>2, <1>3, LeadsSome
  <1>5. t \in Nodes(s) \/ t \in Overflowing(s) \ L \/ t \in Frees(s)
    BY <1>3, <1>4, LinkTarget DEF SomeLink
  <1>6. L \subseteq Overflowing(s)
    <2>1. ChainsOK(Over(s), ch, D, L)
      BY DEF TreeInv
    <2>2. DOMAIN Over(s) = Overflowing(s)
      BY Parts
    <2> QED
      BY <2>1, <2>2 DEF ChainsOK
  <1>7. Nodes(s) \cap Overflowing(s) = {} /\ Overflowing(s) \cap Frees(s) = {} /\ Nodes(s) \subseteq DOMAIN s.pages /\ Overflowing(s) \subseteq DOMAIN s.pages
    BY Parts
  <1>8. Frees(s) \subseteq DOMAIN s.pages
    BY DEF Frees
  <1> QED
    BY <1>5, <1>6, <1>7, <1>8 DEF Usable

\* The sets of pages reached after 0, 1 .. N rounds.
Rounds(s, r, N, f) ==
  f[0] = {} /\ (\A k \in 0 .. N : f[k] \subseteq 1 .. N) /\ \A k \in 0 .. N - 1 : f[k + 1] = ReachStep(s, r, f[k])

\* Sets that grow in every round until a round adds nothing: after as many
\* rounds as there are elements to add, a round adds nothing.
LEMMA RoundsEnd ==
  ASSUME NEW s, NEW r, NEW N \in Nat, NEW f, Rounds(s, r, N, f), NEW G, G = ReachStep(s, r, f[N]), G \subseteq 1 .. N
  PROVE  G = f[N]
  <1>0. f[0] = {} /\ (\A k \in 0 .. N : f[k] \subseteq 1 .. N) /\ \A k \in 0 .. N - 1 : f[k + 1] = ReachStep(s, r, f[k])
    BY DEF Rounds
  <1> DEFINE S == {n \in Nat : n <= N => ReachStep(s, r, f[n]) = f[n] \/ Cardinality(f[n]) >= n}
  <1>1. IsFiniteSet(1 .. N) /\ Cardinality(1 .. N) = N
    BY FS_Interval
  <1>2. ASSUME NEW k \in 0 .. N PROVE IsFiniteSet(f[k]) /\ Cardinality(f[k]) \in Nat
    <2>1. f[k] \in SUBSET (1 .. N)
      BY <1>0
    <2>2. IsFiniteSet(f[k])
      BY <1>1, <2>1, FS_Subset
    <2> QED
      BY <2>2, FS_CardinalityType
  <1>3. 0 \in S
    <2>1. 0 \in 0 .. N /\ (Cardinality(f[0]) \in Nat => Cardinality(f[0]) >= 0)
      OBVIOUS
    <2> QED
      BY <1>2, <2>1
  <1>4. ASSUME NEW n \in Nat, n \in S PROVE n + 1 \in S
    <2> SUFFICES ASSUME n + 1 <= N PROVE ReachStep(s, r, f[n + 1]) = f[n + 1] \/ Cardinality(f[n + 1]) >= n + 1
      OBVIOUS
    <2>1. n \in 0 .. N /\ n + 1 \in 0 .. N /\ n \in 0 .. N - 1 /\ n <= N
      OBVIOUS
    <2>2. f[n + 1] = ReachStep(s, r, f[n])
      BY <1>0, <2>1
    <2>3. CASE ReachStep(s, r, f[n]) = f[n]
      BY <2>2, <2>3
    <2>4. CASE ReachStep(s, r, f[n]) # f[n]
      <3>1. Cardinality(f[n]) >= n
        BY <1>4, <2>1, <2>4
      <3>2. f[n] \subseteq f[n + 1] /\ f[n] # f[n + 1]
        BY <2>2, <2>4 DEF ReachStep
      <3>3. Cardinality(f[n]) < Cardinality(f[n + 1])
        <4>1. IsFiniteSet(f[n + 1])
          BY <1>2, <2>1
        <4>2. PICK A : A = f[n]
          OBVIOUS
        <4>3. PICK B : B = f[n + 1]
          OBVIOUS
        <4>4. IsFiniteSet(B) /\ A \in SUBSET B /\ A # B /\ Cardinality(A) \in Nat /\ Cardinality(B) \in Nat
          BY <1>2, <2>1, <3>2, <4>1, <4>2, <4>3
        <4>5. Cardinality(A) <= Cardinality(B) /\ (Cardinality(B) = Cardinality(A) => B = A)
          BY <4>4, FS_Subset
        <4> QED
          BY <4>2, <4>3, <4>4, <4>5
      <3> QED
        BY <1>2, <2>1, <3>1, <3>3
    <2> QED
      BY <2>3, <2>4
  <1>5. N \in S
    <2> HIDE DEF S
    <2> QED
      BY <1>3, <1>4, SetInduction
  <1>6. CASE Cardinality(f[N]) >= N
    <2>1. f[N] \subseteq 1 .. N /\ Cardinality(f[N]) \in Nat
      BY <1>0, <1>2
    <2>2. f[N] = 1 .. N
      BY <1>1, <1>6, <2>1, FS_Subset
    <2>3. f[N] \subseteq ReachStep(s, r, f[N])
      BY DEF ReachStep
    <2> QED
      BY <2>2, <2>3
  <1> QED
    BY <1>5, <1>6

\* One link leads to a node.
LEMMA NodeLinkOne ==
  ASSUME NEW T, NEW r, NEW g, TreeOK(T, r, g, NoPage, NoPage), NEW a, NEW i, NEW b, NEW j, NEW t,
         NodeLink(T, r, a, i, t), NodeLink(T, r, b, j, t)
  PROVE  a = b /\ i = j
  <1>1. \A p, k : NodeLink(T, r, p, k, t) /\ ~(p = NoPage /\ k = 0 /\ t = r) =>
          p \in DOMAIN T /\ T[p].kind = "Internal" /\ k \in 0 .. Len(T[p].items) /\ t = Child(T[p], k)
    BY DEF NodeLink
  <1>2. ASSUME NEW p \in DOMAIN T, T[p].kind = "Internal", NEW k \in 0 .. Len(T[p].items), r = Child(T[p], k) PROVE FALSE
    <2>1. g.lvl[r] + 1 = g.lvl[p]
      BY <1>2, ChildFacts
    <2>2. g.lvl[p] <= g.lvl[r] /\ r \in DOMAIN T
      BY TreeFacts
    <2>3. g.lvl[r] \in Nat
      BY <2>2, TreeFacts, NodeFacts
    <2>4. g.lvl[p] \in Nat
      BY TreeFacts, NodeFacts
    <2> QED
      BY <2>1, <2>2, <2>3, <2>4
  <1>3. CASE a = NoPage /\ i = 0 /\ t = r
    BY <1>1, <1>2, <1>3
  <1>4. CASE b = NoPage /\ j = 0 /\ t = r
    BY <1>1, <1>2, <1>4
  <1>5. CASE ~(a = NoPage /\ i = 0 /\ t = r) /\ ~(b = NoPage /\ j = 0 /\ t = r)
    <2>1. a \in DOMAIN T /\ T[a].kind = "Internal" /\ i \in 0 .. Len(T[a].items) /\ t = Child(T[a], i)
      BY <1>1, <1>5
    <2>2. b \in DOMAIN T /\ T[b].kind = "Internal" /\ j \in 0 .. Len(T[b].items) /\ t = Child(T[b], j)
      BY <1>1, <1>5
    <2>3. Child(T[a], i) = Child(T[b], j)
      BY <2>1, <2>2
    <2> QED
      BY <2>1, <2>2, <2>3, OneParent
  <1> QED
    BY <1>3, <1>4, <1>5

\* One link of a sequence leads to a page of it, and none to the first.
LEMMA AlongOne ==
  ASSUME NEW c \in Seq(Nat), Distinct(c), NEW a, NEW i, NEW t, Along(c, a, i, t)
  PROVE  t # c[1] /\ \A b, j : Along(c, b, j, t) => a = b /\ i = j
  <1>1. PICK m \in 1 .. Len(c) : i = 0 /\ m + 1 \in 1 .. Len(c) /\ a = c[m] /\ t = c[m + 1]
    BY AlongIs
  <1>2. 1 \in 1 .. Len(c) /\ m + 1 # 1
    BY <1>1
  <1>3. t # c[1]
    BY <1>1, <1>2 DEF Distinct
  <1>4. ASSUME NEW b, NEW j, Along(c, b, j, t) PROVE a = b /\ i = j
    <2>1. PICK n \in 1 .. Len(c) : j = 0 /\ n + 1 \in 1 .. Len(c) /\ b = c[n] /\ t = c[n + 1]
      BY <1>4, AlongIs
    <2>2. m + 1 = n + 1
      BY <1>1, <2>1 DEF Distinct
    <2>3. m = n
      BY <2>2
    <2> QED
      BY <1>1, <2>1, <2>3
  <1> QED
    BY <1>3, <1>4

\* Slot i of leaf a has the entry of x.
HasEntry(T, x, a, i) == a \in DOMAIN T /\ T[a].kind = "Leaf" /\ i \in 1 .. Len(T[a].items) /\ T[a].items[i].key = x

\* A key has one slot.
LEMMA KeySlotOne ==
  ASSUME NEW T, NEW r, NEW g, TreeOK(T, r, g, NoPage, NoPage), NEW x,
         NEW a, NEW i, HasEntry(T, x, a, i), NEW b, NEW j, HasEntry(T, x, b, j)
  PROVE  a = b /\ i = j
  <1>0. /\ a \in DOMAIN T /\ T[a].kind = "Leaf" /\ i \in 1 .. Len(T[a].items) /\ T[a].items[i].key = x
        /\ b \in DOMAIN T /\ T[b].kind = "Leaf" /\ j \in 1 .. Len(T[b].items) /\ T[b].items[j].key = x
    BY DEF HasEntry
  <1>1. NodeOK(T, g, a) /\ NodeOK(T, g, b)
    BY <1>0, TreeFacts
  <1>2. g.lvl[a] = 0 /\ g.lvl[b] = 0
    BY <1>0, <1>1, NodeFacts
  <1>3. x \in Nat /\ g.lo[a] <= x /\ Before(x, g.hi[a])
    BY <1>0, <1>1, NodeFacts
  <1>4. g.lo[b] <= x /\ Before(x, g.hi[b])
    BY <1>0, <1>1, NodeFacts
  <1>5. Covers(g, a, x) /\ Covers(g, b, x)
    BY <1>3, <1>4 DEF Covers
  <1>6. g.lvl[a] = g.lvl[b]
    BY <1>2
  <1>7. a = b
    BY <1>0, <1>3, <1>5, <1>6, OneAtLevel
  <1>8. PICK items : items = T[a].items
    OBVIOUS
  <1>9. Sorted(items) /\ items \in Seq(Item) /\ \A k \in 1 .. Len(items) : items[k].key \in Nat
    BY <1>1, <1>8, NodeFacts
  <1>10. i \in 1 .. Len(items) /\ j \in 1 .. Len(items) /\ items[i].key = x /\ items[j].key = x
    BY <1>0, <1>7, <1>8
  <1>11. i = j
    <2>1. i \in Nat /\ j \in Nat /\ Len(items) \in Nat
      BY <1>9, <1>10
    <2>2. ~(i < j) /\ ~(j < i)
      BY <1>3, <1>9, <1>10 DEF Sorted
    <2> QED
      BY <2>1, <2>2
  <1> QED
    BY <1>7, <1>11

\* One link leads to a page of a chain.
LEMMA ChainLinkOne ==
  ASSUME NEW O, NEW T, NEW r, NEW g, TreeOK(T, r, g, NoPage, NoPage), NEW D, NEW ch, NEW L, ChainsOK(O, ch, D, L),
         NEW x \in DOMAIN D, NEW a, NEW i, NEW b, NEW j, NEW t, ChainLink(T, ch, x, a, i, t), ChainLink(T, ch, x, b, j, t)
  PROVE  a = b /\ i = j
  <1>1. PICK c : c = ch[x]
    OBVIOUS
  <1>2. c \in Seq(Nat) /\ Distinct(c)
    BY <1>1 DEF ChainsOK, ChainOK
  <1>3. \A p, k : ChainLink(T, ch, x, p, k, t) =>
          (t = c[1] /\ HasEntry(T, x, p, k)) \/ Along(c, p, k, t)
    BY <1>1 DEF ChainLink, HasEntry
  <1>4. CASE Along(c, a, i, t)
    <2>1. t # c[1] /\ \A p, k : Along(c, p, k, t) => a = p /\ i = k
      BY <1>2, <1>4, AlongOne
    <2> QED
      BY <1>3, <2>1
  <1>5. CASE Along(c, b, j, t)
    <2>1. t # c[1] /\ \A p, k : Along(c, p, k, t) => b = p /\ j = k
      BY <1>2, <1>5, AlongOne
    <2> QED
      BY <1>3, <2>1
  <1>6. CASE ~Along(c, a, i, t) /\ ~Along(c, b, j, t)
    <2>1. HasEntry(T, x, a, i) /\ HasEntry(T, x, b, j)
      BY <1>3, <1>6
    <2> QED
      BY <2>1, KeySlotOne
  <1> QED
    BY <1>4, <1>5, <1>6

\* One link leads to a free page.
LEMMA FreeLinkOne ==
  ASSUME NEW q \in Seq(Nat), Distinct(q), NEW a, NEW i, NEW b, NEW j, NEW t, FreeLink(q, a, i, t), FreeLink(q, b, j, t)
  PROVE  a = b /\ i = j
  <1>1. \A p, k : FreeLink(q, p, k, t) => (p = NoPage /\ k = 1 /\ t = q[1]) \/ Along(q, p, k, t)
    BY DEF FreeLink
  <1>2. CASE Along(q, a, i, t)
    <2>1. t # q[1] /\ \A p, k : Along(q, p, k, t) => a = p /\ i = k
      BY <1>2, AlongOne
    <2> QED
      BY <1>1, <2>1
  <1>3. CASE Along(q, b, j, t)
    <2>1. t # q[1] /\ \A p, k : Along(q, p, k, t) => b = p /\ j = k
      BY <1>3, AlongOne
    <2> QED
      BY <1>1, <2>1
  <1> QED
    BY <1>1, <1>2, <1>3

\* One link leads to a page.
LEMMA LinkOne ==
  ASSUME NEW s, NEW r, NEW D, NEW L, NEW g, NEW q, NEW ch, TreeInv(s, r, D, L, g, q, ch), NEW T, T = Tree(s),
         NEW a, NEW i, NEW b, NEW j, NEW t, SomeLink(T, r, D, ch, q, a, i, t), SomeLink(T, r, D, ch, q, b, j, t)
  PROVE  a = b /\ i = j
  <1>1. FileOK(s, q) /\ ChainsOK(Over(s), ch, D, L)
    BY DEF TreeInv
  <1>2. Nodes(s) \cap Overflowing(s) = {} /\ Nodes(s) \cap Frees(s) = {} /\ Overflowing(s) \cap Frees(s) = {}
    BY Parts
  <1>3. \A p, k : /\ NodeLink(T, r, p, k, t) => t \in Nodes(s)
                  /\ \A x \in DOMAIN D : ChainLink(T, ch, x, p, k, t) => t \in Overflowing(s)
                  /\ FreeLink(q, p, k, t) => t \in Frees(s)
    BY LinkTarget
  <1>4. CASE t \in Nodes(s)
    <2>1. NodeLink(T, r, a, i, t) /\ NodeLink(T, r, b, j, t)
      BY <1>2, <1>3, <1>4 DEF SomeLink
    <2>2. TreeOK(T, r, g, NoPage, NoPage)
      BY <1>4 DEF TreeInv
    <2> QED
      BY <2>1, <2>2, NodeLinkOne
  <1>5. CASE t \in Overflowing(s)
    <2>1. PICK x \in DOMAIN D : ChainLink(T, ch, x, a, i, t)
      BY <1>2, <1>3, <1>5 DEF SomeLink
    <2>2. PICK y \in DOMAIN D : ChainLink(T, ch, y, b, j, t)
      BY <1>2, <1>3, <1>5 DEF SomeLink
    <2>3. TreeOK(T, r, g, NoPage, NoPage)
      BY <2>1 DEF TreeInv
    <2>3a. \A p, k : \A z \in DOMAIN D : ChainLink(T, ch, z, p, k, t) => t \in Overflowing(s) \ L /\ \E m \in 1 .. Len(ch[z]) : ch[z][m] = t
      BY LinkTarget, ZenonT(30)
    <2>4. \E m \in 1 .. Len(ch[x]) : ch[x][m] = t
      BY <2>1, <2>3a, Zenon
    <2>5. \E m \in 1 .. Len(ch[y]) : ch[y][m] = t
      BY <2>2, <2>3a, Zenon
    <2>6. x = y
      BY <1>1, <2>4, <2>5 DEF ChainsOK
    <2>7. ChainLink(T, ch, x, b, j, t)
      BY <2>2, <2>6
    <2> QED
      BY <1>1, <2>1, <2>3, <2>7, ChainLinkOne
  <1>6. CASE t \in Frees(s)
    <2>1. FreeLink(q, a, i, t) /\ FreeLink(q, b, j, t)
      BY <1>2, <1>3, <1>6 DEF SomeLink
    <2>2. q \in Seq(Nat) /\ Distinct(q)
      BY <1>1 DEF FileOK, FreeList
    <2> QED
      BY <2>1, <2>2, FreeLinkOne
  <1> QED
    BY <1>3, <1>4, <1>5, <1>6 DEF SomeLink

\* Every page is accounted for: the pages in use are those reached from the
\* root and the free list, each by one link, and only the chains a failed
\* insertion left behind are lost, after any sequence of operations
\* (PagesAccounted: alloc_page, free_page, release_item, destroy).
THEOREM BTreePages == Spec => []PagesAccounted
  <1>1. BTreeInv => PagesAccounted
    <2> SUFFICES ASSUME BTreeInv PROVE PagesAccounted
      OBVIOUS
    <2>1. PICK g, q, ch : TreeInv(store, root, dict, lost, g, q, ch)
      BY DEF BTreeInv
    <2>2. Payload(dict)
      BY Payloads_are DEF BTreeInv
    <2>3. FileOK(store, q)
      BY <2>1 DEF TreeInv
    <2>4. PICK N \in Nat : N = Len(store.pages)
      BY <2>3, FileFacts
    <2>5. DOMAIN store.pages = 1 .. N
      BY <2>3, <2>4, FileFacts
    <2>6. PICK f : /\ f[0] = {}
                   /\ \A k \in 0 .. N - 1 : f[k + 1] = ReachStep(store, root, f[k])
                   /\ PagesAccounted <=> AllUsed(f[N])
      BY <2>4, UsedIs
    <2> DEFINE S == {n \in Nat : n <= N => f[n] \subseteq Usable(store, lost)}
    <2>7. 0 \in S
      BY <2>6
    <2>8. ASSUME NEW n \in Nat, n \in S PROVE n + 1 \in S
      <3> SUFFICES ASSUME n + 1 <= N PROVE f[n + 1] \subseteq Usable(store, lost)
        OBVIOUS
      <3>1. n \in 0 .. N - 1 /\ n <= N
        OBVIOUS
      <3>2. f[n] \subseteq Usable(store, lost)
        BY <2>8, <3>1
      <3>3. ReachStep(store, root, f[n]) \subseteq Usable(store, lost)
        BY <2>1, <2>2, <3>2, StaysUsable
      <3> QED
        BY <2>6, <3>1, <3>3
    <2>9. \A n \in Nat : n \in S
      <3> HIDE DEF S
      <3> QED
        BY <2>7, <2>8, SetInduction
    <2>10. Usable(store, lost) \subseteq 1 .. N
      BY <2>5 DEF Usable
    <2>11. \A k \in 0 .. N : f[k] \subseteq Usable(store, lost)
      BY <2>9
    <2>12. PICK F : F = f[N]
      OBVIOUS
    <2>13. F \subseteq Usable(store, lost)
      BY <2>11, <2>12
    <2>14. ReachStep(store, root, F) \subseteq Usable(store, lost)
      BY <2>1, <2>2, <2>13, StaysUsable
    <2>15. ReachStep(store, root, F) = F
      <3>1. \A k \in 0 .. N : f[k] \subseteq 1 .. N
        BY <2>10, <2>11
      <3>2. ReachStep(store, root, f[N]) \subseteq 1 .. N
        BY <2>10, <2>12, <2>14
      <3>3. ReachStep(store, root, f[N]) = f[N]
        <4>1. Rounds(store, root, N, f)
          BY <2>6, <3>1 DEF Rounds
        <4>2. PICK G : G = ReachStep(store, root, f[N])
          OBVIOUS
        <4>3. G \subseteq 1 .. N
          BY <3>2, <4>2
        <4> QED
          BY <4>1, <4>2, <4>3, RoundsEnd
      <3> QED
        BY <2>12, <3>3
    <2>16. Closed(store, root, F)
      BY <2>15, ClosedIs
    <2>17. F = Usable(store, lost)
      BY <2>1, <2>2, <2>13, <2>16, ClosedHasAll
    <2>18. ASSUME NEW x \in Links(store, root, F), NEW y \in Links(store, root, F), x[3] = y[3], x[3] # NoPage
           PROVE  x = y
      <3>1. PICK a, i, t : x = <<a, i, t>> /\ Leads(store, root, F, a, i, t)
        BY LinksAre
      <3>2. PICK b, j, u : y = <<b, j, u>> /\ Leads(store, root, F, b, j, u)
        BY LinksAre
      <3>3. t = u /\ t # NoPage
        BY <2>18, <3>1, <3>2
      <3>4. PICK T : T = Tree(store)
        OBVIOUS
      <3>5. F \subseteq DOMAIN store.pages \ lost
        BY <2>17 DEF Usable
      <3>6. SomeLink(T, root, dict, ch, q, a, i, t)
        BY <2>1, <2>2, <3>1, <3>3, <3>4, <3>5, LeadsSome
      <3>7. Leads(store, root, F, b, j, t)
        BY <3>2, <3>3
      <3>8. SomeLink(T, root, dict, ch, q, b, j, t)
        BY <2>1, <2>2, <3>3, <3>4, <3>5, <3>7, LeadsSome
      <3>9. a = b /\ i = j
        BY <2>1, <3>4, <3>6, <3>8, LinkOne
      <3> QED
        BY <3>1, <3>2, <3>3, <3>9
    <2>19. AllUsed(F)
      BY <2>17, <2>18 DEF AllUsed, Usable
    <2> QED
      BY <2>6, <2>12, <2>19
  <1> QED
    BY <1>1, BTreeInvariance, PTL
=============================================================================
