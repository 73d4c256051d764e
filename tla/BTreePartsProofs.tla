-------------------------- MODULE BTreePartsProofs --------------------------
(***************************************************************************)
(* Lemmas about BTree, for any keys, payloads and sizes of pages, and the  *)
(* inductive invariant that BTreeProofs shows to hold.                     *)
(*                                                                         *)
(* A file falls into three parts that share no page: the nodes of the tree *)
(* (Tree), the overflow chains (Over) and the free list. The lemmas about  *)
(* one part are about functions from page ids to pages, and those about    *)
(* the allocator say how a change of the file changes the parts.           *)
(***************************************************************************)
EXTENDS BTree, FiniteSetTheorems, WellFoundedInduction, TLAPS
-----------------------------------------------------------------------------
(* Induction *)

\* Induction over the naturals, for a set.
LEMMA SetInduction ==
  ASSUME NEW S, 0 \in S, \A n \in Nat : n \in S => n + 1 \in S
  PROVE  Nat \subseteq S
  <1> SUFFICES ASSUME ~(Nat \subseteq S) PROVE FALSE
    OBVIOUS
  <1>1. PICK R : R = OpToRel(<, Nat) /\ IsWellFoundedOn(R, Nat)
    BY NatLessThanWellFounded
  <1>2. \A x, y \in Nat : <<x, y>> \in R <=> x < y
    BY <1>1 DEF OpToRel
  <1>3. PICK T : T = Nat \ S
    OBVIOUS
  <1>4. PICK m \in T : \A y \in T : ~(<<y, m>> \in R)
    <2>1. T \subseteq Nat /\ T # {}
      BY <1>3
    <2> QED
      BY <1>1, <2>1, WFMin
  <1>5. m \in Nat /\ m \notin S /\ m # 0
    BY <1>3, <1>4
  <1>6. m - 1 \in Nat /\ m - 1 < m
    BY <1>5
  <1>7. m - 1 \in S
    BY <1>2, <1>3, <1>4, <1>5, <1>6
  <1> QED
    BY <1>5, <1>6, <1>7
-----------------------------------------------------------------------------
(* Loops *)

\* One round of each loop of the model; a holds what the loop does not change.
CostStep(a, y, k) == y + ItemCost(a[k])

Chunks(data) == (Len(data) + OverflowChunk - 1) \div OverflowChunk

Chunk(data, i) ==
  SubSeq(data, (i - 1) * OverflowChunk + 1, IF i = Chunks(data) THEN Len(data) ELSE i * OverflowChunk)

WriteStep(data, acc, k) ==
  LET new == AllocPage(acc.s, "Overflow")
      page == [kind |-> "Overflow", extra |-> acc.id, items |-> Chunk(data, Chunks(data) + 1 - k), free |-> PageSpace]
  IN  [id |-> new.id, s |-> Put(new.s, new.id, page)]

ReleaseStep(acc) ==
  IF acc.id = NoPage THEN acc
  ELSE [id |-> acc.s.pages[acc.id].extra, s |-> FreePage(acc.s, acc.id)]

FetchStep(s, acc) ==
  IF acc.id = NoPage \/ s.pages[acc.id].kind # "Overflow" THEN acc
  ELSE [id |-> s.pages[acc.id].extra, out |-> acc.out \o s.pages[acc.id].items]

DescendStep(s, key, path) ==
  IF s.pages[Last(path)].kind # "Internal" THEN path
  ELSE Append(path, ChildFor(s.pages[Last(path)], key))

SeekStep(s, key, id) ==
  IF id = NoPage \/ SlotSearch(s.pages[id], key).at <= Len(s.pages[id].items) THEN id
  ELSE s.pages[id].extra

ClimbStep(path, acc, k) ==
  LET parent == path[Len(path) + 1 - k]
      page == acc.s.pages[parent]
      slot == SlotSearch(page, acc.sep)
      item == ChildItem(acc.sep, acc.right)
  IN  IF acc.outcome # "split" THEN acc
      ELSE IF slot.found THEN [acc EXCEPT !.outcome = "duplicate separator"]
      ELSE IF CanInsert(page, item)
      THEN [acc EXCEPT !.s = Put(@, parent, InsertItem(page, slot.at, item)), !.outcome = "ok"]
      ELSE SplitInternal(acc.s, parent, slot.at, item)

Children(page) == <<page.extra>> \o [i \in DOMAIN page.items |-> page.items[i].data[2]]

ReleasedItems(s, page) == Loop(LAMBDA r, i : ReleaseItem(r, page.items[i]), s, Len(page.items))

DestroyStep(acc) ==
  LET id == Last(acc.stack)
      page == acc.s.pages[id]
  IN  IF acc.stack = <<>> THEN acc
      ELSE IF page.kind = "Internal"
      THEN [s |-> FreePage(acc.s, id), stack |-> Front(acc.stack) \o Children(page)]
      ELSE [s |-> FreePage(ReleasedItems(acc.s, page), id), stack |-> Front(acc.stack)]

Pairs(n) == (0 .. n) \X (0 .. n)

SearchAt(items, key, b, x, y) ==
  LET mid == (x + y) \div 2
      there == items[mid + 1].key
  IN  IF x >= y THEN [found |-> FALSE, at |-> x + 1]
      ELSE IF there < key THEN b[<<mid + 1, y>>]
      ELSE IF there > key THEN b[<<x, mid>>]
      ELSE [found |-> TRUE, at |-> mid + 1]

SearchStep(items, key, b) == [r \in Pairs(Len(items)) |-> SearchAt(items, key, b, r[1], r[2])]

ReachStep(s, from, ids) == ids \cup ({link[3] : link \in Links(s, from, ids)} \ {NoPage})

AllUsed(used) ==
  /\ used = DOMAIN store.pages \ lost
  /\ \A x, y \in Links(store, root, used) : x[3] = y[3] /\ x[3] # NoPage => x = y

StepOf(loop, a, y, k) ==
  CASE loop = "cost" -> CostStep(a, y, k)
    [] loop = "write" -> WriteStep(a, y, k)
    [] loop = "release" -> ReleaseStep(y)
    [] loop = "read" -> FetchStep(a, y)
    [] loop = "descend" -> DescendStep(a[1], a[2], y)
    [] loop = "seek" -> SeekStep(a[1], a[2], y)
    [] loop = "climb" -> ClimbStep(a, y, k)
    [] loop = "items" -> ReleaseItem(y, a.items[k])
    [] loop = "destroy" -> DestroyStep(y)
    [] loop = "reach" -> ReachStep(a[1], a[2], y)
    [] loop = "search" -> SearchStep(a[1], a[2], y)

Follows(f, loop, a, x, n) == f = [k \in 0 .. n |-> IF k = 0 THEN x ELSE StepOf(loop, a, f[k - 1], k)]

\* A loop is well defined.
LEMMA FollowsExists ==
  ASSUME NEW loop, NEW a, NEW x
  PROVE  \A n \in Nat : \E f : Follows(f, loop, a, x, n)
  <1> DEFINE S == {n \in Nat : \E f : Follows(f, loop, a, x, n)}
  <1>1. 0 \in S
    <2>1. PICK f : f = [k \in 0 .. 0 |-> x]
      OBVIOUS
    <2>2. Follows(f, loop, a, x, 0)
      BY <2>1 DEF Follows
    <2> QED
      BY <2>2
  <1>2. ASSUME NEW n \in Nat, n \in S PROVE n + 1 \in S
    <2>1. PICK f : Follows(f, loop, a, x, n)
      BY <1>2
    <2>2. PICK h : h = [k \in 0 .. n + 1 |-> IF k = n + 1 THEN StepOf(loop, a, f[n], n + 1) ELSE f[k]]
      OBVIOUS
    <2>3. /\ DOMAIN f = 0 .. n
          /\ \A k \in 0 .. n : f[k] = IF k = 0 THEN x ELSE StepOf(loop, a, f[k - 1], k)
      BY <2>1 DEF Follows
    <2>4. /\ DOMAIN h = 0 .. n + 1 /\ h[n + 1] = StepOf(loop, a, f[n], n + 1)
          /\ \A k \in 0 .. n : h[k] = f[k]
      BY <2>2
    <2>5. ASSUME NEW k \in 0 .. n + 1
          PROVE  h[k] = IF k = 0 THEN x ELSE StepOf(loop, a, h[k - 1], k)
      <3>1. CASE k = n + 1
        <4>1. k # 0 /\ k - 1 = n /\ n \in 0 .. n
          BY <3>1
        <4>2. h[k - 1] = f[n]
          BY <2>4, <4>1
        <4> QED
          BY <2>4, <3>1, <4>1, <4>2
      <3>2. CASE k # n + 1
        <4>1. k \in 0 .. n /\ (k # 0 => k - 1 \in 0 .. n)
          BY <3>2
        <4> QED
          BY <2>3, <2>4, <4>1
      <3> QED
        BY <3>1, <3>2
    <2>6. h = [k \in 0 .. n + 1 |-> h[k]]
      BY <2>2
    <2>7. Follows(h, loop, a, x, n + 1)
      BY <2>5, <2>6 DEF Follows
    <2> QED
      BY <2>7
  <1>3. Nat \subseteq S
    <2> HIDE DEF S
    <2> QED
      BY <1>1, <1>2, SetInduction
  <1> QED
    BY <1>3

\* The sum of the costs, item by item.
LEMMA CostIs ==
  ASSUME NEW items, Len(items) \in Nat
  PROVE  \E f : /\ f[0] = 0
                /\ \A k \in 0 .. Len(items) - 1 : f[k + 1] = CostStep(items, f[k], k + 1)
                /\ Cost(items) = f[Len(items)]
  <1>1. PICK f : /\ f = CHOOSE g : g = [k \in 0 .. Len(items) |->
                                   IF k = 0 THEN 0 ELSE CostStep(items, g[k - 1], k)]
                 /\ Cost(items) = f[Len(items)]
    BY Zenon DEF Cost, Loop, CostStep
  <1>2. \E g : g = [k \in 0 .. Len(items) |-> IF k = 0 THEN 0 ELSE CostStep(items, g[k - 1], k)]
    <2>1. PICK g : Follows(g, "cost", items, 0, Len(items))
      BY FollowsExists
    <2>2. \A y, k : StepOf("cost", items, y, k) = CostStep(items, y, k)
      BY DEF StepOf
    <2> QED
      BY <2>1, <2>2 DEF Follows
  <1>3. f = [k \in 0 .. Len(items) |-> IF k = 0 THEN 0 ELSE CostStep(items, f[k - 1], k)]
    BY <1>1, <1>2, Zenon
  <1>4. f[0] = 0
    BY <1>3
  <1>5. ASSUME NEW k \in 0 .. Len(items) - 1 PROVE f[k + 1] = CostStep(items, f[k], k + 1)
    <2>1. k + 1 \in 0 .. Len(items) /\ k + 1 # 0 /\ (k + 1) - 1 = k
      BY <1>5
    <2> QED
      BY <1>3, <2>1
  <1> QED
    BY <1>1, <1>4, <1>5

\* The chunks are written from the last to the first.
LEMMA WriteOverflowIs ==
  ASSUME NEW s, NEW data, Chunks(data) \in Nat
  PROVE  \E f : /\ f[0] = [id |-> NoPage, s |-> s]
                /\ \A k \in 0 .. Chunks(data) - 1 : f[k + 1] = WriteStep(data, f[k], k + 1)
                /\ WriteOverflow(s, data) = f[Chunks(data)]
  <1>1. PICK f : /\ f = CHOOSE g : g = [k \in 0 .. Chunks(data) |->
                                   IF k = 0 THEN [id |-> NoPage, s |-> s] ELSE WriteStep(data, g[k - 1], k)]
                 /\ WriteOverflow(s, data) = f[Chunks(data)]
    BY Zenon DEF WriteOverflow, Loop, WriteStep, Chunks, Chunk
  <1>2. \E g : g = [k \in 0 .. Chunks(data) |-> IF k = 0 THEN [id |-> NoPage, s |-> s] ELSE WriteStep(data, g[k - 1], k)]
    <2>1. PICK g : Follows(g, "write", data, [id |-> NoPage, s |-> s], Chunks(data))
      BY FollowsExists
    <2>2. \A y, k : StepOf("write", data, y, k) = WriteStep(data, y, k)
      BY DEF StepOf
    <2> QED
      BY <2>1, <2>2 DEF Follows
  <1>3. f = [k \in 0 .. Chunks(data) |-> IF k = 0 THEN [id |-> NoPage, s |-> s] ELSE WriteStep(data, f[k - 1], k)]
    BY <1>1, <1>2, Zenon
  <1>4. f[0] = [id |-> NoPage, s |-> s]
    BY <1>3
  <1>5. ASSUME NEW k \in 0 .. Chunks(data) - 1 PROVE f[k + 1] = WriteStep(data, f[k], k + 1)
    <2>1. k + 1 \in 0 .. Chunks(data) /\ k + 1 # 0 /\ (k + 1) - 1 = k
      BY <1>5
    <2> QED
      BY <1>3, <2>1
  <1> QED
    BY <1>1, <1>4, <1>5

\* The chain of an item is freed page by page.
LEMMA ReleaseItemIs ==
  ASSUME NEW s, NEW item, item.data[1] = "Overflow", Len(s.pages) \in Nat
  PROVE  \E f : /\ f[0] = [id |-> item.data[3], s |-> s]
                /\ \A k \in 0 .. Len(s.pages) - 1 : f[k + 1] = ReleaseStep(f[k])
                /\ ReleaseItem(s, item) = f[Len(s.pages)].s
  <1>1. PICK f : /\ f = CHOOSE g : g = [k \in 0 .. Len(s.pages) |->
                                   IF k = 0 THEN [id |-> item.data[3], s |-> s] ELSE ReleaseStep(g[k - 1])]
                 /\ ReleaseItem(s, item) = f[Len(s.pages)].s
    BY Zenon DEF ReleaseItem, Loop, ReleaseStep
  <1>2. \E g : g = [k \in 0 .. Len(s.pages) |-> IF k = 0 THEN [id |-> item.data[3], s |-> s] ELSE ReleaseStep(g[k - 1])]
    <2>1. PICK g : Follows(g, "release", 0, [id |-> item.data[3], s |-> s], Len(s.pages))
      BY FollowsExists
    <2>2. \A y, k : StepOf("release", 0, y, k) = ReleaseStep(y)
      BY DEF StepOf
    <2> QED
      BY <2>1, <2>2 DEF Follows
  <1>3. f = [k \in 0 .. Len(s.pages) |-> IF k = 0 THEN [id |-> item.data[3], s |-> s] ELSE ReleaseStep(f[k - 1])]
    BY <1>1, <1>2, Zenon
  <1>4. f[0] = [id |-> item.data[3], s |-> s]
    BY <1>3
  <1>5. ASSUME NEW k \in 0 .. Len(s.pages) - 1 PROVE f[k + 1] = ReleaseStep(f[k])
    <2>1. k + 1 \in 0 .. Len(s.pages) /\ k + 1 # 0 /\ (k + 1) - 1 = k
      BY <1>5
    <2> QED
      BY <1>3, <2>1
  <1> QED
    BY <1>1, <1>4, <1>5

\* And read page by page.
LEMMA PayloadOfIs ==
  ASSUME NEW s, NEW item, Len(s.pages) \in Nat
  PROVE  \E f : /\ f[0] = [id |-> item.data[3], out |-> <<>>]
                /\ \A k \in 0 .. Len(s.pages) - 1 : f[k + 1] = FetchStep(s, f[k])
                /\ PayloadOf(s, item) = IF item.data[1] = "Inline" THEN <<item.data[2]>>
                      ELSE IF f[Len(s.pages)].id = NoPage /\ Len(f[Len(s.pages)].out) = item.data[2]
                      THEN <<f[Len(s.pages)].out>> ELSE <<"corrupt">>
  <1>1. PICK f : /\ f = CHOOSE g : g = [k \in 0 .. Len(s.pages) |->
                                   IF k = 0 THEN [id |-> item.data[3], out |-> <<>>] ELSE FetchStep(s, g[k - 1])]
                 /\ PayloadOf(s, item) = IF item.data[1] = "Inline" THEN <<item.data[2]>>
                      ELSE IF f[Len(s.pages)].id = NoPage /\ Len(f[Len(s.pages)].out) = item.data[2]
                      THEN <<f[Len(s.pages)].out>> ELSE <<"corrupt">>
    BY Zenon DEF PayloadOf, Loop, FetchStep
  <1>2. \E g : g = [k \in 0 .. Len(s.pages) |-> IF k = 0 THEN [id |-> item.data[3], out |-> <<>>] ELSE FetchStep(s, g[k - 1])]
    <2>1. PICK g : Follows(g, "read", s, [id |-> item.data[3], out |-> <<>>], Len(s.pages))
      BY FollowsExists
    <2>2. \A y, k : StepOf("read", s, y, k) = FetchStep(s, y)
      BY DEF StepOf
    <2> QED
      BY <2>1, <2>2 DEF Follows
  <1>3. f = [k \in 0 .. Len(s.pages) |-> IF k = 0 THEN [id |-> item.data[3], out |-> <<>>] ELSE FetchStep(s, f[k - 1])]
    BY <1>1, <1>2, Zenon
  <1>4. f[0] = [id |-> item.data[3], out |-> <<>>]
    BY <1>3
  <1>5. ASSUME NEW k \in 0 .. Len(s.pages) - 1 PROVE f[k + 1] = FetchStep(s, f[k])
    <2>1. k + 1 \in 0 .. Len(s.pages) /\ k + 1 # 0 /\ (k + 1) - 1 = k
      BY <1>5
    <2> QED
      BY <1>3, <2>1
  <1> QED
    BY <1>1, <1>4, <1>5

\* The path to a leaf, node by node.
DescentIs(s, from, key, f) ==
  /\ f[0] = <<from>>
  /\ \A k \in 0 .. Len(s.pages) - 1 : f[k + 1] = DescendStep(s, key, f[k])
  /\ Descend(s, from, key) = f[Len(s.pages)]

\* A descent ends after finitely many rounds.
LEMMA DescendIs ==
  ASSUME NEW s, NEW from, NEW key, Len(s.pages) \in Nat
  PROVE  \E f : DescentIs(s, from, key, f)
  <1>1. PICK f : /\ f = CHOOSE g : g = [k \in 0 .. Len(s.pages) |->
                                   IF k = 0 THEN <<from>> ELSE DescendStep(s, key, g[k - 1])]
                 /\ Descend(s, from, key) = f[Len(s.pages)]
    BY Zenon DEF Descend, Loop, DescendStep
  <1>2. \E g : g = [k \in 0 .. Len(s.pages) |-> IF k = 0 THEN <<from>> ELSE DescendStep(s, key, g[k - 1])]
    <2>1. PICK g : Follows(g, "descend", <<s, key>>, <<from>>, Len(s.pages))
      BY FollowsExists
    <2>2. \A y, k : StepOf("descend", <<s, key>>, y, k) = DescendStep(s, key, y)
      BY DEF StepOf
    <2> QED
      BY <2>1, <2>2 DEF Follows
  <1>3. f = [k \in 0 .. Len(s.pages) |-> IF k = 0 THEN <<from>> ELSE DescendStep(s, key, f[k - 1])]
    BY <1>1, <1>2, Zenon
  <1>4. f[0] = <<from>>
    BY <1>3
  <1>5. ASSUME NEW k \in 0 .. Len(s.pages) - 1 PROVE f[k + 1] = DescendStep(s, key, f[k])
    <2>1. k + 1 \in 0 .. Len(s.pages) /\ k + 1 # 0 /\ (k + 1) - 1 = k
      BY <1>5
    <2> QED
      BY <1>3, <2>1
  <1>6. DescentIs(s, from, key, f)
    BY <1>1, <1>4, <1>5 DEF DescentIs
  <1> QED
    BY <1>6

\* The way along the leaves.
LEMMA SeekLeafIs ==
  ASSUME NEW s, NEW from, NEW key, Len(s.pages) \in Nat
  PROVE  \E f : /\ f[0] = Last(Descend(s, from, key))
                /\ \A k \in 0 .. Len(s.pages) - 1 : f[k + 1] = SeekStep(s, key, f[k])
                /\ SeekLeaf(s, from, key) = f[Len(s.pages)]
  <1>1. PICK f : /\ f = CHOOSE g : g = [k \in 0 .. Len(s.pages) |->
                                   IF k = 0 THEN Last(Descend(s, from, key)) ELSE SeekStep(s, key, g[k - 1])]
                 /\ SeekLeaf(s, from, key) = f[Len(s.pages)]
    BY Zenon DEF SeekLeaf, Loop, SeekStep
  <1>2. \E g : g = [k \in 0 .. Len(s.pages) |-> IF k = 0 THEN Last(Descend(s, from, key)) ELSE SeekStep(s, key, g[k - 1])]
    <2>1. PICK g : Follows(g, "seek", <<s, key>>, Last(Descend(s, from, key)), Len(s.pages))
      BY FollowsExists
    <2>2. \A y, k : StepOf("seek", <<s, key>>, y, k) = SeekStep(s, key, y)
      BY DEF StepOf
    <2> QED
      BY <2>1, <2>2 DEF Follows
  <1>3. f = [k \in 0 .. Len(s.pages) |-> IF k = 0 THEN Last(Descend(s, from, key)) ELSE SeekStep(s, key, f[k - 1])]
    BY <1>1, <1>2, Zenon
  <1>4. f[0] = Last(Descend(s, from, key))
    BY <1>3
  <1>5. ASSUME NEW k \in 0 .. Len(s.pages) - 1 PROVE f[k + 1] = SeekStep(s, key, f[k])
    <2>1. k + 1 \in 0 .. Len(s.pages) /\ k + 1 # 0 /\ (k + 1) - 1 = k
      BY <1>5
    <2> QED
      BY <1>3, <2>1
  <1> QED
    BY <1>1, <1>4, <1>5

\* The way up, parent by parent.
LEMMA ClimbIs ==
  ASSUME NEW s, NEW path, NEW sep, NEW right, Len(path) \in Nat
  PROVE  \E f : /\ f[0] = [s |-> s, sep |-> sep, right |-> right, outcome |-> "split"]
                /\ \A k \in 0 .. Len(path) - 1 : f[k + 1] = ClimbStep(path, f[k], k + 1)
                /\ Climb(s, path, sep, right) = f[Len(path)]
  <1>1. PICK f : /\ f = CHOOSE g : g = [k \in 0 .. Len(path) |->
                                   IF k = 0 THEN [s |-> s, sep |-> sep, right |-> right, outcome |-> "split"] ELSE ClimbStep(path, g[k - 1], k)]
                 /\ Climb(s, path, sep, right) = f[Len(path)]
    BY Zenon DEF Climb, Loop, ClimbStep
  <1>2. \E g : g = [k \in 0 .. Len(path) |-> IF k = 0 THEN [s |-> s, sep |-> sep, right |-> right, outcome |-> "split"] ELSE ClimbStep(path, g[k - 1], k)]
    <2>1. PICK g : Follows(g, "climb", path, [s |-> s, sep |-> sep, right |-> right, outcome |-> "split"], Len(path))
      BY FollowsExists
    <2>2. \A y, k : StepOf("climb", path, y, k) = ClimbStep(path, y, k)
      BY DEF StepOf
    <2> QED
      BY <2>1, <2>2 DEF Follows
  <1>3. f = [k \in 0 .. Len(path) |-> IF k = 0 THEN [s |-> s, sep |-> sep, right |-> right, outcome |-> "split"] ELSE ClimbStep(path, f[k - 1], k)]
    BY <1>1, <1>2, Zenon
  <1>4. f[0] = [s |-> s, sep |-> sep, right |-> right, outcome |-> "split"]
    BY <1>3
  <1>5. ASSUME NEW k \in 0 .. Len(path) - 1 PROVE f[k + 1] = ClimbStep(path, f[k], k + 1)
    <2>1. k + 1 \in 0 .. Len(path) /\ k + 1 # 0 /\ (k + 1) - 1 = k
      BY <1>5
    <2> QED
      BY <1>3, <2>1
  <1> QED
    BY <1>1, <1>4, <1>5

\* The items of a leaf, one after the other.
LEMMA ReleasedItemsIs ==
  ASSUME NEW s, NEW page, Len(page.items) \in Nat
  PROVE  \E f : /\ f[0] = s
                /\ \A k \in 0 .. Len(page.items) - 1 : f[k + 1] = ReleaseItem(f[k], page.items[k + 1])
                /\ ReleasedItems(s, page) = f[Len(page.items)]
  <1>1. PICK f : /\ f = CHOOSE g : g = [k \in 0 .. Len(page.items) |->
                                   IF k = 0 THEN s ELSE ReleaseItem(g[k - 1], page.items[k])]
                 /\ ReleasedItems(s, page) = f[Len(page.items)]
    BY Zenon DEF ReleasedItems, Loop
  <1>2. \E g : g = [k \in 0 .. Len(page.items) |-> IF k = 0 THEN s ELSE ReleaseItem(g[k - 1], page.items[k])]
    <2>1. PICK g : Follows(g, "items", page, s, Len(page.items))
      BY FollowsExists
    <2>2. \A y, k : StepOf("items", page, y, k) = ReleaseItem(y, page.items[k])
      BY DEF StepOf
    <2> QED
      BY <2>1, <2>2 DEF Follows
  <1>3. f = [k \in 0 .. Len(page.items) |-> IF k = 0 THEN s ELSE ReleaseItem(f[k - 1], page.items[k])]
    BY <1>1, <1>2, Zenon
  <1>4. f[0] = s
    BY <1>3
  <1>5. ASSUME NEW k \in 0 .. Len(page.items) - 1 PROVE f[k + 1] = ReleaseItem(f[k], page.items[k + 1])
    <2>1. k + 1 \in 0 .. Len(page.items) /\ k + 1 # 0 /\ (k + 1) - 1 = k
      BY <1>5
    <2> QED
      BY <1>3, <2>1
  <1> QED
    BY <1>1, <1>4, <1>5

\* The nodes, in the order of the stack.
LEMMA DestroyIs ==
  ASSUME NEW s, NEW from, Len(s.pages) \in Nat
  PROVE  \E f : /\ f[0] = [s |-> s, stack |-> <<from>>]
                /\ \A k \in 0 .. Len(s.pages) - 1 : f[k + 1] = DestroyStep(f[k])
                /\ Destroy(s, from) = f[Len(s.pages)].s
  <1>1. PICK f : /\ f = CHOOSE g : g = [k \in 0 .. Len(s.pages) |->
                                   IF k = 0 THEN [s |-> s, stack |-> <<from>>] ELSE DestroyStep(g[k - 1])]
                 /\ Destroy(s, from) = f[Len(s.pages)].s
    BY Zenon DEF Destroy, Loop, DestroyStep, Children, ReleasedItems
  <1>2. \E g : g = [k \in 0 .. Len(s.pages) |-> IF k = 0 THEN [s |-> s, stack |-> <<from>>] ELSE DestroyStep(g[k - 1])]
    <2>1. PICK g : Follows(g, "destroy", 0, [s |-> s, stack |-> <<from>>], Len(s.pages))
      BY FollowsExists
    <2>2. \A y, k : StepOf("destroy", 0, y, k) = DestroyStep(y)
      BY DEF StepOf
    <2> QED
      BY <2>1, <2>2 DEF Follows
  <1>3. f = [k \in 0 .. Len(s.pages) |-> IF k = 0 THEN [s |-> s, stack |-> <<from>>] ELSE DestroyStep(f[k - 1])]
    BY <1>1, <1>2, Zenon
  <1>4. f[0] = [s |-> s, stack |-> <<from>>]
    BY <1>3
  <1>5. ASSUME NEW k \in 0 .. Len(s.pages) - 1 PROVE f[k + 1] = DestroyStep(f[k])
    <2>1. k + 1 \in 0 .. Len(s.pages) /\ k + 1 # 0 /\ (k + 1) - 1 = k
      BY <1>5
    <2> QED
      BY <1>3, <2>1
  <1> QED
    BY <1>1, <1>4, <1>5

\* What is reached, link by link.
LEMMA UsedIs ==
  ASSUME Len(store.pages) \in Nat
  PROVE  \E f : /\ f[0] = {}
                /\ \A k \in 0 .. Len(store.pages) - 1 : f[k + 1] = ReachStep(store, root, f[k])
                /\ PagesAccounted <=> AllUsed(f[Len(store.pages)])
  <1>1. PICK f : /\ f = CHOOSE g : g = [k \in 0 .. Len(store.pages) |->
                                   IF k = 0 THEN {} ELSE ReachStep(store, root, g[k - 1])]
                 /\ PagesAccounted <=> AllUsed(f[Len(store.pages)])
    BY Zenon DEF PagesAccounted, AllUsed, Loop, ReachStep
  <1>2. \E g : g = [k \in 0 .. Len(store.pages) |-> IF k = 0 THEN {} ELSE ReachStep(store, root, g[k - 1])]
    <2>1. PICK g : Follows(g, "reach", <<store, root>>, {}, Len(store.pages))
      BY FollowsExists
    <2>2. \A y, k : StepOf("reach", <<store, root>>, y, k) = ReachStep(store, root, y)
      BY DEF StepOf
    <2> QED
      BY <2>1, <2>2 DEF Follows
  <1>3. f = [k \in 0 .. Len(store.pages) |-> IF k = 0 THEN {} ELSE ReachStep(store, root, f[k - 1])]
    BY <1>1, <1>2, Zenon
  <1>4. f[0] = {}
    BY <1>3
  <1>5. ASSUME NEW k \in 0 .. Len(store.pages) - 1 PROVE f[k + 1] = ReachStep(store, root, f[k])
    <2>1. k + 1 \in 0 .. Len(store.pages) /\ k + 1 # 0 /\ (k + 1) - 1 = k
      BY <1>5
    <2> QED
      BY <1>3, <2>1
  <1> QED
    BY <1>1, <1>4, <1>5
-----------------------------------------------------------------------------
(* The inductive invariant *)

Data == ({"Inline"} \X Seq(Nat)) \cup ({"Overflow"} \X Nat \X Nat) \cup ({"Child"} \X Nat)

Item == [key : Nat, size : Nat, data : Data]

Node == [kind : {"Leaf", "Internal"}, extra : Nat, items : Seq(Item), free : Nat]

Other == [kind : {"Overflow", "Free"}, extra : Nat, items : Seq(Nat), free : Nat]

Store == [pages : Seq(Node \cup Other), free : Nat]

\* The parts of a file.
Nodes(s) == {id \in DOMAIN s.pages : s.pages[id].kind \in {"Leaf", "Internal"}}

Tree(s) == [id \in Nodes(s) |-> s.pages[id]]

Over(s) == [id \in Overflowing(s) |-> s.pages[id]]

Frees(s) == {id \in DOMAIN s.pages : s.pages[id].kind = "Free"}

\* The element after a prefix of a list, NoPage at its end.
Link(q, i) == IF i <= Len(q) THEN q[i] ELSE NoPage

Distinct(q) == \A i, j \in 1 .. Len(q) : q[i] = q[j] => i = j

\* Links stay within the file.
Linked(s) == s.free <= Len(s.pages) /\ \A id \in DOMAIN s.pages : s.pages[id].extra <= Len(s.pages)

\* q is the free list: all free pages, once each, in the order of the links.
FreeList(s, q) ==
  /\ q \in Seq(Nat) /\ Distinct(q)
  /\ \A i \in 1 .. Len(q) : q[i] \in Frees(s) /\ s.pages[q[i]].extra = Link(q, i + 1)
  /\ \A id \in Frees(s) : \E i \in 1 .. Len(q) : q[i] = id
  /\ s.free = Link(q, 1)

FileOK(s, q) == s \in Store /\ Linked(s) /\ FreeList(s, q)

\* The pages q of O hold the payload v, or nothing if it is stored inline.
ChainOK(O, q, v) ==
  /\ q \in Seq(Nat) /\ Distinct(q)
  /\ Len(q) = IF Len(v) <= MaxInline THEN 0 ELSE Chunks(v)
  /\ \A i \in 1 .. Len(q) :
       q[i] \in DOMAIN O /\ O[q[i]].items = Chunk(v, i) /\ O[q[i]].extra = Link(q, i + 1)

\* The overflow pages are those of the chains ch, which hold the payloads V and
\* share no page, and those in L.
ChainsOK(O, ch, V, L) ==
  /\ \A x \in DOMAIN V : ChainOK(O, ch[x], V[x])
  /\ \A x, y \in DOMAIN V : \A i \in 1 .. Len(ch[x]), j \in 1 .. Len(ch[y]) : ch[x][i] = ch[y][j] => x = y
  /\ \A x \in DOMAIN V : \A i \in 1 .. Len(ch[x]) : ch[x][i] \notin L
  /\ L \subseteq DOMAIN O
  /\ \A id \in DOMAIN O : id \in L \/ \E x \in DOMAIN V : \E i \in 1 .. Len(ch[x]) : ch[x][i] = id

\* Bounds of keys; Inf is above all of them.
Inf == -1

Before(k, h) == h = Inf \/ k < h

\* Node a is responsible for the keys from g.lo[a] up to but not including
\* g.hi[a], and g.lvl[a] levels above the leaves.
NodeOK(T, g, a) ==
  /\ a \in Nat \ {0} /\ T[a] \in Node
  /\ g.lo[a] \in Nat /\ g.hi[a] \in Nat \cup {Inf} /\ Before(g.lo[a], g.hi[a]) /\ g.lvl[a] \in Nat
  /\ T[a].kind = "Leaf" <=> g.lvl[a] = 0
  /\ \A i, j \in 1 .. Len(T[a].items) : i < j => T[a].items[i].key < T[a].items[j].key
  /\ \A i \in 1 .. Len(T[a].items) : g.lo[a] <= T[a].items[i].key /\ Before(T[a].items[i].key, g.hi[a])

Child(page, i) == IF i = 0 THEN page.extra ELSE page.items[i].data[2]

From(page, l, i) == IF i = 0 THEN l ELSE page.items[i].key

To(page, h, i) == IF i = Len(page.items) THEN h ELSE page.items[i + 1].key

\* Between the two halves of a split, `left` stands for both.
HiOf(g, left, right, c) == IF c = left THEN g.hi[right] ELSE g.hi[c]

\* The children of a node divide its keys at the separators.
ChildrenOK(T, g, left, right, a) ==
  T[a].kind = "Internal" =>
    \A i \in 0 .. Len(T[a].items) :
      /\ Child(T[a], i) \in DOMAIN T /\ Child(T[a], i) # right
      /\ g.lvl[Child(T[a], i)] + 1 = g.lvl[a]
      /\ g.lo[Child(T[a], i)] = From(T[a], g.lo[a], i)
      /\ HiOf(g, left, right, Child(T[a], i)) = To(T[a], g.hi[a], i)

\* A leaf links the one that takes over where it ends.
NextOK(T, g, a) ==
  T[a].kind = "Leaf" =>
    IF g.hi[a] = Inf THEN T[a].extra = NoPage
    ELSE T[a].extra \in DOMAIN T /\ T[T[a].extra].kind = "Leaf" /\ g.lo[T[a].extra] = g.hi[a]

Ends(g, a, b) == g.hi[a] # Inf /\ g.hi[a] <= g.lo[b]

\* Nodes of a level share no key.
ApartOK(T, g) ==
  \A a, b \in DOMAIN T : a # b /\ g.lvl[a] = g.lvl[b] => Ends(g, a, b) \/ Ends(g, b, a)

RootOK(T, r, g, left, right) ==
  /\ r \in DOMAIN T /\ g.lo[r] = 0 /\ HiOf(g, left, right, r) = Inf
  /\ \A a \in DOMAIN T : g.lvl[a] <= g.lvl[r] /\ (g.lvl[a] = g.lvl[r] => a = r \/ a = right)

\* The halves of a split whose separator is not yet in the parent; NoPage twice
\* if there is none.
SplitOK(T, g, left, right) ==
  \/ left = NoPage /\ right = NoPage
  \/ /\ left \in DOMAIN T /\ right \in DOMAIN T /\ left # right
     /\ g.lvl[left] = g.lvl[right] /\ g.hi[left] = g.lo[right]

TreeOK(T, r, g, left, right) ==
  /\ \A a \in DOMAIN T : NodeOK(T, g, a)
  /\ \A a \in DOMAIN T : ChildrenOK(T, g, left, right, a)
  /\ \A a \in DOMAIN T : NextOK(T, g, a)
  /\ ApartOK(T, g)
  /\ RootOK(T, r, g, left, right)
  /\ SplitOK(T, g, left, right)

\* The leaf item for a payload whose chain starts at page `first`.
Entry(key, v, first) ==
  IF Len(v) <= MaxInline
  THEN [key |-> key, size |-> LeafHeader + Len(v), data |-> <<"Inline", v>>]
  ELSE [key |-> key, size |-> OverflowDescriptor, data |-> <<"Overflow", Len(v), first>>]

\* The leaves hold the entries of D, and nothing else.
ContentsOK(T, D, ch) ==
  /\ \A a \in DOMAIN T : T[a].kind = "Leaf" =>
       \A i \in 1 .. Len(T[a].items) :
         LET k == T[a].items[i].key IN k \in DOMAIN D /\ T[a].items[i] = Entry(k, D[k], Link(ch[k], 1))
  /\ \A k \in DOMAIN D : \E a \in DOMAIN T : T[a].kind = "Leaf" /\
       \E i \in 1 .. Len(T[a].items) : T[a].items[i].key = k

\* Items and free room fit in the page; internal nodes have no holes.
FitsOK(page) ==
  /\ page.free + Cost(page.items) <= PageSpace
  /\ page.kind = "Internal" =>
       /\ page.free + Cost(page.items) = PageSpace
       /\ \A i \in 1 .. Len(page.items) : page.items[i].size = InternalItem

TreeInv(s, r, D, L, g, q, ch) ==
  /\ FileOK(s, q)
  /\ ChainsOK(Over(s), ch, D, L)
  /\ r = NoPage => Nodes(s) = {} /\ DOMAIN D = {}
  /\ r # NoPage => /\ TreeOK(Tree(s), r, g, NoPage, NoPage)
                   /\ ContentsOK(Tree(s), D, ch)
                   /\ \A a \in Nodes(s) : FitsOK(s.pages[a])

BTreeInv ==
  /\ keys \subseteq Nat /\ \A k \in DOMAIN dict : k \in Nat /\ dict[k] \in Payloads
  /\ InsertionsSucceed
  /\ \E g, q, ch : TreeInv(store, root, dict, lost, g, q, ch)
-----------------------------------------------------------------------------
(* Sequences *)

\* The constants, one by one.
LEMMA Sizes ==
  /\ PageSpace \in Nat \ {0} /\ SlotSize \in Nat \ {0} /\ LeafHeader \in Nat \ {0}
  /\ MaxInline \in Nat \ {0} /\ OverflowChunk \in Nat \ {0} /\ InternalItem \in Nat \ {0}
  /\ OverflowDescriptor \in Nat /\ OverflowDescriptor <= LeafHeader + MaxInline
  /\ 3 * (SlotSize + LeafHeader + MaxInline) <= PageSpace
  /\ 2 * (SlotSize + InternalItem) <= PageSpace
  BY BTreeAssumption

\* InsertAt and RemoveAt, element by element.
Inserted(q, i, e, r) ==
  /\ r \in Seq(Item) /\ Len(r) = Len(q) + 1 /\ r[i] = e
  /\ \A j \in 1 .. i - 1 : r[j] = q[j]
  /\ \A j \in i + 1 .. Len(q) + 1 : r[j] = q[j - 1]

Removed(q, i, r) ==
  /\ r \in Seq(Item) /\ Len(r) = Len(q) - 1
  /\ \A j \in 1 .. i - 1 : r[j] = q[j]
  /\ \A j \in i .. Len(q) - 1 : r[j] = q[j + 1]

\* InsertAt puts one item in.
LEMMA InsertAtIs ==
  \A q \in Seq(Item) : \A i \in 1 .. Len(q) + 1 : \A e \in Item : Inserted(q, i, e, InsertAt(q, i, e))
  <1> SUFFICES ASSUME NEW q \in Seq(Item), NEW i \in 1 .. Len(q) + 1, NEW e \in Item, NEW r, r = InsertAt(q, i, e)
               PROVE  Inserted(q, i, e, r)
    OBVIOUS
  <1>1. PICK a : a = SubSeq(q, 1, i - 1)
    OBVIOUS
  <1>2. PICK b : b = SubSeq(q, i, Len(q))
    OBVIOUS
  <1>3. a \in Seq(Item) /\ Len(a) = i - 1 /\ \A j \in 1 .. i - 1 : a[j] = q[j]
    BY <1>1
  <1>4. b \in Seq(Item) /\ Len(b) = Len(q) + 1 - i /\ \A j \in 1 .. Len(b) : b[j] = q[j + i - 1]
    BY <1>2
  <1>5. PICK c : c = a \o <<e>>
    OBVIOUS
  <1>6. c \in Seq(Item) /\ Len(c) = i /\ c[i] = e /\ \A j \in 1 .. i - 1 : c[j] = q[j]
    BY <1>3, <1>5
  <1>7. r = c \o b
    BY <1>1, <1>2, <1>5 DEF InsertAt
  <1>8. r \in Seq(Item) /\ Len(r) = Len(q) + 1
    BY <1>4, <1>6, <1>7
  <1>9. \A j \in 1 .. i : r[j] = c[j]
    BY <1>4, <1>6, <1>7
  <1>10. ASSUME NEW j \in i + 1 .. Len(q) + 1 PROVE r[j] = q[j - 1]
    <2>1. r[j] = b[j - i] /\ j - i \in 1 .. Len(b)
      BY <1>4, <1>6, <1>7, <1>8
    <2> QED
      BY <1>4, <2>1
  <1> QED
    BY <1>6, <1>8, <1>9, <1>10 DEF Inserted

\* RemoveAt takes one item out.
LEMMA RemoveAtIs == \A q \in Seq(Item) : \A i \in 1 .. Len(q) : Removed(q, i, RemoveAt(q, i))
  <1> SUFFICES ASSUME NEW q \in Seq(Item), NEW i \in 1 .. Len(q), NEW r, r = RemoveAt(q, i)
               PROVE  Removed(q, i, r)
    OBVIOUS
  <1>1. PICK a : a = SubSeq(q, 1, i - 1)
    OBVIOUS
  <1>2. PICK b : b = SubSeq(q, i + 1, Len(q))
    OBVIOUS
  <1>3. a \in Seq(Item) /\ Len(a) = i - 1 /\ \A j \in 1 .. i - 1 : a[j] = q[j]
    BY <1>1
  <1>4. b \in Seq(Item) /\ Len(b) = Len(q) - i /\ \A j \in 1 .. Len(b) : b[j] = q[j + i]
    BY <1>2
  <1>5. r = a \o b
    BY <1>1, <1>2 DEF RemoveAt
  <1>6. r \in Seq(Item) /\ Len(r) = Len(q) - 1
    BY <1>3, <1>4, <1>5
  <1>7. \A j \in 1 .. i - 1 : r[j] = q[j]
    BY <1>3, <1>4, <1>5
  <1>8. ASSUME NEW j \in i .. Len(q) - 1 PROVE r[j] = q[j + 1]
    <2>1. r[j] = b[j - (i - 1)] /\ j - (i - 1) \in 1 .. Len(b)
      BY <1>3, <1>4, <1>5, <1>6
    <2> QED
      BY <1>4, <2>1
  <1> QED
    BY <1>6, <1>7, <1>8 DEF Removed

\* Sequences are equal if their elements are.
LEMMA SeqsEqual ==
  ASSUME NEW S, NEW q \in Seq(S), NEW r \in Seq(S), Len(q) = Len(r), \A i \in 1 .. Len(q) : q[i] = r[i]
  PROVE  q = r
  <1>1. DOMAIN q = 1 .. Len(q) /\ DOMAIN r = 1 .. Len(r)
    OBVIOUS
  <1>2. q = [i \in 1 .. Len(q) |-> q[i]] /\ r = [i \in 1 .. Len(r) |-> r[i]]
    OBVIOUS
  <1> QED
    BY <1>1, <1>2

\* A stretch of a sequence, element by element.
LEMMA SubSeqIs ==
  ASSUME NEW S, NEW q \in Seq(S), NEW m \in Nat \ {0}, NEW n \in Nat, m <= n + 1, n <= Len(q),
         NEW r, r = SubSeq(q, m, n)
  PROVE  r \in Seq(S) /\ Len(r) = n + 1 - m /\ \A i \in 1 .. Len(r) : r[i] = q[i + m - 1]
  OBVIOUS
-----------------------------------------------------------------------------
(* Costs *)

\* The cost of a sequence, from that of its front.
LEMMA CostFront ==
  ASSUME NEW n \in Nat, NEW q \in Seq(Item), NEW r \in Seq(Item), Len(q) = n + 1, Len(r) = n,
         \A i \in 1 .. n : q[i] = r[i]
  PROVE  Cost(q) = Cost(r) + ItemCost(q[n + 1])
  <1>1. PICK f : /\ f[0] = 0 /\ \A k \in 0 .. Len(q) - 1 : f[k + 1] = CostStep(q, f[k], k + 1)
                 /\ Cost(q) = f[Len(q)]
    BY CostIs
  <1>2. PICK h : /\ h[0] = 0 /\ \A k \in 0 .. Len(r) - 1 : h[k + 1] = CostStep(r, h[k], k + 1)
                 /\ Cost(r) = h[Len(r)]
    BY CostIs
  <1> DEFINE S == {k \in Nat : k <= n => f[k] = h[k]}
  <1>3. 0 \in S
    BY <1>1, <1>2
  <1>4. ASSUME NEW k \in Nat, k \in S PROVE k + 1 \in S
    <2> SUFFICES ASSUME k + 1 <= n PROVE f[k + 1] = h[k + 1]
      OBVIOUS
    <2>1. f[k] = h[k] /\ q[k + 1] = r[k + 1]
      BY <1>4
    <2> QED
      BY <1>1, <1>2, <2>1 DEF CostStep
  <1>5. Nat \subseteq S
    <2> HIDE DEF S
    <2> QED
      BY <1>3, <1>4, SetInduction
  <1>6. f[n] = h[n]
    BY <1>5
  <1> QED
    BY <1>1, <1>2, <1>6 DEF CostStep

\* No items cost nothing.
LEMMA CostEmpty == ASSUME NEW q \in Seq(Item), Len(q) = 0 PROVE Cost(q) = 0
  BY CostIs

\* Costs are numbers.
LEMMA CostNat == \A q \in Seq(Item) : Cost(q) \in Nat
  <1> DEFINE S == {n \in Nat : \A q \in Seq(Item) : Len(q) = n => Cost(q) \in Nat}
  <1>1. 0 \in S
    BY CostEmpty
  <1>2. ASSUME NEW n \in Nat, n \in S PROVE n + 1 \in S
    <2> SUFFICES ASSUME NEW q \in Seq(Item), Len(q) = n + 1 PROVE Cost(q) \in Nat
      OBVIOUS
    <2>1. PICK r : r = SubSeq(q, 1, n)
      OBVIOUS
    <2>2. r \in Seq(Item) /\ Len(r) = n /\ \A i \in 1 .. n : q[i] = r[i]
      BY <2>1
    <2>3. Cost(r) \in Nat
      BY <1>2, <2>2
    <2>4. q[n + 1] \in Item
      OBVIOUS
    <2>5. Cost(q) = Cost(r) + ItemCost(q[n + 1])
      BY <2>2, CostFront
    <2> QED
      BY <2>3, <2>4, <2>5, Sizes DEF ItemCost, Item
  <1>3. Nat \subseteq S
    <2> HIDE DEF S
    <2> QED
      BY <1>1, <1>2, SetInduction
  <1> QED
    BY <1>3

\* An item more.
LEMMA CostInsert ==
  \A q \in Seq(Item) : \A i \in 1 .. Len(q) + 1 : \A e \in Item :
    Cost(InsertAt(q, i, e)) = Cost(q) + ItemCost(e)
  <1> DEFINE P(n) == \A q \in Seq(Item) : Len(q) = n =>
                       \A i \in 1 .. n + 1 : \A e \in Item : Cost(InsertAt(q, i, e)) = Cost(q) + ItemCost(e)
  <1> DEFINE S == {n \in Nat : P(n)}
  <1>a. \A e \in Item : ItemCost(e) \in Nat
    BY Sizes DEF Item, ItemCost
  <1>1. ASSUME NEW n \in Nat, NEW q \in Seq(Item), Len(q) = n, NEW e \in Item
        PROVE  Cost(InsertAt(q, n + 1, e)) = Cost(q) + ItemCost(e)
    <2>1. PICK r : r = InsertAt(q, n + 1, e)
      OBVIOUS
    <2>2. r \in Seq(Item) /\ Len(r) = n + 1 /\ r[n + 1] = e /\ \A j \in 1 .. n : r[j] = q[j]
      <3>1. n + 1 \in 1 .. Len(q) + 1
        BY <1>1
      <3>2. Inserted(q, n + 1, e, r)
        BY <2>1, <3>1, InsertAtIs
      <3> QED
        BY <1>1, <3>2 DEF Inserted
    <2>3. Cost(r) = Cost(q) + ItemCost(r[n + 1])
      BY <1>1, <2>2, CostFront
    <2> QED
      BY <2>1, <2>2, <2>3
  <1>2. 0 \in S
    BY <1>1
  <1>3. ASSUME NEW n \in Nat, n \in S PROVE n + 1 \in S
    <2> SUFFICES ASSUME NEW q \in Seq(Item), Len(q) = n + 1, NEW i \in 1 .. n + 2, NEW e \in Item
                 PROVE  Cost(InsertAt(q, i, e)) = Cost(q) + ItemCost(e)
      OBVIOUS
    <2>1. CASE i = n + 2
      BY <1>1, <2>1
    <2>2. CASE i # n + 2
      <3>1. PICK f : f = SubSeq(q, 1, n)
        OBVIOUS
      <3>2. f \in Seq(Item) /\ Len(f) = n /\ \A j \in 1 .. n : q[j] = f[j]
        BY <3>1
      <3>3. PICK r : r = InsertAt(q, i, e)
        OBVIOUS
      <3>4. /\ r \in Seq(Item) /\ Len(r) = n + 2 /\ r[i] = e
            /\ \A j \in 1 .. i - 1 : r[j] = q[j]
            /\ \A j \in i + 1 .. n + 2 : r[j] = q[j - 1]
        <4>1. i \in 1 .. Len(q) + 1
          OBVIOUS
        <4>2. Inserted(q, i, e, r)
          BY <3>3, <4>1, InsertAtIs
        <4> QED
          BY <4>2 DEF Inserted
      <3>5. PICK h : h = InsertAt(f, i, e)
        OBVIOUS
      <3>6. /\ h \in Seq(Item) /\ Len(h) = n + 1 /\ h[i] = e
            /\ \A j \in 1 .. i - 1 : h[j] = f[j]
            /\ \A j \in i + 1 .. n + 1 : h[j] = f[j - 1]
        <4>1. i \in 1 .. Len(f) + 1
          BY <2>2, <3>2
        <4>2. Inserted(f, i, e, h)
          BY <3>2, <3>5, <4>1, InsertAtIs
        <4> QED
          BY <3>2, <4>2 DEF Inserted
      <3>7. \A j \in 1 .. n + 1 : r[j] = h[j]
        BY <2>2, <3>2, <3>4, <3>6
      <3>8. Cost(r) = Cost(h) + ItemCost(r[n + 2])
        BY <3>4, <3>6, <3>7, CostFront
      <3>9. Cost(h) = Cost(f) + ItemCost(e)
        BY <1>3, <2>2, <3>2, <3>5
      <3>10. Cost(q) = Cost(f) + ItemCost(q[n + 1])
        BY <3>2, CostFront
      <3>11. r[n + 2] = q[n + 1]
        BY <2>2, <3>4
      <3>12. Cost(f) \in Nat /\ ItemCost(e) \in Nat /\ ItemCost(q[n + 1]) \in Nat
        BY <1>a, <3>2, CostNat
      <3> QED
        BY <3>3, <3>8, <3>9, <3>10, <3>11, <3>12
    <2> QED
      BY <2>1, <2>2
  <1>4. Nat \subseteq S
    <2> HIDE DEF S
    <2> QED
      BY <1>2, <1>3, SetInduction
  <1> QED
    BY <1>4

\* The same, for a sequence known by its elements.
LEMMA CostInserted ==
  ASSUME NEW q \in Seq(Item), NEW i \in 1 .. Len(q) + 1, NEW e \in Item, NEW r, Inserted(q, i, e, r)
  PROVE  Cost(r) = Cost(q) + ItemCost(e)
  <1>1. PICK h : h = InsertAt(q, i, e)
    OBVIOUS
  <1>2. Inserted(q, i, e, h)
    BY <1>1, InsertAtIs
  <1>3. r \in Seq(Item) /\ h \in Seq(Item) /\ Len(r) = Len(h)
    BY <1>2 DEF Inserted
  <1>4. ASSUME NEW j \in 1 .. Len(r) PROVE r[j] = h[j]
    <2>1. Len(r) = Len(q) + 1
      BY DEF Inserted
    <2>2. j \in 1 .. i - 1 \/ j = i \/ j \in i + 1 .. Len(q) + 1
      BY <2>1
    <2> QED
      BY <1>2, <2>2 DEF Inserted
  <1>5. PICK S : S = Item
    OBVIOUS
  <1>6. r = h
    <2>1. r \in Seq(S) /\ h \in Seq(S)
      BY <1>3, <1>5
    <2> QED
      BY <1>3, <1>4, <2>1, SeqsEqual
  <1> QED
    BY <1>1, <1>6, CostInsert

\* What is taken out can be put back.
LEMMA RemovedInserted ==
  ASSUME NEW q \in Seq(Item), NEW i \in 1 .. Len(q), NEW r, Removed(q, i, r)
  PROVE  /\ r \in Seq(Item) /\ i \in 1 .. Len(r) + 1 /\ q[i] \in Item /\ Inserted(r, i, q[i], q)
         /\ Cost(q) = Cost(r) + ItemCost(q[i])
  <1>1. r \in Seq(Item) /\ Len(r) = Len(q) - 1 /\ i \in 1 .. Len(r) + 1 /\ q[i] \in Item
    BY DEF Removed
  <1>2. \A j \in 1 .. i - 1 : q[j] = r[j]
    BY DEF Removed
  <1>3. ASSUME NEW j \in i + 1 .. Len(r) + 1 PROVE q[j] = r[j - 1]
    <2>1. j - 1 \in i .. Len(q) - 1 /\ (j - 1) + 1 = j
      BY <1>1
    <2> QED
      BY <2>1 DEF Removed
  <1>4. Inserted(r, i, q[i], q)
    BY <1>1, <1>2, <1>3 DEF Inserted
  <1> QED
    BY <1>1, <1>4, CostInserted

\* q is a followed by b.
Joined(a, b, q) ==
  /\ a \in Seq(Item) /\ b \in Seq(Item) /\ q \in Seq(Item) /\ Len(q) = Len(a) + Len(b)
  /\ \A i \in 1 .. Len(a) : q[i] = a[i]
  /\ \A i \in 1 .. Len(b) : q[i + Len(a)] = b[i]

\* A sequence costs as much as its parts.
LEMMA CostJoined == \A a, b, q : Joined(a, b, q) => Cost(q) = Cost(a) + Cost(b)
  <1> DEFINE S == {n \in Nat : \A a, b, q : Joined(a, b, q) /\ Len(b) = n => Cost(q) = Cost(a) + Cost(b)}
  <1>1. 0 \in S
    <2> SUFFICES ASSUME NEW a, NEW b, NEW q, Joined(a, b, q), Len(b) = 0 PROVE Cost(q) = Cost(a) + Cost(b)
      OBVIOUS
    <2>1. a \in Seq(Item) /\ b \in Seq(Item) /\ q \in Seq(Item) /\ Len(q) = Len(a) /\ \A i \in 1 .. Len(q) : q[i] = a[i]
      BY DEF Joined
    <2>2. PICK U : U = Item
      OBVIOUS
    <2>3. q \in Seq(U) /\ a \in Seq(U)
      BY <2>1, <2>2
    <2>4. q = a
      BY <2>1, <2>3, SeqsEqual
    <2>5. Cost(b) = 0 /\ Cost(a) \in Nat
      BY <2>1, CostEmpty, CostNat
    <2> QED
      BY <2>4, <2>5
  <1>2. ASSUME NEW n \in Nat, n \in S PROVE n + 1 \in S
    <2> SUFFICES ASSUME NEW a, NEW b, NEW q, Joined(a, b, q), Len(b) = n + 1 PROVE Cost(q) = Cost(a) + Cost(b)
      OBVIOUS
    <2>1. /\ a \in Seq(Item) /\ b \in Seq(Item) /\ q \in Seq(Item) /\ Len(q) = Len(a) + Len(b)
          /\ \A i \in 1 .. Len(a) : q[i] = a[i]
          /\ \A i \in 1 .. Len(b) : q[i + Len(a)] = b[i]
      BY DEF Joined
    <2>2. PICK m \in Nat : m = Len(a) + n /\ Len(q) = m + 1
      BY <2>1
    <2>3. PICK b1 : b1 = SubSeq(b, 1, n)
      OBVIOUS
    <2>4. PICK q1 : q1 = SubSeq(q, 1, m)
      OBVIOUS
    <2>5. b1 \in Seq(Item) /\ Len(b1) = n /\ \A i \in 1 .. n : b[i] = b1[i]
      BY <2>1, <2>3
    <2>6. q1 \in Seq(Item) /\ Len(q1) = m /\ \A i \in 1 .. m : q[i] = q1[i]
      BY <2>1, <2>2, <2>4
    <2>7. Joined(a, b1, q1)
      <3>1. \A i \in 1 .. Len(a) : q1[i] = a[i]
        BY <2>1, <2>2, <2>6
      <3>2. ASSUME NEW i \in 1 .. Len(b1) PROVE q1[i + Len(a)] = b1[i]
        <4>1. i + Len(a) \in 1 .. m /\ i \in 1 .. Len(b) /\ i \in 1 .. n
          BY <2>1, <2>2, <2>5
        <4> QED
          BY <2>1, <2>5, <2>6, <4>1
      <3> QED
        BY <2>1, <2>2, <2>5, <2>6, <3>1, <3>2 DEF Joined
    <2>8. Cost(q1) = Cost(a) + Cost(b1)
      BY <1>2, <2>5, <2>7
    <2>9. Cost(q) = Cost(q1) + ItemCost(q[m + 1])
      BY <2>1, <2>2, <2>6, CostFront
    <2>10. Cost(b) = Cost(b1) + ItemCost(b[n + 1])
      BY <2>1, <2>5, CostFront
    <2>11. q[m + 1] = b[n + 1]
      <3>1. n + 1 \in 1 .. Len(b) /\ (n + 1) + Len(a) = m + 1
        BY <2>1, <2>2
      <3> QED
        BY <2>1, <3>1
    <2>12. Cost(a) \in Nat /\ Cost(b1) \in Nat /\ b[n + 1] \in Item
      BY <2>1, <2>5, CostNat
    <2>13. ItemCost(b[n + 1]) \in Nat
      BY <2>12, Sizes DEF ItemCost, Item
    <2> QED
      BY <2>8, <2>9, <2>10, <2>11, <2>12, <2>13
  <1>3. Nat \subseteq S
    <2> HIDE DEF S
    <2> QED
      BY <1>1, <1>2, SetInduction
  <1> QED
    BY <1>3 DEF Joined

\* A sequence cut after its first k items.
LEMMA Cut ==
  ASSUME NEW q \in Seq(Item), NEW k \in 0 .. Len(q)
  PROVE  /\ Joined(SubSeq(q, 1, k), SubSeq(q, k + 1, Len(q)), q)
         /\ Len(SubSeq(q, 1, k)) = k /\ Len(SubSeq(q, k + 1, Len(q))) = Len(q) - k
         /\ Cost(q) = Cost(SubSeq(q, 1, k)) + Cost(SubSeq(q, k + 1, Len(q)))
  <1>1. PICK a : a = SubSeq(q, 1, k)
    OBVIOUS
  <1>2. PICK b : b = SubSeq(q, k + 1, Len(q))
    OBVIOUS
  <1>3. a \in Seq(Item) /\ Len(a) = k /\ \A i \in 1 .. k : q[i] = a[i]
    BY <1>1
  <1>4. b \in Seq(Item) /\ Len(b) = Len(q) - k /\ \A i \in 1 .. Len(b) : q[i + k] = b[i]
    BY <1>2
  <1>5. Joined(a, b, q)
    BY <1>3, <1>4 DEF Joined
  <1> QED
    BY <1>1, <1>2, <1>3, <1>4, <1>5, CostJoined

\* A set of naturals has a least element.
LEMMA Least ==
  ASSUME NEW T, T \subseteq Nat, T # {}
  PROVE  \E m \in T : \A y \in T : m <= y
  <1>1. PICK R : R = OpToRel(<, Nat) /\ IsWellFoundedOn(R, Nat)
    BY NatLessThanWellFounded
  <1>2. \A x, y \in Nat : <<x, y>> \in R <=> x < y
    BY <1>1 DEF OpToRel
  <1>3. PICK m \in T : \A y \in T : ~(<<y, m>> \in R)
    BY <1>1, WFMin
  <1>4. ASSUME NEW y \in T PROVE m <= y
    <2>1. m \in Nat /\ y \in Nat /\ ~(y < m)
      BY <1>2, <1>3
    <2> QED
      BY <2>1
  <1> QED
    BY <1>3, <1>4

\* Both halves of a split fit, as no item takes more than a third of a page.
LEMMA Halves ==
  ASSUME NEW items \in Seq(Item), Len(items) >= 2, NEW M \in Nat, 3 * M <= PageSpace,
         \A i \in 1 .. Len(items) : ItemCost(items[i]) <= M, Cost(items) <= PageSpace + M
  PROVE  /\ SplitAt(items) \in 1 .. Len(items) - 1
         /\ Cost(SubSeq(items, 1, SplitAt(items))) <= PageSpace
         /\ Cost(SubSeq(items, SplitAt(items) + 1, Len(items))) <= PageSpace
  <1> DEFINE passes(i) == 2 * Cost(SubSeq(items, 1, i)) >= Cost(items)
             isFirst(i) == passes(i) /\ \A j \in 1 .. i - 1 : ~passes(j)
             T == {i \in DOMAIN items : passes(i)}
  <1>1. PICK C \in Nat : C = Cost(items)
    BY CostNat
  <1>2. Len(items) \in Nat /\ DOMAIN items = 1 .. Len(items)
    OBVIOUS
  <1>3. ASSUME NEW k \in 0 .. Len(items)
        PROVE  /\ Cost(SubSeq(items, 1, k)) \in Nat
               /\ C = Cost(SubSeq(items, 1, k)) + Cost(SubSeq(items, k + 1, Len(items)))
               /\ Cost(SubSeq(items, k + 1, Len(items))) \in Nat
    <2>1. Joined(SubSeq(items, 1, k), SubSeq(items, k + 1, Len(items)), items)
      BY Cut
    <2>2. Cost(SubSeq(items, 1, k)) \in Nat /\ Cost(SubSeq(items, k + 1, Len(items))) \in Nat
      BY <2>1, CostNat DEF Joined
    <2> QED
      BY <1>1, <2>1, <2>2, CostJoined
  <1>4. passes(Len(items))
    <2>1. Len(items) \in 0 .. Len(items)
      BY <1>2
    <2>2. PICK e : e = SubSeq(items, Len(items) + 1, Len(items))
      OBVIOUS
    <2>3. e \in Seq(Item) /\ Len(e) = 0
      BY <2>2
    <2>4. Cost(e) = 0
      BY <2>3, CostEmpty
    <2>5. /\ Cost(SubSeq(items, 1, Len(items))) \in Nat
          /\ C = Cost(SubSeq(items, 1, Len(items))) + Cost(SubSeq(items, Len(items) + 1, Len(items)))
      BY <1>3, <2>1
    <2> QED
      BY <1>1, <2>2, <2>4, <2>5
  <1>5. PICK f \in T : \A y \in T : f <= y
    <2>1. T \subseteq Nat /\ T # {}
      BY <1>2, <1>4
    <2> HIDE DEF T
    <2> QED
      BY <2>1, Least
  <1>6. f \in DOMAIN items /\ isFirst(f)
    BY <1>2, <1>5
  <1>7. PICK first \in DOMAIN items : /\ passes(first) /\ \A j \in 1 .. first - 1 : ~passes(j)
                                      /\ SplitAt(items) = IF first = 1 THEN 1 ELSE first - 1
    <2>1. \E i : i \in DOMAIN items /\ isFirst(i)
      BY <1>6
    <2>2. PICK i : i = CHOOSE j \in DOMAIN items : isFirst(j)
      OBVIOUS
    <2> HIDE DEF isFirst
    <2>3. i \in DOMAIN items /\ isFirst(i)
      BY <2>1, <2>2
    <2>4. SplitAt(items) = IF i = 1 THEN 1 ELSE i - 1
      BY <2>2 DEF SplitAt, isFirst
    <2> QED
      BY <2>3, <2>4 DEF isFirst
  <1>8. SplitAt(items) \in 1 .. Len(items) - 1
    BY <1>2, <1>7
  <1>9. PICK a : a = SubSeq(items, 1, first)
    OBVIOUS
  <1>10. PICK b : b = SubSeq(items, 1, first - 1)
    OBVIOUS
  <1>11. Cost(a) = Cost(b) + ItemCost(items[first])
    <2>1. PICK n : n = first - 1
      OBVIOUS
    <2>0. n \in Nat /\ n + 1 = first
      BY <1>2, <1>7, <2>1
    <2>2. a \in Seq(Item) /\ Len(a) = n + 1 /\ b \in Seq(Item) /\ Len(b) = n /\ a[n + 1] = items[first]
      BY <1>2, <1>7, <1>9, <1>10, <2>0, <2>1
    <2>3. \A i \in 1 .. n : a[i] = b[i]
      BY <1>2, <1>7, <1>9, <1>10, <2>0, <2>1
    <2> QED
      BY <2>0, <2>2, <2>3, CostFront
  <1>12. ItemCost(items[first]) \in Nat /\ ItemCost(items[first]) <= M
    <2>1. items[first] \in Item
      BY <1>7
    <2> QED
      BY <1>2, <1>7, <2>1, Sizes, SMTT(20) DEF ItemCost, Item
  <1>13. first - 1 \in 0 .. Len(items) /\ first \in 0 .. Len(items)
    BY <1>2, <1>7
  <1>14. 2 * Cost(a) >= C /\ Cost(a) \in Nat
    BY <1>1, <1>3, <1>7, <1>9, <1>13
  <1>15. CASE first = 1
    <2>1. Cost(b) = 0
      <3>1. b \in Seq(Item) /\ Len(b) = 0
        BY <1>10, <1>15
      <3> QED
        BY <3>1, CostEmpty
    <2>2. SubSeq(items, 1, SplitAt(items)) = a /\ SplitAt(items) + 1 = 2
      BY <1>7, <1>9, <1>15
    <2>3. C = Cost(a) + Cost(SubSeq(items, SplitAt(items) + 1, Len(items)))
          /\ Cost(SubSeq(items, SplitAt(items) + 1, Len(items))) \in Nat
      BY <1>3, <1>9, <1>13, <1>15, <2>2
    <2>4. PICK u : u = Cost(SubSeq(items, SplitAt(items) + 1, Len(items)))
      OBVIOUS
    <2>5. PICK c : c = ItemCost(items[first])
      OBVIOUS
    <2>6. C = Cost(a) + u /\ u \in Nat /\ Cost(a) <= M
      BY <1>11, <1>12, <1>14, <2>1, <2>3, <2>4
    <2>7. C <= PageSpace + M /\ PageSpace \in Nat
      BY <1>1, Sizes
    <2>8. u <= PageSpace /\ Cost(a) <= PageSpace
      BY <1>14, <2>6, <2>7
    <2> QED
      BY <1>8, <2>1, <2>2, <2>4, <2>8
  <1>16. CASE first # 1
    <2>1. SplitAt(items) = first - 1 /\ SubSeq(items, 1, SplitAt(items)) = b
      BY <1>7, <1>10, <1>16
    <2>2. C = Cost(b) + Cost(SubSeq(items, SplitAt(items) + 1, Len(items)))
          /\ Cost(SubSeq(items, SplitAt(items) + 1, Len(items))) \in Nat /\ Cost(b) \in Nat
      BY <1>3, <1>10, <1>13, <2>1
    <2>3. 2 * Cost(b) < C
      <3>1. first - 1 \in 1 .. first - 1
        BY <1>2, <1>7, <1>16
      <3>2. ~passes(first - 1)
        BY <1>7, <3>1
      <3> QED
        BY <1>1, <1>10, <2>2, <3>2
    <2>4. PICK u : u = Cost(SubSeq(items, SplitAt(items) + 1, Len(items)))
      OBVIOUS
    <2>5. PICK c : c = ItemCost(items[first])
      OBVIOUS
    <2>6. C = Cost(b) + u /\ u \in Nat /\ Cost(b) \in Nat /\ Cost(a) <= Cost(b) + M
      BY <1>11, <1>12, <1>14, <2>2, <2>4
    <2>7. C <= PageSpace + M /\ PageSpace \in Nat
      BY <1>1, Sizes
    <2>8. u <= PageSpace /\ Cost(b) <= PageSpace
      BY <1>1, <1>14, <2>3, <2>6, <2>7
    <2> QED
      BY <1>8, <2>1, <2>2, <2>4, <2>8
  <1> QED
    BY <1>15, <1>16
-----------------------------------------------------------------------------
(* Searches in a page *)

\* The middle of an interval.
LEMMA Middle ==
  ASSUME NEW x \in Nat, NEW y \in Nat, x < y
  PROVE  (x + y) \div 2 \in Nat /\ x <= (x + y) \div 2 /\ (x + y) \div 2 < y
  OBVIOUS

\* The binary search is well defined: enough rounds settle every interval.
LEMMA SearchIs ==
  ASSUME NEW page, NEW key \in Nat, page.items \in Seq(Item)
  PROVE  \E b : /\ \A x, y \in 0 .. Len(page.items) : b[<<x, y>>] = SearchAt(page.items, key, b, x, y)
                /\ SlotSearch(page, key) = b[<<0, Len(page.items)>>]
  <1>1. PICK items : items = page.items
    OBVIOUS
  <1>2. PICK n \in Nat : n = Len(items) /\ items \in Seq(Item)
    BY <1>1
  <1>3. \E b : b = SearchStep(items, key, b)
    <2>1. PICK F : Follows(F, "search", <<items, key>>, 0, n + 2)
      <3>1. n + 2 \in Nat
        OBVIOUS
      <3> QED
        BY <3>1, FollowsExists
    <2>2. \A f, k : StepOf("search", <<items, key>>, f, k) = SearchStep(items, key, f)
      BY DEF StepOf
    <2>3. ASSUME NEW k \in 0 .. n + 1 PROVE F[k + 1] = SearchStep(items, key, F[k])
      <3>1. k + 1 \in 0 .. n + 2 /\ k + 1 # 0 /\ (k + 1) - 1 = k
        BY <2>3
      <3> QED
        BY <2>1, <2>2, <3>1 DEF Follows
    <2>4. ASSUME NEW k \in 0 .. n + 1, NEW x \in 0 .. n, NEW y \in 0 .. n
          PROVE  F[k + 1][<<x, y>>] = SearchAt(items, key, F[k], x, y)
      <3>1. PICK f : f = F[k]
        OBVIOUS
      <3>2. F[k + 1] = SearchStep(items, key, f)
        BY <2>3, <3>1
      <3>3. <<x, y>> \in (0 .. n) \X (0 .. n) /\ <<x, y>>[1] = x /\ <<x, y>>[2] = y
        OBVIOUS
      <3>4. SearchStep(items, key, f)[<<x, y>>] = SearchAt(items, key, f, x, y)
        BY <1>2, <3>3 DEF SearchStep, Pairs
      <3> QED
        BY <3>1, <3>2, <3>4
    <2> DEFINE Settled(d) == \A x, y \in 0 .. n : y - x <= d => F[d + 1][<<x, y>>] = F[d + 2][<<x, y>>]
               S == {d \in Nat : d <= n => Settled(d)}
    <2>5. 0 \in S
      <3> SUFFICES ASSUME NEW x \in 0 .. n, NEW y \in 0 .. n, y - x <= 0
                   PROVE  F[1][<<x, y>>] = F[2][<<x, y>>]
        OBVIOUS
      <3>1. F[0 + 1][<<x, y>>] = SearchAt(items, key, F[0], x, y) /\ F[1 + 1][<<x, y>>] = SearchAt(items, key, F[1], x, y)
        BY <2>4
      <3>2. x >= y
        OBVIOUS
      <3>3. SearchAt(items, key, F[0], x, y) = [found |-> FALSE, at |-> x + 1]
        BY <3>2 DEF SearchAt
      <3>4. SearchAt(items, key, F[1], x, y) = [found |-> FALSE, at |-> x + 1]
        BY <3>2 DEF SearchAt
      <3> QED
        BY <3>1, <3>3, <3>4
    <2>6. ASSUME NEW d \in Nat, d \in S PROVE d + 1 \in S
      <3> SUFFICES ASSUME d + 1 <= n, NEW x \in 0 .. n, NEW y \in 0 .. n, y - x <= d + 1
                   PROVE  F[d + 2][<<x, y>>] = F[d + 3][<<x, y>>]
        OBVIOUS
      <3>1. F[(d + 1) + 1][<<x, y>>] = SearchAt(items, key, F[d + 1], x, y)
        BY <2>4, SMTT(20)
      <3>2. F[(d + 2) + 1][<<x, y>>] = SearchAt(items, key, F[d + 2], x, y)
        BY <2>4
      <3>3. SearchAt(items, key, F[d + 1], x, y) = SearchAt(items, key, F[d + 2], x, y)
        <4>1. CASE x >= y
          BY <4>1 DEF SearchAt
        <4>2. CASE x < y
          <5>1. PICK mid : mid = (x + y) \div 2
            OBVIOUS
          <5>2. mid \in Nat /\ x <= mid /\ mid < y /\ ~(x >= y)
            BY <4>2, <5>1, Middle
          <5>3. F[d + 1][<<mid + 1, y>>] = F[d + 2][<<mid + 1, y>>]
            <6>1. mid + 1 \in 0 .. n /\ y - (mid + 1) <= d /\ d <= n
              BY <5>2
            <6> QED
              BY <2>6, <6>1
          <5>4. F[d + 1][<<x, mid>>] = F[d + 2][<<x, mid>>]
            <6>1. mid \in 0 .. n /\ mid - x <= d /\ d <= n
              BY <5>2
            <6> QED
              BY <2>6, <6>1
          <5>5. items[mid + 1].key \in Nat
            <6>1. items[mid + 1] \in Item
              BY <1>2, <5>2
            <6> QED
              BY <6>1 DEF Item
          <5> QED
            BY <5>1, <5>2, <5>3, <5>4, <5>5 DEF SearchAt
        <4> QED
          BY <4>1, <4>2
      <3> QED
        BY <3>1, <3>2, <3>3
    <2>7. Nat \subseteq S
      <3> HIDE DEF S
      <3> QED
        BY <2>5, <2>6, SetInduction
    <2>8. \A x, y \in 0 .. n : F[n + 1][<<x, y>>] = F[n + 2][<<x, y>>]
      <3>1. n \in S
        BY <2>7
      <3>2. ASSUME NEW x \in 0 .. n, NEW y \in 0 .. n PROVE y - x <= n
        OBVIOUS
      <3>3. \A x, y \in 0 .. n : y - x <= n => F[n + 1][<<x, y>>] = F[n + 2][<<x, y>>]
        BY <3>1
      <3> HIDE DEF S
      <3> QED
        BY <3>2, <3>3
    <2>9. \A x, y \in 0 .. n : F[n + 1][<<x, y>>] = SearchAt(items, key, F[n + 1], x, y)
      <3>1. n + 1 \in 0 .. n + 1 /\ n + 2 = (n + 1) + 1
        OBVIOUS
      <3>2. \A x, y \in 0 .. n : F[(n + 1) + 1][<<x, y>>] = SearchAt(items, key, F[n + 1], x, y)
        BY <2>4, <3>1
      <3> QED
        BY <2>8, <3>1, <3>2
    <2>10. PICK b : b = F[n + 1]
      OBVIOUS
    <2>11. b = [r \in Pairs(n) |-> b[r]]
      <3>1. n \in 0 .. n + 1
        OBVIOUS
      <3>2. b = SearchStep(items, key, F[n])
        BY <2>3, <2>10, <3>1
      <3> QED
        BY <1>2, <3>2 DEF SearchStep
    <2>12. ASSUME NEW r \in Pairs(n) PROVE b[r] = SearchAt(items, key, b, r[1], r[2])
      <3>1. r = <<r[1], r[2]>> /\ r[1] \in 0 .. n /\ r[2] \in 0 .. n
        BY DEF Pairs
      <3> QED
        BY <2>9, <2>10, <3>1
    <2>13. b = SearchStep(items, key, b)
      BY <1>2, <2>11, <2>12 DEF SearchStep
    <2> QED
      BY <2>13
  <1>4. PICK b : /\ b = CHOOSE c : c = SearchStep(page.items, key, c)
                 /\ SlotSearch(page, key) = b[<<0, Len(page.items)>>]
    BY Zenon DEF SlotSearch, SearchStep, SearchAt, Pairs
  <1>5. b = SearchStep(items, key, b)
    BY <1>1, <1>3, <1>4, Zenon
  <1>6. \A x, y \in 0 .. n : b[<<x, y>>] = SearchAt(items, key, b, x, y)
    <2> SUFFICES ASSUME NEW x \in 0 .. n, NEW y \in 0 .. n PROVE b[<<x, y>>] = SearchAt(items, key, b, x, y)
      OBVIOUS
    <2>1. PICK r : r = <<x, y>>
      OBVIOUS
    <2>2. r \in Pairs(n) /\ r[1] = x /\ r[2] = y
      BY <2>1 DEF Pairs
    <2> QED
      BY <1>2, <1>5, <2>1, <2>2 DEF SearchStep
  <1>7. \A x, y \in 0 .. Len(page.items) : b[<<x, y>>] = SearchAt(page.items, key, b, x, y)
    BY <1>1, <1>2, <1>6
  <1>8. SlotSearch(page, key) = b[<<0, Len(page.items)>>]
    BY <1>4
  <1> QED
    BY <1>7, <1>8

Sorted(items) == \A i, j \in 1 .. Len(items) : i < j => items[i].key < items[j].key

\* What a search in sorted items returns: the slot, or where the key would go.
SlotOK(items, key, slot) ==
  /\ slot.found \in BOOLEAN /\ slot.at \in 1 .. Len(items) + 1
  /\ \A j \in 1 .. slot.at - 1 : items[j].key < key
  /\ slot.found => slot.at <= Len(items) /\ items[slot.at].key = key
  /\ ~slot.found => \A j \in slot.at .. Len(items) : items[j].key > key

\* The binary search of a page finds the slot.
LEMMA SlotIs ==
  ASSUME NEW page, NEW key \in Nat, page.items \in Seq(Item), Sorted(page.items)
  PROVE  SlotOK(page.items, key, SlotSearch(page, key))
  <1>1. PICK items : items = page.items
    OBVIOUS
  <1>2. PICK n \in Nat : n = Len(items) /\ items \in Seq(Item)
    BY <1>1
  <1>3. PICK b : /\ \A x, y \in 0 .. n : b[<<x, y>>] = SearchAt(items, key, b, x, y)
                 /\ SlotSearch(page, key) = b[<<0, n>>]
    BY <1>1, <1>2, SearchIs, ZenonT(30)
  <1>4. \A i \in 1 .. n : items[i].key \in Nat
    <2>1. \A i \in 1 .. n : items[i] \in Item
      BY <1>2
    <2> QED
      BY <2>1 DEF Item
  <1>5. \A i, j \in 1 .. n : i < j => items[i].key < items[j].key
    BY <1>1, <1>2 DEF Sorted
  <1> DEFINE Around(x, y) == (\A j \in 1 .. x : items[j].key < key) /\ (\A j \in y + 1 .. n : items[j].key > key)
             S == {d \in Nat : \A x, y \in 0 .. n : x <= y /\ y - x <= d /\ Around(x, y) => SlotOK(items, key, b[<<x, y>>])}
  <1>6. ASSUME NEW x \in 0 .. n, NEW y \in 0 .. n, x = y, Around(x, y) PROVE SlotOK(items, key, b[<<x, y>>])
    <2>0. x >= y /\ b[<<x, y>>] = SearchAt(items, key, b, x, y)
      BY <1>3, <1>6
    <2>1. b[<<x, y>>] = [found |-> FALSE, at |-> x + 1]
      BY <2>0 DEF SearchAt
    <2> QED
      BY <1>2, <1>6, <2>1 DEF SlotOK
  <1>7. 0 \in S
    BY <1>6
  <1>8. ASSUME NEW d \in Nat, d \in S PROVE d + 1 \in S
    <2> SUFFICES ASSUME NEW x \in 0 .. n, NEW y \in 0 .. n, x < y, y - x <= d + 1, Around(x, y)
                 PROVE  SlotOK(items, key, b[<<x, y>>])
      BY <1>6
    <2>1. PICK mid : mid = (x + y) \div 2
      OBVIOUS
    <2>2. mid \in Nat /\ x <= mid /\ mid < y /\ ~(x >= y)
      BY <2>1, Middle
    <2>0. b[<<x, y>>] = SearchAt(items, key, b, x, y)
      BY <1>3
    <2>3. mid + 1 \in 1 .. n /\ items[mid + 1].key \in Nat
      BY <1>4, <2>2
    <2>4. CASE items[mid + 1].key < key
      <3>1. b[<<x, y>>] = b[<<mid + 1, y>>]
        BY <2>0, <2>1, <2>2, <2>4 DEF SearchAt
      <3>2. ASSUME NEW j \in 1 .. mid + 1 PROVE items[j].key < key
        <4>1. j \in 1 .. n /\ (j = mid + 1 \/ j < mid + 1)
          BY <2>2, <2>3
        <4>2. items[j].key \in Nat /\ items[j].key <= items[mid + 1].key
          <5>1. items[j].key \in Nat
            BY <1>4, <4>1
          <5>2. j < mid + 1 => items[j].key < items[mid + 1].key
            BY <1>5, <2>3, <4>1
          <5> QED
            BY <2>3, <4>1, <5>1, <5>2
        <4> QED
          BY <2>3, <2>4, <4>2
      <3>3. mid + 1 \in 0 .. n /\ mid + 1 <= y /\ y - (mid + 1) <= d /\ Around(mid + 1, y)
        BY <2>2, <3>2
      <3> QED
        BY <1>8, <3>1, <3>3
    <2>5. CASE items[mid + 1].key > key
      <3>1. b[<<x, y>>] = b[<<x, mid>>]
        BY <2>0, <2>1, <2>2, <2>3, <2>5 DEF SearchAt
      <3>2. ASSUME NEW j \in mid + 1 .. n PROVE items[j].key > key
        <4>1. j \in 1 .. n /\ (j = mid + 1 \/ mid + 1 < j)
          BY <2>2
        <4>2. items[j].key \in Nat /\ items[mid + 1].key <= items[j].key
          BY <1>4, <1>5, <2>3, <4>1
        <4> QED
          BY <2>3, <2>5, <4>2
      <3>3. mid \in 0 .. n /\ x <= mid /\ mid - x <= d /\ Around(x, mid)
        BY <2>2, <3>2
      <3> QED
        BY <1>8, <3>1, <3>3
    <2>6. CASE items[mid + 1].key = key
      <3>1. b[<<x, y>>] = [found |-> TRUE, at |-> mid + 1]
        BY <2>0, <2>1, <2>2, <2>3, <2>6 DEF SearchAt
      <3>2. ASSUME NEW j \in 1 .. mid PROVE items[j].key < key
        BY <1>5, <2>2, <2>3, <2>6
      <3>3. (mid + 1) - 1 = mid
        BY <2>2
      <3> QED
        BY <1>2, <2>3, <2>6, <3>1, <3>2, <3>3 DEF SlotOK
    <2> QED
      BY <2>3, <2>4, <2>5, <2>6
  <1>9. Nat \subseteq S
    <2> HIDE DEF S
    <2> QED
      BY <1>7, <1>8, SetInduction
  <1>10. SlotOK(items, key, b[<<0, n>>])
    <2>1. n \in S
      BY <1>9
    <2>2. Around(0, n) /\ 0 \in 0 .. n /\ n \in 0 .. n /\ n - 0 <= n
      OBVIOUS
    <2> QED
      BY <2>1, <2>2
  <1> QED
    BY <1>1, <1>3, <1>10
-----------------------------------------------------------------------------
(* The allocator *)

\* h is f, but for v at x.
Sets(f, x, v, h) ==
  DOMAIN h = DOMAIN f \cup {x} /\ h[x] = v /\ \A y \in DOMAIN f : y # x => h[y] = f[y]

\* One page of s is written.
Changed(s, id, page, s2) == Sets(s.pages, id, page, s2.pages)

\* h is f without x.
Drops(f, x, h) == DOMAIN h = DOMAIN f \ {x} /\ \A y \in DOMAIN h : h[y] = f[y]

\* A page of each kind belongs to one part of the file.
LEMMA PageSets ==
  ASSUME NEW s, NEW id, NEW page, NEW s2, Changed(s, id, page, s2)
  PROVE  /\ page.kind \in {"Leaf", "Internal"} /\ id \notin Overflowing(s) =>
              Sets(Tree(s), id, page, Tree(s2)) /\ Over(s2) = Over(s)
         /\ page.kind = "Overflow" /\ id \notin Nodes(s) =>
              Sets(Over(s), id, page, Over(s2)) /\ Tree(s2) = Tree(s)
         /\ page.kind = "Free" /\ id \in Nodes(s) => Drops(Tree(s), id, Tree(s2)) /\ Over(s2) = Over(s)
         /\ page.kind = "Free" /\ id \in Overflowing(s) => Drops(Over(s), id, Over(s2)) /\ Tree(s2) = Tree(s)
         /\ page.kind # "Free" => Frees(s2) = Frees(s) \ {id}
         /\ page.kind = "Free" => Frees(s2) = Frees(s) \cup {id}
  <1>1. /\ DOMAIN s2.pages = DOMAIN s.pages \cup {id} /\ s2.pages[id] = page
        /\ \A y \in DOMAIN s.pages : y # id => s2.pages[y] = s.pages[y]
    BY DEF Changed, Sets
  <1>2. \A x : x \in Nodes(s2) <=> (IF x = id THEN page.kind \in {"Leaf", "Internal"} ELSE x \in Nodes(s))
    BY <1>1 DEF Nodes
  <1>3. \A x : x \in Overflowing(s2) <=> (IF x = id THEN page.kind = "Overflow" ELSE x \in Overflowing(s))
    BY <1>1 DEF Overflowing
  <1>4. \A x : x \in Frees(s2) <=> (IF x = id THEN page.kind = "Free" ELSE x \in Frees(s))
    BY <1>1 DEF Frees
  <1>5. /\ DOMAIN Tree(s) = Nodes(s) /\ DOMAIN Tree(s2) = Nodes(s2)
        /\ DOMAIN Over(s) = Overflowing(s) /\ DOMAIN Over(s2) = Overflowing(s2)
    BY DEF Tree, Over
  <1>6. /\ \A x \in Nodes(s) : x # id => Tree(s)[x] = s2.pages[x]
        /\ \A x \in Nodes(s2) : Tree(s2)[x] = s2.pages[x]
    BY <1>1 DEF Tree, Nodes
  <1>7. /\ \A x \in Overflowing(s) : x # id => Over(s)[x] = s2.pages[x]
        /\ \A x \in Overflowing(s2) : Over(s2)[x] = s2.pages[x]
    BY <1>1 DEF Over, Overflowing
  <1>8. Nodes(s) \cap Overflowing(s) = {}
    BY DEF Nodes, Overflowing
  <1>9. ASSUME Nodes(s2) = Nodes(s), id \notin Nodes(s) PROVE Tree(s2) = Tree(s)
    <2>1. Tree(s) = [x \in Nodes(s) |-> Tree(s)[x]] /\ Tree(s2) = [x \in Nodes(s) |-> Tree(s2)[x]]
      BY <1>9 DEF Tree
    <2>2. \A x \in Nodes(s) : Tree(s2)[x] = Tree(s)[x]
      BY <1>6, <1>9
    <2> QED
      BY <2>1, <2>2
  <1>10. ASSUME Overflowing(s2) = Overflowing(s), id \notin Overflowing(s) PROVE Over(s2) = Over(s)
    <2>1. Over(s) = [x \in Overflowing(s) |-> Over(s)[x]] /\ Over(s2) = [x \in Overflowing(s) |-> Over(s2)[x]]
      BY <1>10 DEF Over
    <2>2. \A x \in Overflowing(s) : Over(s2)[x] = Over(s)[x]
      BY <1>7, <1>10
    <2> QED
      BY <2>1, <2>2
  <1>11. ASSUME page.kind \in {"Leaf", "Internal"}, id \notin Overflowing(s)
         PROVE  Sets(Tree(s), id, page, Tree(s2)) /\ Over(s2) = Over(s)
    <2>1. page.kind # "Overflow"
      BY <1>11
    <2>2. Overflowing(s2) = Overflowing(s)
      BY <1>3, <1>11, <2>1
    <2>3. Nodes(s2) = Nodes(s) \cup {id}
      BY <1>2, <1>11
    <2>4. Tree(s2)[id] = page /\ \A y \in Nodes(s) : y # id => Tree(s2)[y] = Tree(s)[y]
      BY <1>1, <1>6, <2>3
    <2> QED
      BY <1>5, <1>10, <1>11, <2>2, <2>3, <2>4 DEF Sets
  <1>12. ASSUME page.kind = "Overflow", id \notin Nodes(s)
         PROVE  Sets(Over(s), id, page, Over(s2)) /\ Tree(s2) = Tree(s)
    <2>1. Nodes(s2) = Nodes(s)
      BY <1>2, <1>12
    <2>2. Overflowing(s2) = Overflowing(s) \cup {id}
      BY <1>3, <1>12
    <2>3. Over(s2)[id] = page /\ \A y \in Overflowing(s) : y # id => Over(s2)[y] = Over(s)[y]
      BY <1>1, <1>7, <2>2
    <2> QED
      BY <1>5, <1>9, <1>12, <2>1, <2>2, <2>3 DEF Sets
  <1>13. ASSUME page.kind = "Free", id \in Nodes(s)
         PROVE  Drops(Tree(s), id, Tree(s2)) /\ Over(s2) = Over(s)
    <2>1. Overflowing(s2) = Overflowing(s) /\ id \notin Overflowing(s)
      BY <1>3, <1>8, <1>13
    <2>2. Nodes(s2) = Nodes(s) \ {id}
      BY <1>2, <1>13
    <2>3. \A y \in Nodes(s2) : Tree(s2)[y] = Tree(s)[y]
      BY <1>6, <2>2
    <2> QED
      BY <1>5, <1>10, <2>1, <2>2, <2>3 DEF Drops
  <1>14. ASSUME page.kind = "Free", id \in Overflowing(s)
         PROVE  Drops(Over(s), id, Over(s2)) /\ Tree(s2) = Tree(s)
    <2>1. Nodes(s2) = Nodes(s) /\ id \notin Nodes(s)
      BY <1>2, <1>8, <1>14
    <2>2. Overflowing(s2) = Overflowing(s) \ {id}
      BY <1>3, <1>14
    <2>3. \A y \in Overflowing(s2) : Over(s2)[y] = Over(s)[y]
      BY <1>7, <2>2
    <2> QED
      BY <1>5, <1>9, <2>1, <2>2, <2>3 DEF Drops
  <1>15. page.kind # "Free" => Frees(s2) = Frees(s) \ {id}
    BY <1>4
  <1>16. page.kind = "Free" => Frees(s2) = Frees(s) \cup {id}
    BY <1>4
  <1> QED
    BY <1>11, <1>12, <1>13, <1>14, <1>15, <1>16

\* The parts of a file, as functions.
LEMMA Parts ==
  ASSUME NEW s
  PROVE  /\ DOMAIN Tree(s) = Nodes(s) /\ DOMAIN Over(s) = Overflowing(s)
         /\ \A a \in Nodes(s) : Tree(s)[a] = s.pages[a] /\ s.pages[a].kind \in {"Leaf", "Internal"}
         /\ \A a \in Overflowing(s) : Over(s)[a] = s.pages[a] /\ s.pages[a].kind = "Overflow"
         /\ Nodes(s) \cap Overflowing(s) = {} /\ Nodes(s) \cap Frees(s) = {} /\ Overflowing(s) \cap Frees(s) = {}
         /\ Nodes(s) \subseteq DOMAIN s.pages /\ Overflowing(s) \subseteq DOMAIN s.pages
  BY DEF Tree, Over, Nodes, Overflowing, Frees

\* The free pages after a write.
LEMMA FreesSet ==
  ASSUME NEW s, NEW id, NEW page, NEW s2, Changed(s, id, page, s2), page.kind # "Free"
  PROVE  Frees(s2) = Frees(s) \ {id}
  BY PageSets

\* A node is written.
LEMMA NodeSet ==
  ASSUME NEW s, NEW id, NEW page, NEW s2, Changed(s, id, page, s2),
         page.kind \in {"Leaf", "Internal"}, id \notin Overflowing(s)
  PROVE  Sets(Tree(s), id, page, Tree(s2)) /\ Over(s2) = Over(s)
  BY PageSets

\* A page of a chain is written.
LEMMA OverSet ==
  ASSUME NEW s, NEW id, NEW page, NEW s2, Changed(s, id, page, s2), page.kind = "Overflow", id \notin Nodes(s)
  PROVE  Sets(Over(s), id, page, Over(s2)) /\ Tree(s2) = Tree(s)
  BY PageSets

\* A page is freed.
LEMMA FreeSet ==
  ASSUME NEW s, NEW id, NEW page, NEW s2, Changed(s, id, page, s2), page.kind = "Free"
  PROVE  /\ Frees(s2) = Frees(s) \cup {id}
         /\ id \in Nodes(s) => Drops(Tree(s), id, Tree(s2)) /\ Over(s2) = Over(s)
         /\ id \in Overflowing(s) => Drops(Over(s), id, Over(s2)) /\ Tree(s2) = Tree(s)
  BY PageSets

\* A file is a store whose pages are numbered from 1.
LEMMA FileFacts ==
  ASSUME NEW s, NEW q, FileOK(s, q)
  PROVE  /\ Len(s.pages) \in Nat /\ DOMAIN s.pages = 1 .. Len(s.pages) /\ s.free \in Nat
         /\ s.pages \in Seq(Node \cup Other) /\ \A id \in DOMAIN s.pages : s.pages[id] \in Node \cup Other
         /\ \A id \in Nodes(s) : s.pages[id] \in Node /\ id \in 1 .. Len(s.pages)
         /\ \A id \in Overflowing(s) : s.pages[id] \in Other /\ id \in 1 .. Len(s.pages)
         /\ s = [pages |-> s.pages, free |-> s.free]
  <1>1. s \in Store
    BY DEF FileOK
  <1>2. s.pages \in Seq(Node \cup Other) /\ s.free \in Nat /\ s = [pages |-> s.pages, free |-> s.free]
    BY <1>1 DEF Store
  <1>3. Len(s.pages) \in Nat /\ DOMAIN s.pages = 1 .. Len(s.pages) /\ \A id \in DOMAIN s.pages : s.pages[id] \in Node \cup Other
    BY <1>2
  <1>4. ASSUME NEW id \in Nodes(s) PROVE s.pages[id] \in Node /\ id \in 1 .. Len(s.pages)
    BY <1>3, <1>4 DEF Nodes, Node, Other
  <1>5. ASSUME NEW id \in Overflowing(s) PROVE s.pages[id] \in Other /\ id \in 1 .. Len(s.pages)
    BY <1>3, <1>5 DEF Overflowing, Node, Other
  <1> QED
    BY <1>2, <1>3, <1>4, <1>5

\* Writing a page that is not free leaves the free list alone.
LEMMA PutFile ==
  ASSUME NEW s, NEW q, FileOK(s, q), NEW id \in DOMAIN s.pages, id \notin Frees(s),
         NEW page \in Node \cup Other, page.kind # "Free", page.extra <= Len(s.pages),
         NEW s2, s2 = Put(s, id, page)
  PROVE  FileOK(s2, q) /\ Changed(s, id, page, s2) /\ Len(s2.pages) = Len(s.pages)
  <1>1. /\ Len(s.pages) \in Nat /\ DOMAIN s.pages = 1 .. Len(s.pages) /\ s.free \in Nat
        /\ s.pages \in Seq(Node \cup Other) /\ s = [pages |-> s.pages, free |-> s.free]
    BY FileFacts
  <1>2. s2.pages = [s.pages EXCEPT ![id] = page] /\ s2.free = s.free /\ s2 = [pages |-> s2.pages, free |-> s2.free]
    BY <1>1 DEF Put
  <1>3. s2.pages \in Seq(Node \cup Other) /\ Len(s2.pages) = Len(s.pages) /\ DOMAIN s2.pages = 1 .. Len(s.pages)
    BY <1>1, <1>2
  <1>4. Changed(s, id, page, s2)
    BY <1>1, <1>2, <1>3 DEF Changed, Sets
  <1>5. s2 \in Store
    BY <1>1, <1>2, <1>3 DEF Store
  <1>6. Linked(s2)
    <2>1. s.free <= Len(s.pages) /\ \A x \in DOMAIN s.pages : s.pages[x].extra <= Len(s.pages)
      BY DEF FileOK, Linked
    <2>2. \A x \in DOMAIN s2.pages : s2.pages[x].extra <= Len(s.pages)
      BY <1>1, <1>3, <1>4, <2>1 DEF Changed, Sets
    <2> QED
      BY <1>2, <1>3, <2>1, <2>2 DEF Linked
  <1>7. Frees(s2) = Frees(s)
    <2>1. Frees(s2) = Frees(s) \ {id}
      BY <1>4, FreesSet
    <2> QED
      BY <2>1
  <1>8. FreeList(s2, q)
    <2>1. FreeList(s, q)
      BY DEF FileOK
    <2>2. \A x \in Frees(s) : s2.pages[x] = s.pages[x]
      BY <1>4 DEF Changed, Sets, Frees
    <2> QED
      BY <1>2, <1>7, <2>1, <2>2 DEF FreeList
  <1> QED
    BY <1>3, <1>4, <1>5, <1>6, <1>8 DEF FileOK

\* An allocated page is new to the tree and to the chains.
LEMMA AllocFile ==
  ASSUME NEW s, NEW q, FileOK(s, q), NEW kind \in {"Leaf", "Internal", "Overflow"},
         NEW new, new = AllocPage(s, kind)
  PROVE  \E q2 : /\ FileOK(new.s, q2) /\ Changed(s, new.id, NewPage(kind), new.s)
                 /\ new.id \in DOMAIN new.s.pages /\ new.id \in Nat \ {0} /\ new.id \notin Nodes(s) /\ new.id \notin Overflowing(s)
                 /\ Len(s.pages) <= Len(new.s.pages)
  <1>1. /\ Len(s.pages) \in Nat /\ DOMAIN s.pages = 1 .. Len(s.pages) /\ s.free \in Nat
        /\ s.pages \in Seq(Node \cup Other) /\ s = [pages |-> s.pages, free |-> s.free]
    BY FileFacts
  <1>2. NewPage(kind) \in Node \cup Other /\ NewPage(kind).kind = kind /\ NewPage(kind).extra = 0
    BY Sizes DEF NewPage, NoPage, Node, Other
  <1>3. FreeList(s, q) /\ Linked(s)
    BY DEF FileOK
  <1>4. CASE s.free # NoPage
    <2>1. /\ new.id = s.free
          /\ new.s = [pages |-> [s.pages EXCEPT ![s.free] = NewPage(kind)], free |-> s.pages[s.free].extra]
      BY <1>4 DEF AllocPage
    <2>2. Len(q) \in Nat /\ 1 <= Len(q) /\ s.free = q[1] /\ q \in Seq(Nat)
      BY <1>3, <1>4 DEF FreeList, Link, NoPage
    <2>3. 1 \in 1 .. Len(q)
      BY <2>2
    <2>4. s.free \in Frees(s) /\ s.pages[s.free].extra = Link(q, 2)
      BY <1>3, <2>2, <2>3 DEF FreeList
    <2>5. s.free \in DOMAIN s.pages /\ s.free \in Nat \ {0} /\ s.free \notin Nodes(s) /\ s.free \notin Overflowing(s)
      BY <1>1, <2>4 DEF Frees, Nodes, Overflowing
    <2>6. /\ new.s.pages = [s.pages EXCEPT ![new.id] = NewPage(kind)] /\ new.s.free = s.pages[s.free].extra
          /\ new.s = [pages |-> new.s.pages, free |-> new.s.free]
      BY <2>1
    <2>7. new.s.pages \in Seq(Node \cup Other) /\ Len(new.s.pages) = Len(s.pages) /\ DOMAIN new.s.pages = 1 .. Len(s.pages)
      BY <1>1, <1>2, <2>1, <2>5, <2>6
    <2>8. Changed(s, new.id, NewPage(kind), new.s)
      BY <1>1, <2>1, <2>5, <2>6, <2>7 DEF Changed, Sets
    <2>9. s.pages[s.free].extra \in Nat /\ s.pages[s.free].extra <= Len(s.pages)
      <3>1. s.pages[s.free] \in Node \cup Other
        BY <1>1, <2>5
      <3> QED
        BY <1>3, <2>5, <3>1 DEF Linked, Node, Other
    <2>10. new.s \in Store
      BY <2>6, <2>7, <2>9 DEF Store
    <2>11. Linked(new.s)
      <3>1. \A x \in DOMAIN s.pages : s.pages[x].extra <= Len(s.pages)
        BY <1>3 DEF Linked
      <3>2. 0 <= Len(s.pages)
        BY <1>1
      <3>3. \A x \in DOMAIN new.s.pages : new.s.pages[x].extra <= Len(s.pages)
        BY <1>1, <1>2, <2>7, <2>8, <3>1, <3>2 DEF Changed, Sets
      <3> QED
        BY <2>6, <2>7, <2>9, <3>3 DEF Linked
    <2>12. PICK t : t = Tail(q)
      OBVIOUS
    <2>13. t \in Seq(Nat) /\ Len(t) = Len(q) - 1 /\ \A i \in 1 .. Len(t) : t[i] = q[i + 1]
      BY <2>2, <2>12
    <2>14. Distinct(t)
      <3> SUFFICES ASSUME NEW i \in 1 .. Len(t), NEW j \in 1 .. Len(t), t[i] = t[j] PROVE i = j
        BY DEF Distinct
      <3>1. i + 1 \in 1 .. Len(q) /\ j + 1 \in 1 .. Len(q) /\ q[i + 1] = q[j + 1]
        BY <2>2, <2>13, SMTT(20)
      <3> QED
        <4>1. \A x, y \in 1 .. Len(q) : q[x] = q[y] => x = y
          BY <1>3 DEF FreeList, Distinct
        <4>2. i + 1 = j + 1
          BY <3>1, <4>1
        <4> QED
          BY <2>2, <2>13, <4>2
    <2>15. Frees(new.s) = Frees(s) \ {new.id}
      <3>1. NewPage(kind).kind # "Free"
        BY <1>2
      <3> QED
        BY <2>8, <3>1, FreesSet
    <2>16. ASSUME NEW i \in 1 .. Len(t)
           PROVE  t[i] \in Frees(new.s) /\ new.s.pages[t[i]].extra = Link(t, i + 1)
      <3>1. i + 1 \in 1 .. Len(q) /\ t[i] = q[i + 1] /\ i + 1 # 1
        BY <2>2, <2>13
      <3>2. q[i + 1] \in Frees(s) /\ s.pages[q[i + 1]].extra = Link(q, (i + 1) + 1)
        BY <1>3, <3>1 DEF FreeList
      <3>3. q[i + 1] # q[1]
        BY <1>3, <2>3, <3>1 DEF FreeList, Distinct
      <3>4. Link(q, (i + 1) + 1) = Link(t, i + 1)
        <4>1. (i + 1) + 1 <= Len(q) <=> i + 1 <= Len(t)
          BY <2>2, <2>13
        <4>2. i + 1 <= Len(t) => i + 1 \in 1 .. Len(t) /\ t[i + 1] = q[(i + 1) + 1]
          BY <2>2, <2>13
        <4> QED
          BY <4>1, <4>2 DEF Link
      <3>5. t[i] \in DOMAIN s.pages /\ new.s.pages[t[i]] = s.pages[t[i]]
        BY <2>1, <2>2, <2>8, <3>1, <3>2, <3>3 DEF Changed, Sets, Frees
      <3> QED
        BY <2>1, <2>2, <2>15, <3>1, <3>2, <3>3, <3>4, <3>5
    <2>17. ASSUME NEW id \in Frees(new.s) PROVE \E i \in 1 .. Len(t) : t[i] = id
      <3>1. id \in Frees(s) /\ id # q[1]
        BY <2>1, <2>2, <2>15
      <3>2. PICK j \in 1 .. Len(q) : q[j] = id
        BY <1>3, <3>1 DEF FreeList
      <3>3. j - 1 \in 1 .. Len(t) /\ t[j - 1] = q[(j - 1) + 1] /\ (j - 1) + 1 = j
        BY <2>2, <2>13, <3>1, <3>2, SMTT(20)
      <3> QED
        BY <3>2, <3>3
    <2>18. new.s.free = Link(t, 1)
      BY <2>2, <2>4, <2>6, <2>13 DEF Link
    <2>19. FreeList(new.s, t)
      BY <2>13, <2>14, <2>16, <2>17, <2>18 DEF FreeList
    <2> QED
      BY <1>1, <2>1, <2>5, <2>7, <2>8, <2>10, <2>11, <2>19 DEF FileOK
  <1>5. CASE s.free = NoPage
    <2>1. new.id = Len(s.pages) + 1 /\ new.s = [s EXCEPT !.pages = Append(@, NewPage(kind))]
      BY <1>5 DEF AllocPage
    <2>2. /\ new.s.pages = Append(s.pages, NewPage(kind)) /\ new.s.free = s.free
          /\ new.s = [pages |-> new.s.pages, free |-> new.s.free]
      BY <1>1, <2>1
    <2>3. /\ new.s.pages \in Seq(Node \cup Other) /\ Len(new.s.pages) = Len(s.pages) + 1
          /\ DOMAIN new.s.pages = 1 .. Len(s.pages) + 1 /\ new.s.pages[Len(s.pages) + 1] = NewPage(kind)
          /\ \A i \in 1 .. Len(s.pages) : new.s.pages[i] = s.pages[i]
      BY <1>1, <1>2, <2>2
    <2>4. Changed(s, new.id, NewPage(kind), new.s)
      BY <1>1, <2>1, <2>3 DEF Changed, Sets
    <2>5. new.s \in Store
      BY <1>1, <2>2, <2>3 DEF Store
    <2>6. new.id \notin DOMAIN s.pages
      BY <1>1, <2>1
    <2>7. new.id \notin Nodes(s) /\ new.id \notin Overflowing(s) /\ new.id \notin Frees(s)
      BY <2>6 DEF Nodes, Overflowing, Frees
    <2>8. ASSUME NEW id \in DOMAIN new.s.pages PROVE new.s.pages[id].extra <= Len(new.s.pages)
      <3>1. CASE id = Len(s.pages) + 1
        BY <1>1, <1>2, <2>3, <3>1
      <3>2. CASE id \in DOMAIN s.pages
        <4>1. s.pages[id] \in Node \cup Other /\ s.pages[id].extra <= Len(s.pages)
          BY <1>1, <1>3, <3>2 DEF Linked
        <4>2. s.pages[id].extra \in Nat
          BY <4>1 DEF Node, Other
        <4> QED
          BY <1>1, <2>3, <3>2, <4>1, <4>2
      <3> QED
        BY <1>1, <2>3, <3>1, <3>2
    <2>9. Linked(new.s)
      BY <1>1, <1>3, <2>2, <2>3, <2>8 DEF Linked
    <2>10. Frees(new.s) = Frees(s)
      <3>1. NewPage(kind).kind # "Free"
        BY <1>2
      <3>2. Frees(new.s) = Frees(s) \ {new.id}
        BY <2>4, <3>1, FreesSet
      <3> QED
        BY <2>7, <3>2
    <2>11. \A x \in Frees(s) : new.s.pages[x] = s.pages[x]
      BY <2>4, <2>6 DEF Changed, Sets, Frees
    <2>12. FreeList(new.s, q)
      BY <1>3, <2>2, <2>10, <2>11 DEF FreeList
    <2> QED
      BY <1>1, <2>1, <2>3, <2>4, <2>5, <2>7, <2>9, <2>12 DEF FileOK
  <1> QED
    BY <1>4, <1>5

\* A freed page becomes the head of the free list.
LEMMA FreeFile ==
  ASSUME NEW s, NEW q, FileOK(s, q), NEW id \in DOMAIN s.pages, id \notin Frees(s), NEW s2, s2 = FreePage(s, id)
  PROVE  \E q2, page : FileOK(s2, q2) /\ page.kind = "Free" /\ Changed(s, id, page, s2) /\ Len(s2.pages) = Len(s.pages)
  <1>1. /\ Len(s.pages) \in Nat /\ DOMAIN s.pages = 1 .. Len(s.pages) /\ s.free \in Nat
        /\ s.pages \in Seq(Node \cup Other)
    BY FileFacts
  <1>2. PICK page : page = [kind |-> "Free", extra |-> s.free, items |-> <<>>, free |-> PageSpace]
    OBVIOUS
  <1>3. page \in Other /\ page.kind = "Free" /\ page.extra = s.free
    BY <1>1, <1>2, Sizes DEF Other
  <1>4. s2.pages = [s.pages EXCEPT ![id] = page] /\ s2.free = id /\ s2 = [pages |-> s2.pages, free |-> s2.free]
    BY <1>2 DEF FreePage, NewPage
  <1>5. s2.pages \in Seq(Node \cup Other) /\ Len(s2.pages) = Len(s.pages) /\ DOMAIN s2.pages = 1 .. Len(s.pages)
    BY <1>1, <1>3, <1>4
  <1>6. Changed(s, id, page, s2)
    BY <1>1, <1>4, <1>5 DEF Changed, Sets
  <1>7. s2 \in Store
    BY <1>1, <1>4, <1>5 DEF Store
  <1>8. FreeList(s, q) /\ s.free <= Len(s.pages) /\ \A x \in DOMAIN s.pages : s.pages[x].extra <= Len(s.pages)
    BY DEF FileOK, Linked
  <1>9. Linked(s2)
    <2>1. \A x \in DOMAIN s2.pages : s2.pages[x].extra <= Len(s.pages)
      BY <1>1, <1>3, <1>5, <1>6, <1>8 DEF Changed, Sets
    <2>2. id <= Len(s.pages)
      BY <1>1
    <2> QED
      BY <1>4, <1>5, <2>1, <2>2 DEF Linked
  <1>10. Frees(s2) = Frees(s) \cup {id}
    BY <1>3, <1>6, FreeSet
  <1>11. q \in Seq(Nat) /\ Len(q) \in Nat /\ id \in Nat
    BY <1>1, <1>8 DEF FreeList
  <1>12. PICK t : t = <<id>> \o q
    OBVIOUS
  <1>13. t \in Seq(Nat) /\ Len(t) = Len(q) + 1 /\ t[1] = id /\ \A i \in 1 .. Len(q) : t[i + 1] = q[i]
    BY <1>11, <1>12
  <1>14. \A i \in 2 .. Len(t) : i - 1 \in 1 .. Len(q) /\ t[i] = q[i - 1]
    <2> SUFFICES ASSUME NEW i \in 2 .. Len(t) PROVE i - 1 \in 1 .. Len(q) /\ t[i] = q[i - 1]
      OBVIOUS
    <2>1. i - 1 \in 1 .. Len(q) /\ (i - 1) + 1 = i
      BY <1>11, <1>13
    <2> QED
      BY <1>13, <2>1
  <1>15. \A i \in 1 .. Len(q) : q[i] \in Frees(s) /\ s.pages[q[i]].extra = Link(q, i + 1)
    BY <1>8 DEF FreeList
  <1>16. Distinct(t)
    <2>1. \A x, y \in 1 .. Len(q) : q[x] = q[y] => x = y
      BY <1>8 DEF FreeList, Distinct
    <2>2. \A i \in 2 .. Len(t) : t[i] # id
      BY <1>14, <1>15
    <2> SUFFICES ASSUME NEW i \in 1 .. Len(t), NEW j \in 1 .. Len(t), t[i] = t[j] PROVE i = j
      BY DEF Distinct
    <2>3. (i = 1 \/ i \in 2 .. Len(t)) /\ (j = 1 \/ j \in 2 .. Len(t))
      BY <1>11, <1>13
    <2>4. CASE i \in 2 .. Len(t) /\ j \in 2 .. Len(t)
      <3>1. i - 1 = j - 1
        BY <1>14, <2>1, <2>4
      <3> QED
        BY <1>11, <1>13, <3>1
    <2> QED
      BY <1>13, <2>2, <2>3, <2>4
  <1>17. ASSUME NEW i \in 1 .. Len(t) PROVE t[i] \in Frees(s2) /\ s2.pages[t[i]].extra = Link(t, i + 1)
    <2>1. CASE i = 1
      <3>1. s.free = Link(q, 1)
        BY <1>8 DEF FreeList
      <3>2. Link(q, 1) = Link(t, 2)
        <4>1. 1 <= Len(q) <=> 2 <= Len(t)
          BY <1>11, <1>13
        <4>2. 1 <= Len(q) => 1 \in 1 .. Len(q) /\ t[1 + 1] = q[1]
          BY <1>11, <1>13
        <4> QED
          BY <4>1, <4>2 DEF Link
      <3>3. s2.pages[id] = page
        BY <1>6 DEF Changed, Sets
      <3> QED
        BY <1>3, <1>10, <1>13, <2>1, <3>1, <3>2, <3>3
    <2>2. CASE i \in 2 .. Len(t)
      <3>1. PICK j : j = i - 1
        OBVIOUS
      <3>2. j \in 1 .. Len(q) /\ i = j + 1 /\ t[i] = q[j]
        BY <1>14, <2>2, <3>1
      <3>3. q[j] \in Frees(s) /\ s.pages[q[j]].extra = Link(q, j + 1)
        BY <1>15, <3>2
      <3>4. Link(q, j + 1) = Link(t, i + 1)
        <4>1. j + 1 <= Len(q) <=> i + 1 <= Len(t)
          BY <1>11, <1>13, <3>2, SMTT(20)
        <4>2. j + 1 <= Len(q) => j + 1 \in 1 .. Len(q) /\ t[(j + 1) + 1] = q[j + 1]
          BY <1>11, <1>13, <3>2
        <4> QED
          BY <3>2, <4>1, <4>2 DEF Link
      <3>5. s2.pages[q[j]] = s.pages[q[j]]
        BY <1>6, <3>3 DEF Changed, Sets, Frees
      <3> QED
        BY <1>10, <3>2, <3>3, <3>4, <3>5
    <2> QED
      BY <1>11, <1>13, <2>1, <2>2
  <1>18. ASSUME NEW x \in Frees(s2) PROVE \E i \in 1 .. Len(t) : t[i] = x
    <2>1. CASE x = id
      BY <1>11, <1>13, <2>1
    <2>2. CASE x \in Frees(s)
      <3>1. PICK j \in 1 .. Len(q) : q[j] = x
        BY <1>8, <2>2 DEF FreeList
      <3>2. j + 1 \in 1 .. Len(t) /\ t[j + 1] = x
        BY <1>11, <1>13, <3>1
      <3> QED
        BY <3>2
    <2> QED
      BY <1>10, <2>1, <2>2
  <1>19. s2.free = Link(t, 1)
    BY <1>4, <1>11, <1>13 DEF Link
  <1>20. FreeList(s2, t)
    BY <1>13, <1>16, <1>17, <1>18, <1>19 DEF FreeList
  <1>21. FileOK(s2, t)
    BY <1>7, <1>9, <1>20 DEF FileOK
  <1> QED
    BY <1>3, <1>5, <1>6, <1>21

\* A new node.
LEMMA AllocNode ==
  ASSUME NEW s, NEW q, FileOK(s, q), NEW kind \in {"Leaf", "Internal"}, NEW new, new = AllocPage(s, kind)
  PROVE  /\ \E q2 : FileOK(new.s, q2)
         /\ Sets(Tree(s), new.id, NewPage(kind), Tree(new.s)) /\ Over(new.s) = Over(s)
         /\ new.id \notin Nodes(s) /\ new.id \in Nodes(new.s) /\ new.id \in Nat \ {0}
         /\ new.id <= Len(new.s.pages) /\ Len(s.pages) <= Len(new.s.pages)
  <1>1. PICK q2 : /\ FileOK(new.s, q2) /\ Changed(s, new.id, NewPage(kind), new.s)
                  /\ new.id \in DOMAIN new.s.pages /\ new.id \in Nat \ {0} /\ new.id \notin Nodes(s)
                  /\ new.id \notin Overflowing(s) /\ Len(s.pages) <= Len(new.s.pages)
    BY AllocFile
  <1>2. NewPage(kind).kind \in {"Leaf", "Internal"}
    BY DEF NewPage
  <1>3. Sets(Tree(s), new.id, NewPage(kind), Tree(new.s)) /\ Over(new.s) = Over(s)
    BY <1>1, <1>2, NodeSet
  <1>4. new.id \in DOMAIN Tree(new.s)
    BY <1>3 DEF Sets
  <1>5. new.id \in Nodes(new.s)
    BY <1>4, Parts
  <1>6. new.id <= Len(new.s.pages)
    BY <1>1, FileFacts
  <1> QED
    BY <1>1, <1>3, <1>5, <1>6

\* A new page for a chain.
LEMMA AllocOver ==
  ASSUME NEW s, NEW q, FileOK(s, q), NEW new, new = AllocPage(s, "Overflow")
  PROVE  /\ \E q2 : FileOK(new.s, q2)
         /\ Sets(Over(s), new.id, NewPage("Overflow"), Over(new.s)) /\ Tree(new.s) = Tree(s)
         /\ new.id \notin Overflowing(s) /\ new.id \in Overflowing(new.s) /\ new.id \in Nat \ {0}
         /\ new.id <= Len(new.s.pages) /\ Len(s.pages) <= Len(new.s.pages)
  <1>1. PICK q2 : /\ FileOK(new.s, q2) /\ Changed(s, new.id, NewPage("Overflow"), new.s)
                  /\ new.id \in DOMAIN new.s.pages /\ new.id \in Nat \ {0} /\ new.id \notin Nodes(s)
                  /\ new.id \notin Overflowing(s) /\ Len(s.pages) <= Len(new.s.pages)
    BY AllocFile
  <1>2. NewPage("Overflow").kind = "Overflow"
    BY DEF NewPage
  <1>3. Sets(Over(s), new.id, NewPage("Overflow"), Over(new.s)) /\ Tree(new.s) = Tree(s)
    BY <1>1, <1>2, OverSet
  <1>4. new.id \in DOMAIN Over(new.s)
    BY <1>3 DEF Sets
  <1>5. new.id \in Overflowing(new.s)
    BY <1>4, Parts
  <1>6. new.id <= Len(new.s.pages)
    BY <1>1, FileFacts
  <1> QED
    BY <1>1, <1>3, <1>5, <1>6

\* A node is rewritten.
LEMMA PutNode ==
  ASSUME NEW s, NEW q, FileOK(s, q), NEW id \in Nodes(s), NEW page \in Node, page.extra <= Len(s.pages),
         NEW s2, s2 = Put(s, id, page)
  PROVE  FileOK(s2, q) /\ Sets(Tree(s), id, page, Tree(s2)) /\ Over(s2) = Over(s) /\ Len(s2.pages) = Len(s.pages)
  <1>1. id \in DOMAIN s.pages /\ id \notin Frees(s) /\ id \notin Overflowing(s)
    BY Parts
  <1>2. page.kind \in {"Leaf", "Internal"} /\ page \in Node \cup Other
    BY DEF Node
  <1>3. page.kind # "Free"
    BY <1>2
  <1>4. FileOK(s2, q) /\ Changed(s, id, page, s2) /\ Len(s2.pages) = Len(s.pages)
    BY <1>1, <1>2, <1>3, PutFile
  <1> QED
    BY <1>1, <1>2, <1>4, NodeSet

\* A page of a chain is rewritten.
LEMMA PutOver ==
  ASSUME NEW s, NEW q, FileOK(s, q), NEW id \in Overflowing(s), NEW page \in Other, page.kind = "Overflow",
         page.extra <= Len(s.pages), NEW s2, s2 = Put(s, id, page)
  PROVE  FileOK(s2, q) /\ Sets(Over(s), id, page, Over(s2)) /\ Tree(s2) = Tree(s) /\ Len(s2.pages) = Len(s.pages)
  <1>1. id \in DOMAIN s.pages /\ id \notin Frees(s) /\ id \notin Nodes(s)
    BY Parts
  <1>2. page.kind # "Free" /\ page \in Node \cup Other
    OBVIOUS
  <1>4. FileOK(s2, q) /\ Changed(s, id, page, s2) /\ Len(s2.pages) = Len(s.pages)
    BY <1>1, <1>2, PutFile
  <1> QED
    BY <1>1, <1>4, OverSet

\* A node, or a page of a chain, is freed.
LEMMA FreePart ==
  ASSUME NEW s, NEW q, FileOK(s, q), NEW id \in Nodes(s) \cup Overflowing(s), NEW s2, s2 = FreePage(s, id)
  PROVE  /\ \E q2 : FileOK(s2, q2)
         /\ id \in Nodes(s) => Drops(Tree(s), id, Tree(s2)) /\ Over(s2) = Over(s)
         /\ id \in Overflowing(s) => Drops(Over(s), id, Over(s2)) /\ Tree(s2) = Tree(s)
         /\ Len(s2.pages) = Len(s.pages)
  <1>1. id \in DOMAIN s.pages /\ id \notin Frees(s)
    BY Parts
  <1>2. PICK q2, page : FileOK(s2, q2) /\ page.kind = "Free" /\ Changed(s, id, page, s2) /\ Len(s2.pages) = Len(s.pages)
    BY <1>1, FreeFile
  <1> QED
    BY <1>2, FreeSet
-----------------------------------------------------------------------------
(* Overflow chains *)

\* Distinct pages are no more than the file has.
LEMMA DistinctLen ==
  ASSUME NEW N \in Nat, NEW q \in Seq(Nat), Distinct(q), \A i \in 1 .. Len(q) : q[i] \in 1 .. N
  PROVE  Len(q) <= N
  <1> SUFFICES ASSUME N < Len(q) PROVE FALSE
    OBVIOUS
  <1>1. PICK n \in Nat : n = Len(q)
    OBVIOUS
  <1>2. IsFiniteSet(1 .. n) /\ Cardinality(1 .. n) = n /\ IsFiniteSet(1 .. N) /\ Cardinality(1 .. N) = N
    <2>1. \A a, b \in Int : IsFiniteSet(a .. b) /\ Cardinality(a .. b) = IF a > b THEN 0 ELSE b - a + 1
      BY FS_Interval, Zenon
    <2>2. \A b \in Nat : (IF 1 > b THEN 0 ELSE b - 1 + 1) = b /\ b \in Int /\ 1 \in Int
      OBVIOUS
    <2>3. ASSUME NEW b \in Nat PROVE IsFiniteSet(1 .. b) /\ Cardinality(1 .. b) = b
      <3>1. IsFiniteSet(1 .. b) /\ Cardinality(1 .. b) = IF 1 > b THEN 0 ELSE b - 1 + 1
        BY <2>1, <2>2, Zenon
      <3> QED
        BY <2>2, <3>1
    <2> QED
      BY <2>3
  <1>3. q \in [1 .. n -> 1 .. N]
    BY <1>1
  <1>4. \E x, y \in 1 .. n : x # y /\ q[x] = q[y]
    <2>1. PICK S : S = 1 .. n
      OBVIOUS
    <2>2. PICK T : T = 1 .. N
      OBVIOUS
    <2>3. IsFiniteSet(S) /\ IsFiniteSet(T) /\ Cardinality(T) < Cardinality(S) /\ q \in [S -> T]
      BY <1>1, <1>2, <1>3, <2>1, <2>2
    <2>4. \E x, y \in S : x # y /\ q[x] = q[y]
      BY <2>3, FS_PigeonHole
    <2> QED
      BY <2>1, <2>4
  <1> QED
    BY <1>1, <1>4 DEF Distinct

\* Products grow with their factors.
LEMMA Times ==
  ASSUME NEW a \in Nat, NEW b \in Nat, NEW c \in Nat, a <= b
  PROVE  a * c <= b * c /\ a * c \in Nat
  <1>1. PICK d : d = b - a
    OBVIOUS
  <1>2. d \in Nat /\ b = a + d
    BY <1>1
  <1>3. d * c \in Nat /\ a * c \in Nat
    BY <1>2
  <1>4. b * c = a * c + d * c
    BY <1>2
  <1> QED
    BY <1>3, <1>4

\* The number of chunks of a payload.
LEMMA ChunksIs ==
  ASSUME NEW v \in Seq(Nat)
  PROVE  /\ Chunks(v) \in Nat
         /\ Len(v) > 0 => Chunks(v) >= 1 /\ (Chunks(v) - 1) * OverflowChunk < Len(v) /\ Len(v) <= Chunks(v) * OverflowChunk
  <1>1. PICK C : C = OverflowChunk
    OBVIOUS
  <1>2. C \in Nat \ {0}
    BY <1>1, Sizes
  <1>3. PICK n : n = (Len(v) + C - 1) \div C
    OBVIOUS
  <1>4. PICK a : a = Len(v) + C - 1
    OBVIOUS
  <1>5. a \in Nat /\ Len(v) \in Nat
    BY <1>2, <1>4
  <1>6. n \in Int /\ n * C <= a /\ a < n * C + C
    BY <1>2, <1>3, <1>4, <1>5
  <1>7. n >= 0
    <2> SUFFICES ASSUME n + 1 <= 0 PROVE FALSE
      BY <1>6
    <2>1. (n + 1) * C <= 0
      BY <1>2, <1>6
    <2> QED
      BY <1>2, <1>5, <1>6, <2>1
  <1>8. (n - 1) * C = n * C - C
    BY <1>2, <1>6
  <1>9. Len(v) > 0 => n >= 1
    <2> SUFFICES ASSUME Len(v) > 0, n = 0 PROVE FALSE
      BY <1>6, <1>7
    <2> QED
      BY <1>2, <1>4, <1>6
  <1> QED
    BY <1>1, <1>2, <1>3, <1>4, <1>5, <1>6, <1>7, <1>8, <1>9 DEF Chunks

\* Where a chunk lies in the payload.
LEMMA ChunkIs ==
  ASSUME NEW v \in Seq(Nat), Len(v) > 0, NEW i \in 1 .. Chunks(v)
  PROVE  /\ Chunk(v, i) \in Seq(Nat)
         /\ Len(Chunk(v, i)) = (IF i = Chunks(v) THEN Len(v) ELSE i * OverflowChunk) - (i - 1) * OverflowChunk
         /\ (i - 1) * OverflowChunk \in Nat /\ i * OverflowChunk = (i - 1) * OverflowChunk + OverflowChunk
         /\ i < Chunks(v) => i * OverflowChunk <= Len(v)
         /\ \A j \in 1 .. Len(Chunk(v, i)) : Chunk(v, i)[j] = v[j + (i - 1) * OverflowChunk]
  <1>1. PICK C : C = OverflowChunk
    OBVIOUS
  <1>2. C \in Nat \ {0} /\ Len(v) \in Nat
    BY <1>1, Sizes
  <1>3. PICK n : n = Chunks(v)
    OBVIOUS
  <1>4. n \in Nat /\ n >= 1 /\ (n - 1) * C < Len(v) /\ i \in 1 .. n
    BY <1>1, <1>3, ChunksIs
  <1>5. PICK lo : lo = (i - 1) * C
    OBVIOUS
  <1>6. lo \in Nat /\ lo <= (n - 1) * C
    <2>1. i - 1 \in Nat /\ n - 1 \in Nat /\ i - 1 <= n - 1
      BY <1>4
    <2> QED
      BY <1>2, <1>5, <2>1, Times
  <1>7. i * C = lo + C
    BY <1>2, <1>4, <1>5
  <1>8. i < n => i * C <= Len(v)
    <2> SUFFICES ASSUME i < n PROVE i * C <= Len(v)
      OBVIOUS
    <2>1. i \in Nat /\ n - 1 \in Nat /\ i <= n - 1
      BY <1>4
    <2>2. i * C <= (n - 1) * C /\ i * C \in Nat
      BY <1>2, <2>1, Times
    <2>3. (n - 1) * C \in Int
      BY <1>2, <2>1
    <2> QED
      BY <1>2, <1>4, <2>2, <2>3
  <1>9. PICK hi : hi = IF i = n THEN Len(v) ELSE i * C
    OBVIOUS
  <1>10. (n - 1) * C \in Int
    BY <1>2, <1>4
  <1>11. hi \in Nat /\ hi <= Len(v) /\ lo <= hi
    BY <1>2, <1>4, <1>6, <1>7, <1>8, <1>9, <1>10
  <1>12. Chunk(v, i) = SubSeq(v, lo + 1, hi)
    BY <1>1, <1>3, <1>5, <1>9 DEF Chunk
  <1>13. PICK r : r = SubSeq(v, lo + 1, hi)
    OBVIOUS
  <1>14. r \in Seq(Nat) /\ Len(r) = hi - lo /\ \A j \in 1 .. Len(r) : r[j] = v[j + lo]
    BY <1>6, <1>11, <1>13
  <1> QED
    BY <1>1, <1>3, <1>5, <1>6, <1>7, <1>8, <1>9, <1>12, <1>13, <1>14

\* O2 is O with the pages of c, which are new.
Grown(O, c, O2) ==
  /\ \A i \in 1 .. Len(c) : c[i] \in DOMAIN O2 /\ c[i] \notin DOMAIN O
  /\ \A id \in DOMAIN O2 : id \in DOMAIN O \/ \E i \in 1 .. Len(c) : c[i] = id
  /\ \A id \in DOMAIN O : id \in DOMAIN O2 /\ O2[id] = O[id]

\* O2 is O without the first m pages of c.
Shrunk(O, c, m, O2) ==
  /\ \A id : id \in DOMAIN O2 <=> id \in DOMAIN O /\ \A i \in 1 .. m : c[i] # id
  /\ \A id \in DOMAIN O2 : O2[id] = O[id]

\* After k chunks, the chain c holds the last k of them.
WroteOK(s, data, k, acc, c) ==
  /\ \E q : FileOK(acc.s, q)
  /\ Tree(acc.s) = Tree(s) /\ Len(s.pages) <= Len(acc.s.pages)
  /\ c \in Seq(Nat) /\ Len(c) = k /\ Distinct(c) /\ acc.id = Link(c, 1)
  /\ \A i \in 1 .. k : /\ Over(acc.s)[c[i]].items = Chunk(data, Chunks(data) - k + i)
                       /\ Over(acc.s)[c[i]].extra = Link(c, i + 1)
  /\ Grown(Over(s), c, Over(acc.s))

\* One chunk more.
LEMMA WroteMore ==
  ASSUME NEW s, NEW data \in Seq(Nat), Len(data) > 0, NEW k \in Nat, k < Chunks(data), Len(s.pages) \in Nat,
         NEW acc, NEW c, WroteOK(s, data, k, acc, c), NEW next, next = WriteStep(data, acc, k + 1)
  PROVE  \E d : WroteOK(s, data, k + 1, next, d)
  <1>1. PICK q : FileOK(acc.s, q)
    BY DEF WroteOK
  <1>2. /\ Tree(acc.s) = Tree(s) /\ Len(s.pages) <= Len(acc.s.pages)
        /\ c \in Seq(Nat) /\ Len(c) = k /\ Distinct(c) /\ acc.id = Link(c, 1)
        /\ \A i \in 1 .. k : /\ Over(acc.s)[c[i]].items = Chunk(data, Chunks(data) - k + i)
                             /\ Over(acc.s)[c[i]].extra = Link(c, i + 1)
        /\ Grown(Over(s), c, Over(acc.s))
    BY DEF WroteOK
  <1>3. PICK new : new = AllocPage(acc.s, "Overflow")
    OBVIOUS
  <1>4. /\ \E q2 : FileOK(new.s, q2)
        /\ Sets(Over(acc.s), new.id, NewPage("Overflow"), Over(new.s)) /\ Tree(new.s) = Tree(acc.s)
        /\ new.id \notin Overflowing(acc.s) /\ new.id \in Overflowing(new.s) /\ new.id \in Nat \ {0}
        /\ new.id <= Len(new.s.pages) /\ Len(acc.s.pages) <= Len(new.s.pages)
    BY <1>1, <1>3, AllocOver
  <1>5. PICK q2 : FileOK(new.s, q2)
    BY <1>4
  <1>6. PICK chunk : chunk = Chunk(data, Chunks(data) + 1 - (k + 1))
    OBVIOUS
  <1>7. PICK page : page = [kind |-> "Overflow", extra |-> acc.id, items |-> chunk, free |-> PageSpace]
    OBVIOUS
  <1>8. next = [id |-> new.id, s |-> Put(new.s, new.id, page)]
    BY <1>3, <1>6, <1>7, Zenon DEF WriteStep
  <1>9. PICK m : m = Chunks(data) - k
    OBVIOUS
  <1>10. Chunks(data) \in Nat /\ m \in 1 .. Chunks(data) /\ Chunks(data) + 1 - (k + 1) = m
    BY <1>9, ChunksIs
  <1>11. chunk \in Seq(Nat)
    BY <1>6, <1>10, ChunkIs
  <1>12. Len(acc.s.pages) \in Nat /\ Len(new.s.pages) \in Nat
    BY <1>1, <1>5, FileFacts
  <1>13. acc.id \in Nat /\ acc.id <= Len(new.s.pages)
    <2>1. CASE k = 0
      BY <1>2, <1>12, <2>1 DEF Link, NoPage
    <2>2. CASE k # 0
      <3>1. 1 \in 1 .. Len(c) /\ acc.id = c[1]
        BY <1>2, <2>2 DEF Link
      <3>2. c[1] \in DOMAIN Over(acc.s)
        BY <1>2, <3>1 DEF Grown
      <3>3. c[1] \in 1 .. Len(acc.s.pages)
        <4>1. c[1] \in Overflowing(acc.s)
          BY <3>2, Parts
        <4> QED
          BY <1>1, <4>1, FileFacts
      <3> QED
        BY <1>4, <1>12, <3>1, <3>3, SMTT(20)
    <2> QED
      BY <2>1, <2>2
  <1>14. page \in Other /\ page.kind = "Overflow" /\ page.extra = acc.id /\ page.items = chunk
    BY <1>7, <1>11, <1>13, Sizes DEF Other
  <1>15. PICK s3 : s3 = Put(new.s, new.id, page)
    OBVIOUS
  <1>16. /\ FileOK(s3, q2) /\ Sets(Over(new.s), new.id, page, Over(s3)) /\ Tree(s3) = Tree(new.s)
         /\ Len(s3.pages) = Len(new.s.pages)
    BY <1>4, <1>5, <1>13, <1>14, <1>15, PutOver
  <1>17. next.s = s3 /\ next.id = new.id
    BY <1>8, <1>15
  <1>18. DOMAIN Over(acc.s) = Overflowing(acc.s)
    BY Parts
  <1>19. /\ DOMAIN Over(s3) = DOMAIN Over(acc.s) \cup {new.id} /\ new.id \notin DOMAIN Over(acc.s)
         /\ Over(s3)[new.id] = page
         /\ \A x \in DOMAIN Over(acc.s) : Over(s3)[x] = Over(acc.s)[x]
    BY <1>4, <1>16, <1>18 DEF Sets
  <1>20. PICK d : d = <<new.id>> \o c
    OBVIOUS
  <1>21. d \in Seq(Nat) /\ Len(d) = k + 1 /\ d[1] = new.id /\ \A i \in 1 .. k : d[i + 1] = c[i]
    BY <1>2, <1>4, <1>20
  <1>22. \A i \in 1 .. k + 1 : i = 1 \/ (i - 1 \in 1 .. k /\ d[i] = c[i - 1])
    <2> SUFFICES ASSUME NEW i \in 1 .. k + 1, i # 1 PROVE i - 1 \in 1 .. k /\ d[i] = c[i - 1]
      OBVIOUS
    <2>1. i - 1 \in 1 .. k /\ (i - 1) + 1 = i
      OBVIOUS
    <2> QED
      BY <1>21, <2>1
  <1>23. \A i \in 1 .. k : c[i] \in DOMAIN Over(acc.s) /\ c[i] \notin DOMAIN Over(s)
    BY <1>2 DEF Grown
  <1>24. Distinct(d)
    <2>1. \A x, y \in 1 .. k : c[x] = c[y] => x = y
      BY <1>2 DEF Distinct
    <2> SUFFICES ASSUME NEW i \in 1 .. k + 1, NEW j \in 1 .. k + 1, d[i] = d[j] PROVE i = j
      BY <1>21 DEF Distinct
    <2>2. CASE i # 1 /\ j # 1
      <3>1. i - 1 = j - 1
        BY <1>22, <2>1, <2>2
      <3> QED
        BY <3>1
    <2> QED
      BY <1>19, <1>21, <1>22, <1>23, <2>2
  <1>25. ASSUME NEW i \in 1 .. k + 1
         PROVE  /\ Over(s3)[d[i]].items = Chunk(data, Chunks(data) - (k + 1) + i)
                /\ Over(s3)[d[i]].extra = Link(d, i + 1)
    <2>1. CASE i = 1
      <3>1. Chunks(data) - (k + 1) + i = Chunks(data) + 1 - (k + 1)
        BY <1>10, <2>1
      <3>2. Link(c, 1) = Link(d, 2)
        <4>1. 1 <= Len(c) <=> 2 <= Len(d)
          BY <1>2, <1>21
        <4>2. 1 <= Len(c) => 1 \in 1 .. k /\ d[1 + 1] = c[1]
          BY <1>2, <1>21
        <4> QED
          BY <4>1, <4>2 DEF Link
      <3> QED
        BY <1>2, <1>6, <1>14, <1>19, <1>21, <2>1, <3>1, <3>2
    <2>2. CASE i # 1
      <3>1. PICK j : j = i - 1
        OBVIOUS
      <3>2. j \in 1 .. k /\ i = j + 1 /\ d[i] = c[j]
        BY <1>22, <2>2, <3>1
      <3>3. Over(s3)[d[i]] = Over(acc.s)[c[j]]
        BY <1>19, <1>23, <3>2
      <3>4. Chunks(data) - (k + 1) + i = Chunks(data) - k + j
        BY <1>10, <3>2
      <3>5. Link(c, j + 1) = Link(d, i + 1)
        <4>1. j + 1 <= Len(c) <=> i + 1 <= Len(d)
          BY <1>2, <1>21, <3>2
        <4>2. j + 1 <= Len(c) => j + 1 \in 1 .. k /\ d[(j + 1) + 1] = c[j + 1]
          BY <1>2, <1>21, <3>2
        <4> QED
          BY <3>2, <4>1, <4>2 DEF Link
      <3> QED
        BY <1>2, <3>2, <3>3, <3>4, <3>5
    <2> QED
      BY <2>1, <2>2
  <1>26. Grown(Over(s), d, Over(s3))
    <2>1. /\ \A id \in DOMAIN Over(acc.s) : id \in DOMAIN Over(s) \/ \E i \in 1 .. k : c[i] = id
          /\ \A id \in DOMAIN Over(s) : id \in DOMAIN Over(acc.s) /\ Over(acc.s)[id] = Over(s)[id]
      BY <1>2 DEF Grown
    <2>2. ASSUME NEW i \in 1 .. k + 1 PROVE d[i] \in DOMAIN Over(s3) /\ d[i] \notin DOMAIN Over(s)
      BY <1>19, <1>21, <1>22, <1>23, <2>1
    <2>3. ASSUME NEW id \in DOMAIN Over(s3) PROVE id \in DOMAIN Over(s) \/ \E i \in 1 .. k + 1 : d[i] = id
      <3>1. CASE id = new.id
        BY <1>21, <3>1
      <3>2. CASE \E i \in 1 .. k : c[i] = id
        <4>1. PICK i \in 1 .. k : c[i] = id
          BY <3>2
        <4>2. i + 1 \in 1 .. k + 1 /\ d[i + 1] = id
          BY <1>21, <4>1
        <4> QED
          BY <4>2
      <3> QED
        BY <1>19, <2>1, <3>1, <3>2
    <2> QED
      BY <1>19, <1>21, <2>1, <2>2, <2>3 DEF Grown
  <1>27. next.id = Link(d, 1)
    BY <1>17, <1>21 DEF Link
  <1>28. Len(s.pages) <= Len(s3.pages)
    BY <1>2, <1>4, <1>12, <1>16, SMTT(20)
  <1>29. WroteOK(s, data, k + 1, next, d)
    BY <1>2, <1>4, <1>16, <1>17, <1>21, <1>24, <1>25, <1>26, <1>27, <1>28 DEF WroteOK
  <1> QED
    BY <1>29

\* Writing a payload adds one chain to the file.
LEMMA WriteOverflowOK ==
  ASSUME NEW s, NEW q, FileOK(s, q), NEW data \in Seq(Nat), Len(data) > MaxInline, NEW w, w = WriteOverflow(s, data)
  PROVE  \E c, q2 : /\ FileOK(w.s, q2) /\ Tree(w.s) = Tree(s) /\ Len(s.pages) <= Len(w.s.pages)
                    /\ ChainOK(Over(w.s), c, data) /\ w.id = Link(c, 1) /\ Grown(Over(s), c, Over(w.s))
  <1>1. Len(data) > 0 /\ Len(s.pages) \in Nat
    BY Sizes, FileFacts
  <1>2. PICK n : n = Chunks(data)
    OBVIOUS
  <1>3. n \in Nat
    BY <1>2, ChunksIs
  <1>4. PICK f : /\ f[0] = [id |-> NoPage, s |-> s]
                 /\ \A k \in 0 .. n - 1 : f[k + 1] = WriteStep(data, f[k], k + 1)
                 /\ w = f[n]
    BY <1>2, <1>3, WriteOverflowIs
  <1> DEFINE S == {k \in Nat : k <= n => \E c : WroteOK(s, data, k, f[k], c)}
  <1>5. 0 \in S
    <2>1. PICK c : c = <<>>
      OBVIOUS
    <2>2. c \in Seq(Nat) /\ Len(c) = 0
      BY <2>1
    <2>3. Distinct(c) /\ Link(c, 1) = NoPage /\ Grown(Over(s), c, Over(s))
      BY <2>2 DEF Distinct, Link, Grown
    <2>4. f[0].s = s /\ f[0].id = NoPage
      BY <1>4
    <2>5. WroteOK(s, data, 0, f[0], c)
      BY <1>1, <2>2, <2>3, <2>4 DEF WroteOK
    <2> QED
      BY <2>5
  <1>6. ASSUME NEW k \in Nat, k \in S PROVE k + 1 \in S
    <2> SUFFICES ASSUME k + 1 <= n PROVE \E c : WroteOK(s, data, k + 1, f[k + 1], c)
      OBVIOUS
    <2>1. PICK c : WroteOK(s, data, k, f[k], c)
      BY <1>3, <1>6
    <2>2. f[k + 1] = WriteStep(data, f[k], k + 1) /\ k < Chunks(data)
      BY <1>2, <1>3, <1>4
    <2> QED
      BY <1>1, <2>1, <2>2, WroteMore
  <1>7. Nat \subseteq S
    <2> HIDE DEF S
    <2> QED
      BY <1>5, <1>6, SetInduction
  <1>8. PICK c : WroteOK(s, data, n, w, c)
    BY <1>3, <1>4, <1>7
  <1>9. /\ Tree(w.s) = Tree(s) /\ Len(s.pages) <= Len(w.s.pages) /\ c \in Seq(Nat) /\ Len(c) = n /\ Distinct(c)
        /\ w.id = Link(c, 1) /\ Grown(Over(s), c, Over(w.s)) /\ \E q2 : FileOK(w.s, q2)
        /\ \A i \in 1 .. n : Over(w.s)[c[i]].items = Chunk(data, Chunks(data) - n + i) /\ Over(w.s)[c[i]].extra = Link(c, i + 1)
    BY <1>8 DEF WroteOK
  <1>10. ~(Len(data) <= MaxInline)
    BY Sizes
  <1>11. \A i \in 1 .. n : Chunks(data) - n + i = i
    BY <1>2, <1>3
  <1>12. \A i \in 1 .. Len(c) : c[i] \in DOMAIN Over(w.s)
    BY <1>9 DEF Grown
  <1>13. ChainOK(Over(w.s), c, data)
    BY <1>2, <1>9, <1>10, <1>11, <1>12 DEF ChainOK
  <1> QED
    BY <1>9, <1>13

\* Building an item leaves the tree alone and adds the item's chain, if it has one.
LEMMA BuildItemOK ==
  ASSUME NEW s, NEW q, FileOK(s, q), NEW key \in Nat, NEW v \in Seq(Nat), NEW built, built = BuildItem(s, key, v)
  PROVE  \E c, q2 : /\ FileOK(built.s, q2) /\ Tree(built.s) = Tree(s) /\ Len(s.pages) <= Len(built.s.pages)
                    /\ ChainOK(Over(built.s), c, v) /\ built.item = Entry(key, v, Link(c, 1))
                    /\ Grown(Over(s), c, Over(built.s))
  <1>1. CASE Len(v) <= MaxInline
    <2>1. /\ built.s = s
          /\ built.item = [key |-> key, size |-> LeafHeader + Len(v), data |-> <<"Inline", v>>]
      BY <1>1 DEF BuildItem
    <2>2. PICK c : c = <<>>
      OBVIOUS
    <2>3. c \in Seq(Nat) /\ Len(c) = 0
      BY <2>2
    <2>4. Distinct(c) /\ Grown(Over(s), c, Over(s))
      BY <2>3 DEF Distinct, Grown
    <2>5. ChainOK(Over(s), c, v)
      BY <1>1, <2>3, <2>4 DEF ChainOK
    <2>6. built.item = Entry(key, v, Link(c, 1))
      BY <1>1, <2>1 DEF Entry
    <2>7. Len(s.pages) <= Len(s.pages)
      BY FileFacts
    <2> QED
      BY <2>1, <2>4, <2>5, <2>6, <2>7
  <1>2. CASE ~(Len(v) <= MaxInline)
    <2>1. PICK w : w = WriteOverflow(s, v)
      OBVIOUS
    <2>2. built = [s |-> w.s, item |-> [key |-> key, size |-> OverflowDescriptor, data |-> <<"Overflow", Len(v), w.id>>]]
      BY <1>2, <2>1 DEF BuildItem
    <2>3. Len(v) > MaxInline
      BY <1>2, Sizes
    <2>4. PICK c, q2 : /\ FileOK(w.s, q2) /\ Tree(w.s) = Tree(s) /\ Len(s.pages) <= Len(w.s.pages)
                       /\ ChainOK(Over(w.s), c, v) /\ w.id = Link(c, 1) /\ Grown(Over(s), c, Over(w.s))
      BY <2>1, <2>3, WriteOverflowOK
    <2>5. built.s = w.s /\ built.item = Entry(key, v, Link(c, 1))
      BY <1>2, <2>2, <2>4 DEF Entry
    <2> QED
      BY <2>4, <2>5
  <1> QED
    BY <1>1, <1>2

\* After k rounds the first m pages of the chain c are free.
FreedOK(s, c, k, acc) ==
  \E m \in 0 .. Len(c) :
    /\ m = k \/ (m = Len(c) /\ m <= k)
    /\ acc.id = Link(c, m + 1) /\ Len(acc.s.pages) = Len(s.pages)
    /\ \E q : FileOK(acc.s, q)
    /\ Tree(acc.s) = Tree(s) /\ Shrunk(Over(s), c, m, Over(acc.s))

\* Page by page.
LEMMA FreedMore ==
  ASSUME NEW s, NEW q, FileOK(s, q), NEW c, NEW v, ChainOK(Over(s), c, v), NEW k \in Nat, NEW acc, FreedOK(s, c, k, acc)
  PROVE  FreedOK(s, c, k + 1, ReleaseStep(acc))
  <1>1. PICK m \in 0 .. Len(c) : /\ m = k \/ (m = Len(c) /\ m <= k)
                                 /\ acc.id = Link(c, m + 1) /\ Len(acc.s.pages) = Len(s.pages)
                                 /\ \E q2 : FileOK(acc.s, q2)
                                 /\ Tree(acc.s) = Tree(s) /\ Shrunk(Over(s), c, m, Over(acc.s))
    BY DEF FreedOK
  <1>2. /\ c \in Seq(Nat) /\ Len(c) \in Nat /\ \A i, j \in 1 .. Len(c) : c[i] = c[j] => i = j
        /\ \A i \in 1 .. Len(c) : c[i] \in DOMAIN Over(s) /\ Over(s)[c[i]].extra = Link(c, i + 1)
    BY DEF ChainOK, Distinct
  <1>3. \A i \in 1 .. Len(c) : c[i] # NoPage
    <2>0. DOMAIN Over(s) = Overflowing(s)
      BY Parts
    <2>1. \A i \in 1 .. Len(c) : c[i] \in Overflowing(s)
      BY <1>2, <2>0
    <2> QED
      BY <2>1, FileFacts DEF NoPage
  <1>4. CASE m = Len(c)
    <2>1. acc.id = NoPage
      BY <1>1, <1>2, <1>4 DEF Link
    <2>2. ReleaseStep(acc) = acc
      BY <2>1 DEF ReleaseStep
    <2>3. m <= k + 1
      BY <1>1, <1>2
    <2> QED
      BY <1>1, <1>4, <2>2, <2>3 DEF FreedOK
  <1>5. CASE m < Len(c)
    <2>1. m = k /\ m + 1 \in 1 .. Len(c) /\ acc.id = c[m + 1] /\ acc.id # NoPage
      BY <1>1, <1>2, <1>3, <1>5 DEF Link
    <2>2. acc.id \in DOMAIN Over(s) /\ \A i \in 1 .. m : c[i] # acc.id
      BY <1>2, <2>1
    <2>3. acc.id \in DOMAIN Over(acc.s) /\ Over(acc.s)[acc.id] = Over(s)[acc.id]
      BY <1>1, <2>2 DEF Shrunk
    <2>4. acc.id \in Overflowing(acc.s) /\ acc.s.pages[acc.id] = Over(acc.s)[acc.id]
      <3>1. DOMAIN Over(acc.s) = Overflowing(acc.s)
        BY Parts
      <3>2. \A a \in Overflowing(acc.s) : Over(acc.s)[a] = acc.s.pages[a]
        BY Parts
      <3> QED
        BY <2>3, <3>1, <3>2
    <2>5. PICK s2 : s2 = FreePage(acc.s, acc.id)
      OBVIOUS
    <2>6. PICK q2 : FileOK(acc.s, q2)
      BY <1>1
    <2>7. acc.id \in Nodes(acc.s) \cup Overflowing(acc.s)
      BY <2>4
    <2>8. /\ \E q3 : FileOK(s2, q3)
          /\ Drops(Over(acc.s), acc.id, Over(s2)) /\ Tree(s2) = Tree(acc.s)
          /\ Len(s2.pages) = Len(acc.s.pages)
      BY <2>4, <2>5, <2>6, <2>7, FreePart
    <2>9. PICK next : next = ReleaseStep(acc)
      OBVIOUS
    <2>10. next.id = acc.s.pages[acc.id].extra /\ next.s = s2
      BY <2>1, <2>5, <2>9 DEF ReleaseStep
    <2>11. next.id = Link(c, (m + 1) + 1)
      BY <1>2, <2>1, <2>3, <2>4, <2>10
    <2>12. Shrunk(Over(s), c, m + 1, Over(s2))
      <3>1. \A i \in 1 .. m + 1 : i \in 1 .. m \/ i = m + 1
        OBVIOUS
      <3>2. \A i \in 1 .. m : i \in 1 .. m + 1
        OBVIOUS
      <3>3. m + 1 \in 1 .. m + 1
        OBVIOUS
      <3>4. \A id : (\A i \in 1 .. m + 1 : c[i] # id) <=> (\A i \in 1 .. m : c[i] # id) /\ c[m + 1] # id
        BY <3>1, <3>2, <3>3
      <3> QED
        BY <1>1, <2>1, <2>8, <3>4 DEF Shrunk, Drops
    <2>13. m + 1 \in 0 .. Len(c) /\ m + 1 = k + 1
      BY <2>1
    <2>14. FreedOK(s, c, k + 1, next)
      BY <1>1, <2>8, <2>10, <2>11, <2>12, <2>13 DEF FreedOK
    <2> QED
      BY <2>9, <2>14
  <1> QED
    BY <1>2, <1>4, <1>5

\* Releasing an item frees its chain and changes nothing else.
LEMMA ReleaseItemOK ==
  ASSUME NEW s, NEW q, FileOK(s, q), NEW c, NEW v \in Seq(Nat), ChainOK(Over(s), c, v), NEW key,
         NEW item, item = Entry(key, v, Link(c, 1)), NEW s2, s2 = ReleaseItem(s, item)
  PROVE  /\ \E q2 : FileOK(s2, q2)
         /\ Tree(s2) = Tree(s) /\ Shrunk(Over(s), c, Len(c), Over(s2)) /\ Len(s2.pages) = Len(s.pages)
  <1>0. Len(s.pages) \in Nat /\ Len(v) \in Nat
    BY FileFacts
  <1>1. CASE Len(v) <= MaxInline
    <2>1. item.data = <<"Inline", v>>
      BY <1>1 DEF Entry
    <2>2. item.data[1] # "Overflow"
      BY <2>1
    <2>3. s2 = s
      BY <2>2 DEF ReleaseItem
    <2>4. Len(c) = 0
      BY <1>1 DEF ChainOK
    <2>5. Shrunk(Over(s), c, Len(c), Over(s))
      BY <2>4 DEF Shrunk
    <2> QED
      BY <2>3, <2>5
  <1>2. CASE ~(Len(v) <= MaxInline)
    <2>1. item.data = <<"Overflow", Len(v), Link(c, 1)>>
      BY <1>2 DEF Entry
    <2>2. item.data[1] = "Overflow" /\ item.data[3] = Link(c, 1)
      BY <2>1
    <2>3. PICK n \in Nat : n = Len(s.pages)
      BY <1>0
    <2>4. PICK f : /\ f[0] = [id |-> item.data[3], s |-> s]
                   /\ \A k \in 0 .. n - 1 : f[k + 1] = ReleaseStep(f[k])
                   /\ s2 = f[n].s
      BY <2>2, <2>3, ReleaseItemIs
    <2> DEFINE S == {k \in Nat : k <= n => FreedOK(s, c, k, f[k])}
    <2>5. c \in Seq(Nat) /\ Len(c) \in Nat /\ Distinct(c) /\ \A i \in 1 .. Len(c) : c[i] \in DOMAIN Over(s)
      BY DEF ChainOK
    <2>6. 0 \in S
      <3>1. f[0].id = Link(c, 0 + 1) /\ f[0].s = s
        BY <2>2, <2>4
      <3>2. Shrunk(Over(s), c, 0, Over(s)) /\ 0 \in 0 .. Len(c)
        BY <2>5 DEF Shrunk
      <3>3. FreedOK(s, c, 0, f[0])
        BY <3>1, <3>2 DEF FreedOK
      <3> QED
        BY <3>3
    <2>7. ASSUME NEW k \in Nat, k \in S PROVE k + 1 \in S
      <3> SUFFICES ASSUME k + 1 <= n PROVE FreedOK(s, c, k + 1, f[k + 1])
        OBVIOUS
      <3>1. FreedOK(s, c, k, f[k]) /\ f[k + 1] = ReleaseStep(f[k])
        BY <2>4, <2>7
      <3> QED
        BY <3>1, FreedMore
    <2>8. Nat \subseteq S
      <3> HIDE DEF S
      <3> QED
        BY <2>6, <2>7, SetInduction
    <2>9. FreedOK(s, c, n, f[n])
      BY <2>8
    <2>10. Len(c) <= n
      <3>1. \A i \in 1 .. Len(c) : c[i] \in Overflowing(s)
        BY <2>5, Parts
      <3>2. \A i \in 1 .. Len(c) : c[i] \in 1 .. n
        BY <2>3, <3>1, FileFacts
      <3> QED
        BY <2>5, <3>2, DistinctLen
    <2>11. PICK m \in 0 .. Len(c) : /\ m = n \/ (m = Len(c) /\ m <= n)
                                    /\ Len(f[n].s.pages) = Len(s.pages)
                                    /\ \E q2 : FileOK(f[n].s, q2)
                                    /\ Tree(f[n].s) = Tree(s) /\ Shrunk(Over(s), c, m, Over(f[n].s))
      BY <2>9 DEF FreedOK
    <2>12. m = Len(c)
      BY <2>5, <2>10, <2>11
    <2> QED
      BY <2>4, <2>11, <2>12
  <1> QED
    BY <1>1, <1>2

\* One sequence after another.
Concats(x, z, y) ==
  /\ y \in Seq(Nat) /\ Len(y) = Len(x) + Len(z)
  /\ \A i \in 1 .. Len(x) : y[i] = x[i]
  /\ \A i \in 1 .. Len(z) : y[i + Len(x)] = z[i]

\* The elements of a concatenation.
LEMMA Concat == \A x, z \in Seq(Nat) : Concats(x, z, x \o z)
  <1> SUFFICES ASSUME NEW x \in Seq(Nat), NEW z \in Seq(Nat), NEW y, y = x \o z PROVE Concats(x, z, y)
    OBVIOUS
  <1>1. y \in Seq(Nat) /\ Len(y) = Len(x) + Len(z)
    OBVIOUS
  <1>2. \A i \in 1 .. Len(x) : y[i] = x[i]
    OBVIOUS
  <1>3. ASSUME NEW i \in 1 .. Len(z) PROVE y[i + Len(x)] = z[i]
    <2>1. i + Len(x) \in 1 .. Len(y) /\ ~(i + Len(x) <= Len(x)) /\ (i + Len(x)) - Len(x) = i
      BY <1>1
    <2> QED
      BY <2>1
  <1> QED
    BY <1>1, <1>2, <1>3 DEF Concats

\* After k rounds of reading, the first m chunks are read.
ReadOK(c, v, k, acc) ==
  \E m \in 0 .. Len(c) :
    /\ m = k \/ (m = Len(c) /\ m <= k)
    /\ acc.id = Link(c, m + 1) /\ acc.out \in Seq(Nat)
    /\ Len(acc.out) = IF m = Chunks(v) THEN Len(v) ELSE m * OverflowChunk
    /\ \A i \in 1 .. Len(acc.out) : acc.out[i] = v[i]

\* Chunk by chunk.
LEMMA ReadMore ==
  ASSUME NEW s, NEW q, FileOK(s, q), NEW c, NEW v \in Seq(Nat), Len(v) > MaxInline, ChainOK(Over(s), c, v),
         NEW k \in Nat, NEW acc, ReadOK(c, v, k, acc)
  PROVE  ReadOK(c, v, k + 1, FetchStep(s, acc))
  <1>1. PICK m \in 0 .. Len(c) : /\ m = k \/ (m = Len(c) /\ m <= k)
                                 /\ acc.id = Link(c, m + 1) /\ acc.out \in Seq(Nat)
                                 /\ Len(acc.out) = IF m = Chunks(v) THEN Len(v) ELSE m * OverflowChunk
                                 /\ \A i \in 1 .. Len(acc.out) : acc.out[i] = v[i]
    BY DEF ReadOK
  <1>2. Len(v) > 0 /\ ~(Len(v) <= MaxInline)
    BY Sizes
  <1>3. /\ c \in Seq(Nat) /\ Len(c) \in Nat /\ Len(c) = Chunks(v)
        /\ \A i \in 1 .. Len(c) : c[i] \in DOMAIN Over(s) /\ Over(s)[c[i]].items = Chunk(v, i) /\ Over(s)[c[i]].extra = Link(c, i + 1)
    BY <1>2 DEF ChainOK
  <1>4. DOMAIN Over(s) = Overflowing(s) /\ \A a \in Overflowing(s) : Over(s)[a] = s.pages[a] /\ s.pages[a].kind = "Overflow"
    BY Parts
  <1>5. \A a \in Overflowing(s) : a # NoPage
    BY FileFacts DEF NoPage
  <1>6. CASE m = Len(c)
    <2>1. acc.id = NoPage
      BY <1>1, <1>3, <1>6 DEF Link
    <2>2. FetchStep(s, acc) = acc
      BY <2>1 DEF FetchStep
    <2>3. m <= k + 1
      BY <1>1, <1>3
    <2> QED
      BY <1>1, <1>6, <2>2, <2>3 DEF ReadOK
  <1>7. CASE m < Len(c)
    <2>1. m = k /\ m + 1 \in 1 .. Len(c) /\ acc.id = c[m + 1]
      BY <1>1, <1>3, <1>7 DEF Link
    <2>2. acc.id \in Overflowing(s) /\ acc.id # NoPage /\ s.pages[acc.id].kind = "Overflow"
      BY <1>3, <1>4, <1>5, <2>1
    <2>3. PICK chunk : chunk = Chunk(v, m + 1)
      OBVIOUS
    <2>4. s.pages[acc.id].items = chunk /\ s.pages[acc.id].extra = Link(c, (m + 1) + 1)
      BY <1>3, <1>4, <2>1, <2>2, <2>3
    <2>5. PICK next : next = FetchStep(s, acc)
      OBVIOUS
    <2>6. next.id = Link(c, (m + 1) + 1) /\ next.out = acc.out \o chunk
      BY <2>2, <2>4, <2>5 DEF FetchStep
    <2>7. PICK lo : lo = m * OverflowChunk
      OBVIOUS
    <2>8. m + 1 \in 1 .. Chunks(v) /\ (m + 1) - 1 = m /\ m # Chunks(v)
      <3>1. m + 1 \in 1 .. Len(c) /\ (m + 1) - 1 = m /\ m # Len(c)
        BY <1>3, <1>7, <2>1
      <3> QED
        BY <1>3, <3>1
    <2>9. /\ chunk \in Seq(Nat) /\ lo \in Nat /\ (m + 1) * OverflowChunk = lo + OverflowChunk
          /\ Len(chunk) = (IF m + 1 = Chunks(v) THEN Len(v) ELSE (m + 1) * OverflowChunk) - lo
          /\ \A j \in 1 .. Len(chunk) : chunk[j] = v[j + lo]
      BY <1>2, <2>3, <2>7, <2>8, ChunkIs, SMTT(20)
    <2>10. Len(acc.out) = lo
      BY <1>1, <2>7, <2>8
    <2>11. /\ next.out \in Seq(Nat) /\ Len(next.out) = lo + Len(chunk)
           /\ \A i \in 1 .. lo : next.out[i] = acc.out[i]
           /\ \A i \in 1 .. Len(chunk) : next.out[i + lo] = chunk[i]
      <3>1. PICK x : x = acc.out
        OBVIOUS
      <3>2. x \in Seq(Nat) /\ Len(x) = lo /\ lo \in Nat /\ chunk \in Seq(Nat)
        BY <1>1, <2>9, <2>10, <3>1
      <3>3. PICK y : y = x \o chunk
        OBVIOUS
      <3>4. /\ y \in Seq(Nat) /\ Len(y) = Len(x) + Len(chunk)
            /\ \A i \in 1 .. Len(x) : y[i] = x[i]
            /\ \A i \in 1 .. Len(chunk) : y[i + Len(x)] = chunk[i]
        <4>1. Concats(x, chunk, y)
          BY <3>2, <3>3, Concat
        <4> QED
          BY <4>1 DEF Concats
      <3> QED
        BY <2>6, <3>1, <3>2, <3>3, <3>4
    <2>12. ASSUME NEW i \in 1 .. Len(next.out) PROVE next.out[i] = v[i]
      <3>1. Len(chunk) \in Nat
        BY <2>9
      <3>2. CASE i <= lo
        BY <1>1, <2>9, <2>10, <2>11, <3>2, SMTT(20)
      <3>3. CASE i > lo
        <4>1. i - lo \in 1 .. Len(chunk) /\ (i - lo) + lo = i
          BY <2>9, <2>11, <3>1, <3>3
        <4> QED
          BY <2>9, <2>11, <4>1
      <3> QED
        BY <2>9, <3>2, <3>3
    <2>13. Len(next.out) = IF m + 1 = Chunks(v) THEN Len(v) ELSE (m + 1) * OverflowChunk
      BY <2>9, <2>11, Sizes
    <2>14. m + 1 \in 0 .. Len(c) /\ m + 1 = k + 1
      BY <2>1
    <2>15. ReadOK(c, v, k + 1, next)
      BY <2>6, <2>11, <2>12, <2>13, <2>14 DEF ReadOK
    <2> QED
      BY <2>5, <2>15
  <1> QED
    BY <1>3, <1>6, <1>7

\* An item's payload is the one it was built for.
LEMMA PayloadOfOK ==
  ASSUME NEW s, NEW q, FileOK(s, q), NEW c, NEW v \in Seq(Nat), ChainOK(Over(s), c, v), NEW key,
         NEW item, item = Entry(key, v, Link(c, 1))
  PROVE  PayloadOf(s, item) = <<v>>
  <1>0. Len(s.pages) \in Nat /\ Len(v) \in Nat
    BY FileFacts
  <1>1. PICK n \in Nat : n = Len(s.pages)
    BY <1>0
  <1>2. PICK f : /\ f[0] = [id |-> item.data[3], out |-> <<>>]
                 /\ \A k \in 0 .. n - 1 : f[k + 1] = FetchStep(s, f[k])
                 /\ PayloadOf(s, item) = IF item.data[1] = "Inline" THEN <<item.data[2]>>
                                         ELSE IF f[n].id = NoPage /\ Len(f[n].out) = item.data[2] THEN <<f[n].out>>
                                         ELSE <<"corrupt">>
    BY <1>1, PayloadOfIs
  <1>3. CASE Len(v) <= MaxInline
    <2>1. item.data = <<"Inline", v>>
      BY <1>3 DEF Entry
    <2>2. item.data[1] = "Inline" /\ item.data[2] = v
      BY <2>1
    <2> QED
      BY <1>2, <2>2
  <1>4. CASE ~(Len(v) <= MaxInline)
    <2>1. item.data = <<"Overflow", Len(v), Link(c, 1)>>
      BY <1>4 DEF Entry
    <2>2. item.data[1] = "Overflow" /\ item.data[2] = Len(v) /\ item.data[3] = Link(c, 1)
      BY <2>1
    <2> DEFINE S == {k \in Nat : k <= n => ReadOK(c, v, k, f[k])}
    <2>3. /\ c \in Seq(Nat) /\ Len(c) \in Nat /\ Distinct(c) /\ Len(c) = Chunks(v)
          /\ \A i \in 1 .. Len(c) : c[i] \in DOMAIN Over(s)
      BY <1>4 DEF ChainOK
    <2>4. Len(v) > MaxInline /\ Len(v) > 0
      BY <1>0, <1>4, Sizes
    <2>5. Chunks(v) >= 1
      BY <2>4, ChunksIs
    <2>6. 0 \in S
      <3>1. PICK e : e = <<>>
        OBVIOUS
      <3>2. e \in Seq(Nat) /\ Len(e) = 0
        BY <3>1
      <3>3. f[0].id = Link(c, 0 + 1) /\ f[0].out = e
        BY <1>2, <2>2, <3>1
      <3>4. 0 \in 0 .. Len(c) /\ 0 # Chunks(v) /\ 0 * OverflowChunk = 0
        BY <2>3, <2>5, Sizes
      <3>5. ReadOK(c, v, 0, f[0])
        BY <3>2, <3>3, <3>4 DEF ReadOK
      <3> QED
        BY <3>5
    <2>7. ASSUME NEW k \in Nat, k \in S PROVE k + 1 \in S
      <3> SUFFICES ASSUME k + 1 <= n PROVE ReadOK(c, v, k + 1, f[k + 1])
        OBVIOUS
      <3>1. ReadOK(c, v, k, f[k]) /\ f[k + 1] = FetchStep(s, f[k])
        BY <1>2, <2>7
      <3> QED
        BY <2>4, <3>1, ReadMore
    <2>8. Nat \subseteq S
      <3> HIDE DEF S
      <3> QED
        BY <2>6, <2>7, SetInduction
    <2>9. ReadOK(c, v, n, f[n])
      BY <2>8
    <2>10. Len(c) <= n
      <3>0. DOMAIN Over(s) = Overflowing(s)
        BY Parts
      <3>1. \A i \in 1 .. Len(c) : c[i] \in Overflowing(s)
        BY <2>3, <3>0
      <3>2. \A i \in 1 .. Len(c) : c[i] \in 1 .. n
        BY <1>1, <3>1, FileFacts
      <3> QED
        BY <2>3, <3>2, DistinctLen
    <2>11. PICK m \in 0 .. Len(c) : /\ m = n \/ (m = Len(c) /\ m <= n)
                                    /\ f[n].id = Link(c, m + 1) /\ f[n].out \in Seq(Nat)
                                    /\ Len(f[n].out) = IF m = Chunks(v) THEN Len(v) ELSE m * OverflowChunk
                                    /\ \A i \in 1 .. Len(f[n].out) : f[n].out[i] = v[i]
      BY <2>9 DEF ReadOK
    <2>12. m = Len(c)
      BY <2>3, <2>10, <2>11
    <2>13. f[n].id = NoPage
      BY <2>3, <2>11, <2>12 DEF Link
    <2>14. Len(f[n].out) = Len(v)
      BY <2>3, <2>11, <2>12
    <2>15. f[n].out = v
      <3>1. PICK U : U = Nat
        OBVIOUS
      <3>2. PICK o : o = f[n].out
        OBVIOUS
      <3>3. o \in Seq(U) /\ v \in Seq(U) /\ Len(o) = Len(v) /\ \A i \in 1 .. Len(o) : o[i] = v[i]
        BY <2>11, <2>14, <3>1, <3>2
      <3>4. o = v
        BY <3>3, SeqsEqual
      <3> QED
        BY <3>2, <3>4
    <2> QED
      BY <1>2, <2>2, <2>13, <2>14, <2>15
  <1> QED
    BY <1>3, <1>4

\* A chain whose pages are kept is kept.
LEMMA ChainKept ==
  ASSUME NEW O, NEW O2, NEW c, NEW v, ChainOK(O, c, v), \A i \in 1 .. Len(c) : c[i] \in DOMAIN O2 /\ O2[c[i]] = O[c[i]]
  PROVE  ChainOK(O2, c, v)
  BY DEF ChainOK

\* The conjuncts of ChainsOK, by name of the page.
Uses(ch, x, id) == \E i \in 1 .. Len(ch[x]) : ch[x][i] = id

\* ChainsOK, in terms of the pages that each chain uses.
LEMMA ChainsAre ==
  ASSUME NEW O, NEW ch, NEW V, NEW L
  PROVE  ChainsOK(O, ch, V, L) <=>
           /\ \A x \in DOMAIN V : ChainOK(O, ch[x], V[x])
           /\ \A x, y \in DOMAIN V : \A id : Uses(ch, x, id) /\ Uses(ch, y, id) => x = y
           /\ \A x \in DOMAIN V : \A id : Uses(ch, x, id) => id \notin L /\ id \in DOMAIN O
           /\ L \subseteq DOMAIN O
           /\ \A id \in DOMAIN O : id \in L \/ \E x \in DOMAIN V : Uses(ch, x, id)
  <1>1. ASSUME ChainsOK(O, ch, V, L), NEW x \in DOMAIN V, NEW i \in 1 .. Len(ch[x]) PROVE ch[x][i] \in DOMAIN O
    BY <1>1 DEF ChainsOK, ChainOK
  <1>2. (\A x, y \in DOMAIN V : \A i \in 1 .. Len(ch[x]), j \in 1 .. Len(ch[y]) : ch[x][i] = ch[y][j] => x = y)
          <=> \A x, y \in DOMAIN V : \A id : Uses(ch, x, id) /\ Uses(ch, y, id) => x = y
    BY DEF Uses
  <1>3. (\A x \in DOMAIN V : \A i \in 1 .. Len(ch[x]) : ch[x][i] \notin L)
          <=> \A x \in DOMAIN V : \A id : Uses(ch, x, id) => id \notin L
    BY DEF Uses
  <1>4. \A x, id : Uses(ch, x, id) <=> \E i \in 1 .. Len(ch[x]) : ch[x][i] = id
    BY DEF Uses
  <1>5. ChainsOK(O, ch, V, L) => \A x \in DOMAIN V : \A id : Uses(ch, x, id) => id \in DOMAIN O
    BY <1>1, <1>4
  <1> QED
    BY <1>2, <1>3, <1>4, <1>5 DEF ChainsOK

\* The chains of the other keys stay.
Same(ch, ch2, D, key) == \A y \in DOMAIN D : y # key => ch2[y] = ch[y]

\* The entry for x gets a new chain c; the old one, if there was one, is gone.
LEMMA ChainsPut ==
  ASSUME NEW O, NEW ch, NEW V, NEW L, ChainsOK(O, ch, V, L), NEW x, NEW v, NEW V2, Sets(V, x, v, V2),
         NEW c, NEW ch2, ch2[x] = c, Same(ch, ch2, V, x),
         NEW O3, ChainOK(O3, c, v), \A i \in 1 .. Len(c) : c[i] \notin DOMAIN O,
         \A id : id \in DOMAIN O3 <=> (\E i \in 1 .. Len(c) : c[i] = id) \/ (id \in DOMAIN O /\ ~(x \in DOMAIN V /\ Uses(ch, x, id))),
         \A id \in DOMAIN O : id \in DOMAIN O3 => O3[id] = O[id]
  PROVE  ChainsOK(O3, ch2, V2, L)
  <1>a. \A y \in DOMAIN V : y # x => ch2[y] = ch[y]
    BY DEF Same
  <1>1. /\ \A y \in DOMAIN V : ChainOK(O, ch[y], V[y])
        /\ \A y, z \in DOMAIN V : \A id : Uses(ch, y, id) /\ Uses(ch, z, id) => y = z
        /\ \A y \in DOMAIN V : \A id : Uses(ch, y, id) => id \notin L /\ id \in DOMAIN O
        /\ L \subseteq DOMAIN O
        /\ \A id \in DOMAIN O : id \in L \/ \E y \in DOMAIN V : Uses(ch, y, id)
    BY ChainsAre
  <1>2. DOMAIN V2 = DOMAIN V \cup {x} /\ V2[x] = v /\ \A y \in DOMAIN V : y # x => V2[y] = V[y]
    BY DEF Sets
  <1>3. \A id : Uses(ch2, x, id) <=> \E i \in 1 .. Len(c) : c[i] = id
    BY DEF Uses
  <1>4. \A y \in DOMAIN V : y # x => \A id : Uses(ch2, y, id) <=> Uses(ch, y, id)
    BY <1>a DEF Uses
  <1>5. ASSUME NEW y \in DOMAIN V, y # x, NEW id, Uses(ch, y, id)
        PROVE  id \in DOMAIN O3 /\ id \in DOMAIN O /\ O3[id] = O[id] /\ ~(x \in DOMAIN V /\ Uses(ch, x, id))
    BY <1>1, <1>5
  <1>6. ASSUME NEW y \in DOMAIN V2 PROVE ChainOK(O3, ch2[y], V2[y])
    <2>1. CASE y = x
      BY <1>2, <2>1
    <2>2. CASE y # x
      <3>1. y \in DOMAIN V /\ ch2[y] = ch[y] /\ V2[y] = V[y] /\ ChainOK(O, ch[y], V[y])
        BY <1>a, <1>1, <1>2, <2>2
      <3>2. ASSUME NEW i \in 1 .. Len(ch[y]) PROVE ch[y][i] \in DOMAIN O3 /\ O3[ch[y][i]] = O[ch[y][i]]
        <4>1. Uses(ch, y, ch[y][i])
          BY DEF Uses
        <4> QED
          BY <1>5, <2>2, <3>1, <4>1
      <3>3. ChainOK(O3, ch[y], V[y])
        BY <3>1, <3>2, ChainKept
      <3> QED
        BY <3>1, <3>3
    <2> QED
      BY <2>1, <2>2
  <1>7. ASSUME NEW y \in DOMAIN V2, NEW z \in DOMAIN V2, NEW id, Uses(ch2, y, id), Uses(ch2, z, id) PROVE y = z
    BY <1>1, <1>2, <1>3, <1>4, <1>7
  <1>8. ASSUME NEW y \in DOMAIN V2, NEW id, Uses(ch2, y, id) PROVE id \notin L /\ id \in DOMAIN O3
    BY <1>1, <1>2, <1>3, <1>4, <1>5, <1>8
  <1>9. L \subseteq DOMAIN O3
    BY <1>1
  <1>10. ASSUME NEW id \in DOMAIN O3 PROVE id \in L \/ \E y \in DOMAIN V2 : Uses(ch2, y, id)
    BY <1>1, <1>2, <1>3, <1>4
  <1> QED
    BY <1>6, <1>7, <1>8, <1>9, <1>10, ChainsAre

\* A new entry.
LEMMA ChainsAdd ==
  ASSUME NEW O, NEW ch, NEW V, NEW L, ChainsOK(O, ch, V, L), NEW x, x \notin DOMAIN V, NEW v, NEW V2, Sets(V, x, v, V2),
         NEW c, NEW ch2, ch2[x] = c, Same(ch, ch2, V, x),
         NEW O2, ChainOK(O2, c, v), Grown(O, c, O2)
  PROVE  ChainsOK(O2, ch2, V2, L)
  <1>1. /\ \A i \in 1 .. Len(c) : c[i] \notin DOMAIN O
        /\ \A id : id \in DOMAIN O2 <=> (\E i \in 1 .. Len(c) : c[i] = id) \/ (id \in DOMAIN O /\ ~(x \in DOMAIN V /\ Uses(ch, x, id)))
        /\ \A id \in DOMAIN O : id \in DOMAIN O2 => O2[id] = O[id]
    BY DEF Grown
  <1> QED
    BY <1>1, ChainsPut

\* An entry changes: its new chain is written, then the old one is released.
LEMMA ChainsSwap ==
  ASSUME NEW O, NEW ch, NEW V, NEW L, ChainsOK(O, ch, V, L), NEW x \in DOMAIN V, NEW v, NEW V2, Sets(V, x, v, V2),
         NEW c, NEW ch2, ch2[x] = c, Same(ch, ch2, V, x),
         NEW O2, ChainOK(O2, c, v), Grown(O, c, O2), NEW O3, Shrunk(O2, ch[x], Len(ch[x]), O3)
  PROVE  ChainsOK(O3, ch2, V2, L)
  <1>1. \A id : Uses(ch, x, id) => id \in DOMAIN O
    BY ChainsAre
  <1>2. \A i \in 1 .. Len(c) : c[i] \notin DOMAIN O /\ c[i] \in DOMAIN O2
    BY DEF Grown
  <1>3. \A id : id \in DOMAIN O3 <=> id \in DOMAIN O2 /\ ~Uses(ch, x, id)
    BY DEF Shrunk, Uses
  <1>4. \A id : id \in DOMAIN O2 <=> (\E i \in 1 .. Len(c) : c[i] = id) \/ id \in DOMAIN O
    BY DEF Grown
  <1>5. \A id : id \in DOMAIN O3 <=> (\E i \in 1 .. Len(c) : c[i] = id) \/ (id \in DOMAIN O /\ ~(x \in DOMAIN V /\ Uses(ch, x, id)))
    BY <1>1, <1>2, <1>3, <1>4
  <1>6. \A id \in DOMAIN O : id \in DOMAIN O3 => O3[id] = O[id]
    BY DEF Shrunk, Grown
  <1>7. ChainOK(O3, c, v)
    <2>1. \A i \in 1 .. Len(c) : c[i] \in DOMAIN O3
      BY <1>1, <1>2, <1>3
    <2>2. \A i \in 1 .. Len(c) : O3[c[i]] = O2[c[i]]
      BY <2>1 DEF Shrunk
    <2> QED
      BY <2>1, <2>2, ChainKept
  <1> QED
    BY <1>2, <1>5, <1>6, <1>7, ChainsPut

\* An entry is removed.
LEMMA ChainsDrop ==
  ASSUME NEW O, NEW ch, NEW V, NEW L, ChainsOK(O, ch, V, L), NEW x \in DOMAIN V, NEW V2, Drops(V, x, V2),
         NEW O2, Shrunk(O, ch[x], Len(ch[x]), O2)
  PROVE  ChainsOK(O2, ch, V2, L)
  <1>1. /\ \A y \in DOMAIN V : ChainOK(O, ch[y], V[y])
        /\ \A y, z \in DOMAIN V : \A id : Uses(ch, y, id) /\ Uses(ch, z, id) => y = z
        /\ \A y \in DOMAIN V : \A id : Uses(ch, y, id) => id \notin L /\ id \in DOMAIN O
        /\ L \subseteq DOMAIN O
        /\ \A id \in DOMAIN O : id \in L \/ \E y \in DOMAIN V : Uses(ch, y, id)
    BY ChainsAre
  <1>2. DOMAIN V2 = DOMAIN V \ {x} /\ \A y \in DOMAIN V2 : V2[y] = V[y]
    BY DEF Drops
  <1>3. \A id : id \in DOMAIN O2 <=> id \in DOMAIN O /\ ~Uses(ch, x, id)
    BY DEF Shrunk, Uses
  <1>4. \A id \in DOMAIN O2 : O2[id] = O[id]
    BY DEF Shrunk
  <1>5. ASSUME NEW y \in DOMAIN V2, NEW id, Uses(ch, y, id) PROVE id \in DOMAIN O2 /\ id \notin L
    BY <1>1, <1>2, <1>3, <1>5
  <1>6. ASSUME NEW y \in DOMAIN V2 PROVE ChainOK(O2, ch[y], V2[y])
    <2>1. ASSUME NEW i \in 1 .. Len(ch[y]) PROVE ch[y][i] \in DOMAIN O2
      <3>1. Uses(ch, y, ch[y][i])
        BY DEF Uses
      <3> QED
        BY <1>5, <3>1
    <2>2. ChainOK(O, ch[y], V[y]) /\ V2[y] = V[y]
      BY <1>1, <1>2
    <2>3. \A i \in 1 .. Len(ch[y]) : ch[y][i] \in DOMAIN O2 /\ O2[ch[y][i]] = O[ch[y][i]]
      BY <1>4, <2>1
    <2> QED
      BY <2>2, <2>3, ChainKept
  <1>7. L \subseteq DOMAIN O2
    BY <1>1, <1>3
  <1>8. ASSUME NEW id \in DOMAIN O2 PROVE id \in L \/ \E y \in DOMAIN V2 : Uses(ch, y, id)
    BY <1>1, <1>2, <1>3
  <1>9. \A y, z \in DOMAIN V2 : \A id : Uses(ch, y, id) /\ Uses(ch, z, id) => y = z
    BY <1>1, <1>2
  <1> QED
    BY <1>5, <1>6, <1>7, <1>8, <1>9, ChainsAre

\* The chain of an insertion that fails is lost.
LEMMA ChainsLose ==
  ASSUME NEW O, NEW ch, NEW V, NEW L, ChainsOK(O, ch, V, L), NEW c, NEW O2, Grown(O, c, O2),
         NEW L2, L2 = L \cup (DOMAIN O2 \ DOMAIN O)
  PROVE  ChainsOK(O2, ch, V, L2)
  <1>1. /\ \A y \in DOMAIN V : ChainOK(O, ch[y], V[y])
        /\ \A y, z \in DOMAIN V : \A id : Uses(ch, y, id) /\ Uses(ch, z, id) => y = z
        /\ \A y \in DOMAIN V : \A id : Uses(ch, y, id) => id \notin L /\ id \in DOMAIN O
        /\ L \subseteq DOMAIN O
        /\ \A id \in DOMAIN O : id \in L \/ \E y \in DOMAIN V : Uses(ch, y, id)
    BY ChainsAre
  <1>2. \A id \in DOMAIN O : id \in DOMAIN O2 /\ O2[id] = O[id]
    BY DEF Grown
  <1>3. ASSUME NEW y \in DOMAIN V PROVE ChainOK(O2, ch[y], V[y])
    <2>1. ASSUME NEW i \in 1 .. Len(ch[y]) PROVE ch[y][i] \in DOMAIN O
      <3>1. Uses(ch, y, ch[y][i])
        BY DEF Uses
      <3> QED
        BY <1>1, <3>1
    <2>2. \A i \in 1 .. Len(ch[y]) : ch[y][i] \in DOMAIN O2 /\ O2[ch[y][i]] = O[ch[y][i]]
      BY <1>2, <2>1
    <2> QED
      BY <1>1, <2>2, ChainKept
  <1>4. ASSUME NEW y \in DOMAIN V, NEW id, Uses(ch, y, id) PROVE id \notin L2 /\ id \in DOMAIN O2
    BY <1>1, <1>2, <1>4
  <1>5. L2 \subseteq DOMAIN O2
    BY <1>1, <1>2
  <1>6. ASSUME NEW id \in DOMAIN O2 PROVE id \in L2 \/ \E y \in DOMAIN V : Uses(ch, y, id)
    BY <1>1
  <1> QED
    BY <1>1, <1>3, <1>4, <1>5, <1>6, ChainsAre
-----------------------------------------------------------------------------
(* Trees *)

\* What a node is.
LEMMA NodeFacts ==
  ASSUME NEW T, NEW g, NEW a, NodeOK(T, g, a)
  PROVE  /\ a \in Nat \ {0} /\ T[a] \in Node /\ T[a].kind \in {"Leaf", "Internal"} /\ T[a].extra \in Nat
         /\ T[a].items \in Seq(Item) /\ Len(T[a].items) \in Nat /\ T[a].free \in Nat /\ Sorted(T[a].items)
         /\ \A i \in 1 .. Len(T[a].items) : T[a].items[i] \in Item /\ T[a].items[i].key \in Nat
         /\ g.lo[a] \in Nat /\ g.hi[a] \in Nat \cup {Inf} /\ Before(g.lo[a], g.hi[a]) /\ g.lvl[a] \in Nat
         /\ (T[a].kind = "Leaf" <=> g.lvl[a] = 0) /\ (T[a].kind = "Internal" <=> g.lvl[a] # 0)
         /\ \A i \in 1 .. Len(T[a].items) : g.lo[a] <= T[a].items[i].key /\ Before(T[a].items[i].key, g.hi[a])
  <1>1. T[a] \in Node
    BY DEF NodeOK
  <1>2. T[a].kind \in {"Leaf", "Internal"} /\ T[a].extra \in Nat /\ T[a].items \in Seq(Item) /\ T[a].free \in Nat
    BY <1>1 DEF Node
  <1>3. \A i \in 1 .. Len(T[a].items) : T[a].items[i] \in Item
    BY <1>2
  <1>4. \A e \in Item : e.key \in Nat
    BY DEF Item
  <1> QED
    BY <1>1, <1>2, <1>3, <1>4 DEF NodeOK, Sorted

\* The parts of TreeOK.
LEMMA TreeFacts ==
  ASSUME NEW T, NEW r, NEW g, NEW left, NEW right, TreeOK(T, r, g, left, right)
  PROVE  /\ \A a \in DOMAIN T : NodeOK(T, g, a)
         /\ \A a \in DOMAIN T : ChildrenOK(T, g, left, right, a)
         /\ \A a \in DOMAIN T : NextOK(T, g, a)
         /\ \A a \in DOMAIN T : a \in Nat \ {0}
         /\ r \in DOMAIN T /\ g.lo[r] = 0 /\ HiOf(g, left, right, r) = Inf
         /\ \A a \in DOMAIN T : g.lvl[a] <= g.lvl[r] /\ (g.lvl[a] = g.lvl[r] => a = r \/ a = right)
  BY DEF TreeOK, RootOK, NodeOK

\* A child's keys: from its separator on, up to the next.
LEMMA ChildFacts ==
  ASSUME NEW T, NEW r, NEW g, NEW left, NEW right, TreeOK(T, r, g, left, right),
         NEW a \in DOMAIN T, T[a].kind = "Internal", NEW i \in 0 .. Len(T[a].items)
  PROVE  /\ Child(T[a], i) \in DOMAIN T /\ Child(T[a], i) # right /\ Child(T[a], i) # NoPage
         /\ g.lvl[Child(T[a], i)] + 1 = g.lvl[a]
         /\ g.lo[Child(T[a], i)] = From(T[a], g.lo[a], i)
         /\ HiOf(g, left, right, Child(T[a], i)) = To(T[a], g.hi[a], i)
         /\ From(T[a], g.lo[a], i) \in Nat /\ g.lo[a] <= From(T[a], g.lo[a], i) /\ Before(From(T[a], g.lo[a], i), g.hi[a])
         /\ Before(From(T[a], g.lo[a], i), To(T[a], g.hi[a], i))
  <1>1. /\ Child(T[a], i) \in DOMAIN T /\ Child(T[a], i) # right
        /\ g.lvl[Child(T[a], i)] + 1 = g.lvl[a]
        /\ g.lo[Child(T[a], i)] = From(T[a], g.lo[a], i)
        /\ HiOf(g, left, right, Child(T[a], i)) = To(T[a], g.hi[a], i)
    BY DEF TreeOK, ChildrenOK
  <1>2. PICK c : c = Child(T[a], i)
    OBVIOUS
  <1>3. NodeOK(T, g, a) /\ NodeOK(T, g, c)
    BY <1>1, <1>2 DEF TreeOK
  <1>4. /\ T[a].items \in Seq(Item) /\ Len(T[a].items) \in Nat /\ g.lo[a] \in Nat /\ Before(g.lo[a], g.hi[a])
        /\ \A j \in 1 .. Len(T[a].items) : T[a].items[j].key \in Nat
        /\ \A j \in 1 .. Len(T[a].items) : g.lo[a] <= T[a].items[j].key /\ Before(T[a].items[j].key, g.hi[a])
    BY <1>3, NodeFacts
  <1>5. From(T[a], g.lo[a], i) \in Nat /\ g.lo[a] <= From(T[a], g.lo[a], i) /\ Before(From(T[a], g.lo[a], i), g.hi[a])
    BY <1>4 DEF From
  <1>6. c # NoPage /\ Before(g.lo[c], g.hi[c]) /\ g.lo[c] \in Nat /\ g.hi[c] \in Nat \cup {Inf}
    BY <1>3, NodeFacts DEF NoPage
  <1>7. Before(g.lo[c], HiOf(g, left, right, c))
    <2>1. CASE c # left
      BY <1>6, <2>1 DEF HiOf
    <2>2. CASE c = left
      <3>1. right \in DOMAIN T /\ g.hi[left] = g.lo[right]
        BY <1>6, <2>2 DEF TreeOK, SplitOK
      <3>2. NodeOK(T, g, right)
        BY <3>1 DEF TreeOK
      <3>3. Before(g.lo[right], g.hi[right]) /\ g.lo[right] \in Nat /\ g.hi[right] \in Nat \cup {Inf}
        BY <3>2, NodeFacts
      <3> QED
        BY <1>6, <2>2, <3>1, <3>3 DEF HiOf, Before, Inf
    <2> QED
      BY <2>1, <2>2
  <1> QED
    BY <1>1, <1>2, <1>5, <1>6, <1>7

\* The separators of a node, in order; its first child's keys start below them.
LEMMA FromGrows ==
  ASSUME NEW T, NEW r, NEW g, NEW left, NEW right, TreeOK(T, r, g, left, right),
         NEW a \in DOMAIN T, T[a].kind = "Internal", NEW i \in 0 .. Len(T[a].items), NEW j \in 0 .. Len(T[a].items), i < j
  PROVE  From(T[a], g.lo[a], i) < From(T[a], g.lo[a], j)
  <1>1. NodeOK(T, g, a)
    BY DEF TreeOK
  <1>2. /\ Len(T[a].items) \in Nat /\ Sorted(T[a].items) /\ \A k \in 1 .. Len(T[a].items) : T[a].items[k].key \in Nat
    BY <1>1, NodeFacts
  <1>3. Before(From(T[a], g.lo[a], i), To(T[a], g.hi[a], i)) /\ From(T[a], g.lo[a], i) \in Nat
    BY ChildFacts
  <1>4. i # Len(T[a].items) /\ i + 1 \in 1 .. Len(T[a].items) /\ To(T[a], g.hi[a], i) = T[a].items[i + 1].key
    BY <1>2 DEF To
  <1>5. From(T[a], g.lo[a], i) < T[a].items[i + 1].key
    BY <1>2, <1>3, <1>4 DEF Before, Inf
  <1>6. j \in 1 .. Len(T[a].items) /\ From(T[a], g.lo[a], j) = T[a].items[j].key
    BY <1>2 DEF From
  <1>7. T[a].items[i + 1].key <= T[a].items[j].key
    BY <1>2, <1>4, <1>6 DEF Sorted
  <1> QED
    BY <1>2, <1>3, <1>4, <1>5, <1>6, <1>7

\* A node has one parent, and one place in it.
LEMMA OneParent ==
  ASSUME NEW T, NEW r, NEW g, NEW left, NEW right, TreeOK(T, r, g, left, right),
         NEW a \in DOMAIN T, T[a].kind = "Internal", NEW i \in 0 .. Len(T[a].items),
         NEW b \in DOMAIN T, T[b].kind = "Internal", NEW j \in 0 .. Len(T[b].items), Child(T[a], i) = Child(T[b], j)
  PROVE  a = b /\ i = j
  <1>1. PICK x : x = From(T[a], g.lo[a], i)
    OBVIOUS
  <1>2. /\ x \in Nat /\ g.lo[a] <= x /\ Before(x, g.hi[a]) /\ x = From(T[b], g.lo[b], j)
        /\ g.lo[b] <= x /\ Before(x, g.hi[b]) /\ g.lvl[a] = g.lvl[b]
    <2>1. /\ g.lvl[Child(T[a], i)] + 1 = g.lvl[a] /\ g.lo[Child(T[a], i)] = x
          /\ x \in Nat /\ g.lo[a] <= x /\ Before(x, g.hi[a])
      BY <1>1, ChildFacts
    <2>2. /\ g.lvl[Child(T[b], j)] + 1 = g.lvl[b] /\ g.lo[Child(T[b], j)] = From(T[b], g.lo[b], j)
          /\ g.lo[b] <= From(T[b], g.lo[b], j) /\ Before(From(T[b], g.lo[b], j), g.hi[b])
      BY ChildFacts
    <2> QED
      BY <2>1, <2>2
  <1>3. NodeOK(T, g, a) /\ NodeOK(T, g, b)
    BY DEF TreeOK
  <1>4. g.lo[a] \in Nat /\ g.lo[b] \in Nat /\ g.hi[a] \in Nat \cup {Inf} /\ g.hi[b] \in Nat \cup {Inf}
    BY <1>3, NodeFacts
  <1>5. a = b
    <2> SUFFICES ASSUME a # b PROVE FALSE
      OBVIOUS
    <2>1. Ends(g, a, b) \/ Ends(g, b, a)
      BY <1>2 DEF TreeOK, ApartOK
    <2> QED
      BY <1>2, <1>4, <2>1 DEF Ends, Before, Inf
  <1>6. i = j
    <2>1. Len(T[a].items) \in Nat
      BY <1>3, NodeFacts
    <2>2. ~(i < j)
      <3> SUFFICES ASSUME i < j PROVE FALSE
        OBVIOUS
      <3>1. From(T[a], g.lo[a], i) < From(T[a], g.lo[a], j)
        BY <1>5, FromGrows
      <3> QED
        BY <1>1, <1>2, <1>5, <3>1
    <2>3. ~(j < i)
      <3> SUFFICES ASSUME j < i PROVE FALSE
        OBVIOUS
      <3>1. From(T[a], g.lo[a], j) < From(T[a], g.lo[a], i)
        BY <1>5, FromGrows
      <3> QED
        BY <1>1, <1>2, <1>5, <3>1
    <2> QED
      BY <1>5, <2>1, <2>2, <2>3
  <1> QED
    BY <1>5, <1>6

\* One node changes, within its keys.
LEMMA NodeChanged ==
  ASSUME NEW T, NEW r, NEW g, NEW left, NEW right, TreeOK(T, r, g, left, right), NEW a \in DOMAIN T,
         NEW page, NEW T2, Sets(T, a, page, T2), page.kind = T[a].kind,
         NodeOK(T2, g, a), ChildrenOK(T2, g, left, right, a), NextOK(T2, g, a)
  PROVE  TreeOK(T2, r, g, left, right)
  <1>1. DOMAIN T2 = DOMAIN T /\ T2[a] = page /\ \A b \in DOMAIN T : b # a => T2[b] = T[b]
    BY DEF Sets
  <1>2. \A b \in DOMAIN T : NodeOK(T, g, b) /\ ChildrenOK(T, g, left, right, b) /\ NextOK(T, g, b)
    BY DEF TreeOK
  <1>3. \A b \in DOMAIN T2 : NodeOK(T2, g, b)
    BY <1>1, <1>2 DEF NodeOK
  <1>4. \A b \in DOMAIN T2 : ChildrenOK(T2, g, left, right, b)
    BY <1>1, <1>2 DEF ChildrenOK
  <1>5. \A b \in DOMAIN T2 : NextOK(T2, g, b)
    BY <1>1, <1>2 DEF NextOK
  <1>6. ApartOK(T2, g) /\ RootOK(T2, r, g, left, right) /\ SplitOK(T2, g, left, right)
    BY <1>1 DEF TreeOK, ApartOK, RootOK, SplitOK
  <1> QED
    BY <1>3, <1>4, <1>5, <1>6 DEF TreeOK

\* The items of a leaf change.
LEMMA LeafChanged ==
  ASSUME NEW T, NEW r, NEW g, NEW left, NEW right, TreeOK(T, r, g, left, right), NEW a \in DOMAIN T, T[a].kind = "Leaf",
         NEW page \in Node, NEW T2, Sets(T, a, page, T2), page.kind = "Leaf", page.extra = T[a].extra, Sorted(page.items),
         \A i \in 1 .. Len(page.items) : g.lo[a] <= page.items[i].key /\ Before(page.items[i].key, g.hi[a])
  PROVE  TreeOK(T2, r, g, left, right)
  <1>1. DOMAIN T2 = DOMAIN T /\ T2[a] = page /\ \A b \in DOMAIN T : b # a => T2[b] = T[b]
    BY DEF Sets
  <1>2. NodeOK(T, g, a) /\ NextOK(T, g, a)
    BY DEF TreeOK
  <1>3. NodeOK(T2, g, a)
    BY <1>1, <1>2 DEF NodeOK, Sorted
  <1>4. ChildrenOK(T2, g, left, right, a)
    BY <1>1 DEF ChildrenOK
  <1>5. NextOK(T2, g, a)
    BY <1>1, <1>2 DEF NextOK
  <1> QED
    BY <1>3, <1>4, <1>5, NodeChanged

\* Node a is cut in two at `sep`; b takes the upper part of its keys.
Halved(T, g, a, b, sep, g2) ==
  /\ \A c \in DOMAIN T : g2.lo[c] = g.lo[c] /\ g2.lvl[c] = g.lvl[c] /\ (c # a => g2.hi[c] = g.hi[c])
  /\ g2.hi[a] = sep /\ g2.lo[b] = sep /\ g2.hi[b] = g.hi[a] /\ g2.lvl[b] = g.lvl[a]

\* There is such a division of the keys.
LEMMA HalvedExists ==
  ASSUME NEW T, NEW g, NEW a \in DOMAIN T, NEW b, b \notin DOMAIN T, NEW sep
  PROVE  \E g2 : Halved(T, g, a, b, sep, g2)
  <1>1. PICK l : l = [c \in DOMAIN T \cup {b} |-> IF c = b THEN sep ELSE g.lo[c]]
    OBVIOUS
  <1>2. PICK h : h = [c \in DOMAIN T \cup {b} |-> IF c = b THEN g.hi[a] ELSE IF c = a THEN sep ELSE g.hi[c]]
    OBVIOUS
  <1>3. PICK v : v = [c \in DOMAIN T \cup {b} |-> IF c = b THEN g.lvl[a] ELSE g.lvl[c]]
    OBVIOUS
  <1>4. PICK g2 : g2 = [lo |-> l, hi |-> h, lvl |-> v]
    OBVIOUS
  <1>5. g2.lo = l /\ g2.hi = h /\ g2.lvl = v
    BY <1>4
  <1>6. Halved(T, g, a, b, sep, g2)
    BY <1>1, <1>2, <1>3, <1>5 DEF Halved
  <1> QED
    BY <1>6

\* Page a is pa and the new page b is pb.
Splits(T, a, pa, b, pb, T2) ==
  /\ DOMAIN T2 = DOMAIN T \cup {b} /\ T2[a] = pa /\ T2[b] = pb
  /\ \A c \in DOMAIN T : c # a => T2[c] = T[c]

\* A node is cut in two: what is left to do is to give b to the parent of a.
LEMMA NodeSplit ==
  ASSUME NEW T, NEW r, NEW g, TreeOK(T, r, g, NoPage, NoPage), NEW a \in DOMAIN T, NEW b, b \notin DOMAIN T,
         NEW pa, NEW pb, NEW T2, Splits(T, a, pa, b, pb, T2), pa.kind = T[a].kind, pb.kind = T[a].kind,
         NEW sep \in Nat, g.lo[a] < sep, Before(sep, g.hi[a]), NEW g2, Halved(T, g, a, b, sep, g2),
         NodeOK(T2, g2, a), ChildrenOK(T2, g2, a, b, a), NextOK(T2, g2, a),
         NodeOK(T2, g2, b), ChildrenOK(T2, g2, a, b, b), NextOK(T2, g2, b)
  PROVE  TreeOK(T2, r, g2, a, b)
  <1>1. /\ DOMAIN T2 = DOMAIN T \cup {b} /\ T2[a] = pa /\ T2[b] = pb /\ a # b
        /\ \A c \in DOMAIN T : c # a => T2[c] = T[c]
    BY DEF Splits
  <1>2. /\ \A c \in DOMAIN T : g2.lo[c] = g.lo[c] /\ g2.lvl[c] = g.lvl[c] /\ (c # a => g2.hi[c] = g.hi[c])
        /\ g2.hi[a] = sep /\ g2.lo[b] = sep /\ g2.hi[b] = g.hi[a] /\ g2.lvl[b] = g.lvl[a]
    BY DEF Halved
  <1>3. \A c \in DOMAIN T : NodeOK(T, g, c) /\ ChildrenOK(T, g, NoPage, NoPage, c) /\ NextOK(T, g, c)
    BY DEF TreeOK
  <1>4. \A c \in DOMAIN T2 : NodeOK(T2, g2, c)
    <2> SUFFICES ASSUME NEW c \in DOMAIN T, c # a PROVE NodeOK(T2, g2, c)
      BY <1>1
    <2>1. NodeOK(T, g, c) /\ T2[c] = T[c] /\ g2.lo[c] = g.lo[c] /\ g2.lvl[c] = g.lvl[c] /\ g2.hi[c] = g.hi[c]
      BY <1>1, <1>2, <1>3
    <2> QED
      BY <2>1 DEF NodeOK
  <1>5. \A c \in DOMAIN T : HiOf(g2, a, b, c) = HiOf(g, NoPage, NoPage, c)
    BY <1>1, <1>2 DEF HiOf
  <1>6. \A c \in DOMAIN T2 : ChildrenOK(T2, g2, a, b, c)
    <2> SUFFICES ASSUME NEW c \in DOMAIN T, c # a, T[c].kind = "Internal", NEW i \in 0 .. Len(T[c].items)
                 PROVE  /\ Child(T[c], i) \in DOMAIN T2 /\ Child(T[c], i) # b
                        /\ g2.lvl[Child(T[c], i)] + 1 = g2.lvl[c]
                        /\ g2.lo[Child(T[c], i)] = From(T[c], g2.lo[c], i)
                        /\ HiOf(g2, a, b, Child(T[c], i)) = To(T[c], g2.hi[c], i)
      BY <1>1 DEF ChildrenOK
    <2>1. /\ Child(T[c], i) \in DOMAIN T
          /\ g.lvl[Child(T[c], i)] + 1 = g.lvl[c]
          /\ g.lo[Child(T[c], i)] = From(T[c], g.lo[c], i)
          /\ HiOf(g, NoPage, NoPage, Child(T[c], i)) = To(T[c], g.hi[c], i)
      BY <1>3 DEF ChildrenOK
    <2> QED
      BY <1>1, <1>2, <1>5, <2>1
  <1>7. \A c \in DOMAIN T2 : NextOK(T2, g2, c)
    <2> SUFFICES ASSUME NEW c \in DOMAIN T, c # a PROVE NextOK(T2, g2, c)
      BY <1>1
    <2>1. NextOK(T, g, c)
      BY <1>3
    <2> QED
      BY <1>1, <1>2, <2>1 DEF NextOK
  <1>8. ApartOK(T2, g2)
    <2>1. ASSUME NEW c \in DOMAIN T, NEW d \in DOMAIN T, c # d, g2.lvl[c] = g2.lvl[d], Ends(g, c, d)
          PROVE  Ends(g2, c, d)
      <3>1. g2.lo[d] = g.lo[d] /\ g.lo[d] \in Nat
        BY <1>2, <1>3, NodeFacts
      <3>2. CASE c # a
        BY <1>2, <2>1, <3>1, <3>2 DEF Ends
      <3>3. CASE c = a
        <4>1. g.hi[a] # Inf /\ g.hi[a] \in Nat \cup {Inf} /\ sep < g.hi[a]
          BY <1>3, <2>1, <3>3, NodeFacts DEF Ends, Before
        <4> QED
          BY <1>2, <2>1, <3>1, <3>3, <4>1 DEF Ends, Inf
      <3> QED
        BY <3>2, <3>3
    <2>2. \A c, d \in DOMAIN T : c # d /\ g2.lvl[c] = g2.lvl[d] => Ends(g2, c, d) \/ Ends(g2, d, c)
      <3> TAKE c \in DOMAIN T, d \in DOMAIN T
      <3> HAVE c # d /\ g2.lvl[c] = g2.lvl[d]
      <3>1. Ends(g, c, d) \/ Ends(g, d, c)
        BY <1>2 DEF TreeOK, ApartOK
      <3> QED
        BY <2>1, <3>1
    <2>3. ASSUME NEW c \in DOMAIN T, g2.lvl[c] = g2.lvl[b] PROVE Ends(g2, c, b) \/ Ends(g2, b, c)
      <3>1. CASE c = a
        BY <1>2, <3>1 DEF Ends, Inf
      <3>2. CASE c # a
        <4>1. Ends(g, c, a) \/ Ends(g, a, c)
          BY <1>2, <2>3, <3>2 DEF TreeOK, ApartOK
        <4>2. g.lo[a] \in Nat /\ g.hi[c] \in Nat \cup {Inf}
          BY <1>3, NodeFacts
        <4> QED
          BY <1>2, <3>2, <4>1, <4>2 DEF Ends, Inf
      <3> QED
        BY <3>1, <3>2
    <2> QED
      BY <1>1, <2>2, <2>3 DEF ApartOK
  <1>9. RootOK(T2, r, g2, a, b)
    <2>1. /\ r \in DOMAIN T /\ g.lo[r] = 0 /\ HiOf(g, NoPage, NoPage, r) = Inf
          /\ \A c \in DOMAIN T : g.lvl[c] <= g.lvl[r] /\ (g.lvl[c] = g.lvl[r] => c = r \/ c = NoPage)
      BY DEF TreeOK, RootOK
    <2>2. \A c \in DOMAIN T : c # NoPage
      BY <1>3, NodeFacts DEF NoPage
    <2> QED
      BY <1>1, <1>2, <1>5, <2>1, <2>2 DEF RootOK
  <1>10. SplitOK(T2, g2, a, b)
    BY <1>1, <1>2 DEF SplitOK
  <1> QED
    BY <1>4, <1>6, <1>7, <1>8, <1>9, <1>10 DEF TreeOK

\* A leaf is cut in two.
LEMMA LeafSplit ==
  ASSUME NEW T, NEW r, NEW g, TreeOK(T, r, g, NoPage, NoPage), NEW a \in DOMAIN T, T[a].kind = "Leaf",
         NEW b \in Nat \ {0}, b \notin DOMAIN T, NEW pa \in Node, NEW pb \in Node, NEW T2, Splits(T, a, pa, b, pb, T2),
         pa.kind = "Leaf", pb.kind = "Leaf", pa.extra = b, pb.extra = T[a].extra,
         NEW items, Joined(pa.items, pb.items, items), Len(pa.items) > 0, Len(pb.items) > 0, Sorted(items),
         \A i \in 1 .. Len(items) : g.lo[a] <= items[i].key /\ Before(items[i].key, g.hi[a])
  PROVE  \E g2 : Halved(T, g, a, b, pb.items[1].key, g2) /\ TreeOK(T2, r, g2, a, b)
  <1>1. PICK sep : sep = pb.items[1].key
    OBVIOUS
  <1>2. PICK m : m = Len(pa.items)
    OBVIOUS
  <1>3. PICK n : n = Len(pb.items)
    OBVIOUS
  <1>4. /\ pa.items \in Seq(Item) /\ pb.items \in Seq(Item) /\ items \in Seq(Item) /\ m \in Nat \ {0} /\ n \in Nat \ {0}
        /\ Len(items) = m + n /\ \A i \in 1 .. m : pa.items[i] = items[i]
        /\ \A i \in 1 .. n : pb.items[i] = items[i + m]
    <2>1. /\ pa.items \in Seq(Item) /\ pb.items \in Seq(Item) /\ items \in Seq(Item) /\ Len(items) = m + n
          /\ (\A i \in 1 .. m : pa.items[i] = items[i]) /\ (\A i \in 1 .. n : pb.items[i] = items[i + m])
      BY <1>2, <1>3, Zenon DEF Joined
    <2>2. m \in Nat \ {0} /\ n \in Nat \ {0}
      BY <1>2, <1>3, <2>1
    <2> QED
      BY <2>1, <2>2
  <1>5. \A i \in 1 .. Len(items) : items[i].key \in Nat
    <2>1. \A e \in Item : e.key \in Nat
      BY DEF Item
    <2> QED
      BY <1>4, <2>1
  <1>6. sep = items[m + 1].key /\ sep \in Nat
    BY <1>1, <1>4, <1>5, SMTT(20)
  <1>7. NodeOK(T, g, a) /\ NextOK(T, g, a)
    BY DEF TreeOK
  <1>8. /\ g.lo[a] \in Nat /\ g.hi[a] \in Nat \cup {Inf} /\ Before(g.lo[a], g.hi[a]) /\ g.lvl[a] = 0 /\ a \in Nat \ {0}
    BY <1>7, NodeFacts
  <1>9. g.lo[a] < sep /\ Before(sep, g.hi[a])
    <2>1. items[1].key < items[m + 1].key
      BY <1>4 DEF Sorted
    <2>2. g.lo[a] <= items[1].key /\ Before(items[m + 1].key, g.hi[a])
      BY <1>4
    <2> QED
      BY <1>4, <1>5, <1>6, <1>8, <2>1, <2>2
  <1>10. PICK g2 : Halved(T, g, a, b, sep, g2)
    BY HalvedExists
  <1>11. /\ g2.lo[a] = g.lo[a] /\ g2.lvl[a] = 0 /\ g2.hi[a] = sep /\ g2.lo[b] = sep /\ g2.hi[b] = g.hi[a] /\ g2.lvl[b] = 0
         /\ \A c \in DOMAIN T : c # a => g2.lo[c] = g.lo[c]
    BY <1>8, <1>10 DEF Halved
  <1>12. /\ DOMAIN T2 = DOMAIN T \cup {b} /\ T2[a] = pa /\ T2[b] = pb /\ \A c \in DOMAIN T : c # a => T2[c] = T[c]
    BY DEF Splits
  <1>13. NodeOK(T2, g2, a)
    <2>1. \A i, j \in 1 .. m : i < j => pa.items[i].key < pa.items[j].key
      BY <1>4 DEF Sorted
    <2>2. ASSUME NEW i \in 1 .. m PROVE g2.lo[a] <= pa.items[i].key /\ Before(pa.items[i].key, sep)
      <3>1. items[i].key < items[m + 1].key
        BY <1>4 DEF Sorted
      <3> QED
        BY <1>4, <1>6, <1>11, <3>1 DEF Before
    <2>3. Before(g2.lo[a], sep)
      BY <1>9, <1>11 DEF Before
    <2> QED
      BY <1>2, <1>6, <1>8, <1>11, <1>12, <2>1, <2>2, <2>3 DEF NodeOK
  <1>14. NodeOK(T2, g2, b)
    <2>1. ASSUME NEW i \in 1 .. n, NEW j \in 1 .. n, i < j PROVE pb.items[i].key < pb.items[j].key
      <3>1. i + m \in 1 .. Len(items) /\ j + m \in 1 .. Len(items) /\ i + m < j + m
        BY <1>4, <2>1
      <3> QED
        BY <1>4, <3>1 DEF Sorted
    <2>2. ASSUME NEW i \in 1 .. n PROVE sep <= pb.items[i].key /\ Before(pb.items[i].key, g.hi[a])
      <3>1. i = 1 \/ items[m + 1].key < items[i + m].key
        BY <1>4 DEF Sorted
      <3> QED
        BY <1>4, <1>5, <1>6, <3>1
    <2> QED
      BY <1>3, <1>6, <1>8, <1>9, <1>11, <1>12, <2>1, <2>2 DEF NodeOK
  <1>15. ChildrenOK(T2, g2, a, b, a) /\ ChildrenOK(T2, g2, a, b, b)
    BY <1>12 DEF ChildrenOK
  <1>16. NextOK(T2, g2, a)
    BY <1>6, <1>11, <1>12 DEF NextOK, Inf
  <1>17. NextOK(T2, g2, b)
    <2>1. T[a].extra # a
      <3>1. CASE g.hi[a] = Inf
        BY <1>7, <1>8, <3>1 DEF NextOK, NoPage
      <3>2. CASE g.hi[a] # Inf
        BY <1>7, <1>8, <3>2 DEF NextOK, Before
      <3> QED
        BY <3>1, <3>2
    <2> QED
      BY <1>7, <1>11, <1>12, <2>1 DEF NextOK
  <1>18. TreeOK(T2, r, g2, a, b)
    BY <1>6, <1>9, <1>10, <1>13, <1>14, <1>15, <1>16, <1>17, NodeSplit
  <1> QED
    BY <1>1, <1>10, <1>18

\* What is left and right of the k-th item.
Around(items, k, lft, rgt) ==
  /\ k \in 1 .. Len(items) /\ lft \in Seq(Item) /\ rgt \in Seq(Item)
  /\ Len(lft) = k - 1 /\ \A i \in 1 .. k - 1 : lft[i] = items[i]
  /\ Len(rgt) = Len(items) - k /\ \A i \in 1 .. Len(items) - k : rgt[i] = items[i + k]

\* An internal node is cut in two at its k-th separator, which leaves it.
LEMMA InternalSplit ==
  ASSUME NEW T, NEW r, NEW g, TreeOK(T, r, g, NoPage, NoPage), NEW a \in DOMAIN T, T[a].kind = "Internal",
         NEW b \in Nat \ {0}, b \notin DOMAIN T, NEW pa \in Node, NEW pb \in Node, NEW T2, Splits(T, a, pa, b, pb, T2),
         pa.kind = "Internal", pb.kind = "Internal", NEW k, Around(T[a].items, k, pa.items, pb.items),
         pa.extra = T[a].extra, pb.extra = T[a].items[k].data[2]
  PROVE  \E g2 : Halved(T, g, a, b, T[a].items[k].key, g2) /\ TreeOK(T2, r, g2, a, b)
  <1>1. PICK q : q = T[a].items
    OBVIOUS
  <1>2. PICK sep : sep = q[k].key
    OBVIOUS
  <1>3. PICK n : n = Len(q)
    OBVIOUS
  <1>4. NodeOK(T, g, a)
    BY DEF TreeOK
  <1>5. /\ g.lo[a] \in Nat /\ g.hi[a] \in Nat \cup {Inf} /\ g.lvl[a] # 0 /\ g.lvl[a] \in Nat /\ a \in Nat \ {0}
        /\ q \in Seq(Item) /\ n \in Nat /\ Sorted(q)
        /\ \A i \in 1 .. n : q[i].key \in Nat
        /\ \A i \in 1 .. n : g.lo[a] <= q[i].key /\ Before(q[i].key, g.hi[a])
    BY <1>1, <1>3, <1>4, NodeFacts
  <1>6. k \in 1 .. n /\ sep \in Nat /\ k \in Nat /\ n \in Nat
        /\ \A i, j \in 1 .. n : i < j => q[i].key < q[j].key
    <2>1. k \in 1 .. n
      BY <1>1, <1>3, Zenon DEF Around
    <2> QED
      BY <1>1, <1>2, <1>3, <1>5, <2>1 DEF Sorted
  <1>7. g.lo[a] < sep /\ Before(sep, g.hi[a])
    <2>1. From(T[a], g.lo[a], 0) < From(T[a], g.lo[a], k)
      BY <1>1, <1>3, <1>6, FromGrows
    <2> QED
      BY <1>1, <1>2, <1>5, <1>6, <2>1 DEF From
  <1>8. PICK g2 : Halved(T, g, a, b, sep, g2)
    BY HalvedExists
  <1>9. /\ \A c \in DOMAIN T : g2.lo[c] = g.lo[c] /\ g2.lvl[c] = g.lvl[c] /\ (c # a => g2.hi[c] = g.hi[c])
        /\ g2.hi[a] = sep /\ g2.lo[b] = sep /\ g2.hi[b] = g.hi[a] /\ g2.lvl[b] = g.lvl[a]
    BY <1>8 DEF Halved
  <1>10. /\ DOMAIN T2 = DOMAIN T \cup {b} /\ T2[a] = pa /\ T2[b] = pb /\ \A c \in DOMAIN T : c # a => T2[c] = T[c]
    BY DEF Splits
  <1>11. /\ Len(pa.items) = k - 1 /\ \A i \in 1 .. k - 1 : pa.items[i] = q[i]
         /\ Len(pb.items) = n - k /\ \A i \in 1 .. n - k : pb.items[i] = q[i + k]
    BY <1>1, <1>3, Zenon DEF Around
  <1>12. NodeOK(T2, g2, a)
    <2>1. ASSUME NEW i \in 1 .. k - 1, NEW j \in 1 .. k - 1, i < j PROVE pa.items[i].key < pa.items[j].key
      <3>1. i \in 1 .. n /\ j \in 1 .. n
        BY <1>6
      <3>2. pa.items[i] = q[i] /\ pa.items[j] = q[j]
        BY <1>11
      <3> QED
        BY <1>6, <2>1, <3>1, <3>2
    <2>2. ASSUME NEW i \in 1 .. k - 1 PROVE g2.lo[a] <= pa.items[i].key /\ Before(pa.items[i].key, sep)
      <3>1. q[i].key < q[k].key /\ i \in 1 .. n
        BY <1>6
      <3> QED
        BY <1>2, <1>5, <1>9, <1>11, <3>1 DEF Before
    <2>3. Before(g2.lo[a], sep)
      BY <1>7, <1>9 DEF Before
    <2> QED
      BY <1>5, <1>6, <1>9, <1>10, <1>11, <2>1, <2>2, <2>3 DEF NodeOK
  <1>13. NodeOK(T2, g2, b)
    <2>1. ASSUME NEW i \in 1 .. n - k, NEW j \in 1 .. n - k, i < j PROVE pb.items[i].key < pb.items[j].key
      <3>1. i + k \in 1 .. n /\ j + k \in 1 .. n /\ i + k < j + k
        BY <1>6, <2>1
      <3> QED
        BY <1>6, <1>11, <3>1
    <2>2. ASSUME NEW i \in 1 .. n - k PROVE sep <= pb.items[i].key /\ Before(pb.items[i].key, g.hi[a])
      <3>1. i + k \in 1 .. n /\ k < i + k
        BY <1>6
      <3>2. q[k].key < q[i + k].key /\ pb.items[i] = q[i + k] /\ q[i + k].key \in Nat /\ Before(q[i + k].key, g.hi[a])
        BY <1>5, <1>6, <1>11, <3>1
      <3> QED
        BY <1>2, <1>6, <3>2
    <2> QED
      BY <1>5, <1>6, <1>7, <1>9, <1>10, <1>11, <2>1, <2>2 DEF NodeOK
  <1>14. ASSUME NEW i \in 0 .. n
         PROVE  /\ Child(T[a], i) \in DOMAIN T /\ Child(T[a], i) # a /\ Child(T[a], i) # b
                /\ g2.lvl[Child(T[a], i)] + 1 = g.lvl[a]
                /\ g2.lo[Child(T[a], i)] = From(T[a], g.lo[a], i)
                /\ HiOf(g2, a, b, Child(T[a], i)) = To(T[a], g.hi[a], i)
    <2>1. PICK c : c = Child(T[a], i)
      OBVIOUS
    <2>2. /\ c \in DOMAIN T /\ g.lvl[c] + 1 = g.lvl[a] /\ g.lo[c] = From(T[a], g.lo[a], i)
          /\ HiOf(g, NoPage, NoPage, c) = To(T[a], g.hi[a], i)
      BY <1>1, <1>3, <2>1, ChildFacts
    <2>3. c # a
      <3>1. NodeOK(T, g, c)
        BY <2>2 DEF TreeOK
      <3>2. g.lvl[c] \in Nat
        BY <3>1, NodeFacts
      <3> QED
        BY <1>5, <2>2, <3>2
    <2>4. HiOf(g2, a, b, c) = HiOf(g, NoPage, NoPage, c)
      BY <1>9, <2>2, <2>3 DEF HiOf
    <2> QED
      BY <1>9, <2>1, <2>2, <2>3, <2>4
  <1>15. ChildrenOK(T2, g2, a, b, a)
    <2> SUFFICES ASSUME NEW i \in 0 .. k - 1
                 PROVE  /\ Child(pa, i) = Child(T[a], i) /\ From(pa, g2.lo[a], i) = From(T[a], g.lo[a], i)
                        /\ To(pa, g2.hi[a], i) = To(T[a], g.hi[a], i) /\ i \in 0 .. n
      BY <1>6, <1>9, <1>10, <1>11, <1>14 DEF ChildrenOK
    <2>1. i \in 0 .. n
      BY <1>6
    <2>2. Child(pa, i) = Child(T[a], i) /\ From(pa, g2.lo[a], i) = From(T[a], g.lo[a], i)
      BY <1>1, <1>6, <1>9, <1>11 DEF Child, From
    <2>3. To(pa, g2.hi[a], i) = To(T[a], g.hi[a], i)
      BY <1>1, <1>2, <1>3, <1>6, <1>9, <1>11, SMTT(20) DEF To
    <2> QED
      BY <2>1, <2>2, <2>3
  <1>16. ChildrenOK(T2, g2, a, b, b)
    <2> SUFFICES ASSUME NEW i \in 0 .. n - k
                 PROVE  /\ Child(pb, i) = Child(T[a], i + k) /\ From(pb, g2.lo[b], i) = From(T[a], g.lo[a], i + k)
                        /\ To(pb, g2.hi[b], i) = To(T[a], g.hi[a], i + k) /\ i + k \in 0 .. n
      BY <1>5, <1>6, <1>9, <1>10, <1>11, <1>14 DEF ChildrenOK
    <2>1. i + k \in 0 .. n /\ i + k # 0
      BY <1>5, <1>6
    <2>2. Child(pb, i) = Child(T[a], i + k) /\ From(pb, g2.lo[b], i) = From(T[a], g.lo[a], i + k)
      <3>1. CASE i = 0
        BY <1>1, <1>2, <1>6, <1>9, <3>1 DEF Child, From
      <3>2. CASE i # 0
        <4>1. i \in 1 .. n - k /\ pb.items[i] = q[i + k]
          BY <1>6, <1>11, <3>2
        <4> QED
          BY <1>1, <2>1, <3>2, <4>1 DEF Child, From
      <3> QED
        BY <3>1, <3>2
    <2>3. To(pb, g2.hi[b], i) = To(T[a], g.hi[a], i + k)
      <3>1. CASE i = n - k
        BY <1>1, <1>3, <1>5, <1>6, <1>9, <1>11, <3>1 DEF To
      <3>2. CASE i # n - k
        <4>2. n \in Nat /\ k \in Nat /\ i \in Nat /\ i <= n - k
          BY <1>6
        <4>1. i + 1 \in 1 .. n - k /\ i + k # n /\ (i + 1) + k = (i + k) + 1
          BY <3>2, <4>2
        <4> QED
          BY <1>1, <1>3, <1>11, <3>2, <4>1 DEF To
      <3> QED
        BY <3>1, <3>2
    <2> QED
      BY <2>1, <2>2, <2>3
  <1>17. NextOK(T2, g2, a) /\ NextOK(T2, g2, b)
    BY <1>10 DEF NextOK
  <1>18. TreeOK(T2, r, g2, a, b)
    BY <1>6, <1>7, <1>8, <1>12, <1>13, <1>15, <1>16, <1>17, NodeSplit
  <1> QED
    BY <1>1, <1>2, <1>8, <1>18

\* The halves of a pending split are nodes of the tree that divide left's keys.
LEMMA SplitFacts ==
  ASSUME NEW T, NEW r, NEW g, NEW left, NEW right, TreeOK(T, r, g, left, right), left # NoPage
  PROVE  /\ left \in DOMAIN T /\ right \in DOMAIN T /\ left # right /\ right # NoPage
         /\ g.lvl[left] = g.lvl[right] /\ g.hi[left] = g.lo[right] /\ g.lo[right] \in Nat /\ g.lo[left] \in Nat
         /\ g.lvl[left] \in Nat /\ g.hi[right] \in Nat \cup {Inf}
         /\ g.lo[left] < g.lo[right] /\ Before(g.lo[right], g.hi[right]) /\ NodeOK(T, g, left) /\ NodeOK(T, g, right)
  <1>1. /\ left \in DOMAIN T /\ right \in DOMAIN T /\ left # right /\ g.lvl[left] = g.lvl[right] /\ g.hi[left] = g.lo[right]
    BY DEF TreeOK, SplitOK
  <1>2. NodeOK(T, g, left) /\ NodeOK(T, g, right)
    BY <1>1 DEF TreeOK
  <1>3. /\ g.lo[right] \in Nat /\ g.lo[left] \in Nat /\ g.lvl[left] \in Nat /\ Before(g.lo[left], g.hi[left])
        /\ Before(g.lo[right], g.hi[right]) /\ g.hi[right] \in Nat \cup {Inf} /\ right \in Nat \ {0}
    BY <1>2, NodeFacts
  <1> QED
    BY <1>1, <1>2, <1>3 DEF Before, Inf, NoPage

\* The separator of a split goes where the parent links the left half.
LEMMA SplitSlot ==
  ASSUME NEW T, NEW r, NEW g, NEW left, NEW right, TreeOK(T, r, g, left, right), left # NoPage,
         NEW p \in DOMAIN T, T[p].kind = "Internal", NEW i \in 0 .. Len(T[p].items), Child(T[p], i) = left
  PROVE  /\ From(T[p], g.lo[p], i) < g.lo[right] /\ Before(g.lo[right], To(T[p], g.hi[p], i))
         /\ \A j \in 1 .. i : T[p].items[j].key < g.lo[right]
         /\ \A j \in i + 1 .. Len(T[p].items) : g.lo[right] < T[p].items[j].key
         /\ g.lo[p] <= g.lo[right] /\ Before(g.lo[right], g.hi[p])
  <1>1. /\ g.lo[left] < g.lo[right] /\ Before(g.lo[right], g.hi[right]) /\ g.lo[right] \in Nat /\ g.lo[left] \in Nat
        /\ g.hi[right] \in Nat \cup {Inf}
    BY SplitFacts
  <1>2. /\ g.lo[left] = From(T[p], g.lo[p], i) /\ HiOf(g, left, right, left) = To(T[p], g.hi[p], i)
        /\ g.lo[p] <= From(T[p], g.lo[p], i)
    BY ChildFacts
  <1>3. g.hi[right] = To(T[p], g.hi[p], i)
    BY <1>2 DEF HiOf
  <1>4. NodeOK(T, g, p)
    BY DEF TreeOK
  <1>5. /\ Len(T[p].items) \in Nat /\ g.lo[p] \in Nat /\ g.hi[p] \in Nat \cup {Inf}
        /\ \A j \in 1 .. Len(T[p].items) : T[p].items[j].key \in Nat /\ Before(T[p].items[j].key, g.hi[p])
        /\ \A j, k \in 1 .. Len(T[p].items) : j < k => T[p].items[j].key < T[p].items[k].key
    BY <1>4, NodeFacts DEF Sorted
  <1>6. ASSUME NEW j \in 1 .. i PROVE T[p].items[j].key < g.lo[right]
    <2>1. T[p].items[j].key <= T[p].items[i].key /\ i # 0 /\ i \in 1 .. Len(T[p].items)
      BY <1>5
    <2>2. From(T[p], g.lo[p], i) = T[p].items[i].key
      BY <2>1 DEF From
    <2> QED
      BY <1>1, <1>2, <1>5, <2>1, <2>2, SMTT(20)
  <1>7. ASSUME NEW j \in i + 1 .. Len(T[p].items) PROVE g.lo[right] < T[p].items[j].key
    <2>0. i # Len(T[p].items) /\ i + 1 \in 1 .. Len(T[p].items) /\ j \in 1 .. Len(T[p].items) /\ (i + 1 = j \/ i + 1 < j)
      BY <1>5
    <2>1. T[p].items[i + 1].key <= T[p].items[j].key /\ i # Len(T[p].items) /\ i + 1 \in 1 .. Len(T[p].items)
      BY <1>5, <2>0
    <2>2. To(T[p], g.hi[p], i) = T[p].items[i + 1].key
      BY <2>1 DEF To
    <2>3. g.lo[right] < T[p].items[i + 1].key
      BY <1>1, <1>3, <1>5, <2>1, <2>2 DEF Before, Inf
    <2> QED
      BY <1>1, <1>5, <2>1, <2>3
  <1>8. Before(g.lo[right], g.hi[p])
    <2>1. CASE i = Len(T[p].items)
      BY <1>1, <1>3, <2>1 DEF To
    <2>2. CASE i # Len(T[p].items)
      <3>1. i + 1 \in i + 1 .. Len(T[p].items) /\ i + 1 \in 1 .. Len(T[p].items)
        BY <1>5, <2>2
      <3>2. g.lo[right] < T[p].items[i + 1].key /\ Before(T[p].items[i + 1].key, g.hi[p]) /\ T[p].items[i + 1].key \in Nat
        BY <1>5, <1>7, <3>1
      <3> QED
        BY <1>1, <1>5, <3>2 DEF Before, Inf
    <2> QED
      BY <2>1, <2>2
  <1> QED
    BY <1>1, <1>2, <1>3, <1>5, <1>6, <1>7, <1>8

\* The parent takes the right half of a split.
LEMMA ParentGrows ==
  ASSUME NEW T, NEW r, NEW g, NEW left, NEW right, TreeOK(T, r, g, left, right), left # NoPage,
         NEW p \in DOMAIN T, T[p].kind = "Internal", NEW i \in 0 .. Len(T[p].items), Child(T[p], i) = left,
         NEW page \in Node, page.kind = "Internal", page.extra = T[p].extra,
         Inserted(T[p].items, i + 1, ChildItem(g.lo[right], right), page.items), NEW T2, Sets(T, p, page, T2)
  PROVE  TreeOK(T2, r, g, NoPage, NoPage)
  <1>1. DOMAIN T2 = DOMAIN T /\ T2[p] = page /\ \A b \in DOMAIN T : b # p => T2[b] = T[b]
    BY DEF Sets
  <1>2. PICK n : n = Len(T[p].items)
    OBVIOUS
  <1>3. PICK sep : sep = g.lo[right]
    OBVIOUS
  <1>4. /\ left \in DOMAIN T /\ right \in DOMAIN T /\ left # right /\ right # NoPage /\ sep \in Nat
        /\ g.lvl[left] = g.lvl[right] /\ g.hi[left] = sep /\ g.lvl[left] \in Nat
    BY <1>3, SplitFacts
  <1>5. /\ From(T[p], g.lo[p], i) < sep /\ Before(sep, To(T[p], g.hi[p], i))
        /\ \A j \in 1 .. i : T[p].items[j].key < sep
        /\ \A j \in i + 1 .. n : sep < T[p].items[j].key
        /\ g.lo[p] <= sep /\ Before(sep, g.hi[p])
    BY <1>2, <1>3, SplitSlot
  <1>6. NodeOK(T, g, p)
    BY DEF TreeOK
  <1>7. /\ n \in Nat /\ g.lo[p] \in Nat /\ g.hi[p] \in Nat \cup {Inf} /\ g.lvl[p] \in Nat /\ i \in 0 .. n /\ i \in Nat
        /\ \A j \in 1 .. n : T[p].items[j].key \in Nat /\ Before(T[p].items[j].key, g.hi[p]) /\ g.lo[p] <= T[p].items[j].key
        /\ \A j, k \in 1 .. n : j < k => T[p].items[j].key < T[p].items[k].key
    BY <1>2, <1>6, NodeFacts DEF Sorted
  <1>8. PICK e : e = ChildItem(sep, right)
    OBVIOUS
  <1>9. e.key = sep /\ e.data[2] = right
    BY <1>8 DEF ChildItem
  <1>10. /\ Len(page.items) = n + 1 /\ page.items[i + 1] = e
         /\ \A j \in 1 .. i : page.items[j] = T[p].items[j]
         /\ \A j \in i + 2 .. n + 1 : page.items[j] = T[p].items[j - 1]
    <2>1. /\ Len(page.items) = Len(T[p].items) + 1 /\ page.items[i + 1] = ChildItem(g.lo[right], right)
          /\ \A j \in 1 .. (i + 1) - 1 : page.items[j] = T[p].items[j]
          /\ \A j \in (i + 1) + 1 .. Len(T[p].items) + 1 : page.items[j] = T[p].items[j - 1]
      BY DEF Inserted
    <2>2. (i + 1) - 1 = i /\ (i + 1) + 1 = i + 2
      BY <1>7
    <2> QED
      BY <1>2, <1>3, <1>8, <2>1, <2>2
  <1>11. ASSUME NEW j \in 1 .. n + 1
         PROVE  \/ j \in 1 .. i /\ j \in 1 .. n /\ page.items[j].key = T[p].items[j].key
                \/ j = i + 1 /\ page.items[j].key = sep
                \/ j \in i + 2 .. n + 1 /\ j - 1 \in i + 1 .. n /\ j - 1 \in 1 .. n /\ page.items[j].key = T[p].items[j - 1].key
    <2>1. CASE j <= i
      BY <1>7, <1>10, <2>1, SMTT(20)
    <2>2. CASE j = i + 1
      BY <1>9, <1>10, <2>2
    <2>3. CASE j > i + 1
      BY <1>7, <1>10, <2>3
    <2> QED
      BY <1>7, <2>1, <2>2, <2>3
  <1>12. NodeOK(T2, g, p)
    <2>1. ASSUME NEW j \in 1 .. n + 1, NEW k \in 1 .. n + 1, j < k PROVE page.items[j].key < page.items[k].key
      <3>1. CASE j = i + 1
        <4>1. k \in i + 2 .. n + 1 /\ k - 1 \in i + 1 .. n /\ page.items[k].key = T[p].items[k - 1].key /\ page.items[j].key = sep
          BY <1>7, <1>11, <2>1, <3>1
        <4> QED
          BY <1>5, <4>1
      <3>2. CASE k = i + 1
        <4>1. j \in 1 .. i /\ page.items[j].key = T[p].items[j].key /\ page.items[k].key = sep
          BY <1>7, <1>11, <2>1, <3>2
        <4> QED
          BY <1>5, <4>1
      <3>3. CASE j # i + 1 /\ k # i + 1
        <4>1. PICK jj \in 1 .. n : page.items[j].key = T[p].items[jj].key /\ ((j <= i /\ jj = j) \/ (j > i + 1 /\ jj = j - 1))
          <5>1. CASE j <= i
            <6>1. j \in 1 .. n /\ page.items[j].key = T[p].items[j].key
              BY <1>7, <1>11, <5>1
            <6> QED
              BY <5>1, <6>1
          <5>2. CASE j > i + 1
            <6>1. j - 1 \in 1 .. n /\ page.items[j].key = T[p].items[j - 1].key
              BY <1>7, <1>11, <5>2
            <6> QED
              BY <5>2, <6>1
          <5> QED
            BY <1>7, <3>3, <5>1, <5>2
        <4>2. PICK kk \in 1 .. n : page.items[k].key = T[p].items[kk].key /\ ((k <= i /\ kk = k) \/ (k > i + 1 /\ kk = k - 1))
          <5>1. CASE k <= i
            <6>1. k \in 1 .. n /\ page.items[k].key = T[p].items[k].key
              BY <1>7, <1>11, <5>1
            <6> QED
              BY <5>1, <6>1
          <5>2. CASE k > i + 1
            <6>1. k - 1 \in 1 .. n /\ page.items[k].key = T[p].items[k - 1].key
              BY <1>7, <1>11, <5>2
            <6> QED
              BY <5>2, <6>1
          <5> QED
            BY <1>7, <3>3, <5>1, <5>2
        <4>3. jj < kk
          BY <1>7, <2>1, <4>1, <4>2
        <4> QED
          BY <1>7, <4>1, <4>2, <4>3
      <3> QED
        BY <3>1, <3>2, <3>3
    <2>2. ASSUME NEW j \in 1 .. n + 1 PROVE g.lo[p] <= page.items[j].key /\ Before(page.items[j].key, g.hi[p])
      BY <1>5, <1>7, <1>11
    <2> QED
      BY <1>1, <1>6, <1>10, <2>1, <2>2 DEF NodeOK
  <1>13. \A b \in DOMAIN T2 : NodeOK(T2, g, b)
    <2>1. \A b \in DOMAIN T : NodeOK(T, g, b)
      BY DEF TreeOK
    <2> QED
      BY <1>1, <1>12, <2>1 DEF NodeOK
  <1>14. ASSUME NEW j \in 0 .. n
         PROVE  /\ Child(T[p], j) \in DOMAIN T /\ g.lvl[Child(T[p], j)] + 1 = g.lvl[p]
                /\ g.lo[Child(T[p], j)] = From(T[p], g.lo[p], j)
                /\ j # i => g.hi[Child(T[p], j)] = To(T[p], g.hi[p], j)
                /\ j = i => g.hi[right] = To(T[p], g.hi[p], j)
    <2>1. /\ Child(T[p], j) \in DOMAIN T /\ g.lvl[Child(T[p], j)] + 1 = g.lvl[p]
          /\ g.lo[Child(T[p], j)] = From(T[p], g.lo[p], j)
          /\ HiOf(g, left, right, Child(T[p], j)) = To(T[p], g.hi[p], j)
      BY <1>2, ChildFacts
    <2>2. j # i => Child(T[p], j) # left
      BY <1>2, OneParent
    <2> QED
      BY <2>1, <2>2 DEF HiOf
  <1>15. ASSUME NEW j \in 0 .. n + 1
         PROVE  /\ Child(page, j) \in DOMAIN T /\ Child(page, j) # NoPage
                /\ g.lvl[Child(page, j)] + 1 = g.lvl[p]
                /\ g.lo[Child(page, j)] = From(page, g.lo[p], j)
                /\ g.hi[Child(page, j)] = To(page, g.hi[p], j)
    <2>1. CASE j <= i
      <3>1. Child(page, j) = Child(T[p], j) /\ From(page, g.lo[p], j) = From(T[p], g.lo[p], j) /\ j \in 0 .. n
        BY <1>7, <1>10, <2>1 DEF Child, From
      <3>2. j < i => To(page, g.hi[p], j) = To(T[p], g.hi[p], j)
        BY <1>2, <1>7, <1>10, <2>1 DEF To
      <3>3. j = i => To(page, g.hi[p], j) = sep
        BY <1>7, <1>9, <1>10 DEF To
      <3>4. Child(page, j) # NoPage
        BY <1>13, <1>14, <1>1, <3>1, NodeFacts DEF NoPage
      <3> QED
        BY <1>4, <1>7, <1>14, <2>1, <3>1, <3>2, <3>3, <3>4
    <2>2. CASE j = i + 1
      <3>1. Child(page, j) = right /\ From(page, g.lo[p], j) = sep
        BY <1>7, <1>9, <1>10, <2>2 DEF Child, From
      <3>2. To(page, g.hi[p], j) = To(T[p], g.hi[p], i)
        <4>1. CASE i = n
          BY <1>2, <1>7, <1>10, <2>2, <4>1 DEF To
        <4>2. CASE i # n
          <5>1. j # n + 1 /\ j + 1 \in i + 2 .. n + 1 /\ (j + 1) - 1 = i + 1
            BY <1>7, <2>2, <4>2
          <5> QED
            BY <1>2, <1>10, <4>2, <5>1 DEF To
        <4> QED
          BY <4>1, <4>2
      <3>3. g.lvl[left] + 1 = g.lvl[p]
        BY <1>14, <1>7
      <3> QED
        BY <1>3, <1>4, <1>7, <1>14, <3>1, <3>2, <3>3
    <2>3. CASE j > i + 1
      <3>1. PICK k \in 0 .. n : k = j - 1
        BY <1>7, <2>3
      <3>2. j \in i + 2 .. n + 1 /\ k \in 1 .. n /\ k # i
        BY <1>7, <2>3, <3>1
      <3>3. Child(page, j) = Child(T[p], k) /\ From(page, g.lo[p], j) = From(T[p], g.lo[p], k)
        BY <1>7, <1>10, <3>1, <3>2, SMTT(20) DEF Child, From
      <3>4. To(page, g.hi[p], j) = To(T[p], g.hi[p], k)
        <4>1. CASE j = n + 1
          BY <1>2, <1>7, <1>10, <3>1, <4>1 DEF To
        <4>2. CASE j # n + 1
          <5>1. k # n /\ j + 1 \in i + 2 .. n + 1 /\ (j + 1) - 1 = k + 1
            BY <1>7, <3>1, <3>2, <4>2
          <5> QED
            BY <1>2, <1>10, <4>2, <5>1 DEF To
        <4> QED
          BY <4>1, <4>2
      <3>5. Child(page, j) # NoPage
        BY <1>13, <1>14, <1>1, <3>3, NodeFacts DEF NoPage
      <3> QED
        BY <1>14, <3>2, <3>3, <3>4, <3>5
    <2> QED
      BY <1>7, <2>1, <2>2, <2>3
  <1>16. \A b \in DOMAIN T2 : ChildrenOK(T2, g, NoPage, NoPage, b)
    <2>1. ChildrenOK(T2, g, NoPage, NoPage, p)
      BY <1>1, <1>10, <1>15 DEF ChildrenOK, HiOf
    <2>2. ASSUME NEW b \in DOMAIN T, b # p PROVE ChildrenOK(T2, g, NoPage, NoPage, b)
      <3> SUFFICES ASSUME T[b].kind = "Internal", NEW j \in 0 .. Len(T[b].items)
                   PROVE  /\ Child(T[b], j) \in DOMAIN T /\ Child(T[b], j) # NoPage
                          /\ g.lvl[Child(T[b], j)] + 1 = g.lvl[b]
                          /\ g.lo[Child(T[b], j)] = From(T[b], g.lo[b], j)
                          /\ HiOf(g, NoPage, NoPage, Child(T[b], j)) = To(T[b], g.hi[b], j)
        BY <1>1, <2>2 DEF ChildrenOK
      <3>1. /\ Child(T[b], j) \in DOMAIN T /\ g.lvl[Child(T[b], j)] + 1 = g.lvl[b] /\ Child(T[b], j) # NoPage
            /\ g.lo[Child(T[b], j)] = From(T[b], g.lo[b], j)
            /\ HiOf(g, left, right, Child(T[b], j)) = To(T[b], g.hi[b], j)
        BY ChildFacts
      <3>2. Child(T[b], j) # left
        BY <2>2, OneParent
      <3> QED
        BY <3>1, <3>2 DEF HiOf
    <2> QED
      BY <1>1, <2>1, <2>2
  <1>17. \A b \in DOMAIN T2 : NextOK(T2, g, b)
    <2>1. \A b \in DOMAIN T : NextOK(T, g, b)
      BY DEF TreeOK
    <2> QED
      BY <1>1, <2>1 DEF NextOK
  <1>18. ApartOK(T2, g) /\ SplitOK(T2, g, NoPage, NoPage)
    BY <1>1 DEF TreeOK, ApartOK, SplitOK
  <1>19. RootOK(T2, r, g, NoPage, NoPage)
    <2>1. /\ r \in DOMAIN T /\ g.lo[r] = 0 /\ HiOf(g, left, right, r) = Inf
          /\ \A b \in DOMAIN T : g.lvl[b] <= g.lvl[r] /\ (g.lvl[b] = g.lvl[r] => b = r \/ b = right)
      BY TreeFacts
    <2>2. g.lvl[left] + 1 = g.lvl[p]
      BY <1>7, <1>14
    <2>3. NodeOK(T, g, r)
      BY <2>1 DEF TreeOK
    <2>4. g.lvl[r] \in Nat /\ g.lvl[p] <= g.lvl[r]
      BY <2>1, <2>3, NodeFacts
    <2>5. r # left /\ g.lvl[right] # g.lvl[r]
      BY <1>4, <1>7, <2>2, <2>4
    <2> QED
      BY <1>1, <2>1, <2>5 DEF RootOK, HiOf
  <1> QED
    BY <1>13, <1>16, <1>17, <1>18, <1>19 DEF TreeOK

\* A new root over the two halves of the old one.
Crowned(T, g, b, l, g2) ==
  /\ \A c \in DOMAIN T : g2.lo[c] = g.lo[c] /\ g2.lvl[c] = g.lvl[c] /\ g2.hi[c] = g.hi[c]
  /\ g2.lo[b] = 0 /\ g2.hi[b] = Inf /\ g2.lvl[b] = l + 1

\* There is such a division of the keys.
LEMMA CrownedExists ==
  ASSUME NEW T, NEW g, NEW b, b \notin DOMAIN T, NEW l
  PROVE  \E g2 : Crowned(T, g, b, l, g2)
  <1>1. PICK x : x = [c \in DOMAIN T \cup {b} |-> IF c = b THEN 0 ELSE g.lo[c]]
    OBVIOUS
  <1>2. PICK h : h = [c \in DOMAIN T \cup {b} |-> IF c = b THEN Inf ELSE g.hi[c]]
    OBVIOUS
  <1>3. PICK v : v = [c \in DOMAIN T \cup {b} |-> IF c = b THEN l + 1 ELSE g.lvl[c]]
    OBVIOUS
  <1>4. PICK g2 : g2 = [lo |-> x, hi |-> h, lvl |-> v]
    OBVIOUS
  <1>5. g2.lo = x /\ g2.hi = h /\ g2.lvl = v
    BY <1>4
  <1>6. Crowned(T, g, b, l, g2)
    BY <1>1, <1>2, <1>3, <1>5 DEF Crowned
  <1> QED
    BY <1>6

\* The split of the root.
LEMMA RootGrows ==
  ASSUME NEW T, NEW r, NEW g, NEW right, TreeOK(T, r, g, r, right),
         NEW b \in Nat \ {0}, b \notin DOMAIN T, NEW page \in Node, page.kind = "Internal", page.extra = r,
         Len(page.items) = 1, page.items[1] = ChildItem(g.lo[right], right), NEW T2, Sets(T, b, page, T2)
  PROVE  \E g2 : TreeOK(T2, b, g2, NoPage, NoPage)
  <1>1. DOMAIN T2 = DOMAIN T \cup {b} /\ T2[b] = page /\ \A c \in DOMAIN T : T2[c] = T[c] /\ c # b
    BY DEF Sets
  <1>2. /\ r \in DOMAIN T /\ g.lo[r] = 0 /\ HiOf(g, r, right, r) = Inf /\ \A c \in DOMAIN T : c \in Nat \ {0}
        /\ \A c \in DOMAIN T : g.lvl[c] <= g.lvl[r] /\ (g.lvl[c] = g.lvl[r] => c = r \/ c = right)
    BY TreeFacts
  <1>3. /\ right \in DOMAIN T /\ right # r /\ g.lvl[right] = g.lvl[r] /\ g.hi[r] = g.lo[right]
        /\ g.lo[right] \in Nat /\ g.lvl[r] \in Nat /\ g.hi[right] = Inf
    <2>1. r # NoPage
      BY <1>2 DEF NoPage
    <2>2. g.hi[right] = Inf
      BY <1>2 DEF HiOf
    <2> QED
      BY <2>1, <2>2, SplitFacts
  <1>4. PICK g2 : Crowned(T, g, b, g.lvl[r], g2)
    BY CrownedExists
  <1>5. /\ \A c \in DOMAIN T : g2.lo[c] = g.lo[c] /\ g2.lvl[c] = g.lvl[c] /\ g2.hi[c] = g.hi[c]
        /\ g2.lo[b] = 0 /\ g2.hi[b] = Inf /\ g2.lvl[b] = g.lvl[r] + 1
    BY <1>4 DEF Crowned
  <1>6. \A c \in DOMAIN T : NodeOK(T, g, c) /\ NextOK(T, g, c)
    BY DEF TreeOK
  <1>7. page.items[1].key = g.lo[right] /\ page.items[1].data[2] = right
    BY DEF ChildItem
  <1>8. NodeOK(T2, g2, b)
    BY <1>1, <1>3, <1>5, <1>7 DEF NodeOK, Before, Inf
  <1>9. \A c \in DOMAIN T2 : NodeOK(T2, g2, c)
    <2> SUFFICES ASSUME NEW c \in DOMAIN T PROVE NodeOK(T2, g2, c)
      BY <1>1, <1>8
    <2>1. NodeOK(T, g, c) /\ T2[c] = T[c] /\ g2.lo[c] = g.lo[c] /\ g2.lvl[c] = g.lvl[c] /\ g2.hi[c] = g.hi[c]
      BY <1>1, <1>5, <1>6
    <2> QED
      BY <2>1 DEF NodeOK
  <1>10. ChildrenOK(T2, g2, NoPage, NoPage, b)
    <2> SUFFICES ASSUME NEW i \in 0 .. 1
                 PROVE  /\ Child(page, i) \in DOMAIN T2 /\ Child(page, i) # NoPage
                        /\ g2.lvl[Child(page, i)] + 1 = g2.lvl[b]
                        /\ g2.lo[Child(page, i)] = From(page, g2.lo[b], i)
                        /\ HiOf(g2, NoPage, NoPage, Child(page, i)) = To(page, g2.hi[b], i)
      BY <1>1 DEF ChildrenOK
    <2>1. CASE i = 0
      <3>1. Child(page, i) = r /\ From(page, g2.lo[b], i) = 0 /\ To(page, g2.hi[b], i) = g.lo[right]
        BY <1>5, <1>7, <2>1 DEF Child, From, To
      <3> QED
        BY <1>1, <1>2, <1>3, <1>5, <3>1 DEF HiOf, NoPage
    <2>2. CASE i = 1
      <3>1. Child(page, i) = right /\ From(page, g2.lo[b], i) = g.lo[right] /\ To(page, g2.hi[b], i) = Inf
        BY <1>5, <1>7, <2>2 DEF Child, From, To
      <3> QED
        BY <1>1, <1>2, <1>3, <1>5, <3>1 DEF HiOf, NoPage
    <2> QED
      BY <2>1, <2>2
  <1>11. ASSUME NEW c \in DOMAIN T PROVE ChildrenOK(T2, g2, NoPage, NoPage, c)
    <2> SUFFICES ASSUME T[c].kind = "Internal", NEW i \in 0 .. Len(T[c].items)
                 PROVE  /\ Child(T[c], i) \in DOMAIN T2 /\ Child(T[c], i) # NoPage
                        /\ g2.lvl[Child(T[c], i)] + 1 = g2.lvl[c]
                        /\ g2.lo[Child(T[c], i)] = From(T[c], g2.lo[c], i)
                        /\ HiOf(g2, NoPage, NoPage, Child(T[c], i)) = To(T[c], g2.hi[c], i)
      BY <1>1 DEF ChildrenOK
    <2>1. PICK d : d = Child(T[c], i)
      OBVIOUS
    <2>2. /\ d \in DOMAIN T /\ g.lvl[d] + 1 = g.lvl[c] /\ d # NoPage
          /\ g.lo[d] = From(T[c], g.lo[c], i) /\ HiOf(g, r, right, d) = To(T[c], g.hi[c], i)
      BY <2>1, ChildFacts
    <2>3. d # r
      BY <1>2, <1>3, <1>11, <2>2
    <2> QED
      BY <1>1, <1>5, <2>1, <2>2, <2>3 DEF HiOf
  <1>12. \A c \in DOMAIN T2 : NextOK(T2, g2, c)
    <2>1. NextOK(T2, g2, b)
      BY <1>1 DEF NextOK
    <2>2. ASSUME NEW c \in DOMAIN T PROVE NextOK(T2, g2, c)
      <3>1. NextOK(T, g, c)
        BY <1>6
      <3> QED
        BY <1>1, <1>5, <3>1 DEF NextOK
    <2> QED
      BY <1>1, <2>1, <2>2
  <1>13. ApartOK(T2, g2)
    <2>1. \A c \in DOMAIN T : g2.lvl[c] # g2.lvl[b]
      <3>1. \A c \in DOMAIN T : g.lvl[c] \in Nat
        BY <1>6, NodeFacts
      <3> QED
        BY <1>2, <1>3, <1>5, <3>1
    <2>2. \A c, d \in DOMAIN T : c # d /\ g2.lvl[c] = g2.lvl[d] => Ends(g2, c, d) \/ Ends(g2, d, c)
      BY <1>5 DEF TreeOK, ApartOK, Ends
    <2> QED
      BY <1>1, <2>1, <2>2 DEF ApartOK
  <1>14. RootOK(T2, b, g2, NoPage, NoPage)
    <2>1. \A c \in DOMAIN T : g.lvl[c] \in Nat
      BY <1>6, NodeFacts
    <2> QED
      BY <1>1, <1>2, <1>3, <1>5, <2>1 DEF RootOK, HiOf
  <1>15. SplitOK(T2, g2, NoPage, NoPage)
    BY DEF SplitOK
  <1>16. TreeOK(T2, b, g2, NoPage, NoPage)
    BY <1>1, <1>9, <1>10, <1>11, <1>12, <1>13, <1>14, <1>15 DEF TreeOK
  <1> QED
    BY <1>16
-----------------------------------------------------------------------------
(* Paths *)

\* The node is responsible for the key.
Covers(g, a, key) == g.lo[a] <= key /\ Before(key, g.hi[a])

\* The child chosen for a key is responsible for it.
LEMMA ChildForOK ==
  ASSUME NEW T, NEW r, NEW g, TreeOK(T, r, g, NoPage, NoPage), NEW a \in DOMAIN T, T[a].kind = "Internal",
         NEW key \in Nat, Covers(g, a, key)
  PROVE  \E i \in 0 .. Len(T[a].items) : Child(T[a], i) = ChildFor(T[a], key) /\ Covers(g, Child(T[a], i), key)
  <1>1. PICK slot : slot = SlotSearch(T[a], key)
    OBVIOUS
  <1>2. PICK n : n = Len(T[a].items)
    OBVIOUS
  <1>3. NodeOK(T, g, a)
    BY DEF TreeOK
  <1>4. /\ T[a].items \in Seq(Item) /\ n \in Nat /\ Sorted(T[a].items) /\ g.lo[a] \in Nat
        /\ \A i \in 1 .. n : T[a].items[i].key \in Nat
    BY <1>2, <1>3, NodeFacts
  <1>5. SlotOK(T[a].items, key, slot)
    BY <1>1, <1>4, SlotIs
  <1>6. /\ slot.found \in BOOLEAN /\ slot.at \in 1 .. n + 1
        /\ \A j \in 1 .. slot.at - 1 : T[a].items[j].key < key
        /\ slot.found => slot.at <= n /\ T[a].items[slot.at].key = key
        /\ ~slot.found => \A j \in slot.at .. n : T[a].items[j].key > key
    BY <1>2, <1>5 DEF SlotOK
  <1>7. PICK i : i = IF slot.found THEN slot.at ELSE slot.at - 1
    OBVIOUS
  <1>8. i \in 0 .. n
    BY <1>4, <1>6, <1>7
  <1>9. ChildFor(T[a], key) = Child(T[a], i)
    <2>1. CASE slot.found
      BY <1>1, <1>6, <1>7, <2>1 DEF ChildFor, Child
    <2>2. CASE ~slot.found /\ slot.at = 1
      BY <1>1, <1>7, <2>2 DEF ChildFor, Child
    <2>3. CASE ~slot.found /\ slot.at # 1
      BY <1>1, <1>6, <1>7, <2>3 DEF ChildFor, Child
    <2> QED
      BY <2>1, <2>2, <2>3
  <1>10. From(T[a], g.lo[a], i) <= key
    <2>1. CASE i = 0
      BY <2>1 DEF From, Covers
    <2>2. CASE i # 0 /\ slot.found
      BY <1>6, <1>7, <2>2 DEF From
    <2>3. CASE i # 0 /\ ~slot.found
      <3>1. i \in 1 .. slot.at - 1 /\ i \in 1 .. n
        BY <1>6, <1>7, <1>8, <2>3
      <3>2. T[a].items[i].key < key /\ T[a].items[i].key \in Nat
        BY <1>4, <1>6, <3>1
      <3> QED
        BY <2>3, <3>2 DEF From
    <2> QED
      BY <2>1, <2>2, <2>3
  <1>11. Before(key, To(T[a], g.hi[a], i))
    <2>1. CASE i = n
      BY <1>2, <2>1 DEF To, Covers
    <2>2. CASE i # n
      <3>1. i + 1 \in 1 .. n
        BY <1>4, <1>8, <2>2
      <3>2. T[a].items[i + 1].key > key
        <4>1. CASE slot.found
          <5>1. T[a].items[i].key < T[a].items[i + 1].key /\ T[a].items[i].key = key
            BY <1>2, <1>4, <1>6, <1>7, <3>1, <4>1 DEF Sorted
          <5> QED
            BY <1>4, <3>1, <5>1
        <4>2. CASE ~slot.found
          <5>1. i + 1 \in slot.at .. n
            BY <1>6, <1>7, <3>1, <4>2
          <5> QED
            BY <1>6, <4>2, <5>1
        <4> QED
          BY <4>1, <4>2
      <3> QED
        BY <1>2, <1>4, <2>2, <3>1, <3>2 DEF To, Before
    <2> QED
      BY <2>1, <2>2
  <1>12. g.lo[Child(T[a], i)] = From(T[a], g.lo[a], i) /\ HiOf(g, NoPage, NoPage, Child(T[a], i)) = To(T[a], g.hi[a], i)
    BY <1>2, <1>8, ChildFacts
  <1>13. Covers(g, Child(T[a], i), key)
    BY <1>10, <1>11, <1>12 DEF Covers, HiOf
  <1> QED
    BY <1>2, <1>8, <1>9, <1>13

\* The first m nodes of a path, and the node `end` they lead to.
At(path, m, end, i) == IF i = m + 1 THEN end ELSE path[i]

PathTo(T, r, g, path, m, end) ==
  /\ path \in Seq(Nat) /\ m \in 0 .. Len(path) /\ At(path, m, end, 1) = r
  /\ \A i \in 1 .. m : /\ path[i] \in DOMAIN T /\ T[path[i]].kind = "Internal" /\ g.lvl[path[i]] + i = g.lvl[r] + 1
                       /\ \E j \in 0 .. Len(T[path[i]].items) : Child(T[path[i]], j) = At(path, m, end, i + 1)

\* One level down.
LEMMA PathGrows ==
  ASSUME NEW T, NEW r, NEW g, TreeOK(T, r, g, NoPage, NoPage), NEW path, NEW m \in Nat, Len(path) = m + 1,
         PathTo(T, r, g, path, m, path[m + 1]), path[m + 1] \in DOMAIN T, g.lvl[path[m + 1]] + m = g.lvl[r],
         T[path[m + 1]].kind = "Internal", NEW c \in Nat,
         \E j \in 0 .. Len(T[path[m + 1]].items) : Child(T[path[m + 1]], j) = c
  PROVE  /\ PathTo(T, r, g, Append(path, c), m + 1, c) /\ Len(Append(path, c)) = m + 2 /\ Append(path, c)[m + 2] = c
         /\ c \in DOMAIN T /\ g.lvl[c] + (m + 1) = g.lvl[r]
  <1>1. PICK p2 : p2 = Append(path, c)
    OBVIOUS
  <1>2. path \in Seq(Nat) /\ path[m + 1] \in Nat
    BY DEF PathTo
  <1>3. p2 \in Seq(Nat) /\ Len(p2) = m + 2 /\ p2[m + 2] = c /\ \A i \in 1 .. m + 1 : p2[i] = path[i]
    BY <1>1, <1>2
  <1>4. NodeOK(T, g, path[m + 1]) /\ NodeOK(T, g, r)
    BY DEF TreeOK, RootOK
  <1>5. g.lvl[path[m + 1]] \in Nat /\ g.lvl[r] \in Nat
    BY <1>4, NodeFacts
  <1>6. c \in DOMAIN T /\ g.lvl[c] + 1 = g.lvl[path[m + 1]]
    BY ChildFacts
  <1>7. NodeOK(T, g, c)
    BY <1>6 DEF TreeOK
  <1>8. g.lvl[c] \in Nat
    BY <1>7, NodeFacts
  <1>9. g.lvl[c] + (m + 1) = g.lvl[r]
    BY <1>5, <1>6, <1>8
  <1>10. \A i \in 1 .. m + 1 : At(path, m, path[m + 1], i) = path[i] /\ At(p2, m + 1, c, i) = p2[i]
    BY DEF At
  <1>11. ASSUME NEW i \in 1 .. m + 1
         PROVE  /\ p2[i] \in DOMAIN T /\ T[p2[i]].kind = "Internal" /\ g.lvl[p2[i]] + i = g.lvl[r] + 1
                /\ \E j \in 0 .. Len(T[p2[i]].items) : Child(T[p2[i]], j) = At(p2, m + 1, c, i + 1)
    <2>1. CASE i = m + 1
      <3>1. p2[i] = path[m + 1] /\ At(p2, m + 1, c, i + 1) = c
        BY <1>3, <2>1 DEF At
      <3>2. g.lvl[p2[i]] + i = g.lvl[r] + 1
        BY <1>5, <2>1, <3>1
      <3> QED
        BY <3>1, <3>2
    <2>2. CASE i # m + 1
      <3>1. i \in 1 .. m /\ i + 1 \in 1 .. m + 1
        BY <2>2
      <3>2. p2[i] = path[i] /\ At(p2, m + 1, c, i + 1) = At(path, m, path[m + 1], i + 1)
        BY <1>3, <1>10, <3>1
      <3> QED
        BY <3>1, <3>2 DEF PathTo
    <2> QED
      BY <2>1, <2>2
  <1>12. At(p2, m + 1, c, 1) = r
    <2>1. At(path, m, path[m + 1], 1) = r /\ 1 \in 1 .. m + 1
      BY DEF PathTo
    <2> QED
      BY <1>3, <1>10, <2>1
  <1>13. PathTo(T, r, g, p2, m + 1, c)
    BY <1>3, <1>11, <1>12 DEF PathTo
  <1> QED
    BY <1>1, <1>3, <1>6, <1>9, <1>13

\* What holds after k rounds of descend.
DescendedOK(T, r, g, key, k, path) ==
  \E m \in Nat : /\ Len(path) = m + 1 /\ PathTo(T, r, g, path, m, path[m + 1])
                 /\ path[m + 1] \in DOMAIN T /\ g.lvl[path[m + 1]] + m = g.lvl[r] /\ Covers(g, path[m + 1], key)
                 /\ m = k \/ T[path[m + 1]].kind = "Leaf"

\* The path for a key leads from the root to the leaf that is responsible for it.
LEMMA DescendOK ==
  ASSUME NEW s, NEW q, FileOK(s, q), NEW r, NEW g, TreeOK(Tree(s), r, g, NoPage, NoPage), NEW key \in Nat,
         NEW path, path = Descend(s, r, key)
  PROVE  \E m \in Nat : /\ Len(path) = m + 1 /\ PathTo(Tree(s), r, g, path, m, path[m + 1]) /\ Last(path) = path[m + 1]
                        /\ path[m + 1] \in DOMAIN Tree(s) /\ Tree(s)[path[m + 1]].kind = "Leaf" /\ Covers(g, path[m + 1], key)
  <1>1. PICK T : T = Tree(s)
    OBVIOUS
  <1>2. PICK N : N = Len(s.pages)
    OBVIOUS
  <1>3. N \in Nat
    BY <1>2, FileFacts
  <1>4. DOMAIN T = Nodes(s) /\ \A a \in Nodes(s) : T[a] = s.pages[a] /\ a \in 1 .. N
    BY <1>1, <1>2, Parts, FileFacts
  <1>5. PICK f : f[0] = <<r>> /\ (\A k \in 0 .. N - 1 : f[k + 1] = DescendStep(s, key, f[k])) /\ path = f[N]
    <2>1. Len(s.pages) \in Nat
      BY <1>2, <1>3
    <2>2. PICK f : DescentIs(s, r, key, f)
      BY <2>1, DescendIs
    <2> QED
      BY <1>2, <2>2 DEF DescentIs
  <1>6. TreeOK(T, r, g, NoPage, NoPage)
    BY <1>1
  <1>7. r \in DOMAIN T /\ g.lo[r] = 0 /\ g.hi[r] = Inf /\ r \in Nat \ {0} /\ NodeOK(T, g, r)
    BY <1>6, TreeFacts DEF HiOf
  <1>8. g.lvl[r] \in Nat
    BY <1>7, NodeFacts
  <1> DEFINE S == {k \in Nat : k <= N => DescendedOK(T, r, g, key, k, f[k])}
  <1>9. 0 \in S
    <2>1. f[0] \in Seq(Nat) /\ Len(f[0]) = 0 + 1 /\ f[0][0 + 1] = r
      BY <1>5, <1>7
    <2>2. PathTo(T, r, g, f[0], 0, r)
      BY <2>1 DEF PathTo, At
    <2>3. Covers(g, r, key)
      BY <1>7 DEF Covers, Before
    <2> QED
      BY <1>7, <1>8, <2>1, <2>2, <2>3 DEF DescendedOK
  <1>10. ASSUME NEW k \in Nat, k \in S PROVE k + 1 \in S
    <2> SUFFICES ASSUME k + 1 <= N PROVE DescendedOK(T, r, g, key, k + 1, f[k + 1])
      OBVIOUS
    <2>1. PICK p : p = f[k]
      OBVIOUS
    <2>2. f[k + 1] = DescendStep(s, key, p)
      BY <1>3, <1>5, <2>1
    <2>3. PICK m \in Nat : /\ Len(p) = m + 1 /\ PathTo(T, r, g, p, m, p[m + 1])
                           /\ p[m + 1] \in DOMAIN T /\ g.lvl[p[m + 1]] + m = g.lvl[r] /\ Covers(g, p[m + 1], key)
                           /\ m = k \/ T[p[m + 1]].kind = "Leaf"
      BY <1>3, <1>10, <2>1 DEF DescendedOK
    <2>4. Last(p) = p[m + 1] /\ s.pages[Last(p)] = T[p[m + 1]]
      BY <1>4, <2>3 DEF Last
    <2>5. NodeOK(T, g, p[m + 1])
      BY <1>6, <2>3 DEF TreeOK
    <2>6. T[p[m + 1]].kind \in {"Leaf", "Internal"}
      BY <2>5, NodeFacts
    <2>7. CASE T[p[m + 1]].kind = "Leaf"
      <3>1. f[k + 1] = p
        BY <2>2, <2>4, <2>7 DEF DescendStep
      <3> QED
        BY <2>3, <2>7, <3>1 DEF DescendedOK
    <2>8. CASE T[p[m + 1]].kind = "Internal"
      <3>1. PICK c : c = ChildFor(T[p[m + 1]], key)
        OBVIOUS
      <3>2. f[k + 1] = Append(p, c)
        BY <2>2, <2>4, <2>8, <3>1 DEF DescendStep
      <3>3. PICK i \in 0 .. Len(T[p[m + 1]].items) : Child(T[p[m + 1]], i) = c /\ Covers(g, c, key)
        BY <1>6, <2>3, <2>8, <3>1, ChildForOK
      <3>4. c \in DOMAIN T
        BY <1>6, <2>3, <2>8, <3>3, ChildFacts
      <3>5. c \in Nat
        BY <1>6, <3>4, TreeFacts
      <3>6. /\ PathTo(T, r, g, Append(p, c), m + 1, c) /\ Len(Append(p, c)) = m + 2 /\ Append(p, c)[m + 2] = c
            /\ c \in DOMAIN T /\ g.lvl[c] + (m + 1) = g.lvl[r]
        BY <1>6, <2>3, <2>8, <3>3, <3>5, PathGrows
      <3>7. m = k
        BY <2>3, <2>8
      <3>8. m + 1 \in Nat /\ (m + 1) + 1 = m + 2
        OBVIOUS
      <3> QED
        BY <3>2, <3>3, <3>6, <3>7, <3>8 DEF DescendedOK
    <2> QED
      BY <2>6, <2>7, <2>8
  <1>11. Nat \subseteq S
    <2> HIDE DEF S
    <2> QED
      BY <1>9, <1>10, SetInduction
  <1>12. DescendedOK(T, r, g, key, N, path)
    BY <1>3, <1>5, <1>11
  <1>13. PICK m \in Nat : /\ Len(path) = m + 1 /\ PathTo(T, r, g, path, m, path[m + 1])
                          /\ path[m + 1] \in DOMAIN T /\ g.lvl[path[m + 1]] + m = g.lvl[r] /\ Covers(g, path[m + 1], key)
                          /\ m = N \/ T[path[m + 1]].kind = "Leaf"
    BY <1>12 DEF DescendedOK
  <1>14. m # N
    <2> SUFFICES ASSUME m = N PROVE FALSE
      OBVIOUS
    <2>1. path \in Seq(Nat) /\ \A i \in 1 .. m : path[i] \in DOMAIN T /\ g.lvl[path[i]] + i = g.lvl[r] + 1
      BY <1>13 DEF PathTo
    <2>2. \A i \in 1 .. m + 1 : path[i] \in DOMAIN T /\ g.lvl[path[i]] \in Nat /\ g.lvl[path[i]] + i = g.lvl[r] + 1
      <3> TAKE i \in 1 .. m + 1
      <3>1. path[i] \in DOMAIN T
        BY <1>13, <2>1
      <3>2. NodeOK(T, g, path[i])
        BY <1>6, <3>1 DEF TreeOK
      <3>3. g.lvl[path[i]] \in Nat
        BY <3>2, NodeFacts
      <3>4. CASE i \in 1 .. m
        BY <2>1, <3>1, <3>3, <3>4
      <3>5. CASE i = m + 1
        BY <1>8, <1>13, <3>1, <3>3, <3>5, SMTT(20)
      <3> QED
        BY <3>4, <3>5
    <2>3. Distinct(path)
      BY <1>8, <1>13, <2>2, SMTT(20) DEF Distinct
    <2>4. \A i \in 1 .. Len(path) : path[i] \in 1 .. N
      BY <1>4, <1>13, <2>2
    <2>5. Len(path) <= N
      BY <1>3, <2>1, <2>3, <2>4, DistinctLen
    <2> QED
      BY <1>3, <1>13, <2>5
  <1>15. Last(path) = path[m + 1]
    BY <1>13 DEF Last
  <1> QED
    BY <1>1, <1>13, <1>14, <1>15

\* A path whose nodes stay as they are stays a path.
LEMMA PathKept ==
  ASSUME NEW T, NEW r, NEW g, NEW path, NEW m, NEW end, PathTo(T, r, g, path, m, end), NEW T2, NEW g2, NEW p2,
         p2 \in Seq(Nat), m <= Len(p2), \A i \in 1 .. m : p2[i] = path[i],
         g2.lvl[r] = g.lvl[r], \A i \in 1 .. m : path[i] \in DOMAIN T2 /\ T2[path[i]] = T[path[i]] /\ g2.lvl[path[i]] = g.lvl[path[i]]
  PROVE  PathTo(T2, r, g2, p2, m, end)
  <1>1. /\ path \in Seq(Nat) /\ m \in 0 .. Len(path) /\ At(path, m, end, 1) = r
        /\ \A i \in 1 .. m : /\ T[path[i]].kind = "Internal" /\ g.lvl[path[i]] + i = g.lvl[r] + 1
                             /\ \E j \in 0 .. Len(T[path[i]].items) : Child(T[path[i]], j) = At(path, m, end, i + 1)
    BY DEF PathTo
  <1>2. m \in Nat /\ m \in 0 .. Len(p2)
    BY <1>1
  <1>3. \A i \in 1 .. m + 1 : At(p2, m, end, i) = At(path, m, end, i)
    BY <1>2 DEF At
  <1>4. At(p2, m, end, 1) = r
    <2>1. 1 \in 1 .. m + 1
      BY <1>2
    <2> QED
      BY <1>1, <1>3, <2>1
  <1>5. ASSUME NEW i \in 1 .. m
        PROVE  /\ p2[i] \in DOMAIN T2 /\ T2[p2[i]].kind = "Internal" /\ g2.lvl[p2[i]] + i = g2.lvl[r] + 1
               /\ \E j \in 0 .. Len(T2[p2[i]].items) : Child(T2[p2[i]], j) = At(p2, m, end, i + 1)
    <2>1. i + 1 \in 1 .. m + 1
      BY <1>2
    <2>2. p2[i] = path[i] /\ T2[p2[i]] = T[path[i]] /\ At(p2, m, end, i + 1) = At(path, m, end, i + 1) /\ p2[i] \in DOMAIN T2
      BY <1>3, <2>1
    <2> QED
      BY <1>1, <2>2
  <1> QED
    BY <1>2, <1>4, <1>5 DEF PathTo

\* Without its last node, a path leads to that node.
LEMMA PathFront ==
  ASSUME NEW T, NEW r, NEW g, NEW path, NEW m \in Nat, m # 0, NEW end, PathTo(T, r, g, path, m, end)
  PROVE  PathTo(T, r, g, path, m - 1, path[m])
  <1>1. /\ path \in Seq(Nat) /\ m \in 0 .. Len(path) /\ At(path, m, end, 1) = r
        /\ \A i \in 1 .. m : /\ path[i] \in DOMAIN T /\ T[path[i]].kind = "Internal" /\ g.lvl[path[i]] + i = g.lvl[r] + 1
                             /\ \E j \in 0 .. Len(T[path[i]].items) : Child(T[path[i]], j) = At(path, m, end, i + 1)
    BY DEF PathTo
  <1>2. m - 1 \in 0 .. Len(path) /\ (m - 1) + 1 = m
    BY <1>1
  <1>3. \A i \in 1 .. m : At(path, m - 1, path[m], i) = At(path, m, end, i)
    BY <1>2 DEF At
  <1>4. At(path, m - 1, path[m], 1) = r /\ \A i \in 1 .. m - 1 : At(path, m - 1, path[m], i + 1) = At(path, m, end, i + 1)
    BY <1>1, <1>3
  <1> QED
    BY <1>1, <1>2, <1>4, SMTT(20) DEF PathTo
-----------------------------------------------------------------------------
(* Insertions *)

\* The invariant between two steps of an insertion.
Mid(s, r, D, L, g, q, ch, left, right) ==
  /\ FileOK(s, q)
  /\ ChainsOK(Over(s), ch, D, L)
  /\ TreeOK(Tree(s), r, g, left, right)
  /\ ContentsOK(Tree(s), D, ch)
  /\ \A a \in Nodes(s) : FitsOK(s.pages[a])

\* The contents are those of the leaves.
LEMMA ContentsKept ==
  ASSUME NEW T, NEW D, NEW ch, ContentsOK(T, D, ch), NEW T2,
         \A a \in DOMAIN T : T[a].kind = "Leaf" => a \in DOMAIN T2 /\ T2[a] = T[a],
         \A a \in DOMAIN T2 : T2[a].kind = "Leaf" => a \in DOMAIN T /\ T2[a] = T[a]
  PROVE  ContentsOK(T2, D, ch)
  BY DEF ContentsOK

\* Two pages are written: an old node and a new one.
LEMMA SplitFile ==
  ASSUME NEW s, NEW q, FileOK(s, q), NEW a \in Nodes(s), NEW kind \in {"Leaf", "Internal"},
         NEW new, new = AllocPage(s, kind), NEW pa \in Node, NEW pb \in Node,
         pa.extra <= Len(new.s.pages), pb.extra <= Len(new.s.pages),
         NEW s2, s2 = Put(Put(new.s, a, pa), new.id, pb)
  PROVE  /\ \E q2 : FileOK(s2, q2)
         /\ Splits(Tree(s), a, pa, new.id, pb, Tree(s2)) /\ Over(s2) = Over(s)
         /\ new.id \notin Nodes(s) /\ new.id \in Nat \ {0} /\ Len(s2.pages) = Len(new.s.pages)
  <1>1. PICK q2 : FileOK(new.s, q2)
    BY AllocNode
  <1>2. /\ Sets(Tree(s), new.id, NewPage(kind), Tree(new.s)) /\ Over(new.s) = Over(s)
        /\ new.id \notin Nodes(s) /\ new.id \in Nodes(new.s) /\ new.id \in Nat \ {0}
    BY AllocNode
  <1>3. DOMAIN Tree(s) = Nodes(s) /\ DOMAIN Tree(new.s) = Nodes(new.s)
    BY Parts
  <1>4. a \in Nodes(new.s)
    BY <1>2, <1>3 DEF Sets
  <1>5. PICK h : h = Put(new.s, a, pa)
    OBVIOUS
  <1>6. FileOK(h, q2) /\ Sets(Tree(new.s), a, pa, Tree(h)) /\ Over(h) = Over(new.s) /\ Len(h.pages) = Len(new.s.pages)
    BY <1>1, <1>4, <1>5, PutNode
  <1>7. DOMAIN Tree(h) = Nodes(h)
    BY Parts
  <1>8. new.id \in Nodes(h)
    BY <1>2, <1>3, <1>6, <1>7 DEF Sets
  <1>9. FileOK(s2, q2) /\ Sets(Tree(h), new.id, pb, Tree(s2)) /\ Over(s2) = Over(h) /\ Len(s2.pages) = Len(h.pages)
    BY <1>5, <1>6, <1>8, PutNode
  <1>10. Splits(Tree(s), a, pa, new.id, pb, Tree(s2))
    BY <1>2, <1>3, <1>6, <1>9 DEF Sets, Splits
  <1> QED
    BY <1>2, <1>6, <1>9, <1>10

\* The nodes fit after a write of one page.
LEMMA FitsSet ==
  ASSUME NEW s, NEW a, NEW page, NEW s2, Sets(Tree(s), a, page, Tree(s2)), FitsOK(page),
         \A b \in Nodes(s) : FitsOK(s.pages[b])
  PROVE  \A b \in Nodes(s2) : FitsOK(s2.pages[b])
  <1>1. DOMAIN Tree(s) = Nodes(s) /\ DOMAIN Tree(s2) = Nodes(s2)
    BY Parts
  <1>2. (\A b \in Nodes(s) : Tree(s)[b] = s.pages[b]) /\ (\A b \in Nodes(s2) : Tree(s2)[b] = s2.pages[b])
    BY Parts
  <1> QED
    BY <1>1, <1>2 DEF Sets

\* The nodes fit after a split.
LEMMA FitsSplit ==
  ASSUME NEW s, NEW a, NEW pa, NEW b, NEW pb, NEW s2, Splits(Tree(s), a, pa, b, pb, Tree(s2)), FitsOK(pa), FitsOK(pb),
         \A c \in Nodes(s) : FitsOK(s.pages[c])
  PROVE  \A c \in Nodes(s2) : FitsOK(s2.pages[c])
  <1>1. DOMAIN Tree(s) = Nodes(s) /\ DOMAIN Tree(s2) = Nodes(s2)
    BY Parts
  <1>2. (\A c \in Nodes(s) : Tree(s)[c] = s.pages[c]) /\ (\A c \in Nodes(s2) : Tree(s2)[c] = s2.pages[c])
    BY Parts
  <1> QED
    BY <1>1, <1>2 DEF Splits

\* A page with one item more.
LEMMA InsertItemIs ==
  ASSUME NEW page \in Node, NEW i \in 1 .. Len(page.items) + 1, NEW e \in Item, CanInsert(page, e),
         NEW p2, p2 = InsertItem(page, i, e)
  PROVE  /\ p2 \in Node /\ p2.kind = page.kind /\ p2.extra = page.extra /\ Inserted(page.items, i, e, p2.items)
         /\ p2.free + Cost(p2.items) = page.free + Cost(page.items)
  <1>1. /\ page.items \in Seq(Item) /\ page.free \in Nat /\ page.extra \in Nat /\ page.kind \in {"Leaf", "Internal"}
        /\ page = [kind |-> page.kind, extra |-> page.extra, items |-> page.items, free |-> page.free]
    BY DEF Node
  <1>2. PICK r : r = InsertAt(page.items, i, e)
    OBVIOUS
  <1>3. Inserted(page.items, i, e, r)
    BY <1>1, <1>2, InsertAtIs
  <1>4. Cost(r) = Cost(page.items) + ItemCost(e) /\ Cost(page.items) \in Nat
    BY <1>1, <1>3, CostInserted, CostNat
  <1>5. ItemCost(e) \in Nat /\ ItemCost(e) <= page.free
    BY Sizes DEF ItemCost, Item, CanInsert
  <1>6. p2 = [kind |-> page.kind, extra |-> page.extra, items |-> r, free |-> page.free - ItemCost(e)]
    BY <1>1, <1>2 DEF InsertItem
  <1>7. r \in Seq(Item) /\ page.free - ItemCost(e) \in Nat
    BY <1>1, <1>3, <1>5 DEF Inserted
  <1> QED
    BY <1>1, <1>3, <1>4, <1>5, <1>6, <1>7 DEF Node

\* A page written from scratch.
LEMMA FilledIs ==
  ASSUME NEW kind \in {"Leaf", "Internal"}, NEW extra \in Nat, NEW items \in Seq(Item), Cost(items) <= PageSpace,
         NEW p, p = Filled(kind, extra, items)
  PROVE  /\ p \in Node /\ p.kind = kind /\ p.extra = extra /\ p.items = items
         /\ p.free + Cost(p.items) = PageSpace
  <1>1. Cost(items) \in Nat /\ PageSpace \in Nat
    BY CostNat, Sizes
  <1>2. PageSpace - Cost(items) \in Nat
    BY <1>1
  <1> QED
    BY <1>1, <1>2 DEF Filled, Node

\* A separator's item.
LEMMA ChildItemIs ==
  ASSUME NEW key \in Nat, NEW c \in Nat
  PROVE  /\ ChildItem(key, c) \in Item /\ ChildItem(key, c).key = key /\ ChildItem(key, c).size = InternalItem
         /\ ItemCost(ChildItem(key, c)) = SlotSize + InternalItem
  <1>1. <<"Child", c>> \in Data
    BY DEF Data
  <1>2. InternalItem \in Nat /\ SlotSize \in Nat
    BY Sizes
  <1> QED
    BY <1>1, <1>2 DEF ChildItem, Item, ItemCost

\* Items that all take as much room as a separator: two of them at least if
\* there is no room for another one.
LEMMA TwoSeparators ==
  ASSUME NEW items \in Seq(Item), \A i \in 1 .. Len(items) : items[i].size = InternalItem,
         PageSpace < Cost(items) + SlotSize + InternalItem
  PROVE  Len(items) >= 2
  <1>1. PICK n : n = Len(items)
    OBVIOUS
  <1>2. /\ n \in Nat /\ SlotSize \in Nat /\ InternalItem \in Nat \ {0} /\ PageSpace \in Nat
        /\ 2 * (SlotSize + InternalItem) <= PageSpace
    BY <1>1, Sizes
  <1>3. n # 0
    <2> SUFFICES ASSUME n = 0 PROVE FALSE
      OBVIOUS
    <2>1. Cost(items) = 0
      BY <1>1, CostEmpty
    <2> QED
      BY <1>2, <2>1
  <1>4. n # 1
    <2> SUFFICES ASSUME n = 1 PROVE FALSE
      OBVIOUS
    <2>1. PICK r : r = SubSeq(items, 1, 0)
      OBVIOUS
    <2>2. r \in Seq(Item) /\ Len(r) = 0 /\ Cost(r) = 0
      <3>1. r \in Seq(Item) /\ Len(r) = 0
        BY <2>1
      <3> QED
        BY <3>1, CostEmpty
    <2>3. Cost(items) = Cost(r) + ItemCost(items[1])
      <3>1. PICK m \in Nat : m = 0
        OBVIOUS
      <3>2. Len(items) = m + 1 /\ Len(r) = m /\ m + 1 = 1 /\ \A i \in 1 .. m : items[i] = r[i]
        BY <1>1, <2>2, <3>1
      <3> QED
        BY <2>2, <3>2, CostFront
    <2>4. ItemCost(items[1]) = InternalItem + SlotSize
      <3>1. 1 \in 1 .. Len(items)
        BY <1>1
      <3> QED
        BY <3>1 DEF ItemCost
    <2> QED
      BY <1>2, <2>2, <2>3, <2>4
  <1> QED
    BY <1>1, <1>2, <1>3, <1>4

\* The halves of an internal node, around the separator that moves up.
LEMMA InternalHalves ==
  ASSUME NEW items \in Seq(Item), Len(items) >= 3, NEW k, k = Len(items) \div 2 + 1,
         NEW left, left = SubSeq(items, 1, k - 1), NEW right, right = SubSeq(items, k + 1, Len(items))
  PROVE  /\ Around(items, k, left, right)
         /\ Cost(items) = Cost(left) + Cost(right) + ItemCost(items[k])
         /\ Cost(left) \in Nat /\ Cost(right) \in Nat /\ items[k] \in Item
  <1>1. PICK n \in Nat : n = Len(items)
    OBVIOUS
  <1>2. k \in 2 .. n - 1
    BY <1>1
  <1>3. left \in Seq(Item) /\ Len(left) = k - 1 /\ \A i \in 1 .. k - 1 : left[i] = items[i]
    BY <1>1, <1>2
  <1>4. right \in Seq(Item) /\ Len(right) = n - k /\ \A i \in 1 .. n - k : right[i] = items[i + k]
    BY <1>1, <1>2
  <1>5. PICK a : a = SubSeq(items, 1, k)
    OBVIOUS
  <1>6. a \in Seq(Item) /\ Len(a) = k /\ \A i \in 1 .. k : a[i] = items[i]
    BY <1>1, <1>2, <1>5
  <1>7. Joined(a, right, items)
    BY <1>1, <1>2, <1>4, <1>6 DEF Joined
  <1>8. Cost(items) = Cost(a) + Cost(right)
    BY <1>7, CostJoined
  <1>9. Cost(a) = Cost(left) + ItemCost(items[k])
    <2>1. k - 1 \in Nat /\ (k - 1) + 1 = k /\ \A i \in 1 .. k - 1 : a[i] = left[i]
      BY <1>2, <1>3, <1>6
    <2>2. Len(a) = (k - 1) + 1
      BY <1>6, <2>1
    <2>3. Cost(a) = Cost(left) + ItemCost(a[(k - 1) + 1])
      BY <1>3, <1>6, <2>1, <2>2, CostFront
    <2> QED
      BY <1>2, <1>6, <2>1, <2>3
  <1>10. Cost(left) \in Nat /\ Cost(right) \in Nat /\ items[k] \in Item
    <2>1. items[k] \in Item
      BY <1>1, <1>2
    <2> QED
      BY <1>3, <1>4, <2>1, CostNat
  <1>11. ItemCost(items[k]) \in Nat
    <2>1. \A e \in Item : ItemCost(e) \in Nat
      BY Sizes, SMTT(20) DEF ItemCost, Item
    <2> QED
      BY <1>10, <2>1
  <1>12. Around(items, k, left, right)
    BY <1>1, <1>2, <1>3, <1>4 DEF Around
  <1>13. Cost(items) = Cost(left) + Cost(right) + ItemCost(items[k])
    BY <1>8, <1>9, <1>10, <1>11
  <1> QED
    BY <1>10, <1>12, <1>13

\* The key is not there and would go to slot i.
GoesTo(page, key, i) == SlotSearch(page, key).found = FALSE /\ SlotSearch(page, key).at = i

\* The slot for the separator of a pending split is next to the left half's link.
LEMMA SeparatorSlot ==
  ASSUME NEW T, NEW r, NEW g, NEW left, NEW right, TreeOK(T, r, g, left, right), left # NoPage,
         NEW p \in DOMAIN T, T[p].kind = "Internal", NEW i \in 0 .. Len(T[p].items), Child(T[p], i) = left
  PROVE  GoesTo(T[p], g.lo[right], i + 1)
  <1>1. PICK slot : slot = SlotSearch(T[p], g.lo[right])
    OBVIOUS
  <1>2. PICK n : n = Len(T[p].items)
    OBVIOUS
  <1>3. PICK sep : sep = g.lo[right]
    OBVIOUS
  <1>4. NodeOK(T, g, p) /\ sep \in Nat
    BY <1>3, SplitFacts DEF TreeOK
  <1>5. T[p].items \in Seq(Item) /\ n \in Nat /\ Sorted(T[p].items) /\ \A j \in 1 .. n : T[p].items[j].key \in Nat
    BY <1>2, <1>4, NodeFacts
  <1>6. SlotOK(T[p].items, sep, slot)
    BY <1>1, <1>3, <1>4, <1>5, SlotIs
  <1>7. /\ slot.found \in BOOLEAN /\ slot.at \in 1 .. n + 1
        /\ \A j \in 1 .. slot.at - 1 : T[p].items[j].key < sep
        /\ slot.found => slot.at <= n /\ T[p].items[slot.at].key = sep
        /\ ~slot.found => \A j \in slot.at .. n : T[p].items[j].key > sep
    BY <1>2, <1>6 DEF SlotOK
  <1>8. /\ \A j \in 1 .. i : T[p].items[j].key < sep
        /\ \A j \in i + 1 .. n : sep < T[p].items[j].key
    BY <1>2, <1>3, SplitSlot
  <1>9. i \in 0 .. n /\ i \in Nat
    BY <1>2, <1>5
  <1>10. ~slot.found
    <2> SUFFICES ASSUME slot.found PROVE FALSE
      OBVIOUS
    <2>1. slot.at \in 1 .. n /\ T[p].items[slot.at].key = sep
      BY <1>5, <1>7
    <2>2. slot.at \in 1 .. i \/ slot.at \in i + 1 .. n
      BY <1>5, <1>9, <2>1
    <2> QED
      BY <1>4, <1>8, <2>1, <2>2
  <1>11. ~(slot.at <= i)
    <2> SUFFICES ASSUME slot.at <= i PROVE FALSE
      OBVIOUS
    <2>1. i \in slot.at .. n /\ i \in 1 .. i /\ i \in 1 .. n
      BY <1>5, <1>7, <1>9
    <2>2. T[p].items[i].key < sep /\ T[p].items[i].key > sep
      BY <1>7, <1>8, <1>10, <2>1
    <2> QED
      BY <1>4, <1>5, <2>1, <2>2
  <1>12. ~(slot.at > i + 1)
    <2> SUFFICES ASSUME slot.at > i + 1 PROVE FALSE
      OBVIOUS
    <2>1. i + 1 \in 1 .. slot.at - 1 /\ i + 1 \in i + 1 .. n /\ i + 1 \in 1 .. n
      BY <1>5, <1>7, <1>9
    <2>2. T[p].items[i + 1].key < sep /\ sep < T[p].items[i + 1].key
      BY <1>7, <1>8, <2>1
    <2> QED
      BY <1>4, <1>5, <2>1, <2>2
  <1>13. slot.at = i + 1
    BY <1>5, <1>7, <1>9, <1>11, <1>12
  <1> QED
    BY <1>1, <1>3, <1>7, <1>10, <1>13 DEF GoesTo

\* What holds after k rounds of propagate: either the tree is whole again, or
\* the split has reached the node whose parent is k levels up the path.
ClimbedOK(r, D, L, ch, path, k, acc) ==
  /\ acc = [s |-> acc.s, sep |-> acc.sep, right |-> acc.right, outcome |-> acc.outcome]
  /\ \/ acc.outcome = "ok" /\ \E g, q : Mid(acc.s, r, D, L, g, q, ch, NoPage, NoPage)
     \/ /\ acc.outcome = "split"
        /\ \E g, q, left : /\ Mid(acc.s, r, D, L, g, q, ch, left, acc.right) /\ left # NoPage /\ acc.sep = g.lo[acc.right]
                           /\ PathTo(Tree(acc.s), r, g, path, Len(path) - k, left)

\* The separator fits into the parent.
LEMMA ParentTakes ==
  ASSUME NEW s, NEW r, NEW D, NEW L, NEW g, NEW q, NEW ch, NEW left, NEW right, Mid(s, r, D, L, g, q, ch, left, right),
         left # NoPage, NEW p \in Nodes(s), s.pages[p].kind = "Internal",
         NEW i \in 0 .. Len(s.pages[p].items), Child(s.pages[p], i) = left,
         NEW e, e = ChildItem(g.lo[right], right), CanInsert(s.pages[p], e),
         NEW s2, s2 = Put(s, p, InsertItem(s.pages[p], i + 1, e))
  PROVE  Mid(s2, r, D, L, g, q, ch, NoPage, NoPage)
  <1>1. PICK page : page = s.pages[p]
    OBVIOUS
  <1>2. PICK p2 : p2 = InsertItem(page, i + 1, e)
    OBVIOUS
  <1>3. /\ FileOK(s, q) /\ ChainsOK(Over(s), ch, D, L) /\ TreeOK(Tree(s), r, g, left, right)
        /\ ContentsOK(Tree(s), D, ch) /\ \A a \in Nodes(s) : FitsOK(s.pages[a])
    BY DEF Mid
  <1>4. page \in Node /\ DOMAIN Tree(s) = Nodes(s) /\ Tree(s)[p] = page /\ page.extra <= Len(s.pages)
    <2>1. s.pages[p] \in Node /\ p \in DOMAIN s.pages
      BY <1>3, FileFacts, Parts
    <2>2. DOMAIN Tree(s) = Nodes(s) /\ Tree(s)[p] = s.pages[p]
      BY Parts
    <2>3. s.pages[p].extra <= Len(s.pages)
      BY <1>3, <2>1 DEF FileOK, Linked
    <2> QED
      BY <1>1, <2>1, <2>2, <2>3
  <1>5. right \in DOMAIN Tree(s) /\ g.lo[right] \in Nat
    BY <1>3, SplitFacts
  <1>6. right \in Nat
    BY <1>3, <1>5, TreeFacts
  <1>7. e \in Item /\ e.size = InternalItem
    BY <1>5, <1>6, ChildItemIs
  <1>8. page.items \in Seq(Item) /\ Len(page.items) \in Nat /\ page.free \in Nat
    BY <1>4 DEF Node
  <1>9. i + 1 \in 1 .. Len(page.items) + 1
    BY <1>1, <1>8
  <1>10. /\ p2 \in Node /\ p2.kind = page.kind /\ p2.extra = page.extra /\ Inserted(page.items, i + 1, e, p2.items)
         /\ p2.free + Cost(p2.items) = page.free + Cost(page.items)
    BY <1>1, <1>2, <1>4, <1>7, <1>9, InsertItemIs
  <1>11. FileOK(s2, q) /\ Sets(Tree(s), p, p2, Tree(s2)) /\ Over(s2) = Over(s)
    BY <1>1, <1>2, <1>3, <1>4, <1>10, PutNode
  <1>12. TreeOK(Tree(s2), r, g, NoPage, NoPage)
    <2>1. PICK T : T = Tree(s)
      OBVIOUS
    <2>2. /\ TreeOK(T, r, g, left, right) /\ p \in DOMAIN T /\ T[p].kind = "Internal" /\ i \in 0 .. Len(T[p].items)
          /\ Child(T[p], i) = left /\ p2.extra = T[p].extra /\ p2.kind = "Internal"
          /\ Inserted(T[p].items, i + 1, ChildItem(g.lo[right], right), p2.items) /\ Sets(T, p, p2, Tree(s2))
      BY <1>1, <1>3, <1>4, <1>10, <1>11, <2>1
    <2> QED
      BY <1>10, <2>2, ParentGrows
  <1>13. ContentsOK(Tree(s2), D, ch)
    <2>1. /\ DOMAIN Tree(s2) = DOMAIN Tree(s) /\ Tree(s2)[p] = p2 /\ p2.kind = "Internal" /\ Tree(s)[p].kind = "Internal"
          /\ \A a \in DOMAIN Tree(s) : a # p => Tree(s2)[a] = Tree(s)[a]
      BY <1>1, <1>4, <1>10, <1>11 DEF Sets
    <2> QED
      BY <1>3, <2>1, ContentsKept
  <1>14. FitsOK(p2)
    <2>1. FitsOK(page)
      BY <1>1, <1>3
    <2>2. \A j \in 1 .. Len(page.items) : page.items[j].size = InternalItem
      BY <1>1, <2>1 DEF FitsOK
    <2>3. ASSUME NEW j \in 1 .. Len(p2.items) PROVE p2.items[j].size = InternalItem
      <3>1. /\ Len(p2.items) = Len(page.items) + 1 /\ p2.items[i + 1] = e
            /\ (\A k \in 1 .. (i + 1) - 1 : p2.items[k] = page.items[k])
            /\ (\A k \in (i + 1) + 1 .. Len(page.items) + 1 : p2.items[k] = page.items[k - 1])
        BY <1>10 DEF Inserted
      <3>2. CASE j < i + 1
        <4>1. j \in 1 .. (i + 1) - 1 /\ j \in 1 .. Len(page.items)
          BY <1>8, <1>9, <3>1, <3>2
        <4> QED
          BY <2>2, <3>1, <4>1
      <3>3. CASE j = i + 1
        BY <1>7, <3>1, <3>3
      <3>4. CASE j > i + 1
        <4>1. j \in (i + 1) + 1 .. Len(page.items) + 1 /\ j - 1 \in 1 .. Len(page.items)
          BY <1>8, <1>9, <3>1, <3>4
        <4> QED
          BY <2>2, <3>1, <4>1
      <3> QED
        BY <1>8, <1>9, <3>1, <3>2, <3>3, <3>4
    <2> QED
      BY <1>1, <1>10, <2>1, <2>3 DEF FitsOK
  <1>15. \A a \in Nodes(s2) : FitsOK(s2.pages[a])
    BY <1>3, <1>11, <1>14, FitsSet
  <1> QED
    BY <1>3, <1>11, <1>12, <1>13, <1>15 DEF Mid

\* Separators stay separators when one is added.
LEMMA SeparatorAdded ==
  ASSUME NEW q \in Seq(Item), \A j \in 1 .. Len(q) : q[j].size = InternalItem, NEW i \in 1 .. Len(q) + 1,
         NEW e, e.size = InternalItem, NEW r, Inserted(q, i, e, r)
  PROVE  \A j \in 1 .. Len(r) : r[j].size = InternalItem
  <1> SUFFICES ASSUME NEW j \in 1 .. Len(r) PROVE r[j].size = InternalItem
    OBVIOUS
  <1>1. /\ Len(r) = Len(q) + 1 /\ r[i] = e
        /\ (\A k \in 1 .. i - 1 : r[k] = q[k]) /\ (\A k \in i + 1 .. Len(q) + 1 : r[k] = q[k - 1])
    BY DEF Inserted
  <1>2. CASE j < i
    <2>1. j \in 1 .. i - 1 /\ j \in 1 .. Len(q)
      BY <1>1, <1>2
    <2> QED
      BY <1>1, <2>1
  <1>3. CASE j = i
    BY <1>1, <1>3
  <1>4. CASE j > i
    <2>1. j \in i + 1 .. Len(q) + 1 /\ j - 1 \in 1 .. Len(q)
      BY <1>1, <1>4
    <2> QED
      BY <1>1, <2>1
  <1> QED
    BY <1>1, <1>2, <1>3, <1>4

\* The m-th node p of the path has been split; res says at which separator.
SplitUp(r, D, L, ch, path, m, p, res) ==
  /\ res.outcome = "split" /\ res = [s |-> res.s, sep |-> res.sep, right |-> res.right, outcome |-> res.outcome]
  /\ \E g, q : /\ Mid(res.s, r, D, L, g, q, ch, p, res.right) /\ p # NoPage /\ res.sep = g.lo[res.right]
              /\ PathTo(Tree(res.s), r, g, path, m - 1, p)

\* The parent is full: it is split in turn.
LEMMA ParentSplits ==
  ASSUME NEW s, NEW r, NEW D, NEW L, NEW g, NEW q, NEW ch, NEW left, NEW right, Mid(s, r, D, L, g, q, ch, left, right),
         left # NoPage, NEW p \in Nodes(s), s.pages[p].kind = "Internal",
         NEW i \in 0 .. Len(s.pages[p].items), Child(s.pages[p], i) = left,
         NEW e, e = ChildItem(g.lo[right], right), ~CanInsert(s.pages[p], e),
         NEW path, NEW m \in Nat, m # 0, PathTo(Tree(s), r, g, path, m, left), path[m] = p,
         NEW res, res = SplitInternal(s, p, i + 1, e)
  PROVE  SplitUp(r, D, L, ch, path, m, p, res)
  <1>1. PICK page : page = s.pages[p]
    OBVIOUS
  <1>2. PICK T : T = Tree(s)
    OBVIOUS
  <1>3. /\ FileOK(s, q) /\ ChainsOK(Over(s), ch, D, L) /\ TreeOK(T, r, g, left, right)
        /\ ContentsOK(T, D, ch) /\ \A a \in Nodes(s) : FitsOK(s.pages[a])
    BY <1>2 DEF Mid
  <1>4. page \in Node /\ DOMAIN T = Nodes(s) /\ T[p] = page /\ page.extra <= Len(s.pages) /\ Len(s.pages) \in Nat
        /\ DOMAIN T \subseteq 1 .. Len(s.pages)
    <2>1. s.pages[p] \in Node /\ p \in DOMAIN s.pages /\ DOMAIN s.pages = 1 .. Len(s.pages) /\ Len(s.pages) \in Nat
      BY <1>3, FileFacts, Parts
    <2>2. DOMAIN Tree(s) = Nodes(s) /\ Tree(s)[p] = s.pages[p] /\ Nodes(s) \subseteq DOMAIN s.pages
      BY Parts
    <2>3. s.pages[p].extra <= Len(s.pages)
      BY <1>3, <2>1 DEF FileOK, Linked
    <2> QED
      BY <1>1, <1>2, <2>1, <2>2, <2>3
  <1>5. right \in DOMAIN T /\ g.lo[right] \in Nat
    BY <1>3, SplitFacts
  <1>6. right \in Nat
    BY <1>3, <1>5, TreeFacts
  <1>7. e \in Item /\ e.size = InternalItem /\ ItemCost(e) = SlotSize + InternalItem
    BY <1>5, <1>6, ChildItemIs
  <1>8. page.items \in Seq(Item) /\ Len(page.items) \in Nat /\ page.free \in Nat /\ page.extra \in Nat
    BY <1>4 DEF Node
  <1>9. i + 1 \in 1 .. Len(page.items) + 1
    BY <1>1, <1>8
  <1>10. PICK items : items = InsertAt(page.items, i + 1, e)
    OBVIOUS
  <1>11. Inserted(page.items, i + 1, e, items)
    BY <1>7, <1>8, <1>9, <1>10, InsertAtIs
  <1>12. items \in Seq(Item) /\ Len(items) = Len(page.items) + 1
    BY <1>11 DEF Inserted
  <1>13. /\ page.free + Cost(page.items) = PageSpace /\ \A j \in 1 .. Len(page.items) : page.items[j].size = InternalItem
    <2>1. FitsOK(page)
      BY <1>1, <1>3
    <2> QED
      BY <1>1, <2>1 DEF FitsOK
  <1>14. \A j \in 1 .. Len(items) : items[j].size = InternalItem
    BY <1>7, <1>8, <1>9, <1>11, <1>13, SeparatorAdded, ZenonT(30)
  <1>15. Cost(page.items) \in Nat /\ Cost(items) = Cost(page.items) + ItemCost(e) /\ PageSpace \in Nat /\ SlotSize \in Nat /\ InternalItem \in Nat
    BY <1>7, <1>8, <1>9, <1>11, CostNat, CostInserted, Sizes
  <1>16. Len(page.items) >= 2
    <2>1. PageSpace < Cost(page.items) + SlotSize + InternalItem
      BY <1>1, <1>7, <1>8, <1>13, <1>15 DEF CanInsert
    <2> QED
      BY <1>8, <1>13, <2>1, TwoSeparators
  <1>17. Len(items) >= 3
    BY <1>8, <1>12, <1>16
  <1>18. PICK k : k = Len(items) \div 2 + 1
    OBVIOUS
  <1>19. PICK lft : lft = SubSeq(items, 1, k - 1)
    OBVIOUS
  <1>20. PICK rgt : rgt = SubSeq(items, k + 1, Len(items))
    OBVIOUS
  <1>53. /\ Around(items, k, lft, rgt)
          /\ Cost(items) = Cost(lft) + Cost(rgt) + ItemCost(items[k])
          /\ Cost(lft) \in Nat /\ Cost(rgt) \in Nat
    BY <1>12, <1>17, <1>18, <1>19, <1>20, InternalHalves
  <1>21. /\ k \in 1 .. Len(items) /\ lft \in Seq(Item) /\ rgt \in Seq(Item)
         /\ Len(lft) = k - 1 /\ (\A j \in 1 .. k - 1 : lft[j] = items[j])
         /\ Len(rgt) = Len(items) - k /\ (\A j \in 1 .. Len(items) - k : rgt[j] = items[j + k])
    BY <1>53, Zenon DEF Around
  <1>22. Cost(lft) <= PageSpace /\ Cost(rgt) <= PageSpace /\ Cost(lft) \in Nat /\ Cost(rgt) \in Nat
    <2>1. ItemCost(items[k]) = SlotSize + InternalItem
      <3>1. items[k].size = InternalItem /\ SlotSize \in Nat /\ InternalItem \in Nat
        BY <1>14, <1>15, <1>21
      <3> QED
        BY <3>1 DEF ItemCost
    <2>2. Cost(lft) + Cost(rgt) = Cost(page.items)
      BY <1>7, <1>15, <1>53, <2>1, SMTT(20)
    <2>3. Cost(page.items) <= PageSpace
      BY <1>8, <1>13, <1>15
    <2> QED
      BY <1>15, <1>53, <2>2, <2>3
  <1>23. PICK vp : vp = [kind |-> "Internal", extra |-> page.extra, items |-> items, free |-> 0]
    OBVIOUS
  <1>24. vp \in Node /\ vp.kind = "Internal" /\ vp.extra = page.extra /\ vp.items = items
    BY <1>8, <1>12, <1>23 DEF Node
  <1>25. PICK T1 : T1 = [T EXCEPT ![p] = vp]
    OBVIOUS
  <1>26. DOMAIN T1 = DOMAIN T /\ T1[p] = vp /\ (\A a \in DOMAIN T : a # p => T1[a] = T[a]) /\ p \in DOMAIN T
    BY <1>4, <1>25
  <1>27. TreeOK(T1, r, g, NoPage, NoPage)
    <2>1. /\ T[p].kind = "Internal" /\ i \in 0 .. Len(T[p].items) /\ Child(T[p], i) = left /\ vp.extra = T[p].extra
          /\ Inserted(T[p].items, i + 1, ChildItem(g.lo[right], right), vp.items)
      BY <1>1, <1>4, <1>11, <1>24
    <2>2. Sets(T, p, vp, T1)
      BY <1>26 DEF Sets
    <2> QED
      BY <1>3, <1>24, <1>26, <2>1, <2>2, ParentGrows
  <1>28. PICK c : c = items[k].data[2]
    OBVIOUS
  <1>29. c \in Nat /\ c <= Len(s.pages)
    <2>1. k \in 0 .. Len(T1[p].items) /\ k # 0
      BY <1>12, <1>21, <1>24, <1>26
    <2>2. Child(T1[p], k) = c
      BY <1>24, <1>26, <1>28, <2>1 DEF Child
    <2>3. Child(T1[p], k) \in DOMAIN T1
      BY <1>24, <1>26, <1>27, <2>1, ChildFacts
    <2> QED
      BY <1>4, <1>26, <2>2, <2>3
  <1>30. PICK pa : pa = Filled("Internal", page.extra, lft)
    OBVIOUS
  <1>31. PICK pb : pb = Filled("Internal", c, rgt)
    OBVIOUS
  <1>32. pa \in Node /\ pa.kind = "Internal" /\ pa.extra = page.extra /\ pa.items = lft /\ pa.free + Cost(pa.items) = PageSpace
    BY <1>8, <1>21, <1>22, <1>30, FilledIs, SMTT(20)
  <1>33. pb \in Node /\ pb.kind = "Internal" /\ pb.extra = c /\ pb.items = rgt /\ pb.free + Cost(pb.items) = PageSpace
    BY <1>21, <1>22, <1>29, <1>31, FilledIs, SMTT(20)
  <1>34. PICK new : new = AllocPage(s, "Internal")
    OBVIOUS
  <1>35. PICK s2 : s2 = Put(Put(new.s, p, pa), new.id, pb)
    OBVIOUS
  <1>36. Len(s.pages) <= Len(new.s.pages) /\ Len(new.s.pages) \in Nat
    <2>1. PICK q3 : FileOK(new.s, q3)
      BY <1>3, <1>34, AllocNode
    <2>2. Len(new.s.pages) \in Nat
      BY <2>1, FileFacts
    <2> QED
      BY <1>3, <1>34, <2>2, AllocNode
  <1>37. pa.extra <= Len(new.s.pages) /\ pb.extra <= Len(new.s.pages)
    BY <1>4, <1>8, <1>29, <1>32, <1>33, <1>36
  <1>38. PICK q2 : FileOK(s2, q2)
    BY <1>3, <1>32, <1>33, <1>34, <1>35, <1>37, SplitFile
  <1>39. /\ Splits(Tree(s), p, pa, new.id, pb, Tree(s2)) /\ Over(s2) = Over(s)
         /\ new.id \notin Nodes(s) /\ new.id \in Nat \ {0}
    BY <1>3, <1>32, <1>33, <1>34, <1>35, <1>37, SplitFile
  <1>40. PICK b : b = new.id
    OBVIOUS
  <1>41. PICK T2 : T2 = Tree(s2)
    OBVIOUS
  <1>42. DOMAIN T2 = DOMAIN T \cup {b} /\ T2[p] = pa /\ T2[b] = pb /\ (\A a \in DOMAIN T : a # p => T2[a] = T[a])
         /\ b \notin DOMAIN T /\ b \in Nat \ {0}
    BY <1>2, <1>4, <1>39, <1>40, <1>41 DEF Splits
  <1>43. Splits(T1, p, pa, b, pb, T2) /\ b \notin DOMAIN T1
    BY <1>26, <1>42 DEF Splits
  <1>44. PICK g2 : Halved(T1, g, p, b, T1[p].items[k].key, g2) /\ TreeOK(T2, r, g2, p, b)
    <2>1. /\ pa.extra = T1[p].extra /\ pb.extra = T1[p].items[k].data[2] /\ Around(T1[p].items, k, pa.items, pb.items)
      BY <1>53, <1>24, <1>26, <1>28, <1>32, <1>33
    <2>2. T1[p].kind = "Internal" /\ p \in DOMAIN T1
      BY <1>24, <1>26
    <2> QED
      BY <1>27, <1>32, <1>33, <1>42, <1>43, <2>1, <2>2, InternalSplit
  <1>45. g2.lo[b] = items[k].key /\ \A a \in DOMAIN T : g2.lvl[a] = g.lvl[a]
    BY <1>24, <1>26, <1>44 DEF Halved
  <1>46. res = [s |-> s2, sep |-> items[k].key, right |-> b, outcome |-> "split"]
    <2>1. ~(Len(items) < 3) /\ ~(Cost(lft) > PageSpace) /\ ~(Cost(rgt) > PageSpace)
      BY <1>15, <1>17, <1>12, <1>21, <1>22
    <2> QED
      BY <1>1, <1>10, <1>18, <1>19, <1>20, <1>28, <1>30, <1>31, <1>34, <1>35, <1>40, <2>1, Zenon DEF SplitInternal
  <1>47. ContentsOK(T2, D, ch)
    <2>1. T[p].kind = "Internal"
      BY <1>1, <1>4
    <2> QED
      BY <1>3, <1>32, <1>33, <1>42, <2>1, ContentsKept
  <1>48. \A a \in Nodes(s2) : FitsOK(s2.pages[a])
    <2>1. ASSUME NEW j \in 1 .. Len(lft) PROVE lft[j].size = InternalItem
      <3>1. j \in 1 .. k - 1 /\ j \in 1 .. Len(items)
        BY <1>12, <1>21
      <3> QED
        BY <1>14, <1>21, <3>1
    <2>2. ASSUME NEW j \in 1 .. Len(rgt) PROVE rgt[j].size = InternalItem
      <3>1. j \in 1 .. Len(items) - k /\ j + k \in 1 .. Len(items)
        BY <1>12, <1>21
      <3> QED
        BY <1>14, <1>21, <3>1
    <2>3. FitsOK(pa)
      BY <1>15, <1>32, <2>1 DEF FitsOK
    <2>4. FitsOK(pb)
      BY <1>15, <1>33, <2>2 DEF FitsOK
    <2> QED
      BY <1>3, <1>39, <2>3, <2>4, FitsSplit
  <1>49. Mid(s2, r, D, L, g2, q2, ch, p, b)
    BY <1>3, <1>38, <1>39, <1>41, <1>44, <1>47, <1>48 DEF Mid
  <1>50. p # NoPage
    BY <1>3, <1>26, TreeFacts DEF NoPage
  <1>51. PathTo(T2, r, g2, path, m - 1, p)
    <2>1. PathTo(T, r, g, path, m - 1, p)
      BY <1>2, PathFront
    <2>2. /\ path \in Seq(Nat) /\ m \in 0 .. Len(path)
          /\ \A j \in 1 .. m : path[j] \in DOMAIN T /\ g.lvl[path[j]] + j = g.lvl[r] + 1
      BY <1>2 DEF PathTo
    <2>3. m - 1 <= Len(path) /\ g2.lvl[r] = g.lvl[r]
      <3>1. r \in DOMAIN T
        BY <1>3, TreeFacts
      <3> QED
        BY <1>45, <2>2, <3>1
    <2>4. ASSUME NEW j \in 1 .. m - 1
          PROVE  path[j] \in DOMAIN T2 /\ T2[path[j]] = T[path[j]] /\ g2.lvl[path[j]] = g.lvl[path[j]]
      <3>1. j \in 1 .. m /\ m \in 1 .. m /\ j # m
        OBVIOUS
      <3>2. path[j] \in DOMAIN T /\ g.lvl[path[j]] + j = g.lvl[p] + m
        BY <2>2, <3>1
      <3>3. path[j] # p
        <4>1. NodeOK(T, g, p)
          BY <1>3, <1>26 DEF TreeOK
        <4>2. g.lvl[p] \in Nat
          BY <4>1, NodeFacts
        <4> QED
          BY <3>1, <3>2, <4>2
      <3> QED
        BY <1>42, <1>45, <3>2, <3>3
    <2> QED
      BY <2>1, <2>2, <2>3, <2>4, PathKept
  <1>52. res.outcome = "split" /\ res.s = s2 /\ res.right = b /\ res.sep = g2.lo[b]
    BY <1>45, <1>46
  <1>54. res = [s |-> res.s, sep |-> res.sep, right |-> res.right, outcome |-> res.outcome]
    BY <1>46
  <1> QED
    BY <1>54, <1>41, <1>49, <1>50, <1>51, <1>52 DEF SplitUp

\* One round of propagate.
LEMMA ClimbedMore ==
  ASSUME NEW r, NEW D, NEW L, NEW ch, NEW path, Len(path) \in Nat, NEW k \in Nat, k < Len(path),
         NEW acc, ClimbedOK(r, D, L, ch, path, k, acc)
  PROVE  ClimbedOK(r, D, L, ch, path, k + 1, ClimbStep(path, acc, k + 1))
  <1>1. CASE acc.outcome = "ok"
    <2>1. ClimbStep(path, acc, k + 1) = acc
      BY <1>1 DEF ClimbStep
    <2> QED
      BY <1>1, <2>1 DEF ClimbedOK
  <1>2. CASE acc.outcome = "split"
    <2>1. PICK g, q, left : /\ Mid(acc.s, r, D, L, g, q, ch, left, acc.right) /\ left # NoPage /\ acc.sep = g.lo[acc.right]
                            /\ PathTo(Tree(acc.s), r, g, path, Len(path) - k, left)
      BY <1>2 DEF ClimbedOK
    <2>2. PICK m \in Nat : m = Len(path) - k /\ m # 0 /\ Len(path) - (k + 1) = m - 1 /\ Len(path) + 1 - (k + 1) = m
      OBVIOUS
    <2>3. PICK p : p = path[m]
      OBVIOUS
    <2>4. PICK s : s = acc.s
      OBVIOUS
    <2>5. PICK right : right = acc.right
      OBVIOUS
    <2>6. PICK T : T = Tree(s)
      OBVIOUS
    <2>7. PICK page : page = s.pages[p]
      OBVIOUS
    <2>8. /\ Mid(s, r, D, L, g, q, ch, left, right) /\ TreeOK(T, r, g, left, right) /\ PathTo(T, r, g, path, m, left)
          /\ acc.sep = g.lo[right]
      BY <2>1, <2>2, <2>4, <2>5, <2>6 DEF Mid
    <2>9. p \in DOMAIN T /\ T[p].kind = "Internal" /\ \E i \in 0 .. Len(T[p].items) : Child(T[p], i) = left
      <3>1. m \in 1 .. m /\ At(path, m, left, m + 1) = left
        BY <2>2 DEF At
      <3> QED
        BY <2>3, <2>8, <3>1 DEF PathTo
    <2>10. p \in Nodes(s) /\ T[p] = page
      <3>1. DOMAIN Tree(s) = Nodes(s) /\ \A a \in Nodes(s) : Tree(s)[a] = s.pages[a]
        BY Parts
      <3> QED
        BY <2>6, <2>7, <2>9, <3>1
    <2>11. PICK i \in 0 .. Len(T[p].items) : Child(T[p], i) = left
      BY <2>9
    <2>12. GoesTo(T[p], g.lo[right], i + 1)
      BY <2>1, <2>8, <2>9, <2>11, SeparatorSlot
    <2>13. PICK e : e = ChildItem(g.lo[right], right)
      OBVIOUS
    <2>14. s.pages[p].kind = "Internal" /\ i \in 0 .. Len(s.pages[p].items) /\ Child(s.pages[p], i) = left
      BY <2>7, <2>9, <2>10, <2>11
    <2>15. SlotSearch(acc.s.pages[p], acc.sep).found = FALSE /\ SlotSearch(acc.s.pages[p], acc.sep).at = i + 1
      BY <2>4, <2>7, <2>8, <2>10, <2>12 DEF GoesTo
    <2>16. CASE CanInsert(s.pages[p], e)
      <3>1. PICK s2 : s2 = Put(s, p, InsertItem(s.pages[p], i + 1, e))
        OBVIOUS
      <3>2. ClimbStep(path, acc, k + 1) = [acc EXCEPT !.s = s2, !.outcome = "ok"]
        BY <1>2, <2>2, <2>3, <2>4, <2>5, <2>8, <2>13, <2>15, <2>16, <3>1 DEF ClimbStep
      <3>3. Mid(s2, r, D, L, g, q, ch, NoPage, NoPage)
        BY <2>1, <2>8, <2>10, <2>13, <2>14, <2>16, <3>1, ParentTakes
      <3>4. acc = [s |-> acc.s, sep |-> acc.sep, right |-> acc.right, outcome |-> acc.outcome]
        BY DEF ClimbedOK
      <3>5. PICK a2 : a2 = [acc EXCEPT !.s = s2, !.outcome = "ok"]
        OBVIOUS
      <3>6. a2 = [s |-> s2, sep |-> acc.sep, right |-> acc.right, outcome |-> "ok"]
        BY <3>4, <3>5
      <3>7. a2.s = s2 /\ a2.outcome = "ok" /\ a2 = [s |-> a2.s, sep |-> a2.sep, right |-> a2.right, outcome |-> a2.outcome]
        BY <3>6
      <3>8. ClimbedOK(r, D, L, ch, path, k + 1, a2)
        BY <3>3, <3>7 DEF ClimbedOK
      <3> QED
        BY <3>2, <3>5, <3>8
    <2>17. CASE ~CanInsert(s.pages[p], e)
      <3>1. PICK res : res = SplitInternal(s, p, i + 1, e)
        OBVIOUS
      <3>2. ClimbStep(path, acc, k + 1) = res
        BY <1>2, <2>2, <2>3, <2>4, <2>5, <2>8, <2>13, <2>15, <2>17, <3>1 DEF ClimbStep
      <3>3. PathTo(Tree(s), r, g, path, m, left)
        BY <2>6, <2>8
      <3>4. SplitUp(r, D, L, ch, path, m, p, res)
        BY <2>1, <2>2, <2>3, <2>8, <2>10, <2>13, <2>14, <2>17, <3>1, <3>3, ParentSplits
      <3>5. ClimbedOK(r, D, L, ch, path, k + 1, res)
        BY <2>2, <3>4 DEF ClimbedOK, SplitUp
      <3> QED
        BY <3>2, <3>5
    <2> QED
      BY <2>16, <2>17
  <1> QED
    BY <1>1, <1>2 DEF ClimbedOK

\* A split reaches the root.
LEMMA NewRootOK ==
  ASSUME NEW s, NEW r, NEW D, NEW L, NEW g, NEW q, NEW ch, NEW right, Mid(s, r, D, L, g, q, ch, r, right),
         NEW sep, sep = g.lo[right], NEW res, res = NewRoot(s, r, sep, right)
  PROVE  res.outcome = "ok" /\ \E g2, q2 : Mid(res.s, res.root, D, L, g2, q2, ch, NoPage, NoPage)
  <1>1. /\ FileOK(s, q) /\ ChainsOK(Over(s), ch, D, L) /\ TreeOK(Tree(s), r, g, r, right)
        /\ ContentsOK(Tree(s), D, ch) /\ \A a \in Nodes(s) : FitsOK(s.pages[a])
    BY DEF Mid
  <1>2. r \in DOMAIN Tree(s) /\ \A a \in DOMAIN Tree(s) : a \in Nat \ {0}
    BY <1>1, TreeFacts
  <1>3. right \in DOMAIN Tree(s) /\ sep \in Nat
    BY <1>1, <1>2, SplitFacts DEF NoPage
  <1>4. PICK e : e = ChildItem(sep, right)
    OBVIOUS
  <1>5. e \in Item /\ e.size = InternalItem /\ ItemCost(e) = SlotSize + InternalItem
    BY <1>2, <1>3, <1>4, ChildItemIs
  <1>6. PICK new : new = AllocPage(s, "Internal")
    OBVIOUS
  <1>7. PICK q2 : FileOK(new.s, q2)
    BY <1>1, <1>6, AllocNode
  <1>8. /\ Sets(Tree(s), new.id, NewPage("Internal"), Tree(new.s)) /\ Over(new.s) = Over(s)
        /\ new.id \notin Nodes(s) /\ new.id \in Nodes(new.s) /\ new.id \in Nat \ {0} /\ Len(s.pages) <= Len(new.s.pages)
    BY <1>1, <1>6, AllocNode
  <1>9. DOMAIN Tree(s) = Nodes(s) /\ Tree(new.s)[new.id] = new.s.pages[new.id] /\ DOMAIN Tree(new.s) = Nodes(new.s)
    BY <1>8, Parts
  <1>10. new.s.pages[new.id] = NewPage("Internal")
    BY <1>8, <1>9 DEF Sets
  <1>11. PICK page : page = [kind |-> "Internal", extra |-> r, items |-> <<>>, free |-> PageSpace]
    OBVIOUS
  <1>12. page \in Node /\ page.kind = "Internal" /\ page.extra = r /\ page.items = <<>> /\ page.free = PageSpace
    BY <1>2, <1>11, Sizes DEF Node
  <1>13. [new.s.pages[new.id] EXCEPT !.extra = r] = page
    BY <1>10, <1>11 DEF NewPage
  <1>14. CanInsert(page, e)
    BY <1>5, <1>12, Sizes DEF CanInsert
  <1>15. PICK p2 : p2 = InsertItem(page, 1, e)
    OBVIOUS
  <1>16. Len(page.items) = 0 /\ page.items \in Seq(Item) /\ Cost(page.items) = 0
    <2>1. Len(page.items) = 0 /\ page.items \in Seq(Item)
      BY <1>12
    <2> QED
      BY <2>1, CostEmpty
  <1>17. 1 \in 1 .. Len(page.items) + 1
    BY <1>16
  <1>18. /\ p2 \in Node /\ p2.kind = page.kind /\ p2.extra = page.extra /\ Inserted(page.items, 1, e, p2.items)
         /\ p2.free + Cost(p2.items) = page.free + Cost(page.items)
    BY <1>5, <1>12, <1>14, <1>15, <1>17, InsertItemIs
  <1>19. Len(p2.items) = 1 /\ p2.items[1] = e
    BY <1>16, <1>18 DEF Inserted
  <1>20. PICK s2 : s2 = Put(new.s, new.id, p2)
    OBVIOUS
  <1>21. r \in 1 .. Len(s.pages) /\ Len(s.pages) \in Nat /\ Len(new.s.pages) \in Nat
    BY <1>1, <1>2, <1>7, <1>9, FileFacts
  <1>22. p2.extra <= Len(new.s.pages)
    BY <1>8, <1>12, <1>18, <1>21
  <1>23. FileOK(s2, q2) /\ Sets(Tree(new.s), new.id, p2, Tree(s2)) /\ Over(s2) = Over(new.s)
    BY <1>7, <1>8, <1>18, <1>20, <1>22, PutNode
  <1>24. Sets(Tree(s), new.id, p2, Tree(s2))
    BY <1>8, <1>9, <1>23 DEF Sets
  <1>25. res = Done(s2, new.id)
    BY <1>4, <1>6, <1>13, <1>15, <1>20 DEF NewRoot
  <1>26. res.s = s2 /\ res.root = new.id /\ res.outcome = "ok"
    BY <1>25 DEF Done
  <1>27. PICK g2 : TreeOK(Tree(s2), new.id, g2, NoPage, NoPage)
    <2>1. PICK T : T = Tree(s)
      OBVIOUS
    <2>2. TreeOK(T, r, g, r, right) /\ new.id \notin DOMAIN T /\ Sets(T, new.id, p2, Tree(s2))
      BY <1>1, <1>8, <1>9, <1>24, <2>1
    <2>3. p2.kind = "Internal" /\ p2.extra = r /\ p2.items[1] = ChildItem(g.lo[right], right)
      BY <1>4, <1>12, <1>18, <1>19
    <2> QED
      BY <1>8, <1>18, <1>19, <2>2, <2>3, RootGrows
  <1>28. ContentsOK(Tree(s2), D, ch)
    <2>1. /\ DOMAIN Tree(s2) = DOMAIN Tree(s) \cup {new.id} /\ Tree(s2)[new.id].kind = "Internal" /\ new.id \notin DOMAIN Tree(s)
          /\ \A a \in DOMAIN Tree(s) : Tree(s2)[a] = Tree(s)[a]
      BY <1>8, <1>9, <1>12, <1>18, <1>24 DEF Sets
    <2> QED
      BY <1>1, <2>1, ContentsKept
  <1>29. FitsOK(p2)
    <2>1. p2.free + Cost(p2.items) = PageSpace
      BY <1>12, <1>16, <1>18, Sizes
    <2>2. \A j \in 1 .. Len(p2.items) : p2.items[j].size = InternalItem
      BY <1>5, <1>19
    <2> QED
      BY <2>1, <2>2, Sizes, SMTT(20) DEF FitsOK
  <1>30. \A a \in Nodes(s2) : FitsOK(s2.pages[a])
    BY <1>1, <1>24, <1>29, FitsSet
  <1>31. Mid(s2, new.id, D, L, g2, q2, ch, NoPage, NoPage)
    BY <1>1, <1>8, <1>23, <1>27, <1>28, <1>30 DEF Mid
  <1> QED
    BY <1>26, <1>31

\* Propagating a split makes the tree whole again.
LEMMA PropagateOK ==
  ASSUME NEW s, NEW r, NEW D, NEW L, NEW g, NEW q, NEW ch, NEW left, NEW right, Mid(s, r, D, L, g, q, ch, left, right),
         left # NoPage, NEW path, PathTo(Tree(s), r, g, path, Len(path), left), NEW sep, sep = g.lo[right],
         NEW res, res = Propagate(s, r, path, sep, right)
  PROVE  res.outcome = "ok" /\ \E g2, q2 : Mid(res.s, res.root, D, L, g2, q2, ch, NoPage, NoPage)
  <1>1. PICK n : n = Len(path)
    OBVIOUS
  <1>2. n \in Nat
    BY <1>1 DEF PathTo
  <1>3. PICK f : /\ f[0] = [s |-> s, sep |-> sep, right |-> right, outcome |-> "split"]
                 /\ \A k \in 0 .. n - 1 : f[k + 1] = ClimbStep(path, f[k], k + 1)
                 /\ Climb(s, path, sep, right) = f[n]
    BY <1>1, <1>2, ClimbIs
  <1> DEFINE S == {k \in Nat : k <= n => ClimbedOK(r, D, L, ch, path, k, f[k])}
  <1>4. 0 \in S
    <2>1. /\ f[0].s = s /\ f[0].sep = g.lo[f[0].right] /\ f[0].right = right /\ f[0].outcome = "split"
          /\ f[0] = [s |-> f[0].s, sep |-> f[0].sep, right |-> f[0].right, outcome |-> f[0].outcome]
      BY <1>3
    <2>2. PathTo(Tree(s), r, g, path, Len(path) - 0, left)
      BY <1>1, <1>2
    <2> QED
      BY <2>1, <2>2 DEF ClimbedOK
  <1>5. ASSUME NEW k \in Nat, k \in S PROVE k + 1 \in S
    <2> SUFFICES ASSUME k + 1 <= n PROVE ClimbedOK(r, D, L, ch, path, k + 1, f[k + 1])
      OBVIOUS
    <2>1. ClimbedOK(r, D, L, ch, path, k, f[k]) /\ f[k + 1] = ClimbStep(path, f[k], k + 1)
      BY <1>2, <1>3, <1>5
    <2> QED
      BY <1>1, <1>2, <2>1, ClimbedMore
  <1>6. Nat \subseteq S
    <2> HIDE DEF S
    <2> QED
      BY <1>4, <1>5, SetInduction
  <1>7. PICK end : end = f[n] /\ ClimbedOK(r, D, L, ch, path, n, end)
    BY <1>2, <1>6
  <1>8. CASE end.outcome = "ok"
    <2>1. res = Failed(end.s, r, "ok")
      BY <1>3, <1>7, <1>8 DEF Propagate
    <2>2. res.s = end.s /\ res.root = r /\ res.outcome = "ok"
      BY <2>1 DEF Failed
    <2> QED
      BY <1>7, <1>8, <2>2 DEF ClimbedOK
  <1>9. CASE end.outcome = "split"
    <2>1. PICK g2, q2, lf : /\ Mid(end.s, r, D, L, g2, q2, ch, lf, end.right) /\ lf # NoPage /\ end.sep = g2.lo[end.right]
                            /\ PathTo(Tree(end.s), r, g2, path, n - n, lf)
      BY <1>1, <1>7, <1>9 DEF ClimbedOK
    <2>2. lf = r
      <3>1. At(path, n - n, lf, 1) = r
        BY <2>1 DEF PathTo
      <3> QED
        BY <1>2, <3>1 DEF At
    <2>3. res = NewRoot(end.s, r, end.sep, end.right)
      BY <1>3, <1>7, <1>9 DEF Propagate
    <2> QED
      BY <2>1, <2>2, <2>3, NewRootOK
  <1> QED
    BY <1>7, <1>8, <1>9 DEF ClimbedOK
=============================================================================
