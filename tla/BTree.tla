------------------------------- MODULE BTree -------------------------------
(***************************************************************************)
(* The B+-tree of ferrite-storage (btree.rs) with the slotted pages it is  *)
(* made of (page.rs) and the page allocator under it (pager.rs): searches, *)
(* insertion and replacement with splits of leaves and internal nodes,     *)
(* overflow chains, removal and destruction.                               *)
(*                                                                         *)
(* Sizes are in units of the model.  A page is [kind, extra, items, free]: *)
(* `free` is the room between the slots and the items, so removing an item *)
(* gives back its slot only; its bytes stay behind as a hole.  The engine  *)
(* calls the tree under one lock, so an operation is one step.             *)
(***************************************************************************)
EXTENDS Integers, Sequences, SequencesExt, FiniteSets

CONSTANTS
  Orders,               \* the orders in which new keys are inserted, sequences of numbers
  Payloads,             \* the payloads written, sequences of bytes
  PageSpace,            \* PAGE_SIZE less the header
  SlotSize,             \* SLOT_SIZE
  LeafHeader,           \* LEAF_HEADER
  MaxInline,            \* MAX_INLINE
  OverflowDescriptor,   \* OVERFLOW_DESCRIPTOR
  OverflowChunk,        \* OVERFLOW_CHUNK
  InternalItem,         \* INTERNAL_ITEM
  MaxChanges            \* bound: insertions of new keys and other changes together

\* MAX_INLINE is "chosen so a leaf always holds at least three inline
\* entries"; an internal node takes at least two separators.
ASSUME BTreeAssumption ==
  /\ Orders \subseteq Seq(Nat) /\ Payloads \subseteq Seq(Nat)
  /\ MaxChanges \in Nat /\ \A order \in Orders : Len(order) <= MaxChanges
  /\ {PageSpace, SlotSize, LeafHeader, MaxInline, OverflowChunk, InternalItem} \subseteq Nat \ {0}
  /\ OverflowDescriptor \in LeafHeader .. LeafHeader + MaxInline
  /\ 3 * (SlotSize + LeafHeader + MaxInline) <= PageSpace
  /\ 2 * (SlotSize + InternalItem) <= PageSpace

VARIABLES
  store,    \* [pages, free]: the pages from 1 on, and the head of the free list
  root,     \* the root of the tree, NoPage before create and after destroy
  dict,     \* history: what the operations have put into the tree
  outcome,  \* of the last operation: "ok" or the error
  lost,     \* history: the chains built by insertions that failed
  keys,     \* the keys used
  order,    \* those still to insert
  changes   \* how many changes besides them there may still be

vars == <<store, root, dict, outcome, lost, keys, order, changes>>

NoPage == 0

\* A loop: the state after n rounds, from x on. One that may stop earlier has
\* rounds that change nothing; as many rounds as there are pages are enough
\* for a loop that visits a page in each.
Loop(Step(_, _), x, n) ==
  LET after[k \in 0 .. n] == IF k = 0 THEN x ELSE Step(after[k - 1], k)
  IN  after[n]

----------------------------------------------------------------------------
(* Pages.                                                                  *)

NewPage(kind) == [kind |-> kind, extra |-> NoPage, items |-> <<>>, free |-> PageSpace]

ItemCost(item) == item.size + SlotSize

Cost(items) == Loop(LAMBDA sum, i : sum + ItemCost(items[i]), 0, Len(items))

CanInsert(page, item) == ItemCost(item) <= page.free

\* Mutant: the slot takes no room.
InsertItem_no_slot(page, i, item) ==
  [page EXCEPT !.items = InsertAt(@, i, item), !.free = @ - item.size]

InsertItem(page, i, item) ==
  [page EXCEPT !.items = InsertAt(@, i, item), !.free = @ - ItemCost(item)]

RemoveItem(page, i) == [page EXCEPT !.items = RemoveAt(@, i), !.free = @ + SlotSize]

Compact(page) == [page EXCEPT !.free = PageSpace - Cost(page.items)]

\* The page without item i, compacted when the new item needs it.
Vacated(page, i, item) ==
  LET removed == RemoveItem(page, i) IN IF CanInsert(removed, item) THEN removed ELSE Compact(removed)

CanReplace(page, i, item) == item.size = page.items[i].size \/ CanInsert(Vacated(page, i, item), item)

ReplaceItem(page, i, item) ==
  IF item.size = page.items[i].size THEN [page EXCEPT !.items[i] = item]
  ELSE InsertItem(Vacated(page, i, item), i, item)

\* A page rewritten from scratch (fill_leaf, fill_internal).
Filled(kind, extra, items) ==
  [kind |-> kind, extra |-> extra, items |-> items, free |-> PageSpace - Cost(items)]

----------------------------------------------------------------------------
(* The allocator.                                                          *)

Put(s, id, page) == [s EXCEPT !.pages[id] = page]

\* alloc_page: the head of the free list, else a page at the end of the file.
AllocPage(s, kind) ==
  IF s.free # NoPage
  THEN [id |-> s.free, s |-> [pages |-> [s.pages EXCEPT ![s.free] = NewPage(kind)], free |-> s.pages[s.free].extra]]
  ELSE [id |-> Len(s.pages) + 1, s |-> [s EXCEPT !.pages = Append(@, NewPage(kind))]]

FreePage(s, id) == [pages |-> [s.pages EXCEPT ![id] = [NewPage("Free") EXCEPT !.extra = s.free]], free |-> id]

----------------------------------------------------------------------------
(* Items.  Leaf items hold their payload, or its length and the first page *)
(* of an overflow chain; items of internal nodes hold a child.             *)

ChildItem(key, child) == [key |-> key, size |-> InternalItem, data |-> <<"Child", child>>]

\* write_overflow: from the last chunk to the first, each page links its successor.
WriteOverflow(s, data) ==
  LET n == (Len(data) + OverflowChunk - 1) \div OverflowChunk
      chunk(i) == SubSeq(data, (i - 1) * OverflowChunk + 1,
                         IF i = n THEN Len(data) ELSE i * OverflowChunk)
      step(acc, k) == LET new == AllocPage(acc.s, "Overflow")
                          page == [kind |-> "Overflow", extra |-> acc.id, items |-> chunk(n + 1 - k), free |-> PageSpace]
                      IN  [id |-> new.id, s |-> Put(new.s, new.id, page)]
  IN  Loop(step, [id |-> NoPage, s |-> s], n)

BuildItem(s, key, payload) ==
  IF Len(payload) <= MaxInline
  THEN [s |-> s, item |-> [key |-> key, size |-> LeafHeader + Len(payload), data |-> <<"Inline", payload>>]]
  ELSE LET written == WriteOverflow(s, payload)
       IN  [s |-> written.s, item |-> [key |-> key, size |-> OverflowDescriptor,
                                       data |-> <<"Overflow", Len(payload), written.id>>]]

\* Mutant: the chain of the item replaced or removed is forgotten.
ReleaseItem_never(s, item) == s

\* release_item, free_overflow: page by page along the chain.
ReleaseItem(s, item) ==
  LET step(acc, k) == IF acc.id = NoPage THEN acc
                      ELSE [id |-> acc.s.pages[acc.id].extra, s |-> FreePage(acc.s, acc.id)]
  IN  IF item.data[1] = "Overflow" THEN Loop(step, [id |-> item.data[3], s |-> s], Len(s.pages)).s ELSE s

\* payload_of, read_overflow: a payload, or "corrupt".
PayloadOf(s, item) ==
  LET step(acc, k) == IF acc.id = NoPage \/ s.pages[acc.id].kind # "Overflow" THEN acc
                      ELSE [id |-> s.pages[acc.id].extra, out |-> acc.out \o s.pages[acc.id].items]
      end == Loop(step, [id |-> item.data[3], out |-> <<>>], Len(s.pages))
  IN  IF item.data[1] = "Inline" THEN <<item.data[2]>>
      ELSE IF end.id = NoPage /\ Len(end.out) = item.data[2] THEN <<end.out>>
      ELSE <<"corrupt">>

----------------------------------------------------------------------------
(* Searching.                                                              *)

\* slot_search: binary search; `at` is the slot, or where the key would go.
SlotSearch(page, key) ==
  LET n == Len(page.items)
      mid(r) == (r[1] + r[2]) \div 2
      there(r) == page.items[mid(r) + 1].key
      between[r \in (0 .. n) \X (0 .. n)] ==
        IF r[1] >= r[2] THEN [found |-> FALSE, at |-> r[1] + 1]
        ELSE IF there(r) < key THEN between[<<mid(r) + 1, r[2]>>]
        ELSE IF there(r) > key THEN between[<<r[1], mid(r)>>]
        ELSE [found |-> TRUE, at |-> mid(r) + 1]
  IN  between[<<0, n>>]

\* Mutant: a key equal to a separator is looked for on its left.
ChildFor_left(page, key) ==
  LET slot == SlotSearch(page, key)
  IN  IF slot.at = 1 THEN page.extra ELSE page.items[slot.at - 1].data[2]

ChildFor(page, key) ==
  LET slot == SlotSearch(page, key)
  IN  IF slot.found THEN page.items[slot.at].data[2]
      ELSE IF slot.at = 1 THEN page.extra
      ELSE page.items[slot.at - 1].data[2]

\* descend: the nodes from the root to the leaf for a key.  Its errors, a page
\* that is no node and a 65th level, are those of a damaged file, which the
\* model does not have.
Descend(s, from, key) ==
  LET step(path, k) == IF s.pages[Last(path)].kind # "Internal" THEN path
                       ELSE Append(path, ChildFor(s.pages[Last(path)], key))
  IN  Loop(step, <<from>>, Len(s.pages))

\* lookup: the payload under a key, as an option.
Lookup(s, from, key) ==
  LET page == s.pages[Last(Descend(s, from, key))]
      slot == SlotSearch(page, key)
  IN  IF slot.found THEN PayloadOf(s, page.items[slot.at]) ELSE <<>>

\* seek: the first item from a key on, along the chain of leaves, as an option.
SeekLeaf(s, from, key) ==
  LET step(id, k) == IF id = NoPage \/ SlotSearch(s.pages[id], key).at <= Len(s.pages[id].items) THEN id
                     ELSE s.pages[id].extra
  IN  Loop(step, Last(Descend(s, from, key)), Len(s.pages))

Seek(s, from, key) ==
  LET leaf == SeekLeaf(s, from, key)
      item == s.pages[leaf].items[SlotSearch(s.pages[leaf], key).at]
  IN  IF leaf = NoPage THEN <<>> ELSE <<item.key>> \o PayloadOf(s, item)

----------------------------------------------------------------------------
(* Inserting.  A result is [s, root, outcome].                             *)

\* Mutant: the first item alone goes left.
SplitAt_first(items) == 1

\* The number of items that stay left: up to the one that passes half the bytes.
SplitAt(items) ==
  LET passes(i) == 2 * Cost(SubSeq(items, 1, i)) >= Cost(items)
      first == CHOOSE i \in DOMAIN items : passes(i) /\ \A j \in 1 .. i - 1 : ~passes(j)
  IN  IF first = 1 THEN 1 ELSE first - 1

Failed(s, from, why) == [s |-> s, root |-> from, outcome |-> why]

Done(s, from) == [s |-> s, root |-> from, outcome |-> "ok"]

\* The split reached the top: a new root over the old one and its right half.
NewRoot(s, from, sep, right) ==
  LET new == AllocPage(s, "Internal")
      page == [new.s.pages[new.id] EXCEPT !.extra = from]
  IN  Done(Put(new.s, new.id, InsertItem(page, 1, ChildItem(sep, right))), new.id)

\* split_internal: the middle separator moves up, its child becomes the
\* leftmost one of the right half.
SplitInternal(s, node, at, item) ==
  LET items == InsertAt(s.pages[node].items, at, item)
      middle == Len(items) \div 2 + 1
      left == SubSeq(items, 1, middle - 1)
      right == SubSeq(items, middle + 1, Len(items))
      new == AllocPage(s, "Internal")
      halved == Put(new.s, node, Filled("Internal", s.pages[node].extra, left))
      stopped(at_s, why) == [s |-> at_s, sep |-> 0, right |-> NoPage, outcome |-> why]
  IN  IF Len(items) < 3 THEN stopped(s, "small node")
      ELSE IF Cost(left) > PageSpace THEN stopped(new.s, "large half")
      ELSE IF Cost(right) > PageSpace THEN stopped(halved, "large half")
      ELSE [s |-> Put(halved, new.id, Filled("Internal", items[middle].data[2], right)),
            sep |-> items[middle].key, right |-> new.id, outcome |-> "split"]

\* propagate: the separator goes into the parent; while parents split, further up.
Climb(s, path, sep, right) ==
  LET step(acc, k) ==
        LET parent == path[Len(path) + 1 - k]
            page == acc.s.pages[parent]
            slot == SlotSearch(page, acc.sep)
            item == ChildItem(acc.sep, acc.right)
        IN  IF acc.outcome # "split" THEN acc
            ELSE IF slot.found THEN [acc EXCEPT !.outcome = "duplicate separator"]
            ELSE IF CanInsert(page, item)
            THEN [acc EXCEPT !.s = Put(@, parent, InsertItem(page, slot.at, item)), !.outcome = "ok"]
            ELSE SplitInternal(acc.s, parent, slot.at, item)
  IN  Loop(step, [s |-> s, sep |-> sep, right |-> right, outcome |-> "split"], Len(path))

Propagate(s, from, path, sep, right) ==
  LET end == Climb(s, path, sep, right)
  IN  IF end.outcome = "split" THEN NewRoot(end.s, from, end.sep, end.right)
      ELSE Failed(end.s, from, end.outcome)

\* split_leaf, fill_leaf: the left half is rewritten before the right one is.
SplitLeaf(s, from, path, at, item) ==
  LET leaf == Last(path)
      items == InsertAt(s.pages[leaf].items, at, item)
      left == SubSeq(items, 1, SplitAt(items))
      right == SubSeq(items, SplitAt(items) + 1, Len(items))
      new == AllocPage(s, "Leaf")
      halved == Put(new.s, leaf, Filled("Leaf", new.id, left))
  IN  IF Len(items) < 2 THEN Failed(s, from, "single entry")
      ELSE IF Cost(left) > PageSpace THEN Failed(new.s, from, "large half")
      ELSE IF Cost(right) > PageSpace THEN Failed(halved, from, "large half")
      ELSE Propagate(Put(halved, new.id, Filled("Leaf", s.pages[leaf].extra, right)),
                     from, Front(path), right[1].key, new.id)

\* upsert: the new item is built first, then the old one's chain is released.
Upsert(s, from, key, payload) ==
  LET path == Descend(s, from, key)
      leaf == Last(path)
      page == s.pages[leaf]
      slot == SlotSearch(page, key)
      built == BuildItem(s, key, payload)
      released == ReleaseItem(built.s, page.items[slot.at])
  IN  IF slot.found /\ CanReplace(page, slot.at, built.item)
      THEN Done(Put(released, leaf, ReplaceItem(page, slot.at, built.item)), from)
      ELSE IF slot.found
      THEN SplitLeaf(Put(released, leaf, RemoveItem(page, slot.at)), from, path, slot.at, built.item)
      ELSE IF CanInsert(page, built.item)
      THEN Done(Put(built.s, leaf, InsertItem(page, slot.at, built.item)), from)
      ELSE SplitLeaf(built.s, from, path, slot.at, built.item)

RemoveKey(s, from, key) ==
  LET leaf == Last(Descend(s, from, key))
      slot == SlotSearch(s.pages[leaf], key)
  IN  IF ~slot.found THEN s
      ELSE Put(ReleaseItem(s, s.pages[leaf].items[slot.at]), leaf, RemoveItem(s.pages[leaf], slot.at))

\* destroy: the nodes on a stack; each is replaced by its children and freed.
Destroy(s, from) ==
  LET children(page) == <<page.extra>> \o [i \in DOMAIN page.items |-> page.items[i].data[2]]
      released(acc, page) == Loop(LAMBDA r, i : ReleaseItem(r, page.items[i]), acc, Len(page.items))
      step(acc, k) ==
        LET id == Last(acc.stack)
            page == acc.s.pages[id]
        IN  IF acc.stack = <<>> THEN acc
            ELSE IF page.kind = "Internal"
            THEN [s |-> FreePage(acc.s, id), stack |-> Front(acc.stack) \o children(page)]
            ELSE [s |-> FreePage(released(acc.s, page), id), stack |-> Front(acc.stack)]
  IN  Loop(step, [s |-> s, stack |-> <<from>>], Len(s.pages)).s

----------------------------------------------------------------------------

Init == store = [pages |-> <<>>, free |-> NoPage] /\ root = NoPage /\ dict = <<>> /\ outcome = "ok"
        /\ lost = {} /\ order \in Orders /\ keys = ToSet(order)
        /\ changes = MaxChanges - Len(order)

Counted == changes > 0 /\ changes' = changes - 1

CreateTree ==
  /\ root = NoPage
  /\ \E new \in {AllocPage(store, "Leaf")} : store' = new.s /\ root' = new.id
  /\ outcome' = "ok" /\ UNCHANGED <<dict, lost, keys, order, changes>>

Overflowing(s) == {id \in DOMAIN s.pages : s.pages[id].kind = "Overflow"}

\* store_chain of a chain with versions: the owner's root pointer follows the
\* tree's root.  An error changes neither the root nor the rows the tree holds.
UpsertStep(key, payload) ==
  /\ root # NoPage /\ UNCHANGED keys
  /\ \/ order # <<>> /\ key = Head(order) /\ order' = Tail(order) /\ UNCHANGED changes
     \/ key \notin ToSet(order) /\ UNCHANGED order /\ Counted
  /\ \E r \in {Upsert(store, root, key, payload)} :
       /\ store' = r.s /\ root' = r.root /\ outcome' = r.outcome
       /\ dict' = IF r.outcome = "ok" THEN [k \in DOMAIN dict \cup {key} |-> IF k = key THEN payload ELSE dict[k]]
                  ELSE dict
       /\ lost' = IF r.outcome = "ok" THEN lost ELSE lost \cup (Overflowing(r.s) \ Overflowing(store))

\* store_chain of a chain with no version left.
RemoveStep(key) ==
  /\ root # NoPage
  /\ IF key \in DOMAIN dict THEN Counted ELSE UNCHANGED changes
  /\ store' = RemoveKey(store, root, key)
  /\ dict' = [k \in DOMAIN dict \ {key} |-> dict[k]]
  /\ outcome' = "ok" /\ UNCHANGED <<root, lost, keys, order>>

DestroyTree ==
  /\ root # NoPage /\ Counted
  /\ store' = Destroy(store, root) /\ root' = NoPage /\ dict' = <<>> /\ outcome' = "ok" /\ UNCHANGED <<lost, keys, order>>

\* lookup and seek change nothing.
ReadStep == root # NoPage /\ UNCHANGED vars

Next ==
  \/ CreateTree \/ DestroyTree \/ ReadStep
  \/ \E key \in keys : RemoveStep(key) \/ \E payload \in Payloads : UpsertStep(key, payload)

Spec == Init /\ [][Next]_vars

----------------------------------------------------------------------------

\* The type invariant: slots, items and free room lie within their page.
TypeOK ==
  /\ root \in 0 .. Len(store.pages) /\ store.free \in 0 .. Len(store.pages)
  /\ \A id \in DOMAIN store.pages :
       LET page == store.pages[id]
       IN  /\ page.kind \in {"Leaf", "Internal", "Overflow", "Free"} /\ page.extra \in 0 .. Len(store.pages)
           /\ page.kind \in {"Leaf", "Internal"} => page.free >= 0 /\ page.free + Cost(page.items) <= PageSpace

\* Searches find what was put in and nothing else, after any sequence of
\* operations: lookup under every key, and seek, the step of every scan, from
\* every key on, across leaves that removals have emptied (lookup, seek,
\* child_for, split_leaf, split_internal).
SearchesAgree ==
  root # NoPage =>
    \A key \in keys :
      LET later == {k \in DOMAIN dict : k >= key}
          first == CHOOSE k \in later : \A other \in later : k <= other
      IN  /\ Lookup(store, root, key) = IF key \in DOMAIN dict THEN <<dict[key]>> ELSE <<>>
          /\ Seek(store, root, key) = IF later = {} THEN <<>> ELSE <<first, dict[first]>>

\* The pages that page id holds on to, by slot; slot 0 is its own link.  The
\* link of a leaf to the next one holds on to nothing.
Held(page) ==
  LET slots == {i \in DOMAIN page.items : page.items[i].data[1] = "Overflow"}
  IN  CASE page.kind = "Internal" ->
             [i \in 0 .. Len(page.items) |-> IF i = 0 THEN page.extra ELSE page.items[i].data[2]]
        [] page.kind = "Leaf" -> [i \in slots |-> page.items[i].data[3]]
        [] OTHER -> [i \in {0} |-> page.extra]

\* All links: from the tree's root and the head of the free list, as links of
\* NoPage, and from the pages in a set.
Links(s, from, ids) ==
  {<<NoPage, 0, from>>, <<NoPage, 1, s.free>>} \cup
    UNION {{<<id, i, Held(s.pages[id])[i]>> : i \in DOMAIN Held(s.pages[id])} : id \in ids}

\* Every page of the file has one use: it is a node of the tree, in the
\* overflow chain of one item, or on the free list.  A page with two uses
\* would be overwritten, one with none is lost (alloc_page, free_page,
\* release_item, destroy).  What is lost is the chain of an item whose
\* insertion failed: upsert builds it first and does not free it.
PagesAccounted ==
  LET reach(ids, k) == ids \cup ({link[3] : link \in Links(store, root, ids)} \ {NoPage})
      used == Loop(reach, {}, Len(store.pages))
  IN  /\ used = DOMAIN store.pages \ lost
      /\ \A x, y \in Links(store, root, used) : x[3] = y[3] /\ x[3] # NoPage => x = y

\* An insertion finds room: "a leaf always holds at least three inline
\* entries, which keeps splits able to make progress" (MAX_INLINE), and both
\* halves of a split fit.  The one exception is a leaf whose items were all
\* removed: their bytes are still counted, and one item cannot be split.
InsertionsSucceed ==
  outcome # "ok" => outcome = "single entry" /\ \E id \in DOMAIN store.pages :
                       store.pages[id].kind = "Leaf" /\ store.pages[id].items = <<>>
============================================================================
