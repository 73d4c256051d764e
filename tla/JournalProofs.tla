---------------------------- MODULE JournalProofs ----------------------------
(***************************************************************************)
(* Proofs about Journal, for any number of transactions, rows and failed   *)
(* writes: type correctness; what survives a crash that is not torn: every *)
(* acknowledged row, whole transactions, and fresh row ids; and, after     *)
(* torn crashes too, fresh transaction ids.                                *)
(*                                                                         *)
(* The argument is about two states: the one the process sees (Current)    *)
(* and the one it would recover to if it died now (Recovered). As long as  *)
(* no write has failed they agree on every page without changes that the   *)
(* journal has not seen (Coherent), so appending the others makes them one.*)
(***************************************************************************)
EXTENDS Journal, TLAPS

\* The pages as a process with cache c sees them, Meta included.
View(c) ==
  [p \in PageId |-> IF p = "Meta" THEN meta ELSE IF p \in DOMAIN c THEN c[p].page ELSE file[p]]

Current == View(cache)

\* The pages recovery would leave on file.
Recovered == Over(file, journal)

\* The second leaf counts once the operation in progress has linked it.
Linked == Current["Parent"] \/ op.stage = "parent"

Rows(v, linked) == v["Left"] \cup (IF linked THEN v["Right"] ELSE {})

\* What the properties ask of the pages v, when the rows A were acknowledged
\* and the rows W written.
Sound(v, linked, A, W) ==
  /\ \A r \in A : r \in Rows(v, linked) /\ r.txn \in v["Clog"]
  /\ \A r \in W : r.txn \in v["Clog"] => r \in Rows(v, linked)
  /\ \A r \in v["Left"] \cup v["Right"] : r.txn < v["Meta"] /\ r.id < v["Header"]
  /\ \A t \in v["Clog"] : t < v["Meta"]

\* A process that is gone has no memory, and a journal that is broken or holds
\* less than the cache thinks is not a whole state.
FlagsOK ==
  /\ ~up => DOMAIN cache = {} /\ active = {} /\ op = Idle /\ ~meta_dirty_vs_journal
  /\ broken => failed
  /\ whole => ~failed

\* The running process: its own rows are where a commit needs them, and the
\* ids in use are below the counters and not yet committed.
Running ==
  /\ Sound(Current, Linked, acked, wrote)
  /\ \A r \in wrote : r.txn < meta /\ (r.txn \in active => r \in Rows(Current, Linked))
  /\ \A t \in active : t < meta /\ t \notin Current["Clog"]
  /\ op # Idle => op.row.txn \in active /\ op.row.id < Current["Header"]

\* What the journal has seen of a page is what the process sees.
Coherent ==
  /\ \A p \in Cacheable :
       Recovered[p] = Current[p] \/ (p \in DOMAIN cache /\ cache[p].dirty_vs_journal)
  /\ Recovered["Meta"] = meta \/ meta_dirty_vs_journal

\* What would be recovered is sound, and stays so as the process goes on.
Recoverable ==
  /\ Sound(Recovered, Recovered["Parent"], acked, wrote)
  /\ up => /\ Recovered["Meta"] <= meta
           /\ active \cap Recovered["Clog"] = {}

Safe ==
  /\ up => Running
  /\ up /\ ~failed => Coherent
  /\ ~up \/ whole => Recoverable

Inv == TypeOK /\ FlagsOK /\ (torn \/ Safe)
-----------------------------------------------------------------------------
(* Types *)

\* The images of each page, without the case distinction.
LEMMA Images ==
  /\ Image("Meta") = 1 .. MaxTxn + 1
  /\ Image("Header") = 1 .. MaxRow + 1
  /\ Image("Parent") = BOOLEAN
  /\ Image("Clog") = SUBSET TxnId
  /\ Image("Left") = SUBSET Row
  /\ Image("Right") = SUBSET Row
  BY DEF Image, Leaf

\* What the process reads of a page is an image of that page (with_page).
LEMMA PageType == ASSUME TypeOK, NEW p \in Cacheable PROVE Page(p) \in Image(p)
  BY DEF TypeOK, Page, PageId

\* The cache as it has to be for every operation on it.
IsCache(c) ==
  /\ DOMAIN c \subseteq Cacheable
  /\ \A p \in DOMAIN c : c[p] \in [page: Image(p), dirty_vs_journal: BOOLEAN]

IsJournal(j) == DOMAIN j \subseteq PageId /\ \A p \in DOMAIN j : j[p] \in Image(p)

\* Writing images of their kind leaves a cache (with_page_mut).
LEMMA TouchedType ==
  ASSUME TypeOK, NEW images, DOMAIN images \subseteq Cacheable,
         \A p \in DOMAIN images : images[p] \in Image(p)
  PROVE  IsCache(Touched(images))
  BY DEF IsCache, TypeOK, Touched, Over

\* A commit bit is an image of the bitmap's page (mark_committed).
LEMMA MarkedType == ASSUME TypeOK, NEW t \in active PROVE IsCache(Marked(t))
  <1>1. Page("Clog") \cup {t} \in Image("Clog")
    BY PageType, Images DEF TypeOK, Cacheable
  <1> QED
    BY <1>1, TouchedType DEF Marked, Cacheable

\* What a flush appends are images, and so is what it leaves of the cache.
LEMMA GroupType ==
  ASSUME TypeOK, NEW c, IsCache(c)
  PROVE  /\ IsJournal(Group(c)) /\ IsCache(Seen(c))
         /\ \A part \in Parts(Group(c)) : IsJournal(part)
         /\ \A S : IsCache(Over(c, Only(Seen(c), S))) /\ IsCache(Only(Seen(c), S)) /\ IsCache(Only(c, S))
  <1>1. IsJournal(Group(c))
    BY DEF IsJournal, IsCache, Group, TypeOK, PageId
  <1>2. IsCache(Seen(c))
    BY DEF IsCache, Seen
  <1>3. \A S : IsJournal(Only(Group(c), S))
    BY <1>1 DEF IsJournal, Only
  <1>4. \A S : IsCache(Over(c, Only(Seen(c), S))) /\ IsCache(Only(Seen(c), S)) /\ IsCache(Only(c, S))
    BY <1>2 DEF IsCache, Only, Over
  <1> QED
    BY <1>1, <1>2, <1>3, <1>4 DEF Parts

\* Appending images to the journal leaves one (Journal::append).
LEMMA AppendedType ==
  ASSUME TypeOK, NEW images, IsJournal(images) PROVE IsJournal(Appended(images))
  BY DEF IsJournal, Appended, Over, TypeOK

\* Every step keeps the types.
LEMMA TypeStep == TypeOK /\ [Next]_vars => TypeOK'
  <1> SUFFICES ASSUME TypeOK, [Next]_vars PROVE TypeOK'
    OBVIOUS
  <1>0. IsCache(cache) /\ IsJournal(journal) /\ IsCache(None) /\ IsJournal(None)
    BY DEF TypeOK, IsCache, IsJournal, None
  <1>a. Page("Header") \in 1 .. MaxRow + 1 /\ Page("Parent") \in BOOLEAN
        /\ Page("Left") \in SUBSET Row /\ Page("Right") \in SUBSET Row
    <2>1. /\ Page("Header") \in Image("Header") /\ Page("Parent") \in Image("Parent")
          /\ Page("Left") \in Image("Left") /\ Page("Right") \in Image("Right")
      BY PageType, Zenon DEF Cacheable, Leaf
    <2> QED
      BY <2>1, Images
  <1> USE JournalAssumption DEF TypeOK, disk, memory, history
  <1>1. CASE Begin
    <2>1. meta \in TxnId /\ meta + 1 \in Image("Meta")
      BY <1>1, Images DEF Begin, TxnId
    <2> QED
      BY <1>1, <2>1 DEF Begin
  <1>2. ASSUME NEW t \in active, Insert(t) PROVE TypeOK'
    <2>1. Page("Header") + 1 \in Image("Header")
      BY <1>2, <1>a, Images, JournalAssumption DEF Insert
    <2>2. IsCache(cache')
      BY <1>2, <2>1, TouchedType DEF Insert, Cacheable
    <2>3. op' \in [stage: {"leaf", "parent"}, row: Row]
      BY <1>2, <1>a, JournalAssumption DEF Insert, Row
    <2> QED
      BY <1>2, <2>2, <2>3 DEF Insert, IsCache
  <1>3. CASE FillLeaf
    <2>1. op.row \in Row
      BY <1>3 DEF FillLeaf, Idle
    <2>2. PICK leaf \in Leaf : cache' = Touched([p \in {leaf} |-> Page(p) \cup {op.row}])
      BY <1>3 DEF FillLeaf, Leaf
    <2>3. Page(leaf) \cup {op.row} \in Image(leaf)
      BY <1>a, <2>1, Images DEF Leaf
    <2>4. IsCache(cache')
      BY <2>2, <2>3, TouchedType DEF Cacheable
    <2> QED
      BY <1>3, <2>1, <2>4 DEF FillLeaf, IsCache
  <1>4. ASSUME NEW k \in 1 .. MaxRow, SplitLeaf(k) PROVE TypeOK'
    <2>1. op \in [stage: {"leaf", "parent"}, row: Row]
      BY <1>4 DEF SplitLeaf, Idle
    <2> DEFINE half(p) == {r \in Page("Left") \cup {op.row} : IF p = "Left" THEN r.id < k ELSE r.id >= k}
    <2>2. \A p \in Leaf : half(p) \in Image(p)
      BY <1>a, <2>1, Images DEF Leaf
    <2>3. cache' = Touched([p \in Leaf |-> half(p)])
      BY <1>4 DEF SplitLeaf
    <2>4. IsCache(cache')
      BY <2>2, <2>3, TouchedType DEF Cacheable
    <2> QED
      BY <1>4, <2>1, <2>4 DEF SplitLeaf, IsCache
  <1>5. CASE LinkParent
    <2>1. IsCache(cache')
      BY <1>5, TouchedType, Images DEF LinkParent, Cacheable
    <2> QED
      BY <1>5, <2>1 DEF LinkParent, IsCache
  <1>6. ASSUME NEW t \in active, Commit(t) PROVE TypeOK'
    <2>1. IsCache(cache') /\ IsJournal(journal')
      BY <1>6, MarkedType, GroupType, AppendedType DEF Commit, Journalled
    <2> QED
      BY <1>6, <2>1 DEF Commit, Journalled, IsCache, IsJournal
  <1>7. ASSUME NEW t \in active, Abort(t) PROVE TypeOK'
    BY <1>7 DEF Abort
  <1>8. ASSUME NEW p \in Cacheable, Evict(p) \/ EvictLoses(p) PROVE TypeOK'
    <2>1. IsCache(cache') /\ IsJournal(journal')
      BY <1>0, <1>8, GroupType, AppendedType DEF Evict, EvictLoses, Journalled
    <2>2. DOMAIN file' = PageId /\ \A q \in PageId : file'[q] \in Image(q)
      BY <1>8 DEF Evict, EvictLoses, PageId
    <2>3. meta_dirty_vs_journal' \in BOOLEAN /\ whole' \in BOOLEAN /\ torn' \in BOOLEAN
          /\ faults' \in 0 .. MaxFaults /\ op' \in {op, Idle}
          /\ UNCHANGED <<up, broken, meta, active, acked, wrote, failed, exposed>>
      <3>1. CASE Evict(p)
        BY <3>1 DEF Evict, Journalled
      <3>2. CASE EvictLoses(p)
        <4>1. faults' \in 0 .. MaxFaults
          BY <3>2 DEF EvictLoses, Fault
        <4>2. meta_dirty_vs_journal' \in BOOLEAN /\ whole' \in BOOLEAN
          BY <3>2 DEF EvictLoses, Journalled
        <4> QED
          BY <3>2, <4>1, <4>2 DEF EvictLoses, Fault
      <3> QED
        BY <1>8, <3>1, <3>2
    <2> QED
      BY <2>1, <2>2, <2>3 DEF IsCache, IsJournal
  <1>9. CASE Checkpoint
    <2>1. \A q \in DOMAIN Flushed : q \in PageId /\ Flushed[q] \in Image(q)
      BY DEF Flushed, PageId
    <2>2. DOMAIN file' = PageId /\ \A q \in PageId : file'[q] \in Image(q)
      BY <1>9, <2>1 DEF Checkpoint, Over
    <2> QED
      BY <1>0, <1>9, <2>2 DEF Checkpoint, IsCache, IsJournal
  <1>10. ASSUME NEW c, IsCache(c), GroupFails(c)
         PROVE IsCache(cache') /\ IsJournal(journal') /\ meta_dirty_vs_journal' \in BOOLEAN
               /\ broken' \in BOOLEAN /\ {failed', whole'} \subseteq BOOLEAN
    BY <1>10, GroupType, AppendedType DEF GroupFails, Leaves
  <1>11. ASSUME NEW t \in active, CommitFails(t) PROVE TypeOK'
    <2>1. IsCache(Marked(t))
      BY MarkedType
    <2>2. IsCache(cache') /\ IsJournal(journal') /\ meta_dirty_vs_journal' \in BOOLEAN
          /\ broken' \in BOOLEAN /\ {failed', whole'} \subseteq BOOLEAN
      BY <1>10, <1>11, <2>1, GroupType, AppendedType DEF CommitFails, Leaves
    <2> QED
      BY <1>11, <2>2 DEF CommitFails, Fault, IsCache, IsJournal
  <1>12. ASSUME NEW t \in active, AbortFails(t) PROVE TypeOK'
    BY <1>12 DEF AbortFails, Fault, Leaves
  <1>13. CASE EvictFails
    BY <1>0, <1>10, <1>13 DEF EvictFails, Fault, IsCache, IsJournal
  <1>14. ASSUME NEW S, S \subseteq DOMAIN cache \cup {"Meta"}
         PROVE  DOMAIN Over(file, Only(Flushed, S)) = PageId
                /\ \A q \in PageId : Over(file, Only(Flushed, S))[q] \in Image(q)
    BY DEF Over, Only, Flushed, PageId
  <1>15. ASSUME NEW S, S \subseteq DOMAIN cache \cup {"Meta"}, CheckpointFails(S) PROVE TypeOK'
    <2>1. IsCache(cache')
      BY <1>0, <1>15, GroupType DEF CheckpointFails
    <2>2. DOMAIN file' = PageId /\ \A q \in PageId : file'[q] \in Image(q)
      BY <1>14, <1>15 DEF CheckpointFails
    <2>3. meta_dirty_vs_journal' \in BOOLEAN /\ whole' \in BOOLEAN /\ faults' \in 0 .. MaxFaults
          /\ broken' \in BOOLEAN /\ failed' \in BOOLEAN
          /\ UNCHANGED <<up, journal, meta, active, op, acked, wrote, torn, exposed>>
      BY <1>15 DEF CheckpointFails, Fault, Leaves
    <2> QED
      BY <2>1, <2>2, <2>3 DEF IsCache
  <1>16. ASSUME Die PROVE IsCache(cache') /\ meta' \in Image("Meta")
    BY <1>0, <1>16, Images, JournalAssumption DEF Die
  <1>17. CASE Crash
    BY <1>16, <1>17 DEF Crash, Die, IsCache
  <1>18. ASSUME NEW c, IsCache(c), NEW part, CrashInGroup(c, part) PROVE TypeOK'
    <2>1. IsJournal(journal')
      BY <1>18, GroupType, AppendedType DEF CrashInGroup
    <2> QED
      BY <1>16, <1>18, <2>1 DEF CrashInGroup, Die, IsCache, IsJournal
  <1>19. CASE CrashInEvict
    BY <1>0, <1>18, <1>19 DEF CrashInEvict
  <1>20. ASSUME NEW t \in active, CrashInCommit(t) PROVE TypeOK'
    BY <1>18, <1>20, MarkedType DEF CrashInCommit
  <1>21. ASSUME NEW S, S \subseteq DOMAIN cache \cup {"Meta"}, CrashInCheckpoint(S) PROVE TypeOK'
    BY <1>14, <1>16, <1>21 DEF CrashInCheckpoint, Die, IsCache
  <1>22. CASE Recover
    <2>1. DOMAIN file' = PageId /\ \A q \in PageId : file'[q] \in Image(q)
      BY <1>22 DEF Recover, Over
    <2> QED
      BY <1>0, <1>22, <2>1 DEF Recover, IsJournal, PageId
  <1>23. ASSUME NEW p \in DOMAIN journal, CrashInRecovery(p) PROVE TypeOK'
    BY <1>23 DEF CrashInRecovery
  <1>24. CASE UNCHANGED vars
    BY <1>24 DEF vars
  <1>25. DOMAIN Flushed = DOMAIN cache \cup {"Meta"}
    BY DEF Flushed
  <1> QED
    BY <1>1, <1>2, <1>3, <1>4, <1>5, <1>6, <1>7, <1>8, <1>9, <1>11, <1>12, <1>13, <1>15, <1>17,
       <1>19, <1>20, <1>21, <1>22, <1>23, <1>24, <1>25 DEF Next
-----------------------------------------------------------------------------
(* The two states *)

\* Reading a page is looking it up in Current, which has an image of every page.
LEMMA CurrentPages ==
  ASSUME TypeOK
  PROVE  /\ \A p \in Cacheable : Current[p] = Page(p)
         /\ Current["Meta"] = meta
         /\ \A p \in PageId : Current[p] \in Image(p)
  BY DEF TypeOK, Current, View, Page, PageId, Cacheable, Leaf

\* So does Recovered (Journal::replay).
LEMMA RecoveredPages ==
  ASSUME TypeOK
  PROVE  /\ Recovered = [p \in PageId |-> IF p \in DOMAIN journal THEN journal[p] ELSE file[p]]
         /\ \A p \in PageId : Recovered[p] \in Image(p)
  BY DEF TypeOK, Recovered, Over

\* Writing images changes those pages, as the process sees them (with_page_mut).
LEMMA TouchedView ==
  ASSUME TypeOK, NEW images, DOMAIN images \subseteq Cacheable
  PROVE  View(Touched(images)) =
           [p \in PageId |-> IF p \in DOMAIN images THEN images[p] ELSE Current[p]]
  BY DEF TypeOK, View, Touched, Over, Current, Cacheable, Leaf

\* Every page that Recovered has wrong is one the next flush appends.
Unseen(c) ==
  /\ \A p \in Cacheable :
       Recovered[p] = View(c)[p] \/ (p \in DOMAIN c /\ c[p].dirty_vs_journal)
  /\ Recovered["Meta"] = meta \/ meta_dirty_vs_journal

\* Writing pages of the cache keeps it coherent with the journal.
LEMMA TouchedUnseen ==
  ASSUME TypeOK, Coherent, NEW images, DOMAIN images \subseteq Cacheable
  PROVE  Unseen(Touched(images))
  <1>1. ASSUME NEW p \in Cacheable
        PROVE  \/ Recovered[p] = View(Touched(images))[p]
               \/ p \in DOMAIN Touched(images) /\ Touched(images)[p].dirty_vs_journal
    <2>1. CASE p \in DOMAIN images
      BY <2>1 DEF Touched, Over
    <2>2. CASE p \notin DOMAIN images
      <3>1. View(Touched(images))[p] = Current[p]
        BY <2>2, TouchedView DEF PageId
      <3>2. p \in DOMAIN cache => p \in DOMAIN Touched(images) /\ Touched(images)[p] = cache[p]
        BY <2>2 DEF Touched, Over
      <3> QED
        BY <3>1, <3>2 DEF Coherent
    <2> QED
      BY <2>1, <2>2
  <1> QED
    BY <1>1 DEF Unseen, Coherent

\* Once journal_dirty_pages has gone through, what would be recovered is what
\* the process sees.
LEMMA GroupCompletes ==
  ASSUME TypeOK, NEW c, IsCache(c), Unseen(c)
  PROVE  Over(file, Over(journal, Group(c))) = View(c)
  <1>1. DOMAIN Over(file, Over(journal, Group(c))) = PageId
    BY DEF TypeOK, IsCache, Over, Group, PageId
  <1>2. ASSUME NEW p \in PageId PROVE Over(file, Over(journal, Group(c)))[p] = View(c)[p]
    <2>1. CASE p \in DOMAIN Group(c)
      BY <2>1 DEF Over, Group, View, IsCache, Cacheable, Leaf
    <2>2. CASE p \notin DOMAIN Group(c)
      <3>1. Over(file, Over(journal, Group(c)))[p] = Recovered[p]
        BY <2>2 DEF Over, Recovered, TypeOK
      <3>2. CASE p = "Meta"
        BY <2>2, <3>1, <3>2 DEF Group, Unseen, View
      <3>3. CASE p # "Meta"
        <4>1. ~(p \in DOMAIN c /\ c[p].dirty_vs_journal)
          BY <2>2 DEF Group
        <4> QED
          BY <3>1, <3>3, <4>1 DEF Unseen, PageId
      <3> QED
        BY <3>2, <3>3
    <2> QED
      BY <2>1, <2>2
  <1> QED
    BY <1>1, <1>2 DEF Over, View
-----------------------------------------------------------------------------
(* Steps in memory *)

Typed(v) ==
  /\ v["Left"] \subseteq Row /\ v["Right"] \subseteq Row
  /\ v["Clog"] \subseteq TxnId
  /\ v["Meta"] \in Nat /\ v["Header"] \in Nat
  /\ v["Parent"] \in BOOLEAN

\* Both states have their types.
LEMMA StatesTyped == ASSUME TypeOK PROVE Typed(Current) /\ Typed(Recovered) /\ meta \in Nat
  <1>1. ASSUME NEW v, \A p \in PageId : v[p] \in Image(p) PROVE Typed(v)
    <2>1. /\ v["Left"] \in Image("Left") /\ v["Right"] \in Image("Right")
          /\ v["Clog"] \in Image("Clog") /\ v["Meta"] \in Image("Meta")
          /\ v["Header"] \in Image("Header") /\ v["Parent"] \in Image("Parent")
      BY <1>1, Zenon DEF PageId, Cacheable, Leaf
    <2> QED
      BY <2>1, Images, JournalAssumption DEF Typed
  <1> QED
    BY <1>1, CurrentPages, RecoveredPages DEF Typed

\* A step that leaves the files alone leaves what would be recovered alone.
LEMMA DiskUnchanged == UNCHANGED disk => Recovered' = Recovered
  BY DEF disk, Recovered, Over

\* What would be recovered stays sound as transactions begin and rows are
\* written: their ids are not among the committed ones on disk.
LEMMA RecoverableKept ==
  ASSUME TypeOK, Recoverable, up, Recovered' = Recovered, acked' = acked, meta' \in Nat, meta <= meta',
         \A t \in active' : t \in active \/ t >= meta,
         \A r \in wrote' : r \in wrote \/ r.txn \in active
  PROVE  Recoverable'
  <1>2. Typed(Recovered) /\ meta \in Nat
    BY StatesTyped
  <1>3. Sound(Recovered, Recovered["Parent"], acked', wrote')
    BY DEF Recoverable, Sound
  <1>4. Recovered["Meta"] <= meta'
    BY <1>2 DEF Recoverable, Typed
  <1>5. \A t \in Recovered["Clog"] : t \in Nat /\ t < meta
    BY <1>2 DEF Recoverable, Typed, Sound, TxnId
  <1>6. active' \cap Recovered["Clog"] = {}
    BY <1>2, <1>5 DEF Recoverable
  <1> QED
    BY <1>3, <1>4, <1>6 DEF Recoverable

\* Beginning a transaction hands out an id no page has (begin).
LEMMA BeginSafe == ASSUME TypeOK, FlagsOK, Safe, Begin PROVE Safe'
  <1>1. up /\ Running /\ Typed(Current) /\ meta \in Nat
    BY StatesTyped DEF Safe, Begin
  <1>2. /\ \A p \in Cacheable : Current'[p] = Current[p]
        /\ Current'["Meta"] = meta + 1 /\ meta' = meta + 1
        /\ op' = op /\ Current["Meta"] = meta /\ Recovered' = Recovered
        /\ acked' = acked /\ wrote' = wrote /\ cache' = cache /\ failed' = failed
    BY DiskUnchanged DEF Begin, Current, View, PageId, Cacheable, Leaf, disk, history
  <1>3. /\ Current'["Left"] = Current["Left"] /\ Current'["Right"] = Current["Right"]
        /\ Current'["Clog"] = Current["Clog"] /\ Current'["Header"] = Current["Header"]
        /\ Current'["Parent"] = Current["Parent"] /\ Linked' = Linked
    BY <1>2 DEF Linked, Cacheable, Leaf
  <1>4. Sound(Current, Linked, acked, wrote)'
    BY <1>1, <1>2, <1>3 DEF Running, Sound, Rows, Typed, Row, TxnId
  <1>5. \A r \in wrote' : r.txn < meta' /\ (r.txn \in active' => r \in Rows(Current', Linked'))
    BY <1>1, <1>2, <1>3 DEF Running, Rows, Begin, TypeOK, Row, TxnId
  <1>6. \A t \in active' : t < meta' /\ t \notin Current'["Clog"]
    BY <1>1, <1>2, <1>3 DEF Running, Sound, Begin, Typed, TypeOK, TxnId
  <1>7. Running'
    BY <1>1, <1>2, <1>3, <1>4, <1>5, <1>6 DEF Running, Begin
  <1>8. Coherent => Coherent'
    BY <1>2 DEF Coherent, Begin
  <1>9. Recoverable => Recoverable'
    BY <1>1, <1>2, RecoverableKept DEF Begin
  <1> QED
    BY <1>1, <1>2, <1>7, <1>8, <1>9 DEF Safe, Begin, history

\* What changes when pages of the cache are written and nothing else
\* (with_page_mut): the process sees the new pages, and the rest follows from
\* what it sees.
LEMMA TouchStep ==
  ASSUME TypeOK, Safe, up, NEW images, DOMAIN images \subseteq Cacheable,
         cache' = Touched(images), UNCHANGED <<up, disk, meta, active, acked, failed, whole>>,
         meta_dirty_vs_journal' \in {TRUE, meta_dirty_vs_journal},
         \A r \in wrote' : r \in wrote \/ r.txn \in active
  PROVE  /\ Current' = [p \in PageId |-> IF p \in DOMAIN images THEN images[p] ELSE Current[p]]
         /\ Running' => Safe'
  <1>1. Current' = View(Touched(images))
    BY DEF Current, View, disk
  <1>2. Current' = [p \in PageId |-> IF p \in DOMAIN images THEN images[p] ELSE Current[p]]
    BY <1>1, TouchedView
  <1>3. Coherent => Coherent'
    BY <1>1, TouchedUnseen, DiskUnchanged DEF Coherent, Unseen
  <1>4. Recoverable => Recoverable'
    BY RecoverableKept, StatesTyped, DiskUnchanged
  <1> QED
    BY <1>2, <1>3, <1>4 DEF Safe

\* A new row id is above the ids on the leaves (alloc_row_id).
LEMMA InsertSafe == ASSUME TypeOK, Safe, NEW t \in active, Insert(t) PROVE Safe'
  <1> DEFINE images == [p \in {"Header"} |-> Page(p) + 1]
  <1>1. up /\ op = Idle /\ Running /\ Typed(Current) /\ meta \in Nat
    BY StatesTyped DEF Safe, Insert
  <1>2. /\ Current' = [p \in PageId |-> IF p \in DOMAIN images THEN images[p] ELSE Current[p]]
        /\ Running' => Safe'
    <2>1. cache' = Touched(images) /\ DOMAIN images \subseteq Cacheable
      BY DEF Insert, Cacheable
    <2> HIDE DEF images
    <2> QED
      BY <1>1, <2>1, TouchStep DEF Insert, history
  <1>3. /\ Current'["Left"] = Current["Left"] /\ Current'["Right"] = Current["Right"]
        /\ Current'["Clog"] = Current["Clog"] /\ Current'["Header"] = Current["Header"] + 1
        /\ Current'["Parent"] = Current["Parent"] /\ Current'["Meta"] = Current["Meta"]
        /\ Current["Header"] = Page("Header")
    BY <1>2, CurrentPages DEF PageId, Cacheable, Leaf
  <1>4. op'.row.txn = t /\ op'.row.id = Current["Header"] /\ op'.stage = "leaf" /\ Linked' = Linked
    BY <1>1, <1>3 DEF Insert, Linked, Idle
  <1>5. Sound(Current, Linked, acked, wrote)'
    BY <1>1, <1>3, <1>4 DEF Running, Sound, Rows, Typed, Row, Insert, history
  <1>6. Running'
    BY <1>1, <1>3, <1>4, <1>5 DEF Running, Rows, Insert, history, Typed
  <1> QED
    BY <1>2, <1>6

\* The row goes to the leaf that new rows are read from (upsert).
LEMMA FillLeafSafe == ASSUME TypeOK, Safe, FillLeaf PROVE Safe'
  <1>1. up /\ op.stage = "leaf" /\ Running /\ Typed(Current) /\ op.row \in Row
        /\ op # Idle /\ meta \in Nat
    BY StatesTyped DEF Safe, FillLeaf, TypeOK, Idle
  <1> DEFINE leaf == IF Page("Parent") THEN "Right" ELSE "Left"
             images == [p \in {leaf} |-> Page(p) \cup {op.row}]
  <1>2. /\ Current' = [p \in PageId |-> IF p \in DOMAIN images THEN images[p] ELSE Current[p]]
        /\ Running' => Safe'
    <2>1. cache' = Touched(images) /\ DOMAIN images \subseteq Cacheable
      BY DEF FillLeaf, Cacheable, Leaf
    <2>2. \A r \in wrote' : r \in wrote \/ r.txn \in active
      BY <1>1 DEF FillLeaf, Running
    <2> HIDE DEF images
    <2> QED
      BY <1>1, <2>1, <2>2, TouchStep DEF FillLeaf
  <1>3. /\ Current'["Left"] = (IF Current["Parent"] THEN Current["Left"] ELSE Current["Left"] \cup {op.row})
        /\ Current'["Right"] = (IF Current["Parent"] THEN Current["Right"] \cup {op.row} ELSE Current["Right"])
        /\ Current'["Clog"] = Current["Clog"] /\ Current'["Header"] = Current["Header"]
        /\ Current'["Parent"] = Current["Parent"] /\ Current'["Meta"] = Current["Meta"]
    BY <1>2, CurrentPages DEF PageId, Cacheable, Leaf
  <1>4. (Linked <=> Current["Parent"]) /\ (Linked' <=> Current["Parent"]) /\ op' = Idle
    BY <1>1, <1>3 DEF FillLeaf, Linked, Idle
  <1>5. Rows(Current', Linked') = Rows(Current, Linked) \cup {op.row}
    BY <1>3, <1>4 DEF Rows
  <1>6. op.row.txn < meta /\ op.row.txn \notin Current["Clog"] /\ op.row.id < Current["Header"]
        /\ Current["Meta"] = meta
    BY <1>1, CurrentPages DEF Running
  <1>7. Sound(Current, Linked, acked, wrote)'
    BY <1>1, <1>3, <1>5, <1>6 DEF Running, Sound, FillLeaf
  <1>8. Running'
    BY <1>1, <1>3, <1>4, <1>5, <1>6, <1>7 DEF Running, FillLeaf
  <1> QED
    BY <1>2, <1>8

\* A split keeps every row on one of the two leaves, and the second of them
\* will be linked (split_leaf).
LEMMA SplitLeafSafe == ASSUME TypeOK, Safe, NEW k \in 1 .. MaxRow, SplitLeaf(k) PROVE Safe'
  <1>1. up /\ op.stage = "leaf" /\ Running /\ Typed(Current) /\ op.row \in Row
        /\ op \in [stage: {"leaf", "parent"}, row: Row] /\ op # Idle /\ meta \in Nat /\ k \in Nat
    BY StatesTyped, JournalAssumption DEF Safe, SplitLeaf, TypeOK, Idle
  <1> DEFINE items == Page("Left") \cup {op.row}
             images == [p \in Leaf |-> {r \in items : IF p = "Left" THEN r.id < k ELSE r.id >= k}]
  <1>2. /\ Current' = [p \in PageId |-> IF p \in DOMAIN images THEN images[p] ELSE Current[p]]
        /\ Running' => Safe'
    <2>1. cache' = Touched(images) /\ DOMAIN images \subseteq Cacheable
      BY DEF SplitLeaf, Cacheable
    <2>2. \A r \in wrote' : r \in wrote \/ r.txn \in active
      BY <1>1 DEF SplitLeaf, Running
    <2> HIDE DEF images
    <2> QED
      BY <1>1, <2>1, <2>2, TouchStep DEF SplitLeaf
  <1>3. /\ Current'["Left"] = {r \in Current["Left"] \cup {op.row} : r.id < k}
        /\ Current'["Right"] = {r \in Current["Left"] \cup {op.row} : r.id >= k}
        /\ Current'["Clog"] = Current["Clog"] /\ Current'["Header"] = Current["Header"]
        /\ Current'["Parent"] = Current["Parent"] /\ Current'["Meta"] = Current["Meta"]
    BY <1>2, CurrentPages DEF PageId, Cacheable, Leaf
  <1>4. ~Linked /\ Linked' /\ op'.stage = "parent" /\ op'.row = op.row
    BY <1>1, CurrentPages DEF SplitLeaf, Linked, Cacheable
  <1>5. Rows(Current', Linked') = Rows(Current, Linked) \cup {op.row}
    BY <1>1, <1>3, <1>4 DEF Rows, Typed, Row
  <1>6. op.row.txn < meta /\ op.row.txn \notin Current["Clog"] /\ op.row.id < Current["Header"]
        /\ Current["Meta"] = meta
    BY <1>1, CurrentPages DEF Running
  <1>7. Sound(Current, Linked, acked, wrote)'
    BY <1>1, <1>3, <1>5, <1>6 DEF Running, Sound, SplitLeaf
  <1>8. Running'
    BY <1>1, <1>3, <1>4, <1>5, <1>6, <1>7 DEF Running, SplitLeaf
  <1> QED
    BY <1>2, <1>8

\* The link makes reachable what the split counted on (propagate).
LEMMA LinkParentSafe == ASSUME TypeOK, Safe, LinkParent PROVE Safe'
  <1>1. up /\ op.stage = "parent" /\ Running
    BY DEF Safe, LinkParent
  <1> DEFINE images == [p \in {"Parent"} |-> TRUE]
  <1>2. /\ Current' = [p \in PageId |-> IF p \in DOMAIN images THEN images[p] ELSE Current[p]]
        /\ Running' => Safe'
    <2>1. cache' = Touched(images) /\ DOMAIN images \subseteq Cacheable
      BY DEF LinkParent, Cacheable
    <2> HIDE DEF images
    <2> QED
      BY <1>1, <2>1, TouchStep DEF LinkParent, history
  <1>3. /\ Current'["Left"] = Current["Left"] /\ Current'["Right"] = Current["Right"]
        /\ Current'["Clog"] = Current["Clog"] /\ Current'["Header"] = Current["Header"]
        /\ Current'["Parent"] = TRUE /\ Current'["Meta"] = Current["Meta"]
    BY <1>2 DEF PageId, Cacheable, Leaf
  <1>4. Linked /\ Linked' /\ Rows(Current', TRUE) = Rows(Current, TRUE)
    BY <1>1, <1>3 DEF Linked, Rows
  <1>5. Running'
    BY <1>1, <1>3, <1>4 DEF Running, Sound, Rows, LinkParent, history
  <1> QED
    BY <1>2, <1>5

\* An aborted transaction leaves the ids in use to fewer.
LEMMA AbortSafe == ASSUME TypeOK, Safe, NEW t \in active, Abort(t) PROVE Safe'
  <1>1. up /\ op = Idle /\ Running /\ meta \in Nat
    BY StatesTyped DEF Safe, Abort
  <1>2. Current' = Current /\ Linked' = Linked /\ Recovered' = Recovered
    BY DiskUnchanged DEF Abort, Current, View, Linked, disk
  <1>3. Running'
    BY <1>1, <1>2 DEF Running, Abort, history
  <1>4. Coherent => Coherent'
    BY <1>2 DEF Coherent, Abort
  <1>5. Recoverable => Recoverable'
    BY <1>1, <1>2, RecoverableKept DEF Abort, history
  <1> QED
    BY <1>1, <1>3, <1>4, <1>5 DEF Safe, Abort, history
-----------------------------------------------------------------------------
(* Steps that write to the journal *)

\* The process does not see whether the journal has a page.
LEMMA SeenView ==
  ASSUME NEW c, IsCache(c)
  PROVE  View(Seen(c)) = View(c) /\ \A S : View(Over(c, Only(Seen(c), S))) = View(c)
  <1>0. \A p \in DOMAIN c : Seen(c)[p].page = c[p].page
    BY DEF Seen, IsCache
  <1>1. View(Seen(c)) = View(c)
    BY <1>0 DEF View, Seen
  <1>2. ASSUME NEW S PROVE View(Over(c, Only(Seen(c), S))) = View(c)
    <2>1. DOMAIN Over(c, Only(Seen(c), S)) = DOMAIN c
          /\ \A p \in DOMAIN c : Over(c, Only(Seen(c), S))[p].page = c[p].page
      BY <1>0 DEF Over, Only, Seen
    <2> QED
      BY <2>1 DEF View
  <1> QED
    BY <1>1, <1>2

\* The commit bit is all that the process sees of mark_committed.
LEMMA MarkedView ==
  ASSUME TypeOK, NEW t
  PROVE  LET v == View(Marked(t))
         IN  /\ v["Left"] = Current["Left"] /\ v["Right"] = Current["Right"]
             /\ v["Clog"] = Current["Clog"] \cup {t} /\ v["Header"] = Current["Header"]
             /\ v["Parent"] = Current["Parent"] /\ v["Meta"] = meta /\ Current["Meta"] = meta
  <1> DEFINE images == [p \in {"Clog"} |-> Page(p) \cup {t}]
  <1>1. View(Marked(t)) = [p \in PageId |-> IF p \in DOMAIN images THEN images[p] ELSE Current[p]]
    BY TouchedView DEF Marked, Cacheable
  <1> QED
    BY <1>1, CurrentPages DEF PageId, Cacheable, Leaf

\* A state with the commit bit of t is sound, and so is it once the rows of t
\* count as acknowledged: they are all there (commit).
LEMMA MarkedSound ==
  ASSUME TypeOK, Running, op = Idle, NEW t \in active
  PROVE  LET v == View(Marked(t))
         IN  /\ Sound(v, v["Parent"], acked, wrote)
             /\ Sound(v, v["Parent"], acked \cup {r \in wrote : r.txn = t}, wrote)
             /\ \A r \in wrote : r.txn \in active => r \in Rows(v, v["Parent"])
             /\ \A u \in active \ {t} : u \notin v["Clog"]
             /\ v["Meta"] = meta
  <1>1. Typed(Current) /\ meta \in Nat /\ (Linked <=> Current["Parent"])
    BY StatesTyped DEF Linked, Idle
  <1>2. t < meta /\ \A r \in wrote : r.txn \in active => r \in Rows(Current, Linked)
    BY DEF Running
  <1>3. Rows(View(Marked(t)), View(Marked(t))["Parent"]) = Rows(Current, Linked)
    BY <1>1, MarkedView DEF Rows
  <1>4. /\ Sound(View(Marked(t)), View(Marked(t))["Parent"], acked, wrote)
        /\ Sound(View(Marked(t)), View(Marked(t))["Parent"], acked \cup {r \in wrote : r.txn = t}, wrote)
    BY <1>2, <1>3, MarkedView DEF Running, Sound
  <1> QED
    BY <1>2, <1>3, <1>4, MarkedView DEF Running

\* A whole group in a sound journal brings the disk to what the process sees.
LEMMA Flush ==
  ASSUME TypeOK, FlagsOK, NEW c, IsCache(c), Unseen(c), ~failed
  PROVE  Over(file, Appended(Group(c))) = View(c)
  BY GroupCompletes DEF FlagsOK, Appended

\* A coherent cache is one whose unseen pages the next flush appends.
LEMMA CoherentUnseen == Coherent <=> Unseen(cache)
  BY DEF Coherent, Unseen, Current

\* The state of the process is sound, as a state to recover to.
LEMMA CurrentSound ==
  ASSUME TypeOK, Running, op.stage # "parent"
  PROVE  Sound(Current, Current["Parent"], acked, wrote) /\ active \cap Current["Clog"] = {}
         /\ Current["Meta"] = meta /\ (Linked <=> Current["Parent"])
  <1>1. Linked <=> Current["Parent"]
    BY StatesTyped DEF Linked, Typed
  <1>2. Linked = Current["Parent"]
    BY <1>1, StatesTyped DEF Linked, Typed
  <1> QED
    BY <1>1, <1>2, CurrentPages DEF Running

\* A commit that is acknowledged is on disk unless a write failed before, and
\* in the process's own pages in any case.
LEMMA CommitSafe == ASSUME TypeOK, FlagsOK, Safe, NEW t \in active, Commit(t) PROVE Safe'
  <1>1. up /\ op = Idle /\ Running /\ meta \in Nat /\ IsCache(Marked(t))
    BY StatesTyped, MarkedType DEF Safe, Commit
  <1>2. Current' = View(Marked(t))
    <2>1. Current' = View(Seen(Marked(t)))
      BY DEF Current, View, Commit
    <2> QED
      BY <1>1, <2>1, SeenView
  <1>3. ~failed => Recovered' = Current'
    <2>1. ~failed => Unseen(Marked(t))
      BY <1>1, TouchedUnseen DEF Safe, Marked, Cacheable
    <2> QED
      BY <1>1, <1>2, <2>1, Flush DEF Commit, Journalled, Recovered
  <1>4. Linked' = Current'["Parent"]
    <2>1. Current'["Parent"] \in BOOLEAN
      BY <1>2, MarkedView, StatesTyped DEF Typed
    <2> QED
      BY <1>1, <2>1 DEF Linked, Commit, Idle
  <1>5. /\ Sound(Current', Current'["Parent"], acked', wrote')
        /\ \A r \in wrote : r.txn \in active => r \in Rows(Current', Current'["Parent"])
        /\ \A u \in active' : u \notin Current'["Clog"]
        /\ Current'["Meta"] = meta
    BY <1>1, <1>2, MarkedSound DEF Commit
  <1>6. Running'
    BY <1>1, <1>4, <1>5 DEF Running, Commit
  <1>7. ~failed' => Coherent'
    BY <1>3, <1>5 DEF Coherent, Commit
  <1>8. whole' => Recoverable'
    <2>1. whole' => Recovered' = Current'
      BY <1>3 DEF Commit, Journalled
    <2>2. meta' = meta /\ active' \cap Current'["Clog"] = {}
      BY <1>5 DEF Commit
    <2> QED
      BY <1>1, <1>5, <2>1, <2>2 DEF Recoverable
  <1> QED
    BY <1>1, <1>6, <1>7, <1>8 DEF Safe, Commit

\* Eviction writes what the journal already has, and changes no page for the
\* process (evict_if_needed).
LEMMA EvictSafe == ASSUME TypeOK, FlagsOK, Safe, NEW q \in Cacheable, Evict(q) PROVE Safe'
  <1>1. up /\ Running /\ meta \in Nat /\ IsCache(cache) /\ q \in DOMAIN cache
        /\ DOMAIN file = PageId /\ q \in PageId /\ q # "Meta"
    BY StatesTyped DEF Safe, Evict, TypeOK, IsCache, PageId, Cacheable, Leaf
  <1>2. Current' = Current
    <2>1. \A p \in PageId : p # "Meta" =>
            (IF p \in DOMAIN cache' THEN cache'[p].page ELSE file'[p])
              = IF p \in DOMAIN cache THEN cache[p].page ELSE file[p]
      <3>1. \A p \in DOMAIN cache : Seen(cache)[p].page = cache[p].page
        BY <1>1 DEF Seen, IsCache
      <3>2. DOMAIN Seen(cache) = DOMAIN cache
        BY DEF Seen
      <3>3. DOMAIN cache' = DOMAIN cache \ {q}
            /\ \A p \in DOMAIN cache' : cache'[p].page = cache[p].page
        BY <3>1, <3>2 DEF Evict, Only
      <3>4. \A p \in PageId : file'[p] = IF p = q THEN cache[q].page ELSE file[p]
        BY <1>1 DEF Evict
      <3> QED
        BY <1>1, <3>3, <3>4
    <2> QED
      BY <2>1 DEF Current, View, Evict
  <1>3. Linked' = Linked /\ UNCHANGED <<up, meta, active, op, acked, wrote, failed>>
    BY <1>2 DEF Linked, Evict
  <1>4. Running'
    BY <1>1, <1>2, <1>3 DEF Running
  <1>5. CASE cache[q].dirty_vs_journal
    <2>1. ~failed => Recovered' = Current
      <3>1. ASSUME ~failed PROVE Over(file, journal') = Current
        BY <1>1, <1>5, <3>1, Flush, CoherentUnseen DEF Safe, Evict, Journalled, Current
      <3>2. ~failed => q \in DOMAIN journal'
        BY <1>1, <1>5 DEF FlagsOK, Evict, Journalled, Appended, Over, Group
      <3>3. DOMAIN file' = DOMAIN file /\ \A p \in DOMAIN file \ {q} : file'[p] = file[p]
        BY DEF Evict
      <3>4. ~failed => Over(file', journal') = Over(file, journal')
        BY <3>2, <3>3 DEF Over
      <3> QED
        BY <3>1, <3>4 DEF Recovered
    <2>2. ~failed' => Coherent'
      BY <1>2, <1>3, <2>1, CurrentPages DEF Coherent
    <2>3. whole' => ~failed /\ op.stage # "parent"
      BY <1>5 DEF Evict, Journalled
    <2>4. whole' => Recoverable'
      BY <1>1, <1>3, <2>1, <2>3, CurrentSound DEF Recoverable
    <2> QED
      BY <1>1, <1>3, <1>4, <2>2, <2>4 DEF Safe
  <1>6. CASE ~cache[q].dirty_vs_journal
    <2>1. ~failed => Recovered' = Recovered
      <3>1. ~failed => Recovered[q] = cache[q].page
        BY <1>1, <1>6 DEF Safe, Coherent, Current, View
      <3>2. journal' = journal
        BY <1>6 DEF Evict
      <3>3. \A p \in PageId : file'[p] = IF p = q THEN cache[q].page ELSE file[p]
        BY <1>1 DEF Evict
      <3>4. ~failed /\ q \notin DOMAIN journal => file[q] = cache[q].page
        BY <1>1, <3>1 DEF Recovered, Over
      <3>5. DOMAIN file' = PageId
        BY <1>1 DEF Evict
      <3> QED
        BY <1>1, <3>2, <3>3, <3>4, <3>5 DEF Recovered, Over
    <2>2. \A p \in Cacheable : p # q =>
             (p \in DOMAIN cache /\ cache[p].dirty_vs_journal
                => p \in DOMAIN cache' /\ cache'[p].dirty_vs_journal)
      BY <1>6 DEF Evict, Only
    <2>3. ~failed' => Coherent'
      <3>1. ASSUME ~failed PROVE Coherent /\ Recovered' = Recovered
        BY <1>1, <2>1, <3>1 DEF Safe
      <3>2. meta_dirty_vs_journal' = meta_dirty_vs_journal
        BY <1>6 DEF Evict
      <3>3. ~(q \in DOMAIN cache /\ cache[q].dirty_vs_journal)
        BY <1>6
      <3> QED
        BY <1>1, <1>2, <1>3, <2>2, <3>1, <3>2, <3>3 DEF Coherent
    <2>4. whole' => Recoverable'
      <3>1. whole' = whole
        BY <1>6 DEF Evict
      <3>2. whole' => Recoverable /\ Recovered' = Recovered
        BY <2>1, <3>1 DEF Safe, FlagsOK
      <3>3. UNCHANGED <<up, meta, active, acked, wrote>>
        BY <1>3
      <3> QED
        BY <1>1, <3>2, <3>3, RecoverableKept
    <2> QED
      BY <1>1, <1>3, <1>4, <2>3, <2>4 DEF Safe
  <1> QED
    BY <1>5, <1>6

\* A checkpoint makes the file what the process sees, and the journal empty.
LEMMA CheckpointSafe == ASSUME TypeOK, Safe, Checkpoint PROVE Safe'
  <1>1. up /\ op = Idle /\ Running /\ meta \in Nat
    BY StatesTyped DEF Safe, Checkpoint
  <1>2. file' = Current
    BY DEF Checkpoint, Over, Flushed, Current, View, TypeOK, PageId, Cacheable, Leaf
  <1>3. Recovered' = Current
    BY <1>2 DEF Recovered, Over, Checkpoint, None, Current, View
  <1>4. Current' = Current
    BY <1>2 DEF Checkpoint, None, Current, View
  <1>5. Linked' = Linked /\ UNCHANGED <<up, meta, active, op, acked, wrote>>
    BY <1>4 DEF Linked, Checkpoint
  <1>6. Running'
    BY <1>1, <1>4, <1>5 DEF Running
  <1>7. Coherent'
    BY <1>3, <1>4, <1>5, CurrentPages DEF Coherent
  <1>8. Recoverable'
    BY <1>1, <1>3, <1>5, CurrentSound DEF Recoverable, Idle
  <1> QED
    BY <1>1, <1>5, <1>6, <1>7, <1>8 DEF Safe
-----------------------------------------------------------------------------
(* Failed writes *)

\* A flush that fails changes nothing the process sees, and if it does not
\* count as a failure of the journal, nothing of the journal either
\* (journal_dirty_pages).
LEMMA GroupFailsViews ==
  ASSUME TypeOK, FlagsOK, NEW c, IsCache(c), GroupFails(c), file' = file, meta' = meta
  PROVE  /\ Current' = View(c)
         /\ ~failed' => ~failed /\ Recovered' = Recovered /\ (Unseen(c) => Coherent')
         /\ whole' = (whole /\ ~failed')
  <1>1. PICK part \in Parts(Group(c)), p \in DOMAIN Group(c), cut \in BOOLEAN :
          /\ p \notin DOMAIN part
          /\ "Meta" \in DOMAIN Group(c) => ("Meta" \in DOMAIN part <=> p # "Meta")
          /\ journal' = Appended(part)
          /\ cache' = Over(c, Only(Seen(c), DOMAIN part \cup {p}))
          /\ meta_dirty_vs_journal' = (meta_dirty_vs_journal /\ p = "Meta")
          /\ Leaves(cut, p # "Meta")
          /\ whole' = (whole /\ ~failed')
    BY DEF GroupFails
  <1>2. Current' = View(c)
    <2>1. Current' = View(cache')
      BY DEF Current, View
    <2> QED
      BY <1>1, <2>1, SeenView
  <1>3. ASSUME ~failed' PROVE ~failed /\ Recovered' = Recovered /\ (Unseen(c) => Coherent')
    <2>1. ~failed /\ p = "Meta" /\ "Meta" \notin DOMAIN part
      BY <1>1, <1>3 DEF Leaves
    <2>2. DOMAIN part = {}
      BY <1>1, <2>1 DEF Parts, Only
    <2>3. Recovered' = Recovered
      BY <1>1, <2>1, <2>2 DEF Recovered, Appended, Over, FlagsOK
    <2>4. DOMAIN cache' = DOMAIN c /\ \A x \in DOMAIN c : cache'[x] = c[x]
      BY <1>1, <2>1, <2>2 DEF Over, Only, Seen, IsCache, Cacheable, Leaf
    <2> QED
      BY <1>1, <1>2, <2>1, <2>3, <2>4 DEF Unseen, Coherent
  <1> QED
    BY <1>1, <1>2, <1>3

\* A commit that fails leaves the bit set in the cache, where all the rows of
\* the transaction are.
LEMMA CommitFailsSafe == ASSUME TypeOK, FlagsOK, Safe, NEW t \in active, CommitFails(t) PROVE Safe'
  <1>1. up /\ op = Idle /\ Running /\ meta \in Nat /\ IsCache(Marked(t))
    BY StatesTyped, MarkedType DEF Safe, CommitFails, Fault
  <1>2. UNCHANGED <<up, file, meta, op, acked, wrote>> /\ active' = active \ {t}
    BY DEF CommitFails
  <1>3. ~failed => Unseen(Marked(t))
    BY <1>1, TouchedUnseen DEF Safe, Marked, Cacheable
  <1>4. ASSUME Current' = View(Marked(t)) PROVE Running'
    <2>1. Linked' = Current'["Parent"]
      <3>1. Current'["Parent"] \in BOOLEAN
        BY <1>4, MarkedView, StatesTyped DEF Typed
      <3> QED
        BY <1>1, <1>2, <3>1 DEF Linked, Idle
    <2>2. /\ Sound(Current', Current'["Parent"], acked', wrote')
          /\ \A r \in wrote : r.txn \in active => r \in Rows(Current', Current'["Parent"])
          /\ \A u \in active' : u \notin Current'["Clog"]
      BY <1>1, <1>2, <1>4, MarkedSound
    <2> QED
      BY <1>1, <1>2, <2>1, <2>2 DEF Running
  <1>5. CASE GroupFails(Marked(t))
    <2>1. /\ Current' = View(Marked(t))
          /\ ~failed' => ~failed /\ Recovered' = Recovered /\ Coherent'
          /\ whole' = (whole /\ ~failed')
      BY <1>1, <1>2, <1>3, <1>5, GroupFailsViews
    <2>2. whole' => Recoverable'
      <3>1. whole' => Recoverable /\ Recovered' = Recovered
        BY <2>1 DEF Safe
      <3> QED
        BY <1>1, <1>2, <3>1, RecoverableKept
    <2> QED
      BY <1>1, <1>2, <1>4, <2>1, <2>2 DEF Safe
  <1>6. ASSUME NEW cut \in BOOLEAN, journal' = Appended(Group(Marked(t))), cache' = Seen(Marked(t)),
               Leaves(cut, FALSE), whole' = ~failed'
        PROVE  Safe'
    <2>1. Current' = View(Marked(t))
      <3>1. Current' = View(cache')
        BY <1>2 DEF Current, View
      <3> QED
        BY <1>1, <1>6, <3>1, SeenView
    <2>2. ~failed' => ~failed /\ Recovered' = Current'
      <3>1. ~failed' => ~failed
        BY <1>6 DEF Leaves
      <3> QED
        BY <1>1, <1>2, <1>3, <1>6, <2>1, <3>1, Flush DEF Recovered
    <2>3. /\ Sound(Current', Current'["Parent"], acked', wrote')
          /\ active' \cap Current'["Clog"] = {} /\ Current'["Meta"] = meta
      BY <1>1, <1>2, <2>1, MarkedSound
    <2>4. ~failed' => Coherent'
      BY <1>2, <2>2, <2>3 DEF Coherent
    <2>5. whole' => Recoverable'
      <3>1. whole' => Recovered' = Current'
        BY <1>6, <2>2
      <3> QED
        BY <1>1, <1>2, <2>3, <3>1 DEF Recoverable
    <2> QED
      BY <1>1, <1>2, <1>4, <2>1, <2>4, <2>5 DEF Safe
  <1> QED
    BY <1>5, <1>6 DEF CommitFails

\* An abort whose record is not written is an abort all the same.
LEMMA AbortFailsSafe == ASSUME TypeOK, Safe, NEW t \in active, AbortFails(t) PROVE Safe'
  <1>1. up /\ op = Idle /\ Running /\ meta \in Nat
    BY StatesTyped DEF Safe, AbortFails, Fault
  <1>2. Current' = Current /\ Linked' = Linked /\ Recovered' = Recovered /\ active' = active \ {t}
        /\ UNCHANGED <<up, meta, op, acked, wrote, cache, meta_dirty_vs_journal>>
    BY DEF AbortFails, Current, View, Linked, Recovered, Over
  <1>3. (~failed' => ~failed) /\ (whole' => whole)
    BY DEF AbortFails, Leaves
  <1>4. Running'
    BY <1>1, <1>2 DEF Running
  <1>5. Coherent => Coherent'
    BY <1>2 DEF Coherent
  <1>6. Recoverable => Recoverable'
    BY <1>1, <1>2, RecoverableKept
  <1> QED
    BY <1>1, <1>2, <1>3, <1>4, <1>5, <1>6 DEF Safe

\* An eviction that fails in its flush gives up the operation, of which
\* nothing is on a leaf unless it was splitting one.
LEMMA EvictFailsSafe == ASSUME TypeOK, FlagsOK, Safe, EvictFails, ~torn' PROVE Safe'
  <1>1. up /\ Running /\ meta \in Nat /\ IsCache(cache) /\ op.stage # "parent"
    BY StatesTyped DEF Safe, EvictFails, Fault, TypeOK, IsCache
  <1>2. UNCHANGED <<up, file, meta, active, acked, wrote>> /\ op' = Idle
    BY DEF EvictFails
  <1>3. /\ Current' = Current
        /\ ~failed' => ~failed /\ Recovered' = Recovered /\ (Unseen(cache) => Coherent')
        /\ whole' = (whole /\ ~failed')
    BY <1>1, <1>2, GroupFailsViews DEF EvictFails, Current
  <1>4. Linked' = Linked
    BY <1>1, <1>2, <1>3 DEF Linked, Idle
  <1>5. Running'
    BY <1>1, <1>2, <1>3, <1>4 DEF Running
  <1>6. ~failed' => Coherent'
    BY <1>1, <1>3, CoherentUnseen DEF Safe
  <1>7. whole' => Recoverable'
    <2>1. whole' => Recoverable /\ Recovered' = Recovered
      BY <1>3 DEF Safe
    <2> QED
      BY <1>1, <1>2, <2>1, RecoverableKept
  <1> QED
    BY <1>1, <1>2, <1>5, <1>6, <1>7 DEF Safe

\* A checkpoint that fails has written pages that the process sees; if the
\* journal had them all, it has what would be recovered.
LEMMA CheckpointFailsSafe ==
  ASSUME TypeOK, FlagsOK, Safe, NEW S, S \subseteq DOMAIN cache \cup {"Meta"}, CheckpointFails(S)
  PROVE  Safe'
  <1>1. up /\ op = Idle /\ Running /\ meta \in Nat /\ DOMAIN file = PageId /\ DOMAIN cache \subseteq Cacheable
    BY StatesTyped DEF Safe, CheckpointFails, Fault, TypeOK
  <1>2. UNCHANGED <<up, journal, meta, active, op, acked, wrote>>
    BY DEF CheckpointFails
  <1>3. DOMAIN file' = PageId
        /\ \A p \in PageId : file'[p] = IF p \in S THEN Current[p] ELSE file[p]
    BY <1>1 DEF CheckpointFails, Over, Only, Flushed, Current, View, PageId, Cacheable, Leaf
  <1>4. DOMAIN cache' = DOMAIN cache \ S /\ \A p \in DOMAIN cache' : cache'[p] = cache[p]
    BY DEF CheckpointFails, Only
  <1>5. Current' = Current
    BY <1>1, <1>2, <1>3, <1>4 DEF Current, View
  <1>6. Linked' = Linked
    BY <1>2, <1>5 DEF Linked
  <1>7. Running'
    BY <1>1, <1>2, <1>5, <1>6 DEF Running
  <1>8. ASSUME ~failed' PROVE ~failed /\ Recovered' = Recovered /\ Coherent'
    <2>1. ~failed /\ S \cap DOMAIN Group(cache) = {}
      BY <1>8 DEF CheckpointFails, Leaves
    <2>2. Coherent
      BY <1>1, <2>1 DEF Safe
    <2>3. \A p \in S : Recovered[p] = Current[p]
      BY <1>1, <2>1, <2>2, CurrentPages DEF Coherent, Group
    <2>4. Recovered' = Recovered
      BY <1>1, <1>2, <1>3, <2>3 DEF Recovered, Over
    <2>5. Recovered["Meta"] = meta \/ meta_dirty_vs_journal'
      BY <2>2, <2>3, CurrentPages DEF Coherent, CheckpointFails
    <2> QED
      BY <1>2, <1>4, <1>5, <2>1, <2>2, <2>3, <2>4, <2>5 DEF Coherent
  <1>9. whole' => Recoverable'
    <2>1. whole' => Recoverable /\ Recovered' = Recovered
      BY <1>8 DEF Safe, CheckpointFails
    <2> QED
      BY <1>1, <1>2, <2>1, RecoverableKept
  <1> QED
    BY <1>1, <1>2, <1>7, <1>8, <1>9 DEF Safe
-----------------------------------------------------------------------------
(* Crashes and recovery *)

\* A counter that is ahead of the pages does no harm: this is why a flush
\* appends Meta first.
LEMMA MetaAhead ==
  ASSUME TypeOK, up, Recoverable, NEW v,
         \A p \in Cacheable : v[p] = Recovered[p], v["Meta"] \in {Recovered["Meta"], meta}
  PROVE  Sound(v, v["Parent"], acked, wrote)
  <1>1. Typed(Recovered) /\ meta \in Nat
    BY StatesTyped
  <1>2. /\ v["Left"] = Recovered["Left"] /\ v["Right"] = Recovered["Right"]
        /\ v["Clog"] = Recovered["Clog"] /\ v["Header"] = Recovered["Header"]
        /\ v["Parent"] = Recovered["Parent"]
    BY DEF Cacheable, Leaf
  <1>3. \A n \in Nat : n < Recovered["Meta"] => n < v["Meta"]
    BY <1>1 DEF Recoverable, Typed
  <1>4. \A r \in Recovered["Left"] \cup Recovered["Right"] : r.txn \in Nat
    BY <1>1 DEF Typed, Row, TxnId
  <1>5. \A t \in Recovered["Clog"] : t \in Nat
    BY <1>1 DEF Typed, TxnId
  <1>6. Rows(v, v["Parent"]) = Rows(Recovered, Recovered["Parent"])
    BY <1>2 DEF Rows
  <1> QED
    BY <1>2, <1>3, <1>4, <1>5, <1>6 DEF Recoverable, Sound

\* A process that dies leaves a safe state if what it leaves on disk is sound.
LEMMA DeathSafe ==
  ASSUME Die, Sound(Recovered', Recovered'["Parent"], acked, wrote) PROVE Safe'
  BY DEF Safe, Recoverable, Die

\* A crash at rest leaves what was recoverable.
LEMMA CrashSafe == ASSUME TypeOK, Safe, Crash, ~torn' PROVE Safe'
  <1>1. Recoverable /\ Die /\ Recovered' = Recovered
    BY DEF Crash, Safe, Recovered, Over
  <1> QED
    BY <1>1, DeathSafe DEF Recoverable

\* A crash in a flush leaves what was recoverable, or the whole group: nothing
\* else counts as not torn.
LEMMA CrashInGroupSafe ==
  ASSUME TypeOK, FlagsOK, Safe, NEW c, IsCache(c), NEW part, CrashInGroup(c, part), ~torn',
         ~failed => Unseen(c),
         op.stage # "parent" => Sound(View(c), View(c)["Parent"], acked, wrote)
  PROVE  Safe'
  <1>1. up /\ Die /\ file' = file /\ journal' = Appended(part) /\ part \in Parts(Group(c))
    BY DEF CrashInGroup
  <1>2. CASE DOMAIN part \subseteq {"Meta"}
    <2>1. whole /\ Recoverable /\ ~broken
      BY <1>2 DEF CrashInGroup, Safe, FlagsOK
    <2>2. DOMAIN file = PageId /\ "Meta" \notin Cacheable
      BY DEF TypeOK, Cacheable, Leaf
    <2>3. "Meta" \in DOMAIN part => part["Meta"] = meta
      BY <1>1 DEF Parts, Only, Group
    <2>4. \A p \in Cacheable : Recovered'[p] = Recovered[p]
      BY <1>1, <1>2, <2>1, <2>2 DEF Recovered, Over, Appended, PageId
    <2>5. Recovered'["Meta"] \in {Recovered["Meta"], meta}
      BY <1>1, <2>1, <2>2, <2>3 DEF Recovered, Over, Appended, PageId
    <2> QED
      BY <1>1, <2>1, <2>4, <2>5, MetaAhead, DeathSafe
  <1>3. CASE ~(DOMAIN part \subseteq {"Meta"})
    <2>1. part = Group(c) /\ op.stage # "parent" /\ ~failed
      BY <1>3 DEF CrashInGroup
    <2>2. Recovered' = View(c)
      BY <1>1, <2>1, Flush DEF Recovered
    <2> QED
      BY <1>1, <2>1, <2>2, DeathSafe
  <1> QED
    BY <1>2, <1>3

\* A crash in the flush of an eviction.
LEMMA CrashInEvictSafe == ASSUME TypeOK, FlagsOK, Safe, CrashInEvict, ~torn' PROVE Safe'
  <1>1. PICK part : CrashInGroup(cache, part)
    BY DEF CrashInEvict
  <1>2. up /\ Running /\ IsCache(cache) /\ (~failed => Unseen(cache))
    BY <1>1, CoherentUnseen DEF CrashInGroup, Safe, TypeOK, IsCache
  <1>3. op.stage # "parent" => Sound(View(cache), View(cache)["Parent"], acked, wrote)
    BY <1>2, CurrentSound DEF Current
  <1> QED
    BY <1>1, <1>2, <1>3, CrashInGroupSafe

\* A crash in the flush of a commit: it took place or it did not.
LEMMA CrashInCommitSafe ==
  ASSUME TypeOK, FlagsOK, Safe, NEW t \in active, CrashInCommit(t), ~torn' PROVE Safe'
  <1>1. PICK part : CrashInGroup(Marked(t), part)
    BY DEF CrashInCommit
  <1>2. up /\ Running /\ op = Idle /\ IsCache(Marked(t))
    BY <1>1, MarkedType DEF CrashInGroup, CrashInCommit, Safe
  <1>3. ~failed => Unseen(Marked(t))
    BY <1>2, TouchedUnseen DEF Safe, Marked, Cacheable
  <1>4. Sound(View(Marked(t)), View(Marked(t))["Parent"], acked, wrote)
    BY <1>2, MarkedSound
  <1> QED
    BY <1>1, <1>2, <1>3, <1>4, CrashInGroupSafe

\* A crash in a checkpoint with nothing that the journal has not seen: the
\* pages it has written are those the journal has.
LEMMA CrashInCheckpointSafe ==
  ASSUME TypeOK, FlagsOK, Safe, NEW S, S \subseteq DOMAIN cache \cup {"Meta"}, CrashInCheckpoint(S), ~torn'
  PROVE  Safe'
  <1>1. up /\ Die /\ Recoverable /\ ~failed /\ Coherent /\ DOMAIN Group(cache) \subseteq {"Meta"}
        /\ DOMAIN file = PageId /\ DOMAIN cache \subseteq Cacheable
    BY DEF CrashInCheckpoint, Safe, FlagsOK, TypeOK
  <1>2. DOMAIN file' = PageId /\ journal' = journal
        /\ \A p \in PageId : file'[p] = IF p \in S THEN Current[p] ELSE file[p]
    BY <1>1 DEF CrashInCheckpoint, Over, Only, Flushed, Current, View, PageId, Cacheable, Leaf
  <1>3. \A p \in Cacheable : Recovered[p] = Current[p]
    BY <1>1 DEF Coherent, Group, Cacheable, Leaf
  <1>4. \A p \in Cacheable : Recovered'[p] = Recovered[p]
    BY <1>1, <1>2, <1>3 DEF Recovered, Over, PageId
  <1>5. Recovered'["Meta"] \in {Recovered["Meta"], meta}
    BY <1>1, <1>2, CurrentPages DEF Recovered, Over, PageId
  <1> QED
    BY <1>1, <1>4, <1>5, MetaAhead, DeathSafe

\* Recovery replays the journal: the process sees what was recoverable.
LEMMA RecoverSafe == ASSUME TypeOK, FlagsOK, Safe, Recover PROVE Safe'
  <1>1. Recoverable /\ ~up /\ DOMAIN cache = {} /\ active = {} /\ op = Idle /\ ~meta_dirty_vs_journal
    BY DEF Safe, Recover, FlagsOK
  <1>2. up' /\ UNCHANGED <<cache, meta_dirty_vs_journal, active, op, acked>>
    BY DEF Recover
  <1>3. file' = Recovered /\ DOMAIN Recovered = PageId /\ Typed(Recovered) /\ meta' = Recovered["Meta"]
    BY StatesTyped DEF Recover, Recovered, Over, TypeOK
  <1>4. Recovered' = Recovered
    BY <1>3, RecoveredPages DEF Recover, Recovered, Over, None
  <1>5. Current' = Recovered
    BY <1>1, <1>2, <1>3, RecoveredPages DEF Current, View
  <1>6. Linked' = Recovered["Parent"]
    BY <1>1, <1>2, <1>3, <1>5 DEF Linked, Idle, Typed
  <1>7. wrote' \subseteq wrote /\ \A r \in wrote' : r.txn < meta'
    BY DEF Recover
  <1>8. Sound(Recovered, Recovered["Parent"], acked', wrote')
    BY <1>1, <1>2, <1>7 DEF Recoverable, Sound
  <1>9. Running'
    BY <1>1, <1>2, <1>5, <1>6, <1>7, <1>8 DEF Running
  <1>10. Coherent'
    BY <1>3, <1>4, <1>5 DEF Coherent
  <1>11. Recoverable'
    BY <1>1, <1>2, <1>3, <1>4, <1>8 DEF Recoverable, Typed
  <1> QED
    BY <1>2, <1>9, <1>10, <1>11 DEF Safe

\* Recovery that is cut off leaves what it had to do as it was.
LEMMA CrashInRecoverySafe ==
  ASSUME TypeOK, Safe, NEW q \in DOMAIN journal, CrashInRecovery(q) PROVE Safe'
  <1>1. Recovered' = Recovered /\ ~up /\ ~up' /\ acked' = acked /\ wrote' = wrote
    BY DEF CrashInRecovery, Recovered, Over, TypeOK, history
  <1> QED
    BY <1>1 DEF Safe, Recoverable
-----------------------------------------------------------------------------
(* The invariant *)

\* The first state: nothing was written, and nothing is in the cache.
LEMMA InitInv == Init => Inv
  <1> SUFFICES ASSUME Init PROVE Inv
    OBVIOUS
  <1> DEFINE first == [p \in PageId |-> CASE p = "Parent" -> FALSE
                                          [] p \in {"Meta", "Header"} -> 1
                                          [] OTHER -> {}]
  <1>1. /\ file = first /\ DOMAIN journal = {} /\ DOMAIN cache = {} /\ meta = 1
        /\ active = {} /\ op = Idle /\ acked = {} /\ wrote = {}
        /\ ~meta_dirty_vs_journal /\ up = TRUE /\ broken = FALSE /\ failed = FALSE
        /\ whole = TRUE /\ torn = FALSE /\ exposed = FALSE /\ faults = MaxFaults
    BY DEF Init, None
  <1>2. /\ first["Meta"] = 1 /\ first["Header"] = 1 /\ first["Parent"] = FALSE
        /\ first["Clog"] = {} /\ first["Left"] = {} /\ first["Right"] = {}
    BY DEF PageId, Cacheable, Leaf
  <1> HIDE DEF first
  <1>3. DOMAIN file = PageId
    BY DEF Init
  <1>4. \A p \in PageId : file[p] \in Image(p)
    <2>1. file["Meta"] \in Image("Meta") /\ file["Header"] \in Image("Header")
      BY <1>1, <1>2, Images, JournalAssumption
    <2>2. file["Parent"] \in Image("Parent")
      BY <1>1, <1>2, Images, Zenon
    <2>3. /\ file["Clog"] \in Image("Clog")
          /\ file["Left"] \in Image("Left") /\ file["Right"] \in Image("Right")
      BY <1>1, <1>2, Images
    <2>4. PageId = {"Meta", "Header", "Parent", "Clog", "Left", "Right"}
      BY DEF PageId, Cacheable, Leaf
    <2> QED
      BY <2>1, <2>2, <2>3, <2>4, Zenon
  <1>5. TypeOK
    <2>1. meta \in Image("Meta") /\ faults \in 0 .. MaxFaults
      BY <1>1, Images, JournalAssumption
    <2>2. meta_dirty_vs_journal \in BOOLEAN
      BY DEF Init
    <2> QED
      BY <1>1, <1>3, <1>4, <2>1, <2>2 DEF TypeOK
  <1>6. Current = file /\ Recovered = file
    BY <1>1, <1>2, <1>3 DEF Current, View, Recovered, Over, Init
  <1>7. Safe
    BY <1>1, <1>2, <1>6 DEF Safe, Running, Coherent, Recoverable, Sound, Linked, Rows, Idle
  <1> QED
    BY <1>1, <1>5, <1>7 DEF Inv, FlagsOK

\* The flags mean what they should after every step.
LEMMA FlagsStep == TypeOK /\ FlagsOK /\ [Next]_vars => FlagsOK'
  <1> SUFFICES ASSUME TypeOK, FlagsOK, [Next]_vars PROVE FlagsOK'
    OBVIOUS
  <1> USE DEF FlagsOK, disk, memory, history
  <1>1. CASE Begin \/ FillLeaf \/ LinkParent \/ Checkpoint
    BY <1>1 DEF Begin, FillLeaf, LinkParent, Checkpoint
  <1>2. ASSUME NEW k, SplitLeaf(k) PROVE FlagsOK'
    BY <1>2 DEF SplitLeaf
  <1>3. ASSUME NEW t \in active, Insert(t) \/ Commit(t) \/ Abort(t) PROVE FlagsOK'
    <2>1. CASE Insert(t) \/ Abort(t)
      BY <2>1 DEF Insert, Abort
    <2>2. CASE Commit(t)
      BY <2>2 DEF Commit, Journalled
    <2> QED
      BY <1>3, <2>1, <2>2
  <1>4. ASSUME NEW c, GroupFails(c) PROVE (broken' => failed') /\ (whole' => ~failed')
    BY <1>4 DEF GroupFails, Leaves
  <1>5. ASSUME NEW t \in active, CommitFails(t) PROVE FlagsOK'
    BY <1>4, <1>5 DEF CommitFails, Fault, Leaves
  <1>6. ASSUME NEW t \in active, AbortFails(t) PROVE FlagsOK'
    BY <1>6 DEF AbortFails, Fault, Leaves
  <1>7. CASE EvictFails
    BY <1>4, <1>7 DEF EvictFails, Fault
  <1>8. ASSUME NEW p \in Cacheable, Evict(p) \/ EvictLoses(p) PROVE FlagsOK'
    <2>1. up /\ up' = up /\ broken' = broken /\ failed' = failed
      BY <1>8 DEF Evict, EvictLoses, Fault
    <2>2. whole' => whole \/ ~failed
      BY <1>8 DEF Evict, EvictLoses, Journalled
    <2> QED
      BY <2>1, <2>2
  <1>9. ASSUME NEW S, CheckpointFails(S) PROVE FlagsOK'
    BY <1>9 DEF CheckpointFails, Fault, Leaves
  <1>10. ASSUME Die PROVE FlagsOK'
    BY <1>10 DEF Die, None
  <1>11. CASE Crash \/ CrashInEvict
    BY <1>10, <1>11 DEF Crash, CrashInEvict, CrashInGroup
  <1>12. ASSUME NEW t \in active, CrashInCommit(t) PROVE FlagsOK'
    BY <1>10, <1>12 DEF CrashInCommit, CrashInGroup
  <1>13. ASSUME NEW S, CrashInCheckpoint(S) PROVE FlagsOK'
    BY <1>10, <1>13 DEF CrashInCheckpoint
  <1>14. CASE Recover
    BY <1>14 DEF Recover
  <1>15. ASSUME NEW p, CrashInRecovery(p) PROVE FlagsOK'
    BY <1>15 DEF CrashInRecovery
  <1>16. CASE UNCHANGED vars
    BY <1>16 DEF vars
  <1> QED
    BY <1>1, <1>2, <1>3, <1>5, <1>6, <1>7, <1>8, <1>9, <1>11, <1>12, <1>13, <1>14, <1>15, <1>16 DEF Next

\* A step that does not tear anything keeps what is safe.
LEMMA SafeStep == ASSUME TypeOK, FlagsOK, Safe, ~torn', [Next]_vars PROVE Safe'
  <1>1. CASE Begin \/ FillLeaf \/ LinkParent \/ Checkpoint
    BY <1>1, BeginSafe, FillLeafSafe, LinkParentSafe, CheckpointSafe
  <1>2. ASSUME NEW k \in 1 .. MaxRow, SplitLeaf(k) PROVE Safe'
    BY <1>2, SplitLeafSafe
  <1>3. ASSUME NEW t \in active, Insert(t) \/ Commit(t) \/ Abort(t) PROVE Safe'
    BY <1>3, InsertSafe, CommitSafe, AbortSafe
  <1>4. ASSUME NEW t \in active, CommitFails(t) \/ AbortFails(t) \/ CrashInCommit(t) PROVE Safe'
    BY <1>4, CommitFailsSafe, AbortFailsSafe, CrashInCommitSafe
  <1>5. CASE EvictFails
    BY <1>5, EvictFailsSafe
  <1>6. ASSUME NEW p \in Cacheable, Evict(p) PROVE Safe'
    BY <1>6, EvictSafe
  <1>7. ASSUME NEW p \in Cacheable, EvictLoses(p) PROVE FALSE
    BY <1>7 DEF EvictLoses
  <1>8. ASSUME NEW S, S \subseteq DOMAIN cache \cup {"Meta"}, CheckpointFails(S) \/ CrashInCheckpoint(S)
        PROVE  Safe'
    BY <1>8, CheckpointFailsSafe, CrashInCheckpointSafe
  <1>9. DOMAIN Flushed = DOMAIN cache \cup {"Meta"}
    BY DEF Flushed
  <1>10. CASE Crash \/ CrashInEvict \/ Recover
    BY <1>10, CrashSafe, CrashInEvictSafe, RecoverSafe
  <1>11. ASSUME NEW p \in DOMAIN journal, CrashInRecovery(p) PROVE Safe'
    BY <1>11, CrashInRecoverySafe
  <1>12. CASE UNCHANGED vars
    <2>1. UNCHANGED <<up, file, journal, cache, meta, meta_dirty_vs_journal, active, op, acked, wrote, failed, whole>>
      BY <1>12 DEF vars, disk, memory, history
    <2>2. Current' = Current /\ Recovered' = Recovered /\ Linked' = Linked
      BY <2>1 DEF Current, View, Recovered, Over, Linked
    <2> QED
      BY <2>1, <2>2 DEF Safe, Running, Coherent, Recoverable
  <1> QED
    BY <1>1, <1>2, <1>3, <1>4, <1>5, <1>6, <1>7, <1>8, <1>9, <1>10, <1>11, <1>12 DEF Next

\* What was torn stays so.
LEMMA TornStays == torn /\ [Next]_vars => torn'
  BY DEF Next, vars, disk, memory, history, Begin, FillLeaf, LinkParent, Checkpoint, SplitLeaf,
     Insert, Commit, Abort, CommitFails, AbortFails, EvictFails, Evict, EvictLoses, CheckpointFails,
     Crash, CrashInEvict, CrashInCommit, CrashInGroup, CrashInCheckpoint, Recover, CrashInRecovery

\* The invariant is inductive.
THEOREM Invariance == Spec => []Inv
  <1>1. Inv /\ [Next]_vars => Inv'
    BY TypeStep, FlagsStep, SafeStep, TornStays DEF Inv
  <1> QED
    BY InitInv, <1>1, PTL DEF Spec

\* Every page, in the cache, in the journal and on file, is always an image of
\* its kind, in any crash or failure.
THEOREM TypeCorrect == Spec => []TypeOK
  <1>1. Inv => TypeOK
    BY DEF Inv
  <1> QED
    BY <1>1, Invariance, PTL

\* Between operations the invariant says what the properties do.
LEMMA SteadySound ==
  ASSUME Inv, ~torn, Steady
  PROVE  /\ Sound(Current, Current["Parent"], acked, wrote)
         /\ Reachable = Rows(Current, Current["Parent"])
         /\ Current["Clog"] = Page("Clog") /\ Current["Header"] = Page("Header")
         /\ Current["Left"] = Page("Left") /\ Current["Right"] = Page("Right")
         /\ Current["Meta"] = meta
  <1>1. TypeOK /\ Running /\ op.stage # "parent"
    BY DEF Inv, Safe, Steady, Idle
  <1>2. /\ Current["Clog"] = Page("Clog") /\ Current["Header"] = Page("Header")
        /\ Current["Left"] = Page("Left") /\ Current["Right"] = Page("Right")
        /\ Current["Parent"] = Page("Parent")
    BY <1>1, CurrentPages DEF Cacheable, Leaf
  <1> QED
    BY <1>1, <1>2, CurrentSound DEF Reachable, Rows

\* A row whose commit was acknowledged is found and counts as committed, unless
\* a crash was torn: one with part of a group or half of a split in the journal,
\* in a checkpoint of pages the journal has not seen, or after a failed write.
THEOREM Durability == Spec => []DurableUnlessTorn
  <1>1. Inv => DurableUnlessTorn
    BY SteadySound DEF DurableUnlessTorn, Durable, Sound
  <1> QED
    BY <1>1, Invariance, PTL

\* With the same exception, a transaction that counts as committed has all its
\* rows, those that a split has moved to another page included.
THEOREM Atomicity == Spec => []AllOrNothing
  <1>1. Inv => AllOrNothing
    BY SteadySound DEF AllOrNothing, Sound
  <1> QED
    BY <1>1, Invariance, PTL

\* With the same exception, no row has an id that alloc_row_id hands out again.
THEOREM FreshRowIds == Spec => []RowIdsAreFreshUnlessTorn
  <1>1. Inv => RowIdsAreFreshUnlessTorn
    BY SteadySound DEF RowIdsAreFreshUnlessTorn, Sound
  <1> QED
    BY <1>1, Invariance, PTL
-----------------------------------------------------------------------------
(* Transaction ids, after torn crashes too                                 *)

\* The transaction ids that the image of page p names are below n.
Below(p, image, n) ==
  /\ p \in Leaf => \A r \in image : r.txn < n
  /\ p = "Clog" => \A t \in image : t < n

AllBelow(pages, n) == \A p \in DOMAIN pages : Below(p, pages[p], n)
CacheBelow(c, n) == \A p \in DOMAIN c : Below(p, c[p].page, n)
CleanBelow(c, n) == \A p \in DOMAIN c : c[p].dirty_vs_journal \/ Below(p, c[p].page, n)

\* The counter recovery would start from.
Counter(f, j) == IF "Meta" \in DOMAIN j THEN j["Meta"] ELSE f["Meta"]

\* What the process sees names no id it has not given out.
MemoryBelow(f, c, m, a, o) ==
  /\ AllBelow(f, m) /\ CacheBelow(c, m)
  /\ \A t \in a : t < m
  /\ o # Idle => o.row.txn < m

\* Neither does what is on disk, in whatever part of it is replayed.
DiskBelow(f, j) == AllBelow(f, Counter(f, j)) /\ AllBelow(j, Counter(f, j))

\* A page that counts as journalled may be written to the file at any time.
CounterOK(f, j, c, m, dirty) ==
  /\ CleanBelow(c, Counter(f, j))
  /\ Counter(f, j) <= m
  /\ Counter(f, j) = m \/ dirty

Ids ==
  /\ up => MemoryBelow(file, cache, meta, active, op)
  /\ ~failed => DiskBelow(file, journal)
  /\ up /\ ~failed => CounterOK(file, journal, cache, meta, meta_dirty_vs_journal)
  /\ ~up => ~failed

IdInv == TypeOK /\ FlagsOK /\ (exposed \/ Ids)

\* A larger counter only makes it easier.
LEMMA BelowGrows ==
  ASSUME NEW p \in PageId, NEW image \in Image(p), NEW n \in Nat, NEW m \in Nat, n <= m, Below(p, image, n)
  PROVE  Below(p, image, m)
  <1>1. ASSUME p \in Leaf, NEW r \in image PROVE r.txn < m
    <2>1. r \in Row
      BY <1>1, Images DEF Leaf
    <2>2. r.txn \in Nat /\ r.txn < n
      BY <1>1, <2>1 DEF Below, Row, TxnId
    <2> QED
      BY <2>2
  <1>2. ASSUME p = "Clog", NEW t \in image PROVE t < m
    <2>1. t \in Nat /\ t < n
      BY <1>2, Images DEF Below, TxnId
    <2> QED
      BY <2>1
  <1> QED
    BY <1>1, <1>2 DEF Below

\* The counters are numbers.
LEMMA Counters ==
  ASSUME TypeOK
  PROVE  meta \in Nat /\ Counter(file, journal) \in Nat /\ file["Meta"] \in Nat
         /\ (\A p \in PageId \ Cacheable : p = "Meta") /\ "Meta" \in PageId /\ "Meta" \notin Cacheable
  <1>1. Image("Meta") \subseteq Nat
    BY Images, JournalAssumption
  <1> QED
    BY <1>1 DEF TypeOK, Counter, PageId, Cacheable, Leaf

\* All of a file, a journal or a cache, likewise.
LEMMA AllGrow ==
  ASSUME TypeOK, NEW n \in Nat, NEW m \in Nat, n <= m
  PROVE  /\ AllBelow(file, n) => AllBelow(file, m)
         /\ AllBelow(journal, n) => AllBelow(journal, m)
         /\ CacheBelow(cache, n) => CacheBelow(cache, m)
         /\ \A c : IsCache(c) /\ CleanBelow(c, n) => CleanBelow(c, m)
  <1>1. ASSUME AllBelow(file, n) PROVE AllBelow(file, m)
    BY <1>1, BelowGrows DEF AllBelow, TypeOK
  <1>2. ASSUME AllBelow(journal, n) PROVE AllBelow(journal, m)
    BY <1>2, BelowGrows DEF AllBelow, TypeOK
  <1>3. \A p \in DOMAIN cache : p \in PageId /\ cache[p].page \in Image(p)
    BY DEF TypeOK, PageId
  <1>4. ASSUME CacheBelow(cache, n) PROVE CacheBelow(cache, m)
    BY <1>3, <1>4, BelowGrows DEF CacheBelow
  <1>5. ASSUME NEW c, IsCache(c), CleanBelow(c, n) PROVE CleanBelow(c, m)
    <2>1. \A p \in DOMAIN c : p \in PageId /\ c[p].page \in Image(p)
      BY <1>5 DEF IsCache, PageId
    <2> QED
      BY <1>5, <2>1, BelowGrows DEF CleanBelow
  <1> QED
    BY <1>1, <1>2, <1>4, <1>5

\* Meta names no id.
LEMMA MetaBelow == ASSUME NEW image, NEW n PROVE Below("Meta", image, n)
  BY DEF Below, Leaf

\* What the process reads of a page is below its counter (with_page).
LEMMA PageBelow ==
  ASSUME TypeOK, NEW n, AllBelow(file, n), CacheBelow(cache, n), NEW p \in Cacheable
  PROVE  Below(p, Page(p), n)
  BY DEF TypeOK, AllBelow, CacheBelow, Page, PageId

\* Pages below the counter may be written to the cache (with_page_mut): they are
\* dirty, so nothing is claimed of them until they are journalled.
LEMMA TouchedBelow ==
  ASSUME NEW images, NEW n, \A p \in DOMAIN images : Below(p, images[p], n)
  PROVE  /\ CacheBelow(cache, n) => CacheBelow(Touched(images), n)
         /\ \A m : CleanBelow(cache, m) => CleanBelow(Touched(images), m)
  BY DEF CacheBelow, CleanBelow, Touched, Over

\* A group of images, or the part of one that starts with Meta, takes the
\* recovered counter past every id in it: "meta first".
LEMMA AppendedBelow ==
  ASSUME TypeOK, ~broken, DiskBelow(file, journal),
         Counter(file, journal) <= meta,
         Counter(file, journal) = meta \/ meta_dirty_vs_journal,
         NEW c, IsCache(c), CacheBelow(c, meta),
         NEW part \in Parts(Group(c))
  PROVE  /\ DiskBelow(file, Appended(part))
         /\ Counter(file, Appended(part)) \in {meta, Counter(file, journal)}
         /\ part = Group(c) => Counter(file, Appended(part)) = meta
  <1> DEFINE j == Appended(part)
  <1>1. j = Over(journal, part)
    BY DEF Appended
  <1>2. /\ DOMAIN part \subseteq DOMAIN Group(c)
        /\ \A p \in DOMAIN part : part[p] = Group(c)[p]
        /\ "Meta" \in DOMAIN Group(c) /\ DOMAIN part # {} => "Meta" \in DOMAIN part
    BY DEF Parts, Only
  <1>3. meta_dirty_vs_journal <=> "Meta" \in DOMAIN Group(c)
    BY DEF Group, IsCache, Cacheable, Leaf
  <1>4. ASSUME NEW p \in DOMAIN Group(c) PROVE Below(p, Group(c)[p], meta)
    <2>1. CASE p = "Meta"
      BY <2>1, MetaBelow
    <2>2. CASE p # "Meta"
      BY <1>4, <2>2 DEF Group, CacheBelow
    <2> QED
      BY <2>1, <2>2
  <1>5. "Meta" \in DOMAIN Group(c) => Group(c)["Meta"] = meta
    BY DEF Group
  <1>6. CASE DOMAIN part = {}
    <2>1. DOMAIN j = DOMAIN journal /\ \A p \in DOMAIN journal : j[p] = journal[p]
      BY <1>1, <1>6 DEF Over
    <2>3. Counter(file, j) = Counter(file, journal) /\ DiskBelow(file, j)
      BY <2>1 DEF Counter, AllBelow, DiskBelow
    <2>2. part = Group(c) => Counter(file, journal) = meta
      BY <1>3, <1>6
    <2> QED
      BY <2>2, <2>3
  <1>7. CASE DOMAIN part # {}
    <2>1. Counter(file, j) = meta
      <3>1. CASE "Meta" \in DOMAIN part
        BY <1>1, <1>2, <1>5, <3>1 DEF Counter, Over
      <3>2. CASE "Meta" \notin DOMAIN part
        BY <1>1, <1>2, <1>3, <1>7, <3>2 DEF Counter, Over
      <3> QED
        BY <3>1, <3>2
    <2>2. AllBelow(file, meta) /\ AllBelow(journal, meta)
      BY Counters, AllGrow DEF DiskBelow
    <2>3. AllBelow(j, meta)
      BY <1>1, <1>2, <1>4, <2>2 DEF AllBelow, Over
    <2> QED
      BY <2>1, <2>2, <2>3 DEF DiskBelow
  <1> QED
    BY <1>6, <1>7

\* A group in full: all that the cache then has counts as journalled.
LEMMA FlushBelow ==
  ASSUME TypeOK, FlagsOK, Ids, up, ~failed, NEW c, IsCache(c), CacheBelow(c, meta), NEW S
  PROVE  /\ DiskBelow(file, Appended(Group(c))) /\ Counter(file, Appended(Group(c))) = meta
         /\ CacheBelow(Only(Seen(c), S), meta) /\ CleanBelow(Only(Seen(c), S), meta)
  <1>1. Group(c) \in Parts(Group(c))
    <2>1. Only(Group(c), DOMAIN Group(c)) = Group(c)
      BY DEF Only, Group
    <2> QED
      BY <2>1 DEF Parts
  <1>2. ~broken /\ DiskBelow(file, journal) /\ CounterOK(file, journal, cache, meta, meta_dirty_vs_journal)
    BY DEF Ids, FlagsOK
  <1>3. DiskBelow(file, Appended(Group(c))) /\ Counter(file, Appended(Group(c))) = meta
    BY <1>1, <1>2, AppendedBelow DEF CounterOK
  <1>4. \A p \in DOMAIN c : Seen(c)[p].page = c[p].page
    BY DEF Seen, IsCache
  <1> QED
    BY <1>3, <1>4 DEF CacheBelow, CleanBelow, Only, Seen

\* The memory, when only the cache changes and stays below the counter.
LEMMA TouchIds ==
  ASSUME TypeOK, Ids, up, up' = up, UNCHANGED <<file, journal, meta, failed, active>>,
         meta_dirty_vs_journal => meta_dirty_vs_journal',
         op' # Idle => op'.row.txn < meta,
         NEW images, cache' = Touched(images),
         \A p \in DOMAIN images : Below(p, images[p], meta)
  PROVE  Ids'
  <1>1. MemoryBelow(file, cache, meta, active, op)
    BY DEF Ids
  <1>2. MemoryBelow(file', cache', meta', active', op')
    BY <1>1, TouchedBelow DEF MemoryBelow
  <1>3. ASSUME ~failed' PROVE DiskBelow(file', journal')
    BY <1>3 DEF Ids
  <1>4. ASSUME ~failed' PROVE CounterOK(file', journal', cache', meta', meta_dirty_vs_journal')
    <2>1. CounterOK(file, journal, cache, meta, meta_dirty_vs_journal)
      BY <1>4 DEF Ids
    <2>2. CleanBelow(cache', Counter(file, journal))
      BY <2>1, TouchedBelow DEF CounterOK
    <2>3. meta_dirty_vs_journal => meta_dirty_vs_journal'
      OBVIOUS
    <2> QED
      BY <2>1, <2>2, <2>3 DEF CounterOK
  <1> QED
    BY <1>2, <1>3, <1>4 DEF Ids

\* begin: the id given out is below the counter, which the journal has to see.
LEMMA BeginIds == ASSUME TypeOK, Ids, Begin PROVE Ids'
  <1>1. /\ up /\ up' /\ meta \in Nat /\ meta' = meta + 1 /\ active' = active \cup {meta} /\ meta_dirty_vs_journal' = TRUE
        /\ UNCHANGED <<file, journal, cache, op, failed>> /\ op = Idle
    BY Counters DEF Begin, disk, history
  <1>2. MemoryBelow(file, cache, meta, active, op)
    BY <1>1 DEF Ids
  <1>3. \A t \in active : t \in Nat
    BY DEF TypeOK, TxnId
  <1>4. AllBelow(file, meta') /\ CacheBelow(cache, meta')
    BY <1>1, <1>2, AllGrow DEF MemoryBelow
  <1>5. MemoryBelow(file', cache', meta', active', op')
    BY <1>1, <1>2, <1>3, <1>4 DEF MemoryBelow
  <1>6. ~failed => CounterOK(file', journal', cache', meta', meta_dirty_vs_journal')
    BY <1>1, Counters DEF Ids, CounterOK
  <1> QED
    BY <1>1, <1>5, <1>6 DEF Ids

\* insert and its parts: the row has the id of an open transaction.
LEMMA InsertIds == ASSUME TypeOK, Ids, NEW t \in active, Insert(t) PROVE Ids'
  <1>1. cache' = Touched([p \in {"Header"} |-> Page(p) + 1]) /\ op' # Idle /\ op'.row.txn = t
    BY DEF Insert, Idle
  <1>2. up /\ t < meta /\ up' = up /\ UNCHANGED <<file, journal, meta, failed, active, meta_dirty_vs_journal>>
    BY DEF Insert, Ids, MemoryBelow, disk, history
  <1>3. \A p \in {"Header"} : Below(p, Page(p) + 1, meta)
    BY DEF Below, Leaf
  <1>4. meta_dirty_vs_journal => meta_dirty_vs_journal'
    BY <1>2 DEF TypeOK
  <1> QED
    BY <1>1, <1>2, <1>3, <1>4, TouchIds

LEMMA FillLeafIds == ASSUME TypeOK, Ids, FillLeaf PROVE Ids'
  <1>1. PICK leaf \in Leaf : cache' = Touched([p \in {leaf} |-> Page(p) \cup {op.row}])
    BY DEF FillLeaf, Leaf
  <1>2. up /\ up' = up /\ op' = Idle /\ UNCHANGED <<file, journal, meta, failed, active, meta_dirty_vs_journal>> /\ op # Idle
    BY DEF FillLeaf, disk, Idle
  <1>3. MemoryBelow(file, cache, meta, active, op)
    BY <1>2 DEF Ids
  <1>4. Below(leaf, Page(leaf), meta) /\ op.row.txn < meta
    BY <1>2, <1>3, PageBelow DEF MemoryBelow, Cacheable
  <1>5. Below(leaf, Page(leaf) \cup {op.row}, meta)
    BY <1>4 DEF Below, Leaf
  <1>6. meta_dirty_vs_journal => meta_dirty_vs_journal'
    BY <1>2 DEF TypeOK
  <1> QED
    BY <1>1, <1>2, <1>5, <1>6, TouchIds

LEMMA SplitLeafIds == ASSUME TypeOK, Ids, NEW k, SplitLeaf(k) PROVE Ids'
  <1> DEFINE half(p) == {r \in Page("Left") \cup {op.row} : IF p = "Left" THEN r.id < k ELSE r.id >= k}
  <1>1. cache' = Touched([p \in Leaf |-> half(p)])
    BY DEF SplitLeaf
  <1>2. /\ up /\ up' = up /\ op # Idle /\ op'.row = op.row /\ meta_dirty_vs_journal' = TRUE
        /\ UNCHANGED <<file, journal, meta, failed, active>>
    <2>1. op \in [stage: {"leaf", "parent"}, row: Row]
      BY DEF SplitLeaf, TypeOK, Idle
    <2> QED
      BY <2>1 DEF SplitLeaf, disk, Idle
  <1>3. MemoryBelow(file, cache, meta, active, op)
    BY <1>2 DEF Ids
  <1>4. Below("Left", Page("Left"), meta) /\ op.row.txn < meta
    BY <1>2, <1>3, PageBelow DEF MemoryBelow, Cacheable, Leaf
  <1>5. \A p \in Leaf : Below(p, half(p), meta)
    BY <1>4 DEF Below, Leaf
  <1> HIDE DEF half
  <1>6. \A p \in DOMAIN [q \in Leaf |-> half(q)] : Below(p, [q \in Leaf |-> half(q)][p], meta)
    BY <1>5
  <1>7. meta_dirty_vs_journal => meta_dirty_vs_journal'
    BY <1>2
  <1> QED
    BY <1>1, <1>2, <1>4, <1>6, <1>7, TouchIds

LEMMA LinkParentIds == ASSUME TypeOK, Ids, LinkParent PROVE Ids'
  <1> DEFINE images == [p \in {"Parent"} |-> TRUE]
  <1>1. up /\ up' = up /\ op' = Idle /\ UNCHANGED <<file, journal, meta, failed, active, meta_dirty_vs_journal>>
        /\ cache' = Touched(images)
    BY DEF LinkParent, disk, history
  <1>2. \A p \in DOMAIN images : Below(p, images[p], meta)
    BY DEF Below, Leaf
  <1> HIDE DEF images
  <1> QED
    BY <1>1, <1>2, TouchIds

\* The bit that a commit sets is that of an open transaction (mark_committed).
LEMMA MarkedBelow ==
  ASSUME TypeOK, Ids, up, NEW t \in active
  PROVE  /\ IsCache(Marked(t)) /\ CacheBelow(Marked(t), meta)
         /\ ~failed => CleanBelow(Marked(t), Counter(file, journal))
  <1>1. MemoryBelow(file, cache, meta, active, op)
    BY DEF Ids
  <1>2. Below("Clog", Page("Clog"), meta) /\ t < meta
    BY <1>1, PageBelow DEF MemoryBelow, Cacheable
  <1>3. Below("Clog", Page("Clog") \cup {t}, meta)
    BY <1>2 DEF Below, Leaf
  <1>4. \A p \in DOMAIN [q \in {"Clog"} |-> Page(q) \cup {t}] : Below(p, [q \in {"Clog"} |-> Page(q) \cup {t}][p], meta)
    BY <1>3
  <1>5. CacheBelow(Marked(t), meta) /\ \A m : CleanBelow(cache, m) => CleanBelow(Marked(t), m)
    BY <1>1, <1>4, TouchedBelow DEF MemoryBelow, Marked
  <1> QED
    BY <1>5, MarkedType DEF Ids, CounterOK

LEMMA CommitIds == ASSUME TypeOK, FlagsOK, Ids, NEW t \in active, Commit(t) PROVE Ids'
  <1>1. /\ up /\ up' = up /\ op' = op /\ op = Idle /\ active' \subseteq active
        /\ UNCHANGED <<file, meta, failed>> /\ meta_dirty_vs_journal' = FALSE
        /\ journal' = Appended(Group(Marked(t))) /\ cache' = Seen(Marked(t))
    BY DEF Commit, Journalled
  <1>2. MemoryBelow(file, cache, meta, active, op) /\ meta \in Nat
    BY <1>1, Counters DEF Ids
  <1>3. IsCache(Marked(t)) /\ CacheBelow(Marked(t), meta)
    BY <1>1, MarkedBelow
  <1>4. CacheBelow(cache', meta) /\ CleanBelow(cache', meta)
    BY <1>1, <1>3 DEF CacheBelow, CleanBelow, Seen, IsCache
  <1>5. MemoryBelow(file', cache', meta', active', op')
    BY <1>1, <1>2, <1>4 DEF MemoryBelow
  <1>6. ASSUME ~failed PROVE DiskBelow(file', journal') /\ Counter(file', journal') = meta
    BY <1>1, <1>3, <1>6, FlushBelow
  <1>7. ASSUME ~failed PROVE CounterOK(file', journal', cache', meta', meta_dirty_vs_journal')
    BY <1>1, <1>2, <1>4, <1>6, <1>7 DEF CounterOK
  <1> QED
    BY <1>1, <1>5, <1>6, <1>7 DEF Ids

\* Evictions: a victim that goes to the file has been journalled, and one that
\* is lost is not there at all.
LEMMA EvictIds ==
  ASSUME TypeOK, FlagsOK, Ids, NEW q \in Cacheable, Evict(q) \/ EvictLoses(q) PROVE Ids'
  <1>1. /\ up /\ up' = up /\ op' \in {op, Idle} /\ q \in DOMAIN cache
        /\ UNCHANGED <<meta, failed, active>>
        /\ file' \in {file, [file EXCEPT ![q] = cache[q].page]}
    BY DEF Evict, EvictLoses, Fault
  <1>2. MemoryBelow(file, cache, meta, active, op) /\ meta \in Nat /\ IsCache(cache) /\ q # "Meta" /\ DOMAIN file = PageId
    BY <1>1, Counters DEF Ids, TypeOK, IsCache
  <1>3. /\ DOMAIN file' = PageId /\ file'["Meta"] = file["Meta"]
        /\ \A p \in PageId : file'[p] = file[p] \/ (p = q /\ file'[p] = cache[q].page)
    BY <1>1, <1>2, Counters
  <1>4. AllBelow(file', meta)
    BY <1>1, <1>2, <1>3 DEF MemoryBelow, AllBelow, CacheBelow
  <1>5. CASE cache[q].dirty_vs_journal
    <2>1. /\ journal' = Appended(Group(cache)) /\ meta_dirty_vs_journal' = FALSE
          /\ cache' = Only(Seen(cache), DOMAIN cache \ {q})
      BY <1>5 DEF Evict, EvictLoses, Journalled
    <2>2. CacheBelow(cache', meta) /\ CleanBelow(cache', meta)
      BY <1>2, <2>1 DEF MemoryBelow, CacheBelow, CleanBelow, Only, Seen, IsCache
    <2>3. ASSUME ~failed PROVE AllBelow(journal', meta) /\ Counter(file', journal') = meta
      <3>1. DiskBelow(file, journal') /\ Counter(file, journal') = meta
        BY <1>1, <1>2, <2>1, <2>3, FlushBelow DEF MemoryBelow
      <3> QED
        BY <1>3, <3>1 DEF DiskBelow, Counter
    <2>4. MemoryBelow(file', cache', meta', active', op')
      BY <1>1, <1>2, <1>4, <2>2 DEF MemoryBelow
    <2>5. ASSUME ~failed PROVE DiskBelow(file', journal') /\ CounterOK(file', journal', cache', meta', meta_dirty_vs_journal')
      BY <1>1, <1>2, <1>4, <2>2, <2>3, <2>5 DEF CounterOK, DiskBelow
    <2> QED
      BY <1>1, <2>4, <2>5 DEF Ids
  <1>6. CASE ~cache[q].dirty_vs_journal
    <2>1. UNCHANGED <<journal, meta_dirty_vs_journal>> /\ cache' = Only(cache, DOMAIN cache \ {q})
      BY <1>6 DEF Evict, EvictLoses
    <2>2. Counter(file', journal') = Counter(file, journal)
      BY <1>3, <2>1 DEF Counter
    <2>3. CacheBelow(cache', meta) /\ \A n : CleanBelow(cache, n) => CleanBelow(cache', n)
      BY <1>2, <2>1 DEF MemoryBelow, CacheBelow, CleanBelow, Only
    <2>4. MemoryBelow(file', cache', meta', active', op')
      BY <1>1, <1>2, <1>4, <2>3 DEF MemoryBelow
    <2>5. ASSUME ~failed PROVE DiskBelow(file', journal') /\ CounterOK(file', journal', cache', meta', meta_dirty_vs_journal')
      <3>1. DiskBelow(file, journal) /\ CounterOK(file, journal, cache, meta, meta_dirty_vs_journal)
        BY <1>1, <2>5 DEF Ids
      <3>2. Below(q, cache[q].page, Counter(file, journal))
        BY <1>1, <1>6, <3>1 DEF CounterOK, CleanBelow
      <3>3. AllBelow(file', Counter(file, journal))
        BY <1>2, <1>3, <3>1, <3>2 DEF DiskBelow, AllBelow
      <3> QED
        BY <1>1, <2>1, <2>2, <2>3, <3>1, <3>3 DEF DiskBelow, CounterOK
    <2> QED
      BY <1>1, <2>4, <2>5 DEF Ids
  <1> QED
    BY <1>5, <1>6

\* What a checkpoint writes is below the counter, which is on file with it.
LEMMA FlushedBelow ==
  ASSUME TypeOK, NEW n, CacheBelow(cache, n), AllBelow(file, n), NEW S
  PROVE  AllBelow(Over(file, Only(Flushed, S)), n) /\ AllBelow(Over(file, Flushed), n)
  <1>1. \A p \in DOMAIN Flushed : Below(p, Flushed[p], n)
    BY MetaBelow DEF Flushed, CacheBelow
  <1> QED
    BY <1>1 DEF AllBelow, Over, Only

LEMMA CheckpointIds == ASSUME TypeOK, Ids, Checkpoint PROVE Ids'
  <1>1. /\ up /\ up' = up /\ op' = op /\ UNCHANGED <<meta, active>> /\ file' = Over(file, Flushed)
        /\ DOMAIN journal' = {} /\ DOMAIN cache' = {} /\ meta_dirty_vs_journal' = FALSE
    BY DEF Checkpoint, None
  <1>2. MemoryBelow(file, cache, meta, active, op) /\ meta \in Nat
    BY <1>1, Counters DEF Ids
  <1>3. AllBelow(file', meta)
    BY <1>1, <1>2, FlushedBelow DEF MemoryBelow
  <1>4. Counter(file', journal') = meta
    BY <1>1 DEF Counter, Over, Flushed
  <1>5. MemoryBelow(file', cache', meta', active', op')
    BY <1>1, <1>2, <1>3 DEF MemoryBelow, CacheBelow
  <1>6. DiskBelow(file', journal') /\ CounterOK(file', journal', cache', meta', meta_dirty_vs_journal')
    BY <1>1, <1>2, <1>3, <1>4 DEF DiskBelow, AllBelow, CounterOK, CleanBelow
  <1> QED
    BY <1>1, <1>5, <1>6 DEF Ids

\* A group that fails on Meta leaves the journal as it was; one that fails later
\* leaves a journal that is not relied on again.
LEMMA GroupFailsIds ==
  ASSUME TypeOK, FlagsOK, Ids, up, NEW c, IsCache(c), CacheBelow(c, meta),
         ~failed => CleanBelow(c, Counter(file, journal)), GroupFails(c)
  PROVE  /\ CacheBelow(cache', meta) /\ (~failed' => ~failed)
         /\ ~failed' => /\ DiskBelow(file, journal')
                        /\ CounterOK(file, journal', cache', meta, meta_dirty_vs_journal')
  <1>1. PICK part \in Parts(Group(c)), p \in DOMAIN Group(c), cut \in BOOLEAN :
          /\ "Meta" \in DOMAIN Group(c) => ("Meta" \in DOMAIN part <=> p # "Meta")
          /\ journal' = Appended(part)
          /\ cache' = Over(c, Only(Seen(c), DOMAIN part \cup {p}))
          /\ meta_dirty_vs_journal' = (meta_dirty_vs_journal /\ p = "Meta")
          /\ Leaves(cut, p # "Meta")
    BY DEF GroupFails
  <1>2. \A q \in DOMAIN c : Seen(c)[q].page = c[q].page
    BY DEF Seen, IsCache
  <1>3. DOMAIN cache' = DOMAIN c /\ \A q \in DOMAIN c : cache'[q].page = c[q].page
    BY <1>1, <1>2 DEF Over, Only, Seen
  <1>4. CacheBelow(cache', meta)
    BY <1>3 DEF CacheBelow
  <1>5. ~failed' => ~failed /\ p = "Meta"
    BY <1>1 DEF Leaves
  <1>6. ASSUME ~failed'
        PROVE  DiskBelow(file, journal') /\ CounterOK(file, journal', cache', meta, meta_dirty_vs_journal')
    <2>1. ~failed /\ p = "Meta" /\ ~broken /\ "Meta" \notin DOMAIN part
      BY <1>1, <1>5, <1>6 DEF FlagsOK
    <2>2. DiskBelow(file, journal) /\ CounterOK(file, journal, cache, meta, meta_dirty_vs_journal)
      BY <2>1 DEF Ids
    <2>3. DOMAIN part = {}
      BY <1>1, <2>1 DEF Parts, Only
    <2>4. DOMAIN journal' = DOMAIN journal /\ \A q \in DOMAIN journal : journal'[q] = journal[q]
      BY <1>1, <2>1, <2>3 DEF Appended, Over
    <2>5. Counter(file, journal') = Counter(file, journal) /\ DiskBelow(file, journal')
      BY <2>2, <2>4 DEF Counter, DiskBelow, AllBelow
    <2>6. meta_dirty_vs_journal
      BY <2>1 DEF Group, IsCache, Cacheable, Leaf
    <2>7. \A q \in DOMAIN c : q # "Meta"
      BY Counters DEF IsCache
    <2>8. \A q \in DOMAIN c : cache'[q] = c[q]
      BY <1>1, <2>1, <2>3, <2>7 DEF Over, Only, Seen
    <2>9. CleanBelow(cache', Counter(file, journal))
      BY <1>3, <2>1, <2>8 DEF CleanBelow
    <2> QED
      BY <1>1, <2>1, <2>2, <2>5, <2>6, <2>9 DEF CounterOK
  <1> QED
    BY <1>4, <1>5, <1>6

LEMMA CommitFailsIds == ASSUME TypeOK, FlagsOK, Ids, NEW t \in active, CommitFails(t) PROVE Ids'
  <1>1. up /\ up' = up /\ UNCHANGED <<file, meta, op>> /\ active' \subseteq active
    BY DEF CommitFails, Fault
  <1>2. MemoryBelow(file, cache, meta, active, op) /\ meta \in Nat
    BY <1>1, Counters DEF Ids
  <1>3. /\ IsCache(Marked(t)) /\ CacheBelow(Marked(t), meta)
        /\ ~failed => CleanBelow(Marked(t), Counter(file, journal))
    BY <1>1, MarkedBelow
  <1>4. CacheBelow(cache', meta)
        /\ (~failed' => DiskBelow(file, journal') /\ CounterOK(file, journal', cache', meta, meta_dirty_vs_journal'))
    <2>1. CASE GroupFails(Marked(t))
      BY <1>1, <1>3, <2>1, GroupFailsIds
    <2>2. ASSUME NEW cut \in BOOLEAN, journal' = Appended(Group(Marked(t))), cache' = Seen(Marked(t)),
                 meta_dirty_vs_journal' = FALSE, Leaves(cut, FALSE)
          PROVE  CacheBelow(cache', meta)
                 /\ (~failed' => DiskBelow(file, journal') /\ CounterOK(file, journal', cache', meta, meta_dirty_vs_journal'))
      <3>1. CacheBelow(cache', meta) /\ CleanBelow(cache', meta)
        BY <1>3, <2>2 DEF CacheBelow, CleanBelow, Seen, IsCache
      <3>2. ~failed' => ~failed
        BY <2>2 DEF Leaves
      <3>3. ASSUME ~failed PROVE DiskBelow(file, journal') /\ Counter(file, journal') = meta
        BY <1>1, <1>3, <2>2, <3>3, FlushBelow
      <3> QED
        BY <1>2, <2>2, <3>1, <3>2, <3>3 DEF CounterOK
    <2> QED
      BY <2>1, <2>2 DEF CommitFails
  <1>5. MemoryBelow(file', cache', meta', active', op')
    BY <1>1, <1>2, <1>4 DEF MemoryBelow
  <1> QED
    BY <1>1, <1>4, <1>5 DEF Ids

LEMMA EvictFailsIds == ASSUME TypeOK, FlagsOK, Ids, EvictFails PROVE Ids'
  <1>1. up /\ up' = up /\ op' = Idle /\ UNCHANGED <<file, meta, active>> /\ GroupFails(cache)
    BY DEF EvictFails, Fault
  <1>2. MemoryBelow(file, cache, meta, active, op) /\ IsCache(cache)
    BY <1>1 DEF Ids, TypeOK, IsCache
  <1>3. ~failed => CleanBelow(cache, Counter(file, journal))
    BY <1>1 DEF Ids, CounterOK
  <1>4. CacheBelow(cache', meta)
        /\ (~failed' => DiskBelow(file, journal') /\ CounterOK(file, journal', cache', meta, meta_dirty_vs_journal'))
    BY <1>1, <1>2, <1>3, GroupFailsIds DEF MemoryBelow
  <1>5. MemoryBelow(file', cache', meta', active', op')
    BY <1>1, <1>2, <1>4 DEF MemoryBelow
  <1> QED
    BY <1>1, <1>4, <1>5 DEF Ids

LEMMA AbortIds == ASSUME TypeOK, Ids, NEW t \in active, Abort(t) \/ AbortFails(t) PROVE Ids'
  <1>1. /\ up /\ up' = up /\ active' \subseteq active /\ (~failed' => ~failed)
        /\ UNCHANGED <<file, journal, cache, meta, meta_dirty_vs_journal, op>>
    <2>1. CASE Abort(t)
      BY <2>1 DEF Abort, disk, history
    <2>2. CASE AbortFails(t)
      BY <2>2 DEF AbortFails, Fault, Leaves
    <2> QED
      BY <2>1, <2>2
  <1>2. MemoryBelow(file', cache', meta', active', op')
    BY <1>1 DEF Ids, MemoryBelow
  <1> QED
    BY <1>1, <1>2 DEF Ids

\* The pages that a checkpoint has written when it ends early, if the journal
\* has all of them: the counter of recovery is past what they name.
LEMMA PartFlushed ==
  ASSUME TypeOK, Ids, up, ~failed, NEW S, S \subseteq DOMAIN cache \cup {"Meta"},
         S \cap DOMAIN Group(cache) \subseteq {"Meta"}
  PROVE  LET f == Over(file, Only(Flushed, S))
         IN  DiskBelow(f, journal) /\ Counter(f, journal) \in {meta, Counter(file, journal)}
  <1> DEFINE f == Over(file, Only(Flushed, S))
             n == Counter(file, journal)
  <1>1. DiskBelow(file, journal) /\ CounterOK(file, journal, cache, meta, meta_dirty_vs_journal)
    BY DEF Ids
  <1>2. \A p \in DOMAIN f : \/ p \in DOMAIN file /\ f[p] = file[p]
                            \/ p \in S /\ p \in DOMAIN cache /\ f[p] = cache[p].page /\ p # "Meta"
                            \/ p = "Meta"
    <2>1. \A p \in DOMAIN Flushed \ {"Meta"} : p \in DOMAIN cache /\ Flushed[p] = cache[p].page
      BY DEF Flushed
    <2> QED
      BY <2>1 DEF Over, Only
  <1>3. \A p \in S : p \in DOMAIN cache /\ p # "Meta" => ~cache[p].dirty_vs_journal
    BY DEF Group
  <1>4. AllBelow(f, n)
    <2> SUFFICES ASSUME NEW p \in DOMAIN f PROVE Below(p, f[p], n)
      BY DEF AllBelow
    <2>1. CASE p \in DOMAIN file /\ f[p] = file[p]
      BY <1>1, <2>1 DEF DiskBelow, AllBelow
    <2>2. CASE p \in S /\ p \in DOMAIN cache /\ f[p] = cache[p].page /\ p # "Meta"
      BY <1>1, <1>3, <2>2 DEF CounterOK, CleanBelow
    <2>3. CASE p = "Meta"
      BY <2>3, MetaBelow
    <2> QED
      BY <1>2, <2>1, <2>2, <2>3
  <1>5. f["Meta"] \in {meta, file["Meta"]}
    BY Counters DEF Over, Only, Flushed, TypeOK
  <1>6. Counter(f, journal) \in {meta, n}
    BY <1>5 DEF Counter
  <1>7. n \in Nat /\ meta \in Nat /\ n <= meta
    BY <1>1, Counters DEF CounterOK
  <1>8. ASSUME NEW m \in {meta, n} PROVE AllBelow(f, m) /\ AllBelow(journal, m)
    <2>1. AllBelow(journal, m)
      BY <1>1, <1>7, AllGrow DEF DiskBelow
    <2>2. DOMAIN f = PageId /\ \A p \in PageId : f[p] \in Image(p)
      BY DEF Over, Only, Flushed, TypeOK, PageId
    <2>3. ASSUME NEW p \in PageId PROVE Below(p, f[p], m)
      BY <1>4, <1>7, <2>2, <2>3, BelowGrows DEF AllBelow
    <2> QED
      BY <2>1, <2>2, <2>3 DEF AllBelow
  <1> QED
    BY <1>6, <1>8 DEF DiskBelow

LEMMA CheckpointFailsIds ==
  ASSUME TypeOK, Ids, NEW S, S \subseteq DOMAIN cache \cup {"Meta"}, CheckpointFails(S) PROVE Ids'
  <1>1. /\ up /\ up' = up /\ UNCHANGED <<journal, meta, active, op>>
        /\ file' = Over(file, Only(Flushed, S)) /\ cache' = Only(cache, DOMAIN cache \ S)
        /\ ~failed' => ~failed /\ S \cap DOMAIN Group(cache) = {}
    BY DEF CheckpointFails, Fault, Leaves
  <1>2. MemoryBelow(file, cache, meta, active, op) /\ meta \in Nat
    BY <1>1, Counters DEF Ids
  <1>3. AllBelow(file', meta)
    BY <1>1, <1>2, FlushedBelow DEF MemoryBelow
  <1>4. CacheBelow(cache', meta) /\ \A n : CleanBelow(cache, n) => CleanBelow(cache', n)
    BY <1>1, <1>2 DEF MemoryBelow, CacheBelow, CleanBelow, Only
  <1>5. MemoryBelow(file', cache', meta', active', op')
    BY <1>1, <1>2, <1>3, <1>4 DEF MemoryBelow
  <1>6. ASSUME ~failed' PROVE DiskBelow(file', journal') /\ CounterOK(file', journal', cache', meta', meta_dirty_vs_journal')
    <2>1. ~failed /\ CounterOK(file, journal, cache, meta, meta_dirty_vs_journal)
      BY <1>1, <1>6 DEF Ids
    <2>2. DiskBelow(file', journal) /\ Counter(file', journal) \in {meta, Counter(file, journal)}
      BY <1>1, <1>6, <2>1, PartFlushed
    <2>3. IsCache(cache)
      BY DEF TypeOK, IsCache
    <2>4. CleanBelow(cache, Counter(file', journal))
      <3>1. CleanBelow(cache, meta)
        BY <1>2, <2>1, <2>3, Counters, AllGrow DEF CounterOK
      <3> QED
        BY <2>1, <2>2, <3>1 DEF CounterOK
    <2>5. "Meta" \in S => ~meta_dirty_vs_journal
      BY <1>1, <1>6 DEF Group
    <2>6. meta_dirty_vs_journal' = meta_dirty_vs_journal
      BY <2>5 DEF CheckpointFails, TypeOK
    <2> QED
      BY <1>1, <1>2, <1>4, <2>1, <2>2, <2>4, <2>6 DEF CounterOK
  <1> QED
    BY <1>1, <1>5, <1>6 DEF Ids

\* A process that dies leaves what is on disk, which has to be below its counter.
LEMMA DeathIds ==
  ASSUME ~up', UNCHANGED failed, ~failed, DiskBelow(file', journal')
  PROVE  Ids'
  BY DEF Ids

LEMMA CrashIds == ASSUME Ids, Crash, ~exposed' PROVE Ids'
  <1>1. ~up' /\ failed' = failed /\ ~failed /\ UNCHANGED <<file, journal>>
    BY DEF Crash, Die
  <1> QED
    BY <1>1, DeathIds DEF Ids

\* Whatever part of a group is in the journal, Meta is in front of it.
LEMMA CrashInGroupIds ==
  ASSUME TypeOK, FlagsOK, Ids, NEW c, IsCache(c), CacheBelow(c, meta), NEW part, CrashInGroup(c, part), ~exposed'
  PROVE  Ids'
  <1>1. /\ up /\ ~up' /\ failed' = failed /\ ~failed /\ file' = file /\ journal' = Appended(part)
        /\ part \in Parts(Group(c))
    BY DEF CrashInGroup, Die
  <1>2. ~broken /\ DiskBelow(file, journal) /\ CounterOK(file, journal, cache, meta, meta_dirty_vs_journal)
    BY <1>1 DEF FlagsOK, Ids
  <1>3. DiskBelow(file', journal')
    BY <1>1, <1>2, AppendedBelow DEF CounterOK
  <1> QED
    BY <1>1, <1>3, DeathIds

LEMMA CrashInEvictIds == ASSUME TypeOK, FlagsOK, Ids, CrashInEvict, ~exposed' PROVE Ids'
  <1>1. PICK part : CrashInGroup(cache, part)
    BY DEF CrashInEvict
  <1>2. CacheBelow(cache, meta) /\ IsCache(cache)
    BY <1>1 DEF CrashInGroup, Ids, MemoryBelow, TypeOK, IsCache
  <1> QED
    BY <1>1, <1>2, CrashInGroupIds

LEMMA CrashInCommitIds ==
  ASSUME TypeOK, FlagsOK, Ids, NEW t \in active, CrashInCommit(t), ~exposed' PROVE Ids'
  <1>1. PICK part : CrashInGroup(Marked(t), part)
    BY DEF CrashInCommit
  <1>2. up
    BY <1>1 DEF CrashInGroup
  <1> QED
    BY <1>1, <1>2, MarkedBelow, CrashInGroupIds

LEMMA CrashInCheckpointIds ==
  ASSUME TypeOK, Ids, NEW S, S \subseteq DOMAIN cache \cup {"Meta"}, CrashInCheckpoint(S), ~exposed' PROVE Ids'
  <1>1. /\ up /\ ~up' /\ failed' = failed /\ ~failed /\ journal' = journal
        /\ file' = Over(file, Only(Flushed, S)) /\ S \cap DOMAIN Group(cache) \subseteq {"Meta"}
    BY DEF CrashInCheckpoint, Die
  <1>2. DiskBelow(file', journal')
    BY <1>1, PartFlushed
  <1> QED
    BY <1>1, <1>2, DeathIds

\* Replaying makes the counter that of the process, and the pages those on file.
LEMMA RecoverIds == ASSUME TypeOK, FlagsOK, Ids, Recover PROVE Ids'
  <1> DEFINE n == Counter(file, journal)
  <1>1. /\ ~up /\ up' = TRUE /\ file' = Over(file, journal) /\ DOMAIN journal' = {} /\ meta' = file'["Meta"]
        /\ UNCHANGED <<cache, active, op>>
    BY DEF Recover, None
  <1>2. DOMAIN cache = {} /\ active = {} /\ op = Idle /\ DiskBelow(file, journal)
    BY <1>1 DEF FlagsOK, Ids
  <1>3. n \in Nat
    BY Counters
  <1>4. file'["Meta"] = n
    BY <1>1, Counters DEF Over, Counter, TypeOK
  <1>5. AllBelow(file', n)
    BY <1>1, <1>2 DEF DiskBelow, AllBelow, Over
  <1>6. Counter(file', journal') = n /\ meta' = n
    BY <1>1, <1>4 DEF Counter
  <1> HIDE DEF n
  <1>7. MemoryBelow(file', cache', meta', active', op')
    BY <1>1, <1>2, <1>5, <1>6 DEF MemoryBelow, CacheBelow
  <1>8. DiskBelow(file', journal') /\ CounterOK(file', journal', cache', meta', meta_dirty_vs_journal')
    BY <1>1, <1>2, <1>3, <1>5, <1>6 DEF DiskBelow, AllBelow, CounterOK, CleanBelow
  <1> QED
    BY <1>1, <1>7, <1>8 DEF Ids

LEMMA CrashInRecoveryIds == ASSUME TypeOK, Ids, NEW p \in DOMAIN journal, CrashInRecovery(p) PROVE Ids'
  <1>1. ~up /\ ~up' /\ failed' = failed /\ ~failed /\ journal' = journal /\ file' = [file EXCEPT ![p] = journal[p]]
    BY DEF CrashInRecovery, Ids, history
  <1>2. DiskBelow(file, journal) /\ p \in DOMAIN file
    BY <1>1 DEF Ids, TypeOK
  <1>3. Counter(file', journal') = Counter(file, journal)
    BY <1>1, <1>2 DEF Counter
  <1>4. AllBelow(file', Counter(file, journal))
    BY <1>1, <1>2 DEF DiskBelow, AllBelow
  <1>5. DiskBelow(file', journal')
    BY <1>1, <1>2, <1>3, <1>4 DEF DiskBelow
  <1> QED
    BY <1>1, <1>5, DeathIds

\* Every step that exposes nothing keeps the ids below the counter.
LEMMA IdStep == ASSUME TypeOK, FlagsOK, Ids, ~exposed', [Next]_vars PROVE Ids'
  <1>1. CASE Begin \/ FillLeaf \/ LinkParent \/ Checkpoint
    BY <1>1, BeginIds, FillLeafIds, LinkParentIds, CheckpointIds
  <1>2. ASSUME NEW k \in 1 .. MaxRow, SplitLeaf(k) PROVE Ids'
    BY <1>2, SplitLeafIds
  <1>3. ASSUME NEW t \in active, Insert(t) \/ Commit(t) \/ Abort(t) PROVE Ids'
    BY <1>3, InsertIds, CommitIds, AbortIds
  <1>4. ASSUME NEW t \in active, CommitFails(t) \/ AbortFails(t) \/ CrashInCommit(t) PROVE Ids'
    BY <1>4, CommitFailsIds, AbortIds, CrashInCommitIds
  <1>5. ASSUME NEW p \in Cacheable, Evict(p) \/ EvictLoses(p) PROVE Ids'
    BY <1>5, EvictIds
  <1>6. ASSUME NEW S, S \subseteq DOMAIN cache \cup {"Meta"}, CheckpointFails(S) \/ CrashInCheckpoint(S)
        PROVE  Ids'
    BY <1>6, CheckpointFailsIds, CrashInCheckpointIds
  <1>7. DOMAIN Flushed = DOMAIN cache \cup {"Meta"}
    BY DEF Flushed
  <1>8. CASE EvictFails \/ Crash \/ CrashInEvict \/ Recover
    BY <1>8, EvictFailsIds, CrashIds, CrashInEvictIds, RecoverIds
  <1>9. ASSUME NEW p \in DOMAIN journal, CrashInRecovery(p) PROVE Ids'
    BY <1>9, CrashInRecoveryIds
  <1>10. CASE UNCHANGED vars
    BY <1>10 DEF vars, disk, memory, history, Ids
  <1> QED
    BY <1>1, <1>2, <1>3, <1>4, <1>5, <1>6, <1>7, <1>8, <1>9, <1>10 DEF Next

\* What was exposed stays so.
LEMMA ExposedStays == exposed /\ [Next]_vars => exposed'
  BY DEF Next, vars, disk, memory, history, Begin, FillLeaf, LinkParent, Checkpoint, SplitLeaf,
     Insert, Commit, Abort, CommitFails, AbortFails, EvictFails, Evict, EvictLoses, CheckpointFails,
     Crash, CrashInEvict, CrashInCommit, CrashInGroup, CrashInCheckpoint, Recover, CrashInRecovery

\* No transaction id that a page names is handed out again, whatever part of a
\* group or of a split a crash has left, unless it came after a failed write or
\* in a checkpoint that had written pages the journal has not seen.
THEOREM FreshTxnIds == Spec => []TxnIdsAreFreshUnlessExposed
  <1>1. Init => IdInv
    <2> SUFFICES ASSUME Init PROVE IdInv
      OBVIOUS
    <2>1. TypeOK /\ FlagsOK
      BY InitInv DEF Inv
    <2>2. /\ meta = 1 /\ DOMAIN journal = {} /\ DOMAIN cache = {} /\ active = {} /\ op = Idle /\ up = TRUE
          /\ failed = FALSE /\ file["Meta"] = 1 /\ file["Left"] = {} /\ file["Right"] = {} /\ file["Clog"] = {}
      BY DEF Init, None, PageId, Cacheable, Leaf
    <2>3. \A p \in DOMAIN file : Below(p, file[p], 1)
      BY <2>2 DEF Below, Leaf
    <2> QED
      BY <2>1, <2>2, <2>3 DEF IdInv, Ids, MemoryBelow, AllBelow, CacheBelow, CleanBelow, DiskBelow, Counter, CounterOK
  <1>2. IdInv /\ [Next]_vars => IdInv'
    BY TypeStep, FlagsStep, IdStep, ExposedStays DEF IdInv
  <1>3. IdInv => TxnIdsAreFreshUnlessExposed
    <2> SUFFICES ASSUME IdInv, ~exposed, Steady PROVE TxnIdsAreFresh
      BY DEF TxnIdsAreFreshUnlessExposed, TxnIdsAreFresh
    <2>1. TypeOK /\ MemoryBelow(file, cache, meta, active, op)
      BY DEF IdInv, Ids, Steady
    <2>2. Below("Left", Page("Left"), meta) /\ Below("Right", Page("Right"), meta) /\ Below("Clog", Page("Clog"), meta)
      BY <2>1, PageBelow DEF MemoryBelow, Cacheable, Leaf
    <2> QED
      BY <2>2 DEF Below, Leaf, TxnIdsAreFresh
  <1> QED
    BY <1>1, <1>2, <1>3, PTL DEF Spec

\* No id that a page names is handed out again, by begin or by alloc_row_id,
\* but for the exceptions of the two theorems above.
THEOREM Freshness == Spec => []IdsAreFresh
  <1>1. TxnIdsAreFreshUnlessExposed /\ RowIdsAreFreshUnlessTorn => IdsAreFresh
    BY DEF IdsAreFresh
  <1> QED
    BY <1>1, FreshTxnIds, FreshRowIds, PTL
=============================================================================
