------------------------------- MODULE Journal -------------------------------
(***************************************************************************)
(* Crash recovery: the page cache and write ordering of                    *)
(* crates/ferrite-storage/src/pager.rs, the journal of wal.rs and the      *)
(* commit bitmap of clog.rs, under rows inserted into a B-tree leaf that   *)
(* may split (engine.rs insert_unique, btree.rs upsert). The process can   *)
(* die between any two writes; what it wrote to its files stays.  A write  *)
(* or a sync may also fail, and the process goes on.                       *)
(*                                                                         *)
(* Simplifications:                                                        *)
(*  - A page image is the one thing the properties ask of that page:       *)
(*      Meta    next_txn_id            Clog    ids with the commit bit     *)
(*      Header  next row id            Parent  whether it points at Right  *)
(*      Left, Right  the rows on the leaf, each with its author (xmin)     *)
(*  - The journal is what replaying it yields: the last image of each page *)
(*    in it. A process that dies while it appends a group of images leaves *)
(*    any part of the group (the pages come in hash order), Meta first.    *)
(*  - A cached page that is clean is the page on file, and is left out of  *)
(*    the cache; the victim of an eviction is any dirty page.              *)
(*  - No write is lost once it returned.                                   *)
(***************************************************************************)
EXTENDS Integers, FiniteSets

CONSTANTS
  MaxTxn,  \* bound: transaction ids
  MaxRow,  \* bound: row ids
  MaxFaults,    \* bound: writes and syncs that fail
  MaxFaultSize  \* bound: transactions begun and rows inserted by then, together

ASSUME JournalAssumption == MaxTxn \in Nat /\ MaxRow \in Nat /\ {MaxFaults, MaxFaultSize} \subseteq Nat

Leaf == {"Left", "Right"}
Cacheable == Leaf \cup {"Clog", "Header", "Parent"}
PageId == Cacheable \cup {"Meta"}

TxnId == 1 .. MaxTxn
Row == [id: 1 .. MaxRow, txn: TxnId]

VARIABLES
  up,       \* the process is running
  file,     \* data file: page -> image
  journal,  \* images to replay: page -> image, for the pages it has
  broken,   \* a record cut short is in the journal: replay stops there
  cache,    \* dirty cached pages: page -> [page, dirty_vs_journal]
  meta,     \* next_txn_id, as the pager holds it
  meta_dirty_vs_journal,
  active,   \* transactions running
  op,       \* the insert in progress, or Idle
  faults    \* writes and syncs that may still fail

\* History: the rows of acknowledged commits, every row inserted, whether a
\* failed write has left the journal with less than the flags of the cache say,
\* whether the journal holds all of a state between two operations, whether a
\* crash left less than that, and whether one came after a failed write or in a
\* checkpoint that had put pages on file which the journal has not seen.
VARIABLES acked, wrote, failed, whole, torn, exposed

disk == <<file, journal, broken>>
memory == <<cache, meta, meta_dirty_vs_journal, active, op>>
history == <<acked, wrote, failed, whole, torn, exposed>>
vars == <<up, disk, memory, faults, history>>

Idle == [stage |-> "idle"]
None == [p \in {} |-> p]  \* no page

\* f with the entries of g put over it.
Over(f, g) ==
  [p \in DOMAIN f \cup DOMAIN g |-> IF p \in DOMAIN g THEN g[p] ELSE f[p]]

Only(f, S) == [p \in DOMAIN f \cap S |-> f[p]]
-----------------------------------------------------------------------------
(* The page cache *)

\* with_page: a page as the process sees it.
Page(p) == IF p \in DOMAIN cache THEN cache[p].page ELSE file[p]

\* with_page_mut, for the pages of images: they become dirty both ways.
Touched(images) ==
  Over(cache, [p \in DOMAIN images |-> [page |-> images[p], dirty_vs_journal |-> TRUE]])

\* What journal_dirty_pages appends, given the cache: Meta if it changed, and
\* every page with changes the journal has not seen.
Group(c) ==
  LET unseen == {p \in DOMAIN c : c[p].dirty_vs_journal}
      changed == IF meta_dirty_vs_journal THEN {"Meta"} ELSE {}
  IN  [p \in unseen \cup changed |-> IF p = "Meta" THEN meta ELSE c[p].page]

\* Mutant: the meta page has no place of its own in the group.
PartsInAnyOrder(group) == {Only(group, S) : S \in SUBSET DOMAIN group}

\* What a process that dies in journal_dirty_pages may have appended.
Parts(group) ==
  {Only(group, S) : S \in {T \in SUBSET DOMAIN group :
     "Meta" \in DOMAIN group /\ T # {} => "Meta" \in T}}

Seen(c) == [p \in DOMAIN c |-> [c[p] EXCEPT !.dirty_vs_journal = FALSE]]

\* What replay yields once images were appended: nothing of what comes after a
\* broken record.
Appended(images) == IF broken THEN journal ELSE Over(journal, images)

\* journal_dirty_pages in full, from cache c.
Journalled(c) ==
  /\ journal' = Appended(Group(c))
  /\ meta_dirty_vs_journal' = FALSE
  /\ whole' = (op.stage # "parent" /\ ~failed)

\* evict_if_needed: when the victim has changes the journal has not seen, the
\* whole cache is journalled first; then the victim is written to the file.
Evict(p) ==
  /\ up
  /\ p \in DOMAIN cache
  /\ IF cache[p].dirty_vs_journal
     THEN Journalled(cache) /\ cache' = Only(Seen(cache), DOMAIN cache \ {p})
     ELSE /\ cache' = Only(cache, DOMAIN cache \ {p})
          /\ UNCHANGED <<journal, meta_dirty_vs_journal, whole>>
  /\ file' = [file EXCEPT ![p] = cache[p].page]
  /\ UNCHANGED <<up, broken, meta, active, op, faults, acked, wrote, failed, torn, exposed>>
-----------------------------------------------------------------------------
(* Operations *)

Init ==
  /\ up = TRUE
  /\ file = [p \in PageId |-> CASE p = "Parent" -> FALSE
                                [] p \in {"Meta", "Header"} -> 1
                                [] OTHER -> {}]
  /\ journal = None
  /\ cache = None
  /\ meta = 1
  /\ meta_dirty_vs_journal = FALSE
  /\ active = {}
  /\ op = Idle
  /\ broken = FALSE
  /\ faults = MaxFaults
  /\ acked = {} /\ wrote = {} /\ failed = FALSE /\ whole = TRUE
  /\ torn = FALSE /\ exposed = FALSE

Begin ==
  /\ up /\ op = Idle
  /\ meta <= MaxTxn
  /\ meta' = meta + 1
  /\ meta_dirty_vs_journal' = TRUE
  /\ active' = active \cup {meta}
  /\ UNCHANGED <<up, disk, cache, op, faults, history>>

\* insert_unique, first part: alloc_row_id.
Insert(t) ==
  /\ up /\ op = Idle
  /\ t \in active
  /\ Page("Header") <= MaxRow
  /\ cache' = Touched([p \in {"Header"} |-> Page(p) + 1])
  /\ op' = [stage |-> "leaf", row |-> [id |-> Page("Header"), txn |-> t]]
  /\ UNCHANGED <<up, disk, meta, meta_dirty_vs_journal, active, faults, history>>

\* upsert when the item fits on its leaf. New row ids are the largest, so the
\* leaf is the last one.
FillLeaf ==
  /\ up /\ op.stage = "leaf"
  /\ cache' = Touched([p \in {IF Page("Parent") THEN "Right" ELSE "Left"} |->
                         Page(p) \cup {op.row}])
  /\ op' = Idle
  /\ wrote' = wrote \cup {op.row}
  /\ UNCHANGED <<up, disk, meta, meta_dirty_vs_journal, active, faults, acked, failed, whole, torn, exposed>>

\* upsert when it does not: split_leaf moves the items from key k on to a new
\* page, which meta's page_count now counts.
SplitLeaf(k) ==
  /\ up /\ op.stage = "leaf"
  /\ ~Page("Parent")
  /\ \E r \in Page("Left") : r.id < k
  /\ LET items == Page("Left") \cup {op.row}
     IN  cache' = Touched([p \in Leaf |->
                    {r \in items : IF p = "Left" THEN r.id < k ELSE r.id >= k}])
  /\ meta_dirty_vs_journal' = TRUE
  /\ op' = [op EXCEPT !.stage = "parent"]
  /\ wrote' = wrote \cup {op.row}
  /\ UNCHANGED <<up, disk, meta, active, faults, acked, failed, whole, torn, exposed>>

\* propagate: the parent gets its pointer to the new page.
LinkParent ==
  /\ up /\ op.stage = "parent"
  /\ cache' = Touched([p \in {"Parent"} |-> TRUE])
  /\ op' = Idle
  /\ UNCHANGED <<up, disk, meta, meta_dirty_vs_journal, active, faults, history>>

\* Mutant: the bit next to it is set.
MarkedNext(t) == Touched([p \in {"Clog"} |-> Page(p) \cup {t + 1}])

\* mark_committed: the commit bit of t, in the cache.
Marked(t) == Touched([p \in {"Clog"} |-> Page(p) \cup {t}])

\* Mutant: the commit bit is set after the images were journalled.
CommitMarksLast(t) ==
  /\ up /\ op = Idle
  /\ t \in active
  /\ Journalled(cache)
  /\ cache' = Over(Seen(cache), Only(Marked(t), {"Clog"}))
  /\ active' = active \ {t}
  /\ acked' = acked \cup {r \in wrote : r.txn = t}
  /\ UNCHANGED <<up, file, broken, meta, op, faults, wrote, failed, torn, exposed>>

\* commit: the bit, commit_to_journal, and the answer to the client. The
\* checkpoint it may add is Checkpoint, below.
Commit(t) ==
  /\ up /\ op = Idle
  /\ t \in active
  /\ Journalled(Marked(t))
  /\ cache' = Seen(Marked(t))
  /\ active' = active \ {t}
  /\ acked' = acked \cup {r \in wrote : r.txn = t}
  /\ UNCHANGED <<up, file, broken, meta, op, faults, wrote, failed, torn, exposed>>

\* abort: an abort record, which recovery only counts.
Abort(t) ==
  /\ up /\ op = Idle
  /\ t \in active
  /\ active' = active \ {t}
  /\ UNCHANGED <<up, disk, cache, meta, meta_dirty_vs_journal, op, faults, history>>

\* What a checkpoint writes to the data file.
Flushed == [p \in DOMAIN cache \cup {"Meta"} |-> IF p = "Meta" THEN meta ELSE cache[p].page]

\* Mutant: the journal is discarded before the cached pages are on file.
CheckpointTruncatesOnly ==
  /\ up /\ op = Idle
  /\ journal' = None
  /\ broken' = FALSE
  /\ failed' = FALSE /\ whole' = TRUE
  /\ UNCHANGED <<up, file, memory, faults, acked, wrote, torn, exposed>>

Checkpoint ==
  /\ up /\ op = Idle
  /\ file' = Over(file, Flushed)
  /\ journal' = None
  /\ broken' = FALSE
  /\ cache' = None
  /\ meta_dirty_vs_journal' = FALSE
  /\ failed' = FALSE /\ whole' = TRUE
  /\ UNCHANGED <<up, meta, active, op, faults, acked, wrote, torn, exposed>>
-----------------------------------------------------------------------------
(* Failed writes.  The error goes to the caller and nothing is undone.     *)

Small == meta - 1 + Cardinality(wrote) <= MaxFaultSize

Fault == up /\ faults > 0 /\ Small /\ faults' = faults - 1

\* What a failure leaves: a record cut short, if the write got that far, and a
\* journal that no longer has all that the cache takes it to have.
Leaves(cut, less) ==
  /\ broken' = (broken \/ cut)
  /\ failed' = (failed \/ cut \/ less)

\* journal_dirty_pages, called with cache c, up to the page p whose image cannot
\* be appended: its flag is cleared before the append, that of Meta after it.
GroupFails(c) ==
  \E part \in Parts(Group(c)) \ {Group(c)}, p \in DOMAIN Group(c), cut \in BOOLEAN :
    /\ p \notin DOMAIN part
    /\ "Meta" \in DOMAIN Group(c) => ("Meta" \in DOMAIN part <=> p # "Meta")
    /\ journal' = Appended(part)
    /\ cache' = Over(c, Only(Seen(c), DOMAIN part \cup {p}))
    /\ meta_dirty_vs_journal' = (meta_dirty_vs_journal /\ p = "Meta")
    /\ Leaves(cut, p # "Meta")
    /\ whole' = (whole /\ ~failed')

\* commit fails in its group, in its commit record or in the sync. The bit is
\* set; the engine keeps the transaction in active, but its session has
\* forgotten it, so nothing more comes of it.
CommitFails(t) ==
  /\ Fault /\ op = Idle
  /\ t \in active
  /\ \/ GroupFails(Marked(t))
     \/ \E cut \in BOOLEAN :
          /\ journal' = Appended(Group(Marked(t)))
          /\ cache' = Seen(Marked(t)) /\ meta_dirty_vs_journal' = FALSE
          /\ Leaves(cut, FALSE)
          /\ whole' = ~failed'
  /\ active' = active \ {t}
  /\ UNCHANGED <<up, file, meta, op, acked, wrote, torn, exposed>>

\* abort: the transaction is over before its record is written.
AbortFails(t) ==
  /\ Fault /\ op = Idle
  /\ t \in active
  /\ active' = active \ {t}
  /\ \E cut \in BOOLEAN : Leaves(cut, FALSE)
  /\ whole' = (whole /\ ~failed')
  /\ UNCHANGED <<up, file, journal, cache, meta, meta_dirty_vs_journal, op, acked, wrote, torn, exposed>>

\* evict_if_needed fails in its group, and with it the operation that needed
\* room: of a split, only the first half remains.
EvictFails ==
  /\ Fault
  /\ \E p \in DOMAIN cache : cache[p].dirty_vs_journal
  /\ GroupFails(cache)
  /\ op' = Idle
  /\ torn' = (torn \/ op.stage = "parent")
  /\ UNCHANGED <<up, file, meta, active, acked, wrote, exposed>>

\* It fails when it writes the victim, which has left the cache by then: the
\* process reads the old page from the file, whatever the journal has.
EvictLoses(p) ==
  /\ Fault
  /\ p \in DOMAIN cache
  /\ IF cache[p].dirty_vs_journal
     THEN Journalled(cache) /\ cache' = Only(Seen(cache), DOMAIN cache \ {p})
     ELSE /\ cache' = Only(cache, DOMAIN cache \ {p})
          /\ UNCHANGED <<journal, meta_dirty_vs_journal, whole>>
  /\ op' = Idle
  /\ torn' = TRUE
  /\ UNCHANGED <<up, file, broken, meta, active, acked, wrote, failed, exposed>>

\* A checkpoint that has written the pages S, Meta last: they count as clean,
\* and the journal keeps what it had of them.
CheckpointFails(S) ==
  /\ Fault /\ op = Idle
  /\ file' = Over(file, Only(Flushed, S))
  /\ cache' = Only(cache, DOMAIN cache \ S)
  /\ meta_dirty_vs_journal' = (meta_dirty_vs_journal /\ "Meta" \notin S)
  /\ \E cut \in {FALSE, S = DOMAIN Flushed} : Leaves(cut, S \cap DOMAIN Group(cache) # {})
  /\ whole' = (whole /\ ~failed')
  /\ UNCHANGED <<up, journal, meta, active, op, acked, wrote, torn, exposed>>
-----------------------------------------------------------------------------
(* Crashes and recovery *)

\* The process is gone, and with it everything but its files.
Die ==
  /\ up' = FALSE
  /\ cache' = None
  /\ meta' = 1
  /\ meta_dirty_vs_journal' = FALSE
  /\ active' = {}
  /\ op' = Idle
  /\ UNCHANGED <<broken, faults, acked, wrote, failed, whole>>

Crash ==
  /\ up /\ Die
  /\ torn' = (torn \/ ~whole)
  /\ exposed' = (exposed \/ failed)
  /\ UNCHANGED <<file, journal>>

\* Death in journal_dirty_pages, called with cache c: part of the group is in.
\* Meta alone, or nothing, adds nothing to what the journal held.
CrashInGroup(c, part) ==
  /\ up
  /\ part \in Parts(Group(c))
  /\ Die
  /\ journal' = Appended(part)
  /\ torn' = (torn \/ IF DOMAIN part \subseteq {"Meta"} THEN ~whole
                      ELSE part # Group(c) \/ op.stage = "parent" \/ failed)
  /\ exposed' = (exposed \/ failed)
  /\ UNCHANGED file

CrashInEvict ==
  /\ \E p \in DOMAIN cache : cache[p].dirty_vs_journal
  /\ \E part \in Parts(Group(cache)) : CrashInGroup(cache, part)

CrashInCommit(t) ==
  /\ op = Idle
  /\ t \in active
  /\ \E part \in Parts(Group(Marked(t))) : CrashInGroup(Marked(t), part)

\* Death in a checkpoint that has written some pages, Meta last, and has not
\* come to truncate the journal.
CrashInCheckpoint(S) ==
  /\ up /\ op = Idle
  /\ Die
  /\ file' = Over(file, Only(Flushed, S))
  /\ torn' = (torn \/ ~whole \/ ~(DOMAIN Group(cache) \subseteq {"Meta"}))
  /\ exposed' = (exposed \/ failed \/ ~(S \cap DOMAIN Group(cache) \subseteq {"Meta"}))
  /\ UNCHANGED journal

\* open: recover replays the journal, which is then truncated. A transaction
\* id beyond the recovered counter was never used, as far as anybody knows.
Recover ==
  /\ ~up
  /\ up' = TRUE
  /\ file' = Over(file, journal)
  /\ journal' = None
  /\ meta' = file'["Meta"]
  /\ wrote' = {r \in wrote : r.txn < meta'}
  /\ broken' = FALSE
  /\ failed' = FALSE /\ whole' = TRUE
  /\ UNCHANGED <<cache, meta_dirty_vs_journal, active, op, faults, acked, torn, exposed>>

\* Recovery up to a crash of its own: an image is in the file, and still in
\* the journal.
CrashInRecovery(p) ==
  /\ ~up
  /\ file' = [file EXCEPT ![p] = journal[p]]
  /\ UNCHANGED <<up, journal, broken, memory, faults, history>>

Next ==
  \/ Begin \/ FillLeaf \/ LinkParent \/ Checkpoint
  \/ \E k \in 1 .. MaxRow : SplitLeaf(k)
  \/ \E t \in active : \/ Insert(t) \/ Commit(t) \/ Abort(t) \/ CrashInCommit(t)
                        \/ CommitFails(t) \/ AbortFails(t)
  \/ \E p \in Cacheable : Evict(p) \/ EvictLoses(p)
  \/ EvictFails
  \/ Crash \/ CrashInEvict \/ Recover
  \/ \E S \in SUBSET DOMAIN cache : CrashInCheckpoint(S) \/ CrashInCheckpoint(S \cup {"Meta"})
                                   \/ CheckpointFails(S)
  \/ CheckpointFails(DOMAIN Flushed)
  \/ \E p \in DOMAIN journal : CrashInRecovery(p)

Spec == Init /\ [][Next]_vars
-----------------------------------------------------------------------------
(* Properties *)

Steady == up /\ op = Idle

\* The rows a descent from the root finds, and those of them that committed.
Reachable == Page("Left") \cup (IF Page("Parent") THEN Page("Right") ELSE {})

Image(p) ==
  CASE p = "Meta" -> 1 .. MaxTxn + 1
    [] p = "Header" -> 1 .. MaxRow + 1
    [] p = "Parent" -> BOOLEAN
    [] p = "Clog" -> SUBSET TxnId
    [] p \in Leaf -> SUBSET Row

\* Every page has an image of its kind; the cache and the journal only have
\* pages they may have (pager.rs Entry, wal.rs Record).
TypeOK ==
  /\ up \in BOOLEAN /\ broken \in BOOLEAN
  /\ faults \in 0 .. MaxFaults /\ {failed, whole, torn, exposed} \subseteq BOOLEAN
  /\ meta_dirty_vs_journal \in BOOLEAN
  /\ DOMAIN file = PageId /\ \A p \in PageId : file[p] \in Image(p)
  /\ DOMAIN journal \subseteq PageId /\ \A p \in DOMAIN journal : journal[p] \in Image(p)
  /\ DOMAIN cache \subseteq Cacheable
  /\ \A p \in DOMAIN cache : cache[p] \in [page: Image(p), dirty_vs_journal: BOOLEAN]
  /\ meta \in Image("Meta")
  /\ active \subseteq TxnId /\ acked \subseteq Row /\ wrote \subseteq Row
  /\ op \in {Idle} \cup [stage: {"leaf", "parent"}, row: Row]

\* "Work that committed is still there" (tests/recovery.rs): a row whose commit
\* was acknowledged is found, and counts as committed.
Durable == Steady => \A r \in acked : r \in Reachable /\ r.txn \in Page("Clog")

\* Evictions at any time, checkpoints, crashes at rest, in recovery, or after
\* a whole group of images lose nothing that was acknowledged; nor does a
\* failed write or sync, before a crash or once a checkpoint went through. What
\* is exempt is torn: a crash with part of a group or half of a split in the
\* journal, one in a checkpoint of pages the journal has not seen, one after a
\* failed write, and a victim that could not be written.
DurableUnlessTorn == torn \/ Durable

\* "And nothing in between": unless a crash was torn (see above), a transaction
\* that counts as committed has all its rows.
AllOrNothing ==
  torn \/ (Steady => \A r \in wrote : r.txn \in Page("Clog") => r \in Reachable)

\* "A crashed transaction id is never handed out again" (tests/recovery.rs): no
\* page, reachable or not, names a transaction id that begin has yet to give.
TxnIdsAreFresh ==
  Steady => /\ \A r \in Page("Left") \cup Page("Right") : r.txn < meta
            /\ \A t \in Page("Clog") : t < meta

\* It holds after every crash between or inside groups of images, part of a
\* group left behind or not, because journal_dirty_pages puts Meta first; after
\* one in recovery; and after one in a checkpoint that has only written what the
\* journal has seen. Exempt are a crash after a failed write, and one in a
\* checkpoint that has put a page on file before its journal or Meta.
TxnIdsAreFreshUnlessExposed == exposed \/ TxnIdsAreFresh

\* Unless a crash was torn, no row has an id that alloc_row_id hands out again:
\* the counter is a page like the others and has no place of its own in a group.
RowIdsAreFreshUnlessTorn ==
  torn \/ (Steady => \A r \in Page("Left") \cup Page("Right") : r.id < Page("Header"))

\* What recovery leaves has no id that begin or alloc_row_id will hand out
\* again: transaction ids also after a torn crash, unless it exposed a page
\* before its Meta; row ids unless a crash was torn.
IdsAreFresh == TxnIdsAreFreshUnlessExposed /\ RowIdsAreFreshUnlessTorn
=============================================================================
