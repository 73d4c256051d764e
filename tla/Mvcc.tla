--------------------------------- MODULE Mvcc ---------------------------------
(***************************************************************************)
(* The transactional core of crates/ferrite-storage/src/engine.rs: version *)
(* chains, the commit bitmap, snapshots, write conflicts and pruning, for  *)
(* the rows of one table that exists throughout. Every operation runs      *)
(* under the engine's one mutex, so an operation is one action.            *)
(*                                                                         *)
(* Simplifications:                                                        *)
(*  - A chain (Vec<Version>, newest first) is a function from positions to *)
(*    versions, a larger position being nearer the front of the vector;    *)
(*    pruning leaves gaps that no operation looks at.                      *)
(*  - A row's bytes are a member of Value. B-tree, pages and journal are   *)
(*    Journal.tla's; the unique constraints are UniqueKeys.tla's.          *)
(*  - The sorted vector active_at_start is a set.                          *)
(***************************************************************************)
EXTENDS Integers, FiniteSets

CONSTANTS
  MaxTxn,  \* bound: transaction ids handed out in one behaviour
  MaxRow,  \* bound: row ids handed out in one behaviour
  Value,   \* row contents
  None     \* the answer to a read that finds nothing

ASSUME MvccAssumption ==
  /\ MaxTxn \in Nat
  /\ MaxRow \in Nat
  /\ None \notin Value

VARIABLES
  next_txn_id,  \* meta page: the next transaction id
  next_row_id,  \* table header page: the next row id
  active,       \* Inner.active: running transaction -> its snapshot
  committed,    \* clog: ids whose commit bit is set
  chain         \* chain[r]: the version chain of row r, empty when absent

vars == <<next_txn_id, next_row_id, active, committed, chain>>

NO_TXN == 0
RowId == 1 .. MaxRow
TxnId == Nat \ {NO_TXN}

Snapshot == [txn_id: TxnId, xmin: TxnId, active_at_start: SUBSET TxnId]
Version == [xmin: TxnId, xmax: Nat, bytes: Value]

\* Mutant: the creator of a version is not recorded.
live_without_xmin(txn, bytes) == [xmin |-> NO_TXN, xmax |-> NO_TXN, bytes |-> bytes]

live(txn, bytes) == [xmin |-> txn, xmax |-> NO_TXN, bytes |-> bytes]
EmptyChain == [p \in {} |-> p]

Running == DOMAIN active
-----------------------------------------------------------------------------
(* Snapshots and visibility *)

take_snapshot(txn, next) ==
  [txn_id |-> txn, xmin |-> next, active_at_start |-> Running \ {txn}]

visible_txn(snap, xid) ==
  /\ xid # NO_TXN
  /\ \/ xid = snap.txn_id
     \/ /\ xid < snap.xmin
        /\ xid \notin snap.active_at_start
        /\ xid \in committed

is_aborted(xid) == xid # NO_TXN /\ xid \notin Running /\ xid \notin committed

\* What the loop of visible_version accepts.
Seen(snap, version) ==
  visible_txn(snap, version.xmin) /\ ~visible_txn(snap, version.xmax)

\* p is the place where that loop stops.
IsFirstSeen(snap, c, p) ==
  /\ p \in DOMAIN c
  /\ Seen(snap, c[p])
  /\ \A q \in DOMAIN c : q > p => ~Seen(snap, c[q])

visible_version(snap, c) ==
  IF \E p \in DOMAIN c : Seen(snap, c[p])
  THEN c[CHOOSE p \in DOMAIN c : IsFirstSeen(snap, c, p)].bytes
  ELSE None

\* get, and one row of a scan: what transaction t reads at row r.
get(t, r) == visible_version(active[t], chain[r])
-----------------------------------------------------------------------------
(* Pruning *)

\* Mutant: only the snapshots' upper bounds hold the horizon back.
below_prune_horizon_by_xmin(xid) ==
  /\ xid < next_txn_id
  /\ \A t \in Running : xid < active[t].xmin

\* Mutant: a running transaction holds the horizon at its own id.
below_prune_horizon_by_own_id(xid) ==
  /\ xid < next_txn_id
  /\ \A t \in Running : xid < t /\ \A u \in active[t].active_at_start : xid < u

\* xid < prune_horizon(): below the id counter and, for every running
\* transaction, below its snapshot's bound and all it saw in flight.
below_prune_horizon(xid) ==
  /\ xid < next_txn_id
  /\ \A t \in Running : /\ xid < active[t].xmin
                        /\ \A u \in active[t].active_at_start : xid < u

\* The version pruning writes back: the mark of an aborted deleter is erased.
Cleaned(version) ==
  IF is_aborted(version.xmax) THEN [version EXCEPT !.xmax = NO_TXN] ELSE version

Kept(version) ==
  /\ ~is_aborted(version.xmin)
  /\ LET xmax == Cleaned(version).xmax
     IN  ~(xmax # NO_TXN /\ below_prune_horizon(xmax) /\ xmax \in committed)

\* Mutant: a version written by an aborted transaction is not dropped.
prune_keeps_aborted_xmin(c) ==
  [p \in {q \in DOMAIN c : is_aborted(c[q].xmin) \/ Kept(c[q])} |-> Cleaned(c[p])]

prune(c) == [p \in {q \in DOMAIN c : Kept(c[q])} |-> Cleaned(c[p])]
-----------------------------------------------------------------------------
(* Write conflicts *)

\* chain.first(): the newest version.
IsNewest(c, p) == p \in DOMAIN c /\ \A q \in DOMAIN c : q <= p

\* Mutant: a version being deleted by an unfinished transaction is free to take.
writable_ignores_deleter(snap, v) ==
  IF ~visible_txn(snap, v.xmin) THEN "SerializationFailure"
  ELSE IF visible_txn(snap, v.xmax) THEN "RowNotFound" ELSE "Ok"

\* Mutant: the writer of the newest version is not looked at.
writable_ignores_writer(snap, v) ==
  IF visible_txn(snap, v.xmax) THEN "RowNotFound"
  ELSE IF v.xmax = NO_TXN \/ is_aborted(v.xmax) THEN "Ok"
  ELSE "SerializationFailure"

\* The verdict of writable_version on the newest version of a chain.
writable(snap, v) ==
  IF ~visible_txn(snap, v.xmin) THEN "SerializationFailure"
  ELSE IF visible_txn(snap, v.xmax) THEN "RowNotFound"
  ELSE IF v.xmax = NO_TXN \/ is_aborted(v.xmax) THEN "Ok"
  ELSE "SerializationFailure"

writable_version(snap, c) ==
  IF c = EmptyChain THEN "RowNotFound"
  ELSE writable(snap, c[CHOOSE p \in DOMAIN c : IsNewest(c, p)])
-----------------------------------------------------------------------------
(* Operations *)

Init ==
  /\ next_txn_id = 1
  /\ next_row_id = 1
  /\ active = [t \in {} |-> t]
  /\ committed = {}
  /\ chain = [r \in RowId |-> EmptyChain]

\* A transaction a caller may still name: after a commit that failed the
\* session forgets it, although the engine keeps it in `active`.
Usable(t) == t \in Running /\ t \notin committed

Begin ==
  LET txn == next_txn_id IN
  /\ next_txn_id <= MaxTxn
  /\ next_txn_id' = txn + 1
  /\ active' = [t \in Running \cup {txn} |->
                  IF t = txn THEN take_snapshot(txn, txn + 1) ELSE active[t]]
  /\ UNCHANGED <<next_row_id, committed, chain>>

TakeSnapshot(t) ==
  /\ Usable(t)
  /\ active' = [active EXCEPT ![t] = take_snapshot(t, next_txn_id)]
  /\ UNCHANGED <<next_txn_id, next_row_id, committed, chain>>

Insert(t, v) ==
  /\ Usable(t)
  /\ next_row_id <= MaxRow
  /\ next_row_id' = next_row_id + 1
  /\ chain' = [chain EXCEPT ![next_row_id] = [p \in {1} |-> live(t, v)]]
  /\ UNCHANGED <<next_txn_id, active, committed>>

\* c with its newest version p superseded by transaction t: rewritten in place
\* when it is t's own, otherwise marked deleted under a new version.
Supersede(t, c, p, v) ==
  IF c[p].xmin = t
  THEN [c EXCEPT ![p].bytes = v]
  ELSE [q \in DOMAIN c \cup {p + 1} |->
          IF q = p + 1 THEN live(t, v)
          ELSE IF q = p THEN [c[p] EXCEPT !.xmax = t]
          ELSE c[q]]

Update(t, r, v) ==
  LET c == prune(chain[r]) IN
  /\ Usable(t)
  /\ \E p \in DOMAIN c :
       /\ IsNewest(c, p)
       /\ writable(active[t], c[p]) = "Ok"
       /\ chain' = [chain EXCEPT ![r] = Supersede(t, c, p, v)]
  /\ UNCHANGED <<next_txn_id, next_row_id, active, committed>>

Delete(t, r) ==
  LET c == prune(chain[r]) IN
  /\ Usable(t)
  /\ \E p \in DOMAIN c :
       /\ IsNewest(c, p)
       /\ writable(active[t], c[p]) = "Ok"
       /\ chain' = [chain EXCEPT ![r] = [c EXCEPT ![p].xmax = t]]
  /\ UNCHANGED <<next_txn_id, next_row_id, active, committed>>

\* update or delete returning an error: the pruned chain is dropped unwritten.
WriteRefused(t, r) ==
  /\ Usable(t)
  /\ writable_version(active[t], prune(chain[r])) # "Ok"
  /\ UNCHANGED vars

Forget(t) == [u \in Running \ {t} |-> active[u]]

Commit(t) ==
  /\ Usable(t)
  /\ committed' = committed \cup {t}
  /\ active' = Forget(t)
  /\ UNCHANGED <<next_txn_id, next_row_id, chain>>

\* commit_to_journal fails after the commit bit was set: the error leaves
\* commit early, with the transaction still in `active`.
CommitFails(t) ==
  /\ Usable(t)
  /\ committed' = committed \cup {t}
  /\ UNCHANGED <<next_txn_id, next_row_id, active, chain>>

Abort(t) ==
  /\ Usable(t)
  /\ active' = Forget(t)
  /\ UNCHANGED <<next_txn_id, next_row_id, committed, chain>>

\* An orderly shutdown (checkpoint) and open: only the table of running
\* transactions is lost.
Restart ==
  /\ active' = [t \in {} |-> t]
  /\ UNCHANGED <<next_txn_id, next_row_id, committed, chain>>

Next ==
  \/ Begin
  \/ Restart
  \/ \E t \in Running :
       \/ TakeSnapshot(t) \/ Commit(t) \/ CommitFails(t) \/ Abort(t)
       \/ \E v \in Value : Insert(t, v)
       \/ \E r \in RowId : \/ Delete(t, r) \/ WriteRefused(t, r)
                           \/ \E v \in Value : Update(t, r, v)

Spec == Init /\ [][Next]_vars
-----------------------------------------------------------------------------
(* Properties *)

\* A snapshot taken from outside any transaction: all that is committed and
\* no longer running.
Outside == [txn_id |-> NO_TXN, xmin |-> next_txn_id, active_at_start |-> Running]

\* The snapshots somebody may read with now.
Snapshots == {active[t] : t \in Running} \cup {Outside}

WrittenBy(t) ==
  {r \in RowId : \E p \in DOMAIN chain[r] : t \in {chain[r][p].xmin, chain[r][p].xmax}}

\* The rows another transaction committed a write of behind t's snapshot.
Stale(t) ==
  {r \in RowId : \E p \in DOMAIN chain[r] :
     \E x \in {chain[r][p].xmin, chain[r][p].xmax} :
       visible_txn(Outside, x) /\ ~visible_txn(active[t], x)}

IsChain(c) == c \in [DOMAIN c -> Version] /\ DOMAIN c \subseteq TxnId

\* Every component has its type: ids are below their counters, chains map
\* positions to versions (engine.rs Inner, version.rs Version).
TypeOK ==
  /\ next_txn_id \in TxnId
  /\ next_row_id \in TxnId
  /\ active \in [Running -> Snapshot]
  /\ committed \subseteq TxnId
  /\ DOMAIN chain = RowId
  /\ \A r \in RowId : IsChain(chain[r])

\* No two running transactions have an unfinished write of the same row: what
\* writable_version refuses, over any interleaving of writes, prunes, aborts
\* and restarts (the lost-update rule of engine.rs).
OneWriterPerRow ==
  \A t, u \in Running : t # u => WrittenBy(t) \cap WrittenBy(u) = {}

\* No reader ever faces two live versions of one row, so that visible_version
\* stopping at the first match loses nothing, whatever pruning removed.
OneVersionSeen ==
  \A s \in Snapshots : \A r \in RowId : \A p, q \in DOMAIN chain[r] :
    Seen(s, chain[r][p]) /\ Seen(s, chain[r][q]) => p = q

\* writable_version, which looks at one version of the pruned chain, decides
\* exactly by what the transaction reads and who else wrote: a write conflict
\* is neither missed nor invented.
VerdictIsExact ==
  \A t \in Running : \A r \in RowId : Usable(t) =>
    LET conflict == r \in Stale(t) \/ \E u \in Running \ {t} : r \in WrittenBy(u)
    IN  writable_version(active[t], prune(chain[r])) =
          IF conflict THEN "SerializationFailure"
          ELSE IF get(t, r) = None THEN "RowNotFound" ELSE "Ok"

\* What a transaction reads changes only by its own writes and by its own new
\* snapshot: no commit, abort, write or pruning of another transaction shows.
ReadsAreStable ==
  [][\A t \in Running \cap Running' : \A r \in RowId :
       active'[t] = active[t] /\ get(t, r)' # get(t, r)
         => Insert(t, get(t, r)') \/ Delete(t, r) \/ Update(t, r, get(t, r)')]_vars

\* A writer whose snapshot was taken with nobody else running, and who still
\* is alone, leaves at most the version it wrote and the one it replaced: the
\* "one or two versions" that pruning on the write path is there to ensure.
SoloWriterCompacts ==
  [][\A t \in Running : \A r \in RowId :
       Running = {t} /\ active[t].active_at_start = {} /\ chain'[r] # chain[r]
         => Cardinality(DOMAIN chain'[r]) <= 2]_vars

\* The abstract store: the table everybody sees from outside, and each running
\* transaction's private view of it.
StoreDb == [r \in RowId |-> visible_version(Outside, chain[r])]

StoreOpen ==
  [t \in Running |->
     [view |-> [r \in RowId |-> get(t, r)],
      written |-> WrittenBy(t),
      stale |-> Stale(t),
      doubtful |-> t \in committed]]

Store == INSTANCE SnapshotStore WITH
  Txn <- 1 .. MaxTxn, Row <- RowId,
  db <- StoreDb, used <- 1 .. next_row_id - 1, open <- StoreOpen

\* The engine implements the abstract store: version chains, commit bits,
\* snapshots and pruning together behave as private views over one committed
\* table, with atomic commits and first-committer-wins writes.
ImplementsSnapshotStore == Store!Spec
=============================================================================
