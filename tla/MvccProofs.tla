----------------------------- MODULE MvccProofs -----------------------------
(***************************************************************************)
(* Proofs about Mvcc, for any number of transactions, rows and values:     *)
(* type correctness, one unfinished writer per row and one visible version *)
(* per reader, from the inductive invariant Inv below; and that the engine *)
(* implements SnapshotStore: what its transactions read is a private view, *)
(* writes conflict exactly when the abstract store says so, and every step *)
(* of the engine is a step of the store or changes nothing in it.          *)
(***************************************************************************)
EXTENDS Mvcc, FiniteSetTheorems, WellFoundedInduction, TLAPS

\* Committed, and no longer in `active` (a failed commit stays there).
Settled(x) == x \in committed /\ x \notin Running

\* Ids come from the counter; a snapshot belongs to its transaction and sees
\* no other transaction that is still running.
IdsOK ==
  /\ \A x \in committed : x < next_txn_id
  /\ \A t \in Running : /\ t \in TxnId /\ t < next_txn_id
                        /\ active[t].txn_id = t
                        /\ active[t].xmin <= next_txn_id
                        /\ \A u \in Running \ {t} : \/ u \in active[t].active_at_start
                                                    \/ u >= active[t].xmin

ChainIdsOK(c) ==
  \A p \in DOMAIN c : c[p].xmin < next_txn_id /\ c[p].xmax < next_txn_id

\* Only its creator may delete a version whose creation is not settled.
OwnOK(c) ==
  \A p \in DOMAIN c : ~Settled(c[p].xmin) => c[p].xmax \in {NO_TXN, c[p].xmin}

\* How an older version relates to a newer one: both count unless their
\* creator aborted; the older is deleted for good, or by the transaction that
\* wrote the newer; and whoever sees the newer one created sees the older one
\* created and deleted.
Linked(old, new) ==
  /\ old.xmin \notin Running
  /\ old.xmax # NO_TXN
  /\ ~is_aborted(old.xmax)
  /\ old.xmax \in Running => old.xmax = new.xmin
  /\ \A t \in Running : visible_txn(active[t], new.xmin) =>
       visible_txn(active[t], old.xmin) /\ visible_txn(active[t], old.xmax)

LinksOK(c) ==
  \A p, q \in DOMAIN c :
    p < q /\ ~is_aborted(c[p].xmin) /\ ~is_aborted(c[q].xmin) => Linked(c[p], c[q])

ChainOK(c) == IsChain(c) /\ ChainIdsOK(c) /\ OwnOK(c) /\ LinksOK(c)

Inv ==
  /\ TypeOK
  /\ IdsOK
  /\ \A r \in RowId : ChainOK(chain[r])
-----------------------------------------------------------------------------
(* Initially *)

\* The empty database satisfies the invariant (engine.rs open_with).
LEMMA InitInv == Init => Inv
  BY MvccAssumption
  DEF Init, Inv, TypeOK, IdsOK, ChainOK, IsChain, ChainIdsOK, OwnOK, LinksOK,
      EmptyChain, Running, TxnId, Snapshot, RowId, NO_TXN
-----------------------------------------------------------------------------
(* Transactions *)

\* Beginning a transaction keeps the invariant: its id is new, so no chain
\* mentions it, and its snapshot sees exactly what is settled.
LEMMA BeginInv == Inv /\ Begin => Inv'
  <1> SUFFICES ASSUME Inv, Begin PROVE Inv'
    OBVIOUS
  <1>0. PICK n \in Nat : n = next_txn_id /\ n > 0
    BY DEF Inv, TypeOK, TxnId, NO_TXN
  <1>1. /\ next_txn_id' = n + 1 /\ Running' = Running \cup {n}
        /\ \A t \in Running : t # n /\ active'[t] = active[t]
        /\ active'[n] = [txn_id |-> n, xmin |-> n + 1, active_at_start |-> Running]
        /\ committed' = committed /\ chain' = chain /\ next_row_id' = next_row_id
    <2>1. n \notin Running
      BY <1>0 DEF Inv, IdsOK, TxnId
    <2>2. Running \ {n} = Running
      BY <2>1
    <2>3. active' = [t \in Running \cup {n} |->
                      IF t = n THEN take_snapshot(n, n + 1) ELSE active[t]]
      BY <1>0 DEF Begin
    <2>4. Running' = Running \cup {n}
      BY <2>3 DEF Running
    <2> QED
      BY <1>0, <2>1, <2>2, <2>3, <2>4 DEF Begin, take_snapshot
  <1>2. TypeOK'
    <2>1. active'[n] \in Snapshot
      BY <1>0, <1>1 DEF Inv, TypeOK, IdsOK, Snapshot, TxnId, NO_TXN
    <2>2. active' \in [Running' -> Snapshot]
      BY <1>1, <2>1 DEF Inv, TypeOK, Begin, Running
    <2> QED
      BY <1>0, <1>1, <2>2 DEF Inv, TypeOK, TxnId, IsChain, NO_TXN
  <1>3. IdsOK'
    BY <1>0, <1>1 DEF Inv, TypeOK, IdsOK, TxnId, Snapshot, NO_TXN
  <1>4. ASSUME NEW r \in RowId PROVE ChainOK(chain[r])'
    <2>1. IsChain(chain[r]) /\ ChainOK(chain[r]) /\ chain'[r] = chain[r]
      BY <1>1 DEF Inv, ChainOK
    <2>2. \A p \in DOMAIN chain[r] :
            /\ chain[r][p].xmin \in Nat /\ chain[r][p].xmin < n
            /\ chain[r][p].xmax \in Nat /\ chain[r][p].xmax < n
      BY <1>0, <2>1 DEF ChainOK, IsChain, ChainIdsOK, Version, TxnId
    <2>3. \A x \in Nat : x < n => (is_aborted(x)' <=> is_aborted(x))
                                /\ (Settled(x)' <=> Settled(x))
                                /\ (x \in Running' <=> x \in Running)
      BY <1>1 DEF is_aborted, Settled
    <2>4. \A x \in Nat : x < n =>
            (\A t \in Running : visible_txn(active[t], x)' <=> visible_txn(active[t], x))
      BY <1>1 DEF visible_txn
    <2>5. \A x \in Nat : x < n => (visible_txn(active[n], x)' <=> x # NO_TXN /\ Settled(x))
      BY <1>1 DEF visible_txn, Settled
    <2>6. IsChain(chain[r])' /\ ChainIdsOK(chain[r])'
      BY <1>0, <1>1, <2>1, <2>2 DEF IsChain, ChainIdsOK
    <2>7. OwnOK(chain[r])'
      BY <2>1, <2>2, <2>3 DEF ChainOK, OwnOK
    <2>8. LinksOK(chain[r])'
      <3> SUFFICES ASSUME NEW p \in DOMAIN chain[r], NEW q \in DOMAIN chain[r], p < q,
                          ~is_aborted(chain[r][p].xmin), ~is_aborted(chain[r][q].xmin)
                   PROVE  Linked(chain[r][p], chain[r][q])'
        BY <2>1, <2>2, <2>3 DEF LinksOK
      <3>1. Linked(chain[r][p], chain[r][q])
        BY <2>1 DEF ChainOK, LinksOK
      <3>2. visible_txn(active[n], chain[r][q].xmin)' =>
              visible_txn(active[n], chain[r][p].xmin)' /\ visible_txn(active[n], chain[r][p].xmax)'
        BY <2>1, <2>2, <2>5, <3>1 DEF Linked, is_aborted, Settled, IsChain, Version, TxnId
      <3> QED
        BY <1>1, <2>1, <2>2, <2>3, <2>4, <3>1, <3>2 DEF Linked
    <2> QED
      BY <2>6, <2>7, <2>8 DEF ChainOK
  <1> QED
    BY <1>2, <1>3, <1>4 DEF Inv

\* Taking a new snapshot keeps the invariant: it sees what is settled and the
\* transaction's own writes, and both are closed under Linked.
LEMMA TakeSnapshotInv == ASSUME NEW t \in Running, Inv, TakeSnapshot(t) PROVE Inv'
  <1>1. /\ next_txn_id' = next_txn_id /\ next_row_id' = next_row_id
        /\ committed' = committed /\ chain' = chain /\ Running' = Running
        /\ \A u \in Running \ {t} : active'[u] = active[u]
        /\ active'[t] = [txn_id |-> t, xmin |-> next_txn_id, active_at_start |-> Running \ {t}]
        /\ active' \in [Running -> Snapshot]
    <2>1. take_snapshot(t, next_txn_id) \in Snapshot
      BY DEF Inv, TypeOK, IdsOK, Snapshot, take_snapshot
    <2> QED
      BY <2>1 DEF Inv, TypeOK, TakeSnapshot, take_snapshot, Running
  <1>2. TypeOK'
    BY <1>1 DEF Inv, TypeOK, IsChain
  <1>3. IdsOK'
    BY <1>1 DEF Inv, TypeOK, IdsOK, TxnId, NO_TXN
  <1>4. ASSUME NEW r \in RowId PROVE ChainOK(chain[r])'
    <2>1. ChainOK(chain[r]) /\ chain'[r] = chain[r]
      BY <1>1 DEF Inv
    <2>2. \A x : (is_aborted(x)' <=> is_aborted(x)) /\ (Settled(x)' <=> Settled(x))
      BY <1>1 DEF is_aborted, Settled
    <2>3. \A x : \A u \in Running \ {t} :
            visible_txn(active[u], x)' <=> visible_txn(active[u], x)
      BY <1>1 DEF visible_txn
    <2>4. \A x \in Nat : x < next_txn_id =>
            (visible_txn(active[t], x)' <=> x # NO_TXN /\ (x = t \/ Settled(x)))
      BY <1>1 DEF visible_txn, Settled
    <2>5. \A p \in DOMAIN chain[r] :
            /\ chain[r][p].xmin \in Nat /\ chain[r][p].xmin < next_txn_id
            /\ chain[r][p].xmax \in Nat /\ chain[r][p].xmax < next_txn_id
            /\ chain[r][p].xmin # NO_TXN
      BY <2>1 DEF ChainOK, IsChain, ChainIdsOK, Version, TxnId
    <2>6. IsChain(chain[r])' /\ ChainIdsOK(chain[r])' /\ OwnOK(chain[r])'
      BY <1>1, <2>1, <2>2 DEF ChainOK, IsChain, ChainIdsOK, OwnOK
    <2>7. LinksOK(chain[r])'
      <3> SUFFICES ASSUME NEW p \in DOMAIN chain[r], NEW q \in DOMAIN chain[r], p < q,
                          ~is_aborted(chain[r][p].xmin), ~is_aborted(chain[r][q].xmin)
                   PROVE  Linked(chain[r][p], chain[r][q])'
        BY <2>1, <2>2 DEF LinksOK
      <3>1. Linked(chain[r][p], chain[r][q])
        BY <2>1 DEF ChainOK, LinksOK
      <3>2. visible_txn(active[t], chain[r][q].xmin)' =>
              visible_txn(active[t], chain[r][p].xmin)' /\ visible_txn(active[t], chain[r][p].xmax)'
        BY <2>1, <2>4, <2>5, <3>1 DEF Linked, is_aborted, Settled
      <3> QED
        BY <1>1, <2>1, <2>2, <2>3, <3>1, <3>2 DEF Linked
    <2> QED
      BY <2>6, <2>7 DEF ChainOK
  <1> QED
    BY <1>2, <1>3, <1>4 DEF Inv

\* A running transaction is invisible to every other running transaction.
LEMMA RunningInvisible ==
  ASSUME Inv, NEW t \in Running, NEW u \in Running, t # u
  PROVE  ~(t < active[u].xmin /\ t \notin active[u].active_at_start)
  BY DEF Inv, TypeOK, IdsOK, TxnId, Snapshot

\* Committing, successfully or not, keeps the invariant: no other running
\* transaction starts to see the one whose bit is set.
LEMMA CommitInv ==
  ASSUME NEW t \in Running, Inv, Commit(t) \/ CommitFails(t)
  PROVE  Inv'
  <1>1. /\ next_txn_id' = next_txn_id /\ next_row_id' = next_row_id /\ chain' = chain
        /\ committed' = committed \cup {t}
        /\ Running' \subseteq Running /\ Running \ {t} \subseteq Running'
        /\ \A u \in Running' : active'[u] = active[u]
        /\ active' \in [Running' -> Snapshot]
    BY DEF Inv, TypeOK, Commit, CommitFails, Forget, Running
  <1>2. TypeOK'
    BY <1>1 DEF Inv, TypeOK, IdsOK, IsChain
  <1>3. IdsOK'
    BY <1>1 DEF Inv, TypeOK, IdsOK, TxnId, NO_TXN
  <1>4. ASSUME NEW r \in RowId PROVE ChainOK(chain[r])'
    <2>1. ChainOK(chain[r]) /\ chain'[r] = chain[r]
      BY <1>1 DEF Inv
    <2>2. \A x : (is_aborted(x)' <=> is_aborted(x)) /\ (Settled(x) => Settled(x)')
      BY <1>1 DEF is_aborted, Settled
    <2>3. \A u \in Running' : \A x : visible_txn(active[u], x)' <=> visible_txn(active[u], x)
      <3> SUFFICES ASSUME NEW u \in Running', NEW x
                   PROVE  visible_txn(active[u], x)' <=> visible_txn(active[u], x)
        OBVIOUS
      <3>1. active[u].txn_id = u
        BY <1>1 DEF Inv, IdsOK
      <3>2. t # u => ~(t < active[u].xmin /\ t \notin active[u].active_at_start)
        BY <1>1, RunningInvisible
      <3> QED
        BY <1>1, <3>1, <3>2 DEF visible_txn
    <2>4. IsChain(chain[r])' /\ ChainIdsOK(chain[r])' /\ OwnOK(chain[r])'
      BY <1>1, <2>1, <2>2 DEF ChainOK, IsChain, ChainIdsOK, OwnOK
    <2>5. LinksOK(chain[r])'
      <3> SUFFICES ASSUME NEW p \in DOMAIN chain[r], NEW q \in DOMAIN chain[r], p < q,
                          ~is_aborted(chain[r][p].xmin), ~is_aborted(chain[r][q].xmin)
                   PROVE  Linked(chain[r][p], chain[r][q])'
        BY <2>1, <2>2 DEF LinksOK
      <3>1. Linked(chain[r][p], chain[r][q])
        BY <2>1 DEF ChainOK, LinksOK
      <3> QED
        BY <1>1, <2>1, <2>2, <2>3, <3>1 DEF Linked
    <2> QED
      BY <2>4, <2>5 DEF ChainOK
  <1> QED
    BY <1>2, <1>3, <1>4 DEF Inv

\* Aborting, and losing every running transaction in a restart, keeps the
\* invariant: a version that a vanished transaction deleted has a newer one
\* only if that transaction wrote it, and it vanishes too.
LEMMA VanishInv ==
  ASSUME Inv, Restart \/ \E t \in Running : Abort(t)
  PROVE  Inv'
  <1>1. /\ next_txn_id' = next_txn_id /\ next_row_id' = next_row_id /\ chain' = chain
        /\ committed' = committed
        /\ Running' \subseteq Running
        /\ \A u \in Running' : active'[u] = active[u]
        /\ active' \in [Running' -> Snapshot]
    BY DEF Inv, TypeOK, Restart, Abort, Forget, Running
  <1>2. TypeOK'
    BY <1>1 DEF Inv, TypeOK, IsChain
  <1>3. IdsOK'
    BY <1>1 DEF Inv, TypeOK, IdsOK, TxnId, NO_TXN
  <1>4. ASSUME NEW r \in RowId PROVE ChainOK(chain[r])'
    <2>1. ChainOK(chain[r]) /\ chain'[r] = chain[r]
      BY <1>1 DEF Inv
    <2>2. \A x : (~is_aborted(x)' => ~is_aborted(x)) /\ (Settled(x) => Settled(x)')
      BY <1>1 DEF is_aborted, Settled
    <2>3. \A u \in Running' : \A x : visible_txn(active[u], x)' <=> visible_txn(active[u], x)
      BY <1>1 DEF visible_txn
    <2>4. IsChain(chain[r])' /\ ChainIdsOK(chain[r])' /\ OwnOK(chain[r])'
      BY <1>1, <2>1, <2>2 DEF ChainOK, IsChain, ChainIdsOK, OwnOK
    <2>5. LinksOK(chain[r])'
      <3> SUFFICES ASSUME NEW p \in DOMAIN chain[r], NEW q \in DOMAIN chain[r], p < q,
                          ~is_aborted(chain[r][p].xmin)', ~is_aborted(chain[r][q].xmin)'
                   PROVE  Linked(chain[r][p], chain[r][q])'
        BY <2>1 DEF LinksOK
      <3>1. Linked(chain[r][p], chain[r][q])
        BY <2>1, <2>2 DEF ChainOK, LinksOK
      <3>2. ~is_aborted(chain[r][p].xmax)'
        BY <1>1, <2>1, <3>1 DEF Linked, is_aborted
      <3> QED
        BY <1>1, <2>1, <2>3, <3>1, <3>2 DEF Linked
    <2> QED
      BY <2>4, <2>5 DEF ChainOK
  <1> QED
    BY <1>2, <1>3, <1>4 DEF Inv
-----------------------------------------------------------------------------
(* Writes *)

\* Pruning keeps a chain well formed and leaves no trace of an aborted
\* transaction in it (engine.rs prune).
LEMMA PruneOK ==
  ASSUME Inv, NEW c, ChainOK(c)
  PROVE  /\ ChainOK(prune(c))
         /\ \A p \in DOMAIN prune(c) : /\ ~is_aborted(prune(c)[p].xmin)
                                       /\ ~is_aborted(prune(c)[p].xmax)
  <1> DEFINE d == prune(c)
  <1>1. /\ DOMAIN d \subseteq DOMAIN c
        /\ \A p \in DOMAIN d : d[p] = Cleaned(c[p]) /\ ~is_aborted(c[p].xmin)
    BY DEF prune, Kept
  <1>2. \A p \in DOMAIN c : c[p] \in Version
    BY DEF ChainOK, IsChain
  <1>3. ASSUME NEW p \in DOMAIN d
        PROVE  /\ d[p] \in Version /\ d[p].xmin = c[p].xmin /\ d[p].bytes = c[p].bytes
               /\ d[p].xmax = IF is_aborted(c[p].xmax) THEN NO_TXN ELSE c[p].xmax
    BY <1>1, <1>2 DEF Cleaned, Version, NO_TXN
  <1>4. \A p \in DOMAIN d : ~is_aborted(d[p].xmin) /\ ~is_aborted(d[p].xmax)
    BY <1>1, <1>3 DEF is_aborted
  <1>5. IsChain(d)
    <2>1. d = [p \in DOMAIN d |-> d[p]]
      BY DEF prune
    <2> QED
      BY <1>1, <1>3, <2>1 DEF ChainOK, IsChain
  <1>6. ChainIdsOK(d)
    BY <1>1, <1>3 DEF ChainOK, ChainIdsOK, Inv, TypeOK, TxnId, NO_TXN
  <1>7. OwnOK(d)
    BY <1>1, <1>3 DEF ChainOK, OwnOK
  <1>8. LinksOK(d)
    <2> SUFFICES ASSUME NEW p \in DOMAIN d, NEW q \in DOMAIN d, p < q
                 PROVE  Linked(d[p], d[q])
      BY DEF LinksOK
    <2>1. Linked(c[p], c[q])
      BY <1>1 DEF ChainOK, LinksOK
    <2> QED
      BY <1>3, <2>1 DEF Linked
  <1> QED
    BY <1>4, <1>5, <1>6, <1>7, <1>8 DEF ChainOK

\* The write check lets a transaction past only on a version that is its own
\* or settled, and that it sees.
LEMMA WritableOK ==
  ASSUME Inv, NEW t \in Running, NEW w \in Version, writable(active[t], w) = "Ok",
         ~is_aborted(w.xmax)
  PROVE  /\ visible_txn(active[t], w.xmin)
         /\ w.xmax = NO_TXN
         /\ w.xmin # t => Settled(w.xmin)
  <1>1. visible_txn(active[t], w.xmin) /\ w.xmax = NO_TXN
    BY DEF writable
  <1>2. active[t].txn_id = t
    BY DEF Inv, IdsOK
  <1>3. ASSUME w.xmin # t PROVE Settled(w.xmin)
    <2>1. w.xmin < active[t].xmin /\ w.xmin \notin active[t].active_at_start
          /\ w.xmin \in committed
      BY <1>1, <1>2, <1>3 DEF visible_txn
    <2> QED
      BY <1>3, <2>1, RunningInvisible DEF Settled
  <1> QED
    BY <1>1, <1>3

\* Superseding the newest version of a pruned chain keeps it well formed.
LEMMA SupersedeOK ==
  ASSUME Inv, NEW t \in Running, NEW c, ChainOK(c),
         \A q \in DOMAIN c : ~is_aborted(c[q].xmin) /\ ~is_aborted(c[q].xmax),
         NEW p \in DOMAIN c, IsNewest(c, p), writable(active[t], c[p]) = "Ok",
         NEW v \in Value
  PROVE  ChainOK(Supersede(t, c, p, v))
  <1>1. /\ t \in Nat /\ t # NO_TXN /\ t < next_txn_id /\ next_txn_id \in Nat
        /\ ~is_aborted(t) /\ ~Settled(t)
        /\ visible_txn(active[t], t)
    BY DEF Inv, TypeOK, IdsOK, TxnId, is_aborted, Settled, visible_txn
  <1>2. /\ c \in [DOMAIN c -> Version] /\ DOMAIN c \subseteq Nat \ {0}
        /\ \A q \in DOMAIN c : q <= p
    BY DEF ChainOK, IsChain, TxnId, IsNewest, NO_TXN
  <1>3. /\ visible_txn(active[t], c[p].xmin) /\ c[p].xmax = NO_TXN
        /\ c[p].xmin # t => Settled(c[p].xmin)
    BY <1>2, WritableOK
  <1>4. CASE c[p].xmin = t
    <2> DEFINE d == [c EXCEPT ![p].bytes = v]
    <2>1. /\ DOMAIN d = DOMAIN c /\ d \in [DOMAIN c -> Version]
          /\ \A q \in DOMAIN c : d[q].xmin = c[q].xmin /\ d[q].xmax = c[q].xmax
      BY <1>2 DEF Version
    <2>2. ChainOK(d)
      BY <2>1 DEF ChainOK, IsChain, ChainIdsOK, OwnOK, LinksOK, Linked
    <2> QED
      BY <1>4, <2>2 DEF Supersede
  <1>5. CASE c[p].xmin # t
    <2> DEFINE d == Supersede(t, c, p, v)
    <2>1. /\ p \in Nat /\ p + 1 \notin DOMAIN c /\ DOMAIN d = DOMAIN c \cup {p + 1}
          /\ d[p + 1] = live(t, v)
          /\ d[p] = [c[p] EXCEPT !.xmax = t]
          /\ \A q \in DOMAIN c : q # p => d[q] = c[q]
          /\ d = [q \in DOMAIN d |-> d[q]]
      BY <1>2, <1>5 DEF Supersede
    <2>2. /\ d[p + 1] \in Version /\ d[p + 1].xmin = t /\ d[p + 1].xmax = NO_TXN
          /\ d[p] \in Version /\ d[p].xmin = c[p].xmin /\ d[p].xmax = t
      BY <1>1, <1>2, <2>1 DEF live, Version, TxnId, NO_TXN
    <2>3. IsChain(d)
      BY <1>2, <2>1, <2>2 DEF IsChain, TxnId, NO_TXN
    <2>4. ChainIdsOK(d)
      <3> SUFFICES ASSUME NEW q \in DOMAIN d
                   PROVE  d[q].xmin < next_txn_id /\ d[q].xmax < next_txn_id
        BY DEF ChainIdsOK
      <3>1. c[p].xmin < next_txn_id /\ 0 < next_txn_id
        BY <1>1 DEF ChainOK, ChainIdsOK
      <3>2. CASE q = p \/ q = p + 1
        BY <1>1, <2>2, <3>1, <3>2 DEF NO_TXN
      <3>3. CASE q \in DOMAIN c /\ q # p
        BY <2>1, <3>3 DEF ChainOK, ChainIdsOK
      <3> QED
        BY <2>1, <3>2, <3>3
    <2>5. OwnOK(d)
      BY <1>3, <1>5, <2>1, <2>2 DEF ChainOK, OwnOK
    <2>6. ASSUME NEW q \in DOMAIN c, q # p PROVE Linked(c[q], c[p])
      BY <1>2, <2>6 DEF ChainOK, LinksOK
    <2>7. ASSUME NEW u \in Running, visible_txn(active[u], t) PROVE u = t
      BY <1>1, <2>7, RunningInvisible DEF visible_txn, Inv, IdsOK
    <2>8. ASSUME NEW q \in DOMAIN c PROVE Linked(d[q], d[p + 1])
      <3>1. CASE q = p
        BY <1>1, <1>3, <1>5, <2>2, <2>7, <3>1 DEF Linked, Settled
      <3>2. CASE q # p
        <4>1. Linked(c[q], c[p])
          BY <2>6, <3>2
        <4>2. c[q].xmax \notin Running
          BY <1>3, <1>5, <4>1 DEF Linked, Settled
        <4> QED
          BY <1>3, <2>1, <2>2, <2>7, <3>2, <4>1, <4>2 DEF Linked
      <3> QED
        BY <3>1, <3>2
    <2>9. LinksOK(d)
      <3> SUFFICES ASSUME NEW q \in DOMAIN d, NEW s \in DOMAIN d, q < s
                   PROVE  Linked(d[q], d[s])
        BY DEF LinksOK
      <3>1. q \in DOMAIN c
        BY <1>2, <2>1
      <3>2. CASE s = p + 1
        BY <2>8, <3>1, <3>2
      <3>3. CASE s # p + 1
        <4>1. s \in DOMAIN c /\ q # p
          BY <1>2, <2>1, <3>3
        <4>2. Linked(c[q], c[s])
          BY <3>1, <4>1 DEF ChainOK, LinksOK
        <4> QED
          BY <2>1, <2>2, <3>1, <4>1, <4>2 DEF Linked
      <3> QED
        BY <3>2, <3>3
    <2> QED
      BY <2>3, <2>4, <2>5, <2>9 DEF ChainOK
  <1> QED
    BY <1>4, <1>5

\* Deleting the newest version of a pruned chain keeps it well formed.
LEMMA DeleteOK ==
  ASSUME Inv, NEW t \in Running, NEW c, ChainOK(c),
         \A q \in DOMAIN c : ~is_aborted(c[q].xmin) /\ ~is_aborted(c[q].xmax),
         NEW p \in DOMAIN c, IsNewest(c, p), writable(active[t], c[p]) = "Ok"
  PROVE  ChainOK([c EXCEPT ![p].xmax = t])
  <1> DEFINE d == [c EXCEPT ![p].xmax = t]
  <1>1. t \in Nat /\ t < next_txn_id
    BY DEF Inv, TypeOK, IdsOK, TxnId
  <1>2. /\ c \in [DOMAIN c -> Version] /\ DOMAIN c \subseteq Nat
        /\ \A q \in DOMAIN c : q <= p
    BY DEF ChainOK, IsChain, TxnId, IsNewest
  <1>3. c[p].xmin # t => Settled(c[p].xmin)
    BY <1>2, WritableOK
  <1>4. /\ DOMAIN d = DOMAIN c /\ d \in [DOMAIN c -> Version]
        /\ \A q \in DOMAIN c : d[q].xmin = c[q].xmin /\ (q # p => d[q] = c[q])
        /\ d[p].xmax = t
    BY <1>1, <1>2 DEF Version
  <1>5. IsChain(d) /\ ChainIdsOK(d) /\ OwnOK(d)
    BY <1>1, <1>3, <1>4 DEF ChainOK, IsChain, ChainIdsOK, OwnOK
  <1>6. LinksOK(d)
    <2> SUFFICES ASSUME NEW q \in DOMAIN c, NEW s \in DOMAIN c, q < s
                 PROVE  Linked(d[q], d[s])
      BY <1>4 DEF LinksOK
    <2>1. Linked(c[q], c[s]) /\ q # p
      BY <1>2 DEF ChainOK, LinksOK
    <2> QED
      BY <1>4, <2>1 DEF Linked
  <1> QED
    BY <1>5, <1>6 DEF ChainOK

\* A step that replaces one chain by a well-formed one and touches neither
\* the transactions nor the commit bits keeps the invariant.
LEMMA WriteInv ==
  ASSUME Inv, NEW r \in RowId, NEW d, ChainOK(d), chain' = [chain EXCEPT ![r] = d],
         next_row_id' \in TxnId, UNCHANGED <<next_txn_id, active, committed>>
  PROVE  Inv'
  <1>1. ASSUME NEW c, ChainOK(c) PROVE ChainOK(c)'
    BY <1>1 DEF ChainOK, IsChain, ChainIdsOK, OwnOK, LinksOK, Linked, Settled, is_aborted,
                Running, visible_txn
  <1>2. DOMAIN chain' = RowId /\ \A s \in RowId : chain'[s] = IF s = r THEN d ELSE chain[s]
    BY DEF Inv, TypeOK
  <1>3. ASSUME NEW s \in RowId PROVE ChainOK(chain[s])'
    <2>1. PICK c : c = chain'[s] /\ ChainOK(c)
      BY <1>2 DEF Inv
    <2> QED
      BY <1>1, <2>1
  <1>4. TypeOK'
    BY <1>2, <1>3 DEF Inv, TypeOK, ChainOK, Running
  <1>5. IdsOK'
    BY DEF Inv, IdsOK, Running
  <1> QED
    BY <1>3, <1>4, <1>5 DEF Inv

\* Every write of a row keeps the invariant.
LEMMA RowWriteInv ==
  ASSUME Inv, NEW t \in Running,
         \/ \E v \in Value : Insert(t, v)
         \/ \E r \in RowId : Delete(t, r) \/ \E v \in Value : Update(t, r, v)
  PROVE  Inv'
  <1>1. ASSUME NEW v \in Value, Insert(t, v) PROVE Inv'
    <2> DEFINE d == [p \in {1} |-> live(t, v)]
    <2>1. /\ next_row_id \in RowId /\ next_row_id' \in TxnId
          /\ t \in TxnId /\ t < next_txn_id /\ next_txn_id \in TxnId
      BY <1>1, MvccAssumption DEF Insert, Inv, TypeOK, IdsOK, RowId, TxnId, NO_TXN
    <2>2. ChainOK(d)
      BY <2>1 DEF ChainOK, IsChain, ChainIdsOK, OwnOK, LinksOK, live, Version, TxnId, NO_TXN
    <2> QED
      BY <1>1, <2>1, <2>2, WriteInv DEF Insert
  <1>2. ASSUME NEW r \in RowId, Delete(t, r) PROVE Inv'
    <2>1. PICK c : c = prune(chain[r])
      OBVIOUS
    <2>2. /\ ChainOK(c)
          /\ \A q \in DOMAIN c : ~is_aborted(c[q].xmin) /\ ~is_aborted(c[q].xmax)
      BY <2>1, PruneOK DEF Inv
    <2>3. PICK p \in DOMAIN c : /\ IsNewest(c, p) /\ writable(active[t], c[p]) = "Ok"
                                /\ chain' = [chain EXCEPT ![r] = [c EXCEPT ![p].xmax = t]]
      BY <1>2, <2>1 DEF Delete
    <2>4. ChainOK([c EXCEPT ![p].xmax = t])
      BY <2>2, <2>3, DeleteOK
    <2>5. next_row_id' \in TxnId /\ UNCHANGED <<next_txn_id, active, committed>>
      BY <1>2 DEF Delete, Inv, TypeOK
    <2> QED
      BY <2>3, <2>4, <2>5, WriteInv
  <1>3. ASSUME NEW r \in RowId, NEW v \in Value, Update(t, r, v) PROVE Inv'
    <2>1. PICK c : c = prune(chain[r])
      OBVIOUS
    <2>2. /\ ChainOK(c)
          /\ \A q \in DOMAIN c : ~is_aborted(c[q].xmin) /\ ~is_aborted(c[q].xmax)
      BY <2>1, PruneOK DEF Inv
    <2>3. PICK p \in DOMAIN c : /\ IsNewest(c, p) /\ writable(active[t], c[p]) = "Ok"
                                /\ chain' = [chain EXCEPT ![r] = Supersede(t, c, p, v)]
      BY <1>3, <2>1 DEF Update
    <2>4. ChainOK(Supersede(t, c, p, v))
      BY <2>2, <2>3, SupersedeOK
    <2>5. next_row_id' \in TxnId /\ UNCHANGED <<next_txn_id, active, committed>>
      BY <1>3 DEF Update, Inv, TypeOK
    <2> QED
      BY <2>3, <2>4, <2>5, WriteInv
  <1> QED
    BY <1>1, <1>2, <1>3
-----------------------------------------------------------------------------
(* The theorems *)

\* Every step keeps the invariant.
LEMMA NextInv == Inv /\ [Next]_vars => Inv'
  <1> SUFFICES ASSUME Inv, [Next]_vars PROVE Inv'
    OBVIOUS
  <1>1. CASE UNCHANGED vars
    BY <1>1 DEF vars, Inv, TypeOK, IdsOK, ChainOK, IsChain, ChainIdsOK, OwnOK, LinksOK, Linked,
                Settled, is_aborted, visible_txn, Running
  <1>2. CASE Begin
    BY <1>2, BeginInv
  <1>3. CASE Restart
    BY <1>3, VanishInv
  <1>4. ASSUME NEW t \in Running,
               \/ TakeSnapshot(t) \/ Commit(t) \/ CommitFails(t) \/ Abort(t)
        PROVE  Inv'
    BY <1>4, TakeSnapshotInv, CommitInv, VanishInv
  <1>5. ASSUME NEW t \in Running, NEW r \in RowId, WriteRefused(t, r) PROVE Inv'
    BY <1>1, <1>5 DEF WriteRefused
  <1> QED
    BY <1>1, <1>2, <1>3, <1>4, <1>5, RowWriteInv DEF Next

\* The inductive invariant holds throughout.
THEOREM Invariance == Spec => []Inv
  BY InitInv, NextInv, PTL DEF Spec

\* Ids, snapshots, commit bits and version chains have their types in every
\* reachable state of the engine.
THEOREM TypeCorrect == Spec => []TypeOK
  <1>1. Inv => TypeOK
    BY DEF Inv
  <1> QED
    BY <1>1, Invariance, PTL

\* Of two unfinished writers of a row, the later one's write would have been
\* refused: OneWriterPerRow follows from how the versions are linked.
LEMMA WriterUnique == Inv => OneWriterPerRow
  <1>1. ASSUME Inv, NEW t \in Running, NEW u \in Running, t # u, NEW r \in RowId,
               NEW p \in DOMAIN chain[r], t \in {chain[r][p].xmin, chain[r][p].xmax},
               NEW q \in DOMAIN chain[r], u \in {chain[r][q].xmin, chain[r][q].xmax},
               p <= q
        PROVE  FALSE
    <2> DEFINE c == chain[r]
    <2>1. ChainOK(c)
      BY <1>1 DEF Inv
    <2>2. t # NO_TXN /\ u # NO_TXN /\ ~is_aborted(t) /\ ~is_aborted(u) /\ ~Settled(t) /\ ~Settled(u)
      BY <1>1 DEF Inv, IdsOK, TxnId, is_aborted, Settled
    <2>3. ~is_aborted(c[p].xmin) /\ ~is_aborted(c[q].xmin)
      BY <1>1, <2>1, <2>2 DEF ChainOK, OwnOK, is_aborted, Settled
    <2>4. CASE p = q
      BY <1>1, <2>1, <2>2, <2>4 DEF ChainOK, OwnOK
    <2>5. CASE p # q
      <3>1. Linked(c[p], c[q])
        BY <1>1, <2>1, <2>3, <2>5 DEF ChainOK, LinksOK, IsChain, TxnId
      <3>2. t = c[q].xmin
        BY <1>1, <3>1 DEF Linked
      <3> QED
        BY <1>1, <2>1, <2>2, <3>2 DEF ChainOK, OwnOK
    <2> QED
      BY <2>4, <2>5
  <1> QED
    <2>0. \A t : WrittenBy(t) \subseteq RowId
      BY DEF WrittenBy
    <2> SUFFICES ASSUME Inv, NEW t \in Running, NEW u \in Running, t # u, NEW r \in RowId,
                        r \in WrittenBy(t), r \in WrittenBy(u)
                 PROVE  FALSE
      BY <2>0 DEF OneWriterPerRow
    <2>1. PICK p \in DOMAIN chain[r] : t \in {chain[r][p].xmin, chain[r][p].xmax}
      BY DEF WrittenBy
    <2>2. PICK q \in DOMAIN chain[r] : u \in {chain[r][q].xmin, chain[r][q].xmax}
      BY DEF WrittenBy
    <2>3. p <= q \/ q <= p
      BY DEF Inv, ChainOK, IsChain, TxnId
    <2>4. CASE p <= q
      BY <1>1, <2>1, <2>2, <2>4
    <2>5. CASE q <= p
      BY <1>1, <2>1, <2>2, <2>5
    <2> QED
      BY <2>3, <2>4, <2>5

\* No two running transactions ever have an unfinished write of the same row:
\* the engine loses no update, for any number of transactions and rows.
THEOREM SingleWriter == Spec => []OneWriterPerRow
  BY WriterUnique, Invariance, PTL

\* A snapshot sees at most one version of a well-formed chain: of two it sees
\* created, it sees the older one deleted.
LEMMA SeenOnce ==
  ASSUME Inv, NEW s \in Snapshots, NEW c, ChainOK(c),
         NEW p \in DOMAIN c, NEW q \in DOMAIN c, Seen(s, c[p]), Seen(s, c[q])
  PROVE  p = q
  <1>1. ASSUME NEW old \in DOMAIN c, NEW new \in DOMAIN c, old < new,
               Seen(s, c[old]), Seen(s, c[new])
        PROVE  FALSE
    <2>1. c[old] \in Version /\ c[new] \in Version
      BY DEF ChainOK, IsChain
    <2>2. CASE s = Outside
      <3>1. Settled(c[old].xmin) /\ Settled(c[new].xmin)
        BY <1>1, <2>1, <2>2 DEF Seen, visible_txn, Outside, Settled, Version, TxnId, NO_TXN
      <3>2. Linked(c[old], c[new])
        BY <1>1, <3>1 DEF ChainOK, LinksOK, is_aborted, Settled
      <3>3. c[old].xmax # NO_TXN /\ Settled(c[old].xmax) /\ c[old].xmax < next_txn_id
        BY <3>1, <3>2 DEF Linked, Settled, is_aborted, ChainOK, ChainIdsOK
      <3> QED
        BY <1>1, <2>2, <3>3 DEF Seen, visible_txn, Outside, Settled
    <2>3. ASSUME NEW t \in Running, s = active[t] PROVE FALSE
      <3>1. ~is_aborted(c[old].xmin) /\ ~is_aborted(c[new].xmin)
        BY <1>1, <2>3 DEF Seen, visible_txn, is_aborted, Inv, IdsOK
      <3>2. Linked(c[old], c[new])
        BY <1>1, <3>1 DEF ChainOK, LinksOK
      <3> QED
        BY <1>1, <2>3, <3>2 DEF Linked, Seen
    <2> QED
      BY <2>2, <2>3 DEF Snapshots
  <1>2. p < q \/ q < p \/ p = q
    BY DEF ChainOK, IsChain, TxnId
  <1> QED
    BY <1>1, <1>2

\* No reader, running or yet to come, ever faces two live versions of a row.
THEOREM SingleVersion == Spec => []OneVersionSeen
  <1>1. Inv => OneVersionSeen
    BY SeenOnce DEF OneVersionSeen, Inv
  <1> QED
    BY <1>1, Invariance, PTL
-----------------------------------------------------------------------------
(* The snapshot store *)

Sees(t, x) == visible_txn(active[t], x)
Public(x) == visible_txn(Outside, x)

\* The transactions a chain mentions.
Ids(c) == UNION {{c[p].xmin, c[p].xmax} : p \in DOMAIN c}

\* Who sees a version deleted sees it created.
DeletionsOK(c) ==
  \A p \in DOMAIN c : \A t \in Running : Sees(t, c[p].xmax) => Sees(t, c[p].xmin)

\* A chain has a newest version unless it is empty.
Bounded(c) == \E n \in Nat : \A p \in DOMAIN c : p <= n

\* Besides Inv: deletions, bounds, and no versions of a row whose id has not
\* been handed out, and the bound on transaction ids.
StoreInv ==
  /\ Inv
  /\ \A r \in RowId : DeletionsOK(chain[r]) /\ Bounded(chain[r])
  /\ \A r \in RowId : r >= next_row_id => DOMAIN chain[r] = {}
  /\ next_txn_id <= MaxTxn + 1
-----------------------------------------------------------------------------
(* Visibility *)

\* From outside, exactly the settled transactions count.
LEMMA PublicIs ==
  ASSUME Inv, NEW x \in Nat, x < next_txn_id
  PROVE  Public(x) <=> x # NO_TXN /\ Settled(x)
  BY DEF Public, visible_txn, Outside, Settled, Inv, TypeOK, TxnId

\* A transaction sees itself and, of the others, only settled ones.
LEMMA SeesIs ==
  ASSUME Inv, NEW t \in Running
  PROVE  /\ Sees(t, t) /\ ~Sees(t, NO_TXN) /\ ~Public(t) /\ ~Settled(t) /\ t # NO_TXN
         /\ \A x : Sees(t, x) /\ x # t => Settled(x)
  <1>1. t # NO_TXN /\ active[t].txn_id = t /\ t < next_txn_id /\ t \in Nat
    BY DEF Inv, IdsOK, TxnId
  <1>2. ASSUME NEW x, Sees(t, x), x # t PROVE Settled(x)
    <2>1. x < active[t].xmin /\ x \notin active[t].active_at_start /\ x \in committed
      BY <1>1, <1>2 DEF Sees, visible_txn
    <2> QED
      BY <1>2, <2>1, RunningInvisible DEF Settled
  <1>3. Sees(t, t) /\ ~Sees(t, NO_TXN)
    BY <1>1 DEF Sees, visible_txn
  <1>4. ~Settled(t)
    BY DEF Settled
  <1>5. ~Public(t)
    BY <1>1, <1>4, PublicIs
  <1> QED
    BY <1>1, <1>2, <1>3, <1>4, <1>5

\* The ids of a chain are ids that were handed out, or none.
LEMMA IdsType ==
  ASSUME Inv, NEW c, ChainOK(c)
  PROVE  /\ \A p \in DOMAIN c : c[p].xmin \in Ids(c) /\ c[p].xmax \in Ids(c)
         /\ \A x \in Ids(c) : x \in Nat /\ x < next_txn_id
         /\ \A x \in Ids(c) : \E p \in DOMAIN c : x = c[p].xmin \/ x = c[p].xmax
  <1>1. \A p \in DOMAIN c : c[p].xmin \in Nat /\ c[p].xmax \in Nat
    BY DEF ChainOK, IsChain, Version, TxnId
  <1>2. \A x : x \in Ids(c) <=> \E p \in DOMAIN c : x = c[p].xmin \/ x = c[p].xmax
    BY DEF Ids
  <1> QED
    BY <1>1, <1>2 DEF ChainOK, ChainIdsOK

\* A transaction that wrote a row has seen everything settled in its chain:
\* nobody could write it since, and it could not have written it otherwise.
LEMMA WriterSeesAll ==
  ASSUME Inv, NEW c, ChainOK(c), DeletionsOK(c), NEW t \in Running, t \in Ids(c),
         NEW x \in Ids(c), Settled(x), x # NO_TXN
  PROVE  Sees(t, x)
  <1>1. PICK q \in DOMAIN c : t = c[q].xmin \/ t = c[q].xmax
    BY IdsType
  <1>2. PICK p \in DOMAIN c : x = c[p].xmin \/ x = c[p].xmax
    BY IdsType
  <1>3. Sees(t, c[q].xmin)
    BY <1>1, SeesIs DEF DeletionsOK
  <1>4. ~is_aborted(c[q].xmin)
    BY <1>3, SeesIs DEF is_aborted, Settled
  <1>5. ~is_aborted(c[p].xmin)
    BY <1>2 DEF ChainOK, OwnOK, is_aborted, Settled
  <1>6. p < q \/ q < p \/ p = q
    BY DEF ChainOK, IsChain, TxnId
  <1>7. CASE p < q
    <2>1. Linked(c[p], c[q])
      BY <1>4, <1>5, <1>7 DEF ChainOK, LinksOK
    <2> QED
      BY <1>2, <1>3, <2>1 DEF Linked, Sees
  <1>8. CASE q < p
    <2>1. Linked(c[q], c[p])
      BY <1>4, <1>5, <1>8 DEF ChainOK, LinksOK
    <2>2. t = c[p].xmin
      BY <1>1, <2>1 DEF Linked
    <2>3. c[p].xmax \in {NO_TXN, t}
      BY <2>2, SeesIs DEF ChainOK, OwnOK
    <2> QED
      BY <1>2, <2>2, <2>3, SeesIs
  <1>9. CASE p = q
    <2>1. CASE t = c[q].xmin
      BY <1>2, <1>9, <2>1, SeesIs DEF ChainOK, OwnOK
    <2>2. CASE t = c[q].xmax
      BY <1>2, <1>3, <1>9, <2>2, SeesIs
    <2> QED
      BY <1>1, <2>1, <2>2
  <1> QED
    BY <1>6, <1>7, <1>8, <1>9
-----------------------------------------------------------------------------
(* Reading *)

\* The one version a snapshot sees is what it reads, before and after a step.
LEMMA ReadSeen ==
  ASSUME NEW s, NEW c, DOMAIN c \subseteq Nat, NEW p \in DOMAIN c, Seen(s, c[p]),
         \A q \in DOMAIN c : Seen(s, c[q]) => q = p
  PROVE  visible_version(s, c) = c[p].bytes
  <1>1. IsFirstSeen(s, c, p)
    BY DEF IsFirstSeen
  <1>2. \A q \in DOMAIN c : IsFirstSeen(s, c, q) => q = p
    BY DEF IsFirstSeen
  <1>3. (CHOOSE q \in DOMAIN c : IsFirstSeen(s, c, q)) = p
    BY <1>1, <1>2
  <1> QED
    BY <1>3 DEF visible_version

\* The same after a step.
LEMMA ReadSeenNext ==
  ASSUME NEW s, NEW c, DOMAIN c \subseteq Nat, NEW p \in DOMAIN c, Seen(s, c[p])',
         \A q \in DOMAIN c : Seen(s, c[q])' => q = p
  PROVE  visible_version(s, c)' = c[p].bytes
  <1>1. IsFirstSeen(s, c, p)'
    BY DEF IsFirstSeen
  <1>2. \A q \in DOMAIN c : IsFirstSeen(s, c, q)' => q = p
    BY DEF IsFirstSeen
  <1>3. (CHOOSE q \in DOMAIN c : IsFirstSeen(s, c, q)') = p
    BY <1>1, <1>2
  <1> QED
    BY <1>3 DEF visible_version

\* Two snapshots that see the same versions of two chains read the same.
LEMMA SameRead ==
  ASSUME NEW s, NEW c, DOMAIN c \subseteq Nat,
         \A p, q \in DOMAIN c : Seen(s, c[p]) /\ Seen(s, c[q]) => p = q,
         NEW z, NEW d, DOMAIN d \subseteq Nat,
         \A p \in DOMAIN c : Seen(s, c[p]) =>
           p \in DOMAIN d /\ Seen(z, d[p])' /\ d[p].bytes = c[p].bytes,
         \A p \in DOMAIN d : Seen(z, d[p])' => p \in DOMAIN c /\ Seen(s, c[p])
  PROVE  visible_version(z, d)' = visible_version(s, c)
  <1>1. CASE \E p \in DOMAIN c : Seen(s, c[p])
    <2>1. PICK p \in DOMAIN c : Seen(s, c[p])
      BY <1>1
    <2>2. visible_version(s, c) = c[p].bytes
      BY <2>1, ReadSeen
    <2>3. p \in DOMAIN d /\ Seen(z, d[p])' /\ \A q \in DOMAIN d : Seen(z, d[q])' => q = p
      BY <2>1
    <2>4. visible_version(z, d)' = d[p].bytes
      BY <2>3, ReadSeenNext
    <2> QED
      BY <2>1, <2>2, <2>4
  <1>2. CASE ~\E p \in DOMAIN c : Seen(s, c[p])
    <2>1. ~\E p \in DOMAIN d : Seen(z, d[p])'
      BY <1>2
    <2>2. visible_version(s, c) = None
      BY <1>2 DEF visible_version
    <2>3. visible_version(z, d)' = None
      BY <2>1 DEF visible_version
    <2> QED
      BY <2>2, <2>3
  <1> QED
    BY <1>1, <1>2

\* A step that leaves a chain alone, and shows a later snapshot the same of
\* its transactions, leaves what is read there alone.
LEMMA SameChainRead ==
  ASSUME Inv, NEW s \in Snapshots, NEW c, ChainOK(c), NEW z,
         \A x \in Ids(c) : visible_txn(z, x)' <=> visible_txn(s, x)
  PROVE  visible_version(z, c)' = visible_version(s, c)
  <1>1. \A p, q \in DOMAIN c : Seen(s, c[p]) /\ Seen(s, c[q]) => p = q
    BY SeenOnce
  <1>2. \A p \in DOMAIN c : Seen(z, c[p])' <=> Seen(s, c[p])
    BY IdsType DEF Seen
  <1>3. DOMAIN c \subseteq Nat
    BY DEF ChainOK, IsChain, TxnId
  <1> QED
    BY <1>1, <1>2, <1>3, SameRead
-----------------------------------------------------------------------------
(* The abstract state *)

\* Rows written and rows overtaken, by the ids in their chains.
LEMMA WrittenIs ==
  /\ \A t, r : r \in WrittenBy(t) <=> r \in RowId /\ t \in Ids(chain[r])
  /\ \A t, r : r \in WrittenBy(t)' <=> r \in RowId /\ t \in Ids(chain'[r])
  BY DEF WrittenBy, Ids

\* A row is stale to t exactly when a settled write of it is hidden from t.
LEMMA StaleIs ==
  /\ \A t, r : r \in Stale(t) <=>
       r \in RowId /\ \E x \in Ids(chain[r]) : Public(x) /\ ~Sees(t, x)
  /\ \A t, r : r \in Stale(t)' <=>
       r \in RowId /\ \E x \in Ids(chain'[r]) : Public(x)' /\ ~Sees(t, x)'
  <1>1. \A c, x : x \in Ids(c) <=> \E p \in DOMAIN c : x \in {c[p].xmin, c[p].xmax}
    BY DEF Ids
  <1>2. ASSUME NEW t, NEW r
        PROVE  r \in Stale(t) <=>
                 r \in RowId /\ \E x \in Ids(chain[r]) : Public(x) /\ ~Sees(t, x)
    BY <1>1 DEF Stale, Public, Sees
  <1>3. ASSUME NEW t, NEW r
        PROVE  r \in Stale(t)' <=>
                 r \in RowId /\ \E x \in Ids(chain'[r]) : Public(x)' /\ ~Sees(t, x)'
    BY <1>1 DEF Stale, Public, Sees
  <1> QED
    BY <1>2, <1>3

\* The state of one open transaction, before and after a step.
LEMMA OpenIs ==
  /\ DOMAIN StoreOpen = Running
  /\ \A t \in Running :
       StoreOpen[t] = [view |-> [r \in RowId |-> get(t, r)], written |-> WrittenBy(t),
                       stale |-> Stale(t), doubtful |-> t \in committed]
  /\ DOMAIN StoreOpen' = Running'
  /\ StoreOpen' = [t \in Running' |-> StoreOpen'[t]]
  /\ \A t \in Running' :
       StoreOpen'[t] = [view |-> [r \in RowId |-> get(t, r)'], written |-> WrittenBy(t)',
                        stale |-> Stale(t)', doubtful |-> t \in committed']
  BY DEF StoreOpen

\* A usable transaction is a running one of the abstract store.
LEMMA UsableIs == ASSUME NEW t \in Running, Usable(t) PROVE Store!Running(t)
  <1>1. (t \in committed) = FALSE
    BY DEF Usable
  <1>2. StoreOpen[t] = [view |-> [r \in RowId |-> get(t, r)], written |-> WrittenBy(t),
                        stale |-> Stale(t), doubtful |-> FALSE]
    BY <1>1, OpenIs
  <1>3. StoreOpen[t].doubtful = FALSE
    BY <1>2
  <1> QED
    BY <1>3, OpenIs DEF Store!Running

\* Snapshots of running transactions, and the one from outside, are the
\* snapshots somebody may read with.
LEMMA Readers ==
  /\ Outside \in Snapshots
  /\ \A t \in Running : active[t] \in Snapshots
  BY DEF Snapshots
-----------------------------------------------------------------------------
(* Transaction steps: no chain changes, only what is seen of it *)

\* Beginning a transaction adds a view equal to the committed table.
LEMMA BeginMaps ==
  ASSUME StoreInv, Begin
  PROVE  next_txn_id \in 1 .. MaxTxn /\ Store!Begin(next_txn_id)
  <1>0. PICK n \in Nat : n = next_txn_id /\ n > 0 /\ n <= MaxTxn
    BY DEF StoreInv, Inv, TypeOK, TxnId, NO_TXN, Begin
  <1>1. /\ next_txn_id' = n + 1 /\ Running' = Running \cup {n} /\ n \notin Running
        /\ \A t \in Running : active'[t] = active[t]
        /\ active'[n] = [txn_id |-> n, xmin |-> n + 1, active_at_start |-> Running \ {n}]
        /\ committed' = committed /\ chain' = chain /\ next_row_id' = next_row_id
    BY <1>0 DEF Begin, take_snapshot, Running, StoreInv, Inv, IdsOK, TxnId
  <1>2. \A x \in committed : x # n /\ x < n /\ x \in Nat
    BY <1>0 DEF StoreInv, Inv, IdsOK, TypeOK, TxnId
  <1>3. /\ \A x : Public(x)' <=> Public(x)
        /\ \A x : \A t \in Running : Sees(t, x)' <=> Sees(t, x)
        /\ \A x : x # n => (Sees(n, x)' <=> Public(x))
    BY <1>0, <1>1, <1>2 DEF Public, Sees, visible_txn, Outside
  <1>4. ASSUME NEW r \in RowId
        PROVE  ChainOK(chain[r]) /\ chain'[r] = chain[r] /\ \A x \in Ids(chain[r]) : x # n
    BY <1>0, <1>1, IdsType DEF StoreInv, Inv
  <1>5. ASSUME NEW r \in RowId
        PROVE  /\ visible_version(Outside, chain[r])' = visible_version(Outside, chain[r])
               /\ get(n, r)' = visible_version(Outside, chain[r])
               /\ \A t \in Running : get(t, r)' = get(t, r)
    <2>0. PICK c : c = chain[r] /\ c = chain'[r] /\ ChainOK(c) /\ \A x \in Ids(c) : x # n
      BY <1>4
    <2>1. visible_version(Outside, c)' = visible_version(Outside, c)
      BY <1>3, <2>0, Readers, SameChainRead DEF Public, StoreInv
    <2>2. visible_version(active[n], c)' = visible_version(Outside, c)
      BY <1>3, <2>0, Readers, SameChainRead DEF Public, Sees, StoreInv
    <2>3. ASSUME NEW t \in Running
          PROVE  visible_version(active[t], c)' = visible_version(active[t], c)
      BY <1>3, <2>0, Readers, SameChainRead DEF Sees, StoreInv
    <2> QED
      BY <2>0, <2>1, <2>2, <2>3 DEF get
  <1>6. \A t \in Running : WrittenBy(t)' = WrittenBy(t) /\ Stale(t)' = Stale(t)
    <2>1. \A t : WrittenBy(t)' = WrittenBy(t)
      BY <1>1 DEF WrittenBy
    <2>2. ASSUME NEW t \in Running, NEW r PROVE r \in Stale(t)' <=> r \in Stale(t)
      BY <1>1, <1>3, StaleIs
    <2> QED
      BY <2>1, <2>2
  <1>7. WrittenBy(n)' = {} /\ Stale(n)' = {}
    <2>1. \A r : r \notin WrittenBy(n)'
      BY <1>4, WrittenIs
    <2>2. \A r : r \notin Stale(n)'
      BY <1>3, <1>4, StaleIs
    <2> QED
      BY <2>1, <2>2
  <1>8. StoreDb' = StoreDb
    BY <1>5 DEF StoreDb
  <1>9. StoreOpen' = [u \in DOMAIN StoreOpen \cup {n} |->
                       IF u = n THEN [view |-> StoreDb, written |-> {}, stale |-> {},
                                      doubtful |-> FALSE]
                       ELSE StoreOpen[u]]
    <2>1. StoreOpen'[n] = [view |-> StoreDb, written |-> {}, stale |-> {}, doubtful |-> FALSE]
      <3>1. [r \in RowId |-> get(n, r)'] = StoreDb
        BY <1>5 DEF StoreDb
      <3>2. (n \in committed') = FALSE
        BY <1>1, <1>2
      <3>3. n \in Running'
        BY <1>1
      <3>4. StoreOpen'[n] = [view |-> [r \in RowId |-> get(n, r)'], written |-> WrittenBy(n)',
                             stale |-> Stale(n)', doubtful |-> n \in committed']
        BY <3>3, OpenIs
      <3> QED
        BY <1>7, <3>1, <3>2, <3>4
    <2>2. ASSUME NEW u \in Running PROVE StoreOpen'[u] = StoreOpen[u]
      BY <1>1, <1>5, <1>6, OpenIs
    <2> QED
      BY <1>1, <2>1, <2>2, OpenIs
  <1> QED
    BY <1>0, <1>1, <1>8, <1>9, OpenIs DEF Store!Begin

\* What a snapshot reads of the rows is unchanged by a step that changes no
\* chain and nothing of what it sees.
LEMMA KeepsReads ==
  ASSUME Inv, chain' = chain
  PROVE  /\ (\A x : Public(x)' <=> Public(x)) => StoreDb' = StoreDb
         /\ \A t \in Running :
              (\A x : Sees(t, x)' <=> Sees(t, x)) => \A r \in RowId : get(t, r)' = get(t, r)
  <1>1. ASSUME NEW r \in RowId, \A x : Public(x)' <=> Public(x)
        PROVE  visible_version(Outside, chain[r])' = visible_version(Outside, chain[r])
    <2>0. PICK c : c = chain[r] /\ c = chain'[r] /\ ChainOK(c)
      BY DEF Inv
    <2>1. visible_version(Outside, c)' = visible_version(Outside, c)
      BY <1>1, <2>0, Readers, SameChainRead DEF Public
    <2> QED
      BY <2>0, <2>1
  <1>2. ASSUME NEW t \in Running, NEW r \in RowId, \A x : Sees(t, x)' <=> Sees(t, x)
        PROVE  get(t, r)' = get(t, r)
    <2>0. PICK c : c = chain[r] /\ c = chain'[r] /\ ChainOK(c)
      BY DEF Inv
    <2>1. visible_version(active[t], c)' = visible_version(active[t], c)
      BY <1>2, <2>0, Readers, SameChainRead DEF Sees
    <2> QED
      BY <2>0, <2>1 DEF get
  <1> QED
    BY <1>1, <1>2 DEF StoreDb

\* A transaction that keeps its view, its writes and its status keeps its
\* place in the abstract state.
LEMMA KeepsOpen ==
  ASSUME Inv, chain' = chain, NEW t \in Running, t \in Running',
         \A x : Sees(t, x)' <=> Sees(t, x), \A x : Public(x)' <=> Public(x),
         t \in committed' <=> t \in committed
  PROVE  StoreOpen'[t] = StoreOpen[t]
  <1>1. \A r \in RowId : get(t, r)' = get(t, r)
    BY KeepsReads
  <1>2. WrittenBy(t)' = WrittenBy(t)
    BY DEF WrittenBy
  <1>3. Stale(t)' = Stale(t)
    <2>1. \A r : r \in Stale(t)' <=> r \in Stale(t)
      BY StaleIs
    <2> QED
      BY <2>1
  <1>4. (t \in committed') = (t \in committed)
    OBVIOUS
  <1> QED
    BY <1>1, <1>2, <1>3, <1>4, OpenIs

\* A new snapshot is the committed table under the transaction's own writes.
LEMMA TakeSnapshotMaps ==
  ASSUME StoreInv, NEW t \in Running, TakeSnapshot(t)
  PROVE  Store!TakeSnapshot(t)
  <1>1. /\ next_txn_id' = next_txn_id /\ next_row_id' = next_row_id
        /\ committed' = committed /\ chain' = chain /\ Running' = Running
        /\ \A u \in Running \ {t} : active'[u] = active[u]
        /\ active'[t] = [txn_id |-> t, xmin |-> next_txn_id, active_at_start |-> Running \ {t}]
        /\ t \notin committed
    BY DEF TakeSnapshot, take_snapshot, Usable, Running
  <1>2. t # NO_TXN
    BY DEF StoreInv, Inv, IdsOK, TxnId
  <1>3. /\ \A x : Public(x)' <=> Public(x)
        /\ \A x : \A u \in Running \ {t} : Sees(u, x)' <=> Sees(u, x)
        /\ \A x : Sees(t, x)' <=> x = t \/ Public(x)
    BY <1>1, <1>2 DEF Public, Sees, visible_txn, Outside
  <1>4. StoreDb' = StoreDb
    BY <1>1, <1>3, KeepsReads DEF StoreInv
  <1>5. ASSUME NEW r \in RowId
        PROVE  get(t, r)' = IF r \in WrittenBy(t) THEN get(t, r) ELSE StoreDb[r]
    <2>0. PICK c : c = chain[r] /\ c = chain'[r] /\ ChainOK(c) /\ DeletionsOK(c)
      BY <1>1 DEF StoreInv, Inv
    <2>1. \A x \in Ids(c) : x \in Nat /\ x < next_txn_id
      BY <2>0, IdsType DEF StoreInv
    <2>2. CASE t \in Ids(c)
      <3>1. ASSUME NEW x \in Ids(c) PROVE Sees(t, x)' <=> Sees(t, x)
        BY <1>3, <2>0, <2>1, <2>2, PublicIs, SeesIs, WriterSeesAll DEF StoreInv
      <3>2. visible_version(active[t], c)' = visible_version(active[t], c)
        BY <2>0, <3>1, Readers, SameChainRead DEF Sees, StoreInv
      <3> QED
        BY <2>0, <2>2, <3>2, WrittenIs DEF get
    <2>3. CASE t \notin Ids(c)
      <3>1. ASSUME NEW x \in Ids(c) PROVE Sees(t, x)' <=> Public(x)
        BY <1>3, <2>3
      <3>2. visible_version(active[t], c)' = visible_version(Outside, c)
        BY <2>0, <3>1, Readers, SameChainRead DEF Sees, Public, StoreInv
      <3> QED
        BY <2>0, <2>3, <3>2, WrittenIs DEF get, StoreDb
    <2> QED
      BY <2>2, <2>3
  <1>6. WrittenBy(t)' = WrittenBy(t) /\ Stale(t)' = {}
    <2>1. \A r : r \notin Stale(t)'
      BY <1>3, StaleIs
    <2> QED
      BY <1>1, <2>1 DEF WrittenBy
  <1>7. StoreOpen' = [StoreOpen EXCEPT ![t].view = Store!Overlay(StoreDb, t), ![t].stale = {}]
    <2>1. [r \in RowId |-> get(t, r)'] = Store!Overlay(StoreDb, t)
      BY <1>5, OpenIs DEF Store!Overlay
    <2>2. PICK d : d = (t \in committed)
      OBVIOUS
    <2>3. StoreOpen'[t] = [StoreOpen[t] EXCEPT !.view = Store!Overlay(StoreDb, t), !.stale = {}]
      <3>1. StoreOpen[t] = [view |-> [r \in RowId |-> get(t, r)], written |-> WrittenBy(t),
                            stale |-> Stale(t), doubtful |-> d]
        BY <2>2, OpenIs
      <3>2. StoreOpen'[t] = [view |-> Store!Overlay(StoreDb, t), written |-> WrittenBy(t),
                             stale |-> {}, doubtful |-> d]
        BY <1>1, <1>6, <2>1, <2>2, OpenIs
      <3>3. PICK e, f, v : /\ e = StoreOpen[t] /\ v = Store!Overlay(StoreDb, t)
                           /\ f = [e EXCEPT !.view = v]
        OBVIOUS
      <3>4. f = [view |-> v, written |-> WrittenBy(t), stale |-> Stale(t), doubtful |-> d]
        BY <3>1, <3>3
      <3>5. [e EXCEPT !.view = v, !.stale = {}] = [f EXCEPT !.stale = {}]
        BY <3>3
      <3>6. [f EXCEPT !.stale = {}] =
              [view |-> v, written |-> WrittenBy(t), stale |-> {}, doubtful |-> d]
        BY <3>4
      <3> QED
        BY <3>2, <3>3, <3>5, <3>6
    <2>4. ASSUME NEW u \in Running \ {t} PROVE StoreOpen'[u] = StoreOpen[u]
      BY <1>1, <1>3, KeepsOpen DEF StoreInv
    <2> QED
      BY <1>1, <2>3, <2>4, OpenIs
  <1>8. Store!Running(t)
    BY UsableIs DEF TakeSnapshot
  <1> QED
    BY <1>1, <1>4, <1>7, <1>8 DEF Store!TakeSnapshot

\* A commit lays the transaction's view of the rows it wrote over the table
\* and overtakes everybody else on them.
LEMMA CommitMaps ==
  ASSUME StoreInv, NEW t \in Running, Commit(t)
  PROVE  Store!Commit(t)
  <1>1. /\ next_txn_id' = next_txn_id /\ next_row_id' = next_row_id /\ chain' = chain
        /\ committed' = committed \cup {t} /\ t \notin committed
        /\ Running' = Running \ {t}
        /\ \A u \in Running' : active'[u] = active[u]
    BY DEF Commit, Forget, Usable, Running
  <1>2. t # NO_TXN /\ t < next_txn_id /\ \A u \in Running : active[u].txn_id = u
    BY DEF StoreInv, Inv, IdsOK, TxnId
  <1>3. /\ \A x : Public(x)' <=> x = t \/ Public(x)
        /\ \A x : \A u \in Running \ {t} : Sees(u, x)' <=> Sees(u, x)
        /\ \A u \in Running \ {t} : ~Sees(u, t)
    <2>1. \A x : Public(x)' <=> x = t \/ Public(x)
      BY <1>1, <1>2 DEF Public, visible_txn, Outside
    <2>2. ASSUME NEW u \in Running \ {t}
          PROVE  ~(t < active[u].xmin /\ t \notin active[u].active_at_start)
      BY RunningInvisible DEF StoreInv
    <2>3. ASSUME NEW x, NEW u \in Running \ {t} PROVE Sees(u, x)' <=> Sees(u, x)
      BY <1>1, <1>2, <2>2 DEF Sees, visible_txn
    <2>4. \A u \in Running \ {t} : ~Sees(u, t)
      BY <1>2, <2>2 DEF Sees, visible_txn
    <2> QED
      BY <2>1, <2>3, <2>4
  <1>4. ASSUME NEW r \in RowId
        PROVE  StoreDb'[r] = IF r \in WrittenBy(t) THEN get(t, r) ELSE StoreDb[r]
    <2>0. PICK c : c = chain[r] /\ c = chain'[r] /\ ChainOK(c) /\ DeletionsOK(c)
      BY <1>1 DEF StoreInv, Inv
    <2>1. \A x \in Ids(c) : x \in Nat /\ x < next_txn_id
      BY <2>0, IdsType DEF StoreInv
    <2>2. CASE t \in Ids(c)
      <3>1. ASSUME NEW x \in Ids(c) PROVE Public(x)' <=> Sees(t, x)
        BY <1>3, <2>0, <2>1, <2>2, PublicIs, SeesIs, WriterSeesAll DEF StoreInv
      <3>2. visible_version(Outside, c)' = visible_version(active[t], c)
        BY <2>0, <3>1, Readers, SameChainRead DEF Sees, Public, StoreInv
      <3> QED
        BY <2>0, <2>2, <3>2, WrittenIs DEF get, StoreDb
    <2>3. CASE t \notin Ids(c)
      <3>1. ASSUME NEW x \in Ids(c) PROVE Public(x)' <=> Public(x)
        BY <1>3, <2>3
      <3>2. visible_version(Outside, c)' = visible_version(Outside, c)
        BY <2>0, <3>1, Readers, SameChainRead DEF Public, StoreInv
      <3> QED
        BY <2>0, <2>3, <3>2, WrittenIs DEF StoreDb
    <2> QED
      BY <2>2, <2>3
  <1>5. StoreDb' = Store!Overlay(StoreDb, t)
    <2>1. StoreDb' = [r \in RowId |-> StoreDb'[r]]
      BY DEF StoreDb
    <2> QED
      BY <1>4, <2>1, OpenIs DEF Store!Overlay
  <1>6. ASSUME NEW u \in Running \ {t}
        PROVE  StoreOpen'[u] =
                 [StoreOpen[u] EXCEPT !.stale = StoreOpen[u].stale \cup StoreOpen[t].written]
    <2>1. \A r \in RowId : get(u, r)' = get(u, r)
      BY <1>1, <1>3, KeepsReads DEF StoreInv
    <2>2. WrittenBy(u)' = WrittenBy(u)
      BY <1>1 DEF WrittenBy
    <2>3. Stale(u)' = Stale(u) \cup WrittenBy(t)
      <3>1. ASSUME NEW r PROVE r \in Stale(u)' <=> r \in Stale(u) \/ r \in WrittenBy(t)
        BY <1>1, <1>3, StaleIs, WrittenIs
      <3> QED
        BY <3>1
    <2>4. PICK d : d = (u \in committed) /\ d = (u \in committed')
      BY <1>1
    <2>5. StoreOpen[u] = [view |-> [r \in RowId |-> get(u, r)], written |-> WrittenBy(u),
                          stale |-> Stale(u), doubtful |-> d]
      BY <2>4, OpenIs
    <2>6. StoreOpen'[u] = [view |-> [r \in RowId |-> get(u, r)], written |-> WrittenBy(u),
                           stale |-> Stale(u) \cup WrittenBy(t), doubtful |-> d]
      BY <1>1, <2>1, <2>2, <2>3, <2>4, OpenIs
    <2>7. StoreOpen[t].written = WrittenBy(t)
      BY OpenIs
    <2>8. PICK a, e, z : /\ e = StoreOpen[u] /\ z = Stale(u) \cup WrittenBy(t)
                         /\ a = [r \in RowId |-> get(u, r)]
      OBVIOUS
    <2>9. [e EXCEPT !.stale = z] =
            [view |-> a, written |-> WrittenBy(u), stale |-> z, doubtful |-> d]
      BY <2>5, <2>8
    <2>10. e.stale = Stale(u)
      BY <2>5, <2>8
    <2> QED
      BY <2>6, <2>7, <2>8, <2>9, <2>10
  <1>7. StoreOpen' = [u \in DOMAIN StoreOpen \ {t} |->
          [StoreOpen[u] EXCEPT !.stale = StoreOpen[u].stale \cup StoreOpen[t].written]]
    BY <1>1, <1>6, OpenIs
  <1> QED
    BY <1>1, <1>5, <1>7, UsableIs DEF Store!Commit, Commit

\* A commit that fails leaves its transaction in doubt and changes no view.
LEMMA CommitFailsMaps ==
  ASSUME StoreInv, NEW t \in Running, CommitFails(t)
  PROVE  Store!CommitFails(t)
  <1>1. /\ next_txn_id' = next_txn_id /\ next_row_id' = next_row_id /\ chain' = chain
        /\ committed' = committed \cup {t} /\ Running' = Running /\ active' = active
    BY DEF CommitFails, Running
  <1>2. /\ \A x : Public(x)' <=> Public(x)
        /\ \A x : \A u \in Running : Sees(u, x)' <=> Sees(u, x)
    <2>1. \A x : Public(x)' <=> Public(x)
      BY <1>1 DEF Public, visible_txn, Outside
    <2>2. ASSUME NEW u \in Running, NEW x PROVE Sees(u, x)' <=> Sees(u, x)
      <3>1. u = t \/ ~(t < active[u].xmin /\ t \notin active[u].active_at_start)
        BY RunningInvisible DEF StoreInv
      <3>2. active[u].txn_id = u
        BY DEF StoreInv, Inv, IdsOK
      <3> QED
        BY <1>1, <3>1, <3>2 DEF Sees, visible_txn
    <2> QED
      BY <2>1, <2>2
  <1>3. StoreDb' = StoreDb
    BY <1>1, <1>2, KeepsReads DEF StoreInv
  <1>4. StoreOpen'[t] = [StoreOpen[t] EXCEPT !.doubtful = TRUE]
    <2>1. \A r \in RowId : get(t, r)' = get(t, r)
      BY <1>1, <1>2, KeepsReads DEF StoreInv
    <2>2. WrittenBy(t)' = WrittenBy(t)
      BY <1>1 DEF WrittenBy
    <2>3. Stale(t)' = Stale(t)
      <3>1. \A r : r \in Stale(t)' <=> r \in Stale(t)
        BY <1>1, <1>2, StaleIs
      <3> QED
        BY <3>1
    <2>4. PICK d : d = (t \in committed)
      OBVIOUS
    <2>5. (t \in committed') = TRUE
      BY <1>1
    <2>6. StoreOpen[t] = [view |-> [r \in RowId |-> get(t, r)], written |-> WrittenBy(t),
                          stale |-> Stale(t), doubtful |-> d]
      BY <2>4, OpenIs
    <2>7. StoreOpen'[t] = [view |-> [r \in RowId |-> get(t, r)], written |-> WrittenBy(t),
                           stale |-> Stale(t), doubtful |-> TRUE]
      BY <1>1, <2>1, <2>2, <2>3, <2>5, OpenIs
    <2>8. PICK a, e : e = StoreOpen[t] /\ a = [r \in RowId |-> get(t, r)]
      OBVIOUS
    <2>9. ASSUME NEW z
          PROVE  [e EXCEPT !.doubtful = z] =
                   [view |-> a, written |-> WrittenBy(t), stale |-> Stale(t), doubtful |-> z]
      BY <2>6, <2>8
    <2>10. PICK z : /\ z = TRUE
                    /\ [e EXCEPT !.doubtful = z] =
                         [view |-> a, written |-> WrittenBy(t), stale |-> Stale(t), doubtful |-> z]
      BY <2>9
    <2> QED
      BY <2>7, <2>8, <2>10
  <1>5. ASSUME NEW u \in Running \ {t} PROVE StoreOpen'[u] = StoreOpen[u]
    BY <1>1, <1>2, KeepsOpen DEF StoreInv
  <1>6. StoreOpen' = [StoreOpen EXCEPT ![t].doubtful = TRUE]
    BY <1>1, <1>4, <1>5, OpenIs
  <1> QED
    BY <1>1, <1>3, <1>6, UsableIs DEF Store!CommitFails, CommitFails

\* An abort removes the transaction and nothing else.
LEMMA AbortMaps ==
  ASSUME StoreInv, NEW t \in Running, Abort(t)
  PROVE  Store!Abort(t)
  <1>1. /\ next_txn_id' = next_txn_id /\ next_row_id' = next_row_id /\ chain' = chain
        /\ committed' = committed /\ t \notin committed /\ Running' = Running \ {t}
        /\ \A u \in Running' : active'[u] = active[u]
    BY DEF Abort, Forget, Usable, Running
  <1>2. /\ \A x : Public(x)' <=> Public(x)
        /\ \A x : \A u \in Running' : Sees(u, x)' <=> Sees(u, x)
    BY <1>1 DEF Public, Sees, visible_txn, Outside
  <1>3. StoreDb' = StoreDb
    BY <1>1, <1>2, KeepsReads DEF StoreInv
  <1>4. ASSUME NEW u \in Running \ {t} PROVE StoreOpen'[u] = StoreOpen[u]
    BY <1>1, <1>2, KeepsOpen DEF StoreInv
  <1>5. StoreOpen' = [u \in DOMAIN StoreOpen \ {t} |-> StoreOpen[u]]
    BY <1>1, <1>4, OpenIs
  <1> QED
    BY <1>1, <1>3, <1>5, UsableIs DEF Store!Abort, Abort

\* A restart publishes the writes of the transactions in doubt and forgets
\* the others.
LEMMA RestartMaps ==
  ASSUME StoreInv, Restart
  PROVE  Store!Restart
  <1>1. /\ next_txn_id' = next_txn_id /\ next_row_id' = next_row_id /\ chain' = chain
        /\ committed' = committed /\ Running' = {}
    BY DEF Restart, Running
  <1>2. /\ \A x : Public(x)' <=> x # NO_TXN /\ x < next_txn_id /\ x \in committed
        /\ \A x : Public(x) <=> x # NO_TXN /\ x < next_txn_id /\ Settled(x)
        /\ \A x \in committed : x # NO_TXN /\ x < next_txn_id
    BY <1>1 DEF Public, visible_txn, Outside, Settled, StoreInv, Inv, IdsOK, TypeOK, TxnId
  <1>3. ASSUME NEW t \in Running
        PROVE  StoreOpen[t].doubtful <=> t \in committed
    <2>1. PICK d : d = (t \in committed)
      OBVIOUS
    <2>2. StoreOpen[t] = [view |-> [r \in RowId |-> get(t, r)], written |-> WrittenBy(t),
                          stale |-> Stale(t), doubtful |-> d]
      BY <2>1, OpenIs
    <2>3. StoreOpen[t].doubtful = d
      BY <2>2
    <2> QED
      BY <2>1, <2>3
  <1>4. ASSUME NEW r \in RowId, NEW t \in Running, t \in committed, r \in WrittenBy(t)
        PROVE  StoreDb'[r] = get(t, r)
    <2>0. PICK c : c = chain[r] /\ c = chain'[r] /\ ChainOK(c) /\ DeletionsOK(c) /\ t \in Ids(c)
      BY <1>1, <1>4, WrittenIs DEF StoreInv, Inv
    <2>1. ASSUME NEW x \in Ids(c), x \in Running PROVE x = t
      <3>1. r \in WrittenBy(x)
        BY <2>0, <2>1, WrittenIs
      <3> QED
        BY <1>4, <2>1, <3>1, WriterUnique DEF OneWriterPerRow, StoreInv
    <2>2. ASSUME NEW x \in Ids(c) PROVE Public(x)' <=> Sees(t, x)
      <3>1. Public(x)' => Sees(t, x)
        BY <1>2, <2>0, <2>1, SeesIs, WriterSeesAll DEF Settled, StoreInv
      <3>2. Sees(t, x) => Public(x)'
        BY <1>2, <1>4, SeesIs DEF Settled, StoreInv
      <3> QED
        BY <3>1, <3>2
    <2>3. visible_version(Outside, c)' = visible_version(active[t], c)
      BY <2>0, <2>2, Readers, SameChainRead DEF Sees, Public, StoreInv
    <2> QED
      BY <2>0, <2>3 DEF get, StoreDb
  <1>5. ASSUME NEW r \in RowId, \A t \in Running : t \in committed => r \notin WrittenBy(t)
        PROVE  StoreDb'[r] = StoreDb[r]
    <2>0. PICK c : c = chain[r] /\ c = chain'[r] /\ ChainOK(c)
      BY <1>1 DEF StoreInv, Inv
    <2>1. ASSUME NEW x \in Ids(c) PROVE Public(x)' <=> Public(x)
      BY <1>2, <1>5, <2>0, WrittenIs DEF Settled
    <2>2. visible_version(Outside, c)' = visible_version(Outside, c)
      BY <2>0, <2>1, Readers, SameChainRead DEF Public, StoreInv
    <2> QED
      BY <2>0, <2>2 DEF StoreDb
  <1>6. ASSUME NEW r \in RowId
        PROVE  StoreDb'[r] =
                 IF \E t \in DOMAIN StoreOpen : StoreOpen[t].doubtful /\ r \in StoreOpen[t].written
                 THEN StoreOpen[CHOOSE t \in DOMAIN StoreOpen :
                                  StoreOpen[t].doubtful /\ r \in StoreOpen[t].written].view[r]
                 ELSE StoreDb[r]
    <2> DEFINE D(t) == StoreOpen[t].doubtful /\ r \in StoreOpen[t].written
    <2>1. \A t \in Running : D(t) <=> t \in committed /\ r \in WrittenBy(t)
      BY <1>3, OpenIs
    <2>2. \A t \in Running : StoreOpen[t].view[r] = get(t, r)
      BY OpenIs
    <2>3. CASE \E t \in Running : D(t)
      <3>1. PICK t : t = CHOOSE u \in Running : D(u)
        OBVIOUS
      <3>2. t \in Running /\ D(t)
        BY <2>3, <3>1
      <3> QED
        BY <1>4, <2>1, <2>2, <2>3, <3>1, <3>2, OpenIs
    <2>4. CASE ~\E t \in Running : D(t)
      BY <1>5, <2>1, <2>4, OpenIs
    <2> QED
      BY <2>3, <2>4
  <1>7. StoreDb' = [r \in RowId |-> StoreDb'[r]]
    BY DEF StoreDb
  <1>8. StoreOpen' = [t \in {} |-> t]
    BY <1>1, OpenIs
  <1> QED
    BY <1>1, <1>6, <1>7, <1>8 DEF Store!Restart
-----------------------------------------------------------------------------
(* Pruning *)

\* A committed transaction below the horizon of a usable one is settled, and
\* everybody sees it.
LEMMA BelowHorizon ==
  ASSUME Inv, NEW t \in Running, Usable(t), NEW x \in Nat, x # NO_TXN,
         below_prune_horizon(x), x \in committed
  PROVE  Settled(x) /\ Public(x) /\ \A u \in Running : Sees(u, x)
  <1>1. /\ x < next_txn_id
        /\ \A u \in Running : x < active[u].xmin /\ \A y \in active[u].active_at_start : x < y
    BY DEF below_prune_horizon
  <1>2. \A u \in Running : x \notin active[u].active_at_start
    BY <1>1
  <1>3. x \notin Running
    BY <1>1, <1>2, RunningInvisible DEF Usable
  <1> QED
    BY <1>1, <1>2, <1>3 DEF Settled, Public, Sees, visible_txn, Outside

\* Pruning shows nobody: every snapshot in use sees the same versions, every
\* running transaction has its marks, and what is dropped is in nobody's way.
LEMMA PruneSame ==
  ASSUME Inv, NEW t \in Running, Usable(t), NEW c, ChainOK(c), DeletionsOK(c)
  PROVE  /\ \A s \in Snapshots : \A p \in DOMAIN c : Seen(s, c[p]) =>
              p \in DOMAIN prune(c) /\ Seen(s, prune(c)[p]) /\ prune(c)[p].bytes = c[p].bytes
         /\ \A s \in Snapshots : \A p \in DOMAIN prune(c) :
              Seen(s, prune(c)[p]) => p \in DOMAIN c /\ Seen(s, c[p])
         /\ Ids(prune(c)) \subseteq Ids(c) \cup {NO_TXN}
         /\ \A x \in Ids(c) : \/ x \in Ids(prune(c))
                              \/ x \notin Running /\ (Public(x) => \A u \in Running : Sees(u, x))
  <1>1. PICK d : d = prune(c)
    OBVIOUS
  <1>2. /\ \A p : p \in DOMAIN d <=> p \in DOMAIN c /\ Kept(c[p])
        /\ \A p \in DOMAIN d : d[p] = Cleaned(c[p])
    BY <1>1 DEF prune
  <1>3. ASSUME NEW p \in DOMAIN c
        PROVE  /\ c[p].xmin \in Nat /\ c[p].xmax \in Nat /\ c[p].xmin # NO_TXN
               /\ Cleaned(c[p]).xmin = c[p].xmin /\ Cleaned(c[p]).bytes = c[p].bytes
               /\ Cleaned(c[p]).xmax = IF is_aborted(c[p].xmax) THEN NO_TXN ELSE c[p].xmax
    BY DEF ChainOK, IsChain, Version, Cleaned, TxnId, NO_TXN
  <1>4. ASSUME NEW x, is_aborted(x)
        PROVE  x \notin Running /\ ~Public(x) /\ \A u \in Running : ~Sees(u, x)
    BY <1>4, SeesIs DEF is_aborted, Settled, Public, visible_txn, Outside
  <1>5. ~Public(NO_TXN) /\ \A u \in Running : ~Sees(u, NO_TXN)
    BY DEF Public, Sees, visible_txn
  <1>6. ASSUME NEW s \in Snapshots, NEW p \in DOMAIN c PROVE Seen(s, Cleaned(c[p])) <=> Seen(s, c[p])
    <2>1. \A x : is_aborted(x) => ~visible_txn(s, x)
      BY <1>4 DEF Snapshots, Sees, Public
    <2>2. ~visible_txn(s, NO_TXN)
      BY DEF visible_txn
    <2> QED
      BY <1>3, <2>1, <2>2 DEF Seen
  <1>7. ASSUME NEW p \in DOMAIN c, ~Kept(c[p])
        PROVE  \/ is_aborted(c[p].xmin) /\ c[p].xmax \in {NO_TXN, c[p].xmin}
               \/ /\ Settled(c[p].xmin) /\ Settled(c[p].xmax) /\ Public(c[p].xmax)
                  /\ \A u \in Running : Sees(u, c[p].xmax) /\ Sees(u, c[p].xmin)
    <2>1. CASE is_aborted(c[p].xmin)
      BY <2>1 DEF ChainOK, OwnOK, is_aborted, Settled
    <2>2. CASE ~is_aborted(c[p].xmin)
      <3>1. PICK x : x = Cleaned(c[p]).xmax
        OBVIOUS
      <3>2. x # NO_TXN /\ below_prune_horizon(x) /\ x \in committed
        BY <1>7, <2>2, <3>1 DEF Kept
      <3>3. x = c[p].xmax /\ x \in Nat
        BY <1>3, <3>1, <3>2
      <3>4. Settled(x) /\ Public(x) /\ \A u \in Running : Sees(u, x)
        BY <3>2, <3>3, BelowHorizon
      <3>5. \A u \in Running : Sees(u, c[p].xmin)
        BY <3>3, <3>4 DEF DeletionsOK
      <3>6. Settled(c[p].xmin)
        BY <3>2, <3>3, <3>4 DEF ChainOK, OwnOK
      <3> QED
        BY <3>3, <3>4, <3>5, <3>6
    <2> QED
      BY <2>1, <2>2
  <1>8. ASSUME NEW s \in Snapshots, NEW p \in DOMAIN c, ~Kept(c[p]) PROVE ~Seen(s, c[p])
    BY <1>4, <1>7, <1>8 DEF Seen, Snapshots, Sees, Public
  <1>9. \A e, x : x \in Ids(e) <=> \E p \in DOMAIN e : x = e[p].xmin \/ x = e[p].xmax
    BY DEF Ids
  <1>10. Ids(d) \subseteq Ids(c) \cup {NO_TXN}
    BY <1>2, <1>3, <1>9
  <1>11. ASSUME NEW x \in Ids(c), x \notin Ids(d)
         PROVE  x \notin Running /\ (Public(x) => \A u \in Running : Sees(u, x))
    <2>1. PICK p \in DOMAIN c : x = c[p].xmin \/ x = c[p].xmax
      BY <1>9
    <2>2. NO_TXN \notin Running
      BY DEF Inv, IdsOK, TxnId
    <2>3. CASE Kept(c[p])
      <3>1. is_aborted(x)
        BY <1>2, <1>3, <1>9, <1>11, <2>1, <2>3
      <3> QED
        BY <1>4, <3>1
    <2>4. CASE ~Kept(c[p])
      BY <1>4, <1>5, <1>7, <2>1, <2>2, <2>4 DEF Settled
    <2> QED
      BY <2>3, <2>4
  <1> QED
    BY <1>1, <1>2, <1>3, <1>6, <1>8, <1>10, <1>11
-----------------------------------------------------------------------------
(* The write check *)

\* A set of natural numbers has a least member.
LEMMA Least ==
  ASSUME NEW S, S \subseteq Nat, S # {}
  PROVE  \E m \in S : \A n \in S : m <= n
  <1>1. PICK R : R = OpToRel(<, Nat) /\ IsWellFoundedOn(R, Nat)
    BY NatLessThanWellFounded
  <1>2. \A x, y \in Nat : <<x, y>> \in R <=> x < y
    BY <1>1 DEF OpToRel
  <1>3. PICK m \in S : \A y \in S : ~(<<y, m>> \in R)
    BY <1>1, WFMin
  <1>4. ASSUME NEW n \in S PROVE m <= n
    <2>1. n \in Nat /\ m \in Nat
      OBVIOUS
    <2>2. ~(<<n, m>> \in R)
      BY <1>3
    <2>3. ~(n < m)
      BY <1>2, <2>1, <2>2
    <2> QED
      BY <2>1, <2>3
  <1> QED
    BY <1>4

\* A chain that is not empty has a newest version, and only one.
LEMMA NewestExists ==
  ASSUME NEW c, DOMAIN c \subseteq Nat, Bounded(c), DOMAIN c # {}
  PROVE  /\ \E p \in DOMAIN c : IsNewest(c, p)
         /\ \A p, q \in DOMAIN c : IsNewest(c, p) /\ IsNewest(c, q) => p = q
  <1> DEFINE S == {n \in Nat : \A p \in DOMAIN c : p <= n}
  <1>1. S \subseteq Nat /\ S # {}
    BY DEF Bounded
  <1>2. PICK m \in S : \A n \in S : m <= n
    BY <1>1, Least
  <1>3. m \in DOMAIN c
    <2> SUFFICES ASSUME m \notin DOMAIN c PROVE FALSE
      OBVIOUS
    <2>1. \A p \in DOMAIN c : p <= m - 1 /\ m - 1 \in Nat
      OBVIOUS
    <2>2. m - 1 \in S
      BY <2>1
    <2> QED
      BY <1>2, <2>2
  <1>4. IsNewest(c, m)
    BY <1>3 DEF IsNewest
  <1>5. \A p, q \in DOMAIN c : IsNewest(c, p) /\ IsNewest(c, q) => p = q
    BY DEF IsNewest
  <1> QED
    BY <1>3, <1>4, <1>5

\* A transaction that sees the newest version of a pruned chain created, and
\* deleted if it is, sees everything in the chain.
LEMMA SeesWholeChain ==
  ASSUME Inv, NEW t \in Running, NEW d, ChainOK(d),
         \A q \in DOMAIN d : ~is_aborted(d[q].xmin) /\ ~is_aborted(d[q].xmax),
         NEW p \in DOMAIN d, IsNewest(d, p), Sees(t, d[p].xmin),
         d[p].xmax = NO_TXN \/ Sees(t, d[p].xmax)
  PROVE  /\ \A x \in Ids(d) : x # NO_TXN => Sees(t, x)
         /\ \A x \in Ids(d) : x \in Running => x = t
         /\ \A q \in DOMAIN d : q # p => ~Seen(active[t], d[q])
  <1>1. ASSUME NEW q \in DOMAIN d, q # p PROVE Sees(t, d[q].xmin) /\ Sees(t, d[q].xmax)
    <2>1. q < p
      BY <1>1 DEF IsNewest, ChainOK, IsChain, TxnId
    <2>2. Linked(d[q], d[p])
      BY <2>1 DEF ChainOK, LinksOK
    <2> QED
      BY <2>2 DEF Linked, Sees
  <1>2. \A x \in Ids(d) : x # NO_TXN => Sees(t, x)
    BY <1>1, IdsType
  <1>3. \A x \in Ids(d) : x \in Running => x = t
    BY <1>2, SeesIs DEF Settled
  <1> QED
    BY <1>1, <1>2, <1>3 DEF Seen, Sees

\* The write check decides by what the transaction reads and who else wrote.
LEMMA VerdictExact == StoreInv => VerdictIsExact
  <1> SUFFICES ASSUME StoreInv, NEW t \in Running, NEW r \in RowId, Usable(t)
               PROVE  writable_version(active[t], prune(chain[r])) =
                        IF r \in Stale(t) \/ \E u \in Running \ {t} : r \in WrittenBy(u)
                        THEN "SerializationFailure"
                        ELSE IF get(t, r) = None THEN "RowNotFound" ELSE "Ok"
    BY DEF VerdictIsExact
  <1>0. Inv
    BY DEF StoreInv
  <1>1. PICK c : c = chain[r] /\ ChainOK(c) /\ DeletionsOK(c) /\ Bounded(c)
    BY DEF StoreInv, Inv
  <1>2. PICK d : d = prune(c)
    OBVIOUS
  <1>3. /\ ChainOK(d) /\ DOMAIN d \subseteq DOMAIN c /\ DOMAIN c \subseteq Nat
        /\ \A q \in DOMAIN d : ~is_aborted(d[q].xmin) /\ ~is_aborted(d[q].xmax)
        /\ \A q \in DOMAIN d : d[q] \in Version
    <2>1. DOMAIN d \subseteq DOMAIN c
      BY <1>2 DEF prune
    <2> QED
      BY <1>0, <1>1, <1>2, <2>1, PruneOK DEF ChainOK, IsChain, TxnId
  <1>4. /\ \A p \in DOMAIN c : Seen(active[t], c[p]) =>
              p \in DOMAIN d /\ Seen(active[t], d[p]) /\ d[p].bytes = c[p].bytes
        /\ \A p \in DOMAIN d : Seen(active[t], d[p]) => p \in DOMAIN c /\ Seen(active[t], c[p])
        /\ Ids(d) \subseteq Ids(c) \cup {NO_TXN}
        /\ \A x \in Ids(c) : \/ x \in Ids(d)
                             \/ x \notin Running /\ (Public(x) => \A u \in Running : Sees(u, x))
    BY <1>0, <1>1, <1>2, PruneSame, Readers
  <1>5. ~Public(NO_TXN) /\ NO_TXN \notin Running
    BY <1>0 DEF Public, visible_txn, Inv, IdsOK, TxnId
  <1>6. /\ r \in Stale(t) <=> \E x \in Ids(d) : Public(x) /\ ~Sees(t, x)
        /\ \A u \in Running : r \in WrittenBy(u) <=> u \in Ids(d)
    BY <1>1, <1>4, <1>5, StaleIs, WrittenIs
  <1>7. (\A p \in DOMAIN d : ~Seen(active[t], d[p])) => get(t, r) = None
    BY <1>1, <1>4 DEF get, visible_version
  <1>8. CASE DOMAIN d = {}
    <2>1. d = EmptyChain
      BY <1>2, <1>8 DEF prune, EmptyChain
    <2>2. \A x : x \notin Ids(d)
      BY <1>8 DEF Ids
    <2> QED
      BY <1>1, <1>2, <1>6, <1>7, <1>8, <2>1, <2>2 DEF writable_version
  <1>9. CASE DOMAIN d # {}
    <2>1. Bounded(d)
      BY <1>1, <1>3 DEF Bounded
    <2>2. PICK p \in DOMAIN d : IsNewest(d, p) /\ \A q \in DOMAIN d : IsNewest(d, q) => q = p
      BY <1>3, <1>9, <2>1, NewestExists
    <2>3. (CHOOSE q \in DOMAIN d : IsNewest(d, q)) = p
      BY <2>2
    <2>4. PICK w \in Version : w = d[p]
      BY <1>3
    <2>5. writable_version(active[t], d) = writable(active[t], w)
      BY <1>9, <2>3, <2>4 DEF writable_version, EmptyChain
    <2>6. w.xmin \in Ids(d) /\ w.xmax \in Ids(d)
      BY <1>0, <1>3, <2>4, IdsType
    <2>7. ASSUME NEW x \in Ids(d), x # NO_TXN, ~is_aborted(x), ~Sees(t, x)
          PROVE  r \in Stale(t) \/ \E u \in Running \ {t} : r \in WrittenBy(u)
      <3>1. CASE x \in Running
        BY <1>0, <1>6, <2>7, <3>1, SeesIs
      <3>2. CASE x \notin Running
        <4>1. Settled(x) /\ x \in Nat /\ x < next_txn_id
          BY <1>0, <1>3, <2>7, <3>2, IdsType DEF Settled, is_aborted
        <4>2. Public(x)
          BY <1>0, <2>7, <4>1, PublicIs
        <4> QED
          BY <1>6, <2>7, <4>2
      <3> QED
        BY <3>1, <3>2
    <2>8. ASSUME Sees(t, w.xmin), w.xmax = NO_TXN \/ Sees(t, w.xmax)
          PROVE  /\ ~(r \in Stale(t) \/ \E u \in Running \ {t} : r \in WrittenBy(u))
                 /\ \A q \in DOMAIN d : q # p => ~Seen(active[t], d[q])
      <3>1. /\ \A x \in Ids(d) : x # NO_TXN => Sees(t, x)
            /\ \A x \in Ids(d) : x \in Running => x = t
            /\ \A q \in DOMAIN d : q # p => ~Seen(active[t], d[q])
        BY <1>0, <1>3, <2>2, <2>4, <2>8, SeesWholeChain
      <3> QED
        BY <1>5, <1>6, <3>1
    <2>9. w.xmin # NO_TXN /\ ~is_aborted(w.xmin) /\ ~is_aborted(w.xmax) /\ w.bytes \in Value
      BY <1>3, <2>4 DEF Version, TxnId
    <2>10. CASE ~Sees(t, w.xmin)
      <3>1. writable(active[t], w) = "SerializationFailure"
        BY <2>10 DEF writable, Sees
      <3> QED
        BY <1>1, <1>2, <2>5, <2>6, <2>7, <2>9, <2>10, <3>1
    <2>11. CASE Sees(t, w.xmin) /\ Sees(t, w.xmax)
      <3>1. writable(active[t], w) = "RowNotFound"
        BY <2>11 DEF writable, Sees
      <3>2. \A q \in DOMAIN d : ~Seen(active[t], d[q])
        BY <2>4, <2>8, <2>11 DEF Seen, Sees
      <3> QED
        BY <1>1, <1>2, <1>7, <2>5, <2>8, <2>11, <3>1, <3>2
    <2>12. CASE Sees(t, w.xmin) /\ w.xmax = NO_TXN
      <3>1. ~Sees(t, w.xmax)
        BY <1>0, <2>12, SeesIs
      <3>2. writable(active[t], w) = "Ok"
        BY <2>12, <3>1 DEF writable, Sees
      <3>3. Seen(active[t], d[p])
        BY <2>4, <2>12, <3>1 DEF Seen, Sees
      <3>4. p \in DOMAIN c /\ Seen(active[t], c[p]) /\ d[p].bytes = c[p].bytes
        BY <1>4, <3>3
      <3>5. \A q \in DOMAIN c : Seen(active[t], c[q]) => q = p
        BY <1>4, <2>8, <2>12
      <3>6. get(t, r) = w.bytes
        BY <1>1, <1>3, <2>4, <3>4, <3>5, ReadSeen DEF get
      <3> QED
        BY <1>1, <1>2, <2>5, <2>8, <2>9, <2>12, <3>2, <3>6, MvccAssumption
    <2>13. CASE Sees(t, w.xmin) /\ ~Sees(t, w.xmax) /\ w.xmax # NO_TXN
      <3>1. writable(active[t], w) = "SerializationFailure"
        BY <2>9, <2>13 DEF writable, Sees
      <3> QED
        BY <1>1, <1>2, <2>5, <2>6, <2>7, <2>9, <2>13, <3>1
    <2> QED
      BY <2>10, <2>11, <2>12, <2>13
  <1> QED
    BY <1>8, <1>9
-----------------------------------------------------------------------------
(* Writes *)

\* e differs from d only by what transaction t, whom nobody else sees, did.
MarkedBy(t, d, e) ==
  /\ \A s \in Snapshots : ~visible_txn(s, t) =>
       /\ \A q \in DOMAIN d : Seen(s, d[q]) =>
            q \in DOMAIN e /\ Seen(s, e[q]) /\ e[q].bytes = d[q].bytes
       /\ \A q \in DOMAIN e : Seen(s, e[q]) => q \in DOMAIN d /\ Seen(s, d[q])
  /\ t \in Ids(e)
  /\ Ids(d) \subseteq Ids(e) \cup {NO_TXN}
  /\ Ids(e) \subseteq Ids(d) \cup {t, NO_TXN}

\* Superseding the newest version shows only to the writer, who sees what it
\* wrote; whoever sees a version deleted still sees it created.
LEMMA SupersedeSame ==
  ASSUME Inv, NEW t \in Running, NEW d, ChainOK(d), DeletionsOK(d), Bounded(d),
         \A q \in DOMAIN d : ~is_aborted(d[q].xmin) /\ ~is_aborted(d[q].xmax),
         NEW p \in DOMAIN d, IsNewest(d, p), writable(active[t], d[p]) = "Ok",
         NEW v \in Value, NEW e, e = Supersede(t, d, p, v)
  PROVE  /\ MarkedBy(t, d, e) /\ DeletionsOK(e) /\ Bounded(e)
         /\ \E q \in DOMAIN e : Seen(active[t], e[q]) /\ e[q].bytes = v
  <1>1. d \in [DOMAIN d -> Version] /\ DOMAIN d \subseteq Nat /\ \A q \in DOMAIN d : q <= p
    BY DEF ChainOK, IsChain, TxnId, IsNewest
  <1>2. Sees(t, d[p].xmin) /\ d[p].xmax = NO_TXN
    BY <1>1, WritableOK DEF Sees
  <1>3. Sees(t, t) /\ \A s : ~visible_txn(s, NO_TXN)
    BY SeesIs DEF visible_txn
  <1>4. ASSUME NEW u \in Running, Sees(u, t) PROVE u = t
    BY <1>4, SeesIs
  <1>5. \A f, x : x \in Ids(f) <=> \E q \in DOMAIN f : x = f[q].xmin \/ x = f[q].xmax
    BY DEF Ids
  <1>6. CASE d[p].xmin = t
    <2>1. /\ DOMAIN e = DOMAIN d /\ e[p].bytes = v
          /\ \A q \in DOMAIN d : e[q].xmin = d[q].xmin /\ e[q].xmax = d[q].xmax
          /\ \A q \in DOMAIN d : q # p => e[q] = d[q]
      BY <1>1, <1>6 DEF Supersede, Version
    <2>2. MarkedBy(t, d, e)
      <3>1. ASSUME NEW s, ~visible_txn(s, t), NEW q \in DOMAIN d
            PROVE  /\ Seen(s, d[q]) => Seen(s, e[q]) /\ e[q].bytes = d[q].bytes
                   /\ Seen(s, e[q]) => Seen(s, d[q])
        BY <1>6, <2>1, <3>1 DEF Seen
      <3>2. t \in Ids(e) /\ \A x : x \in Ids(e) <=> x \in Ids(d)
        BY <1>5, <1>6, <2>1
      <3> QED
        BY <2>1, <3>1, <3>2 DEF MarkedBy
    <2>3. DeletionsOK(e) /\ Bounded(e)
      BY <2>1 DEF DeletionsOK, Bounded
    <2>4. Seen(active[t], e[p])
      BY <1>2, <1>3, <2>1 DEF Seen, Sees
    <2> QED
      BY <2>1, <2>2, <2>3, <2>4
  <1>7. CASE d[p].xmin # t
    <2>1. /\ p + 1 \notin DOMAIN d /\ DOMAIN e = DOMAIN d \cup {p + 1}
          /\ e[p + 1] = live(t, v)
          /\ e[p] = [d[p] EXCEPT !.xmax = t]
          /\ \A q \in DOMAIN d : q # p => e[q] = d[q]
      BY <1>1, <1>7 DEF Supersede
    <2>2. /\ e[p + 1].xmin = t /\ e[p + 1].xmax = NO_TXN /\ e[p + 1].bytes = v
          /\ e[p].xmin = d[p].xmin /\ e[p].xmax = t /\ e[p].bytes = d[p].bytes
      BY <1>1, <2>1 DEF live, Version
    <2>3. MarkedBy(t, d, e)
      <3>1. ASSUME NEW s, ~visible_txn(s, t), NEW q \in DOMAIN d
            PROVE  (Seen(s, d[q]) <=> Seen(s, e[q])) /\ e[q].bytes = d[q].bytes
        BY <1>2, <1>3, <2>1, <2>2, <3>1 DEF Seen
      <3>2. ASSUME NEW s, ~visible_txn(s, t) PROVE ~Seen(s, e[p + 1])
        BY <2>2, <3>2 DEF Seen
      <3>3. t \in Ids(e)
        BY <1>5, <2>1, <2>2
      <3>4. ASSUME NEW x \in Ids(d) PROVE x \in Ids(e) \cup {NO_TXN}
        <4>1. PICK q \in DOMAIN d : x = d[q].xmin \/ x = d[q].xmax
          BY <1>5
        <4>2. q \in DOMAIN e /\ (x = NO_TXN \/ x = e[q].xmin \/ x = e[q].xmax)
          BY <1>2, <2>1, <2>2, <4>1
        <4> QED
          BY <1>5, <4>2
      <3>5. ASSUME NEW x \in Ids(e) PROVE x \in Ids(d) \cup {t, NO_TXN}
        <4>1. PICK q \in DOMAIN e : x = e[q].xmin \/ x = e[q].xmax
          BY <1>5
        <4>2. x \in {t, NO_TXN} \/ (q \in DOMAIN d /\ (x = d[q].xmin \/ x = d[q].xmax))
          BY <2>1, <2>2, <4>1
        <4> QED
          BY <1>5, <4>2
      <3> QED
        BY <2>1, <3>1, <3>2, <3>3, <3>4, <3>5 DEF MarkedBy
    <2>4. DeletionsOK(e)
      <3> SUFFICES ASSUME NEW q \in DOMAIN e, NEW u \in Running, Sees(u, e[q].xmax)
                   PROVE  Sees(u, e[q].xmin)
        BY DEF DeletionsOK
      <3>1. CASE q = p + 1
        BY <1>3, <2>2, <3>1 DEF Sees
      <3>2. CASE q = p
        BY <1>2, <1>4, <2>2, <3>2
      <3>3. CASE q \in DOMAIN d /\ q # p
        BY <2>1, <3>3 DEF DeletionsOK
      <3> QED
        BY <2>1, <3>1, <3>2, <3>3
    <2>5. Bounded(e)
      <3>1. p + 1 \in Nat /\ \A q \in DOMAIN e : q <= p + 1
        BY <1>1, <2>1
      <3> QED
        BY <3>1 DEF Bounded
    <2>6. Seen(active[t], e[p + 1])
      BY <1>3, <2>2 DEF Seen, Sees
    <2> QED
      BY <2>1, <2>2, <2>3, <2>4, <2>5, <2>6
  <1> QED
    BY <1>6, <1>7

\* Deleting the newest version shows only to the deleter, who sees nothing.
LEMMA DeleteSame ==
  ASSUME Inv, NEW t \in Running, NEW d, ChainOK(d), DeletionsOK(d), Bounded(d),
         \A q \in DOMAIN d : ~is_aborted(d[q].xmin) /\ ~is_aborted(d[q].xmax),
         NEW p \in DOMAIN d, IsNewest(d, p), writable(active[t], d[p]) = "Ok",
         NEW e, e = [d EXCEPT ![p].xmax = t]
  PROVE  /\ MarkedBy(t, d, e) /\ DeletionsOK(e) /\ Bounded(e)
         /\ \A q \in DOMAIN e : ~Seen(active[t], e[q])
  <1>1. d \in [DOMAIN d -> Version] /\ DOMAIN d \subseteq Nat
    BY DEF ChainOK, IsChain, TxnId
  <1>2. Sees(t, d[p].xmin) /\ d[p].xmax = NO_TXN
    BY <1>1, WritableOK DEF Sees
  <1>3. Sees(t, t) /\ \A s : ~visible_txn(s, NO_TXN)
    BY SeesIs DEF visible_txn
  <1>4. ASSUME NEW u \in Running, Sees(u, t) PROVE u = t
    BY <1>4, SeesIs
  <1>5. \A f, x : x \in Ids(f) <=> \E q \in DOMAIN f : x = f[q].xmin \/ x = f[q].xmax
    BY DEF Ids
  <1>6. /\ DOMAIN e = DOMAIN d
        /\ e[p].xmin = d[p].xmin /\ e[p].xmax = t /\ e[p].bytes = d[p].bytes
        /\ \A q \in DOMAIN d : q # p => e[q] = d[q]
    BY <1>1 DEF Version
  <1>7. MarkedBy(t, d, e)
    <2>1. ASSUME NEW s, ~visible_txn(s, t), NEW q \in DOMAIN d
          PROVE  (Seen(s, d[q]) <=> Seen(s, e[q])) /\ e[q].bytes = d[q].bytes
      BY <1>2, <1>3, <1>6, <2>1 DEF Seen
    <2>2. t \in Ids(e)
      BY <1>5, <1>6
    <2>3. ASSUME NEW x \in Ids(d) PROVE x \in Ids(e) \cup {NO_TXN}
      <3>1. PICK q \in DOMAIN d : x = d[q].xmin \/ x = d[q].xmax
        BY <1>5
      <3>2. q \in DOMAIN e /\ (x = NO_TXN \/ x = e[q].xmin \/ x = e[q].xmax)
        BY <1>2, <1>6, <3>1
      <3> QED
        BY <1>5, <3>2
    <2>4. ASSUME NEW x \in Ids(e) PROVE x \in Ids(d) \cup {t, NO_TXN}
      <3>0. \A f : x \in Ids(f) => \E q \in DOMAIN f : x = f[q].xmin \/ x = f[q].xmax
        BY <1>5
      <3>1. PICK q \in DOMAIN e : x = e[q].xmin \/ x = e[q].xmax
        BY <3>0, Zenon
      <3>2. x = t \/ (q \in DOMAIN d /\ (x = d[q].xmin \/ x = d[q].xmax))
        BY <1>6, <3>1
      <3> QED
        BY <1>5, <3>2
    <2> QED
      BY <1>6, <2>1, <2>2, <2>3, <2>4 DEF MarkedBy
  <1>8. DeletionsOK(e)
    BY <1>2, <1>4, <1>6 DEF DeletionsOK
  <1>9. Bounded(e)
    BY <1>6 DEF Bounded
  <1>10. \A q \in DOMAIN d : q # p => ~Seen(active[t], d[q])
    BY <1>2, SeesWholeChain
  <1>11. \A q \in DOMAIN e : ~Seen(active[t], e[q])
    BY <1>3, <1>6, <1>10 DEF Seen, Sees
  <1> QED
    BY <1>7, <1>8, <1>9, <1>11

\* What the write check lets through, the abstract store lets through.
LEMMA OkMaps ==
  ASSUME StoreInv, NEW t \in Running, Usable(t), NEW r \in RowId, NEW c, c = chain[r],
         NEW d, d = prune(c), NEW p \in DOMAIN d, IsNewest(d, p),
         writable(active[t], d[p]) = "Ok"
  PROVE  /\ ChainOK(c) /\ DeletionsOK(c) /\ ChainOK(d) /\ DeletionsOK(d) /\ Bounded(d)
         /\ \A q \in DOMAIN d : ~is_aborted(d[q].xmin) /\ ~is_aborted(d[q].xmax)
         /\ r < next_row_id
         /\ Store!CanWrite(t, r)
  <1>1. Inv /\ ChainOK(c) /\ DeletionsOK(c) /\ Bounded(c)
    BY DEF StoreInv, Inv
  <1>2. /\ DOMAIN d \subseteq DOMAIN c /\ DOMAIN c \subseteq Nat
        /\ \A q \in DOMAIN d : d[q] = Cleaned(c[q]) /\ c[q] \in Version
    BY <1>1 DEF prune, ChainOK, IsChain, TxnId
  <1>3. /\ ChainOK(d)
        /\ \A q \in DOMAIN d : ~is_aborted(d[q].xmin) /\ ~is_aborted(d[q].xmax)
    BY <1>1, PruneOK
  <1>4. DeletionsOK(d)
    <2>1. ASSUME NEW q \in DOMAIN d
          PROVE  d[q].xmin = c[q].xmin /\ d[q].xmax \in {NO_TXN, c[q].xmax}
      BY <1>2 DEF Cleaned, Version
    <2>2. \A u \in Running : ~Sees(u, NO_TXN)
      BY DEF Sees, visible_txn
    <2> QED
      BY <1>1, <1>2, <2>1, <2>2 DEF DeletionsOK
  <1>5. Bounded(d)
    BY <1>1, <1>2 DEF Bounded
  <1>6. r < next_row_id
    BY <1>2 DEF StoreInv, Inv, TypeOK, RowId, TxnId
  <1>7. writable_version(active[t], d) = "Ok"
    <2>1. (CHOOSE q \in DOMAIN d : IsNewest(d, q)) = p
      BY <1>2, <1>5, NewestExists
    <2> QED
      BY <2>1 DEF writable_version, EmptyChain
  <1>8. /\ r \notin Stale(t) /\ \A u \in Running \ {t} : r \notin WrittenBy(u)
        /\ get(t, r) # None
    BY <1>7, VerdictExact DEF VerdictIsExact
  <1>9. Store!CanWrite(t, r)
    BY <1>8, OpenIs DEF Store!CanWrite
  <1> QED
    BY <1>1, <1>3, <1>4, <1>5, <1>6, <1>9

\* Replacing a chain by one that only the writer can tell from it changes the
\* writer's view of the row and nothing else.
LEMMA RowMaps ==
  ASSUME Inv, NEW t \in Running, NEW r \in RowId, NEW v, NEW c, c = chain[r],
         NEW e, ChainOK(e), chain' = [chain EXCEPT ![r] = e],
         UNCHANGED <<next_txn_id, active, committed>>,
         visible_version(active[t], e)' = v,
         visible_version(Outside, e)' = visible_version(Outside, c),
         \A u \in Running \ {t} : /\ visible_version(active[u], e)' = visible_version(active[u], c)
                                  /\ u \in Ids(e) <=> u \in Ids(c),
         t \in Ids(e),
         \A u \in Running : (\E x \in Ids(e) : Public(x) /\ ~Sees(u, x))
                              <=> (\E x \in Ids(c) : Public(x) /\ ~Sees(u, x))
  PROVE  StoreDb' = StoreDb /\ Store!Write(t, r, v)
  <1>1. \A s \in RowId : chain'[s] = IF s = r THEN e ELSE chain[s]
    BY DEF Inv, TypeOK
  <1>2. /\ Running' = Running
        /\ \A s, x : visible_txn(s, x)' <=> visible_txn(s, x)
        /\ Outside' = Outside
        /\ \A x : Public(x)' <=> Public(x)
        /\ \A u, x : Sees(u, x)' <=> Sees(u, x)
    <2>1. \A s, x : visible_txn(s, x)' <=> visible_txn(s, x)
      BY DEF visible_txn
    <2>2. Running' = Running /\ Outside' = Outside
      BY DEF Running, Outside
    <2> QED
      BY <2>1, <2>2 DEF Public, Sees
  <1>3. StoreDb' = StoreDb
    <2>1. ASSUME NEW s \in RowId
          PROVE  visible_version(Outside, chain[s])' = visible_version(Outside, chain[s])
      <3>1. CASE s = r
        BY <1>1, <3>1
      <3>2. CASE s # r
        <4>1. PICK f : f = chain[s] /\ f = chain'[s] /\ ChainOK(f)
          BY <1>1, <3>2 DEF Inv
        <4>2. visible_version(Outside, f)' = visible_version(Outside, f)
          BY <1>2, <4>1, Readers, SameChainRead DEF Public
        <4> QED
          BY <4>1, <4>2
      <3> QED
        BY <3>1, <3>2
    <2> QED
      BY <2>1 DEF StoreDb
  <1>4. ASSUME NEW u \in Running, NEW s \in RowId
        PROVE  get(u, s)' = IF u = t /\ s = r THEN v ELSE get(u, s)
    <2>1. CASE s = r
      <3>1. get(u, s)' = visible_version(active[u], e)'
        BY <1>1, <2>1 DEF get
      <3> QED
        BY <2>1, <3>1 DEF get
    <2>2. CASE s # r
      <3>1. PICK f : f = chain[s] /\ f = chain'[s] /\ ChainOK(f)
        BY <1>1, <2>2 DEF Inv
      <3>2. visible_version(active[u], f)' = visible_version(active[u], f)
        BY <1>2, <3>1, Readers, SameChainRead DEF Sees
      <3> QED
        BY <2>2, <3>1, <3>2 DEF get
    <2> QED
      BY <2>1, <2>2
  <1>5. ASSUME NEW u \in Running
        PROVE  WrittenBy(u)' = IF u = t THEN WrittenBy(t) \cup {r} ELSE WrittenBy(u)
    <2>1. ASSUME NEW s
          PROVE  s \in WrittenBy(u)' <=> s \in WrittenBy(u) \/ (u = t /\ s = r)
      BY <1>1, WrittenIs
    <2> QED
      BY <2>1
  <1>6. ASSUME NEW u \in Running PROVE Stale(u)' = Stale(u)
    <2>1. ASSUME NEW s PROVE s \in Stale(u)' <=> s \in Stale(u)
      BY <1>1, <1>2, StaleIs
    <2> QED
      BY <2>1
  <1>7. ASSUME NEW u \in Running \ {t} PROVE StoreOpen'[u] = StoreOpen[u]
    <2>1. (u \in committed') = (u \in committed)
      OBVIOUS
    <2> QED
      BY <1>2, <1>4, <1>5, <1>6, <2>1, OpenIs
  <1>8. StoreOpen'[t] = [StoreOpen[t] EXCEPT !.view[r] = v,
                                              !.written = StoreOpen[t].written \cup {r}]
    <2>1. PICK d : d = (t \in committed) /\ d = (t \in committed')
      OBVIOUS
    <2>2. PICK a : a = [s \in RowId |-> get(t, s)]
      OBVIOUS
    <2>3. [s \in RowId |-> get(t, s)'] = [a EXCEPT ![r] = v]
      BY <1>4, <2>2
    <2>4. StoreOpen[t] = [view |-> a, written |-> WrittenBy(t), stale |-> Stale(t),
                          doubtful |-> d]
      BY <2>1, <2>2, OpenIs
    <2>5. StoreOpen'[t] = [view |-> [a EXCEPT ![r] = v], written |-> WrittenBy(t) \cup {r},
                           stale |-> Stale(t), doubtful |-> d]
      BY <1>2, <1>5, <1>6, <2>1, <2>3, OpenIs
    <2>6. PICK o, f : /\ o = StoreOpen[t]
                      /\ f = [o EXCEPT !.view[r] = v]
      OBVIOUS
    <2>7. f = [view |-> [a EXCEPT ![r] = v], written |-> WrittenBy(t), stale |-> Stale(t),
               doubtful |-> d]
      BY <2>4, <2>6
    <2>8. PICK w : w = WrittenBy(t) \cup {r} /\ w = o.written \cup {r}
      <3>1. o.written = WrittenBy(t)
        BY <2>4, <2>6
      <3> QED
        BY <3>1
    <2>9. [o EXCEPT !.view[r] = v, !.written = w] = [f EXCEPT !.written = w]
      BY <2>6
    <2>10. [f EXCEPT !.written = w] =
             [view |-> [a EXCEPT ![r] = v], written |-> w, stale |-> Stale(t), doubtful |-> d]
      BY <2>7
    <2> QED
      BY <2>5, <2>6, <2>8, <2>9, <2>10
  <1>9. StoreOpen' = [StoreOpen EXCEPT ![t].view[r] = v,
                                       ![t].written = StoreOpen[t].written \cup {r}]
    BY <1>2, <1>7, <1>8, OpenIs
  <1> QED
    BY <1>3, <1>9 DEF Store!Write

\* A write of a pruned chain that only the writer can tell.
LEMMA MarkedMaps ==
  ASSUME StoreInv, NEW t \in Running, Usable(t), NEW r \in RowId, NEW v,
         NEW c, c = chain[r], NEW d, d = prune(c),
         NEW e, ChainOK(e), MarkedBy(t, d, e), chain' = [chain EXCEPT ![r] = e],
         UNCHANGED <<next_txn_id, active, committed>>,
         visible_version(active[t], e)' = v
  PROVE  StoreDb' = StoreDb /\ Store!Write(t, r, v)
  <1>1. Inv /\ ChainOK(c) /\ DeletionsOK(c)
    BY DEF StoreInv, Inv
  <1>2. /\ \A s \in Snapshots : \A p \in DOMAIN c : Seen(s, c[p]) =>
             p \in DOMAIN d /\ Seen(s, d[p]) /\ d[p].bytes = c[p].bytes
        /\ \A s \in Snapshots : \A p \in DOMAIN d :
             Seen(s, d[p]) => p \in DOMAIN c /\ Seen(s, c[p])
        /\ Ids(d) \subseteq Ids(c) \cup {NO_TXN}
        /\ \A x \in Ids(c) : \/ x \in Ids(d)
                             \/ x \notin Running /\ (Public(x) => \A u \in Running : Sees(u, x))
    BY <1>1, PruneSame
  <1>3. /\ DOMAIN c \subseteq Nat /\ DOMAIN e \subseteq Nat
        /\ \A s \in Snapshots : \A p, q \in DOMAIN c : Seen(s, c[p]) /\ Seen(s, c[q]) => p = q
    BY <1>1, SeenOnce DEF ChainOK, IsChain, TxnId
  <1>4. \A s, w : Seen(s, w)' <=> Seen(s, w)
    BY DEF Seen, visible_txn
  <1>5. ASSUME NEW s \in Snapshots, ~visible_txn(s, t)
        PROVE  visible_version(s, e)' = visible_version(s, c)
    <2>1. PICK z : z = s
      OBVIOUS
    <2>2. \A p \in DOMAIN c : Seen(z, c[p]) =>
            p \in DOMAIN e /\ Seen(z, e[p])' /\ e[p].bytes = c[p].bytes
      BY <1>2, <1>4, <1>5, <2>1 DEF MarkedBy
    <2>3. \A p \in DOMAIN e : Seen(z, e[p])' => p \in DOMAIN c /\ Seen(z, c[p])
      BY <1>2, <1>4, <1>5, <2>1 DEF MarkedBy
    <2>4. \A p, q \in DOMAIN c : Seen(z, c[p]) /\ Seen(z, c[q]) => p = q
      BY <1>3, <2>1
    <2> QED
      BY <1>3, <2>1, <2>2, <2>3, <2>4, SameRead
  <1>6. visible_version(Outside, e)' = visible_version(Outside, c)
    <2>1. PICK s : s = Outside /\ s = Outside'
      BY DEF Outside, Running
    <2>2. ~visible_txn(s, t) /\ s \in Snapshots
      BY <1>1, <2>1, SeesIs, Readers DEF Public
    <2> QED
      BY <1>5, <2>1, <2>2
  <1>7. ASSUME NEW u \in Running \ {t}
        PROVE  /\ visible_version(active[u], e)' = visible_version(active[u], c)
               /\ u \in Ids(e) <=> u \in Ids(c)
    <2>1. PICK s : s = active[u] /\ s = active'[u]
      OBVIOUS
    <2>2. ~visible_txn(s, t) /\ s \in Snapshots
      BY <1>1, <2>1, SeesIs, Readers DEF Sees
    <2>3. u # NO_TXN
      BY <1>1 DEF Inv, IdsOK, TxnId
    <2> QED
      BY <1>2, <1>5, <2>1, <2>2, <2>3 DEF MarkedBy
  <1>8. ~Public(NO_TXN) /\ ~Public(t)
    BY <1>1, SeesIs DEF Public, visible_txn
  <1>9. ASSUME NEW u \in Running
        PROVE  (\E x \in Ids(e) : Public(x) /\ ~Sees(u, x))
                 <=> (\E x \in Ids(c) : Public(x) /\ ~Sees(u, x))
    <2>1. \A x \in Ids(e) : Public(x) /\ ~Sees(u, x) => x \in Ids(c)
      BY <1>2, <1>8 DEF MarkedBy
    <2>2. \A x \in Ids(c) : Public(x) /\ ~Sees(u, x) => x \in Ids(e)
      BY <1>2, <1>8 DEF MarkedBy
    <2> QED
      BY <2>1, <2>2
  <1>10. t \in Ids(e)
    BY DEF MarkedBy
  <1> QED
    BY <1>1, <1>6, <1>7, <1>9, <1>10, RowMaps

\* An insert gives the writer a row nobody knows of.
LEMMA InsertMaps ==
  ASSUME StoreInv, NEW t \in Running, NEW v \in Value, Insert(t, v)
  PROVE  next_row_id \in RowId /\ Store!Insert(t, next_row_id, v)
  <1>1. /\ Inv /\ next_row_id \in RowId /\ next_row_id' = next_row_id + 1
        /\ UNCHANGED <<next_txn_id, active, committed>>
        /\ t \in TxnId /\ t < next_txn_id /\ next_txn_id \in TxnId
    BY MvccAssumption DEF StoreInv, Insert, Inv, TypeOK, IdsOK, RowId, TxnId, NO_TXN
  <1>2. PICK r \in RowId : r = next_row_id
    BY <1>1
  <1>3. PICK c : c = chain[r] /\ DOMAIN c = {}
    <2>1. r >= next_row_id
      BY <1>1, <1>2, MvccAssumption DEF RowId
    <2> QED
      BY <2>1 DEF StoreInv
  <1>4. PICK e : e = [p \in {1} |-> live(t, v)] /\ chain' = [chain EXCEPT ![r] = e]
    BY <1>2 DEF Insert
  <1>5. DOMAIN e = {1} /\ e[1].xmin = t /\ e[1].xmax = NO_TXN /\ e[1].bytes = v
    BY <1>4 DEF live
  <1>6. ChainOK(e)
    <2>1. live(t, v) \in Version
      BY <1>1 DEF live, Version, TxnId, NO_TXN
    <2>2. IsChain(e)
      BY <1>4, <2>1 DEF IsChain, TxnId, NO_TXN
    <2> QED
      BY <1>1, <1>5, <2>2 DEF ChainOK, ChainIdsOK, OwnOK, LinksOK, TxnId, NO_TXN
  <1>7. Sees(t, t) /\ ~Public(t) /\ \A u \in Running \ {t} : ~Sees(u, t)
    BY <1>1, SeesIs
  <1>8. /\ \A s : ~visible_txn(s, NO_TXN)
        /\ \A s, w : Seen(s, w)' <=> Seen(s, w)
    BY <1>1 DEF Seen, visible_txn
  <1>9. visible_version(active[t], e)' = v
    <2>1. PICK s : s = active[t] /\ s = active'[t]
      BY <1>1
    <2>2. Seen(s, e[1])'
      BY <1>5, <1>7, <1>8, <2>1 DEF Seen, Sees
    <2>3. visible_version(s, e)' = e[1].bytes
      BY <1>5, <2>2, ReadSeenNext
    <2> QED
      BY <1>5, <2>1, <2>3
  <1>10. ASSUME NEW s, ~visible_txn(s, t) PROVE visible_version(s, e)' = visible_version(s, c)
    <2>1. ~Seen(s, e[1])'
      BY <1>5, <1>8, <1>10 DEF Seen
    <2>2. visible_version(s, e)' = None
      BY <1>5, <2>1 DEF visible_version
    <2>3. visible_version(s, c) = None
      BY <1>3 DEF visible_version
    <2> QED
      BY <2>2, <2>3
  <1>11. visible_version(Outside, e)' = visible_version(Outside, c)
    <2>1. PICK s : s = Outside /\ s = Outside' /\ ~visible_txn(s, t)
      BY <1>1, <1>7 DEF Outside, Running, Public
    <2> QED
      BY <1>10, <2>1
  <1>12. \A x : x \notin Ids(c)
    BY <1>3 DEF Ids
  <1>13. \A x : x \in Ids(e) <=> x \in {t, NO_TXN}
    BY <1>5 DEF Ids
  <1>14. ASSUME NEW u \in Running \ {t}
         PROVE  /\ visible_version(active[u], e)' = visible_version(active[u], c)
                /\ u \in Ids(e) <=> u \in Ids(c)
    <2>1. PICK s : s = active[u] /\ s = active'[u] /\ ~visible_txn(s, t)
      BY <1>1, <1>7 DEF Sees
    <2>2. u # NO_TXN
      BY <1>1 DEF Inv, IdsOK, TxnId
    <2> QED
      BY <1>10, <1>12, <1>13, <2>1, <2>2
  <1>15. ASSUME NEW u \in Running
         PROVE  (\E x \in Ids(e) : Public(x) /\ ~Sees(u, x))
                  <=> (\E x \in Ids(c) : Public(x) /\ ~Sees(u, x))
    BY <1>7, <1>8, <1>12, <1>13 DEF Public
  <1>16. StoreDb' = StoreDb /\ Store!Write(t, r, v)
    <2>1. t \in Ids(e)
      BY <1>13
    <2> QED
      BY <1>1, <1>3, <1>4, <1>6, <1>9, <1>11, <1>14, <1>15, <2>1, RowMaps
  <1>17. /\ r \notin 1 .. next_row_id - 1
         /\ 1 .. next_row_id' - 1 = (1 .. next_row_id - 1) \cup {r}
    BY <1>1, <1>2 DEF RowId
  <1> QED
    BY <1>1, <1>2, <1>16, <1>17, UsableIs DEF Store!Insert, Insert

\* An update passes the abstract write check and changes only its writer's view.
LEMMA UpdateMaps ==
  ASSUME StoreInv, NEW t \in Running, NEW r \in RowId, NEW v \in Value, Update(t, r, v)
  PROVE  Store!Update(t, r, v)
  <1>1. Inv /\ Usable(t) /\ UNCHANGED <<next_txn_id, next_row_id, active, committed>>
    BY DEF StoreInv, Update
  <1>2. PICK c, d : c = chain[r] /\ d = prune(c)
    OBVIOUS
  <1>3. PICK p \in DOMAIN d : /\ IsNewest(d, p) /\ writable(active[t], d[p]) = "Ok"
                              /\ chain' = [chain EXCEPT ![r] = Supersede(t, d, p, v)]
    BY <1>2 DEF Update
  <1>4. /\ ChainOK(d) /\ DeletionsOK(d) /\ Bounded(d) /\ Store!CanWrite(t, r)
        /\ \A q \in DOMAIN d : ~is_aborted(d[q].xmin) /\ ~is_aborted(d[q].xmax)
    BY <1>1, <1>2, <1>3, OkMaps
  <1>5. PICK e : e = Supersede(t, d, p, v) /\ chain' = [chain EXCEPT ![r] = e] /\ ChainOK(e)
    BY <1>1, <1>3, <1>4, SupersedeOK
  <1>6. /\ MarkedBy(t, d, e)
        /\ \E q \in DOMAIN e : Seen(active[t], e[q]) /\ e[q].bytes = v
    BY <1>1, <1>3, <1>4, <1>5, SupersedeSame
  <1>7. visible_version(active[t], e)' = v
    <2>1. PICK s : s = active[t] /\ s = active'[t] /\ s \in Snapshots
      BY <1>1, Readers
    <2>2. PICK q \in DOMAIN e : Seen(s, e[q]) /\ e[q].bytes = v
      BY <1>6, <2>1
    <2>3. \A w : Seen(s, w)' <=> Seen(s, w)
      BY <1>1 DEF Seen, visible_txn
    <2>4. \A p2 \in DOMAIN e : Seen(s, e[p2])' => p2 = q
      BY <1>1, <1>5, <2>1, <2>2, <2>3, SeenOnce
    <2>5. DOMAIN e \subseteq Nat
      BY <1>5 DEF ChainOK, IsChain, TxnId
    <2>6. visible_version(s, e)' = e[q].bytes
      BY <2>2, <2>3, <2>4, <2>5, ReadSeenNext
    <2> QED
      BY <2>1, <2>2, <2>6
  <1>8. StoreDb' = StoreDb /\ Store!Write(t, r, v)
    BY <1>1, <1>2, <1>5, <1>6, <1>7, MarkedMaps
  <1> QED
    BY <1>1, <1>4, <1>8, UsableIs DEF Store!Update

\* So does a delete.
LEMMA DeleteMaps ==
  ASSUME StoreInv, NEW t \in Running, NEW r \in RowId, Delete(t, r)
  PROVE  Store!Delete(t, r)
  <1>1. Inv /\ Usable(t) /\ UNCHANGED <<next_txn_id, next_row_id, active, committed>>
    BY DEF StoreInv, Delete
  <1>2. PICK c, d : c = chain[r] /\ d = prune(c)
    OBVIOUS
  <1>3. PICK p \in DOMAIN d : /\ IsNewest(d, p) /\ writable(active[t], d[p]) = "Ok"
                              /\ chain' = [chain EXCEPT ![r] = [d EXCEPT ![p].xmax = t]]
    BY <1>2 DEF Delete
  <1>4. /\ ChainOK(d) /\ DeletionsOK(d) /\ Bounded(d) /\ Store!CanWrite(t, r)
        /\ \A q \in DOMAIN d : ~is_aborted(d[q].xmin) /\ ~is_aborted(d[q].xmax)
    BY <1>1, <1>2, <1>3, OkMaps
  <1>5. PICK e : e = [d EXCEPT ![p].xmax = t] /\ chain' = [chain EXCEPT ![r] = e] /\ ChainOK(e)
    BY <1>1, <1>3, <1>4, DeleteOK
  <1>6. MarkedBy(t, d, e) /\ \A q \in DOMAIN e : ~Seen(active[t], e[q])
    BY <1>1, <1>3, <1>4, <1>5, DeleteSame
  <1>7. visible_version(active[t], e)' = None
    <2>1. PICK s : s = active[t] /\ s = active'[t]
      BY <1>1
    <2>2. \A q \in DOMAIN e : ~Seen(s, e[q])'
      BY <1>1, <1>6, <2>1 DEF Seen, visible_txn
    <2>3. visible_version(s, e)' = None
      BY <2>2 DEF visible_version
    <2> QED
      BY <2>1, <2>3
  <1>8. StoreDb' = StoreDb /\ Store!Write(t, r, None)
    BY <1>1, <1>2, <1>5, <1>6, <1>7, MarkedMaps
  <1> QED
    BY <1>1, <1>4, <1>8, UsableIs DEF Store!Delete
-----------------------------------------------------------------------------
(* The invariant *)

\* The empty database satisfies the invariant.
LEMMA InitStoreInv == Init => StoreInv
  <1> SUFFICES ASSUME Init PROVE StoreInv
    OBVIOUS
  <1>1. Inv
    BY InitInv
  <1>2. \A r \in RowId : DOMAIN chain[r] = {}
    BY DEF Init, EmptyChain
  <1>3. next_txn_id <= MaxTxn + 1
    BY MvccAssumption DEF Init
  <1>4. \A r \in RowId : DeletionsOK(chain[r]) /\ Bounded(chain[r])
    BY <1>2 DEF DeletionsOK, Bounded
  <1> QED
    BY <1>1, <1>2, <1>3, <1>4 DEF StoreInv

\* A step that changes no chain keeps deletions in order if every transaction
\* that still runs sees what it saw, or what is settled and its own.
LEMMA DeletionsKept ==
  ASSUME Inv, \A r \in RowId : DeletionsOK(chain[r]), chain' = chain,
         \A t \in Running' : \/ /\ t \in Running
                                /\ \A x : Sees(t, x)' <=> Sees(t, x)
                             \/ \A r \in RowId : \A x \in Ids(chain[r]) :
                                  Sees(t, x)' <=> x # NO_TXN /\ (x = t \/ Settled(x)),
         \A t \in Running' : t \in Running \/ \A r \in RowId : t \notin Ids(chain[r])
  PROVE  \A r \in RowId : DeletionsOK(chain[r])'
  <1> SUFFICES ASSUME NEW r \in RowId, NEW p \in DOMAIN chain[r], NEW t \in Running',
                      Sees(t, chain[r][p].xmax)'
               PROVE  Sees(t, chain[r][p].xmin)'
    BY DEF DeletionsOK
  <1>1. PICK c : c = chain[r] /\ c = chain'[r] /\ ChainOK(c) /\ DeletionsOK(c)
    BY DEF Inv
  <1>2. c[p].xmin \in Ids(c) /\ c[p].xmax \in Ids(c) /\ c[p].xmin # NO_TXN
    BY <1>1, IdsType DEF ChainOK, IsChain, Version, TxnId
  <1>3. PICK x, y : x = c[p].xmax /\ y = c[p].xmin
    OBVIOUS
  <1>4. Sees(t, x)'
    BY <1>1, <1>3
  <1>5. CASE t \in Running /\ \A z : Sees(t, z)' <=> Sees(t, z)
    <2>1. Sees(t, x)
      BY <1>4, <1>5
    <2>2. Sees(t, y)
      BY <1>1, <1>3, <1>5, <2>1 DEF DeletionsOK
    <2>3. Sees(t, y)'
      BY <1>5, <2>2
    <2> QED
      BY <1>1, <1>3, <2>3
  <1>6. CASE \A z \in Ids(c) : Sees(t, z)' <=> z # NO_TXN /\ (z = t \/ Settled(z))
    <2>1. x # NO_TXN /\ (x = t \/ Settled(x))
      BY <1>2, <1>3, <1>4, <1>6
    <2>2. y = t \/ Settled(y)
      <3>1. CASE x = t
        <4>1. t \in Running
          BY <1>1, <1>2, <1>3, <3>1
        <4>2. Sees(t, y)
          BY <1>1, <1>3, <3>1, <4>1, SeesIs DEF DeletionsOK
        <4> QED
          BY <4>1, <4>2, SeesIs
      <3>2. CASE Settled(x)
        BY <1>1, <1>3, <2>1, <3>2 DEF ChainOK, OwnOK
      <3> QED
        BY <2>1, <3>1, <3>2
    <2>3. Sees(t, y)'
      BY <1>2, <1>3, <1>6, <2>2
    <2> QED
      BY <1>1, <1>3, <2>3
  <1> QED
    BY <1>1, <1>5, <1>6

\* Every step keeps the invariant.
LEMMA NextStoreInv == StoreInv /\ [Next]_vars => StoreInv'
  <1> SUFFICES ASSUME StoreInv, [Next]_vars PROVE StoreInv'
    OBVIOUS
  <1>0. Inv /\ Inv' /\ next_txn_id \in Nat /\ next_row_id \in Nat /\ \A r \in RowId : r \in Nat
    BY NextInv DEF StoreInv, Inv, TypeOK, TxnId, RowId
  <1>1. ASSUME chain' = chain, next_row_id' = next_row_id, next_txn_id' <= MaxTxn + 1,
               \A r \in RowId : DeletionsOK(chain[r])'
        PROVE  StoreInv'
    <2>1. \A r \in RowId : Bounded(chain[r])'
      BY <1>1 DEF StoreInv, Bounded
    <2> QED
      BY <1>0, <1>1, <2>1 DEF StoreInv
  <1>2. CASE UNCHANGED vars
    <2>1. \A t, x : Sees(t, x)' <=> Sees(t, x)
      BY <1>2 DEF vars, Sees, visible_txn
    <2>2. \A r \in RowId : DeletionsOK(chain[r])'
      BY <1>2, <2>1 DEF vars, StoreInv, DeletionsOK, Running
    <2> QED
      BY <1>1, <1>2, <2>2 DEF vars, StoreInv
  <1>3. CASE Begin
    <2>0. PICK n \in Nat : n = next_txn_id /\ n > 0 /\ n <= MaxTxn
      BY <1>0, <1>3 DEF Inv, TypeOK, TxnId, NO_TXN, Begin
    <2>1. /\ next_txn_id' = n + 1 /\ Running' = Running \cup {n} /\ n \notin Running
          /\ \A t \in Running : active'[t] = active[t]
          /\ active'[n] = [txn_id |-> n, xmin |-> n + 1, active_at_start |-> Running \ {n}]
          /\ committed' = committed /\ chain' = chain /\ next_row_id' = next_row_id
      BY <1>0, <1>3, <2>0 DEF Begin, take_snapshot, Running, Inv, IdsOK, TxnId
    <2>2. ASSUME NEW r \in RowId, NEW x \in Ids(chain[r]) PROVE x \in Nat /\ x < n
      BY <1>0, <2>0, IdsType DEF Inv
    <2>3. \A x : \A t \in Running : Sees(t, x)' <=> Sees(t, x)
      BY <2>1 DEF Sees, visible_txn
    <2>4. \A x \in Nat : x < n => (Sees(n, x)' <=> x # NO_TXN /\ (x = n \/ Settled(x)))
      BY <2>0, <2>1 DEF Sees, visible_txn, Settled
    <2>5. \A r \in RowId : n \notin Ids(chain[r])
      BY <2>2
    <2>6. \A r \in RowId : DeletionsOK(chain[r])'
      BY <1>0, <2>1, <2>2, <2>3, <2>4, <2>5, DeletionsKept DEF StoreInv
    <2>7. next_txn_id' <= MaxTxn + 1
      BY <2>0, <2>1, MvccAssumption
    <2> QED
      BY <1>1, <2>1, <2>6, <2>7
  <1>4. ASSUME NEW t \in Running, TakeSnapshot(t) PROVE StoreInv'
    <2>1. /\ next_txn_id' = next_txn_id /\ next_row_id' = next_row_id
          /\ committed' = committed /\ chain' = chain /\ Running' = Running
          /\ \A u \in Running \ {t} : active'[u] = active[u]
          /\ active'[t] = [txn_id |-> t, xmin |-> next_txn_id, active_at_start |-> Running \ {t}]
      BY <1>4 DEF TakeSnapshot, take_snapshot, Running
    <2>2. ASSUME NEW r \in RowId, NEW x \in Ids(chain[r]) PROVE x \in Nat /\ x < next_txn_id
      BY <1>0, IdsType DEF Inv
    <2>3. \A x : \A u \in Running \ {t} : Sees(u, x)' <=> Sees(u, x)
      BY <2>1 DEF Sees, visible_txn
    <2>4. \A x \in Nat : x < next_txn_id => (Sees(t, x)' <=> x # NO_TXN /\ (x = t \/ Settled(x)))
      BY <2>1 DEF Sees, visible_txn, Settled
    <2>5. \A r \in RowId : DeletionsOK(chain[r])'
      BY <1>0, <2>1, <2>2, <2>3, <2>4, DeletionsKept DEF StoreInv
    <2> QED
      BY <1>1, <2>1, <2>5 DEF StoreInv
  <1>5. ASSUME Restart \/ \E t \in Running : Commit(t) \/ CommitFails(t) \/ Abort(t)
        PROVE  StoreInv'
    <2>1. /\ next_txn_id' = next_txn_id /\ next_row_id' = next_row_id /\ chain' = chain
          /\ Running' \subseteq Running /\ \A u \in Running' : active'[u] = active[u]
          /\ committed' = committed \/ \E t \in Running : committed' = committed \cup {t}
      BY <1>5 DEF Restart, Commit, CommitFails, Abort, Forget, Running
    <2>2. ASSUME NEW u \in Running', NEW x PROVE Sees(u, x)' <=> Sees(u, x)
      <3>1. CASE committed' = committed
        BY <2>1, <3>1 DEF Sees, visible_txn
      <3>2. ASSUME NEW t \in Running, committed' = committed \cup {t}
            PROVE  Sees(u, x)' <=> Sees(u, x)
        <4>1. u = t \/ ~(t < active[u].xmin /\ t \notin active[u].active_at_start)
          BY <1>0, <2>1, RunningInvisible
        <4>2. active[u].txn_id = u
          BY <1>0, <2>1 DEF Inv, IdsOK
        <4> QED
          BY <2>1, <3>2, <4>1, <4>2 DEF Sees, visible_txn
      <3> QED
        BY <2>1, <3>1, <3>2
    <2>3. \A r \in RowId : DeletionsOK(chain[r])'
      BY <1>0, <2>1, <2>2, DeletionsKept DEF StoreInv
    <2> QED
      BY <1>1, <2>1, <2>3 DEF StoreInv
  <1>6. ASSUME NEW r \in RowId, NEW e, DeletionsOK(e), Bounded(e),
               chain' = [chain EXCEPT ![r] = e], UNCHANGED <<next_txn_id, active, committed>>,
               next_row_id' \in Nat, next_row_id' >= next_row_id, r < next_row_id'
        PROVE  StoreInv'
    <2>1. \A s \in RowId : chain'[s] = IF s = r THEN e ELSE chain[s]
      BY <1>0, <1>6 DEF Inv, TypeOK
    <2>2. \A t, x : Sees(t, x)' <=> Sees(t, x)
      BY <1>6 DEF Sees, visible_txn
    <2>3. ASSUME NEW s \in RowId PROVE DeletionsOK(chain[s])' /\ Bounded(chain[s])'
      <3>1. PICK f : f = chain'[s] /\ DeletionsOK(f) /\ Bounded(f)
        BY <1>6, <2>1 DEF StoreInv
      <3> QED
        BY <1>6, <2>2, <3>1 DEF DeletionsOK, Bounded, Running
    <2>4. ASSUME NEW s \in RowId, s >= next_row_id' PROVE DOMAIN chain'[s] = {}
      <3>1. s # r /\ s >= next_row_id
        BY <1>0, <1>6, <2>4
      <3> QED
        BY <2>1, <3>1 DEF StoreInv
    <2> QED
      BY <1>0, <1>6, <2>3, <2>4 DEF StoreInv
  <1>7. ASSUME NEW t \in Running, NEW v \in Value, Insert(t, v) PROVE StoreInv'
    <2>1. PICK r \in RowId : r = next_row_id
      BY <1>0, <1>7, MvccAssumption DEF Insert, Inv, TypeOK, RowId, TxnId, NO_TXN
    <2>2. PICK e : e = [p \in {1} |-> live(t, v)] /\ chain' = [chain EXCEPT ![r] = e]
      BY <1>7, <2>1 DEF Insert
    <2>3. DeletionsOK(e) /\ Bounded(e)
      <3>1. DOMAIN e = {1} /\ e[1].xmax = NO_TXN
        BY <2>2 DEF live
      <3> QED
        BY <3>1 DEF DeletionsOK, Bounded, Sees, visible_txn
    <2>4. next_row_id' = r + 1 /\ UNCHANGED <<next_txn_id, active, committed>>
      BY <1>7, <2>1 DEF Insert
    <2>5. next_row_id' \in Nat /\ next_row_id' >= next_row_id /\ r < next_row_id'
      BY <1>0, <2>1, <2>4
    <2> QED
      BY <1>6, <2>2, <2>3, <2>4, <2>5
  <1>8. ASSUME NEW t \in Running, NEW r \in RowId, NEW v \in Value, Update(t, r, v)
        PROVE  StoreInv'
    <2>1. Usable(t) /\ UNCHANGED <<next_txn_id, next_row_id, active, committed>>
      BY <1>8 DEF Update
    <2>2. PICK c, d : c = chain[r] /\ d = prune(c)
      OBVIOUS
    <2>3. PICK p \in DOMAIN d : /\ IsNewest(d, p) /\ writable(active[t], d[p]) = "Ok"
                                /\ chain' = [chain EXCEPT ![r] = Supersede(t, d, p, v)]
      BY <1>8, <2>2 DEF Update
    <2>4. /\ ChainOK(d) /\ DeletionsOK(d) /\ Bounded(d) /\ r < next_row_id
          /\ \A q \in DOMAIN d : ~is_aborted(d[q].xmin) /\ ~is_aborted(d[q].xmax)
      BY <2>1, <2>2, <2>3, OkMaps
    <2>5. PICK e : e = Supersede(t, d, p, v) /\ chain' = [chain EXCEPT ![r] = e]
      BY <2>3
    <2>6. DeletionsOK(e) /\ Bounded(e)
      BY <1>0, <2>3, <2>4, <2>5, SupersedeSame
    <2>7. next_row_id' \in Nat /\ next_row_id' >= next_row_id /\ r < next_row_id'
      BY <1>0, <2>1, <2>4
    <2> QED
      BY <1>6, <2>1, <2>5, <2>6, <2>7
  <1>9. ASSUME NEW t \in Running, NEW r \in RowId, Delete(t, r) PROVE StoreInv'
    <2>1. Usable(t) /\ UNCHANGED <<next_txn_id, next_row_id, active, committed>>
      BY <1>9 DEF Delete
    <2>2. PICK c, d : c = chain[r] /\ d = prune(c)
      OBVIOUS
    <2>3. PICK p \in DOMAIN d : /\ IsNewest(d, p) /\ writable(active[t], d[p]) = "Ok"
                                /\ chain' = [chain EXCEPT ![r] = [d EXCEPT ![p].xmax = t]]
      BY <1>9, <2>2 DEF Delete
    <2>4. /\ ChainOK(d) /\ DeletionsOK(d) /\ Bounded(d) /\ r < next_row_id
          /\ \A q \in DOMAIN d : ~is_aborted(d[q].xmin) /\ ~is_aborted(d[q].xmax)
      BY <2>1, <2>2, <2>3, OkMaps
    <2>5. PICK e : e = [d EXCEPT ![p].xmax = t] /\ chain' = [chain EXCEPT ![r] = e]
      BY <2>3
    <2>6. DeletionsOK(e) /\ Bounded(e)
      BY <1>0, <2>3, <2>4, <2>5, DeleteSame
    <2>7. next_row_id' \in Nat /\ next_row_id' >= next_row_id /\ r < next_row_id'
      BY <1>0, <2>1, <2>4
    <2> QED
      BY <1>6, <2>1, <2>5, <2>6, <2>7
  <1>10. ASSUME NEW t \in Running, NEW r \in RowId, WriteRefused(t, r) PROVE StoreInv'
    BY <1>2, <1>10 DEF WriteRefused
  <1> QED
    BY <1>2, <1>3, <1>4, <1>5, <1>7, <1>8, <1>9, <1>10 DEF Next
-----------------------------------------------------------------------------
(* The theorems *)

\* The strengthened invariant holds throughout.
THEOREM StoreInvariance == Spec => []StoreInv
  BY InitStoreInv, NextStoreInv, PTL DEF Spec

\* The write check of update and delete, which looks at one version of the
\* pruned chain (engine.rs writable_version), is exact in every reachable
\* state: a conflict is neither missed nor invented.
THEOREM ExactVerdicts == Spec => []VerdictIsExact
  BY StoreInvariance, VerdictExact, PTL

\* Every step of the engine is one step of the abstract store, or none.
LEMMA NextMaps ==
  ASSUME StoreInv, [Next]_vars
  PROVE  [Store!Next]_(Store!vars)
  <1>0. \A t \in Running : t \in 1 .. MaxTxn
    BY MvccAssumption DEF StoreInv, Inv, TypeOK, IdsOK, TxnId, NO_TXN
  <1>1. CASE UNCHANGED vars
    <2>0. /\ \A x : Public(x)' <=> Public(x)
          /\ \A t, x : Sees(t, x)' <=> Sees(t, x)
          /\ Running' = Running /\ chain' = chain /\ committed' = committed
      BY <1>1 DEF vars, Public, Sees, visible_txn, Outside, Running
    <2>1. StoreDb' = StoreDb
      BY <2>0, KeepsReads DEF StoreInv
    <2>2. StoreOpen' = StoreOpen
      <3>1. \A t \in Running : StoreOpen'[t] = StoreOpen[t]
        BY <2>0, KeepsOpen DEF StoreInv
      <3>2. StoreOpen = [t \in Running |-> StoreOpen[t]]
        BY DEF StoreOpen
      <3> QED
        BY <2>0, <3>1, <3>2, OpenIs
    <2> QED
      BY <1>1, <2>1, <2>2 DEF vars, Store!vars
  <1>2. CASE Begin
    BY <1>2, BeginMaps DEF Store!Next
  <1>3. CASE Restart
    BY <1>3, RestartMaps DEF Store!Next
  <1>4. ASSUME NEW t \in Running, TakeSnapshot(t) \/ Commit(t) \/ CommitFails(t) \/ Abort(t)
        PROVE  Store!Next
    BY <1>0, <1>4, TakeSnapshotMaps, CommitMaps, CommitFailsMaps, AbortMaps DEF Store!Next
  <1>5. ASSUME NEW t \in Running, NEW v \in Value, Insert(t, v) PROVE Store!Next
    BY <1>0, <1>5, InsertMaps DEF Store!Next
  <1>6. ASSUME NEW t \in Running, NEW r \in RowId, Delete(t, r) PROVE Store!Next
    BY <1>0, <1>6, DeleteMaps DEF Store!Next
  <1>7. ASSUME NEW t \in Running, NEW r \in RowId, NEW v \in Value, Update(t, r, v)
        PROVE  Store!Next
    BY <1>0, <1>7, UpdateMaps DEF Store!Next
  <1>8. ASSUME NEW t \in Running, NEW r \in RowId, WriteRefused(t, r)
        PROVE  [Store!Next]_(Store!vars)
    BY <1>1, <1>8 DEF WriteRefused
  <1> QED
    BY <1>1, <1>2, <1>3, <1>4, <1>5, <1>6, <1>7, <1>8 DEF Next

\* The engine implements the abstract store: for any number of transactions,
\* rows and values, version chains, commit bits, snapshots and pruning behave
\* as private views over one committed table.
THEOREM Refinement == Spec => ImplementsSnapshotStore
  <1>1. Init => Store!Init
    <2> SUFFICES ASSUME Init PROVE Store!Init
      OBVIOUS
    <2>1. \A r \in RowId : visible_version(Outside, chain[r]) = None
      BY DEF Init, EmptyChain, visible_version
    <2>2. StoreDb = [r \in RowId |-> None]
      BY <2>1 DEF StoreDb
    <2>3. Running = {}
      BY DEF Init, Running
    <2>4. StoreOpen = [t \in {} |-> t]
      BY <2>3 DEF StoreOpen
    <2>5. 1 .. next_row_id - 1 = {}
      BY DEF Init
    <2> QED
      BY <2>2, <2>4, <2>5 DEF Store!Init
  <1>2. StoreInv /\ [Next]_vars => [Store!Next]_(Store!vars)
    BY NextMaps
  <1> QED
    BY <1>1, <1>2, StoreInvariance, PTL DEF Spec, Store!Spec, ImplementsSnapshotStore

\* The view of an open transaction is what it reads.
LEMMA ViewIs ==
  /\ \A t \in Running : \A r \in RowId : StoreOpen[t].view[r] = get(t, r)
  /\ \A t \in Running' : \A r \in RowId : StoreOpen'[t].view[r] = get(t, r)'
  BY OpenIs

\* The view after an abstract write.
LEMMA WriteView ==
  ASSUME NEW u \in Running, NEW s \in RowId, NEW v, Store!Write(u, s, v), Running' = Running,
         NEW t \in Running, NEW r \in RowId
  PROVE  get(t, r)' = IF t = u /\ r = s THEN v ELSE get(t, r)
  <1>1. StoreOpen' = [StoreOpen EXCEPT ![u].view[s] = v,
                                       ![u].written = StoreOpen[u].written \cup {s}]
    BY DEF Store!Write
  <1>2. CASE t # u
    BY <1>1, <1>2, OpenIs, ViewIs
  <1>3. CASE t = u
    <2>1. StoreOpen'[u] = [StoreOpen[u] EXCEPT !.view[s] = v,
                                               !.written = StoreOpen[u].written \cup {s}]
      BY <1>1, OpenIs
    <2>2. StoreOpen'[u].view = [StoreOpen[u].view EXCEPT ![s] = v]
      BY <2>1, OpenIs
    <2>3. DOMAIN StoreOpen[u].view = RowId
      BY OpenIs
    <2> QED
      BY <1>3, <2>2, <2>3, ViewIs
  <1> QED
    BY <1>2, <1>3

\* What a transaction reads changes only by its own writes and by its own new
\* snapshot, over every commit, abort, write and pruning of the others.
THEOREM StableReads == Spec => ReadsAreStable
  <1>1. ASSUME StoreInv, [Next]_vars, NEW t \in Running \cap Running', NEW r \in RowId,
               active'[t] = active[t], get(t, r)' # get(t, r)
        PROVE  Insert(t, get(t, r)') \/ Delete(t, r) \/ Update(t, r, get(t, r)')
    <2>0. Inv
      BY <1>1 DEF StoreInv
    <2>1. ASSUME chain' = chain, \A x : Sees(t, x)' <=> Sees(t, x) PROVE FALSE
      BY <1>1, <2>0, <2>1, KeepsReads
    <2>2. ASSUME chain' = chain, committed' = committed PROVE FALSE
      <3>1. \A x : Sees(t, x)' <=> Sees(t, x)
        BY <1>1, <2>2 DEF Sees, visible_txn
      <3> QED
        BY <2>1, <2>2, <3>1
    <2>3. CASE UNCHANGED vars
      BY <2>2, <2>3 DEF vars
    <2>4. CASE Begin \/ Restart
      BY <2>2, <2>4 DEF Begin, Restart
    <2>5. ASSUME NEW u \in Running, TakeSnapshot(u) \/ Abort(u) PROVE FALSE
      BY <2>2, <2>5 DEF TakeSnapshot, Abort
    <2>6. ASSUME NEW u \in Running, Commit(u) \/ CommitFails(u) PROVE FALSE
      <3>1. chain' = chain /\ committed' = committed \cup {u}
        BY <2>6 DEF Commit, CommitFails
      <3>2. u = t \/ ~(u < active[t].xmin /\ u \notin active[t].active_at_start)
        BY <2>0, RunningInvisible
      <3>3. active[t].txn_id = t
        BY <2>0 DEF Inv, IdsOK
      <3>4. \A x : Sees(t, x)' <=> Sees(t, x)
        BY <1>1, <3>1, <3>2, <3>3 DEF Sees, visible_txn
      <3> QED
        BY <2>1, <3>1, <3>4
    <2>7. ASSUME NEW u \in Running, NEW v \in Value, Insert(u, v)
          PROVE  Insert(t, get(t, r)')
      <3>1. Running' = Running
        BY <2>7 DEF Insert, Running
      <3>2. next_row_id \in RowId /\ Store!Write(u, next_row_id, v)
        BY <1>1, <2>7, InsertMaps DEF Store!Insert
      <3>3. t = u /\ get(t, r)' = v
        BY <1>1, <3>1, <3>2, WriteView
      <3> QED
        BY <2>7, <3>3
    <2>8. ASSUME NEW u \in Running, NEW s \in RowId, NEW v \in Value, Update(u, s, v)
          PROVE  Update(t, r, get(t, r)')
      <3>1. Running' = Running
        BY <2>8 DEF Update, Running
      <3>2. Store!Write(u, s, v)
        BY <1>1, <2>8, UpdateMaps DEF Store!Update
      <3>3. t = u /\ r = s /\ get(t, r)' = v
        BY <1>1, <3>1, <3>2, WriteView
      <3> QED
        BY <2>8, <3>3
    <2>9. ASSUME NEW u \in Running, NEW s \in RowId, Delete(u, s)
          PROVE  Delete(t, r)
      <3>1. Running' = Running
        BY <2>9 DEF Delete, Running
      <3>2. Store!Write(u, s, None)
        BY <1>1, <2>9, DeleteMaps DEF Store!Delete
      <3>3. t = u /\ r = s
        BY <1>1, <3>1, <3>2, WriteView
      <3> QED
        BY <2>9, <3>3
    <2>10. ASSUME NEW u \in Running, NEW s \in RowId, WriteRefused(u, s) PROVE FALSE
      BY <2>2, <2>10 DEF WriteRefused, vars
    <2> QED
      BY <1>1, <2>3, <2>4, <2>5, <2>6, <2>7, <2>8, <2>9, <2>10 DEF Next
  <1>2. StoreInv /\ [Next]_vars =>
          [\A t \in Running \cap Running' : \A r \in RowId :
             active'[t] = active[t] /\ get(t, r)' # get(t, r)
               => Insert(t, get(t, r)') \/ Delete(t, r) \/ Update(t, r, get(t, r)')]_vars
    BY <1>1
  <1> QED
    BY <1>2, StoreInvariance, PTL DEF Spec, ReadsAreStable

\* A set with nothing besides two elements has at most two.
LEMMA AtMostTwo ==
  ASSUME NEW S, NEW a, NEW b, S \subseteq {a, b}
  PROVE  Cardinality(S) <= 2
  <1>1. IsFiniteSet({a}) /\ Cardinality({a}) = 1
    BY FS_Singleton
  <1>2. /\ IsFiniteSet({a} \cup {b})
        /\ Cardinality({a} \cup {b}) = 1 \/ Cardinality({a} \cup {b}) = 2
    BY <1>1, FS_AddElement
  <1>3. {a} \cup {b} = {a, b}
    OBVIOUS
  <1>4. PICK T : T = {a, b} /\ IsFiniteSet(T) /\ (Cardinality(T) = 1 \/ Cardinality(T) = 2)
    BY <1>2, <1>3
  <1>5. Cardinality(S) <= Cardinality(T) /\ IsFiniteSet(S)
    BY <1>4, FS_Subset
  <1>6. Cardinality(S) \in Nat
    BY <1>5, FS_CardinalityType
  <1> QED
    BY <1>4, <1>5, <1>6

\* What a lone writer finds after pruning: the newest version, and besides it
\* at most one that the writer itself replaced.
LEMMA PrunedForOne ==
  ASSUME StoreInv, NEW t, Running = {t}, active[t].active_at_start = {},
         NEW c, ChainOK(c), NEW d, d = prune(c), ChainOK(d),
         \A q \in DOMAIN d : ~is_aborted(d[q].xmin) /\ ~is_aborted(d[q].xmax),
         NEW p \in DOMAIN d, IsNewest(d, p), writable(active[t], d[p]) = "Ok"
  PROVE  /\ \A q \in DOMAIN d : q # p => d[p].xmin = t
         /\ \A q, s \in DOMAIN d : q # p /\ s # p => q = s
  <1>0. Inv /\ t \in Running
    BY DEF StoreInv
  <1>1. /\ d \in [DOMAIN d -> Version] /\ DOMAIN d \subseteq Nat
        /\ \A q \in DOMAIN d : q <= p
    BY DEF ChainOK, IsChain, TxnId, IsNewest
  <1>2. Sees(t, d[p].xmin) /\ d[p].xmax = NO_TXN
    BY <1>0, <1>1, WritableOK DEF Sees
  <1>3. ASSUME NEW q \in DOMAIN d, q # p
        PROVE  /\ Linked(d[q], d[p]) /\ d[q].xmax = t /\ d[p].xmin = t
    <2>1. q < p
      BY <1>1, <1>3
    <2>2. Linked(d[q], d[p])
      BY <2>1 DEF ChainOK, LinksOK
    <2>3. d[q].xmax # NO_TXN /\ Sees(t, d[q].xmax)
      BY <1>0, <1>2, <2>2 DEF Linked, Sees
    <2>4. d[q].xmax = t
      <3> SUFFICES ASSUME d[q].xmax # t PROVE FALSE
        OBVIOUS
      <3>1. PICK x : x = d[q].xmax
        OBVIOUS
      <3>2. x \in Nat /\ x < next_txn_id
        BY <1>1, <3>1 DEF ChainOK, ChainIdsOK, Version
      <3>3. x < active[t].xmin /\ x \in committed
        BY <1>0, <2>3, <3>1 DEF Sees, visible_txn, Inv, IdsOK
      <3>4. below_prune_horizon(x)
        BY <3>2, <3>3 DEF below_prune_horizon
      <3>5. Kept(c[q]) /\ d[q] = Cleaned(c[q])
        BY DEF prune
      <3> QED
        BY <2>3, <3>1, <3>3, <3>4, <3>5 DEF Kept
    <2> QED
      BY <1>0, <2>2, <2>4 DEF Linked
  <1>4. ASSUME NEW q \in DOMAIN d, NEW s \in DOMAIN d, q # p, s # p, q < s PROVE FALSE
    <2>1. Linked(d[q], d[s])
      BY <1>4 DEF ChainOK, LinksOK
    <2>2. d[s].xmin = t
      BY <1>0, <1>3, <1>4, <2>1 DEF Linked
    <2> QED
      BY <1>0, <1>3, <1>4, <2>2 DEF Linked
  <1>5. ASSUME NEW q \in DOMAIN d, NEW s \in DOMAIN d, q # p, s # p PROVE q = s
    <2>1. q < s \/ s < q \/ q = s
      BY <1>1
    <2> QED
      BY <1>4, <1>5, <2>1
  <1> QED
    BY <1>3, <1>5

\* A writer that is alone, and was when it took its snapshot, leaves one or two
\* versions of the row it writes: pruning on the write path keeps chains short.
THEOREM Compaction == Spec => SoloWriterCompacts
  <1>1. ASSUME StoreInv, [Next]_vars, NEW t \in Running, NEW r \in RowId,
               Running = {t}, active[t].active_at_start = {}, chain'[r] # chain[r]
        PROVE  Cardinality(DOMAIN chain'[r]) <= 2
    <2>0. Inv /\ DOMAIN chain = RowId
      BY <1>1 DEF StoreInv, Inv, TypeOK
    <2>1. ASSUME NEW v \in Value, Insert(t, v) PROVE Cardinality(DOMAIN chain'[r]) <= 2
      <3>1. DOMAIN chain'[r] \subseteq {1, 1}
        BY <1>1, <2>0, <2>1 DEF Insert
      <3> QED
        BY <3>1, AtMostTwo
    <2>2. ASSUME NEW s \in RowId, NEW v \in Value, Update(t, s, v)
          PROVE  Cardinality(DOMAIN chain'[r]) <= 2
      <3>1. Usable(t)
        BY <2>2 DEF Update
      <3>2. PICK c, d : c = chain[s] /\ d = prune(c)
        OBVIOUS
      <3>3. PICK p \in DOMAIN d : /\ IsNewest(d, p) /\ writable(active[t], d[p]) = "Ok"
                                  /\ chain' = [chain EXCEPT ![s] = Supersede(t, d, p, v)]
        BY <2>2, <3>2 DEF Update
      <3>4. /\ ChainOK(c) /\ ChainOK(d)
            /\ \A q \in DOMAIN d : ~is_aborted(d[q].xmin) /\ ~is_aborted(d[q].xmax)
        BY <1>1, <3>1, <3>2, <3>3, OkMaps
      <3>5. chain'[r] = Supersede(t, d, p, v)
        BY <1>1, <2>0, <3>3
      <3>6. /\ \A q \in DOMAIN d : q # p => d[p].xmin = t
            /\ \A q, z \in DOMAIN d : q # p /\ z # p => q = z
        BY <1>1, <3>2, <3>3, <3>4, PrunedForOne
      <3>7. CASE d[p].xmin = t
        <4>1. DOMAIN chain'[r] = DOMAIN d
          BY <3>5, <3>7 DEF Supersede
        <4>2. \E q : DOMAIN d \subseteq {p, q}
          BY <3>6
        <4> QED
          BY <4>1, <4>2, AtMostTwo
      <3>8. CASE d[p].xmin # t
        <4>1. DOMAIN chain'[r] = DOMAIN d \cup {p + 1}
          BY <3>5, <3>8 DEF Supersede
        <4>2. DOMAIN chain'[r] \subseteq {p, p + 1}
          BY <3>6, <3>8, <4>1
        <4> QED
          BY <4>2, AtMostTwo
      <3> QED
        BY <3>7, <3>8
    <2>3. ASSUME NEW s \in RowId, Delete(t, s) PROVE Cardinality(DOMAIN chain'[r]) <= 2
      <3>1. Usable(t)
        BY <2>3 DEF Delete
      <3>2. PICK c, d : c = chain[s] /\ d = prune(c)
        OBVIOUS
      <3>3. PICK p \in DOMAIN d : /\ IsNewest(d, p) /\ writable(active[t], d[p]) = "Ok"
                                  /\ chain' = [chain EXCEPT ![s] = [d EXCEPT ![p].xmax = t]]
        BY <2>3, <3>2 DEF Delete
      <3>4. /\ ChainOK(c) /\ ChainOK(d)
            /\ \A q \in DOMAIN d : ~is_aborted(d[q].xmin) /\ ~is_aborted(d[q].xmax)
        BY <1>1, <3>1, <3>2, <3>3, OkMaps
      <3>5. DOMAIN chain'[r] = DOMAIN d
        BY <1>1, <2>0, <3>3
      <3>6. \A q, z \in DOMAIN d : q # p /\ z # p => q = z
        BY <1>1, <3>2, <3>3, <3>4, PrunedForOne
      <3>7. \E q : DOMAIN d \subseteq {p, q}
        BY <3>6
      <3> QED
        BY <3>5, <3>7, AtMostTwo
    <2>4. CASE UNCHANGED chain
      BY <1>1, <2>4
    <2>5. \/ UNCHANGED chain
          \/ \E v \in Value : Insert(t, v)
          \/ \E s \in RowId : Delete(t, s) \/ \E v \in Value : Update(t, s, v)
      BY <1>1 DEF Next, vars, Begin, Restart, TakeSnapshot, Commit, CommitFails, Abort, WriteRefused
    <2> QED
      BY <2>1, <2>2, <2>3, <2>4, <2>5
  <1>2. StoreInv /\ [Next]_vars =>
          [\A t \in Running : \A r \in RowId :
             Running = {t} /\ active[t].active_at_start = {} /\ chain'[r] # chain[r]
               => Cardinality(DOMAIN chain'[r]) <= 2]_vars
    BY <1>1
  <1> QED
    BY <1>2, StoreInvariance, PTL DEF Spec, SoloWriterCompacts
=============================================================================
