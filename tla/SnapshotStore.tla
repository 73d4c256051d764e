---------------------------- MODULE SnapshotStore ----------------------------
(***************************************************************************)
(* What the storage engine promises a session, without saying how: a table *)
(* of committed rows, and for every open transaction a private view of it. *)
(* There are no version chains, no commit bitmap and no pruning here.      *)
(*                                                                         *)
(*  - A transaction reads `view`: the rows committed when it last took its *)
(*    snapshot, with its own writes on top.                                *)
(*  - It may write a row only if it sees it, nobody else has an unfinished *)
(*    write of it, and nobody committed a write of it since the snapshot.  *)
(*  - A commit publishes all of its writes at once, an abort none.         *)
(*  - A commit that returns an error is in doubt: nobody sees its writes,  *)
(*    its rows stay blocked, and a restart publishes them.                 *)
(*                                                                         *)
(* Mvcc.tla implements this specification (Mvcc!ImplementsSnapshotStore).  *)
(***************************************************************************)

CONSTANTS Txn, Row, Value, None

VARIABLES
  db,    \* db[r]: the committed contents of row r, None when absent
  used,  \* the row ids handed out so far; never handed out again
  open   \* open[t]: the state of each unfinished transaction t

vars == <<db, used, open>>

Table == [Row -> Value \cup {None}]

TypeOK ==
  /\ db \in Table
  /\ used \subseteq Row
  /\ DOMAIN open \subseteq Txn
  /\ open \in [DOMAIN open -> [view: Table, written: SUBSET Row,
                               stale: SUBSET Row, doubtful: BOOLEAN]]

Running(t) == t \in DOMAIN open /\ ~open[t].doubtful

\* The committed table with t's writes laid over it.
Overlay(base, t) ==
  [r \in Row |-> IF r \in open[t].written THEN open[t].view[r] ELSE base[r]]

CanWrite(t, r) ==
  /\ open[t].view[r] # None
  /\ r \notin open[t].stale
  /\ \A u \in DOMAIN open \ {t} : r \notin open[u].written

Write(t, r, contents) ==
  open' = [open EXCEPT ![t].view[r] = contents,
                       ![t].written = open[t].written \cup {r}]

Init ==
  /\ db = [r \in Row |-> None]
  /\ used = {}
  /\ open = [t \in {} |-> t]

Begin(t) ==
  /\ t \notin DOMAIN open
  /\ open' = [u \in DOMAIN open \cup {t} |->
                IF u = t THEN [view |-> db, written |-> {}, stale |-> {},
                               doubtful |-> FALSE]
                ELSE open[u]]
  /\ UNCHANGED <<db, used>>

TakeSnapshot(t) ==
  /\ Running(t)
  /\ open' = [open EXCEPT ![t].view = Overlay(db, t), ![t].stale = {}]
  /\ UNCHANGED <<db, used>>

Insert(t, r, v) ==
  /\ Running(t)
  /\ r \notin used
  /\ used' = used \cup {r}
  /\ Write(t, r, v)
  /\ UNCHANGED db

Update(t, r, v) ==
  /\ Running(t)
  /\ CanWrite(t, r)
  /\ Write(t, r, v)
  /\ UNCHANGED <<db, used>>

Delete(t, r) ==
  /\ Running(t)
  /\ CanWrite(t, r)
  /\ Write(t, r, None)
  /\ UNCHANGED <<db, used>>

Commit(t) ==
  /\ Running(t)
  /\ db' = Overlay(db, t)
  /\ open' = [u \in DOMAIN open \ {t} |->
                [open[u] EXCEPT !.stale = open[u].stale \cup open[t].written]]
  /\ UNCHANGED used

CommitFails(t) ==
  /\ Running(t)
  /\ open' = [open EXCEPT ![t].doubtful = TRUE]
  /\ UNCHANGED <<db, used>>

Abort(t) ==
  /\ Running(t)
  /\ open' = [u \in DOMAIN open \ {t} |-> open[u]]
  /\ UNCHANGED <<db, used>>

\* Every unfinished transaction ends; the ones in doubt end committed. No two
\* of them wrote the same row, so the order does not matter.
Restart ==
  /\ db' = [r \in Row |->
              IF \E t \in DOMAIN open : open[t].doubtful /\ r \in open[t].written
              THEN LET t == CHOOSE t \in DOMAIN open :
                              open[t].doubtful /\ r \in open[t].written
                   IN  open[t].view[r]
              ELSE db[r]]
  /\ open' = [t \in {} |-> t]
  /\ UNCHANGED used

Next ==
  \/ \E t \in Txn : \/ Begin(t) \/ TakeSnapshot(t) \/ Commit(t)
                    \/ CommitFails(t) \/ Abort(t)
                    \/ \E r \in Row : \/ Delete(t, r)
                                      \/ \E v \in Value : Insert(t, r, v) \/ Update(t, r, v)
  \/ Restart

Spec == Init /\ [][Next]_vars
=============================================================================
