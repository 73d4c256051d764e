----------------------------- MODULE UniqueKeys -----------------------------
(***************************************************************************)
(* Unique constraints: insert_unique, update_unique and enforce_unique of  *)
(* crates/ferrite-storage/src/engine.rs, and the negative cache of         *)
(* crates/ferrite-storage/src/unique.rs, on top of Mvcc. One table with    *)
(* one constraint, declared from the start, so every write is checked and  *)
(* the table's filters are never invalidated by an unchecked one.          *)
(*                                                                         *)
(* A row's contents carry their key (Key[v]) and the hash of it (Hash[v]). *)
(* Every row has a whole key: one with a null in it skips the check, and   *)
(* collides with nothing.                                                  *)
(***************************************************************************)
EXTENDS Mvcc

CONSTANTS
  Key,             \* Key[v]: what UniqueKey::extract finds in contents v
  Hash,            \* Hash[v]: hash_key of that key
  FilterCapacity   \* unique_filter_capacity

ASSUME UniqueAssumption ==
  /\ DOMAIN Key = Value
  /\ DOMAIN Hash = Value
  /\ \A v, w \in Value : Key[v] = Key[w] => Hash[v] = Hash[w]
  /\ FilterCapacity \in Nat

VARIABLES
  filter,  \* the constraint's filter, or Unbuilt
  risky    \* history: transactions that changed a key, or built the filter
           \* while they had a deletion of their own in flight

uvars == <<vars, filter, risky>>

Saturated == [hashes |-> {}, saturated |-> TRUE]
Unbuilt == [hashes |-> {}, saturated |-> FALSE, unbuilt |-> TRUE]
-----------------------------------------------------------------------------
(* unique.rs *)

build(hashes) ==
  IF Cardinality(hashes) >= FilterCapacity
  THEN Saturated ELSE [hashes |-> hashes, saturated |-> FALSE]

add(f, hash) ==
  IF f.saturated THEN f
  ELSE IF Cardinality(f.hashes) >= FilterCapacity THEN Saturated
  ELSE [f EXCEPT !.hashes = @ \cup {hash}]

may_contain(f, hash) == f.saturated \/ hash \in f.hashes
-----------------------------------------------------------------------------
(* The constraint's view of a row *)

\* Mutant: a row whose deleter has not finished is already gone.
constraint_version_trusts_deleters(txn, c) ==
  LET Counts(p) == p \in DOMAIN c /\ ~is_aborted(c[p].xmin)
  IN  IF \E p \in DOMAIN c : Counts(p)
      THEN LET p == CHOOSE p \in DOMAIN c : Counts(p) /\ \A q \in DOMAIN c : Counts(q) => q <= p
           IN  IF c[p].xmax = NO_TXN \/ is_aborted(c[p].xmax) THEN c[p].bytes ELSE None
      ELSE None

\* The contents a constraint has to reckon with: those of the newest version
\* whose creator did not abort, unless its deleter is txn itself or finished.
constraint_version(txn, c) ==
  LET Counts(p) == p \in DOMAIN c /\ ~is_aborted(c[p].xmin)
  IN  IF \E p \in DOMAIN c : Counts(p)
      THEN LET p == CHOOSE p \in DOMAIN c : Counts(p) /\ \A q \in DOMAIN c : Counts(q) => q <= p
               deleter == c[p].xmax
           IN  IF \/ deleter = NO_TXN
                  \/ is_aborted(deleter)
                  \/ deleter # txn /\ deleter \in Running
               THEN c[p].bytes ELSE None
      ELSE None

\* walk_for_constraints: the rows of the table as the constraint sees them.
walk_for_constraints(txn) ==
  {r \in RowId : constraint_version(txn, chain[r]) # None}

\* The filter enforce_unique consults, built by a walk if there is none.
Consulted(txn) ==
  IF filter # Unbuilt THEN filter
  ELSE build({Hash[constraint_version(txn, chain[r])] : r \in walk_for_constraints(txn)})

Clash(txn, v, exclude) ==
  /\ may_contain(Consulted(txn), Hash[v])
  /\ \E r \in walk_for_constraints(txn) \ exclude :
       Key[constraint_version(txn, chain[r])] = Key[v]

\* Mutant: the hash of a write that passed is not noted.
Enforced_without_note(txn, v, exclude) ==
  ~Clash(txn, v, exclude) /\ filter' = Consulted(txn)

\* enforce_unique lets contents v of txn pass; it may have built the filter,
\* and notes the hash.
Enforced(txn, v, exclude) ==
  ~Clash(txn, v, exclude) /\ filter' = add(Consulted(txn), Hash[v])

Deleting(txn) == \E r \in RowId : \E p \in DOMAIN chain[r] : chain[r][p].xmax = txn

\* History only: txn builds the filter without the rows it is deleting.
BuiltBlind(txn) == IF filter = Unbuilt /\ Deleting(txn) THEN {txn} ELSE {}
-----------------------------------------------------------------------------
(* Operations *)

UInit == Init /\ filter = Unbuilt /\ risky = {}

InsertUnique(t, v) ==
  /\ Insert(t, v)
  /\ Enforced(t, v, {})
  /\ risky' = risky \cup BuiltBlind(t)

UpdateUnique(t, r, v) ==
  /\ Update(t, r, v)
  /\ Enforced(t, v, {r})
  /\ risky' = risky \cup BuiltBlind(t) \cup (IF Key[get(t, r)] # Key[v] THEN {t} ELSE {})

\* The constraint is checked, and its filter changed, before the row's own
\* chain is looked at and the write refused.
UpdateRefused(t, r, v) ==
  /\ WriteRefused(t, r)
  /\ Enforced(t, v, {r})
  /\ risky' = risky \cup BuiltBlind(t)

UniqueViolation(t, v, exclude) ==
  /\ Usable(t)
  /\ Clash(t, v, exclude)
  /\ filter' = Consulted(t)
  /\ risky' = risky \cup BuiltBlind(t)
  /\ UNCHANGED vars

\* The filters live in the process: a restart begins without them.
URestart == Restart /\ filter' = Unbuilt /\ UNCHANGED risky

Elsewhere(t) == \/ TakeSnapshot(t) \/ Commit(t) \/ CommitFails(t) \/ Abort(t)
                \/ \E r \in RowId : Delete(t, r)

UNext ==
  \/ Begin /\ UNCHANGED <<filter, risky>>
  \/ URestart
  \/ \E t \in Running :
       \/ Elsewhere(t) /\ UNCHANGED <<filter, risky>>
       \/ \E v \in Value :
            \/ InsertUnique(t, v)
            \/ next_row_id <= MaxRow /\ UniqueViolation(t, v, {})
            \/ \E r \in RowId : \/ UpdateUnique(t, r, v)
                                \/ UpdateRefused(t, r, v)
                                \/ UniqueViolation(t, v, {r})

USpec == UInit /\ [][UNext]_uvars
-----------------------------------------------------------------------------
(* Properties *)

\* The committed contents of row r, for a reader yet to come.
Current(r) == visible_version(Outside, chain[r])

\* No two committed rows share a key.
NoDuplicateKeys ==
  \A r, s \in RowId : Current(r) # None /\ Current(s) # None /\ r # s =>
    Key[Current(r)] # Key[Current(s)]

\* The filter has the hash of every key in the table as it is committed, or
\* gave up.
FilterIsSuperset ==
  filter # Unbuilt /\ ~filter.saturated =>
    \A r \in RowId : Current(r) # None => Hash[Current(r)] \in filter.hashes

\* With nobody running, no two committed rows share a key: the answer of
\* constraint_version "cannot produce a duplicate" (engine.rs).
UniqueAtRest == Running = {} => NoDuplicateKeys

\* Every transaction that changed a key, or built the filter with a deletion
\* of its own in flight, has committed.
RiskSettled == risky \subseteq committed \ Running

\* Duplicates have two origins only: a transaction that changed a key, and one
\* that built the filter blind, while it is unfinished or after it was rolled
\* back. Concurrent inserts and deletes, failed commits, restarts and a
\* saturated filter never let one through (enforce_unique).
DuplicatesHaveTwoOrigins == RiskSettled => NoDuplicateKeys

\* Nor does the filter lose a committed key in any other way (KeyFilters).
FilterLossHasTwoOrigins == RiskSettled => FilterIsSuperset

\* The filter stays within its capacity and the constraint's hashes
\* (unique.rs Filter); the rest as in Mvcc.
UTypeOK ==
  /\ TypeOK
  /\ filter = Unbuilt \/ /\ filter.saturated \in BOOLEAN
                         /\ filter.hashes \subseteq {Hash[v] : v \in Value}
                         /\ Cardinality(filter.hashes) <= FilterCapacity
  /\ risky \subseteq TxnId
=============================================================================
