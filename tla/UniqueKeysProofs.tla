-------------------------- MODULE UniqueKeysProofs --------------------------
(***************************************************************************)
(* Proofs about UniqueKeys: a duplicate key, or a key missing from the     *)
(* filter, comes from a transaction that changed a key or built the filter *)
(* blind, and from nothing else. For any number of transactions, rows and  *)
(* values, any capacity of the filter and any hash that agrees with the    *)
(* keys.                                                                   *)
(***************************************************************************)
EXTENDS UniqueKeys, MvccProofs

\* p is the version constraint_version looks at.
Top(c, p) ==
  /\ p \in DOMAIN c
  /\ ~is_aborted(c[p].xmin)
  /\ \A q \in DOMAIN c : ~is_aborted(c[q].xmin) => q <= p

\* A deleter that does not count yet, or never will.
Open(x) == x = NO_TXN \/ is_aborted(x) \/ x \in Running

Live(c, p) == Top(c, p) /\ Open(c[p].xmax)

\* Version p of chain c gives its key up to version q of chain d: its deleter
\* is unfinished, and risky, or the writer of q in a row that goes with it.
Excused(c, p, d, q) ==
  /\ c[p].xmax \in Running
  /\ \/ c[p].xmax \in risky
     \/ /\ d[q].xmin = c[p].xmax
        /\ \A o \in DOMAIN d : o # q => is_aborted(d[o].xmin)

\* Two live rows share a key only if one of them gives it up.
KeysOK ==
  \A r, s \in RowId : \A p \in DOMAIN chain[r] : \A q \in DOMAIN chain[s] :
    /\ r # s
    /\ Live(chain[r], p)
    /\ Live(chain[s], q)
    /\ Key[chain[r][p].bytes] = Key[chain[s][q].bytes]
    => Excused(chain[r], p, chain[s], q) \/ Excused(chain[s], q, chain[r], p)

\* Filter f has the hash of every live row not being deleted by a member of R.
Covers(f, R) ==
  ~f.saturated =>
    \A r \in RowId : \A p \in DOMAIN chain[r] : Live(chain[r], p) =>
      Hash[chain[r][p].bytes] \in f.hashes \/ chain[r][p].xmax \in Running \cap R

\* An unfinished update by a transaction that is not risky kept the key.
UpdatesOK(c) ==
  \A p, q \in DOMAIN c :
    p < q /\ c[p].xmax = c[q].xmin /\ c[p].xmax \in Running /\ c[p].xmax \notin risky
      => Key[c[p].bytes] = Key[c[q].bytes]

Sound ==
  /\ KeysOK
  /\ filter # Unbuilt => Covers(filter, risky)
  /\ \A r \in RowId : UpdatesOK(chain[r])

Filter == [hashes : SUBSET {Hash[v] : v \in Value}, saturated : BOOLEAN]

FilterOK(f) ==
  /\ f \in Filter
  /\ IsFiniteSet(f.hashes)
  /\ Cardinality(f.hashes) <= FilterCapacity

\* The inductive invariant: all is sound until a risky transaction aborts.
UniqueInv ==
  /\ StoreInv
  /\ filter = Unbuilt \/ FilterOK(filter)
  /\ \A x \in risky : x \in TxnId /\ x < next_txn_id
  /\ (\E x \in risky : is_aborted(x)) \/ Sound
-----------------------------------------------------------------------------
(* Chains *)

\* A version that counts, and is not deleted for good, has its row live: it is
\* the newest that counts, or its deleter wrote the newest.
LEMMA LiveTop ==
  ASSUME Inv, NEW c, ChainOK(c), Bounded(c), NEW p \in DOMAIN c,
         ~is_aborted(c[p].xmin), Open(c[p].xmax)
  PROVE  \E o \in DOMAIN c :
           /\ Live(c, o)
           /\ \/ o = p
              \/ /\ p < o /\ c[p].xmax = c[o].xmin /\ c[p].xmax \in Running
                 /\ c[o].xmax \in {NO_TXN, c[o].xmin}
  <1> DEFINE e == [q \in {o \in DOMAIN c : ~is_aborted(c[o].xmin)} |-> c[q]]
  <1>1. DOMAIN c \subseteq Nat
    BY DEF ChainOK, IsChain, TxnId
  <1>2. DOMAIN e \subseteq Nat /\ Bounded(e) /\ DOMAIN e # {}
    BY <1>1 DEF Bounded
  <1>3. \E q \in DOMAIN e : IsNewest(e, q)
    BY <1>2, NewestExists
  <1>4. PICK o \in DOMAIN e : IsNewest(e, o)
    BY <1>3
  <1>5. Top(c, o) /\ p <= o
    BY <1>4 DEF Top, IsNewest
  <1>6. CASE o = p
    BY <1>5, <1>6 DEF Live
  <1>7. CASE o # p
    <2>1. p < o /\ Linked(c[p], c[o])
      BY <1>1, <1>5, <1>7 DEF ChainOK, LinksOK, Top
    <2>2. c[p].xmax \in Running /\ c[p].xmax = c[o].xmin
      BY <2>1 DEF Linked, Open
    <2>3. c[o].xmax \in {NO_TXN, c[o].xmin}
      BY <1>5, <2>2 DEF ChainOK, OwnOK, Settled, Top
    <2> QED
      BY <1>5, <2>1, <2>2, <2>3 DEF Live, Open, Top
  <1> QED
    BY <1>6, <1>7

\* What the constraint sees of a live row, unless the asker is deleting it.
LEMMA ConstraintIs ==
  ASSUME Inv, NEW c, ChainOK(c), NEW p \in DOMAIN c, Live(c, p), NEW t, c[p].xmax # t
  PROVE  constraint_version(t, c) = c[p].bytes
  <1> DEFINE Counts(q) == q \in DOMAIN c /\ ~is_aborted(c[q].xmin)
             Last(q) == Counts(q) /\ \A o \in DOMAIN c : Counts(o) => o <= q
             m == CHOOSE q \in DOMAIN c : Last(q)
  <1>1. DOMAIN c \subseteq Nat
    BY DEF ChainOK, IsChain, TxnId
  <1>2. Last(p)
    BY DEF Live, Top
  <1>3. m \in DOMAIN c /\ Last(m)
    BY <1>2
  <1>4. m = p
    <2>1. m <= p /\ p <= m
      BY <1>2, <1>3
    <2> QED
      BY <1>1, <1>3, <2>1
  <1>5. Counts(p) /\ Open(c[p].xmax)
    BY <1>2 DEF Live
  <1> HIDE DEF m
  <1>6. constraint_version(t, c) =
          IF \E q \in DOMAIN c : Counts(q)
          THEN IF \/ c[m].xmax = NO_TXN
                  \/ is_aborted(c[m].xmax)
                  \/ c[m].xmax # t /\ c[m].xmax \in Running
               THEN c[m].bytes ELSE None
          ELSE None
    BY DEF constraint_version, m
  <1> QED
    BY <1>4, <1>5, <1>6 DEF Open

\* The constraint sees contents, or nothing.
LEMMA ConstraintType ==
  ASSUME Inv, NEW c, ChainOK(c), Bounded(c), NEW t
  PROVE  constraint_version(t, c) \in Value \cup {None}
  <1> DEFINE Counts(q) == q \in DOMAIN c /\ ~is_aborted(c[q].xmin)
             Last(q) == Counts(q) /\ \A o \in DOMAIN c : Counts(o) => o <= q
             m == CHOOSE q \in DOMAIN c : Last(q)
             e == [q \in {o \in DOMAIN c : ~is_aborted(c[o].xmin)} |-> c[q]]
  <1>1. DOMAIN c \subseteq Nat /\ \A q \in DOMAIN c : c[q].bytes \in Value
    BY DEF ChainOK, IsChain, TxnId, Version
  <1>2. CASE \E q \in DOMAIN c : Counts(q)
    <2>1. DOMAIN e \subseteq Nat /\ Bounded(e) /\ DOMAIN e # {}
      BY <1>1, <1>2 DEF Bounded
    <2>2. \E q \in DOMAIN e : IsNewest(e, q)
      BY <2>1, NewestExists
    <2>3. \E q \in DOMAIN c : Last(q)
      BY <2>2 DEF IsNewest
    <2>4. m \in DOMAIN c
      BY <2>3
    <2> HIDE DEF m
    <2>5. \/ constraint_version(t, c) = c[m].bytes
          \/ constraint_version(t, c) = None
      BY DEF constraint_version, m
    <2> QED
      BY <1>1, <2>4, <2>5
  <1>3. CASE ~\E q \in DOMAIN c : Counts(q)
    BY <1>3 DEF constraint_version
  <1> QED
    BY <1>2, <1>3
-----------------------------------------------------------------------------
(* The filter *)

\* Building and adding keep the filter's type and its capacity.
LEMMA ConsultedOK ==
  ASSUME UniqueInv, NEW t \in Running
  PROVE  FilterOK(Consulted(t))
  <1> DEFINE W == walk_for_constraints(t)
             f == [r \in W |-> Hash[constraint_version(t, chain[r])]]
             H == {Hash[constraint_version(t, chain[r])] : r \in W}
  <1>1. CASE filter # Unbuilt
    BY <1>1 DEF Consulted, UniqueInv
  <1>2. CASE filter = Unbuilt
    <2>1. IsFiniteSet(RowId)
      BY MvccAssumption, FS_Interval DEF RowId
    <2>2. IsFiniteSet(W)
      BY <2>1, FS_Subset DEF walk_for_constraints
    <2>3. f \in Surjection(W, H)
      BY DEF Surjection
    <2>4. IsFiniteSet(H)
      BY <2>2, <2>3, FS_Surjection
    <2>5. H \subseteq {Hash[v] : v \in Value}
      <3> SUFFICES ASSUME NEW r \in W PROVE constraint_version(t, chain[r]) \in Value
        OBVIOUS
      <3>1. r \in RowId /\ constraint_version(t, chain[r]) # None
        BY DEF walk_for_constraints
      <3>2. Inv /\ ChainOK(chain[r]) /\ Bounded(chain[r])
        BY <3>1 DEF UniqueInv, StoreInv, Inv
      <3> QED
        BY <3>1, <3>2, ConstraintType
    <2>6. Cardinality(H) \in Nat /\ FilterCapacity \in Nat
      BY <2>4, FS_CardinalityType, UniqueAssumption
    <2> HIDE DEF H
    <2>7. FilterOK(build(H))
      <3>1. CASE Cardinality(H) >= FilterCapacity
        BY <2>6, <3>1, FS_EmptySet DEF build, FilterOK, Filter, Saturated
      <3>2. CASE ~(Cardinality(H) >= FilterCapacity)
        <4>1. build(H) = [hashes |-> H, saturated |-> FALSE]
          BY <3>2 DEF build
        <4> QED
          BY <2>4, <2>5, <2>6, <3>2, <4>1 DEF FilterOK, Filter
      <3> QED
        BY <3>1, <3>2
    <2> QED
      BY <1>2, <2>7 DEF Consulted, H
  <1> QED
    BY <1>1, <1>2

\* Recording a hash keeps the filter within its capacity (Filter::add).
LEMMA AddOK ==
  ASSUME NEW f, FilterOK(f), NEW v \in Value
  PROVE  /\ FilterOK(add(f, Hash[v]))
         /\ ~add(f, Hash[v]).saturated =>
              /\ ~f.saturated
              /\ add(f, Hash[v]).hashes = f.hashes \cup {Hash[v]}
  <1>1. FilterCapacity \in Nat /\ Cardinality(f.hashes) \in Nat
    BY FS_CardinalityType, UniqueAssumption DEF FilterOK
  <1>2. CASE f.saturated
    BY <1>2 DEF add
  <1>3. CASE ~f.saturated /\ Cardinality(f.hashes) >= FilterCapacity
    BY <1>1, <1>3, FS_EmptySet DEF add, FilterOK, Filter, Saturated
  <1>4. CASE ~f.saturated /\ ~(Cardinality(f.hashes) >= FilterCapacity)
    <2>1. PICK g : g = [f EXCEPT !.hashes = @ \cup {Hash[v]}]
      OBVIOUS
    <2>2. g \in Filter /\ g.hashes = f.hashes \cup {Hash[v]} /\ g.saturated = f.saturated
      BY <2>1 DEF FilterOK, Filter
    <2>3. IsFiniteSet(g.hashes) /\ Cardinality(g.hashes) <= FilterCapacity
      <3>1. PICK h : h = f.hashes /\ IsFiniteSet(h)
        BY DEF FilterOK
      <3>2. /\ IsFiniteSet(h \cup {Hash[v]})
            /\ Cardinality(h \cup {Hash[v]}) = Cardinality(h)
               \/ Cardinality(h \cup {Hash[v]}) = Cardinality(h) + 1
        BY <3>1, FS_AddElement
      <3> QED
        BY <1>1, <1>4, <2>2, <3>1, <3>2
    <2> QED
      BY <1>4, <2>1, <2>2, <2>3 DEF add, FilterOK
  <1> QED
    BY <1>2, <1>3, <1>4

\* The filter enforce_unique consults has every live row, but for those its
\* builder is deleting: they make it risky.
LEMMA ConsultedCovers ==
  ASSUME UniqueInv, Sound, NEW t \in Running
  PROVE  Covers(Consulted(t), risky \cup BuiltBlind(t))
  <1>1. CASE filter # Unbuilt
    BY <1>1 DEF Sound, Consulted, Covers
  <1>2. CASE filter = Unbuilt
    <2> DEFINE H == {Hash[constraint_version(t, chain[r])] : r \in walk_for_constraints(t)}
    <2>1. Consulted(t) = build(H)
      BY <1>2 DEF Consulted
    <2> SUFFICES ASSUME ~build(H).saturated, NEW r \in RowId, NEW p \in DOMAIN chain[r],
                        Live(chain[r], p)
                 PROVE  \/ Hash[chain[r][p].bytes] \in build(H).hashes
                        \/ chain[r][p].xmax \in Running \cap (risky \cup BuiltBlind(t))
      BY <2>1 DEF Covers
    <2>2. build(H).hashes = H
      BY DEF build, Saturated
    <2>3. Inv /\ ChainOK(chain[r])
      BY DEF UniqueInv, StoreInv, Inv
    <2>4. CASE chain[r][p].xmax = t
      BY <1>2, <2>4 DEF BuiltBlind, Deleting
    <2>5. CASE chain[r][p].xmax # t
      <3>1. constraint_version(t, chain[r]) = chain[r][p].bytes
        BY <2>3, <2>5, ConstraintIs
      <3>2. chain[r][p].bytes # None
        BY <2>3, MvccAssumption DEF ChainOK, IsChain, Version
      <3> QED
        BY <2>2, <3>1, <3>2 DEF walk_for_constraints
    <2> QED
      BY <2>4, <2>5
  <1> QED
    BY <1>1, <1>2

\* Contents that passed the check share their key only with rows outside the
\* exclusion, and these are being deleted, by a risky transaction or by the
\* asker.
LEMMA NoClash ==
  ASSUME UniqueInv, Sound, NEW t \in Running, NEW v \in Value, NEW X, ~Clash(t, v, X),
         NEW r \in RowId, r \notin X, NEW p \in DOMAIN chain[r], Live(chain[r], p),
         Key[chain[r][p].bytes] = Key[v]
  PROVE  /\ chain[r][p].xmax \in Running
         /\ chain[r][p].xmax = t \/ chain[r][p].xmax \in risky \cup BuiltBlind(t)
  <1>1. Inv /\ ChainOK(chain[r])
    BY DEF UniqueInv, StoreInv, Inv
  <1>2. chain[r][p].bytes \in Value
    BY <1>1 DEF ChainOK, IsChain, Version
  <1>3. Hash[chain[r][p].bytes] = Hash[v]
    BY <1>2, UniqueAssumption
  <1>4. CASE ~may_contain(Consulted(t), Hash[v])
    BY <1>3, <1>4, ConsultedCovers DEF may_contain, Covers
  <1>5. CASE may_contain(Consulted(t), Hash[v])
    <2>1. CASE chain[r][p].xmax # t
      <3>1. constraint_version(t, chain[r]) = chain[r][p].bytes
        BY <1>1, <2>1, ConstraintIs
      <3>2. r \in walk_for_constraints(t)
        BY <1>2, <3>1, MvccAssumption DEF walk_for_constraints
      <3> QED
        BY <1>5, <3>1, <3>2 DEF Clash
    <2> QED
      BY <2>1
  <1> QED
    BY <1>4, <1>5
-----------------------------------------------------------------------------
(* Steps that leave the rows alone *)

\* A chain's ids are numbers the counter has given out.
LEMMA ChainNumbers ==
  ASSUME Inv, NEW c, ChainOK(c)
  PROVE  /\ DOMAIN c \subseteq Nat
         /\ \A p \in DOMAIN c : /\ c[p].xmin \in Nat /\ c[p].xmin < next_txn_id
                                /\ c[p].xmax \in Nat /\ c[p].xmax < next_txn_id
                                /\ c[p].xmin # NO_TXN
                                /\ c[p].bytes \in Value
  BY DEF ChainOK, IsChain, ChainIdsOK, Version, TxnId

\* Beginning, a new snapshot, a failed commit and a refused write change
\* nobody's standing: what was sound still is, with a filter that covers.
LEMMA QuietSound ==
  ASSUME UniqueInv, Sound, chain' = chain,
         \A x \in Nat : x < next_txn_id => /\ is_aborted(x)' <=> is_aborted(x)
                                           /\ x \in Running' <=> x \in Running,
         NEW f, f = filter', NEW R, R = risky', risky \subseteq R,
         f # Unbuilt => Covers(f, R)
  PROVE  Sound'
  <1>1. ASSUME NEW c, ChainOK(c), NEW p \in DOMAIN c
        PROVE  Live(c, p)' <=> Live(c, p)
    <2>1. Inv
      BY DEF UniqueInv, StoreInv
    <2> QED
      BY <1>1, <2>1, ChainNumbers DEF Live, Top, Open
  <1>2. ASSUME NEW r \in RowId
        PROVE  /\ ChainOK(chain[r]) /\ chain'[r] = chain[r]
               /\ \A p \in DOMAIN chain[r] :
                    /\ chain[r][p].xmin \in Nat /\ chain[r][p].xmin < next_txn_id
                    /\ chain[r][p].xmax \in Nat /\ chain[r][p].xmax < next_txn_id
    BY ChainNumbers DEF UniqueInv, StoreInv, Inv
  <1>3. KeysOK'
    <2> SUFFICES ASSUME NEW r \in RowId, NEW s \in RowId,
                        NEW p \in DOMAIN chain'[r], NEW q \in DOMAIN chain'[s],
                        r # s, Live(chain[r], p)', Live(chain[s], q)',
                        Key[chain'[r][p].bytes] = Key[chain'[s][q].bytes]
                 PROVE  \/ Excused(chain[r], p, chain[s], q)'
                        \/ Excused(chain[s], q, chain[r], p)'
      BY DEF KeysOK
    <2>1. PICK c : c = chain[r] /\ c = chain'[r]
      BY <1>2
    <2>2. PICK d : d = chain[s] /\ d = chain'[s]
      BY <1>2
    <2>3. Live(c, p) /\ Live(d, q)
      BY <1>1, <1>2, <2>1, <2>2
    <2>4. Excused(c, p, d, q) \/ Excused(d, q, c, p)
      BY <2>1, <2>2, <2>3 DEF Sound, KeysOK
    <2>5. Excused(c, p, d, q)' \/ Excused(d, q, c, p)'
      BY <1>2, <2>1, <2>2, <2>4 DEF Excused
    <2> QED
      BY <2>1, <2>2, <2>5
  <1>4. filter' # Unbuilt' => Covers(filter, risky)'
    <2> SUFFICES ASSUME f # Unbuilt, ~f.saturated,
                        NEW r \in RowId, NEW p \in DOMAIN chain'[r], Live(chain[r], p)'
                 PROVE  \/ Hash[chain'[r][p].bytes] \in f.hashes
                        \/ chain'[r][p].xmax \in Running' \cap R
      BY DEF Covers, Unbuilt
    <2>1. PICK c : c = chain[r] /\ c = chain'[r]
      BY <1>2
    <2>2. Live(c, p)
      BY <1>1, <1>2, <2>1
    <2> QED
      BY <1>2, <2>1, <2>2 DEF Covers
  <1>5. ASSUME NEW r \in RowId PROVE UpdatesOK(chain[r])'
    BY <1>2 DEF Sound, UpdatesOK
  <1> QED
    BY <1>3, <1>4, <1>5 DEF Sound

\* A commit only finishes deletions: what was live after it was live before.
LEMMA CommitSound ==
  ASSUME UniqueInv, Sound, NEW t \in Running, Commit(t), UNCHANGED <<filter, risky>>
  PROVE  Sound'
  <1>1. /\ chain' = chain /\ Running' = Running \ {t} /\ committed' = committed \cup {t}
    BY DEF Commit, Forget, Running
  <1>2. \A x : is_aborted(x)' <=> is_aborted(x)
    BY <1>1 DEF is_aborted
  <1>3. \A x \in Running \ Running' : ~Open(x)'
    <2>1. t # NO_TXN
      BY DEF UniqueInv, StoreInv, Inv, IdsOK, TxnId
    <2> QED
      BY <1>1, <2>1 DEF Open, is_aborted
  <1>4. ASSUME NEW c, NEW p, Live(c, p)'
        PROVE  Live(c, p) /\ (c[p].xmax \in Running => c[p].xmax \in Running')
    BY <1>1, <1>2, <1>3, <1>4 DEF Live, Top, Open
  <1>5. KeysOK'
    <2> SUFFICES ASSUME NEW r \in RowId, NEW s \in RowId,
                        NEW p \in DOMAIN chain'[r], NEW q \in DOMAIN chain'[s],
                        r # s, Live(chain[r], p)', Live(chain[s], q)',
                        Key[chain'[r][p].bytes] = Key[chain'[s][q].bytes]
                 PROVE  \/ Excused(chain[r], p, chain[s], q)'
                        \/ Excused(chain[s], q, chain[r], p)'
      BY DEF KeysOK
    <2>1. PICK c : c = chain[r] /\ c = chain'[r]
      BY <1>1
    <2>2. PICK d : d = chain[s] /\ d = chain'[s]
      BY <1>1
    <2>3. /\ Live(c, p) /\ (c[p].xmax \in Running => c[p].xmax \in Running')
          /\ Live(d, q) /\ (d[q].xmax \in Running => d[q].xmax \in Running')
      BY <1>4, <2>1, <2>2
    <2>4. Excused(c, p, d, q) \/ Excused(d, q, c, p)
      BY <2>1, <2>2, <2>3 DEF Sound, KeysOK
    <2>5. Excused(c, p, d, q)' \/ Excused(d, q, c, p)'
      BY <1>2, <2>3, <2>4 DEF Excused
    <2> QED
      BY <2>1, <2>2, <2>5
  <1>6. filter' # Unbuilt' => Covers(filter, risky)'
    <2> SUFFICES ASSUME filter # Unbuilt, ~filter.saturated,
                        NEW r \in RowId, NEW p \in DOMAIN chain'[r], Live(chain[r], p)'
                 PROVE  \/ Hash[chain'[r][p].bytes] \in filter.hashes
                        \/ chain'[r][p].xmax \in Running' \cap risky
      BY DEF Covers, Unbuilt
    <2>1. PICK c : c = chain[r] /\ c = chain'[r]
      BY <1>1
    <2>2. Live(c, p) /\ (c[p].xmax \in Running => c[p].xmax \in Running')
      BY <1>4, <2>1
    <2> QED
      BY <2>1, <2>2 DEF Covers, Sound
  <1>7. ASSUME NEW r \in RowId PROVE UpdatesOK(chain[r])'
    BY <1>1 DEF Sound, UpdatesOK
  <1> QED
    BY <1>5, <1>6, <1>7 DEF Sound

\* An abort, and the loss of every running transaction, bring deleted rows
\* back. Unless a risky transaction is among the vanished, a row that comes
\* back had its key all along, and whoever took the key over goes.
LEMMA VanishSound ==
  ASSUME UniqueInv, Sound, Restart \/ \E t \in Running : Abort(t),
         filter' \in {filter, Unbuilt}, risky' = risky,
         ~\E x \in risky : is_aborted(x)'
  PROVE  Sound'
  <1>1. chain' = chain /\ committed' = committed /\ Running' \subseteq Running
    BY DEF Restart, Abort, Forget, Running
  <1>2. \A x : /\ is_aborted(x) => is_aborted(x)'
               /\ is_aborted(x)' => is_aborted(x) \/ x \in Running
               /\ x \in Running' => ~is_aborted(x)'
               /\ x \in Running /\ x \notin Running' /\ Open(x)' => is_aborted(x)'
               /\ Open(x)' => Open(x)
    <2>1. NO_TXN \notin Running
      BY DEF UniqueInv, StoreInv, Inv, IdsOK, TxnId
    <2> QED
      BY <1>1, <2>1 DEF is_aborted, Open
  <1>3. ASSUME NEW r \in RowId
        PROVE  /\ Inv /\ ChainOK(chain[r]) /\ Bounded(chain[r]) /\ UpdatesOK(chain[r])
               /\ chain'[r] = chain[r]
    BY <1>1 DEF UniqueInv, StoreInv, Inv, Sound
  <1>4. ASSUME NEW r \in RowId, NEW c, c = chain[r], NEW p \in DOMAIN c, Live(c, p)'
        PROVE  \E o \in DOMAIN c :
                 /\ Live(c, o)
                 /\ Key[c[o].bytes] = Key[c[p].bytes]
                 /\ \/ o = p
                    \/ /\ is_aborted(c[o].xmin)' /\ c[o].xmin \notin risky
                       /\ c[o].xmax \in {NO_TXN, c[o].xmin}
    <2>1. ~is_aborted(c[p].xmin) /\ Open(c[p].xmax)
      BY <1>2, <1>4 DEF Live, Top
    <2>2. PICK o \in DOMAIN c :
            /\ Live(c, o)
            /\ \/ o = p
               \/ /\ p < o /\ c[p].xmax = c[o].xmin /\ c[p].xmax \in Running
                  /\ c[o].xmax \in {NO_TXN, c[o].xmin}
      BY <1>3, <1>4, <2>1, LiveTop
    <2>3. CASE o # p
      <3>1. is_aborted(c[o].xmin)'
        <4>1. DOMAIN c \subseteq Nat
          BY <1>3, <1>4, ChainNumbers
        <4> QED
          BY <1>4, <2>2, <2>3, <4>1 DEF Live, Top
      <3>2. Key[c[o].bytes] = Key[c[p].bytes]
        BY <1>3, <1>4, <2>2, <2>3, <3>1 DEF UpdatesOK
      <3> QED
        BY <2>2, <2>3, <3>1, <3>2
    <2> QED
      BY <2>2, <2>3
  <1>5. ASSUME NEW r \in RowId, NEW c, c = chain[r], NEW p \in DOMAIN c, Live(c, p)',
               NEW s \in RowId, NEW d, d = chain[s], NEW q \in DOMAIN d, Live(d, q)',
               NEW o \in DOMAIN c, Live(c, o),
               o = p \/ /\ is_aborted(c[o].xmin)' /\ c[o].xmin \notin risky
                        /\ c[o].xmax \in {NO_TXN, c[o].xmin},
               NEW m \in DOMAIN d, Excused(c, o, d, m),
               m = q \/ is_aborted(d[m].xmin)'
        PROVE  Excused(c, p, d, q)'
    <2>1. /\ c[o].xmax \in Running
          /\ \/ c[o].xmax \in risky
             \/ /\ d[m].xmin = c[o].xmax
                /\ \A n \in DOMAIN d : n # m => is_aborted(d[n].xmin)
      BY <1>5 DEF Excused
    <2>2. ~is_aborted(d[q].xmin)' /\ ~is_aborted(d[q].xmin)
      BY <1>2, <1>5 DEF Live, Top
    <2>3. CASE c[o].xmax \in risky
      <3>1. o = p
        BY <1>2, <1>5, <2>1, <2>3 DEF UniqueInv, StoreInv, Inv, IdsOK, TxnId
      <3>2. c[p].xmax \in Running'
        BY <1>2, <1>5, <2>1, <2>3, <3>1 DEF Live
      <3> QED
        BY <2>3, <3>1, <3>2 DEF Excused
    <2>4. CASE /\ d[m].xmin = c[o].xmax
               /\ \A n \in DOMAIN d : n # m => is_aborted(d[n].xmin)
      <3>1. m = q /\ ~is_aborted(d[m].xmin)'
        BY <1>5, <2>2, <2>4
      <3>2. o = p
        <4>1. CASE o # p
          <5>1. c[o].xmax # NO_TXN
            BY <2>1 DEF UniqueInv, StoreInv, Inv, IdsOK, TxnId
          <5> QED
            BY <1>5, <2>4, <3>1, <4>1, <5>1
        <4> QED
          BY <4>1
      <3>3. c[p].xmax \in Running'
        BY <1>2, <1>5, <2>1, <2>4, <3>1, <3>2 DEF Live
      <3> QED
        BY <1>2, <2>4, <3>1, <3>2, <3>3 DEF Excused
    <2> QED
      BY <2>1, <2>3, <2>4
  <1>6. KeysOK'
    <2> SUFFICES ASSUME NEW r \in RowId, NEW s \in RowId,
                        NEW p \in DOMAIN chain'[r], NEW q \in DOMAIN chain'[s],
                        r # s, Live(chain[r], p)', Live(chain[s], q)',
                        Key[chain'[r][p].bytes] = Key[chain'[s][q].bytes]
                 PROVE  \/ Excused(chain[r], p, chain[s], q)'
                        \/ Excused(chain[s], q, chain[r], p)'
      BY DEF KeysOK
    <2>1. PICK c : c = chain[r] /\ c = chain'[r]
      BY <1>3
    <2>2. PICK d : d = chain[s] /\ d = chain'[s]
      BY <1>3
    <2>3. Live(c, p)' /\ Live(d, q)' /\ p \in DOMAIN c /\ q \in DOMAIN d
      BY <2>1, <2>2
    <2>4. PICK o \in DOMAIN c :
            /\ Live(c, o) /\ Key[c[o].bytes] = Key[c[p].bytes]
            /\ \/ o = p
               \/ /\ is_aborted(c[o].xmin)' /\ c[o].xmin \notin risky
                  /\ c[o].xmax \in {NO_TXN, c[o].xmin}
      BY <1>4, <2>1, <2>3
    <2>5. PICK m \in DOMAIN d :
            /\ Live(d, m) /\ Key[d[m].bytes] = Key[d[q].bytes]
            /\ \/ m = q
               \/ /\ is_aborted(d[m].xmin)' /\ d[m].xmin \notin risky
                  /\ d[m].xmax \in {NO_TXN, d[m].xmin}
      BY <1>4, <2>2, <2>3
    <2>6. Excused(c, o, d, m) \/ Excused(d, m, c, o)
      BY <2>1, <2>2, <2>4, <2>5 DEF Sound, KeysOK
    <2>7. Excused(c, p, d, q)' \/ Excused(d, q, c, p)'
      BY <1>5, <2>1, <2>2, <2>3, <2>4, <2>5, <2>6
    <2> QED
      BY <2>1, <2>2, <2>7
  <1>7. filter' # Unbuilt' => Covers(filter, risky)'
    <2> SUFFICES ASSUME filter' = filter, filter # Unbuilt, ~filter.saturated,
                        NEW r \in RowId, NEW p \in DOMAIN chain'[r], Live(chain[r], p)'
                 PROVE  \/ Hash[chain'[r][p].bytes] \in filter.hashes
                        \/ chain'[r][p].xmax \in Running' \cap risky
      BY DEF Covers, Unbuilt
    <2>1. PICK c : c = chain[r] /\ c = chain'[r]
      BY <1>3
    <2>2. Live(c, p)' /\ p \in DOMAIN c
      BY <2>1
    <2>3. PICK o \in DOMAIN c :
            /\ Live(c, o) /\ Key[c[o].bytes] = Key[c[p].bytes]
            /\ \/ o = p
               \/ /\ is_aborted(c[o].xmin)' /\ c[o].xmin \notin risky
                  /\ c[o].xmax \in {NO_TXN, c[o].xmin}
      BY <1>4, <2>1, <2>2
    <2>4. Hash[c[o].bytes] = Hash[c[p].bytes]
      BY <1>3, <2>1, <2>2, <2>3, ChainNumbers, UniqueAssumption
    <2>5. Hash[c[o].bytes] \in filter.hashes \/ c[o].xmax \in Running \cap risky
      BY <2>1, <2>3 DEF Sound, Covers
    <2>6. CASE c[o].xmax \in Running \cap risky
      <3>1. o = p
        BY <1>2, <2>3, <2>6 DEF UniqueInv, StoreInv, Inv, IdsOK, TxnId
      <3> QED
        BY <1>2, <2>1, <2>2, <2>6, <3>1 DEF Live
    <2> QED
      BY <2>1, <2>4, <2>5, <2>6
  <1>8. ASSUME NEW r \in RowId PROVE UpdatesOK(chain[r])'
    BY <1>1 DEF Sound, UpdatesOK
  <1> QED
    BY <1>6, <1>7, <1>8 DEF Sound
-----------------------------------------------------------------------------
(* Writes *)

\* Row r, with live version n in its new chain e, has its key for itself: the
\* other live rows with that key give it up, R being the risky ones.
Yielded(r, e, n, R) ==
  \A s \in RowId \ {r} : \A q \in DOMAIN chain[s] :
    Live(chain[s], q) /\ Key[chain[s][q].bytes] = Key[e[n].bytes] =>
      /\ chain[s][q].xmax \in Running
      /\ \/ chain[s][q].xmax \in R
         \/ /\ e[n].xmin = chain[s][q].xmax
            /\ \A o \in DOMAIN e : o # n => is_aborted(e[o].xmin)

\* A write of one row leaves a sound table sound if nobody else keeps the key
\* of its live version n, and the filter has that key and covers the others.
LEMMA WriteSound ==
  ASSUME UniqueInv, Sound, NEW r \in RowId, NEW e, chain' = [chain EXCEPT ![r] = e],
         UNCHANGED <<active, committed>>,
         NEW f, f = filter', NEW R, R = risky', risky \subseteq R,
         NEW n \in DOMAIN e, \A p \in DOMAIN e : Live(e, p) => p = n,
         Yielded(r, e, n, R),
         f # Unbuilt => Covers(f, R),
         f # Unbuilt /\ ~f.saturated => Hash[e[n].bytes] \in f.hashes,
         UpdatesOK(e)'
  PROVE  Sound'
  <1>1. /\ Running' = Running
        /\ \A x : is_aborted(x)' <=> is_aborted(x)
        /\ \A c, p : Live(c, p)' <=> Live(c, p)
    BY DEF Running, is_aborted, Live, Top, Open
  <1>2. chain'[r] = e /\ \A s \in RowId \ {r} : chain'[s] = chain[s]
    BY DEF UniqueInv, StoreInv, Inv, TypeOK
  <1>3. ASSUME NEW s \in RowId, s # r, NEW q \in DOMAIN chain[s], NEW d, d = chain[s],
               Live(d, q), Live(e, n), Key[d[q].bytes] = Key[e[n].bytes]
        PROVE  Excused(d, q, e, n)'
    BY <1>1, <1>3 DEF Excused, Yielded
  <1>4. KeysOK'
    <2> SUFFICES ASSUME NEW s \in RowId, NEW z \in RowId,
                        NEW p \in DOMAIN chain'[s], NEW q \in DOMAIN chain'[z],
                        s # z, Live(chain[s], p)', Live(chain[z], q)',
                        Key[chain'[s][p].bytes] = Key[chain'[z][q].bytes]
                 PROVE  \/ Excused(chain[s], p, chain[z], q)'
                        \/ Excused(chain[z], q, chain[s], p)'
      BY DEF KeysOK
    <2>1. PICK c : c = chain'[s]
      OBVIOUS
    <2>2. PICK d : d = chain'[z]
      OBVIOUS
    <2>3. Live(c, p) /\ Live(d, q) /\ p \in DOMAIN c /\ q \in DOMAIN d
      BY <1>1, <2>1, <2>2
    <2>4. Excused(c, p, d, q)' \/ Excused(d, q, c, p)'
      <3>1. CASE s = r
        <4>1. c = e /\ p = n /\ d = chain[z]
          BY <1>2, <2>1, <2>2, <2>3, <3>1
        <4> QED
          BY <1>3, <2>1, <2>2, <2>3, <3>1, <4>1
      <3>2. CASE z = r
        <4>1. d = e /\ q = n /\ c = chain[s]
          BY <1>2, <2>1, <2>2, <2>3, <3>2
        <4> QED
          BY <1>3, <2>1, <2>2, <2>3, <3>2, <4>1
      <3>3. CASE s # r /\ z # r
        <4>1. c = chain[s] /\ d = chain[z]
          BY <1>2, <2>1, <2>2, <3>3
        <4>2. Excused(c, p, d, q) \/ Excused(d, q, c, p)
          BY <2>1, <2>2, <2>3, <4>1 DEF Sound, KeysOK
        <4> QED
          BY <1>1, <4>2 DEF Excused
      <3> QED
        BY <3>1, <3>2, <3>3
    <2> QED
      BY <2>1, <2>2, <2>4
  <1>5. filter' # Unbuilt' => Covers(filter, risky)'
    <2> SUFFICES ASSUME f # Unbuilt, ~f.saturated,
                        NEW s \in RowId, NEW p \in DOMAIN chain'[s], Live(chain[s], p)'
                 PROVE  \/ Hash[chain'[s][p].bytes] \in f.hashes
                        \/ chain'[s][p].xmax \in Running' \cap R
      BY DEF Covers, Unbuilt
    <2>1. PICK c : c = chain'[s]
      OBVIOUS
    <2>2. Live(c, p) /\ p \in DOMAIN c
      BY <1>1, <2>1
    <2>3. CASE s = r
      BY <1>2, <2>1, <2>2, <2>3
    <2>4. CASE s # r
      BY <1>1, <1>2, <2>1, <2>2, <2>4 DEF Covers
    <2> QED
      BY <2>3, <2>4
  <1>6. ASSUME NEW s \in RowId PROVE UpdatesOK(chain[s])'
    <2>1. PICK c : c = chain'[s]
      OBVIOUS
    <2>2. CASE s = r
      BY <1>2, <2>1, <2>2
    <2>3. CASE s # r
      <3>1. UpdatesOK(c)
        BY <1>2, <2>1, <2>3 DEF Sound
      <3>2. UpdatesOK(c)'
        BY <1>1, <3>1 DEF UpdatesOK
      <3> QED
        BY <2>1, <3>2
    <2> QED
      BY <2>2, <2>3
  <1> QED
    BY <1>4, <1>5, <1>6 DEF Sound

\* What enforce_unique leaves behind covers the table and has the new hash.
LEMMA EnforcedCovers ==
  ASSUME UniqueInv, Sound, NEW t \in Running, NEW v \in Value, NEW X, Enforced(t, v, X),
         NEW f, f = filter'
  PROVE  /\ FilterOK(f)
         /\ Covers(f, risky \cup BuiltBlind(t))
         /\ ~f.saturated => Hash[v] \in f.hashes
  <1>1. PICK g : g = Consulted(t)
    OBVIOUS
  <1>2. f = add(g, Hash[v])
    BY <1>1 DEF Enforced
  <1>3. FilterOK(g) /\ Covers(g, risky \cup BuiltBlind(t))
    BY <1>1, ConsultedOK, ConsultedCovers
  <1>4. ~f.saturated => ~g.saturated /\ f.hashes = g.hashes \cup {Hash[v]}
    BY <1>2, <1>3, AddOK
  <1> QED
    BY <1>2, <1>3, <1>4, AddOK DEF Covers

\* insert_unique: the new row's key is nobody's, or its writer is deleting it.
LEMMA InsertSound ==
  ASSUME UniqueInv, Sound, NEW t \in Running, NEW v \in Value, InsertUnique(t, v)
  PROVE  Sound'
  <1>0. PICK r : r = next_row_id
    OBVIOUS
  <1>1. PICK e : e = [p \in {1} |-> live(t, v)]
    OBVIOUS
  <1>2. /\ DOMAIN e = {1} /\ e[1].xmin = t /\ e[1].bytes = v /\ e[1].xmax = NO_TXN
    BY <1>1 DEF live
  <1>3. r \in RowId /\ chain' = [chain EXCEPT ![r] = e] /\ UNCHANGED <<active, committed>>
    BY <1>0, <1>1, MvccAssumption
    DEF InsertUnique, Insert, UniqueInv, StoreInv, Inv, TypeOK, RowId, TxnId, NO_TXN
  <1>4. PICK f : f = filter'
    OBVIOUS
  <1>5. PICK R : R = risky'
    OBVIOUS
  <1>6. R = risky \cup BuiltBlind(t) /\ ~Clash(t, v, {})
    BY <1>5 DEF InsertUnique, Enforced
  <1>7. Covers(f, R) /\ (~f.saturated => Hash[v] \in f.hashes)
    BY <1>4, <1>6, EnforcedCovers DEF InsertUnique
  <1>8. \A s \in RowId \ {r} : \A q \in DOMAIN chain[s] :
          Live(chain[s], q) /\ Key[chain[s][q].bytes] = Key[v] =>
            chain[s][q].xmax \in Running /\ (chain[s][q].xmax = t \/ chain[s][q].xmax \in R)
    BY <1>6, NoClash
  <1>9. UpdatesOK(e)'
    BY <1>2 DEF UpdatesOK
  <1>10. Yielded(r, e, 1, R)
    BY <1>2, <1>8 DEF Yielded
  <1>11. 1 \in DOMAIN e /\ \A p \in DOMAIN e : Live(e, p) => p = 1
    BY <1>2
  <1>12. /\ risky \subseteq R
         /\ f # Unbuilt => Covers(f, R)
         /\ f # Unbuilt /\ ~f.saturated => Hash[e[1].bytes] \in f.hashes
    BY <1>2, <1>6, <1>7
  <1> QED
    BY <1>3, <1>4, <1>5, <1>9, <1>10, <1>11, <1>12, WriteSound

\* The version a write goes to, the newest left by pruning, is the live one of
\* its row, and the one its transaction reads.
LEMMA PrunedTop ==
  ASSUME StoreInv, NEW t \in Running, Usable(t), NEW r \in RowId, NEW c, c = chain[r],
         NEW d, d = prune(c), NEW p \in DOMAIN d, IsNewest(d, p),
         writable(active[t], d[p]) = "Ok"
  PROVE  /\ ChainOK(c) /\ ChainOK(d) /\ DOMAIN d \subseteq DOMAIN c
         /\ \A q \in DOMAIN d : /\ q <= p
                                /\ d[q].xmin = c[q].xmin /\ d[q].bytes = c[q].bytes
                                /\ d[q].xmax # NO_TXN => d[q].xmax = c[q].xmax
                                /\ ~is_aborted(d[q].xmin)
         /\ d[p].xmax = NO_TXN
         /\ d[p].xmin # t => Settled(d[p].xmin)
         /\ Live(c, p) /\ c[p].xmax \notin Running
         /\ get(t, r) = d[p].bytes
  <1>1. Inv /\ ChainOK(c) /\ DeletionsOK(c)
    BY DEF StoreInv, Inv
  <1>2. /\ ChainOK(d)
        /\ \A q \in DOMAIN d : ~is_aborted(d[q].xmin) /\ ~is_aborted(d[q].xmax)
    BY <1>1, PruneOK
  <1>3. DOMAIN d \subseteq DOMAIN c /\ \A q \in DOMAIN d : d[q] = Cleaned(c[q])
    BY DEF prune
  <1>4. \A q \in DOMAIN c : c[q] \in Version
    BY <1>1 DEF ChainOK, IsChain
  <1>5. ASSUME NEW q \in DOMAIN d
        PROVE  /\ d[q].xmin = c[q].xmin /\ d[q].bytes = c[q].bytes
               /\ d[q].xmax = IF is_aborted(c[q].xmax) THEN NO_TXN ELSE c[q].xmax
    BY <1>3, <1>4 DEF Cleaned, Version
  <1>6. d[p] \in Version
    BY <1>2 DEF ChainOK, IsChain
  <1>7. /\ visible_txn(active[t], d[p].xmin) /\ d[p].xmax = NO_TXN
        /\ d[p].xmin # t => Settled(d[p].xmin)
    BY <1>1, <1>2, <1>6, WritableOK
  <1>8. c[p].xmax = NO_TXN \/ is_aborted(c[p].xmax)
    BY <1>5, <1>7
  <1>9. Top(c, p)
    <2> SUFFICES ASSUME NEW q \in DOMAIN c, ~is_aborted(c[q].xmin), ~(q <= p) PROVE FALSE
      BY <1>2, <1>3, <1>5 DEF Top
    <2>1. p < q
      BY <1>1, <1>3 DEF ChainOK, IsChain, TxnId
    <2>2. Linked(c[p], c[q])
      BY <1>1, <1>2, <1>3, <1>5, <2>1 DEF ChainOK, LinksOK
    <2> QED
      BY <1>8, <2>2 DEF Linked
  <1>10. Live(c, p) /\ c[p].xmax \notin Running
    BY <1>1, <1>8, <1>9 DEF Live, Open, is_aborted, Inv, IdsOK, TxnId
  <1>11. get(t, r) = d[p].bytes
    <2>1. Seen(active[t], d[p])
      BY <1>7 DEF Seen, visible_txn
    <2>2. active[t] \in Snapshots
      BY Readers
    <2>3. Seen(active[t], c[p])
      BY <1>1, <2>1, <2>2, PruneSame
    <2>4. \A q \in DOMAIN c : Seen(active[t], c[q]) => q = p
      BY <1>1, <1>3, <2>2, <2>3, SeenOnce
    <2>5. DOMAIN c \subseteq Nat
      BY <1>1, ChainNumbers
    <2> QED
      BY <1>3, <1>5, <2>3, <2>4, <2>5, ReadSeen DEF get
  <1> QED
    BY <1>1, <1>2, <1>3, <1>5, <1>7, <1>10, <1>11 DEF IsNewest

\* delete: the row stays live while its deleter runs, and keeps its key.
LEMMA DeleteSound ==
  ASSUME UniqueInv, Sound, NEW t \in Running, NEW r \in RowId, Delete(t, r),
         UNCHANGED <<filter, risky>>
  PROVE  Sound'
  <1>1. PICK c : c = chain[r]
    OBVIOUS
  <1>2. PICK d : d = prune(c)
    OBVIOUS
  <1>3. PICK p \in DOMAIN d : /\ IsNewest(d, p) /\ writable(active[t], d[p]) = "Ok"
                              /\ chain' = [chain EXCEPT ![r] = [d EXCEPT ![p].xmax = t]]
    BY <1>1, <1>2 DEF Delete
  <1>4. PICK e : e = [d EXCEPT ![p].xmax = t]
    OBVIOUS
  <1>5. /\ StoreInv /\ Usable(t) /\ UNCHANGED <<active, committed>>
        /\ chain' = [chain EXCEPT ![r] = e]
    BY <1>3, <1>4 DEF UniqueInv, Delete
  <1>6. /\ ChainOK(c) /\ ChainOK(d) /\ DOMAIN d \subseteq DOMAIN c
        /\ \A q \in DOMAIN d : /\ q <= p
                               /\ d[q].xmin = c[q].xmin /\ d[q].bytes = c[q].bytes
                               /\ d[q].xmax # NO_TXN => d[q].xmax = c[q].xmax
                               /\ ~is_aborted(d[q].xmin)
        /\ Live(c, p) /\ c[p].xmax \notin Running
    BY <1>1, <1>2, <1>3, <1>5, PrunedTop
  <1>7. /\ DOMAIN e = DOMAIN d
        /\ \A q \in DOMAIN d : /\ e[q].xmin = d[q].xmin /\ e[q].bytes = d[q].bytes
                               /\ q # p => e[q].xmax = d[q].xmax
    <2>1. d \in [DOMAIN d -> Version]
      BY <1>6 DEF ChainOK, IsChain
    <2> QED
      BY <1>4, <2>1 DEF Version
  <1>8. DOMAIN d \subseteq Nat
    BY <1>6 DEF ChainOK, IsChain, TxnId
  <1>9. \A q \in DOMAIN e : Live(e, q) => q = p
    BY <1>6, <1>7, <1>8 DEF Live, Top
  <1>10. PICK R : R = risky' /\ R = risky
    OBVIOUS
  <1>11. PICK f : f = filter' /\ f = filter
    OBVIOUS
  <1>12. Yielded(r, e, p, R)
    <2> SUFFICES ASSUME NEW s \in RowId \ {r}, NEW q \in DOMAIN chain[s],
                        Live(chain[s], q), Key[chain[s][q].bytes] = Key[e[p].bytes]
                 PROVE  /\ chain[s][q].xmax \in Running
                        /\ \/ chain[s][q].xmax \in R
                           \/ /\ e[p].xmin = chain[s][q].xmax
                              /\ \A o \in DOMAIN e : o # p => is_aborted(e[o].xmin)
      BY DEF Yielded
    <2>1. Key[chain[s][q].bytes] = Key[c[p].bytes]
      BY <1>6, <1>7
    <2>2. Excused(chain[s], q, c, p) \/ Excused(c, p, chain[s], q)
      BY <1>1, <1>6, <2>1 DEF Sound, KeysOK
    <2>3. Excused(chain[s], q, c, p)
      BY <1>6, <2>2 DEF Excused
    <2> QED
      BY <1>6, <1>7, <1>10, <2>3 DEF Excused
  <1>13. /\ f # Unbuilt => Covers(f, R)
         /\ f # Unbuilt /\ ~f.saturated => Hash[e[p].bytes] \in f.hashes
    <2>1. f # Unbuilt => Covers(f, R)
      BY <1>10, <1>11 DEF Sound
    <2> QED
      BY <1>1, <1>6, <1>7, <2>1 DEF Covers
  <1>14. UpdatesOK(e)'
    <2>1. UpdatesOK(c)
      BY <1>1 DEF Sound
    <2>2. NO_TXN \notin Running /\ Running' = Running
      BY <1>5 DEF StoreInv, Inv, IdsOK, TxnId, Running
    <2>3. ASSUME NEW o \in DOMAIN e, NEW q \in DOMAIN e, o < q, e[o].xmax = e[q].xmin,
                 e[o].xmax \in Running, e[o].xmax \notin risky
          PROVE  Key[e[o].bytes] = Key[e[q].bytes]
      <3>1. o # p
        BY <1>6, <1>7, <1>8, <2>3
      <3>2. c[o].xmax = e[o].xmax /\ c[q].xmin = e[q].xmin
        BY <1>6, <1>7, <2>2, <2>3, <3>1
      <3> QED
        BY <1>6, <1>7, <2>1, <2>3, <3>2 DEF UpdatesOK
    <2> QED
      BY <2>2, <2>3, <1>10 DEF UpdatesOK
  <1>15. p \in DOMAIN e /\ risky \subseteq R
    BY <1>7, <1>10
  <1> QED
    BY <1>5, <1>9, <1>10, <1>11, <1>12, <1>13, <1>14, <1>15, WriteSound

\* update_unique: the row takes a key that is nobody's, or that its writer
\* freed; a change of key is risky, and without one the row keeps its own.
LEMMA UpdateSound ==
  ASSUME UniqueInv, Sound, NEW t \in Running, NEW r \in RowId, NEW v \in Value,
         UpdateUnique(t, r, v)
  PROVE  Sound'
  <1>1. PICK c : c = chain[r]
    OBVIOUS
  <1>2. PICK d : d = prune(c)
    OBVIOUS
  <1>3. PICK p \in DOMAIN d : /\ IsNewest(d, p) /\ writable(active[t], d[p]) = "Ok"
                              /\ chain' = [chain EXCEPT ![r] = Supersede(t, d, p, v)]
    BY <1>1, <1>2 DEF UpdateUnique, Update
  <1>4. PICK e : e = Supersede(t, d, p, v)
    OBVIOUS
  <1>5. /\ StoreInv /\ Usable(t) /\ UNCHANGED <<active, committed>>
        /\ chain' = [chain EXCEPT ![r] = e]
    BY <1>3, <1>4 DEF UniqueInv, UpdateUnique, Update
  <1>6. /\ ChainOK(c) /\ ChainOK(d) /\ DOMAIN d \subseteq DOMAIN c
        /\ \A q \in DOMAIN d : /\ q <= p
                               /\ d[q].xmin = c[q].xmin /\ d[q].bytes = c[q].bytes
                               /\ d[q].xmax # NO_TXN => d[q].xmax = c[q].xmax
                               /\ ~is_aborted(d[q].xmin)
        /\ d[p].xmax = NO_TXN
        /\ d[p].xmin # t => Settled(d[p].xmin)
        /\ Live(c, p) /\ c[p].xmax \notin Running
        /\ get(t, r) = d[p].bytes
    BY <1>1, <1>2, <1>3, <1>5, PrunedTop
  <1>7. DOMAIN d \subseteq Nat /\ d \in [DOMAIN d -> Version] /\ p \in Nat
    BY <1>6 DEF ChainOK, IsChain, TxnId
  <1>8. PICK n : n = IF d[p].xmin = t THEN p ELSE p + 1
    OBVIOUS
  <1>9. /\ DOMAIN e = DOMAIN d \cup {n} /\ \A q \in DOMAIN e : q <= n
        /\ e[n].xmin = t /\ e[n].xmax = NO_TXN /\ e[n].bytes = v
        /\ \A q \in DOMAIN d : /\ e[q].xmin = d[q].xmin
                               /\ q # n => e[q].bytes = d[q].bytes
                               /\ q # p => e[q].xmax = d[q].xmax
        /\ n # p => e[p].xmax = t
    <2>1. CASE d[p].xmin = t
      <3>1. e = [d EXCEPT ![p].bytes = v] /\ n = p
        BY <1>4, <1>8, <2>1 DEF Supersede
      <3> QED
        BY <1>6, <1>7, <2>1, <3>1 DEF Version
    <2>2. CASE d[p].xmin # t
      <3>1. n = p + 1 /\ n \notin DOMAIN d
        BY <1>6, <1>7, <1>8, <2>2
      <3>2. /\ DOMAIN e = DOMAIN d \cup {n} /\ e[n] = live(t, v)
            /\ e[p] = [d[p] EXCEPT !.xmax = t]
            /\ \A q \in DOMAIN d : q # p => e[q] = d[q]
        BY <1>4, <1>7, <2>2, <3>1 DEF Supersede
      <3>3. e[p].xmin = d[p].xmin /\ e[p].xmax = t /\ e[p].bytes = d[p].bytes
        BY <1>7, <3>2 DEF Version
      <3>4. \A q \in DOMAIN e : q <= n
        BY <1>6, <1>7, <3>1, <3>2
      <3>5. e[n].xmin = t /\ e[n].xmax = NO_TXN /\ e[n].bytes = v
        BY <3>2 DEF live
      <3>6. ASSUME NEW q \in DOMAIN d
            PROVE  /\ e[q].xmin = d[q].xmin
                   /\ q # n => e[q].bytes = d[q].bytes
                   /\ q # p => e[q].xmax = d[q].xmax
        <4>1. CASE q = p
          BY <3>3, <4>1
        <4>2. CASE q # p
          BY <3>2, <4>2
        <4> QED
          BY <4>1, <4>2
      <3>7. DOMAIN e = DOMAIN d \cup {n}
        BY <3>2
      <3> QED
        BY <3>3, <3>4, <3>5, <3>6, <3>7
    <2> QED
      BY <2>1, <2>2
  <1>10. \A q \in DOMAIN e : Live(e, q) => q = n
    <2>1. ~is_aborted(t) /\ n \in DOMAIN e /\ DOMAIN e \subseteq Nat
      BY <1>7, <1>8, <1>9 DEF is_aborted
    <2> QED
      BY <1>9, <2>1 DEF Live, Top
  <1>11. PICK R : R = risky'
    OBVIOUS
  <1>12. PICK f : f = filter'
    OBVIOUS
  <1>13. /\ R = risky \cup BuiltBlind(t) \cup (IF Key[d[p].bytes] # Key[v] THEN {t} ELSE {})
         /\ ~Clash(t, v, {r}) /\ Enforced(t, v, {r})
    BY <1>6, <1>11 DEF UpdateUnique, Enforced
  <1>14. /\ f # Unbuilt => Covers(f, R)
         /\ f # Unbuilt /\ ~f.saturated => Hash[e[n].bytes] \in f.hashes
    <2>1. Covers(f, risky \cup BuiltBlind(t)) /\ (~f.saturated => Hash[v] \in f.hashes)
      BY <1>12, <1>13, EnforcedCovers
    <2> QED
      BY <1>9, <1>13, <2>1 DEF Covers
  <1>15. Yielded(r, e, n, R)
    <2> SUFFICES ASSUME NEW s \in RowId \ {r}, NEW q \in DOMAIN chain[s],
                        Live(chain[s], q), Key[chain[s][q].bytes] = Key[v]
                 PROVE  /\ chain[s][q].xmax \in Running
                        /\ \/ chain[s][q].xmax \in R
                           \/ /\ t = chain[s][q].xmax
                              /\ \A o \in DOMAIN e : o # n => is_aborted(e[o].xmin)
      BY <1>9 DEF Yielded
    <2>1. /\ chain[s][q].xmax \in Running
          /\ chain[s][q].xmax = t \/ chain[s][q].xmax \in R
      BY <1>13, NoClash
    <2>2. CASE chain[s][q].xmax = t /\ t \notin R
      <3>1. Key[c[p].bytes] = Key[v]
        BY <1>6, <1>13, <2>2
      <3>2. Excused(chain[s], q, c, p) \/ Excused(c, p, chain[s], q)
        BY <1>1, <1>6, <3>1 DEF Sound, KeysOK
      <3>3. Excused(chain[s], q, c, p)
        BY <1>6, <3>2 DEF Excused
      <3>4. c[p].xmin = t /\ \A o \in DOMAIN c : o # p => is_aborted(c[o].xmin)
        BY <1>13, <2>2, <3>3 DEF Excused
      <3>5. n = p /\ DOMAIN e = DOMAIN d
        BY <1>6, <1>8, <1>9, <3>4
      <3>6. ASSUME NEW o \in DOMAIN e, o # n PROVE FALSE
        BY <1>6, <3>4, <3>5, <3>6
      <3> QED
        BY <2>2, <3>6
    <2> QED
      BY <2>1, <2>2
  <1>16. UpdatesOK(e)'
    <2>1. UpdatesOK(c)
      BY <1>1 DEF Sound
    <2>2. NO_TXN \notin Running /\ Running' = Running
      BY <1>5 DEF StoreInv, Inv, IdsOK, TxnId, Running
    <2>3. ASSUME NEW o \in DOMAIN e, NEW q \in DOMAIN e, o < q, e[o].xmax = e[q].xmin,
                 e[o].xmax \in Running, e[o].xmax \notin R
          PROVE  Key[e[o].bytes] = Key[e[q].bytes]
      <3>1. o # n /\ o \in DOMAIN d
        BY <1>9, <2>2, <2>3
      <3>2. e[o].bytes = d[o].bytes /\ d[o].bytes = c[o].bytes
        BY <1>6, <1>9, <3>1
      <3>3. CASE o = p
        <4>1. q = n
          BY <1>6, <1>7, <1>9, <2>3, <3>3
        <4>2. e[o].xmax = t
          BY <1>9, <3>1, <3>3
        <4> QED
          BY <1>9, <1>13, <2>3, <3>2, <3>3, <4>1, <4>2
      <3>4. CASE o # p
        <4>1. e[o].xmax = d[o].xmax /\ d[o].xmax = c[o].xmax
          BY <1>6, <1>9, <2>2, <2>3, <3>1, <3>4
        <4>2. CASE q \in DOMAIN d /\ q # n
          <5>1. c[q].xmin = e[q].xmin /\ e[q].bytes = c[q].bytes
            BY <1>6, <1>9, <4>2
          <5> QED
            BY <1>6, <1>13, <2>1, <2>3, <3>1, <3>2, <4>1, <4>2, <5>1 DEF UpdatesOK
        <4>3. CASE q = n
          <5>1. d[o].xmax = t /\ t \notin R
            BY <1>9, <2>3, <4>1, <4>3
          <5>2. Linked(d[o], d[p])
            BY <1>6, <1>7, <3>1, <3>4 DEF ChainOK, LinksOK
          <5>3. d[p].xmin = t /\ n = p
            BY <1>8, <2>3, <5>1, <5>2 DEF Linked
          <5>4. c[o].xmax = c[p].xmin /\ c[o].xmax = t /\ o < p
            BY <1>6, <2>3, <4>1, <4>3, <5>1, <5>3
          <5>5. Key[c[o].bytes] = Key[c[p].bytes]
            BY <1>6, <1>13, <2>1, <3>1, <5>1, <5>4 DEF UpdatesOK
          <5> QED
            BY <1>6, <1>9, <1>13, <3>2, <4>3, <5>1, <5>5
        <4> QED
          BY <1>9, <4>2, <4>3
      <3> QED
        BY <3>3, <3>4
    <2> QED
      BY <1>11, <2>2, <2>3 DEF UpdatesOK
  <1>17. n \in DOMAIN e /\ risky \subseteq R
    BY <1>9, <1>13
  <1> QED
    BY <1>5, <1>10, <1>11, <1>12, <1>14, <1>15, <1>16, <1>17, WriteSound
-----------------------------------------------------------------------------
(* The theorems *)

\* A checked step is a step of the engine.
LEMMA UNextIsNext == UNext => [Next]_vars
  <1> SUFFICES ASSUME UNext PROVE [Next]_vars
    OBVIOUS
  <1>1. CASE Begin \/ URestart
    BY <1>1 DEF URestart, Next
  <1>2. ASSUME NEW t \in Running, Elsewhere(t) PROVE Next
    BY <1>2 DEF Elsewhere, Next
  <1>3. ASSUME NEW t \in Running, NEW v \in Value,
               \/ InsertUnique(t, v)
               \/ UniqueViolation(t, v, {})
               \/ \E r \in RowId : \/ UpdateUnique(t, r, v) \/ UpdateRefused(t, r, v)
                                   \/ UniqueViolation(t, v, {r})
        PROVE  [Next]_vars
    BY <1>3 DEF InsertUnique, UpdateUnique, UpdateRefused, UniqueViolation, Next
  <1> QED
    BY <1>1, <1>2, <1>3 DEF UNext

\* An aborted transaction stays aborted.
LEMMA AbortsLast ==
  ASSUME Inv, [Next]_vars, NEW x \in TxnId, x < next_txn_id, is_aborted(x)
  PROVE  is_aborted(x)'
  <1>1. Running' \subseteq Running \cup {next_txn_id} /\ committed' \subseteq committed \cup Running
    <2>1. CASE Begin \/ Restart \/ UNCHANGED vars
      BY <2>1 DEF Begin, Restart, Running, vars
    <2>2. ASSUME NEW t \in Running,
                 \/ TakeSnapshot(t) \/ Commit(t) \/ CommitFails(t) \/ Abort(t)
                 \/ \E v \in Value : Insert(t, v)
                 \/ \E r \in RowId : \/ Delete(t, r) \/ WriteRefused(t, r)
                                     \/ \E v \in Value : Update(t, r, v)
          PROVE  Running' \subseteq Running /\ committed' \subseteq committed \cup Running
      BY <2>2 DEF TakeSnapshot, Commit, CommitFails, Abort, Insert, Delete, WriteRefused, Update,
                  Forget, Running, vars
    <2> QED
      BY <2>1, <2>2 DEF Next
  <1>2. x # next_txn_id
    BY DEF Inv, TypeOK, TxnId
  <1> QED
    BY <1>1, <1>2 DEF is_aborted

\* The counter only grows.
LEMMA CounterGrows ==
  ASSUME Inv, [Next]_vars
  PROVE  next_txn_id \in Nat /\ next_txn_id' \in Nat /\ next_txn_id <= next_txn_id'
  <1>1. next_txn_id \in Nat
    BY DEF Inv, TypeOK, TxnId
  <1>2. next_txn_id' = next_txn_id + 1 \/ next_txn_id' = next_txn_id
    BY DEF Next, vars, Begin, Restart, TakeSnapshot, Commit, CommitFails, Abort, Insert, Delete,
           WriteRefused, Update
  <1> QED
    BY <1>1, <1>2

\* Initially there are no rows, no filter and no risk.
LEMMA UInitInv == UInit => UniqueInv
  <1> SUFFICES ASSUME UInit PROVE UniqueInv
    OBVIOUS
  <1>1. StoreInv
    BY InitStoreInv DEF UInit
  <1>2. \A r \in RowId : DOMAIN chain[r] = {}
    BY DEF UInit, Init, EmptyChain
  <1>3. Sound
    BY <1>2 DEF Sound, KeysOK, UpdatesOK, UInit
  <1> QED
    BY <1>1, <1>3 DEF UniqueInv, UInit

\* What a step may do to the filter, to the risky transactions and to the
\* soundness of the table.
Careful ==
  /\ filter' = Unbuilt \/ FilterOK(filter')
  /\ risky \subseteq risky' /\ risky' \subseteq risky \cup Running
  /\ Sound => Sound' \/ \E x \in risky' : is_aborted(x)'

\* Every step is careful: each operation of the engine, checked or not.
LEMMA NextCareful == ASSUME UniqueInv, UNext PROVE Careful
  <1> USE DEF Careful
  <1>1. filter = Unbuilt \/ FilterOK(filter)
    BY DEF UniqueInv
  <1>2. Inv
    BY DEF UniqueInv, StoreInv
  <1>3. ASSUME UNCHANGED <<filter, risky>>, Sound => Sound' \/ \E x \in risky' : is_aborted(x)'
        PROVE  Careful
    BY <1>1, <1>3
  <1>4. ASSUME NEW t \in Running, chain' = chain, Running' = Running,
               \A x : is_aborted(x)' <=> is_aborted(x),
               NEW f, f = filter', FilterOK(f), risky' = risky \cup BuiltBlind(t),
               Sound => Covers(f, risky \cup BuiltBlind(t))
        PROVE  Careful
    <2>1. PICK R : R = risky' /\ R = risky \cup BuiltBlind(t)
      BY <1>4
    <2>2. Sound => Sound'
      BY <1>4, <2>1, QuietSound
    <2> QED
      BY <1>4, <2>2 DEF BuiltBlind
  <1>5. CASE Begin /\ UNCHANGED <<filter, risky>>
    <2>1. chain' = chain /\ Running' = Running \cup {next_txn_id} /\ committed' = committed
      BY <1>5 DEF Begin, Running
    <2>2. \A x \in Nat : x < next_txn_id => /\ is_aborted(x)' <=> is_aborted(x)
                                            /\ x \in Running' <=> x \in Running
      BY <1>2, <2>1 DEF is_aborted, Inv, TypeOK, TxnId
    <2>3. PICK f : f = filter' /\ f = filter
      BY <1>5
    <2>4. PICK R : R = risky' /\ R = risky
      BY <1>5
    <2>5. Sound => Sound'
      BY <2>1, <2>2, <2>3, <2>4, QuietSound DEF Sound
    <2> QED
      BY <1>3, <1>5, <2>5
  <1>6. CASE URestart
    <2>1. Restart /\ filter' \in {filter, Unbuilt} /\ risky' = risky
      BY <1>6 DEF URestart
    <2> QED
      BY <1>6, <2>1, VanishSound DEF URestart
  <1>7. ASSUME NEW t \in Running, TakeSnapshot(t) \/ CommitFails(t), UNCHANGED <<filter, risky>>
        PROVE  Careful
    <2>1. chain' = chain /\ Running' = Running /\ committed \subseteq committed'
          /\ committed' \subseteq committed \cup Running
      BY <1>7 DEF TakeSnapshot, CommitFails, Running
    <2>2. \A x \in Nat : x < next_txn_id => /\ is_aborted(x)' <=> is_aborted(x)
                                            /\ x \in Running' <=> x \in Running
      BY <2>1 DEF is_aborted
    <2>3. PICK f : f = filter' /\ f = filter
      BY <1>7
    <2>4. PICK R : R = risky' /\ R = risky
      BY <1>7
    <2>5. Sound => Sound'
      BY <2>1, <2>2, <2>3, <2>4, QuietSound DEF Sound
    <2> QED
      BY <1>3, <1>7, <2>5
  <1>8. ASSUME NEW t \in Running, Commit(t), UNCHANGED <<filter, risky>> PROVE Careful
    BY <1>3, <1>8, CommitSound
  <1>9. ASSUME NEW t \in Running, Abort(t), UNCHANGED <<filter, risky>> PROVE Careful
    BY <1>3, <1>9, VanishSound
  <1>10. ASSUME NEW t \in Running, NEW r \in RowId, Delete(t, r), UNCHANGED <<filter, risky>>
         PROVE  Careful
    BY <1>3, <1>10, DeleteSound
  <1>11. ASSUME NEW t \in Running, NEW v \in Value, NEW X, Enforced(t, v, X)
         PROVE  FilterOK(filter')
    BY <1>11, ConsultedOK, AddOK DEF Enforced
  <1>12. ASSUME NEW t \in Running, NEW v \in Value, InsertUnique(t, v) PROVE Careful
    <2>1. FilterOK(filter') /\ risky' = risky \cup BuiltBlind(t)
      BY <1>11, <1>12 DEF InsertUnique
    <2> QED
      BY <1>12, <2>1, InsertSound DEF BuiltBlind
  <1>13. ASSUME NEW t \in Running, NEW r \in RowId, NEW v \in Value, UpdateUnique(t, r, v)
         PROVE  Careful
    <2>1. /\ FilterOK(filter') /\ risky \subseteq risky'
          /\ risky' \subseteq risky \cup BuiltBlind(t) \cup {t}
      BY <1>11, <1>13 DEF UpdateUnique
    <2> QED
      BY <1>13, <2>1, UpdateSound DEF BuiltBlind
  <1>14. ASSUME NEW t \in Running, NEW r \in RowId, NEW v \in Value, UpdateRefused(t, r, v)
         PROVE  Careful
    <2>1. PICK f : f = filter'
      OBVIOUS
    <2>2. FilterOK(f) /\ (Sound => Covers(f, risky \cup BuiltBlind(t)))
      BY <1>11, <1>14, <2>1, EnforcedCovers DEF UpdateRefused
    <2>3. /\ chain' = chain /\ Running' = Running /\ \A x : is_aborted(x)' <=> is_aborted(x)
          /\ risky' = risky \cup BuiltBlind(t)
      BY <1>14 DEF UpdateRefused, WriteRefused, vars, Running, is_aborted
    <2> QED
      BY <1>4, <2>1, <2>2, <2>3
  <1>15. ASSUME NEW t \in Running, NEW v \in Value, NEW X, UniqueViolation(t, v, X)
         PROVE  Careful
    <2>1. PICK f : f = filter' /\ f = Consulted(t)
      BY <1>15 DEF UniqueViolation
    <2>2. FilterOK(f) /\ (Sound => Covers(f, risky \cup BuiltBlind(t)))
      BY <2>1, ConsultedOK, ConsultedCovers
    <2>3. /\ chain' = chain /\ Running' = Running /\ \A x : is_aborted(x)' <=> is_aborted(x)
          /\ risky' = risky \cup BuiltBlind(t)
      BY <1>15 DEF UniqueViolation, vars, Running, is_aborted
    <2> QED
      BY <1>4, <2>1, <2>2, <2>3
  <1> QED
    BY <1>5, <1>6, <1>7, <1>8, <1>9, <1>10, <1>12, <1>13, <1>14, <1>15 DEF UNext, Elsewhere

\* The invariant holds throughout, whatever is inserted, updated, deleted,
\* committed, aborted or lost in a restart.
THEOREM UniqueInvariance == USpec => []UniqueInv
  <1>1. UniqueInv /\ [UNext]_uvars => UniqueInv'
    <2> SUFFICES ASSUME UniqueInv, [UNext]_uvars PROVE UniqueInv'
      OBVIOUS
    <2>1. CASE UNext
      <3>1. StoreInv /\ Inv /\ [Next]_vars /\ Careful
        BY <2>1, UNextIsNext, NextCareful DEF UniqueInv, StoreInv
      <3>2. StoreInv'
        BY <3>1, NextStoreInv
      <3>3. filter' = Unbuilt' \/ FilterOK(filter)'
        BY <3>1 DEF Careful, Unbuilt, FilterOK, Filter
      <3>4. ASSUME NEW x \in risky' PROVE x \in TxnId /\ x < next_txn_id'
        <4>1. x \in TxnId /\ x < next_txn_id
          BY <3>1 DEF Careful, UniqueInv, Inv, IdsOK
        <4> QED
          BY <3>1, <4>1, CounterGrows DEF TxnId
      <3>5. (\E x \in risky' : is_aborted(x)') \/ Sound'
        <4>1. CASE \E x \in risky : is_aborted(x)
          BY <3>1, <4>1, AbortsLast DEF Careful, UniqueInv
        <4>2. CASE Sound
          BY <3>1, <4>2 DEF Careful
        <4> QED
          BY <4>1, <4>2 DEF UniqueInv
      <3> QED
        BY <3>2, <3>3, <3>4, <3>5 DEF UniqueInv
    <2>2. CASE UNCHANGED uvars
      <3>1. UNCHANGED <<vars, filter, risky>> /\ UNCHANGED vars
        BY <2>2 DEF uvars
      <3>2. StoreInv'
        BY <3>1, NextStoreInv DEF UniqueInv
      <3>3. /\ chain' = chain /\ active' = active /\ committed' = committed
            /\ next_txn_id' = next_txn_id /\ filter' = filter /\ risky' = risky
        BY <3>1 DEF vars
      <3>4. Sound <=> Sound'
        BY <3>3 DEF Sound, KeysOK, Covers, UpdatesOK, Excused, Live, Top, Open, is_aborted, Running,
                    Unbuilt
      <3>5. FilterOK(filter)' <=> FilterOK(filter)
        BY <3>3 DEF FilterOK, Filter
      <3>6. \A x : is_aborted(x)' <=> is_aborted(x)
        BY <3>3 DEF is_aborted, Running
      <3> QED
        BY <3>2, <3>3, <3>4, <3>5, <3>6 DEF UniqueInv, Unbuilt
    <2> QED
      BY <2>1, <2>2
  <1> QED
    BY <1>1, UInitInv, PTL DEF USpec

\* Types, and the filter within its capacity (unique.rs Filter::build, add).
THEOREM UniqueTypeCorrect == USpec => []UTypeOK
  <1>1. UniqueInv => UTypeOK
    BY DEF UniqueInv, StoreInv, Inv, UTypeOK, FilterOK, Filter
  <1> QED
    BY <1>1, UniqueInvariance, PTL

\* A committed row is live, with the key it is committed with, unless a risky
\* transaction is changing it.
LEMMA CurrentIsLive ==
  ASSUME UniqueInv, Sound, RiskSettled, NEW r \in RowId, Current(r) # None
  PROVE  \E p \in DOMAIN chain[r], o \in DOMAIN chain[r] :
           /\ Current(r) = chain[r][p].bytes /\ Settled(chain[r][p].xmin)
           /\ Live(chain[r], o) /\ Key[chain[r][o].bytes] = Key[Current(r)]
  <1>1. Inv /\ ChainOK(chain[r]) /\ Bounded(chain[r]) /\ UpdatesOK(chain[r])
    BY DEF UniqueInv, StoreInv, Inv, Sound
  <1>2. /\ DOMAIN chain[r] \subseteq Nat
        /\ \A p \in DOMAIN chain[r] :
             /\ chain[r][p].xmin \in Nat /\ chain[r][p].xmin < next_txn_id
             /\ chain[r][p].xmax \in Nat /\ chain[r][p].xmax < next_txn_id
    BY <1>1, ChainNumbers
  <1>3. PICK p \in DOMAIN chain[r] : Seen(Outside, chain[r][p])
    BY DEF Current, visible_version
  <1>4. \A q \in DOMAIN chain[r] : Seen(Outside, chain[r][q]) => q = p
    BY <1>1, <1>3, SeenOnce, Readers
  <1>5. Current(r) = chain[r][p].bytes
    BY <1>2, <1>3, <1>4, ReadSeen DEF Current
  <1>6. Public(chain[r][p].xmin) /\ ~Public(chain[r][p].xmax)
    BY <1>3 DEF Seen, Public
  <1>7. Settled(chain[r][p].xmin) /\ (chain[r][p].xmax = NO_TXN \/ ~Settled(chain[r][p].xmax))
    BY <1>1, <1>2, <1>6, PublicIs
  <1>8. ~is_aborted(chain[r][p].xmin) /\ Open(chain[r][p].xmax)
    BY <1>7 DEF Settled, is_aborted, Open
  <1>9. PICK o \in DOMAIN chain[r] :
          /\ Live(chain[r], o)
          /\ \/ o = p
             \/ /\ p < o /\ chain[r][p].xmax = chain[r][o].xmin
                /\ chain[r][p].xmax \in Running
    BY <1>1, <1>8, LiveTop
  <1>10. Key[chain[r][o].bytes] = Key[chain[r][p].bytes]
    BY <1>1, <1>9 DEF UpdatesOK, RiskSettled
  <1> QED
    BY <1>5, <1>7, <1>9, <1>10

\* Two committed rows share a key only after a transaction that changed a key,
\* or built the filter blind, aborted or while it runs; enforce_unique lets no
\* other duplicate through, for any interleaving of any length.
THEOREM UniqueKeysHold == USpec => []DuplicatesHaveTwoOrigins
  <1>1. UniqueInv => DuplicatesHaveTwoOrigins
    <2> SUFFICES ASSUME UniqueInv, RiskSettled,
                        NEW r \in RowId, NEW s \in RowId, Current(r) # None, Current(s) # None,
                        r # s, Key[Current(r)] = Key[Current(s)]
                 PROVE  FALSE
      BY DEF DuplicatesHaveTwoOrigins, NoDuplicateKeys
    <2>1. Sound
      BY DEF UniqueInv, RiskSettled, is_aborted
    <2>2. PICK p \in DOMAIN chain[r], o \in DOMAIN chain[r] :
            /\ Current(r) = chain[r][p].bytes /\ Settled(chain[r][p].xmin)
            /\ Live(chain[r], o) /\ Key[chain[r][o].bytes] = Key[Current(r)]
      BY <2>1, CurrentIsLive
    <2>3. PICK q \in DOMAIN chain[s], m \in DOMAIN chain[s] :
            /\ Current(s) = chain[s][q].bytes /\ Settled(chain[s][q].xmin)
            /\ Live(chain[s], m) /\ Key[chain[s][m].bytes] = Key[Current(s)]
      BY <2>1, CurrentIsLive
    <2>4. Excused(chain[r], o, chain[s], m) \/ Excused(chain[s], m, chain[r], o)
      BY <2>1, <2>2, <2>3 DEF Sound, KeysOK
    <2>5. ASSUME NEW c, NEW d, NEW x \in DOMAIN d, NEW y, NEW z, Excused(c, y, d, z),
                 Settled(d[x].xmin)
          PROVE  FALSE
      BY <2>5 DEF Excused, Settled, RiskSettled, is_aborted
    <2> QED
      BY <2>2, <2>3, <2>4, <2>5
  <1> QED
    BY <1>1, UniqueInvariance, PTL

\* Nor does the filter miss the key of a committed row in any other way, so
\* that the walk it saves (may_contain) would have found nothing.
THEOREM FilterHolds == USpec => []FilterLossHasTwoOrigins
  <1>1. UniqueInv => FilterLossHasTwoOrigins
    <2> SUFFICES ASSUME UniqueInv, RiskSettled, filter # Unbuilt, ~filter.saturated,
                        NEW r \in RowId, Current(r) # None
                 PROVE  Hash[Current(r)] \in filter.hashes
      BY DEF FilterLossHasTwoOrigins, FilterIsSuperset
    <2>1. Sound
      BY DEF UniqueInv, RiskSettled, is_aborted
    <2>2. PICK p \in DOMAIN chain[r], o \in DOMAIN chain[r] :
            /\ Current(r) = chain[r][p].bytes
            /\ Live(chain[r], o) /\ Key[chain[r][o].bytes] = Key[Current(r)]
      BY <2>1, CurrentIsLive
    <2>3. chain[r][p].bytes \in Value /\ chain[r][o].bytes \in Value
      BY ChainNumbers DEF UniqueInv, StoreInv, Inv
    <2>4. Hash[chain[r][o].bytes] = Hash[Current(r)]
      BY <2>2, <2>3, UniqueAssumption
    <2> QED
      BY <2>1, <2>2, <2>4 DEF Sound, Covers, RiskSettled
  <1> QED
    BY <1>1, UniqueInvariance, PTL
=============================================================================
