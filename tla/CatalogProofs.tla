---------------------------- MODULE CatalogProofs ----------------------------
(***************************************************************************)
(* Proofs about Catalog, for any number of sessions, names and ids: listed *)
(* tables are sound, and the index is right unless one of the three known  *)
(* faults has happened.                                                    *)
(***************************************************************************)
EXTENDS Catalog, TLAPS, WellFoundedInduction
-----------------------------------------------------------------------------
(* What is committed, and what each transaction has changed *)

ViewOf(R, E, T) ==
  [rows |-> R, entries |-> E,
   new |-> [s \in Session |-> IF T[s].open THEN T[s].new ELSE {}],
   gone |-> [s \in Session |-> IF T[s].open THEN T[s].gone ELSE {}],
   husk |-> [s \in Session |-> IF T[s].open THEN T[s].husk ELSE {}],
   made |-> [s \in Session |-> IF T[s].open THEN T[s].made ELSE {}],
   unmade |-> [s \in Session |-> IF T[s].open THEN T[s].unmade ELSE {}]]

View == ViewOf(rows, entries, txn)

Differ(r, q) == r.id # q.id /\ r.name # q.name

\* A transaction by itself: its rows have storage it made, and neither share an
\* id or a name with one another or with those it sees. It changed no storage
\* that a row it sees stands for.
OwnOK(v, s) ==
  /\ v.gone[s] \subseteq v.rows
  /\ \A q \in v.new[s] : q.id \in v.made[s]
  /\ \A r, q \in v.new[s] : r # q => Differ(r, q)
  /\ \A r \in v.rows \ v.gone[s] :
       r.id \notin v.made[s] \cup v.unmade[s] /\ \A q \in v.new[s] : Differ(r, q)

\* Two transactions do not touch the same storage or row, nor take an id or a
\* name that the other has, or has given up.
Apart(v, s, u) ==
  /\ (v.made[s] \cup v.unmade[s]) \cap (v.made[u] \cup v.unmade[u]) = {}
  /\ v.gone[s] \cap v.gone[u] = {}
  /\ \A r \in v.new[s], q \in v.new[u] \cup v.husk[u] : Differ(r, q)

Sound(v) ==
  /\ \A r \in v.rows : r.id \in v.entries
  /\ \A r, q \in v.rows : r # q => Differ(r, q)
  /\ \A s \in Session : OwnOK(v, s)
  /\ \A s, u \in Session : s # u => Apart(v, s, u)
-----------------------------------------------------------------------------
(* Where statements have got to *)

Steps == {"idle", "reserve", "storage", "record", "insert", "lookup", "delete", "drop", "remove",
          "finish", "reload", "swap", "doubt"}

\* A session has the fields that go with its step.
SessionOK(x) ==
  /\ {"explicit", "ddl", "indexed", "step", "stale"} \subseteq DOMAIN x
  /\ x.explicit \in BOOLEAN /\ x.ddl \in BOOLEAN /\ x.indexed \in BOOLEAN /\ x.step \in Steps
  /\ x.step = "reserve" => "name" \in DOMAIN x /\ x.name \in Name
  /\ x.step \in {"storage", "record", "insert"} => "row" \in DOMAIN x /\ x.row \in Row
  /\ x.step \in {"lookup", "delete", "drop", "remove"} => "names" \in DOMAIN x
  /\ x.step \in {"delete", "drop", "remove"} => "id" \in DOMAIN x
  /\ x.step = "swap" => "read" \in DOMAIN x /\ x.read \subseteq Row
                          /\ \A r, q \in x.read : r # q => Differ(r, q)

\* A transaction, and that it is there when its session needs it.
TxnOK(t, x) ==
  /\ t.open = (x.explicit \/ x.step \notin {"idle", "reload", "swap"})
  /\ t.open => t = [open |-> TRUE, new |-> t.new, gone |-> t.gone, husk |-> t.husk,
                    made |-> t.made, unmade |-> t.unmade]
  /\ t.open => t.new \subseteq Row /\ t.gone \subseteq Row /\ t.husk \subseteq Row
  /\ t.open => t.made \subseteq TableId /\ t.unmade \subseteq TableId

\* Nothing stands in the way of dropping the storage of i.
Droppable(v, x, s, i) ==
  /\ i \notin x.stale
  /\ i \in (v.entries \ v.unmade[s]) \cup v.made[s]
  /\ \A u \in Session \ {s} : i \notin v.made[u] \cup v.unmade[u]

\* s has deleted row r and will now remove it from the index.
Removing(v, x, s, r) ==
  /\ x.step \in {"drop", "remove"} /\ r.id = x.id
  /\ r \in v.gone[s] \cup v.husk[s]
  /\ x.step = "drop" /\ r \notin v.gone[s] => r.id \in v.made[s]
  /\ x.step = "drop" => Droppable(v, x, s, r.id)

\* s has inserted row r, and it is in the index.
Inserted(v, x, s, r) == r \in v.new[s] /\ ~(x.step = "insert" /\ r = x.row)

\* What a session's step says about its transaction: a transaction that has not
\* changed the index has nothing but what the current statement is about to put
\* there.
StepOK(v, x, s) ==
  /\ x.step = "record" => x.row.id \in v.made[s]
  /\ x.step = "insert" => x.row \in v.new[s]
  /\ x.step = "drop" /\ x.id \notin x.stale =>
       \A r \in (v.rows \ v.gone[s]) \cup v.new[s] : r.id # x.id
  /\ x.step = "remove" => x.id \in v.unmade[s] /\ x.id \notin v.made[s]
  /\ ~x.indexed => /\ \A r \in v.new[s] : x.step = "insert" /\ r = x.row
                   /\ \A r \in v.gone[s] : Removing(v, x, s, r)
  /\ x.explicit /\ ~x.ddl => x.step = "idle" /\ ~x.indexed
  /\ ~x.explicit /\ x.step \in {"idle", "reload", "swap"} => ~x.indexed
  /\ x.step \in {"reload", "swap"} => ~x.explicit
-----------------------------------------------------------------------------
(* The index *)

\* The rows that the index should have.
Listed(v, ses) ==
  {r \in Row : \/ r \in v.rows /\ \A s \in Session : r \notin v.gone[s]
               \/ \E s \in Session : Inserted(v, ses[s], s, r)}

Inverse(c) ==
  /\ \A n \in DOMAIN c.by_name : c.by_name[n] \in DOMAIN c.by_id /\ c.by_id[c.by_name[n]] = n
  /\ \A i \in DOMAIN c.by_id : c.by_id[i] \in DOMAIN c.by_name /\ c.by_name[c.by_id[i]] = i

\* It has them, and besides only rows that are being removed.
IndexOK(v, ses, c) ==
  /\ Inverse(c)
  /\ \A r \in Listed(v, ses) : r.id \in DOMAIN c.by_id /\ c.by_id[r.id] = r.name
  /\ \A i \in DOMAIN c.by_id : \E r \in Row :
       /\ r.id = i /\ r.name = c.by_id[i]
       /\ r \in Listed(v, ses) \/ \E s \in Session : Removing(v, ses[s], s, r)

CacheOK(c) ==
  /\ c = [by_name |-> c.by_name, by_id |-> c.by_id, next_id |-> c.next_id]
  /\ c.by_name \in [DOMAIN c.by_name -> TableId] /\ DOMAIN c.by_name \subseteq Name
  /\ c.by_id \in [DOMAIN c.by_id -> Name] /\ DOMAIN c.by_id \subseteq TableId
  /\ c.next_id \in 1 .. MaxId + 1

Reloading == \E s \in Session : session[s].step \in {"reload", "swap"}

CatInv ==
  /\ rows \subseteq Row /\ entries \subseteq TableId /\ CacheOK(cache)
  /\ session = [s \in Session |-> session[s]] /\ txn = [s \in Session |-> txn[s]]
  /\ \A s \in Session : SessionOK(session[s]) /\ TxnOK(txn[s], session[s])
  /\ Sound(View)
  /\ \A s \in Session : StepOK(View, session[s], s)
  /\ torn \/ Reloading \/ IndexOK(View, session, cache)
-----------------------------------------------------------------------------
(* Transactions keep the tables sound *)

\* Transaction u is the same in v and w.
Alike(v, w, u) ==
  /\ w.new[u] = v.new[u] /\ w.gone[u] = v.gone[u] /\ w.husk[u] = v.husk[u]
  /\ w.made[u] = v.made[u] /\ w.unmade[u] = v.unmade[u]

NoChanges(w, s) ==
  /\ w.new[s] = {} /\ w.gone[s] = {} /\ w.husk[s] = {} /\ w.made[s] = {} /\ w.unmade[s] = {}

\* Transaction s is committed, or aborted.
Published(v, w, s) ==
  /\ w.rows = (v.rows \ v.gone[s]) \cup v.new[s]
  /\ w.entries = (v.entries \ v.unmade[s]) \cup v.made[s]
  /\ NoChanges(w, s) /\ \A u \in Session \ {s} : Alike(v, w, u)

Discarded(v, w, s) ==
  /\ w.rows = v.rows /\ w.entries = v.entries
  /\ NoChanges(w, s) /\ \A u \in Session \ {s} : Alike(v, w, u)

\* The changes of one statement: create_table, record_table, delete_rows and
\* drop_table, where they succeed.
Made(v, w, s, i) ==
  /\ i \notin (v.entries \ v.unmade[s]) \cup v.made[s]
  /\ \A u \in Session \ {s} : i \notin v.made[u] \cup v.unmade[u] /\ Alike(v, w, u)
  /\ w.rows = v.rows /\ w.entries = v.entries
  /\ w.new[s] = v.new[s] /\ w.gone[s] = v.gone[s] /\ w.husk[s] = v.husk[s]
  /\ w.made[s] = v.made[s] \cup {i} /\ w.unmade[s] = v.unmade[s]

Recorded(v, w, s, row) ==
  /\ row.id \in v.made[s]
  /\ \A r \in (v.rows \ v.gone[s]) \cup v.new[s] : Differ(r, row)
  /\ \A u \in Session \ {s} : Alike(v, w, u) /\ \A r \in v.new[u] \cup v.husk[u] : Differ(r, row)
  /\ w.rows = v.rows /\ w.entries = v.entries
  /\ w.new[s] = v.new[s] \cup {row} /\ w.gone[s] = v.gone[s] /\ w.husk[s] = v.husk[s]
  /\ w.made[s] = v.made[s] /\ w.unmade[s] = v.unmade[s]

Doomed(v, s, i) == {r \in (v.rows \ v.gone[s]) \cup v.new[s] : r.id = i}

Deleted(v, w, s, i) ==
  /\ \A u \in Session \ {s} : Alike(v, w, u) /\ Doomed(v, s, i) \cap v.gone[u] = {}
  /\ w.rows = v.rows /\ w.entries = v.entries
  /\ w.new[s] = v.new[s] \ Doomed(v, s, i)
  /\ w.gone[s] = v.gone[s] \cup (Doomed(v, s, i) \ v.new[s])
  /\ w.husk[s] = v.husk[s] \cup (Doomed(v, s, i) \cap v.new[s])
  /\ w.made[s] = v.made[s] /\ w.unmade[s] = v.unmade[s]

Dropped(v, w, s, i) ==
  /\ Doomed(v, s, i) = {}
  /\ \A u \in Session \ {s} : i \notin v.made[u] \cup v.unmade[u] /\ Alike(v, w, u)
  /\ w.rows = v.rows /\ w.entries = v.entries
  /\ w.new[s] = v.new[s] /\ w.gone[s] = v.gone[s] /\ w.husk[s] = v.husk[s]
  /\ w.made[s] = v.made[s] \ {i} /\ w.unmade[s] = v.unmade[s] \cup {i}

\* What a committed transaction leaves is sound, for itself and for the others (commit).
LEMMA PublishedSound ==
  ASSUME NEW v, NEW w, NEW s \in Session, Sound(v), Published(v, w, s)
  PROVE  Sound(w)
  <1>1. \A u \in Session : OwnOK(v, u)
    BY DEF Sound
  <1>2. \A u \in Session \ {s} : Apart(v, s, u) /\ Apart(v, u, s)
    BY DEF Sound
  <1>3. \A r \in w.rows : r.id \in w.entries
    BY <1>1 DEF Published, OwnOK, Sound
  <1>4. \A r, q \in w.rows : r # q => Differ(r, q)
    BY <1>1 DEF Published, OwnOK, Sound, Differ
  <1>5. ASSUME NEW u \in Session PROVE OwnOK(w, u)
    <2>1. CASE u = s
      BY <2>1 DEF Published, NoChanges, OwnOK
    <2>2. CASE u # s
      <3>1. Alike(v, w, u) /\ Apart(v, s, u) /\ Apart(v, u, s) /\ OwnOK(v, u) /\ OwnOK(v, s)
        BY <1>1, <1>2, <2>2 DEF Published
      <3>2. w.gone[u] \subseteq w.rows
        BY <3>1 DEF Published, Alike, Apart, OwnOK
      <3>3. ASSUME NEW r \in w.rows \ w.gone[u]
            PROVE  r.id \notin w.made[u] \cup w.unmade[u] /\ \A q \in w.new[u] : Differ(r, q)
        <4>1. CASE r \in v.rows \ v.gone[s]
          BY <3>1, <4>1 DEF Published, Alike, OwnOK
        <4>2. CASE r \in v.new[s]
          BY <3>1, <4>2 DEF Published, Alike, OwnOK, Apart
        <4> QED
          BY <4>1, <4>2 DEF Published
      <3> QED
        BY <3>1, <3>2, <3>3 DEF OwnOK, Alike
    <2> QED
      BY <2>1, <2>2
  <1>6. \A u, z \in Session : u # z => Apart(w, u, z)
    BY <1>1 DEF Published, NoChanges, Sound, Apart, Alike
  <1> QED
    BY <1>3, <1>4, <1>5, <1>6 DEF Sound

\* So is what an aborted one leaves (abort).
LEMMA DiscardedSound ==
  ASSUME NEW v, NEW w, NEW s \in Session, Sound(v), Discarded(v, w, s)
  PROVE  Sound(w)
  <1>1. ASSUME NEW u \in Session PROVE OwnOK(w, u)
    <2>1. OwnOK(v, u)
      BY DEF Sound
    <2> QED
      BY <2>1 DEF Discarded, NoChanges, OwnOK, Alike
  <1>2. ASSUME NEW u \in Session, NEW z \in Session, u # z PROVE Apart(w, u, z)
    <2>1. Apart(v, u, z)
      BY <1>2 DEF Sound
    <2> QED
      BY <2>1 DEF Discarded, NoChanges, Apart, Alike
  <1> QED
    BY <1>1, <1>2 DEF Sound, Discarded

\* Storage under an id that nobody has (create_table).
LEMMA MadeSound ==
  ASSUME NEW v, NEW w, NEW s \in Session, NEW i, Sound(v), Made(v, w, s, i)
  PROVE  Sound(w)
  <1>1. ASSUME NEW u \in Session PROVE OwnOK(w, u)
    <2>1. OwnOK(v, u) /\ \A r \in v.rows : r.id \in v.entries
      BY DEF Sound
    <2>2. CASE u = s
      BY <2>1, <2>2 DEF Made, OwnOK
    <2>3. CASE u # s
      BY <2>1, <2>3 DEF Made, OwnOK, Alike
    <2> QED
      BY <2>2, <2>3
  <1>2. ASSUME NEW u \in Session, NEW z \in Session, u # z PROVE Apart(w, u, z)
    <2>1. Apart(v, u, z)
      BY <1>2 DEF Sound
    <2>2. CASE u = s
      BY <1>2, <2>1, <2>2 DEF Made, Apart, Alike
    <2>3. CASE z = s
      BY <1>2, <2>1, <2>3 DEF Made, Apart, Alike
    <2>4. CASE u # s /\ z # s
      BY <2>1, <2>4 DEF Made, Apart, Alike
    <2> QED
      BY <2>2, <2>3, <2>4
  <1> QED
    BY <1>1, <1>2 DEF Sound, Made

\* A row under an id and a name that nobody has (record_table).
LEMMA RecordedSound ==
  ASSUME NEW v, NEW w, NEW s \in Session, NEW row, Sound(v), Recorded(v, w, s, row)
  PROVE  Sound(w)
  <1>1. ASSUME NEW u \in Session PROVE OwnOK(w, u)
    <2>1. OwnOK(v, u)
      BY DEF Sound
    <2>2. CASE u = s
      BY <2>1, <2>2 DEF Recorded, OwnOK, Differ
    <2>3. CASE u # s
      BY <2>1, <2>3 DEF Recorded, OwnOK, Alike
    <2> QED
      BY <2>2, <2>3
  <1>2. ASSUME NEW u \in Session, NEW z \in Session, u # z PROVE Apart(w, u, z)
    <2>1. Apart(v, u, z)
      BY <1>2 DEF Sound
    <2>2. CASE u = s
      BY <1>2, <2>1, <2>2 DEF Recorded, Apart, Alike, Differ
    <2>3. CASE z = s
      BY <1>2, <2>1, <2>3 DEF Recorded, Apart, Alike, Differ
    <2>4. CASE u # s /\ z # s
      BY <2>1, <2>4 DEF Recorded, Apart, Alike
    <2> QED
      BY <2>2, <2>3, <2>4
  <1> QED
    BY <1>1, <1>2 DEF Sound, Recorded

\* The rows of one id deleted (delete_rows).
LEMMA DeletedSound ==
  ASSUME NEW v, NEW w, NEW s \in Session, NEW i, Sound(v), Deleted(v, w, s, i)
  PROVE  Sound(w)
  <1>1. ASSUME NEW u \in Session PROVE OwnOK(w, u)
    <2>1. OwnOK(v, u)
      BY DEF Sound
    <2>2. CASE u = s
      BY <2>1, <2>2 DEF Deleted, OwnOK, Doomed
    <2>3. CASE u # s
      BY <2>1, <2>3 DEF Deleted, OwnOK, Alike
    <2> QED
      BY <2>2, <2>3
  <1>2. ASSUME NEW u \in Session, NEW z \in Session, u # z PROVE Apart(w, u, z)
    <2>1. Apart(v, u, z)
      BY <1>2 DEF Sound
    <2>2. CASE u = s
      BY <1>2, <2>1, <2>2 DEF Deleted, Apart, Alike, Doomed
    <2>3. CASE z = s
      BY <1>2, <2>1, <2>3 DEF Deleted, Apart, Alike, Doomed
    <2>4. CASE u # s /\ z # s
      BY <2>1, <2>4 DEF Deleted, Apart, Alike
    <2> QED
      BY <2>2, <2>3, <2>4
  <1> QED
    BY <1>1, <1>2 DEF Sound, Deleted

\* Storage dropped that no row stands for any more (drop_table).
LEMMA DroppedSound ==
  ASSUME NEW v, NEW w, NEW s \in Session, NEW i, Sound(v), Dropped(v, w, s, i)
  PROVE  Sound(w)
  <1>1. ASSUME NEW u \in Session PROVE OwnOK(w, u)
    <2>1. OwnOK(v, u)
      BY DEF Sound
    <2>2. CASE u = s
      BY <2>1, <2>2 DEF Dropped, OwnOK, Doomed
    <2>3. CASE u # s
      BY <2>1, <2>3 DEF Dropped, OwnOK, Alike
    <2> QED
      BY <2>2, <2>3
  <1>2. ASSUME NEW u \in Session, NEW z \in Session, u # z PROVE Apart(w, u, z)
    <2>1. Apart(v, u, z)
      BY <1>2 DEF Sound
    <2>2. CASE u = s
      BY <1>2, <2>1, <2>2 DEF Dropped, Apart, Alike
    <2>3. CASE z = s
      BY <1>2, <2>1, <2>3 DEF Dropped, Apart, Alike
    <2>4. CASE u # s /\ z # s
      BY <2>1, <2>4 DEF Dropped, Apart, Alike
    <2> QED
      BY <2>2, <2>3, <2>4
  <1> QED
    BY <1>1, <1>2 DEF Sound, Dropped
-----------------------------------------------------------------------------
(* What a step of one session means for the others *)

\* The session is where it was; more may be stale.
SameStatement(x, y) ==
  /\ y.step = x.step /\ y.explicit = x.explicit /\ y.ddl = x.ddl /\ y.indexed = x.indexed
  /\ x.step \in {"storage", "record", "insert"} => y.row = x.row
  /\ x.step \in {"delete", "drop", "remove"} => y.id = x.id
  /\ x.stale \subseteq y.stale

\* Session u, which is at x and then at y, can go on as before.
Undisturbed(v, w, u, x, y) ==
  /\ Alike(v, w, u) /\ SameStatement(x, y)
  /\ x.step = "drop" /\ x.id \notin y.stale => \A r \in w.rows \ v.rows : r.id # x.id
  /\ \A r : x.step = "drop" /\ Removing(v, x, u, r) => Droppable(w, y, u, r.id)

\* A session that is undisturbed keeps what is known of its step.
LEMMA UndisturbedKeeps ==
  ASSUME NEW v, NEW w, NEW u, NEW x, NEW y, Undisturbed(v, w, u, x, y)
  PROVE  /\ StepOK(v, x, u) => StepOK(w, y, u)
         /\ \A r : Removing(v, x, u, r) => Removing(w, y, u, r)
         /\ \A r : Inserted(v, x, u, r) <=> Inserted(w, y, u, r)
  <1>1. ASSUME NEW r, Removing(v, x, u, r) PROVE Removing(w, y, u, r)
    BY <1>1 DEF Undisturbed, Removing, SameStatement, Alike
  <1>2. \A r : Inserted(v, x, u, r) <=> Inserted(w, y, u, r)
    BY DEF Undisturbed, Inserted, SameStatement, Alike
  <1>3. ASSUME StepOK(v, x, u) PROVE StepOK(w, y, u)
    <2>1. y.step = "record" => y.row.id \in w.made[u]
      BY <1>3 DEF StepOK, Undisturbed, SameStatement, Alike
    <2>2. y.step = "insert" => y.row \in w.new[u]
      BY <1>3 DEF StepOK, Undisturbed, SameStatement, Alike
    <2>3. ASSUME y.step = "drop", y.id \notin y.stale
          PROVE  \A r \in (w.rows \ w.gone[u]) \cup w.new[u] : r.id # y.id
      <3>1. x.step = "drop" /\ y.id = x.id /\ x.id \notin x.stale /\ x.id \notin y.stale
        BY <2>3 DEF Undisturbed, SameStatement
      <3>2. \A r \in (v.rows \ v.gone[u]) \cup v.new[u] : r.id # x.id
        BY <1>3, <3>1 DEF StepOK
      <3>3. \A r \in w.rows \ v.rows : r.id # x.id
        BY <3>1 DEF Undisturbed
      <3> QED
        BY <3>1, <3>2, <3>3 DEF Undisturbed, Alike
    <2>4. y.step = "remove" => y.id \in w.unmade[u] /\ y.id \notin w.made[u]
      BY <1>3 DEF StepOK, Undisturbed, SameStatement, Alike
    <2>5. ASSUME ~y.indexed
          PROVE  /\ \A r \in w.new[u] : y.step = "insert" /\ r = y.row
                 /\ \A r \in w.gone[u] : Removing(w, y, u, r)
      <3>1. ~x.indexed
        BY <2>5 DEF Undisturbed, SameStatement
      <3>2. /\ \A r \in v.new[u] : x.step = "insert" /\ r = x.row
            /\ \A r \in v.gone[u] : Removing(v, x, u, r)
        BY <1>3, <3>1 DEF StepOK
      <3> QED
        BY <1>1, <3>2 DEF Undisturbed, SameStatement, Alike
    <2>6. /\ y.explicit /\ ~y.ddl => y.step = "idle" /\ ~y.indexed
          /\ ~y.explicit /\ y.step \in {"idle", "reload", "swap"} => ~y.indexed
          /\ y.step \in {"reload", "swap"} => ~y.explicit
      BY <1>3 DEF StepOK, Undisturbed, SameStatement
    <2> QED
      BY <2>1, <2>2, <2>3, <2>4, <2>5, <2>6, Zenon DEF StepOK
  <1> QED
    BY <1>1, <1>2, <1>3

\* In drop_table, what s deleted is still there to be dropped.
LEMMA RemovingFacts ==
  ASSUME NEW v, NEW x, NEW s \in Session, NEW r, Sound(v), Removing(v, x, s, r), x.step = "drop"
  PROVE  /\ Droppable(v, x, s, r.id)
         /\ (r \in v.gone[s] /\ r \in v.rows) \/ r.id \in v.made[s]
         /\ \A u \in Session \ {s} : \A q \in v.gone[u] : q.id # r.id
  <1>1. Droppable(v, x, s, r.id) /\ (r \in v.gone[s] \/ r.id \in v.made[s])
    BY DEF Removing
  <1>2. OwnOK(v, s)
    BY DEF Sound
  <1>3. r \in v.gone[s] => r \in v.rows
    BY <1>2 DEF OwnOK
  <1>4. ASSUME NEW u \in Session \ {s}, NEW q \in v.gone[u] PROVE q.id # r.id
    <2>1. q \in v.rows /\ q \notin v.gone[s]
      BY DEF Sound, OwnOK, Apart
    <2>2. CASE r \in v.gone[s]
      BY <1>3, <2>1, <2>2 DEF Sound, Differ
    <2>3. CASE r.id \in v.made[s]
      BY <1>2, <2>1, <2>3 DEF OwnOK
    <2> QED
      BY <1>1, <2>2, <2>3
  <1> QED
    BY <1>1, <1>3, <1>4

\* A commit disturbs nobody: what it changed is stale to the others.
LEMMA PublishedLeaves ==
  ASSUME NEW v, NEW w, NEW s \in Session, Sound(v), Published(v, w, s),
         NEW u \in Session \ {s}, NEW x, NEW y, SameStatement(x, y),
         x.step = "drop" => y.stale = x.stale \cup (Ids(v.new[s] \cup v.gone[s]) \cup v.made[s] \cup v.unmade[s])
  PROVE  Undisturbed(v, w, u, x, y)
  <1>1. Alike(v, w, u)
    BY DEF Published
  <1>2. ASSUME x.step = "drop", x.id \notin y.stale, NEW r \in w.rows \ v.rows PROVE r.id # x.id
    <2>1. r \in v.new[s]
      BY DEF Published
    <2>2. r.id \in y.stale
      BY <1>2, <2>1 DEF Ids
    <2> QED
      BY <1>2, <2>2
  <1>3. ASSUME NEW r, x.step = "drop", Removing(v, x, u, r) PROVE Droppable(w, y, u, r.id)
    <2>1. /\ Droppable(v, x, u, r.id)
          /\ \A z \in Session \ {u} : \A q \in v.gone[z] : q.id # r.id
      BY <1>3, RemovingFacts
    <2>2. r.id \notin v.made[s] \cup v.unmade[s] /\ \A q \in v.gone[s] : q.id # r.id
      BY <2>1 DEF Droppable
    <2>3. \A q \in v.new[s] : q.id # r.id
      BY <2>2 DEF Sound, OwnOK
    <2>4. r.id \notin y.stale
      BY <1>3, <2>1, <2>2, <2>3 DEF Ids, Droppable
    <2>5. r.id \in (w.entries \ w.unmade[u]) \cup w.made[u]
      BY <1>1, <2>1, <2>2 DEF Droppable, Published, Alike
    <2>6. \A z \in Session \ {u} : r.id \notin w.made[z] \cup w.unmade[z]
      BY <2>1 DEF Droppable, Published, Alike, NoChanges
    <2> QED
      BY <2>4, <2>5, <2>6 DEF Droppable
  <1> QED
    BY <1>1, <1>2, <1>3 DEF Undisturbed

\* Nor does an abort, or what a statement changes in its own transaction.
LEMMA OthersUndisturbed ==
  ASSUME NEW v, NEW w, NEW s \in Session, Sound(v),
         \/ Discarded(v, w, s)
         \/ \E i : Made(v, w, s, i) \/ Recorded(v, w, s, i) \/ Deleted(v, w, s, i) \/ Dropped(v, w, s, i),
         NEW u \in Session \ {s}, NEW x
  PROVE  Undisturbed(v, w, u, x, x)
  <1>1. Alike(v, w, u) /\ w.rows = v.rows /\ w.entries = v.entries
    BY DEF Discarded, Made, Recorded, Deleted, Dropped
  <1>2. SameStatement(x, x)
    BY DEF SameStatement
  <1>3. ASSUME NEW r, x.step = "drop", Removing(v, x, u, r) PROVE Droppable(w, x, u, r.id)
    <2>1. /\ Droppable(v, x, u, r.id)
          /\ (r \in v.gone[u] /\ r \in v.rows) \/ r.id \in v.made[u]
      BY <1>3, RemovingFacts
    <2>2. r.id \notin x.stale /\ r.id \in (w.entries \ w.unmade[u]) \cup w.made[u]
      BY <1>1, <2>1 DEF Droppable, Alike
    <2>3. r.id \notin w.made[s] \cup w.unmade[s]
      <3>0. r.id \notin v.made[s] \cup v.unmade[s]
        BY <2>1 DEF Droppable
      <3>1. CASE Discarded(v, w, s)
        BY <3>1 DEF Discarded, NoChanges
      <3>2. ASSUME NEW i, Made(v, w, s, i) PROVE r.id \notin w.made[s] \cup w.unmade[s]
        <4>1. r.id \in v.entries \cup v.made[u]
          BY <2>1 DEF Droppable
        <4>2. r.id # i
          BY <3>0, <3>2, <4>1 DEF Made
        <4> QED
          BY <3>0, <3>2, <4>2 DEF Made
      <3>3. ASSUME NEW i, Recorded(v, w, s, i) PROVE r.id \notin w.made[s] \cup w.unmade[s]
        BY <3>0, <3>3 DEF Recorded
      <3>4. ASSUME NEW i, Deleted(v, w, s, i) PROVE r.id \notin w.made[s] \cup w.unmade[s]
        BY <3>0, <3>4 DEF Deleted
      <3>5. ASSUME NEW i, Dropped(v, w, s, i) PROVE r.id \notin w.made[s] \cup w.unmade[s]
        <4>1. r.id # i
          <5>1. CASE r \in v.gone[u] /\ r \in v.rows
            <6>1. r \notin v.gone[s]
              BY <5>1 DEF Sound, Apart
            <6> QED
              BY <3>5, <5>1, <6>1 DEF Dropped, Doomed
          <5>2. CASE r.id \in v.made[u]
            BY <3>5, <5>2 DEF Dropped
          <5> QED
            BY <2>1, <5>1, <5>2
        <4> QED
          BY <3>0, <3>5, <4>1 DEF Dropped
      <3> QED
        BY <3>1, <3>2, <3>3, <3>4, <3>5
    <2>4. ASSUME NEW z \in Session \ {u} PROVE r.id \notin w.made[z] \cup w.unmade[z]
      <3>1. CASE z = s
        BY <2>3, <3>1
      <3>2. CASE z # s
        <4>1. Alike(v, w, z)
          BY <3>2 DEF Discarded, Made, Recorded, Deleted, Dropped
        <4> QED
          BY <2>1, <4>1 DEF Droppable, Alike
      <3> QED
        BY <3>1, <3>2
    <2> QED
      BY <2>2, <2>4 DEF Droppable
  <1> QED
    BY <1>1, <1>2, <1>3 DEF Undisturbed
-----------------------------------------------------------------------------
(* The index, while it does not change *)

\* The index stays right if it should have no more rows than before, and the ones it
\* should no longer have are being removed.
LEMMA IndexKept ==
  ASSUME NEW v, NEW w, NEW ses, NEW tes, NEW c, IndexOK(v, ses, c),
         Listed(w, tes) \subseteq Listed(v, ses),
         \A r \in Listed(v, ses) : r \in Listed(w, tes) \/ \E s \in Session : Removing(w, tes[s], s, r),
         \A s \in Session : \A r : Removing(v, ses[s], s, r) =>
           \E u \in Session : Removing(w, tes[u], u, r)
  PROVE  IndexOK(w, tes, c)
  <1>1. \A r \in Listed(w, tes) : r.id \in DOMAIN c.by_id /\ c.by_id[r.id] = r.name
    BY DEF IndexOK
  <1>2. ASSUME NEW i \in DOMAIN c.by_id
        PROVE  \E r \in Row :
                 /\ r.id = i /\ r.name = c.by_id[i]
                 /\ r \in Listed(w, tes) \/ \E s \in Session : Removing(w, tes[s], s, r)
    <2>1. PICK r \in Row :
            /\ r.id = i /\ r.name = c.by_id[i]
            /\ r \in Listed(v, ses) \/ \E s \in Session : Removing(v, ses[s], s, r)
      BY DEF IndexOK
    <2>2. r \in Listed(w, tes) \/ \E s \in Session : Removing(w, tes[s], s, r)
      BY <2>1
    <2> QED
      BY <2>1, <2>2
  <1> QED
    BY <1>1, <1>2 DEF IndexOK

\* Everybody else can go on, and s changes nothing that concerns the index.
LEMMA IndexQuiet ==
  ASSUME NEW v, NEW w, NEW ses, NEW tes, NEW c, NEW s \in Session, IndexOK(v, ses, c),
         \A u \in Session \ {s} : Undisturbed(v, w, u, ses[u], tes[u]),
         w.rows = v.rows, w.gone[s] = v.gone[s],
         \A r : Inserted(v, ses[s], s, r) <=> Inserted(w, tes[s], s, r),
         \A r : Removing(v, ses[s], s, r) => Removing(w, tes[s], s, r)
  PROVE  IndexOK(w, tes, c)
  <1>1. \A u \in Session : \A r : Inserted(v, ses[u], u, r) <=> Inserted(w, tes[u], u, r)
    BY UndisturbedKeeps
  <1>2. \A u \in Session : \A r : Removing(v, ses[u], u, r) => Removing(w, tes[u], u, r)
    BY UndisturbedKeeps
  <1>3. \A u \in Session : w.gone[u] = v.gone[u]
    BY DEF Undisturbed, Alike
  <1>4. Listed(w, tes) = Listed(v, ses)
    BY <1>1, <1>3 DEF Listed
  <1> QED
    BY <1>2, <1>4, IndexKept

\* A commit takes the rows of a transaction over: they are in the index already.
LEMMA IndexPublished ==
  ASSUME NEW v, NEW w, NEW ses, NEW tes, NEW c, NEW s \in Session, Sound(v), IndexOK(v, ses, c),
         v.rows \subseteq Row, v.new[s] \subseteq Row, Published(v, w, s),
         \A u \in Session \ {s} : Undisturbed(v, w, u, ses[u], tes[u]),
         ses[s].step \notin {"insert", "drop", "remove"}
  PROVE  IndexOK(w, tes, c)
  <1>1. /\ \A u \in Session \ {s} : \A r : Inserted(v, ses[u], u, r) <=> Inserted(w, tes[u], u, r)
        /\ \A u \in Session \ {s} : \A r : Removing(v, ses[u], u, r) => Removing(w, tes[u], u, r)
    BY UndisturbedKeeps
  <1>2. \A r : ~Removing(v, ses[s], s, r)
    BY DEF Removing
  <1>3. \A r : /\ Inserted(v, ses[s], s, r) <=> r \in v.new[s]
               /\ ~Inserted(w, tes[s], s, r)
    BY DEF Inserted, Published, NoChanges
  <1>4. \A u \in Session \ {s} : w.gone[u] = v.gone[u] /\ v.new[s] \cap v.gone[u] = {}
    <2> SUFFICES ASSUME NEW u \in Session \ {s}
                 PROVE  w.gone[u] = v.gone[u] /\ v.new[s] \cap v.gone[u] = {}
      OBVIOUS
    <2>1. Apart(v, s, u) /\ OwnOK(v, u) /\ OwnOK(v, s)
      BY DEF Sound
    <2>2. \A r \in v.gone[u] : r \in v.rows \ v.gone[s]
      BY <2>1 DEF Apart, OwnOK
    <2>3. v.new[s] \cap v.gone[u] = {}
      BY <2>1, <2>2 DEF OwnOK, Differ
    <2> QED
      BY <2>3 DEF Published, Alike
  <1>5. w.gone[s] = {} /\ w.rows = (v.rows \ v.gone[s]) \cup v.new[s]
    BY DEF Published, NoChanges
  <1>6. ASSUME NEW r \in Row
        PROVE  r \in Listed(w, tes) <=> r \in Listed(v, ses)
    <2>1. CASE \E u \in Session \ {s} : Inserted(v, ses[u], u, r)
      BY <1>1, <2>1 DEF Listed
    <2>2. CASE ~\E u \in Session \ {s} : Inserted(v, ses[u], u, r)
      <3>1. r \in Listed(w, tes) <=> r \in w.rows /\ \A u \in Session : r \notin w.gone[u]
        BY <1>1, <1>3, <2>2 DEF Listed
      <3>2. r \in Listed(v, ses) <=> (r \in v.rows /\ \A u \in Session : r \notin v.gone[u]) \/ r \in v.new[s]
        BY <1>3, <2>2 DEF Listed
      <3> QED
        BY <1>4, <1>5, <3>1, <3>2
    <2> QED
      BY <2>1, <2>2
  <1>7. Listed(w, tes) = Listed(v, ses)
    BY <1>6 DEF Listed
  <1>8. \A u \in Session : \A r : Removing(v, ses[u], u, r) => \E z \in Session : Removing(w, tes[z], z, r)
    BY <1>1, <1>2
  <1> QED
    BY <1>7, <1>8, IndexKept

\* The rows that delete_rows marked can be dropped.
LEMMA DeletedRemoving ==
  ASSUME NEW v, NEW w, NEW s \in Session, NEW i, NEW y, Sound(v), Deleted(v, w, s, i),
         i \notin y.stale, y.step = "drop", y.id = i, NEW r \in Doomed(v, s, i)
  PROVE  Removing(w, y, s, r)
  <1>1. r.id = i /\ r \in (v.rows \ v.gone[s]) \cup v.new[s] /\ OwnOK(v, s)
    BY DEF Doomed, Sound
  <1>2. r \in w.gone[s] \cup w.husk[s]
    BY DEF Deleted
  <1>3. r \notin w.gone[s] => r.id \in w.made[s]
    BY <1>1 DEF Deleted, OwnOK
  <1>4. r.id \in (w.entries \ w.unmade[s]) \cup w.made[s]
    BY <1>1 DEF Deleted, OwnOK, Sound
  <1>5. ASSUME NEW u \in Session \ {s} PROVE r.id \notin w.made[u] \cup w.unmade[u]
    <2>1. w.made[u] = v.made[u] /\ w.unmade[u] = v.unmade[u] /\ r \notin v.gone[u]
      BY DEF Deleted, Alike
    <2>2. OwnOK(v, u) /\ Apart(v, s, u)
      BY DEF Sound
    <2>3. CASE r \in v.rows \ v.gone[s]
      BY <2>1, <2>2, <2>3 DEF OwnOK
    <2>4. CASE r \in v.new[s]
      BY <1>1, <2>1, <2>2, <2>4 DEF OwnOK, Apart
    <2> QED
      BY <1>1, <2>3, <2>4
  <1>6. Droppable(w, y, s, r.id)
    BY <1>1, <1>4, <1>5 DEF Droppable
  <1> QED
    BY <1>1, <1>2, <1>3, <1>6 DEF Removing

\* Deleted rows leave the catalog; they are in the index until they are removed.
LEMMA IndexDeleted ==
  ASSUME NEW v, NEW w, NEW ses, NEW tes, NEW c, NEW s \in Session, NEW i, Sound(v), IndexOK(v, ses, c),
         Deleted(v, w, s, i), i \notin tes[s].stale,
         \A u \in Session \ {s} : Undisturbed(v, w, u, ses[u], tes[u]),
         ses[s].step \notin {"insert", "drop", "remove"}, tes[s].step = "drop", tes[s].id = i
  PROVE  /\ IndexOK(w, tes, c)
  <1>1. /\ \A u \in Session \ {s} : \A r : Inserted(v, ses[u], u, r) <=> Inserted(w, tes[u], u, r)
        /\ \A u \in Session \ {s} : \A r : Removing(v, ses[u], u, r) => Removing(w, tes[u], u, r)
    BY UndisturbedKeeps
  <1>2. \A r : ~Removing(v, ses[s], s, r)
    BY DEF Removing
  <1>3. \A r : /\ Inserted(v, ses[s], s, r) <=> r \in v.new[s]
               /\ Inserted(w, tes[s], s, r) <=> r \in w.new[s]
    BY DEF Inserted
  <1>4. \A u \in Session \ {s} : w.gone[u] = v.gone[u]
    BY DEF Deleted, Alike
  <1>5. /\ w.rows = v.rows /\ w.new[s] \subseteq v.new[s] /\ v.gone[s] \subseteq w.gone[s]
    BY DEF Deleted
  <1>6. Listed(w, tes) \subseteq Listed(v, ses)
    BY <1>1, <1>3, <1>4, <1>5 DEF Listed
  <1>7. ASSUME NEW r \in Doomed(v, s, i) PROVE Removing(w, tes[s], s, r)
    BY DeletedRemoving
  <1>8. ASSUME NEW r \in Listed(v, ses)
        PROVE  r \in Listed(w, tes) \/ \E u \in Session : Removing(w, tes[u], u, r)
    <2>1. CASE r \in Doomed(v, s, i)
      BY <1>7, <2>1
    <2>2. CASE r \notin Doomed(v, s, i)
      <3>1. (r \in w.gone[s] => r \in v.gone[s]) /\ (r \in v.new[s] => r \in w.new[s])
        BY <2>2 DEF Deleted
      <3> QED
        BY <1>1, <1>3, <1>4, <1>5, <3>1 DEF Listed
    <2> QED
      BY <2>1, <2>2
  <1>9. \A u \in Session : \A r : Removing(v, ses[u], u, r) => \E z \in Session : Removing(w, tes[z], z, r)
    BY <1>1, <1>2
  <1> QED
    BY <1>6, <1>8, <1>9, IndexKept
-----------------------------------------------------------------------------
(* The index, when it changes *)

\* insert_table puts the row there that the statement has recorded.
LEMMA IndexInserted ==
  ASSUME NEW v, NEW ses, NEW tes, NEW c, NEW s \in Session, Sound(v), IndexOK(v, ses, c),
         ses[s].step = "insert", NEW row \in Row, row = ses[s].row, row \in v.new[s],
         tes[s].step \notin {"insert", "drop", "remove"}, \A u \in Session \ {s} : tes[u] = ses[u],
         NEW d, d.by_name = With(c.by_name, row.name, row.id), d.by_id = With(c.by_id, row.id, row.name)
  PROVE  IndexOK(v, tes, d)
  <1>1. \A r : Inserted(v, tes[s], s, r) <=> r \in v.new[s]
    BY DEF Inserted
  <1>2. \A r : Inserted(v, ses[s], s, r) <=> r \in v.new[s] /\ r # row
    BY DEF Inserted
  <1>3. (\A r : ~Removing(v, ses[s], s, r)) /\ (\A r : ~Removing(v, tes[s], s, r))
    BY DEF Removing
  <1>4. Listed(v, tes) = Listed(v, ses) \cup {row}
    BY <1>1, <1>2 DEF Listed
  <1>5. ASSUME NEW r, r \in Listed(v, ses) \/ \E u \in Session : Removing(v, ses[u], u, r)
        PROVE  Differ(r, row)
    <2>0. OwnOK(v, s) /\ \A u \in Session \ {s} : Apart(v, s, u) /\ OwnOK(v, u)
      BY DEF Sound
    <2>1. CASE r \in v.rows /\ r \notin v.gone[s]
      BY <2>0, <2>1 DEF OwnOK
    <2>2. CASE \E u \in Session : Inserted(v, ses[u], u, r)
      <3>1. PICK u \in Session : Inserted(v, ses[u], u, r)
        BY <2>2
      <3>2. CASE u = s
        BY <1>2, <2>0, <3>1, <3>2 DEF OwnOK
      <3>3. CASE u # s
        BY <2>0, <3>1, <3>3 DEF Apart, Inserted, Differ
      <3> QED
        BY <3>2, <3>3
    <2>3. CASE \E u \in Session : Removing(v, ses[u], u, r)
      <3>1. PICK u \in Session : Removing(v, ses[u], u, r)
        BY <2>3
      <3>2. u # s /\ r \in v.gone[u] \cup v.husk[u]
        BY <1>3, <3>1 DEF Removing
      <3>3. CASE r \in v.gone[u]
        BY <2>0, <3>2, <3>3 DEF OwnOK, Apart
      <3>4. CASE r \in v.husk[u]
        BY <2>0, <3>2, <3>4 DEF Apart, Differ
      <3> QED
        BY <3>2, <3>3, <3>4
    <2> QED
      BY <1>5, <2>1, <2>2, <2>3 DEF Listed
  <1>6. ASSUME NEW i \in DOMAIN c.by_id PROVE i # row.id /\ c.by_id[i] # row.name
    <2>1. PICK r \in Row :
            /\ r.id = i /\ r.name = c.by_id[i]
            /\ r \in Listed(v, ses) \/ \E u \in Session : Removing(v, ses[u], u, r)
      BY DEF IndexOK
    <2>2. Differ(r, row)
      BY <1>5, <2>1
    <2> QED
      BY <2>1, <2>2 DEF Differ
  <1>7. Inverse(c)
    BY DEF IndexOK
  <1>8. /\ DOMAIN d.by_id = DOMAIN c.by_id \cup {row.id} /\ d.by_id[row.id] = row.name
        /\ DOMAIN d.by_name = DOMAIN c.by_name \cup {row.name} /\ d.by_name[row.name] = row.id
        /\ \A i \in DOMAIN c.by_id : i # row.id => d.by_id[i] = c.by_id[i]
        /\ \A n \in DOMAIN c.by_name : n # row.name => d.by_name[n] = c.by_name[n]
    BY DEF With
  <1>9. Inverse(d)
    <2>1. ASSUME NEW n \in DOMAIN d.by_name
          PROVE  d.by_name[n] \in DOMAIN d.by_id /\ d.by_id[d.by_name[n]] = n
      <3>1. CASE n = row.name
        BY <1>8, <3>1
      <3>2. CASE n # row.name
        <4>1. n \in DOMAIN c.by_name /\ d.by_name[n] = c.by_name[n]
          BY <1>8, <3>2
        <4>2. c.by_name[n] \in DOMAIN c.by_id /\ c.by_id[c.by_name[n]] = n
          BY <1>7, <4>1 DEF Inverse
        <4>3. c.by_name[n] # row.id
          BY <1>6, <4>2
        <4> QED
          BY <1>8, <4>1, <4>2, <4>3
      <3> QED
        BY <3>1, <3>2
    <2>2. ASSUME NEW i \in DOMAIN d.by_id
          PROVE  d.by_id[i] \in DOMAIN d.by_name /\ d.by_name[d.by_id[i]] = i
      <3>1. CASE i = row.id
        BY <1>8, <3>1
      <3>2. CASE i # row.id
        <4>1. i \in DOMAIN c.by_id /\ d.by_id[i] = c.by_id[i] /\ c.by_id[i] # row.name
          BY <1>6, <1>8, <3>2
        <4>2. c.by_id[i] \in DOMAIN c.by_name /\ c.by_name[c.by_id[i]] = i
          BY <1>7, <4>1 DEF Inverse
        <4> QED
          BY <1>8, <4>1, <4>2
      <3> QED
        BY <3>1, <3>2
    <2> QED
      BY <2>1, <2>2 DEF Inverse
  <1>10. ASSUME NEW r \in Listed(v, tes) PROVE r.id \in DOMAIN d.by_id /\ d.by_id[r.id] = r.name
    <2>1. CASE r = row
      BY <1>8, <2>1
    <2>2. CASE r \in Listed(v, ses)
      <3>1. r.id \in DOMAIN c.by_id /\ c.by_id[r.id] = r.name
        BY <2>2 DEF IndexOK
      <3> QED
        BY <1>6, <1>8, <3>1
    <2> QED
      BY <1>4, <2>1, <2>2
  <1>11. ASSUME NEW i \in DOMAIN d.by_id
         PROVE  \E r \in Row :
                  /\ r.id = i /\ r.name = d.by_id[i]
                  /\ r \in Listed(v, tes) \/ \E u \in Session : Removing(v, tes[u], u, r)
    <2>1. CASE i = row.id
      BY <1>4, <1>8, <2>1
    <2>2. CASE i # row.id
      <3>1. i \in DOMAIN c.by_id /\ d.by_id[i] = c.by_id[i]
        BY <1>8, <2>2
      <3>2. PICK r \in Row :
              /\ r.id = i /\ r.name = c.by_id[i]
              /\ r \in Listed(v, ses) \/ \E u \in Session : Removing(v, ses[u], u, r)
        BY <3>1 DEF IndexOK
      <3>3. r \in Listed(v, tes) \/ \E u \in Session : Removing(v, tes[u], u, r)
        <4>1. CASE r \in Listed(v, ses)
          BY <1>4, <4>1
        <4>2. CASE \E u \in Session : Removing(v, ses[u], u, r)
          BY <1>3, <4>2
        <4> QED
          BY <3>2, <4>1, <4>2
      <3> QED
        BY <3>1, <3>2, <3>3
    <2> QED
      BY <2>1, <2>2
  <1> QED
    BY <1>9, <1>10, <1>11 DEF IndexOK

\* remove_table removes the rows that the statement has deleted, and no other.
LEMMA IndexRemoved ==
  ASSUME NEW v, NEW ses, NEW tes, NEW c, NEW s \in Session, Sound(v), IndexOK(v, ses, c),
         ses[s].step = "remove", NEW i, i = ses[s].id, i \in v.unmade[s], i \notin v.made[s],
         tes[s].step \notin {"insert", "drop", "remove"}, \A u \in Session \ {s} : tes[u] = ses[u],
         NEW d,
         i \notin DOMAIN c.by_id => d = c,
         i \in DOMAIN c.by_id =>
           d.by_name = Without(c.by_name, c.by_id[i]) /\ d.by_id = Without(c.by_id, i)
  PROVE  IndexOK(v, tes, d)
  <1>1. \A u \in Session : \A r : Inserted(v, tes[u], u, r) <=> Inserted(v, ses[u], u, r)
    BY DEF Inserted
  <1>2. Listed(v, tes) = Listed(v, ses)
    BY <1>1 DEF Listed
  <1>3. \A r : Removing(v, ses[s], s, r) => r.id = i
    BY DEF Removing
  <1>4. ASSUME NEW r \in Listed(v, ses) PROVE r.id # i
    <2>0. OwnOK(v, s) /\ \A u \in Session \ {s} : Apart(v, s, u) /\ OwnOK(v, u)
      BY DEF Sound
    <2>1. CASE r \in v.rows /\ r \notin v.gone[s]
      BY <2>0, <2>1 DEF OwnOK
    <2>2. CASE \E u \in Session : Inserted(v, ses[u], u, r)
      <3>1. PICK u \in Session : r \in v.new[u]
        BY <2>2 DEF Inserted
      <3>2. r.id \in v.made[u]
        BY <2>0, <3>1 DEF OwnOK
      <3> QED
        BY <2>0, <3>2 DEF Apart
    <2> QED
      BY <2>1, <2>2 DEF Listed
  <1>5. ASSUME NEW j \in DOMAIN c.by_id, j # i
        PROVE  \E r \in Row :
                 /\ r.id = j /\ r.name = c.by_id[j]
                 /\ r \in Listed(v, tes) \/ \E u \in Session : Removing(v, tes[u], u, r)
    <2>1. PICK r \in Row :
            /\ r.id = j /\ r.name = c.by_id[j]
            /\ r \in Listed(v, ses) \/ \E u \in Session : Removing(v, ses[u], u, r)
      BY DEF IndexOK
    <2>2. ASSUME NEW u \in Session, Removing(v, ses[u], u, r) PROVE Removing(v, tes[u], u, r)
      BY <1>3, <1>5, <2>1, <2>2
    <2> QED
      BY <1>2, <2>1, <2>2
  <1>6. CASE i \notin DOMAIN c.by_id
    BY <1>2, <1>5, <1>6 DEF IndexOK
  <1>7. CASE i \in DOMAIN c.by_id
    <2>1. Inverse(c)
      BY DEF IndexOK
    <2>2. PICK n : n = c.by_id[i]
      OBVIOUS
    <2>3. /\ DOMAIN d.by_id = DOMAIN c.by_id \ {i} /\ \A j \in DOMAIN d.by_id : d.by_id[j] = c.by_id[j]
          /\ DOMAIN d.by_name = DOMAIN c.by_name \ {n} /\ \A m \in DOMAIN d.by_name : d.by_name[m] = c.by_name[m]
      BY <1>7, <2>2 DEF Without
    <2>4. n \in DOMAIN c.by_name /\ c.by_name[n] = i
      BY <1>7, <2>1, <2>2 DEF Inverse
    <2>5. Inverse(d)
      BY <2>1, <2>2, <2>3, <2>4 DEF Inverse
    <2>6. \A r \in Listed(v, tes) : r.id \in DOMAIN d.by_id /\ d.by_id[r.id] = r.name
      BY <1>2, <1>4, <2>3 DEF IndexOK
    <2> QED
      BY <1>5, <2>3, <2>5, <2>6 DEF IndexOK
  <1> QED
    BY <1>6, <1>7

\* A non-empty set of ids has a greatest one.
LEMMA Greatest ==
  ASSUME NEW S, S \subseteq TableId, S # {}
  PROVE  \E i \in S : \A j \in S : j <= i
  <1>1. PICK R : R = OpToRel(<, Nat) /\ IsWellFoundedOn(R, Nat)
    BY NatLessThanWellFounded
  <1>2. \A x, y \in Nat : <<x, y>> \in R <=> x < y
    BY <1>1 DEF OpToRel
  <1>3. PICK T : T = {k \in Nat : MaxId - k \in S}
    OBVIOUS
  <1>4. T \subseteq Nat /\ T # {}
    <2>1. PICK i \in S : i \in 1 .. MaxId
      BY DEF TableId
    <2>2. MaxId - i \in Nat /\ MaxId - (MaxId - i) = i
      BY <2>1, CatalogAssumption
    <2>3. MaxId - i \in T
      BY <1>3, <2>1, <2>2
    <2> QED
      BY <1>3, <2>3
  <1>5. PICK m \in T : \A y \in T : ~(<<y, m>> \in R)
    BY <1>1, <1>4, WFMin
  <1>6. m \in Nat /\ MaxId - m \in S
    BY <1>3, <1>5
  <1>7. ASSUME NEW j \in S PROVE j <= MaxId - m
    <2>1. j \in 1 .. MaxId
      BY DEF TableId
    <2>2. MaxId - j \in Nat /\ MaxId - (MaxId - j) = j
      BY <2>1, CatalogAssumption
    <2>3. MaxId - j \in T
      BY <1>3, <2>2
    <2>4. ~(MaxId - j < m)
      BY <1>2, <1>5, <1>6, <2>2, <2>3
    <2> QED
      BY <1>6, <2>1, <2>2, <2>4, CatalogAssumption
  <1> QED
    BY <1>6, <1>7

\* The index rebuilt from rows of which no two share an id or a name.
LEMMA RebuiltIs ==
  ASSUME NEW R, R \subseteq Row, \A r, q \in R : r # q => Differ(r, q), NEW c, c = Rebuilt(R)
  PROVE  /\ CacheOK(c) /\ Inverse(c)
         /\ DOMAIN c.by_id = Ids(R) /\ \A r \in R : c.by_id[r.id] = r.name
         /\ DOMAIN c.by_name = {r.name : r \in R} /\ \A r \in R : c.by_name[r.name] = r.id
  <1>a. PICK f : f = [n \in {r.name : r \in R} |-> (CHOOSE r \in R : r.name = n).id]
    OBVIOUS
  <1>b. PICK g : g = [i \in Ids(R) |-> (CHOOSE r \in R : r.id = i).name]
    OBVIOUS
  <1>c. PICK h : h = IF R = {} THEN 0 ELSE CHOOSE i \in Ids(R) : \A j \in Ids(R) : j <= i
    OBVIOUS
  <1>d. PICK k : k = 1 + h
    BY Zenon
  <1>2. c = [by_name |-> f, by_id |-> g, next_id |-> k]
    BY <1>a, <1>b, <1>c, <1>d DEF Rebuilt
  <1>3. c.by_name = f /\ c.by_id = g /\ c.next_id = k
    BY <1>2
  <1>4. ASSUME NEW r \in R PROVE f[r.name] = r.id /\ g[r.id] = r.name
    <2>1. PICK q : q = CHOOSE t \in R : t.name = r.name
      OBVIOUS
    <2>2. q \in R /\ q.name = r.name
      BY <2>1, Zenon
    <2>3. PICK p : p = CHOOSE t \in R : t.id = r.id
      OBVIOUS
    <2>4. p \in R /\ p.id = r.id
      BY <2>3, Zenon
    <2>5. q = r /\ p = r
      BY <2>2, <2>4 DEF Differ
    <2>6. r.name \in {t.name : t \in R} /\ r.id \in Ids(R)
      BY DEF Ids
    <2>7. f[r.name] = q.id /\ g[r.id] = p.name
      BY <1>a, <1>b, <1>c, <1>d, <2>1, <2>3, <2>6
    <2> QED
      BY <2>5, <2>7
  <1>5. DOMAIN f = {r.name : r \in R} /\ DOMAIN g = Ids(R)
    BY <1>a, <1>b
  <1>6. \A r \in R : r.id \in TableId /\ r.name \in Name
    BY DEF Row
  <1>7. k \in 1 .. MaxId + 1
    <2>1. CASE R = {}
      BY <1>a, <1>b, <1>c, <1>d, <2>1, CatalogAssumption
    <2>2. CASE R # {}
      <3>1. PICK S : S = Ids(R)
        OBVIOUS
      <3>2. S \subseteq TableId /\ S # {}
        BY <1>6, <2>2, <3>1 DEF Ids
      <3>3. PICK m : m = CHOOSE i \in S : \A j \in S : j <= i
        OBVIOUS
      <3>4. m \in S
        <4>1. \E i \in S : \A j \in S : j <= i
          BY <3>2, Greatest
        <4> QED
          BY <3>3, <4>1, Zenon
      <3>5. k = 1 + m /\ m \in 1 .. MaxId
        BY <1>a, <1>b, <1>c, <1>d, <2>2, <3>1, <3>2, <3>3, <3>4 DEF TableId
      <3> QED
        BY <3>5, CatalogAssumption
    <2> QED
      BY <2>1, <2>2
  <1>8. f \in [DOMAIN f -> TableId] /\ g \in [DOMAIN g -> Name]
    BY <1>a, <1>b, <1>c, <1>d, <1>4, <1>5, <1>6 DEF Ids
  <1>9. DOMAIN f \subseteq Name /\ DOMAIN g \subseteq TableId
    BY <1>5, <1>6 DEF Ids
  <1>10. CacheOK(c)
    BY <1>2, <1>3, <1>7, <1>8, <1>9 DEF CacheOK
  <1>11. Inverse(c)
    BY <1>3, <1>4, <1>5 DEF Inverse, Ids
  <1> QED
    BY <1>3, <1>4, <1>5, <1>10, <1>11

\* After a reload, sessions that have not changed the index yet are no trouble.
LEMMA IndexRebuilt ==
  ASSUME NEW v, NEW tes, NEW c, Sound(v), v.rows \subseteq Row, c = Rebuilt(v.rows),
         \A s \in Session : \A r : ~Inserted(v, tes[s], s, r),
         \A s \in Session : \A r \in v.gone[s] : Removing(v, tes[s], s, r)
  PROVE  IndexOK(v, tes, c)
  <1>1. \A r, q \in v.rows : r # q => Differ(r, q)
    BY DEF Sound
  <1>2. /\ Inverse(c)
        /\ DOMAIN c.by_id = Ids(v.rows) /\ \A r \in v.rows : c.by_id[r.id] = r.name
    BY <1>1, RebuiltIs
  <1>3. \A r \in Listed(v, tes) : r.id \in DOMAIN c.by_id /\ c.by_id[r.id] = r.name
    BY <1>2 DEF Listed, Ids
  <1>4. ASSUME NEW i \in DOMAIN c.by_id
        PROVE  \E r \in Row :
                 /\ r.id = i /\ r.name = c.by_id[i]
                 /\ r \in Listed(v, tes) \/ \E s \in Session : Removing(v, tes[s], s, r)
    <2>1. PICK r \in v.rows : r.id = i
      BY <1>2 DEF Ids
    <2>2. r \in Row /\ r.name = c.by_id[i]
      BY <1>2, <2>1
    <2>3. r \in Listed(v, tes) \/ \E s \in Session : Removing(v, tes[s], s, r)
      BY <2>1, <2>2 DEF Listed
    <2> QED
      BY <2>1, <2>2, <2>3
  <1> QED
    BY <1>2, <1>3, <1>4 DEF IndexOK
-----------------------------------------------------------------------------
(* Actions *)

\* The fields of the view.
LEMMA ViewFields ==
  ASSUME NEW s \in Session
  PROVE  /\ View.rows = rows /\ View.entries = entries
         /\ ~txn[s].open => NoChanges(View, s)
         /\ txn[s].open => /\ View.new[s] = txn[s].new /\ View.gone[s] = txn[s].gone
                           /\ View.husk[s] = txn[s].husk
                           /\ View.made[s] = txn[s].made /\ View.unmade[s] = txn[s].unmade
  BY DEF View, ViewOf, NoChanges

\* The same after a step.
LEMMA NextViewFields ==
  ASSUME NEW s \in Session
  PROVE  /\ View'.rows = rows' /\ View'.entries = entries'
         /\ ~txn'[s].open => NoChanges(View', s)
         /\ txn'[s].open => /\ View'.new[s] = txn'[s].new /\ View'.gone[s] = txn'[s].gone
                            /\ View'.husk[s] = txn'[s].husk
                            /\ View'.made[s] = txn'[s].made /\ View'.unmade[s] = txn'[s].unmade
  BY DEF View, ViewOf, NoChanges

\* A step that changes the transaction of s only.
LEMMA ChangedView ==
  ASSUME CatInv, NEW s \in Session, NEW t, txn' = [txn EXCEPT ![s] = t]
  PROVE  /\ txn'[s] = t /\ txn' = [u \in Session |-> txn'[u]]
         /\ \A u \in Session \ {s} : txn'[u] = txn[u] /\ Alike(View, View', u)
  <1>1. /\ txn'[s] = t /\ txn' = [u \in Session |-> txn'[u]]
        /\ \A u \in Session \ {s} : txn'[u] = txn[u]
    BY DEF CatInv
  <1>2. ASSUME NEW u \in Session \ {s} PROVE Alike(View, View', u)
    <2>1. txn'[u] = txn[u]
      BY <1>1
    <2> QED
      BY <2>1 DEF View, ViewOf, Alike
  <1> QED
    BY <1>1, <1>2

\* What a step of s has to show.
LEMMA StepKeeps ==
  ASSUME CatInv, NEW s \in Session,
         rows' \subseteq Row, entries' \subseteq TableId, CacheOK(cache'),
         session' = [u \in Session |-> session'[u]], txn' = [u \in Session |-> txn'[u]],
         SessionOK(session'[s]), TxnOK(txn'[s], session'[s]),
         \A u \in Session \ {s} : /\ txn'[u] = txn[u] /\ SessionOK(session'[u])
                                  /\ Undisturbed(View, View', u, session[u], session'[u]),
         Sound(View'), StepOK(View', session'[s], s),
         ~torn' /\ ~Reloading' => IndexOK(View', session', cache')
  PROVE  CatInv'
  <1>1. ASSUME NEW u \in Session \ {s} PROVE TxnOK(txn'[u], session'[u]) /\ StepOK(View', session'[u], u)
    <2>1. SameStatement(session[u], session'[u])
      BY DEF Undisturbed
    <2>2. TxnOK(txn[u], session[u]) /\ StepOK(View, session[u], u)
      BY DEF CatInv
    <2>3. TxnOK(txn'[u], session'[u])
      BY <2>1, <2>2 DEF TxnOK, SameStatement
    <2> QED
      BY <2>2, <2>3, UndisturbedKeeps
  <1>2. \A u \in Session : /\ SessionOK(session'[u]) /\ TxnOK(txn'[u], session'[u])
                           /\ StepOK(View', session'[u], u)
    BY <1>1
  <1> QED
    BY <1>2, Zenon DEF CatInv

\* Only the session that reloads ends the reload.
LEMMA StillReloading ==
  ASSUME NEW s \in Session, ~At(s, "reload"), ~At(s, "swap"), ~Reloading',
         \A u \in Session \ {s} : SameStatement(session[u], session'[u])
  PROVE  ~Reloading
  BY DEF Reloading, At, SameStatement

\* Nobody is disturbed if nothing changes.
LEMMA SameView ==
  ASSUME NEW v, NEW u, NEW x
  PROVE  Undisturbed(v, v, u, x, x)
  <1>1. Alike(v, v, u) /\ SameStatement(x, x)
    BY DEF Alike, SameStatement
  <1>2. \A r : x.step = "drop" /\ Removing(v, x, u, r) => Droppable(v, x, u, r.id)
    BY DEF Removing
  <1> QED
    BY <1>1, <1>2 DEF Undisturbed

\* The transaction of s is opened or aborted: either way it has no changes then.
LEMMA Emptied ==
  ASSUME CatInv, NEW s \in Session, NEW t, t = NoTxn \/ t = Fresh,
         txn' = [txn EXCEPT ![s] = t], rows' = rows, entries' = entries,
         \A u \in Session \ {s} : session'[u] = session[u]
  PROVE  /\ txn' = [u \in Session |-> txn'[u]] /\ txn'[s] = t
         /\ Discarded(View, View', s) /\ Sound(View')
         /\ \A u \in Session \ {s} : /\ txn'[u] = txn[u] /\ SessionOK(session'[u])
                                     /\ Undisturbed(View, View', u, session[u], session'[u])
  <1>1. txn = [u \in Session |-> txn[u]] /\ \A u \in Session : SessionOK(session[u])
    BY DEF CatInv
  <1>2. /\ txn'[s] = t /\ txn' = [u \in Session |-> txn'[u]]
        /\ \A u \in Session \ {s} : txn'[u] = txn[u] /\ Alike(View, View', u)
    BY ChangedView
  <1>3. View'.rows = View.rows /\ View'.entries = View.entries
    BY ViewFields, NextViewFields
  <1>4. NoChanges(View', s)
    <2>1. CASE t = NoTxn
      <3>1. ~txn'[s].open
        BY <1>2, <2>1 DEF NoTxn
      <3> QED
        BY <3>1, NextViewFields
    <2>2. CASE t = Fresh
      BY <1>2, <2>2, NextViewFields DEF Fresh, NoChanges
    <2> QED
      BY <2>1, <2>2
  <1>5. PICK v, w : v = View /\ w = View'
    OBVIOUS
  <1>6. Discarded(v, w, s)
    BY <1>2, <1>3, <1>4, <1>5 DEF Discarded
  <1>7. Sound(v)
    BY <1>5 DEF CatInv
  <1>8. Sound(w)
    BY <1>6, <1>7, DiscardedSound
  <1>9. ASSUME NEW u \in Session \ {s} PROVE Undisturbed(v, w, u, session[u], session'[u])
    <2>1. Undisturbed(v, w, u, session[u], session[u])
      BY <1>6, <1>7, OthersUndisturbed
    <2> QED
      BY <2>1
  <1> QED
    BY <1>1, <1>2, <1>5, <1>6, <1>8, <1>9

\* A session that has not changed the index has nothing in its transaction,
\* unless it is about to.
LEMMA NothingYet ==
  ASSUME NEW v, NEW x, NEW s, StepOK(v, x, s), ~x.indexed, x.step # "insert",
         \A r : ~Removing(v, x, s, r)
  PROVE  v.new[s] = {} /\ v.gone[s] = {}
  BY DEF StepOK

\* A transaction without changes fits every step that needs none.
LEMMA EmptySteps ==
  ASSUME NEW w, NEW y, NEW s, NoChanges(w, s), y.step \notin {"record", "insert", "drop", "remove"},
         y.explicit /\ ~y.ddl => y.step = "idle" /\ ~y.indexed,
         ~y.explicit /\ y.step \in {"idle", "reload", "swap"} => ~y.indexed,
         y.step \in {"reload", "swap"} => ~y.explicit
  PROVE  StepOK(w, y, s)
  BY DEF StepOK, NoChanges

\* And when it loses it, the index stays right.
LEMMA IndexEmptied ==
  ASSUME NEW v, NEW w, NEW ses, NEW tes, NEW c, NEW s \in Session, IndexOK(v, ses, c),
         \A u \in Session \ {s} : Undisturbed(v, w, u, ses[u], tes[u]),
         Discarded(v, w, s), v.new[s] = {}, v.gone[s] = {}, \A r : ~Removing(v, ses[s], s, r)
  PROVE  IndexOK(w, tes, c)
  <1>1. w.rows = v.rows /\ w.gone[s] = v.gone[s] /\ w.new[s] = {}
    BY DEF Discarded, NoChanges
  <1>2. \A r : ~Inserted(v, ses[s], s, r) /\ ~Inserted(w, tes[s], s, r)
    BY <1>1 DEF Inserted
  <1> QED
    BY <1>1, <1>2, IndexQuiet

\* A session that has not changed the index begins, or loses its transaction,
\* or a reload follows.
LEMMA EmptiedKeeps ==
  ASSUME CatInv, NEW s \in Session, NEW t, t = NoTxn \/ t = Fresh, NEW y,
         txn' = [txn EXCEPT ![s] = t], rows' = rows, entries' = entries, cache' = cache,
         session' = [session EXCEPT ![s] = y], SessionOK(y),
         t.open = (y.explicit \/ y.step \notin {"idle", "reload", "swap"}),
         y.step \notin {"record", "insert", "drop", "remove"},
         y.explicit /\ ~y.ddl => y.step = "idle" /\ ~y.indexed,
         ~y.explicit /\ y.step \in {"idle", "reload", "swap"} => ~y.indexed,
         y.step \in {"reload", "swap"} => ~y.explicit,
         ~At(s, "reload"), ~At(s, "swap"),
         ~torn' /\ y.step # "reload" =>
           /\ ~torn /\ ~session[s].indexed /\ session[s].step # "insert"
           /\ \A r : ~Removing(View, session[s], s, r)
  PROVE  CatInv'
  <1>1. /\ session'[s] = y /\ session' = [u \in Session |-> session'[u]]
        /\ \A u \in Session \ {s} : session'[u] = session[u]
    BY DEF CatInv
  <1>2. /\ txn' = [u \in Session |-> txn'[u]] /\ txn'[s] = t
        /\ Discarded(View, View', s) /\ Sound(View')
        /\ \A u \in Session \ {s} : /\ txn'[u] = txn[u] /\ SessionOK(session'[u])
                                    /\ Undisturbed(View, View', u, session[u], session'[u])
    BY <1>1, Emptied
  <1>3. rows' \subseteq Row /\ entries' \subseteq TableId /\ CacheOK(cache')
    BY DEF CatInv
  <1>4. TxnOK(t, y)
    <2>1. CASE t = NoTxn
      BY <2>1 DEF TxnOK, NoTxn
    <2>2. CASE t = Fresh
      BY <2>2 DEF TxnOK, Fresh
    <2> QED
      BY <2>1, <2>2
  <1>5. PICK v, w : v = View /\ w = View'
    OBVIOUS
  <1>6. Discarded(v, w, s)
    BY <1>2, <1>5
  <1>7. StepOK(w, y, s)
    <2>1. NoChanges(w, s)
      BY <1>6 DEF Discarded
    <2> QED
      BY <2>1, EmptySteps
  <1>8. ASSUME ~torn', ~Reloading' PROVE IndexOK(View', session', cache')
    <2>1. y.step # "reload"
      BY <1>1, <1>8 DEF Reloading
    <2>2. \A u \in Session \ {s} : SameStatement(session[u], session'[u])
      BY <1>2 DEF Undisturbed
    <2>3. ~Reloading
      BY <1>8, <2>2, StillReloading
    <2>4. ~torn /\ ~session[s].indexed /\ session[s].step # "insert" /\ \A r : ~Removing(v, session[s], s, r)
      BY <1>5, <1>8, <2>1
    <2>5. IndexOK(v, session, cache) /\ StepOK(v, session[s], s)
      BY <1>5, <2>3, <2>4 DEF CatInv
    <2>6. PICK ses, tes : ses = session /\ tes = session'
      OBVIOUS
    <2>7. v.new[s] = {} /\ v.gone[s] = {}
      BY <2>4, <2>5, NothingYet
    <2>8. IndexOK(v, ses, cache) /\ \A r : ~Removing(v, ses[s], s, r)
      BY <2>4, <2>5, <2>6
    <2>9. \A u \in Session \ {s} : Undisturbed(v, w, u, ses[u], tes[u])
      BY <1>2, <1>5, <2>6
    <2>10. IndexOK(w, tes, cache)
      BY <1>6, <2>7, <2>8, <2>9, IndexEmptied
    <2> QED
      BY <1>5, <2>6, <2>10
  <1>9. SessionOK(session'[s]) /\ TxnOK(txn'[s], session'[s]) /\ StepOK(View', session'[s], s)
    BY <1>1, <1>2, <1>4, <1>5, <1>7
  <1> QED
    BY <1>1, <1>2, <1>3, <1>8, <1>9, StepKeeps

\* BEGIN.
LEMMA BeginKeeps ==
  ASSUME CatInv, NEW s \in Session, Begin(s)
  PROVE  CatInv'
  <1>1. PICK x : x = session[s]
    OBVIOUS
  <1>2. SessionOK(x) /\ StepOK(View, x, s) /\ session = [u \in Session |-> session[u]]
    BY <1>1 DEF CatInv
  <1>3. x.step = "idle" /\ ~x.explicit
    BY <1>1 DEF Begin, At
  <1>4. PICK y : y = [x EXCEPT !.explicit = TRUE]
    OBVIOUS
  <1>5. session' = [session EXCEPT ![s] = y]
    BY <1>1, <1>2, <1>4 DEF Begin
  <1>6. /\ DOMAIN y = DOMAIN x /\ y.explicit = TRUE
        /\ y.step = "idle" /\ y.ddl = x.ddl /\ y.indexed = x.indexed /\ y.stale = x.stale
    BY <1>2, <1>3, <1>4 DEF SessionOK
  <1>7. SessionOK(y)
    BY <1>2, <1>6 DEF SessionOK, Steps
  <1>8. ~x.indexed
    BY <1>2, <1>3 DEF StepOK
  <1>9. \A r : ~Removing(View, session[s], s, r)
    BY <1>1, <1>3 DEF Removing
  <1>10. PICK t : t = Fresh
    OBVIOUS
  <1>11. /\ txn' = [txn EXCEPT ![s] = t] /\ rows' = rows /\ entries' = entries
         /\ cache' = cache /\ torn' = torn /\ t.open = TRUE
    BY <1>10 DEF Begin, Change, Fresh
  <1> QED
    BY <1>1, <1>3, <1>5, <1>6, <1>7, <1>8, <1>9, <1>10, <1>11, EmptiedKeeps DEF At

\* ROLLBACK, expiry and the end of a connection: after DDL, a reload follows.
LEMMA RollbackKeeps ==
  ASSUME CatInv, NEW s \in Session, Rollback(s)
  PROVE  CatInv'
  <1>1. PICK x : x = session[s]
    OBVIOUS
  <1>2. SessionOK(x) /\ StepOK(View, x, s)
    BY <1>1 DEF CatInv
  <1>3. x.step = "idle" /\ x.explicit
    BY <1>1 DEF Rollback, At
  <1>4. PICK y : y = [Idle EXCEPT !.step = IF x.ddl THEN "reload" ELSE "idle"]
    OBVIOUS
  <1>5. session' = [session EXCEPT ![s] = y]
    BY <1>1, <1>4 DEF Rollback
  <1>6. /\ DOMAIN y = DOMAIN Idle /\ y.explicit = FALSE /\ y.ddl = FALSE /\ y.indexed = FALSE
        /\ y.step = IF x.ddl THEN "reload" ELSE "idle"
    BY <1>4 DEF Idle
  <1>7. SessionOK(y)
    BY <1>6 DEF SessionOK, Steps, Idle
  <1>8. y.step # "reload" => ~x.indexed
    BY <1>2, <1>3, <1>6 DEF StepOK, SessionOK
  <1>9. \A r : ~Removing(View, session[s], s, r)
    BY <1>1, <1>3 DEF Removing
  <1>10. PICK t : t = NoTxn
    OBVIOUS
  <1>11. /\ txn' = [txn EXCEPT ![s] = t] /\ rows' = rows /\ entries' = entries
         /\ cache' = cache /\ torn' = torn /\ t.open = FALSE
    BY <1>10 DEF Rollback, Discard, NoTxn
  <1> QED
    BY <1>1, <1>3, <1>5, <1>6, <1>7, <1>8, <1>9, <1>10, <1>11, EmptiedKeeps DEF At

\* A step of s that leaves storage and transactions alone.
LEMMA QuietKeeps ==
  ASSUME CatInv, NEW s \in Session, NEW y, UNCHANGED <<rows, entries, txn>>,
         session' = [session EXCEPT ![s] = y], SessionOK(y), TxnOK(txn[s], y), StepOK(View, y, s),
         CacheOK(cache'),
         ~torn' /\ ~Reloading' => IndexOK(View, session', cache')
  PROVE  CatInv'
  <1>1. /\ session'[s] = y /\ session' = [u \in Session |-> session'[u]]
        /\ \A u \in Session \ {s} : session'[u] = session[u]
    BY DEF CatInv
  <1>2. View' = View
    BY DEF View
  <1>3. /\ txn' = [u \in Session |-> txn'[u]] /\ Sound(View')
        /\ \A u \in Session \ {s} : txn'[u] = txn[u] /\ SessionOK(session'[u])
    BY <1>1, <1>2 DEF CatInv
  <1>4. ASSUME NEW u \in Session \ {s} PROVE Undisturbed(View, View', u, session[u], session'[u])
    <2>1. Undisturbed(View, View, u, session[u], session[u])
      BY SameView
    <2> QED
      BY <1>1, <1>2, <2>1
  <1>5. rows' \subseteq Row /\ entries' \subseteq TableId
    BY DEF CatInv
  <1>6. /\ SessionOK(session'[s]) /\ TxnOK(txn'[s], session'[s]) /\ StepOK(View', session'[s], s)
        /\ ~torn' /\ ~Reloading' => IndexOK(View', session', cache')
    BY <1>1, <1>2
  <1> QED
    BY <1>1, <1>3, <1>4, <1>5, <1>6, StepKeeps

\* Only the two maps of the index matter.
LEMMA SameIndex ==
  ASSUME NEW v, NEW ses, NEW c, NEW d, IndexOK(v, ses, c),
         d.by_id = c.by_id, d.by_name = c.by_name
  PROVE  IndexOK(v, ses, d)
  BY Zenon DEF IndexOK, Inverse

\* And in which nothing begins or ends that the index has to show.
LEMMA StatementKeeps ==
  ASSUME CatInv, NEW s \in Session, NEW y, UNCHANGED <<rows, entries, txn>>, torn => torn',
         session' = [session EXCEPT ![s] = y], SessionOK(y), TxnOK(txn[s], y), StepOK(View, y, s),
         CacheOK(cache'), cache'.by_id = cache.by_id, cache'.by_name = cache.by_name,
         ~At(s, "reload"), ~At(s, "swap"), ~At(s, "insert"), y.step # "insert",
         \A r : ~Removing(View, session[s], s, r)
  PROVE  CatInv'
  <1>1. PICK v, ses, tes, c, d : v = View /\ ses = session /\ tes = session' /\ c = cache /\ d = cache'
    OBVIOUS
  <1>2. /\ tes[s] = y /\ \A u \in Session \ {s} : tes[u] = ses[u]
    BY <1>1 DEF CatInv
  <1>3. ASSUME ~torn', ~Reloading' PROVE IndexOK(View, session', cache')
    <2>1. \A u \in Session \ {s} : SameStatement(session[u], session'[u])
      BY <1>1, <1>2 DEF SameStatement
    <2>2. ~Reloading
      BY <1>3, <2>1, StillReloading
    <2>3. IndexOK(v, ses, c)
      BY <1>1, <1>3, <2>2 DEF CatInv
    <2>4. \A u \in Session \ {s} : Undisturbed(v, v, u, ses[u], tes[u])
      BY <1>2, SameView
    <2>5. \A r : Inserted(v, ses[s], s, r) <=> Inserted(v, tes[s], s, r)
      BY <1>1, <1>2 DEF Inserted, At
    <2>6. \A r : Removing(v, ses[s], s, r) => Removing(v, tes[s], s, r)
      BY <1>1
    <2>7. IndexOK(v, tes, c)
      BY <2>3, <2>4, <2>5, <2>6, IndexQuiet
    <2>8. IndexOK(v, tes, d)
      BY <1>1, <2>7, SameIndex
    <2> QED
      BY <1>1, <2>8
  <1> QED
    BY <1>3, QuietKeeps

\* A statement starts, in the open transaction or in one of its own (in_transaction).
LEMMA StartKeeps ==
  ASSUME CatInv, NEW s \in Session, NEW first, Start(s, first),
         \/ first.step = "reserve" /\ DOMAIN first = {"step", "name"} /\ first.name \in Name
         \/ first.step = "lookup" /\ DOMAIN first = {"step", "names"}
  PROVE  CatInv'
  <1>1. PICK x : x = session[s]
    OBVIOUS
  <1>2. SessionOK(x) /\ StepOK(View, x, s) /\ TxnOK(txn[s], x)
    BY <1>1 DEF CatInv
  <1>3. x.step = "idle"
    BY <1>1 DEF Start, At
  <1>4. PICK more : more = [f \in DOMAIN first \cup {"ddl"} |-> IF f = "ddl" THEN x.explicit ELSE first[f]]
    OBVIOUS
  <1>5. PICK y : y = [f \in DOMAIN Idle \cup DOMAIN more |-> IF f \in DOMAIN more THEN more[f] ELSE x[f]]
    OBVIOUS
  <1>6. session' = [session EXCEPT ![s] = y]
    BY <1>1, <1>4, <1>5 DEF Start, Resume, Keep
  <1>7. DOMAIN Idle = {"explicit", "ddl", "indexed", "step", "stale"}
    BY DEF Idle
  <1>8. /\ {"explicit", "ddl", "indexed", "step", "stale"} \subseteq DOMAIN y
        /\ y.explicit = x.explicit /\ y.ddl = x.explicit /\ y.indexed = x.indexed
        /\ y.step = first.step /\ y.stale = x.stale
    BY <1>4, <1>5, <1>7
  <1>9. /\ first.step = "reserve" => "name" \in DOMAIN y /\ y.name = first.name
        /\ first.step = "lookup" => "names" \in DOMAIN y
    BY <1>4, <1>5, <1>7
  <1>10. y.step \in {"reserve", "lookup"}
    BY <1>8
  <1>11. SessionOK(y)
    BY <1>2, <1>8, <1>9 DEF SessionOK, Steps
  <1>12. \A r : ~Removing(View, session[s], s, r)
    BY <1>1, <1>3 DEF Removing
  <1>13. cache' = cache /\ torn' = torn
    BY DEF Start
  <1>14. CASE x.explicit
    <2>1. UNCHANGED <<rows, entries, txn, torn>>
      BY <1>1, <1>14 DEF Start
    <2>2. TxnOK(txn[s], y)
      BY <1>2, <1>8, <1>10, <1>14 DEF TxnOK
    <2>3. StepOK(View, y, s)
      <3>1. ~x.indexed => View.new[s] = {} /\ View.gone[s] = {}
        BY <1>1, <1>2, <1>3, <1>12, NothingYet
      <3> QED
        BY <1>8, <1>10, <1>14, <3>1 DEF StepOK
    <2>4. CacheOK(cache') /\ cache'.by_id = cache.by_id /\ cache'.by_name = cache.by_name
      BY <1>13 DEF CatInv
    <2> QED
      BY <1>1, <1>3, <1>6, <1>10, <1>11, <1>12, <2>1, <2>2, <2>3, <2>4, StatementKeeps DEF At
  <1>15. CASE ~x.explicit
    <2>1. PICK t : t = Fresh
      OBVIOUS
    <2>2. /\ txn' = [txn EXCEPT ![s] = t] /\ rows' = rows /\ entries' = entries /\ t.open = TRUE
      BY <1>1, <1>15, <2>1 DEF Start, Change, Fresh
    <2>3. ~x.indexed
      BY <1>2, <1>3, <1>15 DEF StepOK
    <2> QED
      BY <1>1, <1>3, <1>6, <1>8, <1>10, <1>11, <1>12, <1>13, <1>15, <2>1, <2>2, <2>3, EmptiedKeeps DEF At
  <1> QED
    BY <1>14, <1>15

\* A statement fails before it has deleted a row that it could drop.
LEMMA FailKeeps ==
  ASSUME CatInv, NEW s \in Session, Fail(s),
         session[s].step \in {"reserve", "storage", "record", "lookup", "delete", "drop"},
         \A r : ~Removing(View, session[s], s, r)
  PROVE  CatInv'
  <1>1. PICK x : x = session[s]
    OBVIOUS
  <1>2. SessionOK(x) /\ StepOK(View, x, s) /\ TxnOK(txn[s], x)
    BY <1>1 DEF CatInv
  <1>3. cache' = cache
    BY DEF Fail
  <1>4. CASE x.explicit
    <2>1. PICK more : more = [step |-> "idle", stale |-> {}]
      OBVIOUS
    <2>2. PICK y : y = [f \in DOMAIN Idle \cup DOMAIN more |-> IF f \in DOMAIN more THEN more[f] ELSE x[f]]
      OBVIOUS
    <2>3. session' = [session EXCEPT ![s] = y] /\ UNCHANGED <<rows, entries, txn, torn>>
      BY <1>1, <1>4, <2>1, <2>2 DEF Fail, Resume, Keep
    <2>4. DOMAIN Idle = {"explicit", "ddl", "indexed", "step", "stale"}
      BY DEF Idle
    <2>5. /\ DOMAIN y = {"explicit", "ddl", "indexed", "step", "stale"}
          /\ y.explicit = x.explicit /\ y.ddl = x.ddl /\ y.indexed = x.indexed /\ y.step = "idle"
      BY <2>1, <2>2, <2>4
    <2>6. SessionOK(y)
      BY <1>2, <2>5 DEF SessionOK, Steps
    <2>7. TxnOK(txn[s], y)
      BY <1>2, <1>4, <2>5 DEF TxnOK
    <2>8. StepOK(View, y, s)
      <3>1. ~x.indexed => View.new[s] = {} /\ View.gone[s] = {}
        BY <1>1, <1>2, NothingYet
      <3>2. x.ddl
        BY <1>1, <1>2, <1>4 DEF StepOK
      <3> QED
        BY <1>4, <2>5, <3>1, <3>2 DEF StepOK
    <2>9. CacheOK(cache') /\ cache'.by_id = cache.by_id /\ cache'.by_name = cache.by_name
      BY <1>3 DEF CatInv
    <2> QED
      BY <2>3, <2>5, <2>6, <2>7, <2>8, <2>9, StatementKeeps DEF At
  <1>5. CASE ~x.explicit
    <2>1. PICK t, y : t = NoTxn /\ y = Idle
      OBVIOUS
    <2>2. /\ txn' = [txn EXCEPT ![s] = t] /\ rows' = rows /\ entries' = entries
          /\ session' = [session EXCEPT ![s] = y] /\ torn' = (torn \/ x.indexed)
      BY <1>1, <1>5, <2>1 DEF Fail, Discard
    <2>3. /\ t.open = FALSE /\ y.step = "idle" /\ y.explicit = FALSE /\ y.indexed = FALSE
      BY <2>1 DEF NoTxn, Idle
    <2>4. SessionOK(y)
      BY <2>1 DEF SessionOK, Idle, Steps
    <2>5. ~torn' => ~torn /\ ~session[s].indexed
      BY <1>1, <2>2
    <2> QED
      BY <1>3, <2>1, <2>2, <2>3, <2>4, <2>5, EmptiedKeeps DEF At
  <1> QED
    BY <1>4, <1>5

\* From one step of a statement to the next, with nothing changed.
LEMMA QuietStep ==
  ASSUME NEW v, NEW x, NEW y, NEW s, StepOK(v, x, s), \A r : ~Removing(v, x, s, r),
         x.step \notin {"idle", "insert", "reload", "swap"}, y.step \in {"storage", "lookup", "delete"},
         y.explicit = x.explicit, y.ddl = x.ddl, y.indexed = x.indexed
  PROVE  StepOK(v, y, s)
  <1>1. ~x.indexed => v.new[s] = {} /\ v.gone[s] = {}
    BY NothingYet
  <1>2. ~(x.explicit /\ ~x.ddl)
    BY DEF StepOK
  <1> QED
    BY <1>1, <1>2 DEF StepOK

\* reserve_id.
LEMMA ReserveKeeps ==
  ASSUME CatInv, NEW s \in Session, reserve_id(s)
  PROVE  CatInv'
  <1>1. PICK x : x = session[s]
    OBVIOUS
  <1>2. SessionOK(x) /\ StepOK(View, x, s) /\ TxnOK(txn[s], x)
    BY <1>1 DEF CatInv
  <1>3. x.step = "reserve"
    BY <1>1 DEF reserve_id, At
  <1>4. \A r : ~Removing(View, x, s, r)
    BY <1>3 DEF Removing
  <1>5. CASE Fail(s)
    BY <1>1, <1>3, <1>4, <1>5, FailKeeps
  <1>6. CASE ~Fail(s)
    <2>1. PICK more : more = [step |-> "storage", row |-> [id |-> cache.next_id, name |-> x.name]]
      OBVIOUS
    <2>2. PICK y : y = [f \in DOMAIN Idle \cup DOMAIN more |-> IF f \in DOMAIN more THEN more[f] ELSE x[f]]
      OBVIOUS
    <2>3. /\ cache.next_id <= MaxId /\ cache' = [cache EXCEPT !.next_id = @ + 1]
          /\ session' = [session EXCEPT ![s] = y] /\ UNCHANGED <<rows, entries, txn, torn>>
      BY <1>1, <1>6, <2>1, <2>2 DEF reserve_id, Resume, Keep
    <2>4. DOMAIN Idle = {"explicit", "ddl", "indexed", "step", "stale"}
      BY DEF Idle
    <2>5. /\ DOMAIN y = {"explicit", "ddl", "indexed", "step", "stale", "row"}
          /\ y.explicit = x.explicit /\ y.ddl = x.ddl /\ y.indexed = x.indexed /\ y.step = "storage"
          /\ y.row = [id |-> cache.next_id, name |-> x.name]
      BY <2>1, <2>2, <2>4
    <2>6. PICK a, b, k : cache = [by_name |-> a, by_id |-> b, next_id |-> k]
      BY DEF CatInv, CacheOK
    <2>7. k \in 1 .. MaxId + 1 /\ cache.next_id = k
      BY <2>6 DEF CatInv, CacheOK
    <2>8. k \in TableId /\ k + 1 \in 1 .. MaxId + 1
      BY <2>3, <2>7, CatalogAssumption DEF TableId
    <2>9. y.row \in Row
      BY <1>2, <1>3, <2>5, <2>7, <2>8 DEF SessionOK, Row
    <2>10. SessionOK(y)
      BY <1>2, <2>5, <2>9 DEF SessionOK, Steps
    <2>11. TxnOK(txn[s], y)
      BY <1>2, <1>3, <2>5 DEF TxnOK
    <2>12. StepOK(View, y, s)
      BY <1>2, <1>3, <1>4, <2>5, QuietStep
    <2>13. cache' = [by_name |-> a, by_id |-> b, next_id |-> k + 1]
      BY <2>3, <2>6
    <2>14. CacheOK(cache')
      BY <2>6, <2>8, <2>13 DEF CatInv, CacheOK
    <2>15. cache'.by_id = cache.by_id /\ cache'.by_name = cache.by_name
      BY <2>6, <2>13
    <2> QED
      BY <1>1, <1>3, <1>4, <2>3, <2>5, <2>10, <2>11, <2>12, <2>14, <2>15, StatementKeeps DEF At
  <1> QED
    BY <1>5, <1>6

\* table_id.
LEMMA LookupKeeps ==
  ASSUME CatInv, NEW s \in Session, Lookup(s)
  PROVE  CatInv'
  <1>1. PICK x : x = session[s]
    OBVIOUS
  <1>2. SessionOK(x) /\ StepOK(View, x, s) /\ TxnOK(txn[s], x)
    BY <1>1 DEF CatInv
  <1>3. x.step = "lookup"
    BY <1>1 DEF Lookup, At
  <1>4. \A r : ~Removing(View, x, s, r)
    BY <1>3 DEF Removing
  <1>5. CASE Fail(s)
    BY <1>1, <1>3, <1>4, <1>5, FailKeeps
  <1>6. CASE ~Fail(s)
    <2>1. PICK more : more = [step |-> "delete", names |-> Tail(x.names),
                              id |-> cache.by_name[Head(x.names)]]
      OBVIOUS
    <2>2. PICK y : y = [f \in DOMAIN Idle \cup DOMAIN more |-> IF f \in DOMAIN more THEN more[f] ELSE x[f]]
      OBVIOUS
    <2>3. /\ session' = [session EXCEPT ![s] = y] /\ UNCHANGED <<rows, entries, txn, cache, torn>>
      BY <1>1, <1>6, <2>1, <2>2 DEF Lookup, Resume, Keep
    <2>4. DOMAIN Idle = {"explicit", "ddl", "indexed", "step", "stale"}
      BY DEF Idle
    <2>5. /\ DOMAIN y = {"explicit", "ddl", "indexed", "step", "stale", "names", "id"}
          /\ y.explicit = x.explicit /\ y.ddl = x.ddl /\ y.indexed = x.indexed /\ y.step = "delete"
      BY <2>1, <2>2, <2>4
    <2>6. SessionOK(y)
      BY <1>2, <2>5 DEF SessionOK, Steps
    <2>7. TxnOK(txn[s], y)
      BY <1>2, <1>3, <2>5 DEF TxnOK
    <2>8. StepOK(View, y, s)
      BY <1>2, <1>3, <1>4, <2>5, QuietStep
    <2>9. CacheOK(cache') /\ cache'.by_id = cache.by_id /\ cache'.by_name = cache.by_name
      BY <2>3 DEF CatInv
    <2> QED
      BY <1>1, <1>3, <1>4, <2>3, <2>5, <2>6, <2>7, <2>8, <2>9, StatementKeeps DEF At
  <1> QED
    BY <1>5, <1>6

\* A step of s that changes its transaction.
Worked(v, w, s, i) ==
  Made(v, w, s, i) \/ Recorded(v, w, s, i) \/ Deleted(v, w, s, i) \/ Dropped(v, w, s, i)

\* Such a step keeps the invariant if the index does not mind.
LEMMA WorkKeeps ==
  ASSUME CatInv, NEW s \in Session, NEW t, NEW y, NEW i, Change(s, t), UNCHANGED <<cache, torn>>,
         session' = [session EXCEPT ![s] = y], SessionOK(y), TxnOK(t, y),
         ~At(s, "reload"), ~At(s, "swap"), Worked(View, View', s, i), StepOK(View', y, s),
         /\ IndexOK(View, session, cache)
         /\ \A u \in Session \ {s} : Undisturbed(View, View', u, session[u], session'[u])
         => IndexOK(View', session', cache)
  PROVE  CatInv'
  <1>1. /\ session'[s] = y /\ session' = [u \in Session |-> session'[u]]
        /\ \A u \in Session \ {s} : session'[u] = session[u]
    BY DEF CatInv
  <1>2. /\ txn'[s] = t /\ txn' = [u \in Session |-> txn'[u]]
        /\ \A u \in Session \ {s} : txn'[u] = txn[u]
    BY ChangedView DEF Change
  <1>3. rows' \subseteq Row /\ entries' \subseteq TableId /\ CacheOK(cache')
    BY DEF CatInv, Change
  <1>4. PICK v, w : v = View /\ w = View'
    OBVIOUS
  <1>5. Sound(v) /\ Worked(v, w, s, i)
    BY <1>4 DEF CatInv
  <1>6. Sound(w)
    BY <1>5, MadeSound, RecordedSound, DeletedSound, DroppedSound DEF Worked
  <1>7. ASSUME NEW u \in Session \ {s} PROVE Undisturbed(v, w, u, session[u], session'[u])
    <2>1. Undisturbed(v, w, u, session[u], session[u])
      BY <1>5, OthersUndisturbed DEF Worked
    <2> QED
      BY <1>1, <2>1
  <1>8. \A u \in Session \ {s} : SessionOK(session'[u])
    BY <1>1 DEF CatInv
  <1>9. ASSUME ~torn', ~Reloading' PROVE IndexOK(View', session', cache')
    <2>1. \A u \in Session \ {s} : SameStatement(session[u], session'[u])
      BY <1>7 DEF Undisturbed
    <2>2. ~Reloading /\ ~torn
      BY <1>9, <2>1, StillReloading
    <2>3. IndexOK(View, session, cache)
      BY <2>2 DEF CatInv
    <2> QED
      BY <1>4, <1>7, <2>3
  <1>10. /\ SessionOK(session'[s]) /\ TxnOK(txn'[s], session'[s]) /\ StepOK(View', session'[s], s)
         /\ Sound(View')
    BY <1>1, <1>2, <1>4, <1>6
  <1>11. \A u \in Session \ {s} : /\ txn'[u] = txn[u] /\ SessionOK(session'[u])
                                  /\ Undisturbed(View, View', u, session[u], session'[u])
    BY <1>2, <1>4, <1>7, <1>8
  <1> QED
    BY <1>1, <1>2, <1>3, <1>9, <1>10, <1>11, StepKeeps

\* The session goes on to the next step of its statement.
LEMMA Advanced ==
  ASSUME CatInv, NEW s \in Session, NEW x, x = session[s], NEW step \in Steps, Goto(s, step), NEW y,
         y = [x EXCEPT !.step = step]
  PROVE  /\ session' = [session EXCEPT ![s] = y]
         /\ DOMAIN y = DOMAIN x /\ y.step = step
         /\ y.explicit = x.explicit /\ y.ddl = x.ddl /\ y.indexed = x.indexed /\ y.stale = x.stale
         /\ "row" \in DOMAIN x => y.row = x.row
         /\ "id" \in DOMAIN x => y.id = x.id
         /\ "names" \in DOMAIN x => y.names = x.names
  <1>1. session = [u \in Session |-> session[u]] /\ SessionOK(x)
    BY DEF CatInv
  <1>2. session' = [session EXCEPT ![s] = y]
    BY <1>1 DEF Goto
  <1> QED
    BY <1>1, <1>2 DEF SessionOK

\* What Free and HasStorage say of the view.
LEMMA FreeInView ==
  ASSUME CatInv, NEW s \in Session, NEW i, txn[s].open
  PROVE  /\ HasStorage(s, i) <=> i \in (View.entries \ View.unmade[s]) \cup View.made[s]
         /\ Free(s, i) <=> /\ i \notin session[s].stale
                           /\ \A u \in Session \ {s} : i \notin View.made[u] \cup View.unmade[u]
  <1>1. HasStorage(s, i) <=> i \in (View.entries \ View.unmade[s]) \cup View.made[s]
    BY ViewFields DEF HasStorage
  <1>2. ASSUME NEW u \in Session \ {s}
        PROVE  (u \in Others(s) => i \notin txn[u].made \cup txn[u].unmade)
                 <=> i \notin View.made[u] \cup View.unmade[u]
    BY ViewFields DEF Others, NoChanges
  <1>3. Others(s) \subseteq Session \ {s}
    BY DEF Others
  <1> QED
    BY <1>1, <1>2, <1>3 DEF Free

\* The engine's create_table.
LEMMA CreateKeeps ==
  ASSUME CatInv, NEW s \in Session, create_table(s)
  PROVE  CatInv'
  <1>1. PICK x, i : x = session[s] /\ i = x.row.id
    OBVIOUS
  <1>2. SessionOK(x) /\ StepOK(View, x, s) /\ TxnOK(txn[s], x)
    BY <1>1 DEF CatInv
  <1>3. x.step = "storage" /\ txn[s].open /\ "row" \in DOMAIN x /\ x.row \in Row
    BY <1>1, <1>2 DEF create_table, At, TxnOK, SessionOK
  <1>4. \A r : ~Removing(View, x, s, r)
    BY <1>3 DEF Removing
  <1>5. CASE Fail(s)
    BY <1>1, <1>3, <1>4, <1>5, FailKeeps
  <1>6. CASE ~Fail(s)
    <2>1. PICK y : y = [x EXCEPT !.step = "record"]
      OBVIOUS
    <2>2. PICK t : t = [txn[s] EXCEPT !.made = @ \cup {i}]
      OBVIOUS
    <2>3. /\ ~HasStorage(s, i) /\ Free(s, i) /\ Goto(s, "record") /\ Change(s, t)
          /\ UNCHANGED <<cache, torn>>
      BY <1>1, <1>6, <2>2 DEF create_table
    <2>4. /\ session' = [session EXCEPT ![s] = y]
          /\ DOMAIN y = DOMAIN x /\ y.step = "record" /\ y.row = x.row
          /\ y.explicit = x.explicit /\ y.ddl = x.ddl /\ y.indexed = x.indexed /\ y.stale = x.stale
      BY <1>1, <1>3, <2>1, <2>3, Advanced DEF Steps
    <2>5. SessionOK(y)
      BY <1>2, <1>3, <2>4 DEF SessionOK, Steps
    <2>6. /\ t = [open |-> TRUE, new |-> txn[s].new, gone |-> txn[s].gone, husk |-> txn[s].husk,
                  made |-> txn[s].made \cup {i}, unmade |-> txn[s].unmade]
      BY <1>2, <1>3, <2>2 DEF TxnOK
    <2>7. i \in TableId
      BY <1>1, <1>3 DEF Row
    <2>8. TxnOK(t, y)
      BY <1>2, <1>3, <2>4, <2>6, <2>7 DEF TxnOK
    <2>9. /\ txn'[s] = t /\ \A u \in Session \ {s} : Alike(View, View', u)
      BY <2>3, ChangedView DEF Change
    <2>10. /\ View'.rows = View.rows /\ View'.entries = View.entries
      BY <2>3, ViewFields, NextViewFields DEF Change
    <2>11. /\ View'.new[s] = View.new[s] /\ View'.gone[s] = View.gone[s] /\ View'.husk[s] = View.husk[s]
           /\ View'.made[s] = View.made[s] \cup {i} /\ View'.unmade[s] = View.unmade[s]
      BY <1>3, <2>6, <2>9, ViewFields, NextViewFields
    <2>12. PICK v, w : v = View /\ w = View'
      OBVIOUS
    <2>13. Made(v, w, s, i)
      <3>1. /\ i \notin (View.entries \ View.unmade[s]) \cup View.made[s]
            /\ \A u \in Session \ {s} : i \notin View.made[u] \cup View.unmade[u]
        BY <1>3, <2>3, FreeInView
      <3> QED
        BY <2>9, <2>10, <2>11, <2>12, <3>1 DEF Made
    <2>14. StepOK(w, y, s)
      <3>1. ~x.indexed => v.new[s] = {} /\ v.gone[s] = {}
        BY <1>2, <1>3, <1>4, <2>12, NothingYet
      <3>2. ~(x.explicit /\ ~x.ddl) /\ i \in w.made[s]
        BY <1>2, <1>3, <2>13 DEF StepOK, Made
      <3>3. w.new[s] = v.new[s] /\ w.gone[s] = v.gone[s]
        BY <2>13 DEF Made
      <3> QED
        BY <1>1, <2>4, <3>1, <3>2, <3>3 DEF StepOK
    <2>15. ASSUME IndexOK(View, session, cache),
                  \A u \in Session \ {s} : Undisturbed(View, View', u, session[u], session'[u])
           PROVE  IndexOK(View', session', cache)
      <3>1. PICK ses, tes : ses = session /\ tes = session'
        OBVIOUS
      <3>2. ses[s] = x /\ tes[s] = y
        BY <1>1, <2>4, <3>1 DEF CatInv
      <3>3. IndexOK(v, ses, cache) /\ \A u \in Session \ {s} : Undisturbed(v, w, u, ses[u], tes[u])
        BY <2>12, <2>15, <3>1
      <3>4. w.rows = v.rows /\ w.gone[s] = v.gone[s] /\ w.new[s] = v.new[s]
        BY <2>13 DEF Made
      <3>5. \A r : Inserted(v, ses[s], s, r) <=> Inserted(w, tes[s], s, r)
        BY <1>3, <2>4, <3>2, <3>4 DEF Inserted
      <3>6. \A r : Removing(v, ses[s], s, r) => Removing(w, tes[s], s, r)
        BY <1>4, <2>12, <3>2
      <3>7. IndexOK(w, tes, cache)
        BY <3>3, <3>4, <3>5, <3>6, IndexQuiet
      <3> QED
        BY <2>12, <3>1, <3>7
    <2>16. Worked(View, View', s, i) /\ StepOK(View', y, s)
      BY <2>12, <2>13, <2>14 DEF Worked
    <2> QED
      BY <1>1, <1>3, <2>3, <2>4, <2>5, <2>8, <2>15, <2>16, WorkKeeps DEF At
  <1> QED
    BY <1>5, <1>6

\* record_table.
LEMMA RecordKeeps ==
  ASSUME CatInv, NEW s \in Session, record_table(s)
  PROVE  CatInv'
  <1>1. PICK x, row : x = session[s] /\ row = x.row
    OBVIOUS
  <1>2. SessionOK(x) /\ StepOK(View, x, s) /\ TxnOK(txn[s], x)
    BY <1>1 DEF CatInv
  <1>3. x.step = "record" /\ txn[s].open /\ "row" \in DOMAIN x /\ x.row \in Row
    BY <1>1, <1>2 DEF record_table, At, TxnOK, SessionOK
  <1>4. \A r : ~Removing(View, x, s, r)
    BY <1>3 DEF Removing
  <1>5. CASE Fail(s)
    BY <1>1, <1>3, <1>4, <1>5, FailKeeps
  <1>6. CASE ~Fail(s)
    <2>1. PICK y : y = [x EXCEPT !.step = "insert"]
      OBVIOUS
    <2>2. PICK t : t = [txn[s] EXCEPT !.new = @ \cup {row}]
      OBVIOUS
    <2>3. /\ \A r \in Taken(s) : Differ(r, row)
          /\ Goto(s, "insert") /\ Change(s, t) /\ UNCHANGED <<cache, torn>>
      BY <1>1, <1>6, <2>2 DEF record_table, Differ
    <2>4. /\ session' = [session EXCEPT ![s] = y]
          /\ DOMAIN y = DOMAIN x /\ y.step = "insert" /\ y.row = x.row
          /\ y.explicit = x.explicit /\ y.ddl = x.ddl /\ y.indexed = x.indexed /\ y.stale = x.stale
      BY <1>1, <1>3, <2>1, <2>3, Advanced DEF Steps
    <2>5. SessionOK(y)
      BY <1>2, <1>3, <2>4 DEF SessionOK, Steps
    <2>6. /\ t = [open |-> TRUE, new |-> txn[s].new \cup {row}, gone |-> txn[s].gone, husk |-> txn[s].husk,
                  made |-> txn[s].made, unmade |-> txn[s].unmade]
      BY <1>2, <1>3, <2>2 DEF TxnOK
    <2>7. TxnOK(t, y)
      BY <1>1, <1>2, <1>3, <2>4, <2>6 DEF TxnOK
    <2>8. /\ txn'[s] = t /\ \A u \in Session \ {s} : Alike(View, View', u)
      BY <2>3, ChangedView DEF Change
    <2>9. /\ View'.rows = View.rows /\ View'.entries = View.entries
      BY <2>3, ViewFields, NextViewFields DEF Change
    <2>10. /\ View'.new[s] = View.new[s] \cup {row} /\ View'.gone[s] = View.gone[s]
           /\ View'.husk[s] = View.husk[s]
           /\ View'.made[s] = View.made[s] /\ View'.unmade[s] = View.unmade[s]
      BY <1>3, <2>6, <2>8, ViewFields, NextViewFields
    <2>11. PICK v, w : v = View /\ w = View'
      OBVIOUS
    <2>12. Recorded(v, w, s, row)
      <3>1. row.id \in View.made[s]
        BY <1>1, <1>2, <1>3 DEF StepOK
      <3>2. \A r \in (View.rows \ View.gone[s]) \cup View.new[s] : Differ(r, row)
        BY <1>3, <2>3, ViewFields DEF Taken
      <3>3. ASSUME NEW u \in Session \ {s}, NEW r \in View.new[u] \cup View.husk[u] PROVE Differ(r, row)
        <4>1. txn[u].open /\ r \in txn[u].new \cup txn[u].husk
          BY ViewFields DEF NoChanges
        <4> QED
          BY <2>3, <4>1 DEF Taken, Others
      <3> QED
        BY <2>8, <2>9, <2>10, <2>11, <3>1, <3>2, <3>3 DEF Recorded
    <2>13. w.gone[s] = v.gone[s] /\ w.new[s] = v.new[s] \cup {row} /\ row \notin v.new[s] /\ w.rows = v.rows
      BY <2>12 DEF Recorded, Differ
    <2>14. StepOK(w, y, s)
      <3>1. ~x.indexed => v.new[s] = {} /\ v.gone[s] = {}
        BY <1>2, <1>3, <1>4, <2>11, NothingYet
      <3>2. ~(x.explicit /\ ~x.ddl)
        BY <1>2, <1>3 DEF StepOK
      <3> QED
        BY <1>1, <2>4, <2>13, <3>1, <3>2 DEF StepOK
    <2>15. ASSUME IndexOK(View, session, cache),
                  \A u \in Session \ {s} : Undisturbed(View, View', u, session[u], session'[u])
           PROVE  IndexOK(View', session', cache)
      <3>1. PICK ses, tes : ses = session /\ tes = session'
        OBVIOUS
      <3>2. ses[s] = x /\ tes[s] = y
        BY <1>1, <2>4, <3>1 DEF CatInv
      <3>3. IndexOK(v, ses, cache) /\ \A u \in Session \ {s} : Undisturbed(v, w, u, ses[u], tes[u])
        BY <2>11, <2>15, <3>1
      <3>4. \A r : Inserted(v, ses[s], s, r) <=> Inserted(w, tes[s], s, r)
        BY <1>1, <1>3, <2>4, <2>13, <3>2 DEF Inserted
      <3>5. \A r : Removing(v, ses[s], s, r) => Removing(w, tes[s], s, r)
        BY <1>4, <2>11, <3>2
      <3>6. IndexOK(w, tes, cache)
        BY <2>13, <3>3, <3>4, <3>5, IndexQuiet
      <3> QED
        BY <2>11, <3>1, <3>6
    <2>16. Worked(View, View', s, row) /\ StepOK(View', y, s)
      BY <2>11, <2>12, <2>14 DEF Worked
    <2> QED
      BY <1>1, <1>3, <2>3, <2>4, <2>5, <2>7, <2>15, <2>16, WorkKeeps DEF At
  <1> QED
    BY <1>5, <1>6

\* delete_rows.
LEMMA DeleteKeeps ==
  ASSUME CatInv, NEW s \in Session, delete_rows(s)
  PROVE  CatInv'
  <1>1. PICK x, i : x = session[s] /\ i = x.id
    OBVIOUS
  <1>2. SessionOK(x) /\ StepOK(View, x, s) /\ TxnOK(txn[s], x)
    BY <1>1 DEF CatInv
  <1>3. x.step = "delete" /\ txn[s].open /\ "id" \in DOMAIN x /\ "names" \in DOMAIN x
    BY <1>1, <1>2 DEF delete_rows, At, TxnOK, SessionOK
  <1>4. \A r : ~Removing(View, x, s, r)
    BY <1>3 DEF Removing
  <1>5. CASE Fail(s)
    BY <1>1, <1>3, <1>4, <1>5, FailKeeps
  <1>6. CASE ~Fail(s)
    <2>0. PICK D : D = {r \in Visible(s) : r.id = i}
      OBVIOUS
    <2>1. PICK y : y = [x EXCEPT !.step = "drop"]
      OBVIOUS
    <2>2. PICK t : t = [txn[s] EXCEPT !.gone = @ \cup (D \ txn[s].new),
                                      !.husk = @ \cup (D \cap txn[s].new), !.new = @ \ D]
      OBVIOUS
    <2>3. /\ i \notin x.stale /\ \A u \in Others(s) : D \cap txn[u].gone = {}
          /\ Goto(s, "drop") /\ Change(s, t) /\ UNCHANGED <<cache, torn>>
      BY <1>1, <1>6, <2>0, <2>2 DEF delete_rows
    <2>4. /\ session' = [session EXCEPT ![s] = y]
          /\ DOMAIN y = DOMAIN x /\ y.step = "drop" /\ y.id = i
          /\ y.explicit = x.explicit /\ y.ddl = x.ddl /\ y.indexed = x.indexed /\ y.stale = x.stale
      BY <1>1, <1>3, <2>1, <2>3, Advanced DEF Steps
    <2>5. SessionOK(y)
      BY <1>2, <1>3, <2>4 DEF SessionOK, Steps
    <2>6. /\ t = [open |-> TRUE, new |-> txn[s].new \ D, gone |-> txn[s].gone \cup (D \ txn[s].new),
                  husk |-> txn[s].husk \cup (D \cap txn[s].new),
                  made |-> txn[s].made, unmade |-> txn[s].unmade]
      BY <1>2, <1>3, <2>2 DEF TxnOK
    <2>7. D \subseteq Row
      BY <1>2, <1>3, <2>0 DEF Visible, TxnOK, CatInv
    <2>8. TxnOK(t, y)
      BY <1>2, <1>3, <2>4, <2>6, <2>7 DEF TxnOK
    <2>9. /\ txn'[s] = t /\ \A u \in Session \ {s} : Alike(View, View', u)
      BY <2>3, ChangedView DEF Change
    <2>10. /\ View'.rows = View.rows /\ View'.entries = View.entries
      BY <2>3, ViewFields, NextViewFields DEF Change
    <2>11. /\ View'.new[s] = View.new[s] \ D /\ View'.gone[s] = View.gone[s] \cup (D \ View.new[s])
           /\ View'.husk[s] = View.husk[s] \cup (D \cap View.new[s])
           /\ View'.made[s] = View.made[s] /\ View'.unmade[s] = View.unmade[s]
      BY <1>3, <2>6, <2>9, ViewFields, NextViewFields
    <2>12. PICK v, w : v = View /\ w = View'
      OBVIOUS
    <2>13. Doomed(v, s, i) = D
      BY <1>3, <2>0, <2>12, ViewFields DEF Doomed, Visible
    <2>14. Deleted(v, w, s, i)
      <3>1. ASSUME NEW u \in Session \ {s} PROVE D \cap View.gone[u] = {}
        <4>1. CASE txn[u].open
          BY <2>3, <4>1, ViewFields DEF Others
        <4>2. CASE ~txn[u].open
          BY <4>2, ViewFields DEF NoChanges
        <4> QED
          BY <4>1, <4>2
      <3> QED
        BY <2>9, <2>10, <2>11, <2>12, <2>13, <3>1 DEF Deleted
    <2>15. Sound(v)
      BY <2>12 DEF CatInv
    <2>16. StepOK(w, y, s)
      <3>1. ~x.indexed => v.new[s] = {} /\ v.gone[s] = {}
        BY <1>2, <1>3, <1>4, <2>12, NothingYet
      <3>2. ~(x.explicit /\ ~x.ddl)
        BY <1>2, <1>3 DEF StepOK
      <3>3. \A r \in D : Removing(w, y, s, r)
        BY <2>3, <2>4, <2>13, <2>14, <2>15, DeletedRemoving
      <3>4. ASSUME NEW r \in (w.rows \ w.gone[s]) \cup w.new[s] PROVE r.id # i
        <4>1. OwnOK(v, s)
          BY <2>15 DEF Sound
        <4>2. r \notin D
          BY <2>13, <2>14, <4>1 DEF Deleted, OwnOK, Differ
        <4>3. r \in (v.rows \ v.gone[s]) \cup v.new[s]
          BY <2>14 DEF Deleted
        <4> QED
          BY <2>13, <4>2, <4>3 DEF Doomed
      <3>5. /\ w.new[s] \subseteq v.new[s] /\ w.gone[s] \subseteq v.gone[s] \cup D
        BY <2>13, <2>14 DEF Deleted
      <3>6. y.indexed = x.indexed /\ ~(y.explicit /\ ~y.ddl) /\ y.step = "drop" /\ y.id = i
        BY <2>4, <3>2
      <3>7. ~y.indexed => /\ \A r \in w.new[s] : y.step = "insert" /\ r = y.row
                          /\ \A r \in w.gone[s] : Removing(w, y, s, r)
        BY <3>1, <3>3, <3>5, <3>6
      <3> QED
        BY <3>4, <3>6, <3>7 DEF StepOK
    <2>17. ASSUME IndexOK(View, session, cache),
                  \A u \in Session \ {s} : Undisturbed(View, View', u, session[u], session'[u])
           PROVE  IndexOK(View', session', cache)
      <3>1. PICK ses, tes : ses = session /\ tes = session'
        OBVIOUS
      <3>2. ses[s] = x /\ tes[s] = y
        BY <1>1, <2>4, <3>1 DEF CatInv
      <3>3. IndexOK(v, ses, cache) /\ \A u \in Session \ {s} : Undisturbed(v, w, u, ses[u], tes[u])
        BY <2>12, <2>17, <3>1
      <3>4. /\ i \notin tes[s].stale /\ tes[s].step = "drop" /\ tes[s].id = i
            /\ ses[s].step \notin {"insert", "drop", "remove"}
        BY <1>3, <2>3, <2>4, <3>2
      <3>5. IndexOK(w, tes, cache)
        BY <2>14, <2>15, <3>3, <3>4, IndexDeleted
      <3> QED
        BY <2>12, <3>1, <3>5
    <2>18. Worked(View, View', s, i) /\ StepOK(View', y, s)
      BY <2>12, <2>14, <2>16 DEF Worked
    <2> QED
      BY <1>1, <1>3, <2>3, <2>4, <2>5, <2>8, <2>17, <2>18, WorkKeeps DEF At
  <1> QED
    BY <1>5, <1>6

\* The engine's drop_table: it refuses only what could not have been deleted.
LEMMA DropKeeps ==
  ASSUME CatInv, NEW s \in Session, drop_table(s)
  PROVE  CatInv'
  <1>1. PICK x, i : x = session[s] /\ i = x.id
    OBVIOUS
  <1>2. SessionOK(x) /\ StepOK(View, x, s) /\ TxnOK(txn[s], x)
    BY <1>1 DEF CatInv
  <1>3. x.step = "drop" /\ txn[s].open /\ "id" \in DOMAIN x /\ "names" \in DOMAIN x
    BY <1>1, <1>2 DEF drop_table, At, TxnOK, SessionOK
  <1>4. CASE ~(HasStorage(s, i) /\ Free(s, i))
    <2>1. ASSUME NEW r PROVE ~Removing(View, x, s, r)
      <3>1. Removing(View, x, s, r) => r.id = i /\ Droppable(View, x, s, i)
        BY <1>1, <1>3 DEF Removing
      <3>2. Droppable(View, x, s, i) => HasStorage(s, i) /\ Free(s, i)
        BY <1>1, <1>3, FreeInView DEF Droppable
      <3> QED
        BY <1>4, <3>1, <3>2
    <2>2. Fail(s)
      BY <1>1, <1>4 DEF drop_table
    <2> QED
      BY <1>1, <1>3, <2>1, <2>2, FailKeeps
  <1>5. CASE HasStorage(s, i) /\ Free(s, i)
    <2>1. PICK y : y = [x EXCEPT !.step = "remove"]
      OBVIOUS
    <2>2. PICK t : t = [txn[s] EXCEPT !.made = @ \ {i}, !.unmade = @ \cup {i}]
      OBVIOUS
    <2>3. Goto(s, "remove") /\ Change(s, t) /\ UNCHANGED <<cache, torn>>
      BY <1>1, <1>5, <2>2 DEF drop_table
    <2>4. /\ session' = [session EXCEPT ![s] = y]
          /\ DOMAIN y = DOMAIN x /\ y.step = "remove" /\ y.id = i
          /\ y.explicit = x.explicit /\ y.ddl = x.ddl /\ y.indexed = x.indexed /\ y.stale = x.stale
      BY <1>1, <1>3, <2>1, <2>3, Advanced DEF Steps
    <2>5. SessionOK(y)
      BY <1>2, <1>3, <2>4 DEF SessionOK, Steps
    <2>6. /\ t = [open |-> TRUE, new |-> txn[s].new, gone |-> txn[s].gone, husk |-> txn[s].husk,
                  made |-> txn[s].made \ {i}, unmade |-> txn[s].unmade \cup {i}]
      BY <1>2, <1>3, <2>2 DEF TxnOK
    <2>7. i \in TableId
      BY <1>2, <1>3, <1>5 DEF HasStorage, TxnOK, CatInv
    <2>8. TxnOK(t, y)
      BY <1>2, <1>3, <2>4, <2>6, <2>7 DEF TxnOK
    <2>9. /\ txn'[s] = t /\ \A u \in Session \ {s} : Alike(View, View', u)
      BY <2>3, ChangedView DEF Change
    <2>10. /\ View'.rows = View.rows /\ View'.entries = View.entries
      BY <2>3, ViewFields, NextViewFields DEF Change
    <2>11. /\ View'.new[s] = View.new[s] /\ View'.gone[s] = View.gone[s] /\ View'.husk[s] = View.husk[s]
           /\ View'.made[s] = View.made[s] \ {i} /\ View'.unmade[s] = View.unmade[s] \cup {i}
      BY <1>3, <2>6, <2>9, ViewFields, NextViewFields
    <2>12. PICK v, w : v = View /\ w = View'
      OBVIOUS
    <2>13. Dropped(v, w, s, i)
      <3>1. /\ i \notin x.stale
            /\ \A u \in Session \ {s} : i \notin View.made[u] \cup View.unmade[u]
        BY <1>1, <1>3, <1>5, FreeInView
      <3>2. \A r \in (View.rows \ View.gone[s]) \cup View.new[s] : r.id # i
        BY <1>1, <1>2, <1>3, <3>1 DEF StepOK
      <3>3. Doomed(v, s, i) = {}
        BY <2>12, <3>2 DEF Doomed
      <3> QED
        BY <2>9, <2>10, <2>11, <2>12, <3>1, <3>3 DEF Dropped
    <2>14. /\ w.rows = v.rows /\ w.new[s] = v.new[s] /\ w.gone[s] = v.gone[s] /\ w.husk[s] = v.husk[s]
           /\ i \in w.unmade[s] /\ i \notin w.made[s]
      BY <2>13 DEF Dropped
    <2>15. \A r : Removing(v, x, s, r) => Removing(w, y, s, r)
      BY <1>1, <2>4, <2>14 DEF Removing
    <2>16. StepOK(w, y, s)
      <3>1. ~x.indexed => v.new[s] = {} /\ \A r \in v.gone[s] : Removing(v, x, s, r)
        BY <1>2, <1>3, <2>12 DEF StepOK
      <3>2. ~(x.explicit /\ ~x.ddl)
        BY <1>2, <1>3 DEF StepOK
      <3>3. ~y.indexed => /\ \A r \in w.new[s] : y.step = "insert" /\ r = y.row
                          /\ \A r \in w.gone[s] : Removing(w, y, s, r)
        BY <2>4, <2>14, <2>15, <3>1
      <3> QED
        BY <2>4, <2>14, <3>2, <3>3 DEF StepOK
    <2>17. ASSUME IndexOK(View, session, cache),
                  \A u \in Session \ {s} : Undisturbed(View, View', u, session[u], session'[u])
           PROVE  IndexOK(View', session', cache)
      <3>1. PICK ses, tes : ses = session /\ tes = session'
        OBVIOUS
      <3>2. ses[s] = x /\ tes[s] = y
        BY <1>1, <2>4, <3>1 DEF CatInv
      <3>3. IndexOK(v, ses, cache) /\ \A u \in Session \ {s} : Undisturbed(v, w, u, ses[u], tes[u])
        BY <2>12, <2>17, <3>1
      <3>4. \A r : Inserted(v, ses[s], s, r) <=> Inserted(w, tes[s], s, r)
        BY <1>3, <2>4, <2>14, <3>2 DEF Inserted
      <3>5. \A r : Removing(v, ses[s], s, r) => Removing(w, tes[s], s, r)
        BY <2>15, <3>2
      <3>6. IndexOK(w, tes, cache)
        BY <2>14, <3>3, <3>4, <3>5, IndexQuiet
      <3> QED
        BY <2>12, <3>1, <3>6
    <2>18. Worked(View, View', s, i) /\ StepOK(View', y, s)
      BY <2>12, <2>13, <2>16 DEF Worked
    <2> QED
      BY <1>1, <1>3, <2>3, <2>4, <2>5, <2>8, <2>17, <2>18, WorkKeeps DEF At
  <1> QED
    BY <1>4, <1>5

\* The statement is over and has changed the index.
LEMMA DoneFields ==
  ASSUME NEW v, NEW x, NEW y, NEW s, NEW more, NEW t, SessionOK(x), StepOK(v, x, s), TxnOK(t, x),
         x.step \in {"insert", "remove"},
         more = IF x.explicit THEN [step |-> "idle", stale |-> {}, indexed |-> TRUE]
                ELSE [step |-> "finish", indexed |-> TRUE],
         y = [f \in DOMAIN Idle \cup DOMAIN more |-> IF f \in DOMAIN more THEN more[f] ELSE x[f]]
  PROVE  y.step \in {"idle", "finish"} /\ SessionOK(y) /\ StepOK(v, y, s) /\ TxnOK(t, y)
  <1>1. DOMAIN Idle = {"explicit", "ddl", "indexed", "step", "stale"}
    BY DEF Idle
  <1>2. ~(x.explicit /\ ~x.ddl)
    BY DEF StepOK
  <1>3. CASE x.explicit
    <2>1. more = [step |-> "idle", stale |-> {}, indexed |-> TRUE]
      BY <1>3
    <2>2. /\ DOMAIN y = {"explicit", "ddl", "indexed", "step", "stale"}
          /\ y.explicit = x.explicit /\ y.ddl = x.ddl /\ y.indexed = TRUE /\ y.step = "idle"
      BY <1>1, <2>1
    <2>3. SessionOK(y)
      BY <2>2 DEF SessionOK, Steps
    <2>4. StepOK(v, y, s)
      BY <1>2, <1>3, <2>2 DEF StepOK
    <2>5. TxnOK(t, y)
      BY <1>3, <2>2 DEF TxnOK
    <2> QED
      BY <2>2, <2>3, <2>4, <2>5
  <1>4. CASE ~x.explicit
    <2>1. more = [step |-> "finish", indexed |-> TRUE]
      BY <1>4
    <2>2. /\ DOMAIN y = {"explicit", "ddl", "indexed", "step", "stale"}
          /\ y.explicit = x.explicit /\ y.ddl = x.ddl /\ y.indexed = TRUE /\ y.step = "finish"
      BY <1>1, <2>1
    <2>3. SessionOK(y)
      BY <2>2 DEF SessionOK, Steps
    <2>4. StepOK(v, y, s)
      BY <1>2, <1>4, <2>2 DEF StepOK
    <2>5. TxnOK(t, y)
      BY <1>4, <2>2 DEF TxnOK
    <2> QED
      BY <2>2, <2>3, <2>4, <2>5
  <1> QED
    BY <1>3, <1>4

\* insert_table, in its critical section.
LEMMA InsertKeeps ==
  ASSUME CatInv, NEW s \in Session, InsertTable(s)
  PROVE  CatInv'
  <1>1. PICK x, row : x = session[s] /\ row = x.row
    OBVIOUS
  <1>2. SessionOK(x) /\ StepOK(View, x, s) /\ TxnOK(txn[s], x)
    BY <1>1 DEF CatInv
  <1>3. x.step = "insert" /\ row \in Row /\ row.id \in TableId /\ row.name \in Name /\ row \in View.new[s]
    BY <1>1, <1>2 DEF InsertTable, At, SessionOK, Row, StepOK
  <1>4. PICK more : more = IF x.explicit THEN [step |-> "idle", stale |-> {}, indexed |-> TRUE]
                           ELSE [step |-> "finish", indexed |-> TRUE]
    OBVIOUS
  <1>5. PICK y : y = [f \in DOMAIN Idle \cup DOMAIN more |-> IF f \in DOMAIN more THEN more[f] ELSE x[f]]
    OBVIOUS
  <1>6. /\ session' = [session EXCEPT ![s] = y] /\ UNCHANGED <<rows, entries, txn, torn>>
    BY <1>1, <1>4, <1>5 DEF InsertTable, Resume, Keep, Done
  <1>7. y.step \in {"idle", "finish"} /\ SessionOK(y) /\ StepOK(View, y, s) /\ TxnOK(txn[s], y)
    BY <1>2, <1>3, <1>4, <1>5, DoneFields
  <1>8. PICK c, d : c = cache /\ d = cache'
    OBVIOUS
  <1>9. /\ d = [by_name |-> d.by_name, by_id |-> d.by_id, next_id |-> d.next_id]
        /\ d.by_name = With(c.by_name, row.name, row.id) /\ d.by_id = With(c.by_id, row.id, row.name)
        /\ d.next_id = IF row.id >= c.next_id THEN row.id + 1 ELSE c.next_id
    BY <1>1, <1>8 DEF InsertTable, insert_table
  <1>10. CacheOK(c)
    BY <1>8 DEF CatInv
  <1>11. CacheOK(d)
    <2>1. d.by_name \in [DOMAIN d.by_name -> TableId] /\ DOMAIN d.by_name \subseteq Name
      BY <1>3, <1>9, <1>10 DEF CacheOK, With
    <2>2. d.by_id \in [DOMAIN d.by_id -> Name] /\ DOMAIN d.by_id \subseteq TableId
      BY <1>3, <1>9, <1>10 DEF CacheOK, With
    <2>3. PICK k, m : k = c.next_id /\ m = row.id
      OBVIOUS
    <2>4. k \in 1 .. MaxId + 1 /\ m \in 1 .. MaxId
      BY <1>3, <1>10, <2>3 DEF CacheOK, TableId
    <2>5. d.next_id = IF m >= k THEN m + 1 ELSE k
      BY <1>9, <2>3
    <2>6. d.next_id \in 1 .. MaxId + 1
      BY <2>4, <2>5, CatalogAssumption
    <2> QED
      BY <1>9, <2>1, <2>2, <2>6 DEF CacheOK
  <1>12. ASSUME ~torn', ~Reloading' PROVE IndexOK(View, session', cache')
    <2>1. PICK v, ses, tes : v = View /\ ses = session /\ tes = session'
      OBVIOUS
    <2>2. ses[s] = x /\ tes[s] = y /\ \A u \in Session \ {s} : tes[u] = ses[u]
      BY <1>1, <1>6, <2>1 DEF CatInv
    <2>3. \A u \in Session \ {s} : SameStatement(session[u], session'[u])
      BY <2>1, <2>2 DEF SameStatement
    <2>4. ~Reloading /\ ~torn
      BY <1>1, <1>3, <1>6, <1>12, <2>3, StillReloading DEF At
    <2>5. IndexOK(v, ses, c) /\ Sound(v)
      BY <1>8, <2>1, <2>4 DEF CatInv
    <2>6. IndexOK(v, tes, d)
      BY <1>1, <1>3, <1>7, <1>9, <2>1, <2>2, <2>5, IndexInserted
    <2> QED
      BY <1>8, <2>1, <2>6
  <1> QED
    BY <1>6, <1>7, <1>8, <1>11, <1>12, QuietKeeps

\* remove_table, in its critical section.
LEMMA RemoveKeeps ==
  ASSUME CatInv, NEW s \in Session, RemoveTable(s)
  PROVE  CatInv'
  <1>1. PICK x, i : x = session[s] /\ i = x.id
    OBVIOUS
  <1>2. SessionOK(x) /\ StepOK(View, x, s) /\ TxnOK(txn[s], x)
    BY <1>1 DEF CatInv
  <1>3. x.step = "remove" /\ i \in View.unmade[s] /\ i \notin View.made[s]
    BY <1>1, <1>2 DEF RemoveTable, At, StepOK
  <1>4. PICK more : more = IF x.names = <<>>
                           THEN IF x.explicit THEN [step |-> "idle", stale |-> {}, indexed |-> TRUE]
                                ELSE [step |-> "finish", indexed |-> TRUE]
                           ELSE [step |-> "lookup", names |-> x.names, indexed |-> TRUE]
    OBVIOUS
  <1>5. PICK y : y = [f \in DOMAIN Idle \cup DOMAIN more |-> IF f \in DOMAIN more THEN more[f] ELSE x[f]]
    OBVIOUS
  <1>6. /\ session' = [session EXCEPT ![s] = y] /\ UNCHANGED <<rows, entries, txn, torn>>
    BY <1>1, <1>4, <1>5 DEF RemoveTable, Resume, Keep, Done
  <1>7. y.step \in {"idle", "finish", "lookup"} /\ SessionOK(y) /\ StepOK(View, y, s) /\ TxnOK(txn[s], y)
    <2>1. CASE x.names = <<>>
      <3>1. more = IF x.explicit THEN [step |-> "idle", stale |-> {}, indexed |-> TRUE]
                   ELSE [step |-> "finish", indexed |-> TRUE]
        BY <1>4, <2>1
      <3> QED
        BY <1>2, <1>3, <1>5, <3>1, DoneFields
    <2>2. CASE x.names # <<>>
      <3>1. more = [step |-> "lookup", names |-> x.names, indexed |-> TRUE]
        BY <1>4, <2>2
      <3>2. DOMAIN Idle = {"explicit", "ddl", "indexed", "step", "stale"}
        BY DEF Idle
      <3>3. /\ DOMAIN y = {"explicit", "ddl", "indexed", "step", "stale", "names"}
            /\ y.explicit = x.explicit /\ y.ddl = x.ddl /\ y.indexed = TRUE /\ y.step = "lookup"
        BY <1>5, <3>1, <3>2
      <3>4. SessionOK(y)
        BY <1>2, <3>3 DEF SessionOK, Steps
      <3>5. StepOK(View, y, s)
        BY <1>2, <1>3, <3>3 DEF StepOK
      <3>6. TxnOK(txn[s], y)
        BY <1>2, <1>3, <3>3 DEF TxnOK
      <3> QED
        BY <3>3, <3>4, <3>5, <3>6
    <2> QED
      BY <2>1, <2>2
  <1>8. PICK c, d : c = cache /\ d = cache'
    OBVIOUS
  <1>9. CacheOK(c)
    BY <1>8 DEF CatInv
  <1>10. /\ i \notin DOMAIN c.by_id => d = c
         /\ i \in DOMAIN c.by_id =>
              /\ d = [by_name |-> d.by_name, by_id |-> d.by_id, next_id |-> d.next_id]
              /\ d.by_name = Without(c.by_name, c.by_id[i]) /\ d.by_id = Without(c.by_id, i)
              /\ d.next_id = c.next_id
    <2>1. d = remove_table(c, i)
      BY <1>1, <1>8 DEF RemoveTable
    <2>2. PICK a, b, k : c = [by_name |-> a, by_id |-> b, next_id |-> k]
      BY <1>9 DEF CacheOK
    <2>3. i \in DOMAIN c.by_id => d = [by_name |-> Without(a, b[i]), by_id |-> Without(b, i), next_id |-> k]
      BY <2>1, <2>2 DEF remove_table
    <2> QED
      BY <2>1, <2>2, <2>3 DEF remove_table
  <1>11. CacheOK(d)
    <2>1. CASE i \notin DOMAIN c.by_id
      BY <1>9, <1>10, <2>1
    <2>2. CASE i \in DOMAIN c.by_id
      <3>1. d.by_name \in [DOMAIN d.by_name -> TableId] /\ DOMAIN d.by_name \subseteq Name
        BY <1>9, <1>10, <2>2 DEF CacheOK, Without
      <3>2. d.by_id \in [DOMAIN d.by_id -> Name] /\ DOMAIN d.by_id \subseteq TableId
        BY <1>9, <1>10, <2>2 DEF CacheOK, Without
      <3> QED
        BY <1>9, <1>10, <2>2, <3>1, <3>2 DEF CacheOK
    <2> QED
      BY <2>1, <2>2
  <1>12. ASSUME ~torn', ~Reloading' PROVE IndexOK(View, session', cache')
    <2>1. PICK v, ses, tes : v = View /\ ses = session /\ tes = session'
      OBVIOUS
    <2>2. ses[s] = x /\ tes[s] = y /\ \A u \in Session \ {s} : tes[u] = ses[u]
      BY <1>1, <1>6, <2>1 DEF CatInv
    <2>3. \A u \in Session \ {s} : SameStatement(session[u], session'[u])
      BY <2>1, <2>2 DEF SameStatement
    <2>4. ~Reloading /\ ~torn
      BY <1>1, <1>3, <1>6, <1>12, <2>3, StillReloading DEF At
    <2>5. IndexOK(v, ses, c) /\ Sound(v)
      BY <1>8, <2>1, <2>4 DEF CatInv
    <2>6. IndexOK(v, tes, d)
      BY <1>1, <1>3, <1>7, <1>10, <2>1, <2>2, <2>5, IndexRemoved
    <2> QED
      BY <1>8, <2>1, <2>6
  <1> QED
    BY <1>6, <1>7, <1>8, <1>11, <1>12, QuietKeeps

\* read_all.
LEMMA ReadKeeps ==
  ASSUME CatInv, NEW s \in Session, ReadAll(s)
  PROVE  CatInv'
  <1>1. PICK x : x = session[s]
    OBVIOUS
  <1>2. SessionOK(x) /\ StepOK(View, x, s) /\ TxnOK(txn[s], x)
    BY <1>1 DEF CatInv
  <1>3. x.step = "reload"
    BY <1>1 DEF ReadAll, At
  <1>4. PICK more : more = [step |-> "swap", read |-> rows]
    OBVIOUS
  <1>5. PICK y : y = [f \in DOMAIN Idle \cup DOMAIN more |-> IF f \in DOMAIN more THEN more[f] ELSE x[f]]
    OBVIOUS
  <1>6. session' = [session EXCEPT ![s] = y] /\ UNCHANGED <<rows, entries, txn, cache, torn>>
    BY <1>1, <1>4, <1>5 DEF ReadAll, Resume, Keep
  <1>7. DOMAIN Idle = {"explicit", "ddl", "indexed", "step", "stale"}
    BY DEF Idle
  <1>8. /\ DOMAIN y = {"explicit", "ddl", "indexed", "step", "stale", "read"}
        /\ y.explicit = x.explicit /\ y.ddl = x.ddl /\ y.indexed = x.indexed /\ y.step = "swap"
        /\ y.read = rows
    BY <1>4, <1>5, <1>7
  <1>9. rows \subseteq Row /\ \A r, q \in rows : r # q => Differ(r, q)
    <2>1. View.rows = rows
      BY ViewFields
    <2> QED
      BY <2>1 DEF CatInv, Sound
  <1>10. SessionOK(y)
    BY <1>2, <1>8, <1>9 DEF SessionOK, Steps
  <1>11. TxnOK(txn[s], y)
    BY <1>2, <1>3, <1>8 DEF TxnOK
  <1>12. StepOK(View, y, s)
    <2>1. \A r : ~Removing(View, x, s, r)
      BY <1>3 DEF Removing
    <2>2. ~x.indexed => View.new[s] = {} /\ View.gone[s] = {}
      BY <1>2, <1>3, <2>1, NothingYet
    <2>3. ~x.explicit /\ ~x.indexed
      BY <1>2, <1>3 DEF StepOK
    <2> QED
      BY <1>8, <2>2, <2>3 DEF StepOK
  <1>13. CacheOK(cache')
    BY <1>6 DEF CatInv
  <1>14. Reloading'
    <2>1. session'[s] = y
      BY <1>6 DEF CatInv
    <2> QED
      BY <1>8, <2>1 DEF Reloading
  <1> QED
    BY <1>6, <1>10, <1>11, <1>12, <1>13, <1>14, QuietKeeps

\* The end of reload: if nothing was committed since, and nobody else has changed
\* the index, it is right.
LEMMA SwapKeeps ==
  ASSUME CatInv, NEW s \in Session, Swap(s)
  PROVE  CatInv'
  <1>1. PICK x, y : x = session[s] /\ y = Idle
    OBVIOUS
  <1>2. SessionOK(x) /\ StepOK(View, x, s) /\ TxnOK(txn[s], x)
    BY <1>1 DEF CatInv
  <1>3. x.step = "swap" /\ x.read \subseteq Row /\ \A r, q \in x.read : r # q => Differ(r, q)
    BY <1>1, <1>2 DEF Swap, At, SessionOK
  <1>4. ~x.explicit /\ txn[s].open = FALSE
    BY <1>2, <1>3 DEF StepOK, TxnOK
  <1>5. NoChanges(View, s)
    BY <1>4, ViewFields
  <1>6. /\ session' = [session EXCEPT ![s] = y] /\ UNCHANGED <<rows, entries, txn>>
        /\ cache' = Rebuilt(x.read)
    BY <1>1 DEF Swap
  <1>7. /\ DOMAIN y = {"explicit", "ddl", "indexed", "step", "stale"}
        /\ y.explicit = FALSE /\ y.ddl = FALSE /\ y.indexed = FALSE /\ y.step = "idle"
    BY <1>1 DEF Idle
  <1>8. SessionOK(y)
    BY <1>7 DEF SessionOK, Steps
  <1>9. TxnOK(txn[s], y)
    BY <1>4, <1>7 DEF TxnOK
  <1>10. StepOK(View, y, s)
    BY <1>5, <1>7, EmptySteps
  <1>11. CacheOK(cache')
    BY <1>3, <1>6, RebuiltIs
  <1>12. ASSUME ~torn', ~Reloading' PROVE IndexOK(View, session', cache')
    <2>1. PICK v, tes, c : v = View /\ tes = session' /\ c = cache'
      OBVIOUS
    <2>2. tes[s] = y /\ \A u \in Session \ {s} : tes[u] = session[u]
      BY <1>6, <2>1 DEF CatInv
    <2>3. x.read = rows /\ \A u \in Session \ {s} : ~session[u].indexed
      BY <1>1, <1>12 DEF Swap
    <2>4. v.rows = rows /\ v.rows \subseteq Row /\ Sound(v) /\ c = Rebuilt(v.rows)
      BY <1>6, <2>1, <2>3, ViewFields DEF CatInv
    <2>5. ASSUME NEW u \in Session
          PROVE  /\ \A r : ~Inserted(v, tes[u], u, r)
                 /\ \A r \in v.gone[u] : Removing(v, tes[u], u, r)
      <3>1. CASE u = s
        BY <1>5, <2>1, <3>1 DEF NoChanges, Inserted
      <3>2. CASE u # s
        <4>1. StepOK(v, session[u], u) /\ ~session[u].indexed /\ tes[u] = session[u]
          BY <2>1, <2>2, <2>3, <3>2 DEF CatInv
        <4> QED
          BY <4>1 DEF StepOK, Inserted
      <3> QED
        BY <3>1, <3>2
    <2>6. IndexOK(v, tes, c)
      BY <2>4, <2>5, IndexRebuilt
    <2> QED
      BY <2>1, <2>6
  <1> QED
    BY <1>6, <1>8, <1>9, <1>10, <1>11, <1>12, QuietKeeps

\* A session at rest.
LEMMA IdleOK == SessionOK(Idle) /\ TxnOK(NoTxn, Idle)
  <1>1. SessionOK(Idle)
    BY DEF SessionOK, Idle, Steps
  <1>2. TxnOK(NoTxn, Idle)
    BY DEF TxnOK, NoTxn, Idle
  <1> QED
    BY <1>1, <1>2

\* commit, of a block or of a statement.
LEMMA PublishKeeps ==
  ASSUME CatInv, NEW s \in Session, Publish(s), UNCHANGED <<cache, torn>>, txn[s].open,
         session[s].step \in {"idle", "finish"}
  PROVE  CatInv'
  <1>1. PICK t, touched : /\ t = txn[s]
                          /\ touched = Ids(t.new \cup t.gone) \cup t.made \cup t.unmade
    OBVIOUS
  <1>2. /\ rows' = (rows \ t.gone) \cup t.new /\ entries' = (entries \ t.unmade) \cup t.made
        /\ txn' = [txn EXCEPT ![s] = NoTxn]
    BY <1>1 DEF Publish
  <1>3. session' = [u \in Session |->
          IF u = s THEN Idle
          ELSE IF session[u].step \in {"idle", "doubt"} \/ ~txn[u].open THEN session[u]
          ELSE [session[u] EXCEPT !.stale = @ \cup touched]]
    BY <1>1 DEF Publish
  <1>4. TxnOK(t, session[s]) /\ t.open
    BY <1>1 DEF CatInv
  <1>5. rows' \subseteq Row /\ entries' \subseteq TableId /\ CacheOK(cache')
    BY <1>2, <1>4 DEF CatInv, TxnOK
  <1>6. /\ txn' = [u \in Session |-> txn'[u]] /\ txn'[s] = NoTxn
        /\ \A u \in Session \ {s} : txn'[u] = txn[u] /\ Alike(View, View', u)
    BY <1>2, ChangedView
  <1>7. NoChanges(View', s)
    BY <1>6, NextViewFields DEF NoTxn
  <1>8. /\ View.rows = rows /\ View.entries = entries /\ View.new[s] = t.new /\ View.gone[s] = t.gone
        /\ View.made[s] = t.made /\ View.unmade[s] = t.unmade
        /\ View'.rows = rows' /\ View'.entries = entries'
    BY <1>1, <1>4, ViewFields, NextViewFields
  <1>9. PICK v, w : v = View /\ w = View'
    OBVIOUS
  <1>10. Published(v, w, s)
    BY <1>2, <1>6, <1>7, <1>8, <1>9 DEF Published
  <1>11. Sound(v)
    BY <1>9 DEF CatInv
  <1>12. Sound(w)
    BY <1>10, <1>11, PublishedSound
  <1>13. ASSUME NEW u \in Session \ {s}
         PROVE  SessionOK(session'[u]) /\ Undisturbed(v, w, u, session[u], session'[u])
    <2>1. PICK x, y : x = session[u] /\ y = session'[u]
      OBVIOUS
    <2>2. SessionOK(x) /\ TxnOK(txn[u], x)
      BY <2>1 DEF CatInv
    <2>3. CASE session[u].step \in {"idle", "doubt"} \/ ~txn[u].open
      <3>1. y = x
        BY <1>3, <2>1, <2>3
      <3>2. x.step # "drop"
        BY <2>1, <2>2, <2>3 DEF TxnOK
      <3>3. SameStatement(x, y)
        BY <3>1 DEF SameStatement
      <3>4. Undisturbed(v, w, u, x, y)
        BY <1>10, <1>11, <3>2, <3>3, PublishedLeaves
      <3> QED
        BY <2>1, <2>2, <3>1, <3>4
    <2>4. CASE ~(session[u].step \in {"idle", "doubt"} \/ ~txn[u].open)
      <3>1. y = [x EXCEPT !.stale = x.stale \cup touched]
        BY <1>3, <2>1, <2>4
      <3>2. /\ DOMAIN y = DOMAIN x /\ y.stale = x.stale \cup touched
            /\ \A f \in DOMAIN x : f # "stale" => y[f] = x[f]
        BY <2>2, <3>1 DEF SessionOK
      <3>3. /\ y.explicit = x.explicit /\ y.ddl = x.ddl /\ y.indexed = x.indexed /\ y.step = x.step
            /\ "name" \in DOMAIN x => y.name = x.name
            /\ "row" \in DOMAIN x => y.row = x.row
            /\ "id" \in DOMAIN x => y.id = x.id
            /\ "read" \in DOMAIN x => y.read = x.read
        BY <2>2, <3>2 DEF SessionOK
      <3>4. SessionOK(y)
        BY <2>2, <3>2, <3>3 DEF SessionOK
      <3>5. SameStatement(x, y)
        BY <2>2, <3>2, <3>3 DEF SameStatement, SessionOK
      <3>6. y.stale = x.stale \cup (Ids(v.new[s] \cup v.gone[s]) \cup v.made[s] \cup v.unmade[s])
        BY <1>1, <1>8, <1>9, <3>2
      <3>7. Undisturbed(v, w, u, x, y)
        BY <1>10, <1>11, <3>5, <3>6, PublishedLeaves
      <3> QED
        BY <2>1, <3>4, <3>7
    <2> QED
      BY <2>3, <2>4
  <1>14. session'[s] = Idle /\ session' = [u \in Session |-> session'[u]]
    BY <1>3
  <1>15. SessionOK(session'[s]) /\ TxnOK(txn'[s], session'[s])
    BY <1>6, <1>14, IdleOK
  <1>16. StepOK(w, session'[s], s)
    <2>1. PICK y : y = session'[s]
      OBVIOUS
    <2>2. y.step = "idle" /\ y.explicit = FALSE /\ y.indexed = FALSE /\ NoChanges(w, s)
      BY <1>7, <1>9, <1>14, <2>1 DEF Idle
    <2>3. StepOK(w, y, s)
      BY <2>2, EmptySteps
    <2> QED
      BY <2>1, <2>3
  <1>17. ASSUME ~torn', ~Reloading' PROVE IndexOK(View', session', cache')
    <2>1. PICK ses, tes : ses = session /\ tes = session'
      OBVIOUS
    <2>2. \A u \in Session \ {s} : SameStatement(session[u], session'[u])
      BY <1>13 DEF Undisturbed
    <2>3. ~Reloading /\ ~torn
      BY <1>17, <2>2, StillReloading DEF At
    <2>4. IndexOK(v, ses, cache) /\ v.rows \subseteq Row /\ v.new[s] \subseteq Row
      BY <1>4, <1>8, <1>9, <2>1, <2>3 DEF CatInv, TxnOK
    <2>5. \A u \in Session \ {s} : Undisturbed(v, w, u, ses[u], tes[u])
      BY <1>13, <2>1
    <2>6. ses[s].step \notin {"insert", "drop", "remove"}
      BY <2>1
    <2>7. IndexOK(w, tes, cache)
      BY <1>10, <1>11, <2>4, <2>5, <2>6, IndexPublished
    <2> QED
      BY <1>9, <2>1, <2>7
  <1>18. /\ Sound(View') /\ StepOK(View', session'[s], s)
         /\ \A u \in Session \ {s} : /\ txn'[u] = txn[u] /\ SessionOK(session'[u])
                                     /\ Undisturbed(View, View', u, session[u], session'[u])
    BY <1>6, <1>9, <1>12, <1>13, <1>16
  <1> QED
    BY <1>5, <1>6, <1>14, <1>15, <1>17, <1>18, StepKeeps

\* No transaction is open, and the index has just been built.
LEMMA AtRestOK ==
  ASSUME NEW v, NEW ses, NEW c, v.rows \subseteq Row, \A r \in v.rows : r.id \in v.entries,
         \A r, q \in v.rows : r # q => Differ(r, q), c = Rebuilt(v.rows),
         \A s \in Session : ses[s] = Idle /\ NoChanges(v, s)
  PROVE  /\ Sound(v) /\ CacheOK(c) /\ IndexOK(v, ses, c)
         /\ \A s \in Session : StepOK(v, ses[s], s)
  <1>1. \A s \in Session : OwnOK(v, s)
    BY DEF OwnOK, NoChanges
  <1>2. \A s, u \in Session : Apart(v, s, u)
    BY DEF Apart, NoChanges
  <1>3. Sound(v)
    BY <1>1, <1>2 DEF Sound
  <1>4. CacheOK(c)
    BY RebuiltIs
  <1>5. \A s \in Session : /\ \A r : ~Inserted(v, ses[s], s, r)
                           /\ \A r \in v.gone[s] : Removing(v, ses[s], s, r)
    BY DEF NoChanges, Inserted
  <1>6. IndexOK(v, ses, c)
    BY <1>3, <1>5, IndexRebuilt
  <1>7. ASSUME NEW s \in Session PROVE StepOK(v, ses[s], s)
    <2>1. PICK y : y = ses[s]
      OBVIOUS
    <2>2. y.step = "idle" /\ y.explicit = FALSE /\ y.indexed = FALSE /\ NoChanges(v, s)
      BY <2>1 DEF Idle
    <2>3. StepOK(v, y, s)
      BY <2>2, EmptySteps
    <2> QED
      BY <2>1, <2>3
  <1> QED
    BY <1>3, <1>4, <1>6, <1>7

\* A commit that fails: to storage the transaction is still running, and the session
\* forgets it (in_transaction, control).
LEMMA DoubtKeeps ==
  ASSUME CatInv, NEW s \in Session, Doubt(s), UNCHANGED cache, txn[s].open,
         session[s].step \in {"idle", "finish"}
  PROVE  CatInv'
  <1>1. PICK x, y, v : /\ x = session[s] /\ v = View
                       /\ y = [Idle EXCEPT !.step = "doubt", !.indexed = session[s].indexed]
    OBVIOUS
  <1>2. SessionOK(x) /\ TxnOK(txn[s], x) /\ StepOK(v, x, s) /\ CacheOK(cache)
    BY <1>1 DEF CatInv
  <1>3. /\ y.step = "doubt" /\ y.indexed = x.indexed /\ y.explicit = FALSE /\ y.ddl = FALSE
        /\ DOMAIN y = {"explicit", "ddl", "indexed", "step", "stale"}
    BY <1>1 DEF Idle
  <1>4. SessionOK(y)
    BY <1>2, <1>3 DEF SessionOK, Steps
  <1>5. TxnOK(txn[s], y)
    BY <1>2, <1>3 DEF TxnOK
  <1>6. \A r : ~Removing(v, x, s, r)
    BY <1>1 DEF Removing
  <1>7. ~x.indexed => v.new[s] = {} /\ v.gone[s] = {}
    BY <1>1, <1>2, <1>6 DEF StepOK
  <1>8. StepOK(v, y, s)
    BY <1>3, <1>7 DEF StepOK
  <1>9. /\ session' = [session EXCEPT ![s] = y] /\ UNCHANGED <<rows, entries, txn>>
        /\ torn => torn'
    BY <1>1 DEF Doubt
  <1>10. ~At(s, "reload") /\ ~At(s, "swap") /\ ~At(s, "insert") /\ y.step # "insert"
    BY <1>3 DEF At
  <1>11. CacheOK(cache') /\ cache'.by_id = cache.by_id /\ cache'.by_name = cache.by_name
    BY <1>2
  <1> QED
    BY <1>1, <1>4, <1>5, <1>6, <1>8, <1>9, <1>10, <1>11, StatementKeeps

\* The transactions S are all committed.
AllPublished(v, w, S) ==
  /\ w.rows = (v.rows \ UNION {v.gone[s] : s \in S}) \cup UNION {v.new[s] : s \in S}
  /\ w.entries = (v.entries \ UNION {v.unmade[s] : s \in S}) \cup UNION {v.made[s] : s \in S}

\* What several committed transactions leave is sound, whichever they are (open).
LEMMA AllPublishedSound ==
  ASSUME NEW v, NEW w, NEW S \in SUBSET Session, Sound(v), AllPublished(v, w, S)
  PROVE  /\ \A r \in w.rows : r.id \in w.entries
         /\ \A r, q \in w.rows : r # q => Differ(r, q)
  <1>1. \A s \in S : OwnOK(v, s)
    BY DEF Sound
  <1>2. \A s, u \in S : s # u => Apart(v, s, u)
    BY DEF Sound
  <1>3. \A r \in w.rows : (r \in v.rows /\ \A s \in S : r \notin v.gone[s]) \/ \E s \in S : r \in v.new[s]
    BY DEF AllPublished
  <1>4. ASSUME NEW r \in w.rows PROVE r.id \in w.entries
    <2>1. CASE r \in v.rows /\ \A s \in S : r \notin v.gone[s]
      <3>1. r.id \in v.entries
        BY <2>1 DEF Sound
      <3>2. \A s \in S : r.id \notin v.unmade[s]
        BY <1>1, <2>1 DEF OwnOK
      <3> QED
        BY <3>1, <3>2 DEF AllPublished
    <2>2. ASSUME NEW s \in S, r \in v.new[s] PROVE r.id \in w.entries
      <3>1. r.id \in v.made[s]
        BY <1>1, <2>2 DEF OwnOK
      <3> QED
        BY <3>1 DEF AllPublished
    <2> QED
      BY <1>3, <2>1, <2>2
  <1>5. ASSUME NEW r \in w.rows, NEW s \in S, r \in v.new[s], NEW q \in w.rows, r # q
        PROVE  Differ(r, q)
    <2>1. CASE q \in v.rows /\ \A u \in S : q \notin v.gone[u]
      BY <1>1, <1>5, <2>1 DEF OwnOK, Differ
    <2>2. ASSUME NEW u \in S, q \in v.new[u] PROVE Differ(r, q)
      <3>1. CASE u = s
        BY <1>1, <1>5, <2>2, <3>1 DEF OwnOK
      <3>2. CASE u # s
        BY <1>2, <1>5, <2>2, <3>2 DEF Apart
      <3> QED
        BY <3>1, <3>2
    <2> QED
      BY <1>3, <2>1, <2>2
  <1>6. ASSUME NEW r \in w.rows, NEW q \in w.rows, r # q PROVE Differ(r, q)
    <2>1. CASE r \in v.rows /\ q \in v.rows
      BY <1>6, <2>1 DEF Sound
    <2>2. CASE \E s \in S : r \in v.new[s]
      BY <1>5, <1>6, <2>2
    <2>3. CASE \E s \in S : q \in v.new[s]
      <3>1. Differ(q, r)
        BY <1>5, <1>6, <2>3
      <3> QED
        BY <3>1 DEF Differ
    <2> QED
      BY <1>3, <2>1, <2>2, <2>3
  <1> QED
    BY <1>4, <1>6

\* open, after the server was stopped: the commits in doubt are settled, either way.
LEMMA RestartKeeps ==
  ASSUME CatInv, NEW S \in SUBSET {s \in Session : At(s, "doubt")}, Restart(S)
  PROVE  CatInv'
  <1>1. /\ txn' = [s \in Session |-> NoTxn] /\ session' = [s \in Session |-> Idle]
        /\ cache' = Rebuilt(rows')
        /\ rows' = (rows \ UNION {txn[s].gone : s \in S}) \cup UNION {txn[s].new : s \in S}
        /\ entries' = (entries \ UNION {txn[s].unmade : s \in S}) \cup UNION {txn[s].made : s \in S}
    BY DEF Restart
  <1>2. \A s \in Session : txn'[s] = NoTxn /\ session'[s] = Idle
    BY <1>1
  <1>3. /\ session' = [s \in Session |-> session'[s]] /\ txn' = [s \in Session |-> txn'[s]]
    BY <1>1
  <1>4. \A s \in Session : SessionOK(session'[s]) /\ TxnOK(txn'[s], session'[s])
    BY <1>2, IdleOK
  <1>5. PICK v, w : v = View /\ w = View'
    OBVIOUS
  <1>6. w.rows = rows' /\ w.entries = entries' /\ v.rows = rows /\ v.entries = entries
    BY <1>5 DEF View, ViewOf
  <1>7. \A s \in Session : NoChanges(w, s)
    BY <1>2, <1>5, NextViewFields DEF NoTxn
  <1>8. ASSUME NEW s \in S
        PROVE  /\ v.new[s] = txn[s].new /\ v.gone[s] = txn[s].gone
               /\ v.made[s] = txn[s].made /\ v.unmade[s] = txn[s].unmade
               /\ txn[s].new \subseteq Row /\ txn[s].made \subseteq TableId
    <2>1. s \in Session /\ TxnOK(txn[s], session[s]) /\ session[s].step = "doubt"
      BY DEF CatInv, At
    <2>2. txn[s].open
      BY <2>1 DEF TxnOK
    <2> QED
      BY <1>5, <2>1, <2>2, ViewFields DEF TxnOK
  <1>9. rows' \subseteq Row /\ entries' \subseteq TableId
    <2>1. rows \subseteq Row /\ entries \subseteq TableId
      BY DEF CatInv
    <2> QED
      BY <1>1, <1>8, <2>1
  <1>10. AllPublished(v, w, S)
    <2>1. /\ \A s \in S : v.new[s] = txn[s].new /\ v.gone[s] = txn[s].gone
          /\ \A s \in S : v.made[s] = txn[s].made /\ v.unmade[s] = txn[s].unmade
      BY <1>8
    <2>2. /\ UNION {v.new[s] : s \in S} = UNION {txn[s].new : s \in S}
          /\ UNION {v.gone[s] : s \in S} = UNION {txn[s].gone : s \in S}
      BY <2>1
    <2>3. /\ UNION {v.made[s] : s \in S} = UNION {txn[s].made : s \in S}
          /\ UNION {v.unmade[s] : s \in S} = UNION {txn[s].unmade : s \in S}
      BY <2>1
    <2> QED
      BY <1>1, <1>6, <2>2, <2>3 DEF AllPublished
  <1>11. Sound(v) /\ S \in SUBSET Session
    BY <1>5 DEF CatInv
  <1>12. /\ \A r \in w.rows : r.id \in w.entries
         /\ \A r, q \in w.rows : r # q => Differ(r, q)
    BY <1>10, <1>11, AllPublishedSound
  <1>13. /\ Sound(w) /\ CacheOK(cache') /\ IndexOK(w, session', cache')
         /\ \A s \in Session : StepOK(w, session'[s], s)
    <2>1. PICK ses, c : ses = session' /\ c = cache'
      OBVIOUS
    <2>2. c = Rebuilt(w.rows) /\ \A s \in Session : ses[s] = Idle /\ NoChanges(w, s)
      BY <1>1, <1>2, <1>6, <1>7, <2>1
    <2>3. Sound(w) /\ CacheOK(c) /\ IndexOK(w, ses, c) /\ \A s \in Session : StepOK(w, ses[s], s)
      BY <1>6, <1>9, <1>12, <2>2, AtRestOK
    <2> QED
      BY <2>1, <2>3
  <1> QED
    BY <1>3, <1>4, <1>5, <1>9, <1>13, Zenon DEF CatInv

\* An empty catalog.
LEMMA InitCatInv == Init => CatInv
  <1> SUFFICES ASSUME Init PROVE CatInv
    OBVIOUS
  <1>1. \A s \in Session : txn[s] = NoTxn /\ session[s] = Idle
    BY DEF Init
  <1>2. session = [s \in Session |-> session[s]] /\ txn = [s \in Session |-> txn[s]]
    BY DEF Init
  <1>3. \A s \in Session : SessionOK(session[s]) /\ TxnOK(txn[s], session[s])
    BY <1>1, IdleOK
  <1>4. PICK v : v = View
    OBVIOUS
  <1>5. v.rows = {} /\ v.entries = {} /\ rows = {} /\ entries = {}
    BY <1>4 DEF View, ViewOf, Init
  <1>6. \A s \in Session : NoChanges(v, s)
    BY <1>1, <1>4, ViewFields DEF NoTxn
  <1>7. PICK R, ses : R = Rebuilt({}) /\ ses = session
    BY Zenon
  <1>8. Sound(v) /\ CacheOK(R) /\ IndexOK(v, ses, R) /\ \A s \in Session : StepOK(v, ses[s], s)
    BY <1>1, <1>5, <1>6, <1>7, AtRestOK
  <1>9. DOMAIN R.by_id = {} /\ DOMAIN R.by_name = {}
    BY <1>7, RebuiltIs DEF Ids
  <1>10. PICK c : c = cache
    OBVIOUS
  <1>11. c = [by_name |-> Empty, by_id |-> Empty, next_id |-> 1] /\ DOMAIN Empty = {}
    BY <1>10 DEF Init, Empty
  <1>12. c.by_name = Empty /\ c.by_id = Empty /\ c.next_id = 1
    BY <1>11
  <1>13. CacheOK(c)
    BY <1>11, <1>12, CatalogAssumption DEF CacheOK, Empty
  <1>14. IndexOK(v, ses, c)
    <2>1. \A r \in Listed(v, ses) : FALSE
      BY <1>8, <1>9 DEF IndexOK
    <2>2. Inverse(c)
      BY <1>11, <1>12 DEF Inverse
    <2> QED
      BY <1>11, <1>12, <2>1, <2>2 DEF IndexOK
  <1> QED
    BY <1>2, <1>3, <1>4, <1>5, <1>7, <1>8, <1>10, <1>13, <1>14 DEF CatInv
-----------------------------------------------------------------------------
(* Theorems *)

\* Every step keeps the invariant.
LEMMA NextCatInv == CatInv /\ [Next]_vars => CatInv'
  <1> SUFFICES ASSUME CatInv, [Next]_vars PROVE CatInv'
    OBVIOUS
  <1>1. CASE UNCHANGED vars
    BY <1>1 DEF vars, CatInv, View, Reloading
  <1>2. ASSUME NEW S \in SUBSET {s \in Session : At(s, "doubt")}, Restart(S) PROVE CatInv'
    BY <1>2, RestartKeeps
  <1>3. ASSUME NEW s \in Session,
               \/ Begin(s) \/ Commit(s) \/ Rollback(s) \/ Finish(s)
               \/ \E n \in Name : StartCreate(s, n)
               \/ \E l \in NameList : StartDrop(s, l)
               \/ reserve_id(s) \/ create_table(s) \/ record_table(s) \/ InsertTable(s)
               \/ Lookup(s) \/ delete_rows(s) \/ drop_table(s) \/ RemoveTable(s)
               \/ ReadAll(s) \/ Swap(s)
        PROVE  CatInv'
    <2>0. TxnOK(txn[s], session[s])
      BY DEF CatInv
    <2>1. CASE Begin(s)
      BY <2>1, BeginKeeps
    <2>2. CASE Commit(s)
      <3>1. txn[s].open /\ session[s].step = "idle"
        BY <2>0, <2>2 DEF Commit, At, TxnOK
      <3> QED
        BY <2>2, <3>1, PublishKeeps, DoubtKeeps DEF Commit, storage_commit
    <2>3. CASE Rollback(s)
      BY <2>3, RollbackKeeps
    <2>4. CASE Finish(s)
      <3>1. txn[s].open /\ session[s].step = "finish"
        BY <2>0, <2>4 DEF Finish, At, TxnOK
      <3> QED
        BY <2>4, <3>1, PublishKeeps, DoubtKeeps DEF Finish, storage_commit
    <2>5. ASSUME NEW n \in Name, StartCreate(s, n) PROVE CatInv'
      <3>1. PICK first : first = [step |-> "reserve", name |-> n]
        OBVIOUS
      <3>2. Start(s, first) /\ first.step = "reserve" /\ DOMAIN first = {"step", "name"} /\ first.name \in Name
        BY <2>5, <3>1 DEF StartCreate
      <3> QED
        BY <3>2, StartKeeps
    <2>6. ASSUME NEW l, StartDrop(s, l) PROVE CatInv'
      <3>1. PICK first : first = [step |-> "lookup", names |-> l]
        OBVIOUS
      <3>2. Start(s, first) /\ first.step = "lookup" /\ DOMAIN first = {"step", "names"}
        BY <2>6, <3>1 DEF StartDrop
      <3> QED
        BY <3>2, StartKeeps
    <2>7. CASE reserve_id(s) \/ create_table(s) \/ record_table(s) \/ InsertTable(s)
      BY <2>7, ReserveKeeps, CreateKeeps, RecordKeeps, InsertKeeps
    <2>8. CASE Lookup(s) \/ delete_rows(s) \/ drop_table(s) \/ RemoveTable(s)
      BY <2>8, LookupKeeps, DeleteKeeps, DropKeeps, RemoveKeeps
    <2>9. CASE ReadAll(s) \/ Swap(s)
      BY <2>9, ReadKeeps, SwapKeeps
    <2> QED
      BY <1>3, <2>1, <2>2, <2>3, <2>4, <2>5, <2>6, <2>7, <2>8, <2>9
  <1> QED
    BY <1>1, <1>2, <1>3 DEF Next

\* The invariant: sessions and transactions are well formed, tables are sound
\* in every transaction and between them, each statement is where its
\* transaction says, and the index has the tables it should have, unless it is
\* torn or about to be reloaded.
THEOREM CatInvariance == Spec => []CatInv
  BY InitCatInv, NextCatInv, PTL DEF Spec

\* A commit in doubt that has changed the index counts as torn.
DoubtInv == torn \/ \A s \in Session : session[s].step = "doubt" => ~session[s].indexed

\* A step of s that leaves no commit in doubt.
Certain(s) ==
  /\ torn => torn'
  /\ session'[s].step # "doubt"
  /\ \A u \in Session \ {s} : session'[u].step = session[u].step /\ session'[u].indexed = session[u].indexed

\* The session is set to y, by a statement or by itself.
LEMMA SetCertain ==
  ASSUME CatInv, NEW s \in Session, NEW y, session' = [session EXCEPT ![s] = y], y.step # "doubt",
         torn => torn'
  PROVE  Certain(s)
  BY DEF Certain, CatInv

\* The statement goes on with the fields of `more`.
LEMMA ResumeCertain ==
  ASSUME CatInv, NEW s \in Session, NEW more, Resume(s, more), "step" \in DOMAIN more,
         more.step # "doubt", torn => torn'
  PROVE  Certain(s)
  <1>1. PICK y : y = Keep(s, more)
    BY Zenon
  <1>2. y.step = more.step
    BY <1>1 DEF Keep
  <1>3. session' = [session EXCEPT ![s] = y]
    BY <1>1 DEF Resume
  <1> QED
    BY <1>2, <1>3, SetCertain

\* The statement goes on to the next step.
LEMMA GotoCertain ==
  ASSUME CatInv, NEW s \in Session, NEW step, Goto(s, step), step # "doubt", torn => torn'
  PROVE  Certain(s)
  <1>1. SessionOK(session[s])
    BY DEF CatInv
  <1>2. PICK y : y = [session[s] EXCEPT !.step = step]
    OBVIOUS
  <1>3. y.step = step
    BY <1>1, <1>2 DEF SessionOK
  <1>4. session' = [session EXCEPT ![s] = y]
    BY <1>2 DEF Goto
  <1> QED
    BY <1>3, <1>4, SetCertain

\* A statement that fails.
LEMMA FailCertain ==
  ASSUME CatInv, NEW s \in Session, Fail(s)
  PROVE  Certain(s)
  <1>1. CASE session[s].explicit
    <2>1. PICK more : more = [step |-> "idle", stale |-> {}]
      OBVIOUS
    <2>2. Resume(s, more) /\ (torn => torn') /\ "step" \in DOMAIN more /\ more.step = "idle"
      BY <1>1, <2>1 DEF Fail
    <2> QED
      BY <2>2, ResumeCertain
  <1>2. CASE ~session[s].explicit
    <2>1. session' = [session EXCEPT ![s] = Idle] /\ (torn => torn') /\ Idle.step = "idle"
      BY <1>2 DEF Fail, Idle
    <2> QED
      BY <2>1, SetCertain
  <1> QED
    BY <1>1, <1>2

\* The end of a statement that succeeded.
LEMMA DoneStep ==
  ASSUME NEW s
  PROVE  "step" \in DOMAIN Done(s) /\ Done(s).step # "doubt"
  BY DEF Done

\* BEGIN, ROLLBACK and the start of a statement.
LEMMA BlockCertain ==
  ASSUME CatInv, NEW s \in Session,
         \/ Begin(s) \/ Rollback(s)
         \/ \E n \in Name : StartCreate(s, n)
         \/ \E l \in NameList : StartDrop(s, l)
  PROVE  Certain(s)
  <1>1. CASE Begin(s)
    <2>1. SessionOK(session[s])
      BY DEF CatInv
    <2>2. PICK y : y = [session[s] EXCEPT !.explicit = TRUE]
      OBVIOUS
    <2>3. y.step = "idle"
      BY <1>1, <2>1, <2>2 DEF Begin, At, SessionOK
    <2>4. session' = [session EXCEPT ![s] = y] /\ (torn => torn')
      BY <1>1, <2>2 DEF Begin
    <2> QED
      BY <2>3, <2>4, SetCertain
  <1>2. CASE Rollback(s)
    <2>1. PICK y : y = [Idle EXCEPT !.step = IF session[s].ddl THEN "reload" ELSE "idle"]
      OBVIOUS
    <2>2. y.step # "doubt"
      BY <2>1 DEF Idle
    <2>3. session' = [session EXCEPT ![s] = y] /\ (torn => torn')
      BY <1>2, <2>1 DEF Rollback
    <2> QED
      BY <2>2, <2>3, SetCertain
  <1>3. ASSUME NEW first, Start(s, first), first.step # "doubt", "step" \in DOMAIN first PROVE Certain(s)
    <2>1. PICK more : more = [f \in DOMAIN first \cup {"ddl"} |->
                                IF f = "ddl" THEN session[s].explicit ELSE first[f]]
      OBVIOUS
    <2>2. "step" \in DOMAIN more /\ more.step = first.step
      BY <1>3, <2>1
    <2>3. Resume(s, more) /\ (torn => torn')
      BY <1>3, <2>1 DEF Start
    <2> QED
      BY <1>3, <2>2, <2>3, ResumeCertain
  <1>4. ASSUME NEW n, StartCreate(s, n) PROVE Certain(s)
    <2>1. PICK first : first = [step |-> "reserve", name |-> n]
      OBVIOUS
    <2> QED
      BY <1>3, <1>4, <2>1 DEF StartCreate
  <1>5. ASSUME NEW l, StartDrop(s, l) PROVE Certain(s)
    <2>1. PICK first : first = [step |-> "lookup", names |-> l]
      OBVIOUS
    <2> QED
      BY <1>3, <1>5, <2>1 DEF StartDrop
  <1> QED
    BY <1>1, <1>2, <1>4, <1>5

\* The steps of CREATE TABLE.
LEMMA CreateCertain ==
  ASSUME CatInv, NEW s \in Session,
         reserve_id(s) \/ create_table(s) \/ record_table(s) \/ InsertTable(s)
  PROVE  Certain(s)
  <1>1. CASE reserve_id(s)
    <2>1. CASE Fail(s)
      BY <2>1, FailCertain
    <2>2. CASE ~Fail(s)
      <3>1. PICK more : more = [step |-> "storage", row |-> [id |-> cache.next_id, name |-> session[s].name]]
        OBVIOUS
      <3>2. Resume(s, more) /\ (torn => torn')
        BY <1>1, <2>2, <3>1, Zenon DEF reserve_id
      <3>3. "step" \in DOMAIN more /\ more.step = "storage"
        BY <3>1
      <3> QED
        BY <3>2, <3>3, ResumeCertain
    <2> QED
      BY <2>1, <2>2
  <1>2. CASE create_table(s)
    <2>1. Fail(s) \/ (Goto(s, "record") /\ (torn => torn'))
      BY <1>2, Zenon DEF create_table
    <2> QED
      BY <2>1, FailCertain, GotoCertain
  <1>3. CASE record_table(s)
    <2>1. Fail(s) \/ (Goto(s, "insert") /\ (torn => torn'))
      BY <1>3, Zenon DEF record_table
    <2> QED
      BY <2>1, FailCertain, GotoCertain
  <1>4. CASE InsertTable(s)
    <2>1. Resume(s, Done(s)) /\ (torn => torn')
      BY <1>4 DEF InsertTable
    <2> QED
      BY <2>1, DoneStep, ResumeCertain
  <1> QED
    BY <1>1, <1>2, <1>3, <1>4

\* The steps of DROP TABLE.
LEMMA DropCertain ==
  ASSUME CatInv, NEW s \in Session,
         Lookup(s) \/ delete_rows(s) \/ drop_table(s) \/ RemoveTable(s)
  PROVE  Certain(s)
  <1>1. CASE Lookup(s)
    <2>1. CASE Fail(s)
      BY <2>1, FailCertain
    <2>2. CASE ~Fail(s)
      <3>1. PICK more : more = [step |-> "delete", names |-> Tail(session[s].names),
                                id |-> cache.by_name[Head(session[s].names)]]
        OBVIOUS
      <3>2. Resume(s, more) /\ (torn => torn')
        BY <1>1, <2>2, <3>1, Zenon DEF Lookup
      <3>3. "step" \in DOMAIN more /\ more.step = "delete"
        BY <3>1
      <3> QED
        BY <3>2, <3>3, ResumeCertain
    <2> QED
      BY <2>1, <2>2
  <1>2. CASE delete_rows(s)
    <2>1. Fail(s) \/ (Goto(s, "drop") /\ (torn => torn'))
      BY <1>2, Zenon DEF delete_rows
    <2> QED
      BY <2>1, FailCertain, GotoCertain
  <1>3. CASE drop_table(s)
    <2>1. Fail(s) \/ (Goto(s, "remove") /\ (torn => torn'))
      BY <1>3, Zenon DEF drop_table
    <2> QED
      BY <2>1, FailCertain, GotoCertain
  <1>4. CASE RemoveTable(s)
    <2>1. PICK more : more = IF session[s].names = <<>> THEN Done(s)
                             ELSE [step |-> "lookup", names |-> session[s].names, indexed |-> TRUE]
      BY Zenon
    <2>2. Resume(s, more) /\ (torn => torn')
      BY <1>4, <2>1 DEF RemoveTable
    <2>3. "step" \in DOMAIN more /\ more.step # "doubt"
      BY <2>1, DoneStep
    <2> QED
      BY <2>2, <2>3, ResumeCertain
  <1> QED
    BY <1>1, <1>2, <1>3, <1>4

\* The two steps of a reload.
LEMMA ReloadCertain ==
  ASSUME CatInv, NEW s \in Session, ReadAll(s) \/ Swap(s)
  PROVE  Certain(s)
  <1>1. CASE ReadAll(s)
    <2>1. PICK more : more = [step |-> "swap", read |-> rows]
      OBVIOUS
    <2>2. Resume(s, more) /\ (torn => torn') /\ "step" \in DOMAIN more /\ more.step = "swap"
      BY <1>1, <2>1 DEF ReadAll
    <2> QED
      BY <2>2, ResumeCertain
  <1>2. CASE Swap(s)
    <2>1. session' = [session EXCEPT ![s] = Idle] /\ (torn => torn') /\ Idle.step = "idle"
      BY <1>2 DEF Swap, Idle
    <2> QED
      BY <2>1, SetCertain
  <1> QED
    BY <1>1, <1>2

\* A commit that succeeds.
LEMMA PublishCertain ==
  ASSUME CatInv, NEW s \in Session, Publish(s), UNCHANGED torn
  PROVE  Certain(s)
  <1>1. PICK touched : session' = [u \in Session |->
          IF u = s THEN Idle
          ELSE IF session[u].step \in {"idle", "doubt"} \/ ~txn[u].open THEN session[u]
          ELSE [session[u] EXCEPT !.stale = @ \cup touched]]
    BY DEF Publish
  <1>2. session'[s].step # "doubt"
    BY <1>1 DEF Idle
  <1>3. ASSUME NEW u \in Session \ {s}
        PROVE  session'[u].step = session[u].step /\ session'[u].indexed = session[u].indexed
    <2>1. SessionOK(session[u])
      BY DEF CatInv
    <2> QED
      BY <1>1, <2>1 DEF SessionOK
  <1> QED
    BY <1>2, <1>3 DEF Certain

\* Only a restart forgets that the index is torn, and only a failed commit leaves its
\* transaction in doubt (commit, open).
LEMMA DoubtsCount == Spec => []DoubtInv
  <1>1. Init => DoubtInv
    BY DEF Init, DoubtInv, Idle
  <1>2. ASSUME CatInv, DoubtInv, [Next]_vars PROVE DoubtInv'
    <2>1. CASE UNCHANGED vars
      BY <1>2, <2>1 DEF vars, DoubtInv
    <2>2. ASSUME NEW S, Restart(S) PROVE DoubtInv'
      BY <2>2 DEF Restart, DoubtInv, Idle
    <2>3. ASSUME NEW s \in Session, Certain(s) PROVE DoubtInv'
      BY <1>2, <2>3 DEF Certain, DoubtInv
    <2>4. ASSUME NEW s \in Session, Doubt(s) PROVE DoubtInv'
      <3>1. PICK y : y = [Idle EXCEPT !.step = "doubt", !.indexed = session[s].indexed]
        OBVIOUS
      <3>2. session' = [session EXCEPT ![s] = y] /\ torn' = (torn \/ session[s].indexed)
        BY <2>4, <3>1 DEF Doubt
      <3>3. y.indexed = session[s].indexed
        BY <3>1 DEF Idle
      <3>4. session'[s] = y /\ \A u \in Session \ {s} : session'[u] = session[u]
        BY <1>2, <3>2 DEF CatInv
      <3> QED
        BY <1>2, <3>2, <3>3, <3>4 DEF DoubtInv
    <2>5. ASSUME NEW s \in Session, Commit(s) \/ Finish(s) PROVE DoubtInv'
      BY <1>2, <2>3, <2>4, <2>5, PublishCertain DEF Commit, Finish, storage_commit
    <2>6. ASSUME NEW s \in Session,
                 \/ Begin(s) \/ Rollback(s)
                 \/ \E n \in Name : StartCreate(s, n)
                 \/ \E l \in NameList : StartDrop(s, l)
                 \/ reserve_id(s) \/ create_table(s) \/ record_table(s) \/ InsertTable(s)
                 \/ Lookup(s) \/ delete_rows(s) \/ drop_table(s) \/ RemoveTable(s)
                 \/ ReadAll(s) \/ Swap(s)
          PROVE  DoubtInv'
      <3>1. Certain(s)
        BY <1>2, <2>6, BlockCertain, CreateCertain, DropCertain, ReloadCertain
      <3> QED
        BY <2>3, <3>1
    <2> QED
      BY <1>2, <2>1, <2>2, <2>5, <2>6, Zenon DEF Next
  <1> QED
    BY <1>1, <1>2, CatInvariance, PTL DEF Spec

\* Every component has its type, and a session has a transaction exactly in a
\* statement or between BEGIN and COMMIT (SessionState, Cache).
THEOREM CatTypeCorrect == Spec => []TypeOK
  <1>1. CatInv => TypeOK
    BY DEF CatInv, TypeOK, CacheOK, TxnOK
  <1> QED
    BY <1>1, CatInvariance, PTL

\* A table that is listed has its storage, and no two share an id or a name
\* (create_table_in, drop_table_in).
THEOREM ListedTables == Spec => []ListedTablesAreSound
  <1>1. CatInv => ListedTablesAreSound
    <2> SUFFICES ASSUME CatInv PROVE ListedTablesAreSound
      OBVIOUS
    <2>1. View.rows = rows /\ View.entries = entries
      BY DEF View, ViewOf
    <2>2. Sound(View)
      BY DEF CatInv
    <2>3. /\ \A r \in rows : r.id \in entries
          /\ \A r, q \in rows : r # q => Differ(r, q)
      BY <2>1, <2>2 DEF Sound
    <2> QED
      BY <2>3 DEF ListedTablesAreSound, Ids, Differ
  <1> QED
    BY <1>1, CatInvariance, PTL

\* With no statement or transaction open, lookups find exactly the committed
\* tables, unless since the last start an autocommitted statement failed after
\* it had changed the index, the commit of a transaction that had changed it
\* failed, or a reload overwrote another session's changes (in_transaction,
\* control, reload).
THEOREM IndexFaults == Spec => []IndexFaultsHaveThreeOrigins
  <1>1. ASSUME CatInv, DoubtInv, AtRest, ~torn PROVE IndexIsRight
    <2>1. \A s \in Session : session[s] = Idle \/ (session[s].step = "doubt" /\ ~session[s].indexed)
      BY <1>1 DEF AtRest, At, DoubtInv
    <2>2. ~Reloading
      BY <2>1 DEF Reloading, Idle
    <2>3. PICK v, c, ses : v = View /\ c = cache /\ ses = session
      OBVIOUS
    <2>4. IndexOK(v, ses, c) /\ Sound(v) /\ CacheOK(c) /\ rows \subseteq Row
      BY <1>1, <2>2, <2>3 DEF CatInv
    <2>5. \A s \in Session : v.new[s] = {} /\ v.gone[s] = {}
      <3>1. ASSUME NEW s \in Session, session[s] = Idle PROVE v.new[s] = {} /\ v.gone[s] = {}
        <4>1. TxnOK(txn[s], Idle)
          BY <1>1, <3>1 DEF CatInv
        <4>2. Idle.explicit = FALSE /\ Idle.step = "idle"
          BY DEF Idle
        <4>3. ~txn[s].open
          BY <4>1, <4>2 DEF TxnOK
        <4> QED
          BY <2>3, <4>3, ViewFields DEF NoChanges
      <3>2. ASSUME NEW s \in Session, session[s].step = "doubt", ~session[s].indexed
            PROVE  v.new[s] = {} /\ v.gone[s] = {}
        <4>1. PICK x : x = session[s]
          OBVIOUS
        <4>2. StepOK(v, x, s) /\ x.step = "doubt" /\ ~x.indexed
          BY <1>1, <2>3, <3>2, <4>1 DEF CatInv
        <4> QED
          BY <4>2 DEF StepOK, Removing
      <3> QED
        BY <2>1, <3>1, <3>2
    <2>6. v.rows = rows
      BY <2>3 DEF View, ViewOf
    <2>7. Listed(v, ses) = rows
      BY <2>4, <2>5, <2>6 DEF Listed, Inserted
    <2>8. \A s \in Session : \A r : ~Removing(v, ses[s], s, r)
      BY <2>1, <2>3 DEF Removing, Idle
    <2>9. PICK R : R = Rebuilt(rows)
      BY Zenon
    <2>10. /\ CacheOK(R) /\ DOMAIN R.by_id = Ids(rows) /\ \A r \in rows : R.by_id[r.id] = r.name
           /\ DOMAIN R.by_name = {r.name : r \in rows} /\ \A r \in rows : R.by_name[r.name] = r.id
      BY <2>4, <2>6, <2>9, RebuiltIs DEF Sound
    <2>11. /\ \A r \in rows : r.id \in DOMAIN c.by_id /\ c.by_id[r.id] = r.name
           /\ \A i \in DOMAIN c.by_id : \E r \in rows : r.id = i /\ r.name = c.by_id[i]
      BY <2>4, <2>7, <2>8 DEF IndexOK
    <2>12. c.by_id = R.by_id
      <3>1. DOMAIN c.by_id = DOMAIN R.by_id
        BY <2>10, <2>11 DEF Ids
      <3>2. \A i \in DOMAIN c.by_id : c.by_id[i] = R.by_id[i]
        BY <2>10, <2>11
      <3> QED
        BY <2>4, <2>10, <3>1, <3>2 DEF CacheOK
    <2>13. Inverse(c)
      BY <2>4 DEF IndexOK
    <2>14. /\ \A r \in rows : r.name \in DOMAIN c.by_name /\ c.by_name[r.name] = r.id
           /\ \A n \in DOMAIN c.by_name : \E r \in rows : r.name = n
      BY <2>11, <2>13 DEF Inverse
    <2>15. c.by_name = R.by_name
      <3>1. DOMAIN c.by_name = DOMAIN R.by_name
        BY <2>10, <2>14
      <3>2. \A n \in DOMAIN c.by_name : c.by_name[n] = R.by_name[n]
        BY <2>10, <2>14
      <3> QED
        BY <2>4, <2>10, <3>1, <3>2 DEF CacheOK
    <2> QED
      BY <2>3, <2>9, <2>12, <2>15 DEF IndexIsRight
  <1> QED
    BY <1>1, CatInvariance, DoubtsCount, PTL DEF IndexFaultsHaveThreeOrigins
=============================================================================
