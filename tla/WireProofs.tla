----------------------------- MODULE WireProofs -----------------------------
(***************************************************************************)
(* Proofs about Wire, for any texts of any number of statements, any names *)
(* of statements and portals and any number of rows: what the client is    *)
(* told of its transaction, its portals and its results is true.           *)
(***************************************************************************)
EXTENDS Wire, TLAPS, WellFoundedInduction
-----------------------------------------------------------------------------
(* Texts *)

\* Induction over the naturals, for a set.
LEMMA SetInduction ==
  ASSUME NEW S, 0 \in S, \A n \in Nat : n \in S => n + 1 \in S
  PROVE  Nat \subseteq S
  <1> SUFFICES ASSUME ~(Nat \subseteq S) PROVE FALSE
    OBVIOUS
  <1>1. PICK R : R = OpToRel(<, Nat) /\ IsWellFoundedOn(R, Nat)
    BY NatLessThanWellFounded
  <1>2. \A x, y \in Nat : <<x, y>> \in R <=> x < y
    BY <1>1 DEF OpToRel
  <1>3. PICK T : T = Nat \ S
    OBVIOUS
  <1>4. PICK m \in T : \A y \in T : ~(<<y, m>> \in R)
    <2>1. T \subseteq Nat /\ T # {}
      BY <1>3
    <2> QED
      BY <1>1, <2>1, WFMin
  <1>5. m \in Nat /\ m # 0 /\ m \notin S
    BY <1>3, <1>4
  <1>6. m - 1 \in Nat /\ m - 1 < m
    BY <1>5
  <1>7. m - 1 \in S
    BY <1>2, <1>3, <1>4, <1>5, <1>6
  <1> QED
    BY <1>5, <1>6, <1>7

\* g is what Results computes, up to statement k of the text.
Follows(g, start, sql, k) ==
  g = [n \in 0 .. k |-> IF n = 0 THEN {start} ELSE Then(g[n - 1], sql[n])]

\* Running a text statement by statement is well defined.
LEMMA FollowsExists ==
  ASSUME NEW start, NEW sql
  PROVE  \A k \in Nat : \E g : Follows(g, start, sql, k)
  <1> DEFINE S == {k \in Nat : \E g : Follows(g, start, sql, k)}
  <1>1. 0 \in S
    <2>1. PICK g : g = [n \in 0 .. 0 |-> {start}]
      OBVIOUS
    <2>2. Follows(g, start, sql, 0)
      BY <2>1 DEF Follows
    <2> QED
      BY <2>2
  <1>2. ASSUME NEW k \in Nat, k \in S PROVE k + 1 \in S
    <2>1. PICK g : Follows(g, start, sql, k)
      BY <1>2
    <2>2. PICK h : h = [n \in 0 .. k + 1 |-> IF n = k + 1 THEN Then(g[k], sql[k + 1]) ELSE g[n]]
      OBVIOUS
    <2>3. /\ DOMAIN g = 0 .. k
          /\ \A n \in 0 .. k : g[n] = IF n = 0 THEN {start} ELSE Then(g[n - 1], sql[n])
      BY <2>1 DEF Follows
    <2>4. /\ DOMAIN h = 0 .. k + 1 /\ h[k + 1] = Then(g[k], sql[k + 1])
          /\ \A n \in 0 .. k : h[n] = g[n]
      BY <2>2
    <2>5. ASSUME NEW n \in 0 .. k + 1
          PROVE  h[n] = IF n = 0 THEN {start} ELSE Then(h[n - 1], sql[n])
      <3>1. CASE n = k + 1
        <4>1. n # 0 /\ n - 1 = k /\ k \in 0 .. k
          BY <3>1
        <4>2. h[n - 1] = g[k]
          BY <2>4, <4>1
        <4> QED
          BY <2>4, <3>1, <4>1, <4>2
      <3>2. CASE n # k + 1
        <4>1. n \in 0 .. k /\ (n # 0 => n - 1 \in 0 .. k)
          BY <3>2
        <4> QED
          BY <2>3, <2>4, <4>1
      <3> QED
        BY <3>1, <3>2
    <2>6. h = [n \in 0 .. k + 1 |-> h[n]]
      BY <2>2
    <2>7. Follows(h, start, sql, k + 1)
      BY <2>5, <2>6 DEF Follows
    <2> QED
      BY <2>7
  <1>3. Nat \subseteq S
    <2> HIDE DEF S
    <2> QED
      BY <1>1, <1>2, SetInduction
  <1> QED
    BY <1>3

\* What a text leaves behind: the start if it is empty, an outcome of its
\* statement if it is one, and in any case nothing that its statements, one
\* after the other, do not lead to.
LEMMA ResultsAre ==
  ASSUME NEW start, NEW sql, Len(sql) \in Nat, NEW T, start \in T,
         \A o \in T : \A n \in 1 .. Len(sql) : o.ok => Outcomes(o, sql[n]) \subseteq T
  PROVE  /\ Len(sql) = 0 => Results(start, sql) = {start}
         /\ Len(sql) = 1 => Results(start, sql) = Then({start}, sql[1])
         /\ Results(start, sql) \subseteq T
  <1>1. PICK after :
          /\ after = CHOOSE g : g = [n \in 0 .. Len(sql) |->
                                      IF n = 0 THEN {start} ELSE Then(g[n - 1], sql[n])]
          /\ Results(start, sql) = after[Len(sql)]
    BY Zenon DEF Results
  <1>2. Follows(after, start, sql, Len(sql))
    <2>1. \E g : Follows(g, start, sql, Len(sql))
      BY FollowsExists
    <2>2. after = CHOOSE g : Follows(g, start, sql, Len(sql))
      BY <1>1, Zenon DEF Follows
    <2> QED
      BY <2>1, <2>2, Zenon
  <1>3. \A n \in 0 .. Len(sql) : after[n] = IF n = 0 THEN {start} ELSE Then(after[n - 1], sql[n])
    BY <1>2 DEF Follows
  <1> DEFINE S == {n \in Nat : n <= Len(sql) => after[n] \subseteq T}
  <1>4. 0 \in S
    BY <1>3
  <1>5. ASSUME NEW n \in Nat, n \in S PROVE n + 1 \in S
    <2> SUFFICES ASSUME n + 1 <= Len(sql) PROVE after[n + 1] \subseteq T
      OBVIOUS
    <2>1. after[n] \subseteq T /\ n + 1 \in 0 .. Len(sql) /\ n + 1 \in 1 .. Len(sql)
      BY <1>5
    <2>2. after[n + 1] = Then(after[n], sql[n + 1])
      BY <1>3, <2>1
    <2> QED
      BY <2>1, <2>2 DEF Then
  <1>6. Nat \subseteq S
    <2> HIDE DEF S
    <2> QED
      BY <1>4, <1>5, SetInduction
  <1>7. Results(start, sql) \subseteq T
    BY <1>1, <1>6
  <1>8. Len(sql) = 0 => Results(start, sql) = {start}
    BY <1>1, <1>3
  <1>9. ASSUME Len(sql) = 1 PROVE Results(start, sql) = Then({start}, sql[1])
    <2>1. after[0] = {start} /\ after[1] = Then(after[0], sql[1])
      BY <1>3, <1>9
    <2> QED
      BY <1>1, <1>9, <2>1
  <1> QED
    BY <1>7, <1>8, <1>9
-----------------------------------------------------------------------------
(* Outcomes *)

Kind == {"begin", "commit", "rollback", "query"}

\* A transaction past its budget is open.
Outcome ==
  {o \in [ok: BOOLEAN, open: BOOLEAN, old: BOOLEAN,
          said: {"None", "InTransaction", "Idle"}, rows: Nat] : o.old => o.open}

\* What outcome o of a single statement, in a session with a transaction open
\* or not, says of the transaction after it.
Tells(o, open) ==
  /\ o.ok /\ o.said = "None" => o.open = open
  /\ o.ok /\ o.said = "InTransaction" => o.open
  /\ o.ok /\ o.said = "Idle" => ~o.open
  /\ ~o.ok => o.said = "None" /\ (o.open => open)

\* Every outcome of a statement is of that kind (begin, commit, rollback and
\* run_statement of the server's engine.rs).
LEMMA OutcomesOK ==
  ASSUME NEW s \in Outcome, NEW kind \in Kind, NEW o \in Outcomes(s, kind), s.ok
  PROVE  o \in Outcome /\ Tells(o, s.open)
  <1>1. PICK ok \in BOOLEAN, open \in BOOLEAN, old0 \in BOOLEAN,
             said \in {"None", "InTransaction", "Idle"}, rows \in Nat :
          /\ s = [ok |-> ok, open |-> open, old |-> old0, said |-> said, rows |-> rows]
          /\ ok = TRUE /\ (old0 => open)
    BY DEF Outcome
  <1>2. \/ kind = "begin" /\ o = [ok |-> TRUE, open |-> TRUE, old |-> old0,
                                  said |-> "InTransaction", rows |-> 0]
        \/ kind = "begin" /\ ~open /\ o = [ok |-> FALSE, open |-> open, old |-> old0,
                                           said |-> "None", rows |-> 0]
        \/ kind \in {"commit", "rollback"} /\ o = [ok |-> TRUE, open |-> FALSE, old |-> FALSE,
                                                   said |-> "Idle", rows |-> 0]
        \/ o = [ok |-> FALSE, open |-> FALSE, old |-> FALSE, said |-> "None", rows |-> 0]
        \/ \E n \in 0 .. MaxRows : o = [ok |-> TRUE, open |-> open, old |-> old0,
                                        said |-> "None", rows |-> n]
        \/ o = [ok |-> FALSE, open |-> open, old |-> old0, said |-> "None", rows |-> 0]
    BY <1>1 DEF Outcomes, Kind
  <1>3. ASSUME NEW a \in BOOLEAN, NEW b \in BOOLEAN, NEW c \in BOOLEAN,
               NEW d \in {"None", "InTransaction", "Idle"}, NEW n \in Nat,
               o = [ok |-> a, open |-> b, old |-> c, said |-> d, rows |-> n], c => b,
               a /\ d = "None" => b = open, a /\ d = "InTransaction" => b,
               a /\ d = "Idle" => ~b, ~a => d = "None" /\ (b => open)
        PROVE  o \in Outcome /\ Tells(o, s.open)
    <2>1. o.ok = a /\ o.open = b /\ o.old = c /\ o.said = d /\ s.open = open
      BY <1>1, <1>3
    <2>2. o \in Outcome
      BY <1>3, <2>1 DEF Outcome
    <2> QED
      BY <1>3, <2>1, <2>2 DEF Tells
  <1>4. 0 \in Nat /\ \A n \in 0 .. MaxRows : n \in Nat
    <2>1. MaxRows \in Nat
      BY WireAssumption, Zenon
    <2> QED
      BY <2>1
  <1>5. PICK yes \in BOOLEAN, no \in BOOLEAN : yes = TRUE /\ no = FALSE
    OBVIOUS
  <1>6. CASE o = [ok |-> yes, open |-> yes, old |-> old0, said |-> "InTransaction", rows |-> 0]
    BY <1>3, <1>4, <1>5, <1>6
  <1>7. CASE /\ o = [ok |-> no, open |-> open, old |-> old0, said |-> "None", rows |-> 0]
    BY <1>1, <1>3, <1>4, <1>5, <1>7
  <1>8. CASE o = [ok |-> yes, open |-> no, old |-> no, said |-> "Idle", rows |-> 0]
    BY <1>3, <1>4, <1>5, <1>8
  <1>9. CASE o = [ok |-> no, open |-> no, old |-> no, said |-> "None", rows |-> 0]
    BY <1>3, <1>4, <1>5, <1>9
  <1>10. CASE \E n \in 0 .. MaxRows : o = [ok |-> yes, open |-> open, old |-> old0,
                                           said |-> "None", rows |-> n]
    BY <1>1, <1>3, <1>4, <1>5, <1>10
  <1> QED
    BY <1>2, <1>5, <1>6, <1>7, <1>8, <1>9, <1>10

\* Whatever a text does, its outcome has the right shape; with at most one
\* statement, it tells what became of the transaction.
LEMMA RunOK ==
  ASSUME txn \in BOOLEAN, old \in BOOLEAN, old => txn, NEW sql \in Sql, NEW o \in run(sql)
  PROVE  o \in Outcome /\ (~(Len(sql) > 1) => Tells(o, txn))
  <1>1. PICK open \in BOOLEAN, late \in BOOLEAN : open = txn /\ late = old /\ (late => open)
    OBVIOUS
  <1>2. PICK yes \in BOOLEAN : yes = TRUE
    OBVIOUS
  <1>3. PICK start : start = [ok |-> yes, open |-> open, old |-> late, said |-> "None", rows |-> 0]
    OBVIOUS
  <1>4. start \in Outcome /\ start.ok /\ start.open = open /\ start.said = "None"
    BY <1>1, <1>2, <1>3 DEF Outcome
  <1>5. o \in Results(start, sql) \/ o = [start EXCEPT !.ok = FALSE]
    BY <1>1, <1>2, <1>3 DEF run
  <1>6. sql \in Seq(Kind)
    BY WireAssumption DEF Kind
  <1>7. Len(sql) \in Nat /\ \A n \in 1 .. Len(sql) : sql[n] \in Kind
    BY <1>6
  <1>8. \A x \in Outcome : \A n \in 1 .. Len(sql) : x.ok => Outcomes(x, sql[n]) \subseteq Outcome
    BY <1>7, OutcomesOK
  <1>9. /\ Len(sql) = 0 => Results(start, sql) = {start}
        /\ Len(sql) = 1 => Results(start, sql) = Then({start}, sql[1])
        /\ Results(start, sql) \subseteq Outcome
    BY <1>4, <1>7, <1>8, ResultsAre
  <1>10. CASE o = [start EXCEPT !.ok = FALSE]
    <2>1. PICK no \in BOOLEAN : no = FALSE
      OBVIOUS
    <2>2. o = [ok |-> no, open |-> open, old |-> late, said |-> "None", rows |-> 0]
      BY <1>3, <1>10, <2>1
    <2>3. /\ o.ok = no /\ o.open = open /\ o.old = late /\ o.said = "None"
          /\ o \in [ok: BOOLEAN, open: BOOLEAN, old: BOOLEAN,
                   said: {"None", "InTransaction", "Idle"}, rows: Nat]
      BY <2>2
    <2> QED
      BY <1>1, <2>1, <2>3 DEF Outcome, Tells
  <1>11. CASE o \in Results(start, sql)
    <2>1. CASE Len(sql) = 0
      BY <1>1, <1>4, <1>9, <1>11, <2>1 DEF Tells
    <2>2. CASE Len(sql) = 1
      <3>1. o \in Outcomes(start, sql[1])
        BY <1>4, <1>9, <1>11, <2>2 DEF Then
      <3> QED
        BY <1>1, <1>4, <1>7, <2>2, <3>1, OutcomesOK
    <2>3. Len(sql) = 0 \/ Len(sql) = 1 \/ Len(sql) > 1
      <3>1. \A k \in Nat : k = 0 \/ k = 1 \/ k > 1
        OBVIOUS
      <3> QED
        BY <1>7, <3>1
    <2>4. o \in Outcome
      BY <1>9, <1>11
    <2> QED
      BY <2>1, <2>2, <2>3, <2>4
  <1> QED
    BY <1>5, <1>10, <1>11
-----------------------------------------------------------------------------
(* The invariant *)

SessionOK ==
  /\ txn \in BOOLEAN /\ old \in BOOLEAN /\ spliced \in BOOLEAN /\ skip_until_sync \in BOOLEAN
  /\ old => txn
  /\ transaction \in {"Idle", "InTransaction", "Failed"} /\ trouble \in {"None", "Failed", "Lost"}
  /\ StatusIsTrueUnlessSpliced
  /\ spliced \/ (trouble = "Lost" => ~txn)

ToldOK == told \in [rows : Nat, of : Nat] /\ CountsAreWhole

Pending == [left : Nat, sent : Nat, total : Int]

PendingOK(r) == r \in Pending /\ (r = NoRows \/ (r.left > 0 /\ r.left + r.sent = r.total))

BoundPortal == [statement : Statement, bound : Sql, pending : Pending]

NamesOK ==
  /\ statements \in [DOMAIN statements -> Sql] /\ DOMAIN statements \subseteq Statement
  /\ portals \in [DOMAIN portals -> BoundPortal] /\ DOMAIN portals \subseteq Portal
  /\ \A p \in DOMAIN portals : PendingOK(portals[p].pending)
  /\ PortalsStayBound

\* The inductive invariant: the status is the engine's, the counts are whole,
\* and every portal has its statement and the rest of its result.
WireInv == SessionOK /\ ToldOK /\ NamesOK

\* A new connection has nothing open and nothing named.
LEMMA InitWire == Init => WireInv
  <1> SUFFICES ASSUME Init PROVE WireInv
    OBVIOUS
  <1>1. SessionOK
    BY DEF Init, SessionOK, StatusIsTrueUnlessSpliced, Status
  <1>2. ToldOK
    BY DEF Init, ToldOK, CountsAreWhole, Nothing
  <1>3. NamesOK
    BY DEF Init, NamesOK, PortalsStayBound
  <1> QED
    BY <1>1, <1>2, <1>3 DEF WireInv

\* So is a reconnection.
LEMMA ReconnectWire == Reconnect => WireInv'
  <1> SUFFICES ASSUME Reconnect PROVE WireInv'
    OBVIOUS
  <1>1. SessionOK'
    BY DEF Reconnect, SessionOK, StatusIsTrueUnlessSpliced, Status
  <1>2. ToldOK'
    BY DEF Reconnect, ToldOK, CountsAreWhole, Nothing
  <1>3. NamesOK'
    BY DEF Reconnect, NamesOK, PortalsStayBound
  <1> QED
    BY <1>1, <1>2, <1>3 DEF WireInv

\* A text leaves the status true, or the session marked as spliced.
LEMMA SettleOK ==
  ASSUME SessionOK, NEW sql \in Sql, NEW o \in run(sql), Settle(sql, o),
         skip_until_sync' \in BOOLEAN
  PROVE  SessionOK' /\ o \in Outcome
  <1>1. o \in Outcome /\ (~(Len(sql) > 1) => Tells(o, txn))
    BY RunOK DEF SessionOK
  <1>2. /\ o.ok \in BOOLEAN /\ o.open \in BOOLEAN /\ o.old \in BOOLEAN
        /\ o.said \in {"None", "InTransaction", "Idle"} /\ (o.old => o.open)
    BY <1>1 DEF Outcome
  <1>3. /\ txn' = o.open /\ old' = o.old
        /\ transaction' = IF ~o.ok THEN Failed ELSE IF o.said # "None" THEN o.said ELSE transaction
        /\ spliced' = IF Len(sql) > 1 THEN TRUE ELSE IF o.said # "None" THEN FALSE ELSE spliced
        /\ trouble' = IF o.ok THEN IF o.said # "None" THEN "None" ELSE trouble
                      ELSE IF ~txn THEN trouble ELSE IF o.open THEN "Failed" ELSE "Lost"
    BY DEF Settle
  <1>4. Failed \in {"Idle", "Failed"} /\ (Failed = "Idle" <=> transaction = "Idle")
    BY DEF Failed, SessionOK
  <1>5. /\ transaction' \in {"Idle", "InTransaction", "Failed"} /\ spliced' \in BOOLEAN
        /\ trouble' \in {"None", "Failed", "Lost"}
    BY <1>2, <1>3, <1>4 DEF SessionOK
  <1>6. StatusIsTrueUnlessSpliced' /\ (spliced' \/ (trouble' = "Lost" => ~txn'))
    <2>1. CASE Len(sql) > 1
      BY <1>3, <2>1 DEF StatusIsTrueUnlessSpliced
    <2>2. CASE ~(Len(sql) > 1) /\ ~o.ok
      <3>1. /\ o.said = "None" /\ (txn' => txn) /\ transaction' = Failed /\ spliced' = spliced
            /\ trouble' = IF ~txn THEN trouble ELSE IF txn' THEN "Failed" ELSE "Lost"
        BY <1>1, <1>3, <2>2 DEF Tells
      <3>2. CASE ~txn
        BY <1>4, <3>1, <3>2 DEF SessionOK, StatusIsTrueUnlessSpliced, Status
      <3>3. CASE txn
        BY <1>4, <3>1, <3>3 DEF SessionOK, StatusIsTrueUnlessSpliced, Status
      <3> QED
        BY <3>2, <3>3
    <2>3. CASE ~(Len(sql) > 1) /\ o.ok /\ o.said = "None"
      <3>1. txn' = txn /\ transaction' = transaction /\ spliced' = spliced /\ trouble' = trouble
        BY <1>1, <1>3, <2>3 DEF Tells
      <3> QED
        BY <3>1 DEF SessionOK, StatusIsTrueUnlessSpliced, Status
    <2>4. CASE ~(Len(sql) > 1) /\ o.ok /\ o.said # "None"
      <3>1. \/ o.said = "InTransaction" /\ txn'
            \/ o.said = "Idle" /\ ~txn'
        BY <1>1, <1>2, <1>3, <2>4 DEF Tells
      <3>2. transaction' = o.said /\ trouble' = "None"
        BY <1>3, <2>4
      <3> QED
        BY <3>1, <3>2 DEF StatusIsTrueUnlessSpliced, Status
    <2> QED
      BY <2>1, <2>2, <2>3, <2>4
  <1> QED
    BY <1>1, <1>2, <1>3, <1>5, <1>6 DEF SessionOK

\* A rejected message leaves everything true.
LEMMA RejectWire == WireInv /\ Reject => WireInv'
  <1> SUFFICES ASSUME WireInv, Reject PROVE WireInv'
    OBVIOUS
  <1>1. SessionOK'
    <2>1. Failed \in {"Idle", "Failed"} /\ (Failed = "Idle" <=> transaction = "Idle")
      BY DEF Failed, WireInv, SessionOK
    <2>2. /\ transaction' = Failed /\ trouble' = IF txn THEN "Failed" ELSE trouble
          /\ txn' = txn /\ old' = old /\ spliced' = spliced /\ skip_until_sync' = TRUE
      BY DEF Reject, report_error
    <2>3. SessionOK
      BY DEF WireInv
    <2>4. CASE txn
      BY <2>1, <2>2, <2>3, <2>4 DEF SessionOK, StatusIsTrueUnlessSpliced, Status
    <2>5. CASE ~txn
      BY <2>1, <2>2, <2>3, <2>5 DEF SessionOK, StatusIsTrueUnlessSpliced, Status
    <2> QED
      BY <2>4, <2>5
  <1>2. ToldOK' /\ NamesOK'
    BY DEF WireInv, ToldOK, NamesOK, Reject, CountsAreWhole, PortalsStayBound
  <1> QED
    BY <1>1, <1>2 DEF WireInv

\* Nothing changes of the session, or of what the client was told.
LEMMA SameSession ==
  ASSUME SessionOK, UNCHANGED <<txn, transaction, spliced, trouble, skip_until_sync>>, old' = old
  PROVE  SessionOK'
  BY DEF SessionOK, StatusIsTrueUnlessSpliced, Status

\* What leaves the replies alone leaves what they say alone.
LEMMA SameTold == ASSUME ToldOK, told' = told PROVE ToldOK'
  BY DEF ToldOK, CountsAreWhole

\* So it is with statements and portals.
LEMMA SameNames == ASSUME NamesOK, UNCHANGED <<statements, portals>> PROVE NamesOK'
  BY DEF NamesOK, PortalsStayBound

\* Sync, and the passing of time.
LEMMA SyncWire == WireInv /\ (sync \/ Age) => WireInv'
  <1> SUFFICES ASSUME WireInv, sync \/ Age PROVE WireInv'
    OBVIOUS
  <1>1. ToldOK' /\ NamesOK'
    BY SameTold, SameNames DEF WireInv, sync, Age
  <1>2. CASE sync
    <2>1. SessionOK'
      BY <1>2 DEF WireInv, SessionOK, StatusIsTrueUnlessSpliced, Status, sync, session
    <2> QED
      BY <1>1, <2>1 DEF WireInv
  <1>3. CASE Age
    <2>1. SessionOK'
      BY <1>3 DEF WireInv, SessionOK, StatusIsTrueUnlessSpliced, Status, Age
    <2> QED
      BY <1>1, <2>1 DEF WireInv
  <1> QED
    BY <1>2, <1>3

\* simple_query: the whole result, and its whole count.
LEMMA SimpleQueryWire ==
  ASSUME WireInv, NEW sql \in Sql, simple_query(sql)
  PROVE  WireInv'
  <1>1. PICK o \in run(sql) : /\ Settle(sql, o)
                              /\ told' = IF o.ok THEN Completion(o.rows, o.rows) ELSE Nothing
    BY DEF simple_query
  <1>2. skip_until_sync' \in BOOLEAN
    BY DEF simple_query, WireInv, SessionOK
  <1>3. SessionOK' /\ o \in Outcome
    BY <1>1, <1>2, SettleOK DEF WireInv
  <1>4. o.rows \in Nat
    BY <1>3 DEF Outcome
  <1>5. ToldOK'
    BY <1>1, <1>4 DEF ToldOK, CountsAreWhole, Completion, Nothing
  <1>6. NamesOK'
    BY SameNames DEF WireInv, simple_query
  <1> QED
    BY <1>3, <1>5, <1>6 DEF WireInv

\* parse: a name in use is not given another text, unless it is Unnamed.
LEMMA ParseWire ==
  ASSUME WireInv, NEW name \in Statement, NEW sql \in Sql, parse(name, sql)
  PROVE  WireInv'
  <1>1. CASE Reject
    BY <1>1, RejectWire
  <1>2. CASE /\ name = Unnamed \/ name \notin DOMAIN statements
             /\ statements' = With(statements, name, sql)
             /\ UNCHANGED <<session, skip_until_sync, portals, told>>
    <2>1. SessionOK' /\ ToldOK'
      BY <1>2, SameSession, SameTold DEF WireInv, session
    <2>2. /\ DOMAIN statements' = DOMAIN statements \cup {name} /\ statements'[name] = sql
          /\ \A s \in DOMAIN statements \ {name} : statements'[s] = statements[s]
          /\ statements' = [s \in DOMAIN statements' |-> statements'[s]]
      BY <1>2 DEF With
    <2>3. statements' \in [DOMAIN statements' -> Sql] /\ DOMAIN statements' \subseteq Statement
      BY <2>2 DEF WireInv, NamesOK
    <2>4. PortalsStayBound'
      BY <1>2, <2>2 DEF WireInv, NamesOK, PortalsStayBound
    <2>5. NamesOK'
      BY <1>2, <2>3, <2>4 DEF WireInv, NamesOK
    <2> QED
      BY <2>1, <2>5 DEF WireInv
  <1> QED
    BY <1>1, <1>2 DEF parse

\* bind: the portal remembers its statement's text.
LEMMA BindWire ==
  ASSUME WireInv, NEW portal \in Portal, NEW name \in Statement, bind(portal, name)
  PROVE  WireInv'
  <1>1. CASE Reject
    BY <1>1, RejectWire
  <1>2. CASE /\ name \in DOMAIN statements
             /\ portals' = With(portals, portal,
                  [statement |-> name, bound |-> statements[name], pending |-> NoRows])
             /\ UNCHANGED <<session, skip_until_sync, statements, told>>
    <2>1. SessionOK' /\ ToldOK'
      BY <1>2, SameSession, SameTold DEF WireInv, session
    <2>2. PICK b : b = [statement |-> name, bound |-> statements[name], pending |-> NoRows]
      OBVIOUS
    <2>3. b \in BoundPortal /\ b.statement = name /\ b.bound = statements[name]
          /\ b.pending = NoRows /\ PendingOK(b.pending)
      <3>1. statements[name] \in Sql
        BY <1>2 DEF WireInv, NamesOK
      <3>2. NoRows \in Pending
        BY DEF NoRows, Pending
      <3> QED
        BY <2>2, <3>1, <3>2 DEF BoundPortal, PendingOK
    <2>4. /\ DOMAIN portals' = DOMAIN portals \cup {portal} /\ portals'[portal] = b
          /\ \A p \in DOMAIN portals \ {portal} : portals'[p] = portals[p]
          /\ portals' = [p \in DOMAIN portals' |-> portals'[p]]
      BY <1>2, <2>2 DEF With
    <2>5. portals' \in [DOMAIN portals' -> BoundPortal] /\ DOMAIN portals' \subseteq Portal
      BY <2>3, <2>4 DEF WireInv, NamesOK
    <2>6. PortalsStayBound'
      BY <1>2, <2>3, <2>4 DEF WireInv, NamesOK, PortalsStayBound
    <2>7. \A p \in DOMAIN portals' : PendingOK(portals'[p].pending)
      BY <2>3, <2>4 DEF WireInv, NamesOK
    <2>8. NamesOK'
      BY <1>2, <2>5, <2>6, <2>7 DEF WireInv, NamesOK, PendingOK, Pending, NoRows
    <2> QED
      BY <2>1, <2>8 DEF WireInv
  <1> QED
    BY <1>1, <1>2 DEF bind

\* close: a statement takes its portals with it.
LEMMA CloseWire ==
  ASSUME WireInv,
         \/ \E name \in Statement : close_statement(name)
         \/ \E portal \in Portal : close_portal(portal)
  PROVE  WireInv'
  <1>1. SessionOK' /\ ToldOK'
    BY SameSession, SameTold DEF WireInv, session, close_statement, close_portal
  <1>2. ASSUME NEW name \in Statement, close_statement(name) PROVE NamesOK'
    <2>1. /\ DOMAIN statements' = DOMAIN statements \ {name}
          /\ \A s \in DOMAIN statements' : statements'[s] = statements[s]
          /\ statements' = [s \in DOMAIN statements' |-> statements'[s]]
      BY <1>2 DEF close_statement, Without
    <2>2. /\ DOMAIN portals' = DOMAIN portals \ {p \in DOMAIN portals : portals[p].statement = name}
          /\ \A p \in DOMAIN portals' : portals'[p] = portals[p]
          /\ portals' = [p \in DOMAIN portals' |-> portals'[p]]
      BY <1>2 DEF close_statement, Without
    <2> QED
      BY <2>1, <2>2 DEF WireInv, NamesOK, PortalsStayBound
  <1>3. ASSUME NEW portal \in Portal, close_portal(portal) PROVE NamesOK'
    <2>1. /\ DOMAIN portals' = DOMAIN portals \ {portal}
          /\ \A p \in DOMAIN portals' : portals'[p] = portals[p]
          /\ portals' = [p \in DOMAIN portals' |-> portals'[p]]
          /\ statements' = statements
      BY <1>3 DEF close_portal, Without
    <2> QED
      BY <2>1 DEF WireInv, NamesOK, PortalsStayBound
  <1> QED
    BY <1>1, <1>2, <1>3 DEF WireInv

\* The second half of execute: the rows that are left are counted on, and the
\* last piece is announced with all of them.
LEMMA DeliverWire ==
  ASSUME NamesOK, ToldOK, NEW portal \in DOMAIN portals, NEW r \in Pending,
         r.left + r.sent = r.total, NEW m \in Nat, Deliver(portal, r, m),
         statements' = statements
  PROVE  NamesOK' /\ ToldOK'
  <1>1. r.left \in Nat /\ r.sent \in Nat /\ r.total \in Int
    BY DEF Pending
  <1>2. PICK n : n = IF m = 0 \/ r.left < m THEN r.left ELSE m
    OBVIOUS
  <1>3. n \in Nat /\ n <= r.left
    BY <1>1, <1>2
  <1>4. PICK after : after = [r EXCEPT !.left = @ - n, !.sent = @ + n]
    OBVIOUS
  <1>5. /\ after.left = r.left - n /\ after.sent = r.sent + n /\ after.total = r.total
        /\ after \in Pending
    <2>1. PICK a \in Nat, b \in Nat : a = r.left - n /\ b = r.sent + n
      BY <1>1, <1>3
    <2>2. after = [left |-> a, sent |-> b, total |-> r.total]
      BY <1>4, <2>1 DEF Pending
    <2> QED
      BY <1>1, <2>1, <2>2 DEF Pending
  <1>6. ASSUME NEW x, PendingOK(x), portals' = [portals EXCEPT ![portal].pending = x]
        PROVE  NamesOK'
    <2>1. x \in Pending
      BY <1>6 DEF PendingOK
    <2>2. portals[portal] \in BoundPortal
      BY DEF NamesOK
    <2>3. PICK b : b = [portals[portal] EXCEPT !.pending = x]
      OBVIOUS
    <2>4. /\ b \in BoundPortal /\ b.pending = x /\ b.statement = portals[portal].statement
          /\ b.bound = portals[portal].bound
      BY <2>1, <2>2, <2>3 DEF BoundPortal
    <2>5. /\ DOMAIN portals' = DOMAIN portals /\ portals'[portal] = b
          /\ \A p \in DOMAIN portals \ {portal} : portals'[p] = portals[p]
          /\ portals' = [p \in DOMAIN portals |-> portals'[p]]
      BY <1>6, <2>3 DEF NamesOK
    <2>6. portals' \in [DOMAIN portals' -> BoundPortal]
      BY <2>4, <2>5 DEF NamesOK
    <2>7. \A p \in DOMAIN portals' : PendingOK(portals'[p].pending)
      BY <1>6, <2>4, <2>5 DEF NamesOK
    <2>8. PortalsStayBound'
      BY <2>4, <2>5 DEF NamesOK, PortalsStayBound
    <2> QED
      BY <2>5, <2>6, <2>7, <2>8 DEF NamesOK, PendingOK, Pending, NoRows
  <1>7. CASE r.left = n
    <2>1. /\ portals' = [portals EXCEPT ![portal].pending = NoRows]
          /\ told' = Completion(after.sent, r.total)
      <3>1. exhausted(r, n, m) /\ finished_tag(after.sent, r.sent) = after.sent
        BY <1>7 DEF exhausted, finished_tag
      <3> QED
        BY <1>2, <1>4, <3>1 DEF Deliver
    <2>2. PICK x : x = NoRows /\ PendingOK(x)
      <3>1. NoRows \in Pending
        BY DEF NoRows, Pending
      <3> QED
        BY <3>1 DEF PendingOK
    <2>3. NamesOK'
      BY <1>6, <2>1, <2>2
    <2>4. after.sent = r.total /\ r.total \in Nat
      BY <1>1, <1>3, <1>5, <1>7
    <2>5. ToldOK'
      BY <2>1, <2>4 DEF ToldOK, CountsAreWhole, Completion
    <2> QED
      BY <2>3, <2>5
  <1>8. CASE r.left # n
    <2>1. portals' = [portals EXCEPT ![portal].pending = after] /\ told' = Nothing
      <3>1. ~exhausted(r, n, m)
        BY <1>8 DEF exhausted
      <3> QED
        BY <1>2, <1>4, <3>1 DEF Deliver
    <2>2. after.left > 0 /\ after.left + after.sent = after.total
      BY <1>1, <1>3, <1>5, <1>8
    <2>3. PendingOK(after)
      BY <1>5, <2>2 DEF PendingOK
    <2>4. NamesOK'
      BY <1>6, <2>1, <2>3
    <2>5. ToldOK'
      BY <2>1 DEF ToldOK, CountsAreWhole, Nothing
    <2> QED
      BY <2>4, <2>5
  <1> QED
    BY <1>7, <1>8

\* execute: of a pending result, or of the statement anew.
LEMMA ExecuteWire ==
  ASSUME WireInv, NEW portal \in Portal, NEW m \in 0 .. MaxRows, execute(portal, m)
  PROVE  WireInv'
  <1>1. m \in Nat /\ portal \in DOMAIN portals /\ statements' = statements
    BY DEF execute
  <1>2. CASE portals[portal].pending # NoRows
    <2>1. PICK r : r = portals[portal].pending
      OBVIOUS
    <2>2. r \in Pending /\ r.left + r.sent = r.total
      BY <1>1, <1>2, <2>1 DEF WireInv, NamesOK, PendingOK
    <2>3. Deliver(portal, r, m) /\ UNCHANGED <<session, skip_until_sync>>
      BY <1>2, <2>1 DEF execute
    <2>4. SessionOK'
      BY <2>3, SameSession DEF WireInv, session
    <2> QED
      BY <1>1, <2>2, <2>3, <2>4, DeliverWire DEF WireInv
  <1>3. CASE portals[portal].pending = NoRows
    <2>1. PICK sql : sql = statements[portals[portal].statement]
      OBVIOUS
    <2>2. sql \in Sql
      BY <1>1, <2>1 DEF WireInv, NamesOK, PortalsStayBound
    <2>3. PICK o \in run(sql) :
            /\ Settle(sql, o)
            /\ IF o.ok
               THEN /\ Deliver(portal, [left |-> o.rows, sent |-> 0, total |-> o.rows], m)
                    /\ UNCHANGED skip_until_sync
               ELSE skip_until_sync' = TRUE /\ UNCHANGED <<portals, told>>
      BY <1>3, <2>1 DEF execute
    <2>4. skip_until_sync' \in BOOLEAN
      BY <2>3 DEF WireInv, SessionOK
    <2>5. SessionOK' /\ o \in Outcome
      BY <2>2, <2>3, <2>4, SettleOK DEF WireInv
    <2>6. CASE o.ok
      <3>1. PICK r : r = [left |-> o.rows, sent |-> 0, total |-> o.rows]
        OBVIOUS
      <3>2. o.rows \in Nat
        BY <2>5 DEF Outcome
      <3>3. r \in Pending /\ r.left + r.sent = r.total
        BY <3>1, <3>2 DEF Pending
      <3>4. Deliver(portal, r, m)
        BY <2>3, <2>6, <3>1
      <3> QED
        BY <1>1, <2>5, <3>3, <3>4, DeliverWire DEF WireInv
    <2>7. CASE ~o.ok
      <3>1. UNCHANGED <<portals, told>>
        BY <2>3, <2>7
      <3> QED
        BY <1>1, <2>5, <3>1, SameTold, SameNames DEF WireInv
    <2> QED
      BY <2>6, <2>7
  <1> QED
    BY <1>2, <1>3
-----------------------------------------------------------------------------
(* The theorems *)

\* Every message keeps the invariant.
LEMMA NextWire == WireInv /\ [Next]_vars => WireInv'
  <1> SUFFICES ASSUME WireInv, [Next]_vars PROVE WireInv'
    OBVIOUS
  <1>1. CASE UNCHANGED vars
    BY <1>1, SameSession, SameTold, SameNames DEF vars, session, WireInv
  <1>2. CASE sync \/ Age \/ Reconnect
    BY <1>2, SyncWire, ReconnectWire
  <1>3. ASSUME NEW q \in Sql, simple_query(q) \/ \E s \in Statement : parse(s, q) PROVE WireInv'
    BY <1>3, SimpleQueryWire, ParseWire
  <1>4. ASSUME NEW p \in Portal,
               \/ \E s \in Statement : bind(p, s)
               \/ \E n \in 0 .. MaxRows : execute(p, n)
               \/ execute_missing(p) \/ close_portal(p)
        PROVE  WireInv'
    BY <1>4, BindWire, ExecuteWire, RejectWire, CloseWire DEF execute_missing
  <1>5. ASSUME NEW s \in Statement, close_statement(s) PROVE WireInv'
    BY <1>5, CloseWire
  <1> QED
    BY <1>1, <1>2, <1>3, <1>4, <1>5 DEF Next

\* The inductive invariant holds throughout.
THEOREM WireInvariance == Spec => []WireInv
  BY InitWire, NextWire, PTL DEF Spec

\* Types, and a pending result always has rows left (session.rs Pending).
THEOREM WireTypeCorrect == Spec => []TypeOK
  <1>1. WireInv => TypeOK
    <2> SUFFICES ASSUME WireInv PROVE TypeOK
      OBVIOUS
    <2>1. /\ {txn, old, skip_until_sync, spliced} \subseteq BOOLEAN
          /\ old => txn
          /\ transaction \in {"Idle", "InTransaction", "Failed"}
          /\ trouble \in {"None", "Failed", "Lost"}
      BY DEF WireInv, SessionOK
    <2>2. told \in [rows : Nat, of : Nat]
      BY DEF WireInv, ToldOK
    <2>3. /\ DOMAIN statements \subseteq Statement
          /\ \A s \in DOMAIN statements : statements[s] \in Sql
          /\ DOMAIN portals \subseteq Portal
          /\ \A p \in DOMAIN portals :
               \/ portals[p].pending = NoRows
               \/ /\ portals[p].pending.left > 0
                  /\ portals[p].pending.left + portals[p].pending.sent = portals[p].pending.total
      BY DEF WireInv, NamesOK, PendingOK
    <2> QED
      BY <2>1, <2>2, <2>3 DEF TypeOK
  <1> QED
    BY <1>1, WireInvariance, PTL

\* The status told to the client is Idle, InTransaction or Failed exactly as the
\* engine's transaction and the errors since it began say, Failed covering also a
\* transaction that an error has ended; unless a text of several statements was
\* the last to change the transaction (apply_transaction, fail_transaction).
THEOREM TrueStatus == Spec => []StatusIsTrueUnlessSpliced
  <1>1. WireInv => StatusIsTrueUnlessSpliced
    BY DEF WireInv, SessionOK
  <1> QED
    BY <1>1, WireInvariance, PTL

\* A portal always has the statement it was bound to (parse, close).
THEOREM BoundPortals == Spec => []PortalsStayBound
  <1>1. WireInv => PortalsStayBound
    BY DEF WireInv, NamesOK
  <1> QED
    BY <1>1, WireInvariance, PTL

\* A result fetched in pieces is announced with all its rows (finished_tag).
THEOREM WholeCounts == Spec => []CountsAreWhole
  <1>1. WireInv => CountsAreWhole
    BY DEF WireInv, ToldOK
  <1> QED
    BY <1>1, WireInvariance, PTL
=============================================================================
