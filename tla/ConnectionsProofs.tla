-------------------------- MODULE ConnectionsProofs --------------------------
(***************************************************************************)
(* Proofs about Connections, for any number of connections, addresses and  *)
(* users, any limits and any times in their order: what is served is what  *)
(* is configured, locks hold, and the failures of a source are bounded     *)
(* although attempts run in parallel.                                      *)
(***************************************************************************)
EXTENDS Connections, FiniteSetTheorems, WellFoundedInduction, TLAPS
-----------------------------------------------------------------------------
(* The inductive invariant *)

Refusing == [phase |-> "refusing"]

\* What is known of a connection in each of its phases.
ConnOK(x) ==
  \/ x = Closed
  \/ x = Refusing
  \/ \E a \in Address, b \in BOOLEAN, l \in 1 .. Packets, t \in 0 .. Handshake :
       x = [phase |-> "startup", address |-> a, encrypted |-> b, left |-> l, timer |-> t]
  \/ \E a \in Address, t \in 0 .. Handshake :
       x = [phase |-> "tls", address |-> a, timer |-> t]
  \/ \E a \in Address, u \in User, b \in BOOLEAN, t \in 0 .. Handshake :
       x = [phase |-> "password", address |-> a, user |-> u, encrypted |-> b, timer |-> t]
  \/ \E t \in 0 .. Handshake : x = [phase |-> "failing", timer |-> t]
  \/ \E b \in BOOLEAN : x = [phase |-> "session", encrypted |-> b]

Opened(cn) == {c \in Conn : cn[c] # Closed}
ServedIn(cn) == {c \in Conn : cn[c].phase \notin {"closed", "refusing"}}

\* Attempts that have passed the check and may still fail for the source k.
Trying(cn, k) == {c \in Conn : cn[c].phase = "password" /\ k \in {cn[c].address, cn[c].user}}

\* Connections, with n slots and TLS required or not.
ConnsOK(n, tls, count, cn) ==
  /\ cn = [c \in Conn |-> cn[c]]
  /\ \A c \in Conn : ConnOK(cn[c])
  /\ IsFiniteSet(Opened(cn)) /\ count = Cardinality(Opened(cn))
  /\ Cardinality(ServedIn(cn)) <= n
  /\ tls => \A c \in Conn : cn[c].phase \in {"password", "session"} => cn[c].encrypted

Most(n) == IF MaxFailures < n THEN n ELSE MaxFailures

\* Oldest first.
Sorted(f) == \A i, j \in 1 .. Len(f) : i <= j => f[i] >= f[j]

\* All failures but the last q are at least as old as the lock.
OlderThanLock(e, q) ==
  \A i \in 1 .. Len(e.failures) : i + q <= Len(e.failures) => e.failures[i] >= Lockout - e.locked

\* The failures of a source and its attempts: those that were trying when the
\* lock was set are fewer than n, the lock outlives them all, and the failures
\* from before it leave the window with it.
KeyOK(n, cn, k, e) ==
  /\ e = [failures |-> e.failures, locked |-> e.locked]
  /\ e.failures \in Seq(0 .. Window - 1) /\ e.locked \in NoLock .. Lockout
  /\ Sorted(e.failures)
  /\ e.locked = NoLock => Len(e.failures) <= Most(n) - 1
  /\ e.locked > 0 => Len(e.failures) + Cardinality(Trying(cn, k)) <= Most(n) - 1 + n
  /\ e.locked >= 0 =>
       /\ \E q \in Nat : q + Cardinality(Trying(cn, k)) <= n - 1 /\ OlderThanLock(e, q)
       /\ \A c \in Trying(cn, k) : cn[c].timer + Lockout - e.locked <= Handshake

TableOK(E) ==
  DOMAIN E \subseteq Key /\ IsFiniteSet(DOMAIN E) /\ Cardinality(DOMAIN E) <= MaxTracked

KeysOK(n, cn, E) == \A k \in DOMAIN E : KeyOK(n, cn, k, E[k])

ConnInv ==
  /\ config \in [max_connections: 1 .. MaxLimit, tls: BOOLEAN]
  /\ ConnsOK(config.max_connections, config.tls, open, conn)
  /\ TableOK(entries)
  /\ KeysOK(config.max_connections, conn, entries)
-----------------------------------------------------------------------------
(* Connections one by one *)

\* The constants, one by one.
LEMMA Numbers ==
  /\ MaxTracked \in Nat \ {0} /\ MaxFailures \in Nat \ {0} /\ Window \in Nat \ {0}
  /\ Lockout \in Nat \ {0} /\ Handshake \in Nat \ {0} /\ MaxLimit \in Nat \ {0}
  /\ Handshake < Lockout /\ Window <= Lockout /\ Address \cap User = {}
  BY ConnectionsAssumption

\* The phases, and the fields that go with them.
LEMMA ConnFacts ==
  ASSUME NEW x, ConnOK(x)
  PROVE  /\ x.phase \in {"closed", "refusing", "startup", "tls", "password", "failing", "session"}
         /\ x.phase = "closed" <=> x = Closed
         /\ x.phase = "refusing" <=> x = Refusing
         /\ "timer" \in DOMAIN x <=> x.phase \in {"startup", "tls", "password", "failing"}
         /\ "timer" \in DOMAIN x => x.timer \in 0 .. Handshake
         /\ x.phase \in {"startup", "tls", "password"} => x.address \in Address
         /\ x.phase = "password" => x.user \in User
         /\ x.phase \in {"startup", "password", "session"} => x.encrypted \in BOOLEAN
         /\ x.phase = "startup" => x.left \in 1 .. Packets
  <1>1. CASE x = Closed
    BY <1>1 DEF Closed, Refusing
  <1>2. CASE x = Refusing
    BY <1>2 DEF Closed, Refusing
  <1>3. CASE \E a \in Address, b \in BOOLEAN, l \in 1 .. Packets, t \in 0 .. Handshake :
               x = [phase |-> "startup", address |-> a, encrypted |-> b, left |-> l, timer |-> t]
    BY <1>3 DEF Closed, Refusing
  <1>4. CASE \E a \in Address, t \in 0 .. Handshake :
               x = [phase |-> "tls", address |-> a, timer |-> t]
    BY <1>4 DEF Closed, Refusing
  <1>5. CASE \E a \in Address, u \in User, b \in BOOLEAN, t \in 0 .. Handshake :
               x = [phase |-> "password", address |-> a, user |-> u, encrypted |-> b, timer |-> t]
    BY <1>5 DEF Closed, Refusing
  <1>6. CASE \E t \in 0 .. Handshake : x = [phase |-> "failing", timer |-> t]
    BY <1>6 DEF Closed, Refusing
  <1>7. CASE \E b \in BOOLEAN : x = [phase |-> "session", encrypted |-> b]
    BY <1>7 DEF Closed, Refusing
  <1> QED
    BY <1>1, <1>2, <1>3, <1>4, <1>5, <1>6, <1>7 DEF ConnOK

\* A tick leaves a connection in its phase, with less time.
LEMMA ConnAged ==
  ASSUME NEW x, ConnOK(x), "timer" \in DOMAIN x, x.timer > 0,
         NEW y, y = [x EXCEPT !.timer = @ - 1]
  PROVE  /\ ConnOK(y)
         /\ y.phase = x.phase /\ y.timer = x.timer - 1
         /\ x.phase = "password" =>
              y.address = x.address /\ y.user = x.user /\ y.encrypted = x.encrypted
  <1> USE Numbers
  <1>0. x # Closed /\ x # Refusing /\ ~(\E b \in BOOLEAN : x = [phase |-> "session", encrypted |-> b])
    BY DEF Closed, Refusing
  <1>1. CASE \E a \in Address, b \in BOOLEAN, l \in 1 .. Packets, t \in 0 .. Handshake :
               x = [phase |-> "startup", address |-> a, encrypted |-> b, left |-> l, timer |-> t]
    <2>1. PICK a \in Address, b \in BOOLEAN, l \in 1 .. Packets, t \in 0 .. Handshake :
               x = [phase |-> "startup", address |-> a, encrypted |-> b, left |-> l, timer |-> t]
      BY <1>1
    <2>2. t - 1 \in 0 .. Handshake
      BY <2>1
    <2>3. y = [phase |-> "startup", address |-> a, encrypted |-> b, left |-> l, timer |-> t - 1]
      BY <2>1
    <2> QED
      BY <2>1, <2>2, <2>3 DEF ConnOK
  <1>2. CASE \E a \in Address, t \in 0 .. Handshake :
               x = [phase |-> "tls", address |-> a, timer |-> t]
    <2>1. PICK a \in Address, t \in 0 .. Handshake : x = [phase |-> "tls", address |-> a, timer |-> t]
      BY <1>2
    <2>2. t - 1 \in 0 .. Handshake
      BY <2>1
    <2>3. y = [phase |-> "tls", address |-> a, timer |-> t - 1]
      BY <2>1
    <2> QED
      BY <2>1, <2>2, <2>3 DEF ConnOK
  <1>3. CASE \E a \in Address, u \in User, b \in BOOLEAN, t \in 0 .. Handshake :
               x = [phase |-> "password", address |-> a, user |-> u, encrypted |-> b, timer |-> t]
    <2>1. PICK a \in Address, u \in User, b \in BOOLEAN, t \in 0 .. Handshake :
               x = [phase |-> "password", address |-> a, user |-> u, encrypted |-> b, timer |-> t]
      BY <1>3
    <2>2. t - 1 \in 0 .. Handshake
      BY <2>1
    <2>3. y = [phase |-> "password", address |-> a, user |-> u, encrypted |-> b, timer |-> t - 1]
      BY <2>1
    <2> QED
      BY <2>1, <2>2, <2>3 DEF ConnOK
  <1>4. CASE \E t \in 0 .. Handshake : x = [phase |-> "failing", timer |-> t]
    <2>1. PICK t \in 0 .. Handshake : x = [phase |-> "failing", timer |-> t]
      BY <1>4
    <2>2. t - 1 \in 0 .. Handshake
      BY <2>1
    <2>3. y = [phase |-> "failing", timer |-> t - 1]
      BY <2>1
    <2> QED
      BY <2>1, <2>2, <2>3 DEF ConnOK
  <1> QED
    BY <1>0, <1>1, <1>2, <1>3, <1>4 DEF ConnOK
-----------------------------------------------------------------------------
(* Slots *)

\* Attempts are served, so they are at most n.
LEMMA TryingBounded ==
  ASSUME NEW n \in Nat, NEW tls, NEW count, NEW cn, ConnsOK(n, tls, count, cn), NEW k
  PROVE  /\ IsFiniteSet(ServedIn(cn)) /\ IsFiniteSet(Trying(cn, k))
         /\ Cardinality(Trying(cn, k)) \in Nat /\ Cardinality(Trying(cn, k)) <= n
         /\ Cardinality(ServedIn(cn)) \in Nat /\ Cardinality(Opened(cn)) \in Nat
  <1>1. ServedIn(cn) \subseteq Opened(cn)
    BY DEF ServedIn, Opened, Closed
  <1>2. Trying(cn, k) \subseteq ServedIn(cn)
    BY DEF ServedIn, Trying
  <1>3. IsFiniteSet(Opened(cn)) /\ Cardinality(ServedIn(cn)) <= n
    BY DEF ConnsOK
  <1>4. IsFiniteSet(ServedIn(cn))
    BY <1>1, <1>3, FS_Subset
  <1>5. IsFiniteSet(Trying(cn, k)) /\ Cardinality(Trying(cn, k)) <= Cardinality(ServedIn(cn))
    BY <1>2, <1>4, FS_Subset
  <1>6. /\ Cardinality(Trying(cn, k)) \in Nat /\ Cardinality(ServedIn(cn)) \in Nat
        /\ Cardinality(Opened(cn)) \in Nat
    BY <1>3, <1>4, <1>5, FS_CardinalityType
  <1> QED
    BY <1>3, <1>4, <1>5, <1>6

\* c becomes x: the counter follows, no one is served who was not before unless
\* there is a slot, and nothing secret goes over a channel in clear.
MayBecome(n, tls, count, counted, cn, c, x) ==
  /\ counted = IF x = Closed THEN count - 1 ELSE IF cn[c] = Closed THEN count + 1 ELSE count
  /\ x = Closed => cn[c] # Closed
  /\ c \in ServedIn(cn) \/ x.phase \in {"closed", "refusing"} \/ (count + 1 <= n /\ cn[c] = Closed)
  /\ tls => (x.phase \in {"password", "session"} => x.encrypted)

\* One connection moves and the counter with it.
LEMMA ConnMoves ==
  ASSUME NEW n \in Nat, NEW tls, NEW count, NEW cn, ConnsOK(n, tls, count, cn),
         NEW c \in Conn, NEW x, ConnOK(x), NEW dn, dn = [cn EXCEPT ![c] = x], NEW counted,
         MayBecome(n, tls, count, counted, cn, c, x)
  PROVE  ConnsOK(n, tls, counted, dn)
  <1> USE DEF MayBecome
  <1>1. /\ cn = [d \in Conn |-> cn[d]] /\ \A d \in Conn : ConnOK(cn[d])
        /\ IsFiniteSet(Opened(cn)) /\ count = Cardinality(Opened(cn))
        /\ Cardinality(ServedIn(cn)) <= n
        /\ tls => \A d \in Conn : cn[d].phase \in {"password", "session"} => cn[d].encrypted
    BY DEF ConnsOK
  <1>2. dn = [d \in Conn |-> dn[d]] /\ \A d \in Conn : dn[d] = IF d = c THEN x ELSE cn[d]
    BY <1>1
  <1>3. \A d \in Conn : ConnOK(dn[d])
    BY <1>1, <1>2
  <1>4. Cardinality(Opened(cn)) \in Nat /\ IsFiniteSet(ServedIn(cn))
    BY TryingBounded
  <1>5. IsFiniteSet(Opened(dn)) /\ counted = Cardinality(Opened(dn))
    <2>1. CASE x = Closed
      <3>1. Opened(dn) = Opened(cn) \ {c} /\ c \in Opened(cn)
        BY <1>2, <2>1 DEF Opened
      <3>2. IsFiniteSet(Opened(cn) \ {c}) /\ Cardinality(Opened(cn) \ {c}) = Cardinality(Opened(cn)) - 1
        BY <1>1, <3>1, FS_RemoveElement
      <3> QED
        BY <1>1, <2>1, <3>1, <3>2
    <2>2. CASE x # Closed /\ cn[c] = Closed
      <3>1. Opened(dn) = Opened(cn) \cup {c} /\ c \notin Opened(cn)
        BY <1>2, <2>2 DEF Opened
      <3>2. PICK S : S = Opened(cn)
        OBVIOUS
      <3>3. IsFiniteSet(S \cup {c}) /\ Cardinality(S \cup {c}) = Cardinality(S) + 1
        BY <1>1, <3>1, <3>2, FS_AddElement
      <3> QED
        BY <1>1, <2>2, <3>1, <3>2, <3>3
    <2>3. CASE x # Closed /\ cn[c] # Closed
      <3>1. Opened(dn) = Opened(cn)
        BY <1>2, <2>3 DEF Opened
      <3> QED
        BY <1>1, <2>3, <3>1
    <2> QED
      BY <2>1, <2>2, <2>3
  <1>6. Cardinality(ServedIn(dn)) <= n
    <2>1. CASE c \in ServedIn(cn) \/ x.phase \in {"closed", "refusing"}
      <3>1. ServedIn(dn) \subseteq ServedIn(cn)
        BY <1>2, <2>1 DEF ServedIn
      <3>2. Cardinality(ServedIn(dn)) <= Cardinality(ServedIn(cn)) /\ IsFiniteSet(ServedIn(dn))
        BY <1>4, <3>1, FS_Subset
      <3>3. Cardinality(ServedIn(dn)) \in Nat /\ Cardinality(ServedIn(cn)) \in Nat
        BY <1>4, <3>2, FS_CardinalityType
      <3> QED
        BY <1>1, <3>2, <3>3
    <2>2. CASE count + 1 <= n /\ cn[c] = Closed /\ x.phase \notin {"closed", "refusing"}
      <3>1. ServedIn(dn) \subseteq Opened(dn)
        BY DEF ServedIn, Opened, Closed
      <3>2. Cardinality(ServedIn(dn)) <= Cardinality(Opened(dn)) /\ IsFiniteSet(ServedIn(dn))
        BY <1>5, <3>1, FS_Subset
      <3>3. Cardinality(ServedIn(dn)) \in Nat /\ Cardinality(Opened(dn)) \in Nat
        BY <1>5, <3>2, FS_CardinalityType
      <3>4. x # Closed
        BY <2>2 DEF Closed
      <3> QED
        BY <1>1, <1>4, <1>5, <2>2, <3>2, <3>3, <3>4
    <2> QED
      BY <2>1, <2>2
  <1>7. tls => \A d \in Conn : dn[d].phase \in {"password", "session"} => dn[d].encrypted
    BY <1>1, <1>2
  <1> QED
    BY <1>2, <1>3, <1>5, <1>6, <1>7, Zenon DEF ConnsOK

\* Time passes for all connections.
LEMMA ConnsAge ==
  ASSUME NEW n \in Nat, NEW tls, NEW count, NEW cn, ConnsOK(n, tls, count, cn),
         \A c \in Conn : "timer" \in DOMAIN cn[c] => cn[c].timer > 0,
         NEW dn,
         dn = [c \in Conn |->
                IF "timer" \in DOMAIN cn[c] THEN [cn[c] EXCEPT !.timer = @ - 1] ELSE cn[c]]
  PROVE  /\ ConnsOK(n, tls, count, dn)
         /\ \A k : Trying(dn, k) = Trying(cn, k)
         /\ \A k : \A c \in Trying(cn, k) : dn[c].timer = cn[c].timer - 1
  <1>1. /\ cn = [d \in Conn |-> cn[d]] /\ \A d \in Conn : ConnOK(cn[d])
        /\ IsFiniteSet(Opened(cn)) /\ count = Cardinality(Opened(cn))
        /\ Cardinality(ServedIn(cn)) <= n
        /\ tls => \A d \in Conn : cn[d].phase \in {"password", "session"} => cn[d].encrypted
    BY DEF ConnsOK
  <1>2. ASSUME NEW c \in Conn
        PROVE  /\ ConnOK(dn[c]) /\ dn[c].phase = cn[c].phase
               /\ "timer" \in DOMAIN cn[c] => dn[c].timer = cn[c].timer - 1
               /\ cn[c].phase = "password" =>
                    /\ dn[c].address = cn[c].address /\ dn[c].user = cn[c].user
                    /\ dn[c].encrypted = cn[c].encrypted
               /\ "timer" \notin DOMAIN cn[c] => dn[c] = cn[c]
    <2>1. CASE "timer" \in DOMAIN cn[c]
      <3>1. dn[c] = [cn[c] EXCEPT !.timer = @ - 1] /\ cn[c].timer > 0 /\ ConnOK(cn[c])
        BY <1>1, <2>1
      <3> QED
        BY <2>1, <3>1, ConnAged
    <2>2. CASE "timer" \notin DOMAIN cn[c]
      BY <1>1, <2>2
    <2> QED
      BY <2>1, <2>2
  <1>3. \A c \in Conn : /\ dn[c] # Closed <=> cn[c] # Closed
                        /\ cn[c].phase = "password" => "timer" \in DOMAIN cn[c]
                        /\ cn[c].phase = "session" => "timer" \notin DOMAIN cn[c]
    <2> SUFFICES ASSUME NEW c \in Conn
                 PROVE  /\ dn[c] # Closed <=> cn[c] # Closed
                        /\ cn[c].phase = "password" => "timer" \in DOMAIN cn[c]
                        /\ cn[c].phase = "session" => "timer" \notin DOMAIN cn[c]
      OBVIOUS
    <2>1. cn[c].phase = "closed" <=> cn[c] = Closed
      BY <1>1, ConnFacts
    <2>2. dn[c].phase = "closed" <=> dn[c] = Closed
      BY <1>2, ConnFacts
    <2>3. "timer" \in DOMAIN cn[c] <=> cn[c].phase \in {"startup", "tls", "password", "failing"}
      BY <1>1, ConnFacts
    <2> QED
      BY <1>2, <2>1, <2>2, <2>3
  <1>4. Opened(dn) = Opened(cn) /\ ServedIn(dn) = ServedIn(cn)
    BY <1>2, <1>3 DEF Opened, ServedIn
  <1>5. \A k : Trying(dn, k) = Trying(cn, k)
    BY <1>2 DEF Trying
  <1>6. \A k : \A c \in Trying(cn, k) : dn[c].timer = cn[c].timer - 1
    BY <1>2, <1>3 DEF Trying
  <1>7. tls => \A d \in Conn : dn[d].phase \in {"password", "session"} => dn[d].encrypted
    BY <1>1, <1>2, <1>3
  <1>8. dn = [d \in Conn |-> dn[d]] /\ \A d \in Conn : ConnOK(dn[d])
    BY <1>2
  <1>9. IsFiniteSet(Opened(dn)) /\ count = Cardinality(Opened(dn)) /\ Cardinality(ServedIn(dn)) <= n
    BY <1>1, <1>4
  <1>10. ConnsOK(n, tls, count, dn)
    BY <1>7, <1>8, <1>9, Zenon DEF ConnsOK
  <1> QED
    BY <1>5, <1>6, <1>10
-----------------------------------------------------------------------------
(* The failures of one source *)

\* A non-empty set of natural numbers has a least element.
LEMMA Least ==
  ASSUME NEW T, T \subseteq Nat, T # {}
  PROVE  \E m \in T : \A y \in T : m <= y
  <1>1. PICK R : R = OpToRel(<, Nat) /\ IsWellFoundedOn(R, Nat)
    BY NatLessThanWellFounded
  <1>2. \A x, y \in Nat : <<x, y>> \in R <=> x < y
    BY <1>1 DEF OpToRel
  <1>3. PICK m \in T : \A y \in T : ~(<<y, m>> \in R)
    BY <1>1, WFMin
  <1>4. ASSUME NEW y \in T PROVE m <= y
    <2>1. m \in Nat /\ y \in Nat /\ ~(<<y, m>> \in R)
      BY <1>3
    <2>2. ~(y < m)
      BY <1>2, <2>1
    <2> QED
      BY <2>1, <2>2
  <1> QED
    BY <1>4

\* What is left in the window is the end of the queue.
LEMMA Pruned ==
  ASSUME NEW f \in Seq(Nat), Sorted(f)
  PROVE  \E g \in 0 .. Len(f) :
           /\ prune(f) \in Seq(0 .. Window - 1) /\ Len(prune(f)) = Len(f) - g
           /\ \A i \in 1 .. Len(f) - g : prune(f)[i] = f[i + g]
  <1> USE Numbers
  <1> DEFINE Right(n) == (\A i \in 1 .. n : f[i] >= Window) /\ (n < Len(f) => f[n + 1] < Window)
  <1>1. \E n \in 0 .. Len(f) : Right(n)
    <2>1. CASE \A i \in 1 .. Len(f) : f[i] >= Window
      <3>1. Len(f) \in 0 .. Len(f) /\ Right(Len(f))
        BY <2>1
      <3> QED
        BY <3>1
    <2>2. CASE \E i \in 1 .. Len(f) : f[i] < Window
      <3>1. PICK T : T = {i \in 1 .. Len(f) : f[i] < Window}
        OBVIOUS
      <3>2. T \subseteq Nat /\ T # {}
        BY <2>2, <3>1
      <3>3. PICK m \in T : \A y \in T : m <= y
        BY <3>2, Least
      <3>4. m \in 1 .. Len(f) /\ f[m] < Window /\ m - 1 \in 0 .. Len(f) /\ m - 1 + 1 = m
        BY <3>1, <3>3
      <3>5. ASSUME NEW i \in 1 .. m - 1 PROVE f[i] >= Window
        <4>1. i \in 1 .. Len(f) /\ ~(m <= i)
          BY <3>4
        <4>2. i \notin T
          BY <3>3, <4>1
        <4>3. f[i] \in Nat /\ ~(f[i] < Window)
          BY <3>1, <4>1, <4>2
        <4> QED
          BY <4>3
      <3>6. Right(m - 1)
        BY <3>4, <3>5
      <3> QED
        BY <3>4, <3>6
    <2>3. \A i \in 1 .. Len(f) : f[i] \in Nat
      OBVIOUS
    <2> QED
      BY <2>1, <2>2, <2>3
  <1>2. PICK g : g = CHOOSE n \in 0 .. Len(f) : Right(n)
    OBVIOUS
  <1>3. g \in 0 .. Len(f) /\ Right(g)
    BY <1>1, <1>2, Zenon
  <1>4. prune(f) = SubSeq(f, g + 1, Len(f))
    BY <1>2, Zenon DEF prune
  <1>5. /\ SubSeq(f, g + 1, Len(f)) \in Seq(Nat) /\ Len(SubSeq(f, g + 1, Len(f))) = Len(f) - g
        /\ \A i \in 1 .. Len(f) - g : SubSeq(f, g + 1, Len(f))[i] = f[i + g]
    BY <1>3
  <1>6. ASSUME NEW i \in 1 .. Len(f) - g PROVE f[i + g] \in 0 .. Window - 1
    <2>1. g + 1 \in 1 .. Len(f) /\ i + g \in 1 .. Len(f) /\ g + 1 <= i + g /\ g < Len(f)
      BY <1>3
    <2>2. f[g + 1] < Window /\ f[g + 1] >= f[i + g] /\ f[i + g] \in Nat /\ f[g + 1] \in Nat
      BY <1>3, <2>1 DEF Sorted
    <2> QED
      BY <2>2
  <1>7. prune(f) \in Seq(0 .. Window - 1)
    <2>1. PICK h : h = prune(f)
      OBVIOUS
    <2>2. h \in Seq(Nat) /\ Len(h) = Len(f) - g /\ \A i \in 1 .. Len(h) : h[i] \in 0 .. Window - 1
      BY <1>4, <1>5, <1>6, <2>1
    <2>3. h \in Seq(0 .. Window - 1)
      BY <2>2
    <2> QED
      BY <2>1, <2>3
  <1> QED
    BY <1>3, <1>4, <1>5, <1>7

\* Fewer attempts that go on as they were.
LEMMA KeyMoves ==
  ASSUME NEW n \in Nat \ {0}, NEW cn, NEW dn, NEW k, NEW e, KeyOK(n, cn, k, e),
         IsFiniteSet(Trying(cn, k)), Trying(dn, k) \subseteq Trying(cn, k),
         \A c \in Trying(dn, k) : dn[c].timer = cn[c].timer
  PROVE  KeyOK(n, dn, k, e)
  <1> USE Numbers
  <1>1. IsFiniteSet(Trying(dn, k)) /\ Cardinality(Trying(dn, k)) <= Cardinality(Trying(cn, k))
    BY FS_Subset
  <1>2. Cardinality(Trying(dn, k)) \in Nat /\ Cardinality(Trying(cn, k)) \in Nat
    BY <1>1, FS_CardinalityType
  <1>3. Len(e.failures) \in Nat /\ e.locked \in NoLock .. Lockout /\ Most(n) \in Nat
    BY DEF KeyOK, Most
  <1>4. e.locked > 0 => Len(e.failures) + Cardinality(Trying(dn, k)) <= Most(n) - 1 + n
    <2>1. e.locked > 0 => Len(e.failures) + Cardinality(Trying(cn, k)) <= Most(n) - 1 + n
      BY DEF KeyOK
    <2> QED
      BY <1>1, <1>2, <1>3, <2>1
  <1>5. ASSUME e.locked >= 0
        PROVE  /\ \E q \in Nat : q + Cardinality(Trying(dn, k)) <= n - 1 /\ OlderThanLock(e, q)
               /\ \A c \in Trying(dn, k) : dn[c].timer + Lockout - e.locked <= Handshake
    <2>1. PICK q \in Nat : q + Cardinality(Trying(cn, k)) <= n - 1 /\ OlderThanLock(e, q)
      BY <1>5 DEF KeyOK
    <2>2. q + Cardinality(Trying(dn, k)) <= n - 1
      BY <1>1, <1>2, <2>1
    <2>3. \A c \in Trying(cn, k) : cn[c].timer + Lockout - e.locked <= Handshake
      BY <1>5 DEF KeyOK
    <2> QED
      BY <2>1, <2>2, <2>3
  <1>6. /\ e = [failures |-> e.failures, locked |-> e.locked]
        /\ e.failures \in Seq(0 .. Window - 1) /\ e.locked \in NoLock .. Lockout
        /\ Sorted(e.failures) /\ (e.locked = NoLock => Len(e.failures) <= Most(n) - 1)
    BY DEF KeyOK
  <1> QED
    BY <1>4, <1>5, <1>6, Zenon DEF KeyOK

\* Without a lock, attempts do not matter.
LEMMA KeyFree ==
  ASSUME NEW n, NEW cn, NEW dn, NEW k, NEW e, KeyOK(n, cn, k, e), e.locked = NoLock
  PROVE  KeyOK(n, dn, k, e)
  <1>1. ~(e.locked > 0) /\ ~(e.locked >= 0)
    BY DEF NoLock
  <1> QED
    BY <1>1, Zenon DEF KeyOK

\* A source that is seen for the first time has no failures.
LEMMA KeyNew ==
  ASSUME NEW n \in Nat \ {0}, NEW cn, NEW k
  PROVE  KeyOK(n, cn, k, [failures |-> <<>>, locked |-> NoLock])
  <1> USE Numbers
  <1>1. PICK e : e = [failures |-> <<>>, locked |-> NoLock]
    OBVIOUS
  <1>2. e.failures = <<>> /\ e.locked = NoLock /\ e = [failures |-> e.failures, locked |-> e.locked]
    BY <1>1
  <1>3. Len(e.failures) = 0 /\ e.failures \in Seq(0 .. Window - 1)
    BY <1>2
  <1>4. Most(n) \in Nat \ {0}
    BY DEF Most
  <1>5. /\ e.locked \in NoLock .. Lockout /\ ~(e.locked > 0) /\ ~(e.locked >= 0)
        /\ Len(e.failures) <= Most(n) - 1 /\ Sorted(e.failures)
    BY <1>2, <1>3, <1>4 DEF NoLock, Sorted
  <1>6. KeyOK(n, cn, k, e)
    BY <1>2, <1>3, <1>5, Zenon DEF KeyOK
  <1> QED
    BY <1>1, <1>6

\* When the lock has passed, so have the attempts and the failures from before
\* it: what is left is less than a connection each could leave.
LEMMA KeyPasses ==
  ASSUME NEW n \in Nat \ {0}, NEW cn, NEW dn, NEW k, NEW e, KeyOK(n, cn, k, e), e.locked = 0,
         IsFiniteSet(Trying(cn, k)), NEW d, d = [e EXCEPT !.locked = NoLock]
  PROVE  KeyOK(n, dn, k, d) /\ d.locked = NoLock
  <1> USE Numbers
  <1>1. /\ e = [failures |-> e.failures, locked |-> e.locked]
        /\ e.failures \in Seq(0 .. Window - 1) /\ Sorted(e.failures)
    BY DEF KeyOK
  <1>2. PICK q \in Nat : q + Cardinality(Trying(cn, k)) <= n - 1 /\ OlderThanLock(e, q)
    <2>1. e.locked >= 0
      OBVIOUS
    <2> QED
      BY <2>1 DEF KeyOK
  <1>3. q <= n - 1
    <2>1. Cardinality(Trying(cn, k)) \in Nat
      BY FS_CardinalityType
    <2> QED
      BY <1>2, <2>1
  <1>4. Len(e.failures) <= q
    <2> SUFFICES ASSUME ~(Len(e.failures) <= q) PROVE FALSE
      OBVIOUS
    <2>1. Len(e.failures) \in Nat /\ 1 \in 1 .. Len(e.failures) /\ 1 + q <= Len(e.failures)
      BY <1>1
    <2>2. e.failures[1] >= Lockout - e.locked
      BY <1>2, <2>1 DEF OlderThanLock
    <2>3. e.failures[1] \in 0 .. Window - 1
      BY <1>1, <2>1
    <2> QED
      BY <2>2, <2>3
  <1>5. Most(n) \in Nat \ {0} /\ n <= Most(n)
    BY DEF Most
  <1>6. Len(e.failures) <= Most(n) - 1
    BY <1>1, <1>3, <1>4, <1>5
  <1>7. d.failures = e.failures /\ d.locked = NoLock /\ d = [failures |-> d.failures, locked |-> d.locked]
    BY <1>1
  <1>8. d.locked \in NoLock .. Lockout /\ ~(d.locked > 0) /\ ~(d.locked >= 0)
    BY <1>7 DEF NoLock
  <1>9. KeyOK(n, dn, k, d)
    <2>1. /\ d.failures \in Seq(0 .. Window - 1) /\ Sorted(d.failures)
          /\ Len(d.failures) <= Most(n) - 1
      BY <1>1, <1>6, <1>7
    <2> QED
      BY <1>7, <1>8, <2>1, Zenon DEF KeyOK
  <1> QED
    BY <1>7, <1>9

\* An attempt fails: one failure more, one attempt less.
LEMMA KeyFails ==
  ASSUME NEW n \in Nat \ {0}, NEW cn, NEW dn, NEW k, NEW e, KeyOK(n, cn, k, e),
         IsFiniteSet(Trying(cn, k)), Cardinality(Trying(cn, k)) <= n,
         NEW c \in Trying(cn, k), Trying(dn, k) = Trying(cn, k) \ {c},
         \A x \in Trying(dn, k) : dn[x].timer = cn[x].timer /\ cn[x].timer \in 0 .. Handshake
  PROVE  KeyOK(n, dn, k, LockAfter([e EXCEPT !.failures = Append(@, 0)]))
  <1> USE Numbers
  <1>1. /\ e = [failures |-> e.failures, locked |-> e.locked]
        /\ e.failures \in Seq(0 .. Window - 1) /\ e.locked \in NoLock .. Lockout
        /\ Sorted(e.failures) /\ Len(e.failures) \in Nat
    BY DEF KeyOK
  <1>2. PICK f, l : f = Append(e.failures, 0) /\ l = e.locked
    OBVIOUS
  <1>3. PICK h : h = [e EXCEPT !.failures = Append(@, 0)]
    OBVIOUS
  <1>4. h = [failures |-> f, locked |-> l] /\ h.failures = f /\ h.locked = l
    BY <1>1, <1>2, <1>3
  <1>5. /\ f \in Seq(0 .. Window - 1) /\ Len(f) = Len(e.failures) + 1 /\ f[Len(f)] = 0
        /\ \A i \in 1 .. Len(e.failures) : f[i] = e.failures[i]
    <2>1. 0 \in 0 .. Window - 1
      OBVIOUS
    <2> QED
      BY <1>1, <1>2, <2>1
  <1>6. \A i \in 1 .. Len(f) : f[i] \in 0 .. Window - 1
    BY <1>5
  <1>7. Sorted(f)
    <2> SUFFICES ASSUME NEW i \in 1 .. Len(f), NEW j \in 1 .. Len(f), i <= j PROVE f[i] >= f[j]
      BY DEF Sorted
    <2>1. CASE j = Len(f)
      <3>1. f[i] \in 0 .. Window - 1 /\ f[j] = 0
        BY <1>5, <1>6, <2>1
      <3> QED
        BY <3>1
    <2>2. CASE j # Len(f)
      <3>1. i \in 1 .. Len(e.failures) /\ j \in 1 .. Len(e.failures)
        <4>1. \A a \in Nat : i \in 1 .. a + 1 /\ j \in 1 .. a + 1 /\ j # a + 1 => i \in 1 .. a /\ j \in 1 .. a
          OBVIOUS
        <4> QED
          BY <1>1, <1>5, <2>2, <4>1
      <3> QED
        BY <1>1, <1>5, <3>1 DEF Sorted
    <2> QED
      BY <2>1, <2>2
  <1>8. PICK p \in Nat : /\ p = Cardinality(Trying(cn, k)) /\ p <= n /\ p - 1 \in Nat
                         /\ Cardinality(Trying(dn, k)) = p - 1
    <2>1. Cardinality(Trying(cn, k)) \in Nat
      BY FS_CardinalityType
    <2>2. /\ IsFiniteSet(Trying(cn, k) \ {c})
          /\ Cardinality(Trying(cn, k) \ {c}) = Cardinality(Trying(cn, k)) - 1
      BY FS_RemoveElement
    <2>3. Cardinality(Trying(cn, k) \ {c}) \in Nat
      BY <2>2, FS_CardinalityType
    <2> QED
      BY <2>1, <2>2, <2>3
  <1>9. PICK m \in Nat \ {0} : m = Most(n) /\ n <= m /\ MaxFailures <= m
    BY DEF Most
  <1>10. PICK d : d = LockAfter(h)
    OBVIOUS
  <1>11. CASE Len(f) >= MaxFailures /\ l = NoLock
    <2>1. d = [h EXCEPT !.locked = Lockout]
      BY <1>4, <1>10, <1>11 DEF LockAfter
    <2>2. d.failures = f /\ d.locked = Lockout /\ d = [failures |-> d.failures, locked |-> d.locked]
      BY <1>4, <2>1
    <2>3. Len(e.failures) <= m - 1
      BY <1>2, <1>9, <1>11 DEF KeyOK
    <2>4. Len(d.failures) + Cardinality(Trying(dn, k)) <= Most(n) - 1 + n
      <3>1. PICK a \in Nat : a = Len(e.failures) /\ Len(f) = a + 1 /\ a <= m - 1
        BY <1>1, <1>5, <2>3
      <3>2. (a + 1) + (p - 1) <= m - 1 + n
        BY <1>8, <3>1
      <3> QED
        BY <1>8, <1>9, <2>2, <3>1, <3>2
    <2>5. 0 + Cardinality(Trying(dn, k)) <= n - 1
      BY <1>8
    <2>6. OlderThanLock(d, 0)
      BY <1>6, <2>2 DEF OlderThanLock
    <2>7. \A x \in Trying(dn, k) : dn[x].timer + Lockout - d.locked <= Handshake
      <3> SUFFICES ASSUME NEW x \in Trying(dn, k)
                   PROVE  dn[x].timer + Lockout - d.locked <= Handshake
        OBVIOUS
      <3>1. dn[x].timer \in 0 .. Handshake
        OBVIOUS
      <3> QED
        BY <2>2, <3>1
    <2>8. /\ d.failures \in Seq(0 .. Window - 1) /\ Sorted(d.failures)
          /\ d.locked \in NoLock .. Lockout /\ d.locked # NoLock
      BY <1>5, <1>7, <2>2 DEF NoLock
    <2>9. 0 \in Nat
      OBVIOUS
    <2>10. KeyOK(n, dn, k, d)
      BY <2>2, <2>4, <2>5, <2>6, <2>7, <2>8, <2>9, Zenon DEF KeyOK
    <2> QED
      BY <1>3, <1>10, <2>10
  <1>12. CASE ~(Len(f) >= MaxFailures /\ l = NoLock)
    <2>1. d = h
      BY <1>4, <1>10, <1>12 DEF LockAfter
    <2>2. d.failures = f /\ d.locked = l /\ d = [failures |-> d.failures, locked |-> d.locked]
      BY <1>4, <2>1
    <2>3. d.locked = NoLock => Len(d.failures) <= Most(n) - 1
      BY <1>5, <1>9, <1>12, <2>2
    <2>4. d.locked > 0 => Len(d.failures) + Cardinality(Trying(dn, k)) <= Most(n) - 1 + n
      <3>1. l > 0 => Len(e.failures) + p <= Most(n) - 1 + n
        BY <1>2, <1>8 DEF KeyOK
      <3>2. PICK a \in Nat : a = Len(e.failures) /\ Len(f) = a + 1
        BY <1>1, <1>5
      <3>3. l > 0 => a + p <= m - 1 + n
        BY <1>9, <3>1, <3>2
      <3>4. l > 0 => (a + 1) + (p - 1) <= m - 1 + n
        BY <3>3
      <3> QED
        BY <1>8, <1>9, <2>2, <3>2, <3>4
    <2>5. ASSUME d.locked >= 0
          PROVE  /\ \E q \in Nat : q + Cardinality(Trying(dn, k)) <= n - 1 /\ OlderThanLock(d, q)
                 /\ \A x \in Trying(dn, k) : dn[x].timer + Lockout - d.locked <= Handshake
      <3>1. e.locked >= 0
        BY <1>2, <2>2, <2>5
      <3>2. PICK q \in Nat : q + p <= n - 1 /\ OlderThanLock(e, q)
        BY <1>8, <3>1 DEF KeyOK
      <3>3. q + 1 \in Nat /\ (q + 1) + Cardinality(Trying(dn, k)) <= n - 1
        BY <1>8, <3>2
      <3>4. OlderThanLock(d, q + 1)
        <4> SUFFICES ASSUME NEW i \in 1 .. Len(f), i + (q + 1) <= Len(f)
                     PROVE  f[i] >= Lockout - l
          BY <2>2 DEF OlderThanLock
        <4>1. i \in 1 .. Len(e.failures) /\ i + q <= Len(e.failures)
          <5>1. \A a \in Nat : i \in 1 .. a + 1 /\ i + (q + 1) <= a + 1 => i \in 1 .. a /\ i + q <= a
            OBVIOUS
          <5> QED
            BY <1>1, <1>5, <5>1
        <4> QED
          BY <1>2, <1>5, <3>2, <4>1 DEF OlderThanLock
      <3>5. \A x \in Trying(cn, k) : cn[x].timer + Lockout - e.locked <= Handshake
        BY <3>1 DEF KeyOK
      <3>6. \A x \in Trying(dn, k) : dn[x].timer + Lockout - d.locked <= Handshake
        BY <1>2, <2>2, <3>5
      <3> QED
        BY <3>3, <3>4, <3>6
    <2>6. /\ d.failures \in Seq(0 .. Window - 1) /\ Sorted(d.failures) /\ d.locked \in NoLock .. Lockout
      BY <1>1, <1>2, <1>5, <1>7, <2>2
    <2>7. KeyOK(n, dn, k, d)
      BY <2>2, <2>3, <2>4, <2>5, <2>6, Zenon DEF KeyOK
    <2> QED
      BY <1>3, <1>10, <2>7
  <1> QED
    BY <1>11, <1>12

\* Time passes: for the attempts as for the lock, and for the failures.
LEMMA KeyAges ==
  ASSUME NEW n \in Nat \ {0}, NEW cn, NEW dn, NEW k, NEW e, KeyOK(n, cn, k, e),
         IsFiniteSet(Trying(cn, k)), Trying(dn, k) = Trying(cn, k),
         \A x \in Trying(cn, k) : cn[x].timer \in 0 .. Handshake /\ dn[x].timer = cn[x].timer - 1
  PROVE  KeyOK(n, dn, k, [failures |-> prune(Older(e.failures)), locked |-> Sooner(e.locked)])
  <1> USE Numbers
  <1>1. /\ e.failures \in Seq(0 .. Window - 1) /\ e.locked \in NoLock .. Lockout
        /\ Sorted(e.failures) /\ Len(e.failures) \in Nat
    BY DEF KeyOK
  <1>2. PICK f, l : f = e.failures /\ l = e.locked
    OBVIOUS
  <1>3. PICK o : o = Older(f)
    OBVIOUS
  <1>4. o \in Seq(Nat) /\ Len(o) = Len(f) /\ \A i \in 1 .. Len(f) : o[i] = f[i] + 1 /\ f[i] \in Nat
    BY <1>1, <1>2, <1>3 DEF Older
  <1>5. Sorted(o)
    <2> SUFFICES ASSUME NEW i \in 1 .. Len(o), NEW j \in 1 .. Len(o), i <= j PROVE o[i] >= o[j]
      BY DEF Sorted
    <2>1. i \in 1 .. Len(f) /\ j \in 1 .. Len(f)
      BY <1>4
    <2>2. f[i] >= f[j]
      BY <1>1, <1>2, <2>1 DEF Sorted
    <2>3. o[i] = f[i] + 1 /\ o[j] = f[j] + 1 /\ f[i] \in Nat /\ f[j] \in Nat
      BY <1>4, <2>1
    <2> QED
      BY <2>2, <2>3
  <1>6. PICK g \in 0 .. Len(o) :
           /\ prune(o) \in Seq(0 .. Window - 1) /\ Len(prune(o)) = Len(o) - g
           /\ \A i \in 1 .. Len(o) - g : prune(o)[i] = o[i + g]
    BY <1>4, <1>5, Pruned
  <1>7. PICK w : w = prune(o)
    OBVIOUS
  <1>8. /\ w \in Seq(0 .. Window - 1) /\ Len(w) = Len(f) - g /\ g \in 0 .. Len(f) /\ Len(f) \in Nat
        /\ \A i \in 1 .. Len(w) : i + g \in 1 .. Len(f) /\ w[i] = f[i + g] + 1 /\ f[i + g] \in Nat
    <2>1. Len(f) \in Nat /\ g \in 0 .. Len(f) /\ Len(w) = Len(f) - g /\ w \in Seq(0 .. Window - 1)
      BY <1>1, <1>2, <1>4, <1>6, <1>7
    <2>2. ASSUME NEW i \in 1 .. Len(w)
          PROVE  i + g \in 1 .. Len(f) /\ w[i] = f[i + g] + 1 /\ f[i + g] \in Nat
      <3>1. i + g \in 1 .. Len(f) /\ i \in 1 .. Len(o) - g
        BY <1>4, <2>1
      <3>2. w[i] = o[i + g]
        BY <1>6, <1>7, <3>1
      <3> QED
        BY <1>4, <3>1, <3>2
    <2> QED
      BY <2>1, <2>2
  <1>9. Sorted(w)
    <2> SUFFICES ASSUME NEW i \in 1 .. Len(w), NEW j \in 1 .. Len(w), i <= j PROVE w[i] >= w[j]
      BY DEF Sorted
    <2>1. i + g \in 1 .. Len(f) /\ j + g \in 1 .. Len(f) /\ i + g <= j + g
      BY <1>8
    <2>2. f[i + g] >= f[j + g]
      BY <1>1, <1>2, <2>1 DEF Sorted
    <2>3. w[i] = f[i + g] + 1 /\ w[j] = f[j + g] + 1 /\ f[i + g] \in Nat /\ f[j + g] \in Nat
      BY <1>8
    <2> QED
      BY <2>2, <2>3
  <1>10. PICK s : s = Sooner(l)
    OBVIOUS
  <1>11. /\ s \in NoLock .. Lockout /\ l \in NoLock .. Lockout
         /\ l = NoLock => s = NoLock
         /\ l = 0 => s = 0
         /\ l > 0 => s = l - 1
    BY <1>1, <1>2, <1>10 DEF Sooner, NoLock
  <1>12. PICK d : d = [failures |-> w, locked |-> s]
    OBVIOUS
  <1>13. d.failures = w /\ d.locked = s /\ d = [failures |-> d.failures, locked |-> d.locked]
    BY <1>12
  <1>14. Most(n) \in Nat /\ Cardinality(Trying(cn, k)) \in Nat
    BY FS_CardinalityType DEF Most
  <1>15. d.locked = NoLock => Len(d.failures) <= Most(n) - 1
    <2>1. l = NoLock => Len(f) <= Most(n) - 1
      BY <1>2 DEF KeyOK
    <2>2. s = NoLock => l = NoLock
      BY <1>11 DEF NoLock
    <2> QED
      BY <1>8, <1>13, <1>14, <2>1, <2>2
  <1>16. d.locked > 0 => Len(d.failures) + Cardinality(Trying(dn, k)) <= Most(n) - 1 + n
    <2>1. l > 0 => Len(f) + Cardinality(Trying(cn, k)) <= Most(n) - 1 + n
      BY <1>2 DEF KeyOK
    <2>2. s > 0 => l > 0
      BY <1>11 DEF NoLock
    <2>3. Len(w) \in Nat /\ Len(f) \in Nat /\ Len(w) <= Len(f)
      BY <1>8
    <2>4. \A a, b, c \in Nat, m \in Int : a <= b /\ b + c <= m => a + c <= m
      OBVIOUS
    <2>5. Most(n) - 1 + n \in Int
      BY <1>14
    <2>6. s > 0 => Len(w) + Cardinality(Trying(cn, k)) <= Most(n) - 1 + n
      BY <1>14, <2>1, <2>2, <2>3, <2>4, <2>5
    <2> QED
      BY <1>13, <2>6
  <1>17. ASSUME d.locked >= 0
         PROVE  /\ \E q \in Nat : q + Cardinality(Trying(dn, k)) <= n - 1 /\ OlderThanLock(d, q)
                /\ \A x \in Trying(dn, k) : dn[x].timer + Lockout - d.locked <= Handshake
    <2>1. l >= 0 /\ l \in 0 .. Lockout /\ s \in 0 .. Lockout /\ l <= s + 1
      BY <1>11, <1>13, <1>17 DEF NoLock
    <2>2. PICK q \in Nat : q + Cardinality(Trying(cn, k)) <= n - 1 /\ OlderThanLock(e, q)
      BY <1>2, <2>1 DEF KeyOK
    <2>3. OlderThanLock(d, q)
      <3> SUFFICES ASSUME NEW i \in 1 .. Len(w), i + q <= Len(w) PROVE w[i] >= Lockout - s
        BY <1>13 DEF OlderThanLock
      <3>1. i + g \in 1 .. Len(f) /\ (i + g) + q <= Len(f)
        BY <1>8
      <3>2. f[i + g] >= Lockout - l
        BY <1>2, <2>2, <3>1 DEF OlderThanLock
      <3>3. w[i] = f[i + g] + 1 /\ f[i + g] \in Nat
        BY <1>8
      <3> QED
        BY <2>1, <3>2, <3>3
    <2>4. ASSUME NEW x \in Trying(dn, k) PROVE dn[x].timer + Lockout - d.locked <= Handshake
      <3>1. cn[x].timer + Lockout - l <= Handshake
        BY <1>2, <2>1 DEF KeyOK
      <3>2. cn[x].timer \in 0 .. Handshake /\ dn[x].timer = cn[x].timer - 1
        OBVIOUS
      <3>3. \A a \in Nat : a + Lockout - l <= Handshake => (a - 1) + Lockout - s <= Handshake
        BY <2>1
      <3> QED
        BY <1>13, <3>1, <3>2, <3>3
    <2> QED
      BY <2>2, <2>3, <2>4
  <1>18. KeyOK(n, dn, k, d)
    <2>1. d.failures \in Seq(0 .. Window - 1) /\ Sorted(d.failures) /\ d.locked \in NoLock .. Lockout
      BY <1>8, <1>9, <1>11, <1>13
    <2> QED
      BY <1>13, <1>15, <1>16, <1>17, <2>1, Zenon DEF KeyOK
  <1> QED
    BY <1>2, <1>3, <1>7, <1>10, <1>12, <1>18
-----------------------------------------------------------------------------
(* The throttle *)

\* A connection that does not ask for a password is not trying, whatever it
\* did before.
LEMMA TryingAfter ==
  ASSUME NEW cn, cn = [d \in Conn |-> cn[d]], NEW c \in Conn, NEW x, x.phase # "password",
         NEW dn, dn = [cn EXCEPT ![c] = x], NEW k
  PROVE  Trying(dn, k) = Trying(cn, k) \ {c} /\ \A d \in Trying(dn, k) : dn[d] = cn[d]
  <1>1. \A d \in Conn : dn[d] = IF d = c THEN x ELSE cn[d]
    OBVIOUS
  <1> QED
    BY <1>1 DEF Trying

\* A connection moves without failing a password.
LEMMA KeysMove ==
  ASSUME NEW n \in Nat \ {0}, NEW tls, NEW count, NEW cn, ConnsOK(n, tls, count, cn),
         NEW c \in Conn, NEW x, x.phase # "password", NEW dn, dn = [cn EXCEPT ![c] = x],
         NEW E, KeysOK(n, cn, E)
  PROVE  KeysOK(n, dn, E)
  <1> SUFFICES ASSUME NEW k \in DOMAIN E PROVE KeyOK(n, dn, k, E[k])
    BY DEF KeysOK
  <1>1. KeyOK(n, cn, k, E[k])
    BY DEF KeysOK
  <1>2. IsFiniteSet(Trying(cn, k))
    BY TryingBounded
  <1>3. cn = [d \in Conn |-> cn[d]]
    BY DEF ConnsOK
  <1>4. Trying(dn, k) = Trying(cn, k) \ {c} /\ \A d \in Trying(dn, k) : dn[d] = cn[d]
    BY <1>3, TryingAfter
  <1> QED
    BY <1>1, <1>2, <1>4, KeyMoves

\* Fewer sources.
LEMMA TableShrinks ==
  ASSUME NEW E, NEW S, S \subseteq DOMAIN E, NEW D, D = [k \in S |-> E[k]], TableOK(E)
  PROVE  /\ TableOK(D)
         /\ \A n, cn : KeysOK(n, cn, E) => KeysOK(n, cn, D)
  <1> USE Numbers
  <1>1. DOMAIN D = S /\ \A k \in S : D[k] = E[k]
    OBVIOUS
  <1>2. /\ DOMAIN E \subseteq Key /\ IsFiniteSet(DOMAIN E) /\ Cardinality(DOMAIN E) <= MaxTracked
    BY DEF TableOK
  <1>3. IsFiniteSet(S) /\ Cardinality(S) <= Cardinality(DOMAIN E)
    BY <1>2, FS_Subset
  <1>4. Cardinality(S) \in Nat /\ Cardinality(DOMAIN E) \in Nat
    BY <1>2, <1>3, FS_CardinalityType
  <1>5. TableOK(D)
    BY <1>1, <1>2, <1>3, <1>4 DEF TableOK
  <1>6. \A n, cn : KeysOK(n, cn, E) => KeysOK(n, cn, D)
    BY <1>1 DEF KeysOK
  <1> QED
    BY <1>5, <1>6

\* A failure is counted for k; the other sources stay.
LEMMA CountedOK ==
  ASSUME NEW E, NEW k \in Key, TableOK(E)
  PROVE  /\ TableOK(Counted(E, k))
         /\ DOMAIN E \subseteq DOMAIN Counted(E, k) /\ DOMAIN Counted(E, k) \subseteq DOMAIN E \cup {k}
         /\ \A j \in DOMAIN Counted(E, k) \ {k} : Counted(E, k)[j] = E[j]
         /\ k \in DOMAIN Counted(E, k) =>
              Counted(E, k)[k] =
                LockAfter([(IF k \in DOMAIN E THEN E[k] ELSE [failures |-> <<>>, locked |-> NoLock])
                             EXCEPT !.failures = Append(@, 0)])
  <1> USE Numbers
  <1>1. /\ DOMAIN E \subseteq Key /\ IsFiniteSet(DOMAIN E) /\ Cardinality(DOMAIN E) <= MaxTracked
        /\ Cardinality(DOMAIN E) \in Nat
    BY FS_CardinalityType DEF TableOK
  <1>2. CASE k \notin DOMAIN E /\ Cardinality(DOMAIN E) >= MaxTracked
    <2>1. Counted(E, k) = E
      BY <1>2, Zenon DEF Counted
    <2> QED
      BY <1>2, <2>1
  <1>3. CASE ~(k \notin DOMAIN E /\ Cardinality(DOMAIN E) >= MaxTracked)
    <2>1. PICK v : v = LockAfter([(IF k \in DOMAIN E THEN E[k] ELSE [failures |-> <<>>, locked |-> NoLock])
                                    EXCEPT !.failures = Append(@, 0)])
      OBVIOUS
    <2>2. PICK D : D = Counted(E, k)
      OBVIOUS
    <2>3. D = With(E, k, v)
      BY <1>3, <2>1, <2>2, Zenon DEF Counted
    <2>4. DOMAIN D = DOMAIN E \cup {k} /\ D[k] = v /\ \A j \in DOMAIN D \ {k} : D[j] = E[j]
      BY <2>3 DEF With
    <2>5. PICK S : S = DOMAIN E
      OBVIOUS
    <2>6. /\ IsFiniteSet(S \cup {k})
          /\ Cardinality(S \cup {k}) = IF k \in S THEN Cardinality(S) ELSE Cardinality(S) + 1
      BY <1>1, <2>5, FS_AddElement
    <2>7. Cardinality(S \cup {k}) <= MaxTracked
      BY <1>1, <1>3, <2>5, <2>6
    <2>8. TableOK(D)
      BY <1>1, <2>4, <2>5, <2>6, <2>7 DEF TableOK
    <2> QED
      BY <2>1, <2>2, <2>4, <2>8
  <1> QED
    BY <1>2, <1>3

\* record_failure: both sources of the attempt are counted, if there is room.
LEMMA FailureOK ==
  ASSUME ConnInv, NEW c \in Conn, At(c, "password"),
         NEW x, x.phase = "failing", NEW dn, dn = [conn EXCEPT ![c] = x]
  PROVE  TableOK(record_failure(c)) /\ KeysOK(config.max_connections, dn, record_failure(c))
  <1> USE Numbers
  <1>1. PICK n \in Nat \ {0} : n = config.max_connections
    BY DEF ConnInv
  <1>2. PICK tls : tls = config.tls
    OBVIOUS
  <1>3. ConnsOK(n, tls, open, conn) /\ TableOK(entries) /\ KeysOK(n, conn, entries)
    BY <1>1, <1>2 DEF ConnInv
  <1>4. PICK a, u : a = conn[c].address /\ u = conn[c].user
    OBVIOUS
  <1>5. ConnOK(conn[c]) /\ conn = [d \in Conn |-> conn[d]] /\ \A d \in Conn : ConnOK(conn[d])
    BY <1>3 DEF ConnsOK
  <1>6. a \in Address /\ u \in User /\ a # u /\ a \in Key /\ u \in Key
    <2>1. a \in Address /\ u \in User
      BY <1>4, <1>5, ConnFacts DEF At
    <2> QED
      BY <2>1 DEF Key
  <1>7. c \in Trying(conn, a) /\ c \in Trying(conn, u)
    BY <1>4 DEF Trying, At
  <1>8. PICK E : /\ E = IF Cardinality(DOMAIN entries) >= MaxTracked THEN sweep(entries) ELSE entries
                 /\ TableOK(E) /\ KeysOK(n, conn, E)
    <2>1. PICK S : S = {k \in DOMAIN entries : entries[k].locked > 0 \/ entries[k].failures # <<>>}
      OBVIOUS
    <2>2. S \subseteq DOMAIN entries /\ sweep(entries) = [k \in S |-> entries[k]]
      BY <2>1 DEF sweep
    <2>3. TableOK(sweep(entries)) /\ KeysOK(n, conn, sweep(entries))
      BY <1>3, <2>2, TableShrinks
    <2> QED
      BY <1>3, <2>3
  <1>9. PICK D : D = Counted(E, a)
    OBVIOUS
  <1>10. PICK F : F = Counted(D, u)
    OBVIOUS
  <1>11. record_failure(c) = F
    BY <1>4, <1>8, <1>9, <1>10, Zenon DEF record_failure
  <1>12. /\ TableOK(D) /\ DOMAIN E \subseteq DOMAIN D /\ DOMAIN D \subseteq DOMAIN E \cup {a}
         /\ \A j \in DOMAIN D \ {a} : D[j] = E[j]
         /\ a \in DOMAIN D =>
              D[a] = LockAfter([(IF a \in DOMAIN E THEN E[a] ELSE [failures |-> <<>>, locked |-> NoLock])
                                  EXCEPT !.failures = Append(@, 0)])
    BY <1>6, <1>8, <1>9, CountedOK
  <1>13. /\ TableOK(F) /\ DOMAIN D \subseteq DOMAIN F /\ DOMAIN F \subseteq DOMAIN D \cup {u}
         /\ \A j \in DOMAIN F \ {u} : F[j] = D[j]
         /\ u \in DOMAIN F =>
              F[u] = LockAfter([(IF u \in DOMAIN D THEN D[u] ELSE [failures |-> <<>>, locked |-> NoLock])
                                  EXCEPT !.failures = Append(@, 0)])
    <2>1. TableOK(D) /\ u \in Key
      BY <1>6, <1>12
    <2> HIDE Numbers
    <2> QED
      BY <1>10, <2>1, CountedOK, SMTT(30)
  <1>14. ASSUME NEW k, c \in Trying(conn, k), NEW e, KeyOK(n, conn, k, e)
         PROVE  KeyOK(n, dn, k, LockAfter([e EXCEPT !.failures = Append(@, 0)]))
    <2>1. IsFiniteSet(Trying(conn, k)) /\ Cardinality(Trying(conn, k)) <= n
      BY <1>3, TryingBounded
    <2>2. Trying(dn, k) = Trying(conn, k) \ {c} /\ \A d \in Trying(dn, k) : dn[d] = conn[d]
      BY <1>5, TryingAfter
    <2>3. ASSUME NEW d \in Trying(dn, k)
          PROVE  dn[d].timer = conn[d].timer /\ conn[d].timer \in 0 .. Handshake
      <3>1. dn[d] = conn[d] /\ d \in Conn /\ conn[d].phase = "password"
        BY <2>2 DEF Trying
      <3>2. "timer" \in DOMAIN conn[d]
        BY <1>5, <3>1, ConnFacts
      <3> QED
        BY <1>5, <3>1, <3>2, ConnFacts
    <2> QED
      BY <1>14, <2>1, <2>2, <2>3, KeyFails
  <1>15. KeysOK(n, dn, F)
    <2> SUFFICES ASSUME NEW k \in DOMAIN F PROVE KeyOK(n, dn, k, F[k])
      BY DEF KeysOK
    <2>1. CASE k = u
      <3>1. PICK e : e = IF u \in DOMAIN D THEN D[u] ELSE [failures |-> <<>>, locked |-> NoLock]
        OBVIOUS
      <3>2. KeyOK(n, conn, u, e)
        <4>1. CASE u \in DOMAIN D
          <5>1. u \in DOMAIN E /\ D[u] = E[u]
            BY <1>6, <1>12, <4>1
          <5>2. KeyOK(n, conn, u, E[u])
            BY <1>8, <5>1 DEF KeysOK
          <5> QED
            BY <3>1, <4>1, <5>1, <5>2
        <4>2. CASE u \notin DOMAIN D
          BY <3>1, <4>2, KeyNew
        <4> QED
          BY <4>1, <4>2
      <3>3. F[u] = LockAfter([e EXCEPT !.failures = Append(@, 0)])
        BY <1>13, <2>1, <3>1
      <3> QED
        BY <1>7, <1>14, <2>1, <3>2, <3>3
    <2>2. CASE k = a
      <3>1. PICK e : e = IF a \in DOMAIN E THEN E[a] ELSE [failures |-> <<>>, locked |-> NoLock]
        OBVIOUS
      <3>2. KeyOK(n, conn, a, e)
        <4>1. CASE a \in DOMAIN E
          BY <1>8, <3>1, <4>1 DEF KeysOK
        <4>2. CASE a \notin DOMAIN E
          BY <3>1, <4>2, KeyNew
        <4> QED
          BY <4>1, <4>2
      <3>3. a \in DOMAIN D /\ F[a] = D[a]
        BY <1>6, <1>13, <2>2
      <3>4. F[a] = LockAfter([e EXCEPT !.failures = Append(@, 0)])
        BY <1>12, <3>1, <3>3
      <3> QED
        BY <1>7, <1>14, <2>2, <3>2, <3>4
    <2>3. CASE k # u /\ k # a
      <3>1. k \in DOMAIN E /\ F[k] = E[k]
        BY <1>12, <1>13, <2>3
      <3>2. KeysOK(n, dn, E)
        BY <1>3, <1>8, KeysMove
      <3> QED
        BY <3>1, <3>2 DEF KeysOK
    <2> QED
      BY <2>1, <2>2, <2>3
  <1> QED
    BY <1>1, <1>11, <1>13, <1>15

\* check, of the sources K: what it leaves is in order, and free of locks that
\* have passed.
LEMMA CheckOK ==
  ASSUME ConnInv, NEW K
  PROVE  /\ TableOK(check(K)) /\ KeysOK(config.max_connections, conn, check(K))
         /\ DOMAIN check(K) = DOMAIN entries
         /\ \A k \in DOMAIN entries : k \in K /\ ~IsLocked(k) => check(K)[k].locked = NoLock
  <1> USE Numbers
  <1>1. PICK n \in Nat \ {0} : n = config.max_connections
    BY DEF ConnInv
  <1>2. PICK tls : tls = config.tls
    OBVIOUS
  <1>3. ConnsOK(n, tls, open, conn) /\ TableOK(entries) /\ KeysOK(n, conn, entries)
    BY <1>1, <1>2 DEF ConnInv
  <1>4. /\ DOMAIN check(K) = DOMAIN entries
        /\ \A k \in DOMAIN entries :
             check(K)[k] = IF k \in K /\ entries[k].locked = 0
                           THEN [entries[k] EXCEPT !.locked = NoLock] ELSE entries[k]
    BY DEF check
  <1>5. TableOK(check(K))
    BY <1>3, <1>4 DEF TableOK
  <1>6. ASSUME NEW k \in DOMAIN entries
        PROVE  KeyOK(n, conn, k, check(K)[k]) /\ (k \in K /\ ~IsLocked(k) => check(K)[k].locked = NoLock)
    <2>1. KeyOK(n, conn, k, entries[k]) /\ IsFiniteSet(Trying(conn, k))
      BY <1>3, TryingBounded DEF KeysOK
    <2>2. CASE k \in K /\ entries[k].locked = 0
      <3>1. PICK d : d = [entries[k] EXCEPT !.locked = NoLock]
        OBVIOUS
      <3>2. KeyOK(n, conn, k, d) /\ d.locked = NoLock
        BY <2>1, <2>2, <3>1, KeyPasses
      <3> QED
        BY <1>4, <2>2, <3>1, <3>2
    <2>3. CASE ~(k \in K /\ entries[k].locked = 0)
      <3>1. check(K)[k] = entries[k]
        BY <1>4, <2>3
      <3>2. entries[k].locked \in NoLock .. Lockout
        BY <2>1 DEF KeyOK
      <3>3. k \in K /\ ~IsLocked(k) => entries[k].locked = NoLock
        BY <2>3, <3>2 DEF IsLocked, NoLock
      <3> QED
        BY <2>1, <3>1, <3>3
    <2> QED
      BY <2>2, <2>3
  <1> QED
    BY <1>1, <1>4, <1>5, <1>6 DEF KeysOK
-----------------------------------------------------------------------------
(* Steps *)

\* What the invariant says, with the configuration spelled out.
LEMMA Configured ==
  ASSUME ConnInv
  PROVE  /\ config.max_connections \in Nat \ {0} /\ config.tls \in BOOLEAN
         /\ ConnsOK(config.max_connections, config.tls, open, conn)
         /\ TableOK(entries) /\ KeysOK(config.max_connections, conn, entries)
         /\ conn = [d \in Conn |-> conn[d]] /\ \A d \in Conn : ConnOK(conn[d])
         /\ config.tls => \A d \in Conn : conn[d].phase \in {"password", "session"} => conn[d].encrypted
  <1>1. config.max_connections \in Nat \ {0} /\ config.tls \in BOOLEAN
    BY Numbers DEF ConnInv
  <1>2. /\ ConnsOK(config.max_connections, config.tls, open, conn)
        /\ TableOK(entries) /\ KeysOK(config.max_connections, conn, entries)
    BY DEF ConnInv
  <1> QED
    BY <1>1, <1>2, Zenon DEF ConnsOK

\* A task ends.
LEMMA CloseStep ==
  ASSUME ConnInv, NEW c \in Conn, conn[c].phase # "closed", Close(c), UNCHANGED config,
         TableOK(entries'), KeysOK(config.max_connections, conn, entries')
  PROVE  ConnInv'
  <1>1. PICK n \in Nat \ {0}, tls \in BOOLEAN : n = config.max_connections /\ tls = config.tls
    BY Configured
  <1>2. /\ ConnsOK(n, tls, open, conn) /\ KeysOK(n, conn, entries')
        /\ conn[c] # Closed /\ conn' = [conn EXCEPT ![c] = Closed] /\ open' = open - 1
    BY <1>1, Configured DEF Close, Become, Closed
  <1>3. ConnOK(Closed) /\ Closed.phase = "closed"
    BY DEF ConnOK, Closed
  <1>4. ConnsOK(n, tls, open', conn')
    <2>1. MayBecome(n, tls, open, open', conn, c, Closed)
      BY <1>2, <1>3 DEF MayBecome
    <2> QED
      BY <1>2, <1>3, <2>1, ConnMoves
  <1>5. KeysOK(n, conn', entries')
    BY <1>2, <1>3, KeysMove
  <1> QED
    BY <1>1, <1>4, <1>5 DEF ConnInv

\* A connection that is served goes on, without waiting for a password.
LEMMA MoveStep ==
  ASSUME ConnInv, NEW c \in Conn, NEW x, ConnOK(x), Become(c, x),
         x.phase \notin {"closed", "password"}, conn[c].phase \notin {"closed", "refusing"},
         config.tls => (x.phase = "session" => x.encrypted), UNCHANGED <<config, open>>
  PROVE  /\ ConnsOK(config.max_connections, config.tls, open', conn')
         /\ \A E : KeysOK(config.max_connections, conn, E) => KeysOK(config.max_connections, conn', E)
         /\ UNCHANGED entries => ConnInv'
  <1>1. PICK n \in Nat \ {0}, tls \in BOOLEAN : n = config.max_connections /\ tls = config.tls
    BY Configured
  <1>2. /\ ConnsOK(n, tls, open, conn) /\ conn[c] # Closed /\ x # Closed
        /\ conn' = [conn EXCEPT ![c] = x] /\ open' = open
        /\ c \in ServedIn(conn)
    BY <1>1, Configured DEF Become, Closed, ServedIn
  <1>3. ConnsOK(n, tls, open', conn')
    <2>1. tls => (x.phase \in {"password", "session"} => x.encrypted)
      BY <1>1
    <2>2. MayBecome(n, tls, open, open', conn, c, x)
      BY <1>2, <2>1, Zenon DEF MayBecome
    <2> QED
      BY <1>2, <2>2, ConnMoves
  <1>4. \A E : KeysOK(n, conn, E) => KeysOK(n, conn', E)
    BY <1>2, KeysMove
  <1>5. UNCHANGED entries => ConnInv'
    BY <1>1, <1>3, <1>4 DEF ConnInv
  <1> QED
    BY <1>1, <1>3, <1>4, <1>5

\* A connection is accepted, to be served or refused (Server::run).
LEMMA AcceptStep ==
  ASSUME ConnInv, NEW c \in Conn, NEW a \in Address, Accept(c, a)
  PROVE  ConnInv'
  <1> USE Numbers
  <1>1. PICK n \in Nat \ {0}, tls \in BOOLEAN : n = config.max_connections /\ tls = config.tls
    BY Configured
  <1>2. PICK x : x = IF IsFull THEN Refusing ELSE Negotiating(a, FALSE)
    OBVIOUS
  <1>3. /\ ConnsOK(n, tls, open, conn) /\ conn[c] = Closed
        /\ conn' = [conn EXCEPT ![c] = x] /\ open' = open + 1
        /\ config' = config /\ entries' = entries
    <2>1. conn[c] = Closed
      BY Configured, ConnFacts DEF Accept, At
    <2>2. conn' = [conn EXCEPT ![c] = x]
      BY <1>2 DEF Accept, Become, Refusing
    <2> QED
      BY <1>1, <2>1, <2>2, Configured DEF Accept
  <1>4. /\ ConnOK(x) /\ x.phase \notin {"closed", "password", "session"} /\ x # Closed
        /\ x.phase = "refusing" \/ open + 1 <= n
    <2>1. CASE IsFull
      BY <1>2, <2>1 DEF Refusing, Closed, ConnOK
    <2>2. CASE ~IsFull
      <3>1. x = [phase |-> "startup", address |-> a, encrypted |-> FALSE, left |-> Packets, timer |-> Handshake]
        BY <1>2, <2>2 DEF Negotiating
      <3>2. Packets \in 1 .. Packets /\ Handshake \in 0 .. Handshake /\ FALSE \in BOOLEAN
        BY DEF Packets
      <3>3. ConnOK(x)
        BY <3>1, <3>2 DEF ConnOK
      <3>4. open \in Nat
        BY <1>3, TryingBounded DEF ConnsOK
      <3>5. open + 1 <= n
        BY <1>1, <2>2, <3>4 DEF IsFull
      <3> QED
        BY <3>1, <3>3, <3>5 DEF Closed
    <2> QED
      BY <2>1, <2>2
  <1>5. ConnsOK(n, tls, open', conn')
    <2>1. MayBecome(n, tls, open, open', conn, c, x)
      BY <1>3, <1>4 DEF MayBecome
    <2> QED
      BY <1>3, <1>4, <2>1, ConnMoves
  <1>6. KeysOK(n, conn', entries)
    BY <1>1, <1>3, <1>4, Configured, KeysMove
  <1> QED
    BY <1>1, <1>3, <1>5, <1>6 DEF ConnInv

\* Packets before the startup message.
LEMMA NegotiateStep ==
  ASSUME ConnInv, NEW c \in Conn, SslRequest(c) \/ GssEncRequest(c) \/ TlsAccepted(c)
  PROVE  ConnInv'
  <1> USE Numbers
  <1>1. /\ UNCHANGED <<config, entries>> /\ ConnOK(conn[c])
        /\ TableOK(entries') /\ KeysOK(config.max_connections, conn, entries')
    BY Configured DEF SslRequest, GssEncRequest, TlsAccepted
  <1>2. CASE Close(c)
    <2>1. conn[c].phase # "closed"
      BY DEF SslRequest, GssEncRequest, TlsAccepted, At
    <2> QED
      BY <1>1, <1>2, <2>1, CloseStep
  <1>3. CASE At(c, "startup") /\ Become(c, [phase |-> "tls", address |-> conn[c].address, timer |-> Handshake])
             /\ UNCHANGED open
    <2>1. PICK x : x = [phase |-> "tls", address |-> conn[c].address, timer |-> Handshake]
      OBVIOUS
    <2>2. conn[c].address \in Address /\ Handshake \in 0 .. Handshake
      BY <1>1, <1>3, ConnFacts DEF At
    <2>3. ConnOK(x) /\ x.phase = "tls"
      BY <2>1, <2>2 DEF ConnOK
    <2> QED
      BY <1>1, <1>3, <2>1, <2>3, MoveStep DEF At
  <1>4. CASE At(c, "startup") /\ conn[c].left # 1 /\ Become(c, [conn[c] EXCEPT !.left = @ - 1])
             /\ UNCHANGED open
    <2>1. PICK y, x : y = conn[c] /\ x = [y EXCEPT !.left = @ - 1]
      OBVIOUS
    <2>2. PICK a \in Address, b \in BOOLEAN, l \in 1 .. Packets, t \in 0 .. Handshake :
            y = [phase |-> "startup", address |-> a, encrypted |-> b, left |-> l, timer |-> t]
      <3>1. ConnOK(y) /\ y.phase = "startup"
        BY <1>1, <1>4, <2>1 DEF At
      <3> QED
        BY <3>1 DEF ConnOK, Closed, Refusing
    <2>3. l - 1 \in 1 .. Packets
      BY <1>4, <2>1, <2>2 DEF Packets
    <2>4. x = [phase |-> "startup", address |-> a, encrypted |-> b, left |-> l - 1, timer |-> t]
      BY <2>1, <2>2
    <2>5. ConnOK(x) /\ x.phase = "startup"
      BY <2>3, <2>4 DEF ConnOK
    <2> QED
      BY <1>1, <1>4, <2>1, <2>5, MoveStep DEF At
  <1>5. CASE TlsAccepted(c)
    <2>1. PICK x : x = Negotiating(conn[c].address, TRUE)
      OBVIOUS
    <2>2. /\ conn[c].address \in Address /\ Handshake \in 0 .. Handshake /\ TRUE \in BOOLEAN
          /\ Packets \in 1 .. Packets
      BY <1>1, <1>5, ConnFacts DEF TlsAccepted, At, Packets
    <2>3. ConnOK(x) /\ x.phase = "startup"
      BY <2>1, <2>2 DEF ConnOK, Negotiating
    <2> QED
      BY <1>1, <1>5, <2>1, <2>3, MoveStep DEF TlsAccepted, At
  <1>6. \/ Close(c)
        \/ At(c, "startup") /\ Become(c, [phase |-> "tls", address |-> conn[c].address, timer |-> Handshake])
           /\ UNCHANGED open
        \/ At(c, "startup") /\ conn[c].left # 1 /\ Become(c, [conn[c] EXCEPT !.left = @ - 1])
           /\ UNCHANGED open
        \/ TlsAccepted(c)
    BY Zenon DEF SslRequest, GssEncRequest, Declined
  <1> QED
    BY <1>2, <1>3, <1>4, <1>5, <1>6

\* The startup packet, and check (run_session, authenticate).
LEMMA StartupStep ==
  ASSUME ConnInv, NEW c \in Conn, NEW u \in User, StartupMessage(c, u)
  PROVE  ConnInv'
  <1> USE Numbers
  <1>1. PICK n \in Nat \ {0}, tls \in BOOLEAN : n = config.max_connections /\ tls = config.tls
    BY Configured
  <1>2. /\ conn[c].phase = "startup" /\ UNCHANGED config
        /\ ConnsOK(n, tls, open, conn) /\ TableOK(entries) /\ KeysOK(n, conn, entries)
        /\ ConnOK(conn[c]) /\ conn = [d \in Conn |-> conn[d]]
    BY <1>1, Configured DEF StartupMessage, At
  <1>3. PICK a \in Address, b \in BOOLEAN : a = conn[c].address /\ b = conn[c].encrypted
    BY <1>2, ConnFacts
  <1>4. PICK K : K = {a, u}
    OBVIOUS
  <1>5. \/ ~MayStart(c) /\ Close(c) /\ entries' = entries
        \/ /\ MayStart(c) /\ entries' = check(K)
           /\ \/ Close(c)
              \/ /\ ~\E k \in K : IsLocked(k)
                 /\ Become(c, [phase |-> "password", address |-> conn[c].address, user |-> u,
                               encrypted |-> conn[c].encrypted, timer |-> Handshake])
                 /\ UNCHANGED open
    BY <1>3, <1>4, Zenon DEF StartupMessage
  <1>6. CASE ~MayStart(c) /\ Close(c) /\ entries' = entries
    BY <1>1, <1>2, <1>6, CloseStep
  <1>7. /\ TableOK(check(K)) /\ KeysOK(n, conn, check(K)) /\ DOMAIN check(K) = DOMAIN entries
        /\ \A k \in DOMAIN entries : k \in K /\ ~IsLocked(k) => check(K)[k].locked = NoLock
    BY <1>1, CheckOK
  <1>8. CASE entries' = check(K) /\ Close(c)
    BY <1>1, <1>2, <1>7, <1>8, CloseStep
  <1>9. CASE /\ MayStart(c) /\ entries' = check(K) /\ ~\E k \in K : IsLocked(k)
             /\ Become(c, [phase |-> "password", address |-> conn[c].address, user |-> u,
                           encrypted |-> conn[c].encrypted, timer |-> Handshake])
             /\ UNCHANGED open
    <2>1. PICK x : x = [phase |-> "password", address |-> a, user |-> u, encrypted |-> b, timer |-> Handshake]
      OBVIOUS
    <2>2. /\ x.phase = "password" /\ x.address = a /\ x.user = u /\ x.encrypted = b
          /\ conn' = [conn EXCEPT ![c] = x] /\ open' = open
      BY <1>3, <1>9, <2>1 DEF Become
    <2>3. ConnOK(x) /\ x # Closed
      <3>1. Handshake \in 0 .. Handshake
        OBVIOUS
      <3> QED
        BY <2>1, <3>1 DEF ConnOK, Closed
    <2>4. tls => x.encrypted
      <3>1. config.tls => conn[c].encrypted
        BY <1>9 DEF MayStart
      <3> QED
        BY <1>1, <1>3, <2>2, <3>1
    <2>5. conn[c] # Closed /\ c \in ServedIn(conn)
      BY <1>2 DEF Closed, ServedIn
    <2>6. MayBecome(n, tls, open, open', conn, c, x)
      BY <2>2, <2>3, <2>4, <2>5, Zenon DEF MayBecome
    <2>7. ConnsOK(n, tls, open', conn')
      BY <1>2, <2>2, <2>3, <2>6, ConnMoves
    <2>8. PICK dn : dn = conn'
      OBVIOUS
    <2>9. ASSUME NEW k \in DOMAIN entries PROVE KeyOK(n, dn, k, check(K)[k])
      <3>1. KeyOK(n, conn, k, check(K)[k])
        BY <1>7 DEF KeysOK
      <3>2. CASE k \in K
        <4>1. check(K)[k].locked = NoLock
          BY <1>7, <1>9, <3>2
        <4> QED
          BY <3>1, <4>1, KeyFree
      <3>3. CASE k \notin K
        <4>1. \A d \in Conn : dn[d] = IF d = c THEN x ELSE conn[d]
          BY <1>2, <2>2, <2>8
        <4>2. Trying(dn, k) \subseteq Trying(conn, k) /\ \A d \in Trying(dn, k) : dn[d].timer = conn[d].timer
          BY <1>4, <2>2, <3>3, <4>1 DEF Trying
        <4>3. IsFiniteSet(Trying(conn, k))
          BY <1>2, TryingBounded
        <4> QED
          BY <3>1, <4>2, <4>3, KeyMoves
      <3> QED
        BY <3>2, <3>3
    <2>10. KeysOK(n, conn', entries')
      BY <1>7, <1>9, <2>8, <2>9 DEF KeysOK
    <2> QED
      BY <1>1, <1>2, <1>7, <1>9, <2>7, <2>10 DEF ConnInv
  <1> QED
    BY <1>5, <1>6, <1>8, <1>9

\* The right password (record_success).
LEMMA RightStep ==
  ASSUME ConnInv, NEW c \in Conn, RightPassword(c)
  PROVE  ConnInv'
  <1>1. PICK x : x = [phase |-> "session", encrypted |-> conn[c].encrypted]
    OBVIOUS
  <1>2. /\ conn[c].phase = "password" /\ ConnOK(conn[c])
        /\ UNCHANGED <<config, open>> /\ Become(c, x) /\ entries' = record_success(c)
    BY <1>1, Configured DEF RightPassword, At
  <1>3. PICK b \in BOOLEAN : b = conn[c].encrypted
    BY <1>2, ConnFacts
  <1>4. ConnOK(x) /\ x.phase = "session" /\ x.encrypted = b
    BY <1>1, <1>3 DEF ConnOK
  <1>5. config.tls => (x.phase = "session" => x.encrypted)
    <2>1. config.tls => conn[c].encrypted
      BY <1>2, Configured
    <2> QED
      BY <1>3, <1>4, <2>1
  <1>6. /\ ConnsOK(config.max_connections, config.tls, open', conn')
        /\ \A E : KeysOK(config.max_connections, conn, E) => KeysOK(config.max_connections, conn', E)
    BY <1>2, <1>4, <1>5, MoveStep
  <1>7. PICK S, E : S = DOMAIN entries \ keys(c) /\ E = entries
    OBVIOUS
  <1>8. entries' = [k \in S |-> E[k]] /\ S \subseteq DOMAIN E
    BY <1>2, <1>7 DEF record_success
  <1>9. TableOK(E) /\ KeysOK(config.max_connections, conn, E)
    BY <1>7, Configured
  <1>10. TableOK(entries') /\ KeysOK(config.max_connections, conn, entries')
    BY <1>8, <1>9, TableShrinks
  <1> QED
    BY <1>2, <1>6, <1>10 DEF ConnInv

\* A wrong password (record_failure).
LEMMA WrongStep ==
  ASSUME ConnInv, NEW c \in Conn, WrongPassword(c)
  PROVE  ConnInv'
  <1>1. PICK x : x = [phase |-> "failing", timer |-> conn[c].timer]
    OBVIOUS
  <1>2. /\ conn[c].phase = "password" /\ ConnOK(conn[c])
        /\ UNCHANGED <<config, open>> /\ Become(c, x) /\ entries' = record_failure(c)
    BY <1>1, Configured DEF WrongPassword, At
  <1>3. conn[c].timer \in 0 .. Handshake
    BY <1>2, ConnFacts
  <1>4. ConnOK(x) /\ x.phase = "failing"
    BY <1>1, <1>3 DEF ConnOK
  <1>5. ConnsOK(config.max_connections, config.tls, open', conn')
    BY <1>2, <1>4, MoveStep
  <1>6. PICK dn : dn = [conn EXCEPT ![c] = x] /\ dn = conn'
    BY <1>2 DEF Become
  <1>7. TableOK(record_failure(c)) /\ KeysOK(config.max_connections, dn, record_failure(c))
    BY <1>2, <1>4, <1>6, FailureOK DEF At
  <1> QED
    BY <1>2, <1>5, <1>6, <1>7 DEF ConnInv

\* Time passes: timers, locks and failures grow older (prune).
LEMMA TickStep ==
  ASSUME ConnInv, Tick
  PROVE  ConnInv'
  <1>1. PICK n \in Nat \ {0}, tls \in BOOLEAN : n = config.max_connections /\ tls = config.tls
    BY Configured
  <1>2. /\ ConnsOK(n, tls, open, conn) /\ TableOK(entries) /\ KeysOK(n, conn, entries)
        /\ UNCHANGED <<config, open>> /\ \A d \in Conn : ConnOK(conn[d])
    BY <1>1, Configured DEF Tick
  <1>3. PICK dn : /\ dn = conn'
                  /\ dn = [c \in Conn |->
                       IF "timer" \in DOMAIN conn[c] THEN [conn[c] EXCEPT !.timer = @ - 1] ELSE conn[c]]
    BY DEF Tick
  <1>4. /\ ConnsOK(n, tls, open, dn)
        /\ \A k : Trying(dn, k) = Trying(conn, k)
        /\ \A k : \A c \in Trying(conn, k) : dn[c].timer = conn[c].timer - 1
    <2>1. \A c \in Conn : "timer" \in DOMAIN conn[c] => conn[c].timer > 0
      BY DEF Tick
    <2> QED
      BY <1>2, <1>3, <2>1, ConnsAge
  <1>5. PICK E : /\ E = entries' /\ DOMAIN E = DOMAIN entries
                 /\ \A k \in DOMAIN entries :
                      E[k] = [failures |-> prune(Older(entries[k].failures)),
                              locked |-> Sooner(entries[k].locked)]
    BY DEF Tick
  <1>6. ASSUME NEW k \in DOMAIN entries PROVE KeyOK(n, dn, k, E[k])
    <2>1. KeyOK(n, conn, k, entries[k]) /\ IsFiniteSet(Trying(conn, k))
      BY <1>2, TryingBounded DEF KeysOK
    <2>2. ASSUME NEW x \in Trying(conn, k) PROVE conn[x].timer \in 0 .. Handshake
      <3>1. x \in Conn /\ conn[x].phase = "password"
        BY DEF Trying
      <3>2. "timer" \in DOMAIN conn[x]
        BY <1>2, <3>1, ConnFacts
      <3> QED
        BY <1>2, <3>1, <3>2, ConnFacts
    <2>3. KeyOK(n, dn, k, [failures |-> prune(Older(entries[k].failures)), locked |-> Sooner(entries[k].locked)])
      BY <1>4, <2>1, <2>2, KeyAges
    <2> QED
      BY <1>5, <2>3
  <1>7. TableOK(E) /\ KeysOK(n, dn, E)
    BY <1>2, <1>5, <1>6 DEF TableOK, KeysOK
  <1> QED
    BY <1>1, <1>2, <1>3, <1>4, <1>5, <1>7 DEF ConnInv

\* At first nobody is connected and nothing is remembered.
LEMMA InitOK == Init => ConnInv
  <1> SUFFICES ASSUME Init PROVE ConnInv
    OBVIOUS
  <1> USE Numbers
  <1>1. PICK n \in Nat \ {0}, tls \in BOOLEAN : n = config.max_connections /\ tls = config.tls
    BY DEF Init
  <1>2. /\ conn = [c \in Conn |-> conn[c]] /\ open = 0
        /\ \A c \in Conn : conn[c] = Closed /\ conn[c].phase = "closed" /\ ConnOK(conn[c])
    BY DEF Init, Closed, ConnOK
  <1>3. Opened(conn) = {} /\ ServedIn(conn) = {}
    BY <1>2 DEF Opened, ServedIn
  <1>4. IsFiniteSet({}) /\ Cardinality({}) = 0
    BY FS_EmptySet
  <1>5. ConnsOK(n, tls, open, conn)
    <2>1. /\ IsFiniteSet(Opened(conn)) /\ open = Cardinality(Opened(conn))
          /\ Cardinality(ServedIn(conn)) <= n
      BY <1>2, <1>3, <1>4
    <2>2. \A c \in Conn : conn[c].phase \notin {"password", "session"}
      BY <1>2
    <2> QED
      BY <1>2, <2>1, <2>2, Zenon DEF ConnsOK
  <1>6. DOMAIN entries = {}
    BY DEF Init
  <1>7. TableOK(entries) /\ KeysOK(n, conn, entries)
    BY <1>4, <1>6 DEF TableOK, KeysOK
  <1> QED
    BY <1>1, <1>5, <1>7 DEF ConnInv, Init

\* Every step keeps the invariant.
LEMMA Step == ConnInv /\ [Next]_vars => ConnInv'
  <1> SUFFICES ASSUME ConnInv, [Next]_vars PROVE ConnInv'
    OBVIOUS
  <1>1. ASSUME NEW c \in Conn, Close(c), UNCHANGED <<config, entries>>, conn[c].phase # "closed"
        PROVE  ConnInv'
    BY <1>1, Configured, CloseStep
  <1>2. CASE UNCHANGED vars
    BY <1>2 DEF vars, ConnInv
  <1>3. CASE Tick
    BY <1>3, TickStep
  <1>4. ASSUME NEW c \in Conn, NEW a \in Address, Accept(c, a) PROVE ConnInv'
    BY <1>4, AcceptStep
  <1>5. ASSUME NEW c \in Conn, NEW u \in User, StartupMessage(c, u) PROVE ConnInv'
    BY <1>5, StartupStep
  <1>6. ASSUME NEW c \in Conn, SslRequest(c) \/ GssEncRequest(c) \/ TlsAccepted(c) PROVE ConnInv'
    BY <1>6, NegotiateStep
  <1>7. ASSUME NEW c \in Conn, RightPassword(c) PROVE ConnInv'
    BY <1>7, RightStep
  <1>8. ASSUME NEW c \in Conn, WrongPassword(c) PROVE ConnInv'
    BY <1>8, WrongStep
  <1>9. ASSUME NEW c \in Conn, refuse(c) \/ Refused(c) \/ Hangup(c) \/ Timeout(c) PROVE ConnInv'
    <2>1. Close(c) /\ UNCHANGED <<config, entries>> /\ conn[c].phase # "closed"
      BY <1>9 DEF refuse, Refused, Hangup, Timeout, At
    <2> QED
      BY <1>1, <2>1
  <1> QED
    BY <1>2, <1>3, <1>4, <1>5, <1>6, <1>7, <1>8, <1>9 DEF Next

\* The invariant of Connections: slots are counted, and the attempts that can
\* still fail for a source that is locked are too few, and too short, to outlive
\* its lock (server.rs, session.rs, throttle.rs).
THEOREM ConnInvariance == Spec => []ConnInv
  BY InitOK, Step, PTL DEF Spec
-----------------------------------------------------------------------------
(* The failures there were, and those that are counted *)

\* The table has all failures in the window of every source it did not miss.
HistOK ==
  /\ failed = [k \in Key |-> failed[k]] /\ missed \subseteq Key
  /\ \A k \in Key : failed[k] \in Seq(0 .. Window - 1) /\ Sorted(failed[k])
  /\ \A k \in Key \ missed : failed[k] = Failures(entries, k)

\* One failure more.
LEMMA Extended ==
  ASSUME NEW f \in Seq(0 .. Window - 1), Sorted(f)
  PROVE  Append(f, 0) \in Seq(0 .. Window - 1) /\ Sorted(Append(f, 0))
  <1> USE Numbers
  <1>1. 0 \in 0 .. Window - 1
    OBVIOUS
  <1>2. PICK g : g = Append(f, 0)
    OBVIOUS
  <1>3. /\ g \in Seq(0 .. Window - 1) /\ Len(g) = Len(f) + 1 /\ g[Len(g)] = 0
        /\ \A i \in 1 .. Len(f) : g[i] = f[i] /\ f[i] \in 0 .. Window - 1
    BY <1>1, <1>2
  <1>4. ASSUME NEW i \in 1 .. Len(g), NEW j \in 1 .. Len(g), i <= j PROVE g[i] >= g[j]
    <2>1. CASE j = Len(g)
      <3>1. g[j] = 0 /\ g[i] \in 0 .. Window - 1
        BY <1>3, <2>1
      <3> QED
        BY <3>1
    <2>2. CASE j # Len(g)
      <3>1. i \in 1 .. Len(f) /\ j \in 1 .. Len(f)
        BY <1>3, <1>4, <2>2
      <3> QED
        BY <1>3, <1>4, <3>1 DEF Sorted
    <2> QED
      BY <2>1, <2>2
  <1>5. Sorted(g)
    BY <1>4 DEF Sorted
  <1> QED
    BY <1>2, <1>3, <1>5

\* A tick later, what is left in the window (prune).
LEMMA Aged ==
  ASSUME NEW f \in Seq(0 .. Window - 1), Sorted(f)
  PROVE  /\ prune(Older(f)) \in Seq(0 .. Window - 1) /\ Sorted(prune(Older(f)))
         /\ f = <<>> => prune(Older(f)) = <<>>
  <1> USE Numbers
  <1>1. PICK h : h = Older(f)
    OBVIOUS
  <1>2. Len(f) \in Nat /\ \A i \in 1 .. Len(f) : f[i] \in 0 .. Window - 1
    OBVIOUS
  <1>3. h \in Seq(Nat) /\ Len(h) = Len(f) /\ \A i \in 1 .. Len(f) : h[i] = f[i] + 1
    BY <1>1, <1>2 DEF Older
  <1>4. Sorted(h)
    <2> SUFFICES ASSUME NEW i \in 1 .. Len(h), NEW j \in 1 .. Len(h), i <= j PROVE h[i] >= h[j]
      BY DEF Sorted
    <2>1. f[i] >= f[j] /\ f[i] \in 0 .. Window - 1 /\ f[j] \in 0 .. Window - 1
      BY <1>2, <1>3 DEF Sorted
    <2> QED
      BY <1>3, <2>1
  <1>5. PICK g \in 0 .. Len(h) :
          /\ prune(h) \in Seq(0 .. Window - 1) /\ Len(prune(h)) = Len(h) - g
          /\ \A i \in 1 .. Len(h) - g : prune(h)[i] = h[i + g]
    BY <1>3, <1>4, Pruned
  <1>6. PICK p : p = prune(h)
    OBVIOUS
  <1>7. /\ p \in Seq(0 .. Window - 1) /\ Len(p) = Len(h) - g
        /\ \A i \in 1 .. Len(p) : p[i] = h[i + g]
    BY <1>5, <1>6
  <1>8. Sorted(p)
    <2> SUFFICES ASSUME NEW i \in 1 .. Len(p), NEW j \in 1 .. Len(p), i <= j PROVE p[i] >= p[j]
      BY DEF Sorted
    <2>1. i + g \in 1 .. Len(h) /\ j + g \in 1 .. Len(h) /\ i + g <= j + g
      BY <1>3, <1>7
    <2> QED
      BY <1>4, <1>7, <2>1 DEF Sorted
  <1>9. f = <<>> => p = <<>>
    BY <1>3, <1>7
  <1> QED
    BY <1>1, <1>6, <1>7, <1>8, <1>9

\* A failure is counted for k, if k is in the table then.
LEMMA CountedFailures ==
  ASSUME NEW E, NEW k \in Key, TableOK(E),
         \A j \in DOMAIN E : E[j] = [failures |-> E[j].failures, locked |-> E[j].locked]
  PROVE  /\ \A j \in Key \ {k} : Failures(Counted(E, k), j) = Failures(E, j)
         /\ k \in DOMAIN Counted(E, k) =>
              Failures(Counted(E, k), k) = Append(Failures(E, k), 0)
         /\ \A j \in DOMAIN Counted(E, k) :
              Counted(E, k)[j] = [failures |-> Counted(E, k)[j].failures, locked |-> Counted(E, k)[j].locked]
  <1>1. PICK D : D = Counted(E, k)
    OBVIOUS
  <1>2. PICK e : e = IF k \in DOMAIN E THEN E[k] ELSE [failures |-> <<>>, locked |-> NoLock]
    OBVIOUS
  <1>3. /\ DOMAIN E \subseteq DOMAIN D /\ DOMAIN D \subseteq DOMAIN E \cup {k}
        /\ \A j \in DOMAIN D \ {k} : D[j] = E[j]
        /\ k \in DOMAIN D => D[k] = LockAfter([e EXCEPT !.failures = Append(@, 0)])
    BY <1>1, <1>2, CountedOK
  <1>4. e = [failures |-> e.failures, locked |-> e.locked] /\ e.failures = Failures(E, k)
    BY <1>2 DEF Failures
  <1>5. PICK l, r : l = e.locked /\ r = Append(e.failures, 0)
    OBVIOUS
  <1>6. PICK d : d = [e EXCEPT !.failures = Append(@, 0)]
    OBVIOUS
  <1>7. d = [failures |-> r, locked |-> l]
    BY <1>4, <1>5, <1>6
  <1>8. LockAfter(d).failures = r /\ LockAfter(d) = [failures |-> LockAfter(d).failures, locked |-> LockAfter(d).locked]
    BY <1>7 DEF LockAfter
  <1>9. \A j \in Key \ {k} : Failures(D, j) = Failures(E, j)
    BY <1>3 DEF Failures
  <1>10. k \in DOMAIN D => Failures(D, k) = Append(Failures(E, k), 0)
    BY <1>3, <1>4, <1>5, <1>6, <1>8 DEF Failures
  <1>11. \A j \in DOMAIN D : D[j] = [failures |-> D[j].failures, locked |-> D[j].locked]
    BY <1>3, <1>6, <1>8
  <1> QED
    BY <1>1, <1>9, <1>10, <1>11

\* record_failure counts for the two sources of the attempt, and for no other.
LEMMA FailuresCounted ==
  ASSUME ConnInv, NEW c \in Conn, At(c, "password")
  PROVE  /\ keys(c) \subseteq Key
         /\ \A k \in Key \ keys(c) : Failures(record_failure(c), k) = Failures(entries, k)
         /\ \A k \in keys(c) : k \in DOMAIN record_failure(c) =>
              Failures(record_failure(c), k) = Append(Failures(entries, k), 0)
  <1>1. PICK n, tls : n = config.max_connections /\ tls = config.tls
    OBVIOUS
  <1>2. ConnsOK(n, tls, open, conn) /\ TableOK(entries) /\ KeysOK(n, conn, entries)
    BY <1>1 DEF ConnInv
  <1>3. PICK a, u : a = conn[c].address /\ u = conn[c].user
    OBVIOUS
  <1>4. ConnOK(conn[c])
    BY <1>2 DEF ConnsOK
  <1>5. a \in Key /\ u \in Key /\ a # u /\ keys(c) = {a, u}
    <2>1. a \in Address /\ u \in User
      BY <1>3, <1>4, ConnFacts DEF At
    <2> QED
      BY <1>3, <2>1, Numbers DEF Key, keys
  <1>6. PICK S : S = {k \in DOMAIN entries : entries[k].locked > 0 \/ entries[k].failures # <<>>}
    OBVIOUS
  <1>7. S \subseteq DOMAIN entries /\ sweep(entries) = [k \in S |-> entries[k]]
    BY <1>6 DEF sweep
  <1>8. PICK E : E = IF Cardinality(DOMAIN entries) >= MaxTracked THEN sweep(entries) ELSE entries
    OBVIOUS
  <1>9. TableOK(sweep(entries))
    BY <1>2, <1>7, TableShrinks
  <1>10. TableOK(E)
    BY <1>2, <1>8, <1>9
  <1>11. \A j \in DOMAIN entries : entries[j] = [failures |-> entries[j].failures, locked |-> entries[j].locked]
    BY <1>2 DEF KeysOK, KeyOK
  <1>12. /\ \A j \in DOMAIN E : E[j] = [failures |-> E[j].failures, locked |-> E[j].locked]
         /\ \A j \in Key : Failures(E, j) = Failures(entries, j)
    <2>1. CASE E = entries
      BY <1>11, <2>1
    <2>2. CASE E = sweep(entries)
      <3>1. DOMAIN E = S /\ \A j \in S : E[j] = entries[j]
        BY <1>7, <2>2
      <3>2. \A j \in DOMAIN entries \ S : entries[j].failures = <<>>
        BY <1>6
      <3>3. \A j \in Key : Failures(E, j) = Failures(entries, j)
        BY <1>7, <3>1, <3>2 DEF Failures
      <3>4. \A j \in DOMAIN E : E[j] = [failures |-> E[j].failures, locked |-> E[j].locked]
        BY <1>7, <1>11, <3>1
      <3> QED
        BY <3>3, <3>4
    <2> QED
      BY <1>8, <2>1, <2>2
  <1>13. PICK D : D = Counted(E, a)
    OBVIOUS
  <1>14. PICK F : F = Counted(D, u)
    OBVIOUS
  <1>15. record_failure(c) = F
    BY <1>3, <1>8, <1>13, <1>14, Zenon DEF record_failure
  <1>16. /\ \A j \in Key \ {a} : Failures(D, j) = Failures(E, j)
         /\ a \in DOMAIN D => Failures(D, a) = Append(Failures(E, a), 0)
         /\ \A j \in DOMAIN D : D[j] = [failures |-> D[j].failures, locked |-> D[j].locked]
    BY <1>5, <1>10, <1>12, <1>13, CountedFailures
  <1>17. TableOK(D)
    BY <1>5, <1>10, <1>13, CountedOK
  <1>18. /\ \A j \in Key \ {u} : Failures(F, j) = Failures(D, j)
         /\ u \in DOMAIN F => Failures(F, u) = Append(Failures(D, u), 0)
    BY <1>5, <1>14, <1>16, <1>17, CountedFailures
  <1>19. DOMAIN F \subseteq DOMAIN D \cup {u}
    BY <1>5, <1>14, <1>17, CountedOK
  <1>20. \A k \in Key \ {a, u} : Failures(F, k) = Failures(entries, k)
    BY <1>12, <1>16, <1>18
  <1>21. a \in DOMAIN F => Failures(F, a) = Append(Failures(entries, a), 0)
    BY <1>5, <1>12, <1>16, <1>18, <1>19
  <1>22. u \in DOMAIN F => Failures(F, u) = Append(Failures(entries, u), 0)
    BY <1>5, <1>12, <1>16, <1>18
  <1> QED
    BY <1>5, <1>15, <1>20, <1>21, <1>22

\* Nothing is counted, and nothing failed.
LEMMA HistSame ==
  ASSUME HistOK, UNCHANGED <<failed, missed>>,
         \A k \in Key : Failures(entries', k) = Failures(entries, k)
  PROVE  HistOK'
  BY DEF HistOK

\* The right password (record_success).
LEMMA HistRight ==
  ASSUME ConnInv, HistOK, NEW c \in Conn, RightPassword(c)
  PROVE  HistOK'
  <1>1. PICK K : K = keys(c)
    OBVIOUS
  <1>2. /\ failed' = [k \in Key |-> IF k \in K THEN <<>> ELSE failed[k]] /\ missed' = missed \ K
        /\ entries' = [k \in DOMAIN entries \ K |-> entries[k]]
    BY <1>1 DEF RightPassword, record_success
  <1>3. /\ \A k \in Key : failed'[k] = IF k \in K THEN <<>> ELSE failed[k]
        /\ failed' = [k \in Key |-> failed'[k]]
    BY <1>2
  <1>4. <<>> \in Seq(0 .. Window - 1) /\ Sorted(<<>>)
    BY DEF Sorted
  <1>5. \A k \in Key : Failures(entries', k) = IF k \in K THEN <<>> ELSE Failures(entries, k)
    BY <1>2 DEF Failures
  <1> QED
    BY <1>2, <1>3, <1>4, <1>5 DEF HistOK

\* A wrong password (record_failure).
LEMMA HistWrong ==
  ASSUME ConnInv, HistOK, NEW c \in Conn, WrongPassword(c)
  PROVE  HistOK'
  <1>1. PICK K, E : K = keys(c) /\ E = entries'
    OBVIOUS
  <1>2. /\ failed' = [k \in Key |->
             IF k \notin K THEN failed[k] ELSE IF k \in DOMAIN E THEN Append(failed[k], 0) ELSE <<0>>]
        /\ missed' = missed \cup (K \ DOMAIN E) /\ E = record_failure(c) /\ At(c, "password")
    BY <1>1 DEF WrongPassword
  <1>3. /\ K \subseteq Key
        /\ \A k \in Key \ K : Failures(E, k) = Failures(entries, k)
        /\ \A k \in K : k \in DOMAIN E => Failures(E, k) = Append(Failures(entries, k), 0)
    BY <1>1, <1>2, FailuresCounted
  <1>4. /\ \A k \in Key : failed'[k] = IF k \notin K THEN failed[k]
                                       ELSE IF k \in DOMAIN E THEN Append(failed[k], 0) ELSE <<0>>
        /\ failed' = [k \in Key |-> failed'[k]]
    BY <1>2
  <1>5. /\ missed \subseteq Key
        /\ \A k \in Key : failed[k] \in Seq(0 .. Window - 1) /\ Sorted(failed[k])
        /\ \A k \in Key \ missed : failed[k] = Failures(entries, k)
    BY DEF HistOK
  <1>6. <<0>> \in Seq(0 .. Window - 1) /\ Sorted(<<0>>)
    BY Numbers DEF Sorted
  <1>7. \A k \in Key : failed'[k] \in Seq(0 .. Window - 1) /\ Sorted(failed'[k])
    <2> SUFFICES ASSUME NEW k \in Key PROVE failed'[k] \in Seq(0 .. Window - 1) /\ Sorted(failed'[k])
      OBVIOUS
    <2>1. Append(failed[k], 0) \in Seq(0 .. Window - 1) /\ Sorted(Append(failed[k], 0))
      BY <1>5, Extended
    <2> QED
      BY <1>4, <1>5, <1>6, <2>1
  <1>8. \A k \in Key \ missed' : failed'[k] = Failures(E, k)
    <2> SUFFICES ASSUME NEW k \in Key, k \notin missed' PROVE failed'[k] = Failures(E, k)
      OBVIOUS
    <2>1. k \notin missed /\ (k \in K => k \in DOMAIN E) /\ failed[k] = Failures(entries, k)
      BY <1>2, <1>5
    <2>2. CASE k \in K
      BY <1>3, <1>4, <2>1, <2>2
    <2>3. CASE k \notin K
      BY <1>3, <1>4, <2>1, <2>3
    <2> QED
      BY <2>2, <2>3
  <1>9. missed' \subseteq Key
    BY <1>2, <1>3, <1>5
  <1> QED
    BY <1>1, <1>4, <1>7, <1>8, <1>9 DEF HistOK

\* Time passes (prune).
LEMMA HistTick ==
  ASSUME ConnInv, HistOK, Tick
  PROVE  HistOK'
  <1>1. PICK E : E = entries'
    OBVIOUS
  <1>2. /\ failed' = [k \in Key |-> prune(Older(failed[k]))]
        /\ missed' = {k \in missed : failed'[k] # Failures(E, k)}
        /\ E = [k \in DOMAIN entries |->
             [failures |-> prune(Older(entries[k].failures)), locked |-> Sooner(entries[k].locked)]]
    BY <1>1 DEF Tick
  <1>3. /\ \A k \in Key : failed'[k] = prune(Older(failed[k]))
        /\ failed' = [k \in Key |-> failed'[k]]
    BY <1>2
  <1>4. \A k \in DOMAIN entries : k \in DOMAIN E /\ E[k].failures = prune(Older(entries[k].failures))
    BY <1>2
  <1>5. DOMAIN E = DOMAIN entries
    BY <1>2
  <1>6. /\ missed \subseteq Key
        /\ \A k \in Key : failed[k] \in Seq(0 .. Window - 1) /\ Sorted(failed[k])
        /\ \A k \in Key \ missed : failed[k] = Failures(entries, k)
    BY DEF HistOK
  <1>7. ASSUME NEW k \in Key
        PROVE  /\ failed'[k] \in Seq(0 .. Window - 1) /\ Sorted(failed'[k])
               /\ k \notin missed' => failed'[k] = Failures(E, k)
    <2>1. PICK f : f = failed[k] /\ f \in Seq(0 .. Window - 1) /\ Sorted(f)
      BY <1>6
    <2>2. PICK p : p = prune(Older(f))
      OBVIOUS
    <2>3. p \in Seq(0 .. Window - 1) /\ Sorted(p) /\ (f = <<>> => p = <<>>)
      BY <2>1, <2>2, Aged
    <2>4. failed'[k] = p
      BY <1>3, <2>1, <2>2
    <2>5. ASSUME k \notin missed PROVE p = Failures(E, k)
      <3>1. f = Failures(entries, k)
        BY <1>6, <2>1, <2>5
      <3>2. CASE k \in DOMAIN entries
        <4>1. f = entries[k].failures
          BY <3>1, <3>2 DEF Failures
        <4> QED
          BY <1>4, <2>2, <3>2, <4>1 DEF Failures
      <3>3. CASE k \notin DOMAIN entries
        <4>1. f = <<>> /\ Failures(E, k) = <<>>
          BY <1>5, <3>1, <3>3 DEF Failures
        <4> QED
          BY <2>3, <4>1
      <3> QED
        BY <3>2, <3>3
    <2>6. k \notin missed' => k \notin missed \/ failed'[k] = Failures(E, k)
      BY <1>2
    <2> QED
      BY <2>3, <2>4, <2>5, <2>6
  <1> QED
    BY <1>1, <1>2, <1>3, <1>6, <1>7 DEF HistOK

\* Every step keeps the count in the table and the failures together.
LEMMA HistStep == ConnInv /\ HistOK /\ [Next]_vars => HistOK'
  <1> SUFFICES ASSUME ConnInv, HistOK, [Next]_vars PROVE HistOK'
    OBVIOUS
  <1>1. CASE UNCHANGED <<entries, failed, missed>>
    BY <1>1, HistSame
  <1>2. ASSUME NEW c \in Conn, NEW u \in User, StartupMessage(c, u) PROVE HistOK'
    <2>1. UNCHANGED <<failed, missed>>
      BY <1>2 DEF StartupMessage
    <2>2. entries' = entries \/ entries' = check({conn[c].address, u})
      BY <1>2 DEF StartupMessage
    <2>3. CASE entries' = entries
      BY <2>1, <2>3, HistSame
    <2>4. CASE entries' = check({conn[c].address, u})
      <3>1. PICK n : n = config.max_connections /\ KeysOK(n, conn, entries)
        BY Configured
      <3>2. \A k \in DOMAIN entries : entries[k] = [failures |-> entries[k].failures, locked |-> entries[k].locked]
        BY <3>1 DEF KeysOK, KeyOK
      <3>3. /\ DOMAIN entries' = DOMAIN entries
            /\ \A k \in DOMAIN entries :
                 entries'[k] = entries[k] \/ entries'[k] = [entries[k] EXCEPT !.locked = NoLock]
        BY <2>4 DEF check
      <3>4. \A k \in DOMAIN entries : entries'[k].failures = entries[k].failures
        BY <3>2, <3>3
      <3>5. \A k \in Key : Failures(entries', k) = Failures(entries, k)
        BY <3>3, <3>4 DEF Failures
      <3> QED
        BY <2>1, <3>5, HistSame
    <2> QED
      BY <2>2, <2>3, <2>4
  <1>3. ASSUME NEW c \in Conn, NEW a \in Address, Accept(c, a) PROVE HistOK'
    BY <1>1, <1>3 DEF Accept
  <1>4. ASSUME NEW c \in Conn,
               \/ refuse(c) \/ SslRequest(c) \/ GssEncRequest(c) \/ TlsAccepted(c)
               \/ Refused(c) \/ Hangup(c) \/ Timeout(c)
        PROVE  HistOK'
    BY <1>1, <1>4 DEF refuse, SslRequest, GssEncRequest, TlsAccepted, Refused, Hangup, Timeout
  <1>5. CASE UNCHANGED vars
    BY <1>1, <1>5 DEF vars
  <1> QED
    BY <1>2, <1>3, <1>4, <1>5, HistRight, HistWrong, HistTick DEF Next

\* At first nothing has failed.
LEMMA HistInit == Init => HistOK
  <1> SUFFICES ASSUME Init PROVE HistOK
    OBVIOUS
  <1>1. /\ failed = [k \in Key |-> <<>>] /\ missed = {} /\ DOMAIN entries = {}
    BY DEF Init
  <1>2. <<>> \in Seq(0 .. Window - 1) /\ Sorted(<<>>)
    BY DEF Sorted
  <1>3. \A k \in Key : Failures(entries, k) = <<>>
    BY <1>1 DEF Failures
  <1> QED
    BY <1>1, <1>2, <1>3 DEF HistOK

\* For every source it did not miss, the table has the failures there were
\* (record_failure, prune, sweep).
THEOREM CountsAreComplete == Spec => []HistOK
  BY HistInit, HistStep, ConnInvariance, PTL DEF Spec
-----------------------------------------------------------------------------
(* Results *)

\* Type correctness; the counter of slots is the number of tasks, and the table
\* of sources keeps its bound (claim_slot, MAX_TRACKED_SOURCES).
THEOREM ConnTypeCorrect == Spec => []TypeOK
  <1>1. ConnInv /\ HistOK => TypeOK
    <2> SUFFICES ASSUME ConnInv, HistOK PROVE TypeOK
      OBVIOUS
    <2>1. config \in [max_connections: 1 .. MaxLimit, tls: BOOLEAN]
      BY DEF ConnInv
    <2>2. open = Cardinality({c \in Conn : conn[c] # Closed})
      BY Configured DEF ConnsOK, Opened
    <2>3. \A c \in Conn :
            /\ conn[c].phase \in {"closed", "refusing", "startup", "tls", "password", "failing", "session"}
            /\ "timer" \in DOMAIN conn[c] => conn[c].timer \in 0 .. Handshake
      BY Configured, ConnFacts
    <2>4. DOMAIN entries \subseteq Key /\ Cardinality(DOMAIN entries) <= MaxTracked
      BY Configured DEF TableOK
    <2>5. \A k \in DOMAIN entries :
            entries[k].locked \in NoLock .. Lockout /\ entries[k].failures \in Seq(0 .. Window - 1)
      BY Configured DEF KeysOK, KeyOK
    <2>6. failed \in [Key -> Seq(0 .. Window - 1)] /\ missed \subseteq Key
      BY DEF HistOK
    <2> QED
      BY <2>1, <2>2, <2>3, <2>4, <2>5, <2>6 DEF TypeOK
  <1> QED
    BY <1>1, ConnInvariance, CountsAreComplete, PTL

\* Never more than max_connections are served, and TLS is not bypassed
\* (claim_slot, negotiate).
THEOREM Serving == Spec => []ServedAsConfigured
  <1>1. ConnInv => ServedAsConfigured
    <2> SUFFICES ASSUME ConnInv PROVE ServedAsConfigured
      OBVIOUS
    <2>1. Cardinality(Served) <= config.max_connections
      BY Configured DEF ConnsOK, ServedIn, Served
    <2>2. config.tls => \A c \in Conn : conn[c].phase \in {"password", "session"} => conn[c].encrypted
      BY Configured
    <2> QED
      BY <2>1, <2>2, Zenon DEF ServedAsConfigured
  <1> QED
    BY <1>1, ConnInvariance, PTL

\* However many attempts run in parallel, and whatever is left of earlier locks,
\* the failures of an address or a user in a window are bounded, unless a full
\* table did not count one of them (record_failure). ConnectionsAssumption takes
\* the lockout to be no shorter than the window and longer than a handshake.
THEOREM BoundedFailures == Spec => []FailuresAreBounded
  <1>1. ASSUME ConnInv, NEW k \in DOMAIN entries
        PROVE  Len(entries[k].failures) <= Most(config.max_connections) - 1 + config.max_connections
    <2>1. PICK n \in Nat \ {0}, tls \in BOOLEAN : n = config.max_connections /\ tls = config.tls
      BY <1>1, Configured
    <2>2. PICK e : e = entries[k]
      OBVIOUS
    <2>3. KeyOK(n, conn, k, e) /\ ConnsOK(n, tls, open, conn)
      BY <1>1, <2>1, <2>2, Configured DEF KeysOK
    <2>4. IsFiniteSet(Trying(conn, k)) /\ Cardinality(Trying(conn, k)) \in Nat
      BY <2>3, TryingBounded
    <2>5. Most(n) \in Nat
      BY Numbers DEF Most
    <2>6. /\ Len(e.failures) \in Nat /\ e.locked \in NoLock .. Lockout
          /\ e = [failures |-> e.failures, locked |-> e.locked]
      BY <2>3 DEF KeyOK
    <2>7. Len(e.failures) <= Most(n) - 1 + n
      <3>1. CASE e.locked = NoLock
        <4>1. Len(e.failures) <= Most(n) - 1
          BY <2>3, <3>1 DEF KeyOK
        <4> QED
          BY <2>5, <2>6, <4>1
      <3>2. CASE e.locked = 0
        <4>1. PICK d : d = [e EXCEPT !.locked = NoLock]
          OBVIOUS
        <4>2. KeyOK(n, conn, k, d) /\ d.locked = NoLock
          BY <2>3, <2>4, <3>2, <4>1, KeyPasses
        <4>3. d.failures = e.failures
          BY <2>6, <4>1
        <4>4. Len(e.failures) <= Most(n) - 1
          BY <4>2, <4>3 DEF KeyOK
        <4> QED
          BY <2>5, <2>6, <4>4
      <3>3. CASE e.locked > 0
        <4>1. Len(e.failures) + Cardinality(Trying(conn, k)) <= Most(n) - 1 + n
          BY <2>3, <3>3 DEF KeyOK
        <4> QED
          BY <2>4, <2>5, <2>6, <4>1
      <3> QED
        BY <2>6, <3>1, <3>2, <3>3, Numbers DEF NoLock
    <2> QED
      BY <2>1, <2>2, <2>7
  <1>2. ConnInv /\ HistOK => FailuresAreBounded
    <2> SUFFICES ASSUME ConnInv, HistOK, NEW k \in Key \ missed
                 PROVE  Len(failed[k]) <= Most(config.max_connections) - 1 + config.max_connections
      BY DEF FailuresAreBounded, Most
    <2>1. failed[k] = Failures(entries, k)
      BY DEF HistOK
    <2>2. CASE k \in DOMAIN entries
      BY <1>1, <2>1, <2>2 DEF Failures
    <2>3. CASE k \notin DOMAIN entries
      <3>1. PICK n \in Nat \ {0} : n = config.max_connections
        BY Configured
      <3>2. Len(failed[k]) = 0
        BY <2>1, <2>3 DEF Failures
      <3>3. Most(n) \in Nat /\ Most(n) >= 1
        BY Numbers DEF Most
      <3> QED
        BY <3>1, <3>2, <3>3
    <2> QED
      BY <2>2, <2>3
  <1> QED
    BY <1>2, ConnInvariance, CountsAreComplete, PTL

\* A lock survives the count of another failure.
LEMMA CountedKeepsLocks ==
  ASSUME NEW E, NEW j \in Key, TableOK(E), NEW k \in DOMAIN E, E[k].locked > 0,
         E[k] = [failures |-> E[k].failures, locked |-> E[k].locked]
  PROVE  /\ k \in DOMAIN Counted(E, j) /\ Counted(E, j)[k].locked = E[k].locked
         /\ Counted(E, j)[k] = [failures |-> Counted(E, j)[k].failures, locked |-> Counted(E, j)[k].locked]
  <1>1. PICK D, e : D = Counted(E, j) /\ e = E[k]
    OBVIOUS
  <1>2. /\ DOMAIN E \subseteq DOMAIN D
        /\ \A i \in DOMAIN D \ {j} : D[i] = E[i]
        /\ j \in DOMAIN D =>
             D[j] = LockAfter([(IF j \in DOMAIN E THEN E[j] ELSE [failures |-> <<>>, locked |-> NoLock])
                                 EXCEPT !.failures = Append(@, 0)])
    BY <1>1, CountedOK
  <1>3. CASE k # j
    BY <1>1, <1>2, <1>3
  <1>4. CASE k = j
    <2>1. D[k] = LockAfter([e EXCEPT !.failures = Append(@, 0)])
      BY <1>1, <1>2, <1>4
    <2>2. PICK f, l : f = Append(e.failures, 0) /\ l = e.locked
      OBVIOUS
    <2>3. [e EXCEPT !.failures = Append(@, 0)] = [failures |-> f, locked |-> l]
      <3>1. PICK h : h = e.failures
        OBVIOUS
      <3>2. e = [failures |-> h, locked |-> l]
        BY <1>1, <2>2, <3>1
      <3>3. [e EXCEPT !.failures = f] = [failures |-> f, locked |-> l]
        BY <3>2
      <3> QED
        BY <2>2, <3>3, Zenon
    <2>4. l > 0 /\ l # NoLock
      BY <1>1, <2>2 DEF NoLock
    <2>5. D[k] = [failures |-> f, locked |-> l]
      BY <2>1, <2>3, <2>4 DEF LockAfter
    <2> QED
      BY <1>1, <1>2, <2>2, <2>5
  <1> QED
    BY <1>3, <1>4

\* A lock is never forgotten before its time, by a sweep, a check or a failure,
\* and only the success of an attempt that was under way lifts it (throttle.rs).
THEOREM HeldLocks == Spec => LocksHold
  <1> DEFINE Held(k) ==
        IsLocked(k) =>
          \/ k \in DOMAIN entries' /\ entries'[k].locked >= Sooner(entries[k].locked)
          \/ \E c \in Conn : At(c, "password") /\ k \in keys(c) /\ conn'[c].phase = "session"
  <1>1. ASSUME ConnInv, [Next]_vars, NEW k \in Key PROVE Held(k)
    <2> SUFFICES ASSUME IsLocked(k)
                 PROVE  \/ k \in DOMAIN entries' /\ entries'[k].locked >= Sooner(entries[k].locked)
                        \/ \E c \in Conn : At(c, "password") /\ k \in keys(c) /\ conn'[c].phase = "session"
      OBVIOUS
    <2> USE Numbers
    <2>1. PICK e, n, E : /\ n = config.max_connections /\ E = entries /\ e = E[k]
                         /\ k \in DOMAIN E /\ KeyOK(n, conn, k, e) /\ TableOK(E)
      BY <1>1, Configured DEF IsLocked, KeysOK
    <2>2. PICK l : l = e.locked /\ l \in 1 .. Lockout
      BY <2>1 DEF IsLocked, KeyOK, NoLock
    <2>3. e = [failures |-> e.failures, locked |-> e.locked]
      BY <2>1 DEF KeyOK
    <2>4. Sooner(l) = l - 1 /\ l > 0 /\ l >= l - 1 /\ l # NoLock
      BY <2>2 DEF Sooner, NoLock
    <2>5. ASSUME k \in DOMAIN entries', entries'[k].locked = l
          PROVE  k \in DOMAIN entries' /\ entries'[k].locked >= Sooner(entries[k].locked)
      BY <2>1, <2>2, <2>4, <2>5
    <2>6. CASE UNCHANGED entries
      BY <2>1, <2>2, <2>5, <2>6
    <2>7. CASE Tick
      <3>1. k \in DOMAIN entries' /\ entries'[k].locked = Sooner(entries[k].locked)
        BY <2>1, <2>7 DEF Tick
      <3> QED
        BY <2>1, <2>2, <2>4, <3>1
    <2>8. ASSUME NEW K, entries' = check(K)
          PROVE  k \in DOMAIN entries' /\ entries'[k].locked >= Sooner(entries[k].locked)
      <3>1. k \in DOMAIN entries' /\ entries'[k].locked = l
        BY <2>1, <2>2, <2>8 DEF check
      <3> QED
        BY <2>5, <3>1
    <2>9. ASSUME NEW c \in Conn, NEW u \in User, StartupMessage(c, u)
          PROVE  k \in DOMAIN entries' /\ entries'[k].locked >= Sooner(entries[k].locked)
      <3>1. PICK K : K = {conn[c].address, u}
        OBVIOUS
      <3>2. entries' = entries \/ entries' = check(K)
        BY <2>9, <3>1, Zenon DEF StartupMessage
      <3> QED
        BY <2>1, <2>2, <2>5, <2>8, <3>2
    <2>10. ASSUME NEW c \in Conn, RightPassword(c)
           PROVE  \/ k \in DOMAIN entries' /\ entries'[k].locked >= Sooner(entries[k].locked)
                  \/ At(c, "password") /\ k \in keys(c) /\ conn'[c].phase = "session"
      <3>1. CASE k \in keys(c)
        <4>1. PICK x : x = [phase |-> "session", encrypted |-> conn[c].encrypted]
          OBVIOUS
        <4>2. conn' = [conn EXCEPT ![c] = x] /\ conn = [d \in Conn |-> conn[d]]
          BY <1>1, <2>10, <4>1, Configured DEF RightPassword, Become
        <4>3. conn'[c] = x /\ x.phase = "session"
          BY <4>1, <4>2
        <4> QED
          BY <2>10, <3>1, <4>3 DEF RightPassword
      <3>2. CASE k \notin keys(c)
        <4>1. entries' = [j \in DOMAIN entries \ keys(c) |-> entries[j]]
          BY <2>10 DEF RightPassword, record_success
        <4>2. k \in DOMAIN entries' /\ entries'[k].locked = l
          BY <2>1, <2>2, <3>2, <4>1
        <4> QED
          BY <2>5, <4>2
      <3> QED
        BY <3>1, <3>2
    <2>11. ASSUME NEW c \in Conn, WrongPassword(c)
           PROVE  k \in DOMAIN entries' /\ entries'[k].locked >= Sooner(entries[k].locked)
      <3>1. PICK a, u : a = conn[c].address /\ u = conn[c].user
        OBVIOUS
      <3>2. a \in Key /\ u \in Key
        <4>1. ConnOK(conn[c]) /\ conn[c].phase = "password"
          BY <1>1, <2>11, Configured DEF WrongPassword, At
        <4> QED
          BY <3>1, <4>1, ConnFacts DEF Key
      <3>3. PICK F : /\ F = IF Cardinality(DOMAIN entries) >= MaxTracked THEN sweep(entries) ELSE entries
                     /\ TableOK(F) /\ k \in DOMAIN F /\ F[k] = e
        <4>1. PICK S : S = {j \in DOMAIN E : E[j].locked > 0 \/ E[j].failures # <<>>}
          OBVIOUS
        <4>2. S \subseteq DOMAIN E /\ sweep(entries) = [j \in S |-> E[j]] /\ k \in S
          BY <2>1, <2>2, <2>4, <4>1 DEF sweep
        <4>3. TableOK(sweep(entries)) /\ k \in DOMAIN sweep(entries) /\ sweep(entries)[k] = e
          BY <2>1, <4>2, TableShrinks
        <4> QED
          BY <2>1, <4>3
      <3>4. PICK D : D = Counted(F, a)
        OBVIOUS
      <3>5. entries' = Counted(D, u)
        BY <2>11, <3>1, <3>3, <3>4, Zenon DEF WrongPassword, record_failure
      <3>6. TableOK(D)
        BY <3>2, <3>3, <3>4, CountedOK
      <3>7. k \in DOMAIN D /\ D[k].locked = l /\ D[k] = [failures |-> D[k].failures, locked |-> D[k].locked]
        BY <2>2, <2>3, <2>4, <3>2, <3>3, <3>4, CountedKeepsLocks
      <3>8. k \in DOMAIN entries' /\ entries'[k].locked = l
        BY <2>4, <3>2, <3>5, <3>6, <3>7, CountedKeepsLocks
      <3> QED
        BY <2>5, <3>8
    <2>12. \/ UNCHANGED entries \/ Tick
           \/ \E c \in Conn : \/ \E u \in User : StartupMessage(c, u)
                              \/ RightPassword(c) \/ WrongPassword(c)
      BY <1>1 DEF Next, vars, Accept, refuse, SslRequest, GssEncRequest, TlsAccepted, Refused,
                  Hangup, Timeout
    <2>13. CASE UNCHANGED entries \/ Tick
      BY <2>6, <2>7, <2>13
    <2>14. CASE \E c \in Conn : (\E u \in User : StartupMessage(c, u)) \/ WrongPassword(c)
      BY <2>9, <2>11, <2>14
    <2>15. CASE \E c \in Conn : RightPassword(c)
      BY <2>10, <2>15
    <2> QED
      BY <2>12, <2>13, <2>14, <2>15
  <1>2. ConnInv /\ [Next]_vars => [\A k \in Key : Held(k)]_vars
    BY <1>1
  <1>3. Spec => [][\A k \in Key : Held(k)]_vars
    BY <1>2, ConnInvariance, PTL DEF Spec
  <1> QED
    BY <1>3 DEF LocksHold
=============================================================================
