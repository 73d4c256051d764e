----------------------------- MODULE Connections -----------------------------
(***************************************************************************)
(* Connections from the socket to the session: the slots of                *)
(* crates/ferrite-protocol/src/server.rs, negotiation, TLS and password    *)
(* with their timeouts (session.rs), and the limit on failed passwords     *)
(* (throttle.rs). What follows the handshake is in Wire.                   *)
(*                                                                         *)
(* Simplifications:                                                        *)
(*  - Time is discrete. Instants are kept as ages and as time left, so no  *)
(*    clock is needed; a failure that has left the window is dropped at    *)
(*    once, where the code drops it the next time it looks (prune).        *)
(*  - Any password may be right or wrong. The wait before a refusal is     *)
(*    sent (fail_slowly) has no fixed length.                              *)
(*  - The lock of the throttle is never poisoned.                          *)
(***************************************************************************)
EXTENDS Integers, Sequences, FiniteSets

CONSTANTS
  Conn,         \* connections at a time, served or not
  Address,
  User,
  MaxTracked,   \* MAX_TRACKED_SOURCES
  MaxFailures,  \* policy.max_failures
  Window,       \* policy.window
  Lockout,      \* policy.lockout
  Handshake,    \* HANDSHAKE_TIMEOUT
  MaxLimit      \* bound: max_connections

\* The times are ordered as in ThrottlePolicy::default; Settings does not enforce it.
ASSUME ConnectionsAssumption ==
  /\ Address \cap User = {}
  /\ {MaxTracked, MaxFailures, Window, Lockout, Handshake, MaxLimit} \subseteq Nat \ {0}
  /\ Handshake < Lockout /\ Window <= Lockout

Key == Address \cup User

VARIABLES
  config,   \* ServerConfig: max_connections, and whether TLS is required
  open,     \* the counter of slots
  conn,     \* conn[c]: how far connection c has got
  entries,  \* the throttle: key -> [failures, locked]
  failed,   \* history: the failures of each source in the window, since its last
            \* success, as ages; only the last of those that were not counted
  missed    \* history: sources with failures in it that a full table did not count

vars == <<config, open, conn, entries, failed, missed>>

Closed == [phase |-> "closed"]
NoLock == -1
Packets == 3  \* pre-startup packets that are read
-----------------------------------------------------------------------------
(* The throttle. failures: ages, oldest first; locked: the time left until
   locked_until, 0 when it has passed but is still set. *)

With(f, k, v) == [x \in DOMAIN f \cup {k} |-> IF x = k THEN v ELSE f[x]]

keys(c) == {conn[c].address, conn[c].user}

IsLocked(k) == k \in DOMAIN entries /\ entries[k].locked > 0

Older(f) == [i \in 1 .. Len(f) |-> f[i] + 1]

\* Failures leave at the front, as long as the first is out of the window.
prune(f) ==
  LET gone == CHOOSE n \in 0 .. Len(f) :
                /\ \A i \in 1 .. n : f[i] >= Window
                /\ n < Len(f) => f[n + 1] < Window
  IN  SubSeq(f, gone + 1, Len(f))

\* check, as far as it changes the entries of K: locks that have passed go.
check(K) ==
  [k \in DOMAIN entries |->
     IF k \in K /\ entries[k].locked = 0 THEN [entries[k] EXCEPT !.locked = NoLock]
     ELSE entries[k]]

\* Mutant: only failures count as something to remember.
sweep_locked(E) == [k \in {x \in DOMAIN E : E[x].failures # <<>>} |-> E[k]]

sweep(E) == [k \in {x \in DOMAIN E : E[x].locked > 0 \/ E[x].failures # <<>>} |-> E[k]]

\* Mutant: one failure too many.
LockAfter_more(entry) ==
  IF Len(entry.failures) > MaxFailures /\ entry.locked = NoLock
  THEN [entry EXCEPT !.locked = Lockout] ELSE entry

LockAfter(entry) ==
  IF Len(entry.failures) >= MaxFailures /\ entry.locked = NoLock
  THEN [entry EXCEPT !.locked = Lockout] ELSE entry

\* Mutant: new sources are added to a full table.
Counted_always(E, k) ==
  LET old == IF k \in DOMAIN E THEN E[k] ELSE [failures |-> <<>>, locked |-> NoLock]
  IN  With(E, k, LockAfter([old EXCEPT !.failures = Append(@, 0)]))

\* One failure more for k, unless it is new and the table is full.
Counted(E, k) ==
  IF k \notin DOMAIN E /\ Cardinality(DOMAIN E) >= MaxTracked THEN E
  ELSE LET old == IF k \in DOMAIN E THEN E[k] ELSE [failures |-> <<>>, locked |-> NoLock]
       IN  With(E, k, LockAfter([old EXCEPT !.failures = Append(@, 0)]))

record_failure(c) ==
  LET kept == IF Cardinality(DOMAIN entries) >= MaxTracked THEN sweep(entries) ELSE entries
  IN  Counted(Counted(kept, conn[c].address), conn[c].user)

record_success(c) == [k \in DOMAIN entries \ keys(c) |-> entries[k]]
-----------------------------------------------------------------------------
(* Connections *)

At(c, phase) == conn[c].phase = phase
Become(c, state) == conn' = [conn EXCEPT ![c] = state]

\* The task of c ends, and its slot is dropped.
Close(c) == Become(c, Closed) /\ open' = open - 1

\* negotiate, in a step that begins now.
Negotiating(address, encrypted) ==
  [phase |-> "startup", address |-> address, encrypted |-> encrypted,
   left |-> Packets, timer |-> Handshake]

\* Mutant: the count before the new connection is compared.
IsFull_before == open > config.max_connections

\* With one connection more, there are too many.
IsFull == open + 1 > config.max_connections

Accept(c, address) ==
  /\ At(c, "closed")
  /\ open' = open + 1
  /\ Become(c, IF IsFull THEN [phase |-> "refusing"] ELSE Negotiating(address, FALSE))
  /\ UNCHANGED <<config, entries, failed, missed>>

refuse(c) == At(c, "refusing") /\ Close(c) /\ UNCHANGED <<config, entries, failed, missed>>

\* negotiate: a request is declined, or is one too many.
Declined(c) ==
  IF conn[c].left = 1 THEN Close(c)
  ELSE Become(c, [conn[c] EXCEPT !.left = @ - 1]) /\ UNCHANGED open

SslRequest(c) ==
  /\ At(c, "startup")
  /\ IF conn[c].encrypted THEN Close(c)
     ELSE IF config.tls
     THEN /\ Become(c, [phase |-> "tls", address |-> conn[c].address, timer |-> Handshake])
          /\ UNCHANGED open
     ELSE Declined(c)
  /\ UNCHANGED <<config, entries, failed, missed>>

GssEncRequest(c) == At(c, "startup") /\ Declined(c) /\ UNCHANGED <<config, entries, failed, missed>>

TlsAccepted(c) ==
  /\ At(c, "tls")
  /\ Become(c, Negotiating(conn[c].address, TRUE))
  /\ UNCHANGED <<config, open, entries, failed, missed>>

MayStart(c) == config.tls => conn[c].encrypted

\* StartupMessage, and the check with which authenticate begins.
StartupMessage(c, user) ==
  LET K == {conn[c].address, user} IN
  /\ At(c, "startup")
  /\ IF ~MayStart(c) THEN Close(c) /\ UNCHANGED entries
     ELSE /\ entries' = check(K)
          /\ IF \E k \in K : IsLocked(k) THEN Close(c)
             ELSE /\ Become(c, [phase |-> "password", address |-> conn[c].address, user |-> user,
                                encrypted |-> conn[c].encrypted, timer |-> Handshake])
                  /\ UNCHANGED open
  /\ UNCHANGED <<config, failed, missed>>

RightPassword(c) ==
  /\ At(c, "password")
  /\ entries' = record_success(c)
  /\ Become(c, [phase |-> "session", encrypted |-> conn[c].encrypted])
  /\ failed' = [k \in Key |-> IF k \in keys(c) THEN <<>> ELSE failed[k]]
  /\ missed' = missed \ keys(c)
  /\ UNCHANGED <<config, open>>

\* A wrong password, or a role that may not connect.
WrongPassword(c) ==
  /\ At(c, "password")
  /\ entries' = record_failure(c)
  /\ Become(c, [phase |-> "failing", timer |-> conn[c].timer])
  /\ failed' = [k \in Key |->
       IF k \notin keys(c) THEN failed[k]
       ELSE IF k \in DOMAIN entries' THEN Append(failed[k], 0) ELSE <<0>>]
  /\ missed' = missed \cup (keys(c) \ DOMAIN entries')
  /\ UNCHANGED <<config, open>>

\* fail_slowly is over.
Refused(c) == At(c, "failing") /\ Close(c) /\ UNCHANGED <<config, entries, failed, missed>>

\* The peer hangs up, asks to cancel a query, or breaks the protocol.
Hangup(c) ==
  /\ conn[c].phase \in {"startup", "tls", "password", "session"}
  /\ Close(c)
  /\ UNCHANGED <<config, entries, failed, missed>>

\* Mutant: the TLS handshake has no timeout.
Timeout_but_tls(c) ==
  /\ conn[c].phase \in {"startup", "password", "failing"} /\ conn[c].timer = 0
  /\ Close(c)
  /\ UNCHANGED <<config, entries, failed, missed>>

\* within: the step is cut off.
Timeout(c) ==
  /\ conn[c].phase \in {"startup", "tls", "password", "failing"} /\ conn[c].timer = 0
  /\ Close(c)
  /\ UNCHANGED <<config, entries, failed, missed>>

Sooner(t) == IF t > 0 THEN t - 1 ELSE t

\* The failures that are counted for k.
Failures(E, k) == IF k \in DOMAIN E THEN E[k].failures ELSE <<>>

\* Time passes. No timer is more than a tick late.
Tick ==
  /\ \A c \in Conn : "timer" \in DOMAIN conn[c] => conn[c].timer > 0
  /\ conn' = [c \in Conn |->
       IF "timer" \in DOMAIN conn[c] THEN [conn[c] EXCEPT !.timer = @ - 1] ELSE conn[c]]
  /\ entries' = [k \in DOMAIN entries |->
       [failures |-> prune(Older(entries[k].failures)), locked |-> Sooner(entries[k].locked)]]
  /\ failed' = [k \in Key |-> prune(Older(failed[k]))]
  /\ missed' = {k \in missed : failed'[k] # Failures(entries', k)}
  /\ UNCHANGED <<config, open>>

Init ==
  /\ config \in [max_connections: 1 .. MaxLimit, tls: BOOLEAN]
  /\ open = 0
  /\ conn = [c \in Conn |-> Closed]
  /\ entries = [k \in {} |-> k]
  /\ failed = [k \in Key |-> <<>>] /\ missed = {}

Next ==
  \/ Tick
  \/ \E c \in Conn :
       \/ \E a \in Address : Accept(c, a)
       \/ \E u \in User : StartupMessage(c, u)
       \/ refuse(c) \/ SslRequest(c) \/ GssEncRequest(c) \/ TlsAccepted(c)
       \/ RightPassword(c) \/ WrongPassword(c) \/ Refused(c)
       \/ Hangup(c) \/ Timeout(c)

\* The runtime runs the tasks that are ready and the timers that are due, and
\* time goes on; nothing is expected of a peer.
Fairness ==
  /\ WF_vars(Tick)
  /\ \A c \in Conn : WF_vars(refuse(c)) /\ WF_vars(Refused(c)) /\ WF_vars(Timeout(c))

Spec == Init /\ [][Next]_vars /\ Fairness
-----------------------------------------------------------------------------
(* Properties *)

Served == {c \in Conn : conn[c].phase \notin {"closed", "refusing"}}

\* No more than max_connections are served at a time, though those that are
\* being refused count as well (Slot); and where TLS is required, no password is
\* asked for and no session begins on a channel in clear, whatever the peer
\* sends before its startup packet (negotiate).
ServedAsConfigured ==
  /\ Cardinality(Served) <= config.max_connections
  /\ config.tls => \A c \in Conn : conn[c].phase \in {"password", "session"} => conn[c].encrypted

\* The failures of one source, an address or a user, within one window and since
\* its last success: up to the limit, and those of the attempts that had passed the
\* check by then, which are other connections. What these leave behind may outlive
\* the lock, and count for the next one. The exception is a source that a full
\* table did not count a failure of (record_failure): it has no limit until the
\* table has all of its failures again. That may be a user as well as an address,
\* although the comment on MAX_TRACKED_SOURCES excepts "the user key". The bound needs a lock that is no shorter
\* than the window and outlasts a handshake, as by default; the settings do not
\* ask for it.
FailuresAreBounded ==
  LET n == config.max_connections
      most == IF MaxFailures < n THEN n ELSE MaxFailures
  IN  \A k \in Key \ missed : Len(failed[k]) <= most - 1 + n

\* A lock stands until its time is over, also when its failures have left the
\* window and the table is swept. Only the success of an attempt that had
\* passed the check before lifts it (record_success).
LocksHold ==
  [][\A k \in Key : IsLocked(k) =>
       \/ k \in DOMAIN entries' /\ entries'[k].locked >= Sooner(entries[k].locked)
       \/ \E c \in Conn : At(c, "password") /\ k \in keys(c) /\ conn'[c].phase = "session"]_vars

\* A connection does not stay in its handshake: it becomes a session or gives
\* its slot back, even if its peer does nothing (within).
HandshakeEnds ==
  \A c \in Conn : conn[c].phase \notin {"closed", "session"} ~> conn[c].phase \in {"closed", "session"}

\* Every component has its type; the table of sources has its bound, and the
\* counter is the number of tasks.
TypeOK ==
  /\ config \in [max_connections: 1 .. MaxLimit, tls: BOOLEAN]
  /\ open = Cardinality({c \in Conn : conn[c] # Closed})
  /\ \A c \in Conn :
       /\ conn[c].phase \in {"closed", "refusing", "startup", "tls", "password", "failing", "session"}
       /\ "timer" \in DOMAIN conn[c] => conn[c].timer \in 0 .. Handshake
  /\ DOMAIN entries \subseteq Key /\ Cardinality(DOMAIN entries) <= MaxTracked
  /\ \A k \in DOMAIN entries :
       entries[k].locked \in NoLock .. Lockout /\ entries[k].failures \in Seq(0 .. Window - 1)
  /\ failed \in [Key -> Seq(0 .. Window - 1)] /\ missed \subseteq Key
=============================================================================
