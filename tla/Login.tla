------------------------------- MODULE Login -------------------------------
(***************************************************************************)
(* Logging in to the admin UI (internal/admin throttle.go, session.go,     *)
(* admin.go): handlers run at the same time, each with the configuration   *)
(* it took when its request came in, while a reload may change or remove   *)
(* the account's password hash.  Failed attempts are counted per client    *)
(* address and lock it for a time that doubles up to the window; a session *)
(* is signed with the hash it was opened under.                            *)
(*                                                                         *)
(* Time is in minutes.  Instants are kept as the time passed since them or *)
(* left until them, so that it may run on for ever.                        *)
(***************************************************************************)
EXTENDS Integers, FiniteSets

CONSTANTS
  Handlers,   \* requests that run at the same time
  Clients,    \* client addresses
  Hashes,     \* the bcrypt hashes the account has had; each its own password
  None,       \* no such account, or a password that is no hash's
  Threshold,  \* throttleThreshold
  Window,     \* throttleWindow
  MaxShift,   \* the clamp of the shift
  Width,      \* bits of a duration
  MaxKeys,    \* records kept before fail sweeps
  Cap         \* bound: where the counters stop counting

ASSUME LoginAssumption ==
  /\ None \notin Hashes /\ IsFiniteSet(Handlers)
  /\ {Threshold, Window, Cap} \subseteq Nat \ {0} /\ {MaxShift, MaxKeys} \subseteq Nat
  \* The clamped shift exceeds the window and is still in range.
  /\ Window < 2 ^ MaxShift /\ MaxShift < Width - 1
  \* Where n stops the lock is the window.
  /\ Threshold + MaxShift <= Cap

\* The powers of two that matter, which the provers know nothing of: both parts
\* follow from MaxShift < Width - 1.
ASSUME PowersAssumption ==
  /\ 2 ^ (Width - 1) \in Nat /\ 2 ^ Width = 2 * 2 ^ (Width - 1)
  /\ \A k \in 0 .. MaxShift : 2 ^ k \in 1 .. 2 ^ (Width - 1) - 1

Smaller(a, b) == IF a < b THEN a ELSE b

VARIABLES
  hash,      \* the account's hash in the published configuration, or None
  at,        \* where each handler is
  ad,        \* the hash in the configuration it took
  pass,      \* the hash whose password it was given
  ip,        \* the client it serves
  fails,     \* loginThrottle.fails: n, the minutes left until the lock ends and
             \* the minutes since the last failure; n = 0 is no record
  sessions,  \* sessions not expired: the hash they are signed with, and the
             \* history of the hash whose password was given
  opened     \* history: locks of the client that ran out since n was last 0

loginVars == <<hash, at, ad, pass, ip, fails, sessions, opened>>
request == <<at, ad, pass, ip>>

NoRecord == [n |-> 0, left |-> 0, age |-> 0]

LoginTypeOK ==
  /\ hash \in Hashes \union {None}
  /\ at \in [Handlers -> {"idle", "asked", "compare"}]
  /\ ad \in [Handlers -> Hashes \union {None}]
  /\ pass \in [Handlers -> Hashes \union {None}]
  /\ ip \in [Handlers -> Clients]
  /\ fails \in [Clients -> [n : 0 .. Cap, left : 0 .. Window, age : 0 .. Window + 1]]
  /\ sessions \subseteq [signed : Hashes, knew : Hashes]
  /\ opened \in [Clients -> 0 .. Cap]

LoginInit ==
  /\ hash \in Hashes
  /\ at = [h \in Handlers |-> "idle"]
  /\ ad = [h \in Handlers |-> None] /\ pass = [h \in Handlers |-> None]
  /\ ip \in [Handlers -> Clients]
  /\ fails = [c \in Clients |-> NoRecord]
  /\ sessions = {}
  /\ opened = [c \in Clients |-> 0]

-----------------------------------------------------------------------------
(* The surroundings. *)

\* A reload publishes another hash, an old one again, or removes the account.
ReloadHash ==
  /\ hash' \in (Hashes \union {None}) \ {hash}
  /\ UNCHANGED <<request, fails, sessions, opened>>

\* A minute passes.
Tick ==
  /\ fails' = [c \in Clients |->
       IF fails[c].n = 0 THEN NoRecord
       ELSE [fails[c] EXCEPT !.left = IF @ = 0 THEN 0 ELSE @ - 1,
                             !.age = Smaller(@ + 1, Window + 1)]]
  /\ opened' = [c \in Clients |->
       IF fails[c].left = 1 THEN Smaller(opened[c] + 1, Cap) ELSE opened[c]]
  /\ UNCHANGED <<hash, request, sessions>>

\* The session's time to live is over.
Expire ==
  /\ \E s \in sessions : sessions' = sessions \ {s}
  /\ UNCHANGED <<hash, request, fails, opened>>

\* The daemon restarts.  LoadSecret: sessions live on, their key is on disk,
\* unless it is unreadable or too short and replaced.
Restart ==
  /\ at' = [h \in Handlers |-> "idle"]
  /\ ad' = [h \in Handlers |-> None] /\ pass' = [h \in Handlers |-> None]
  /\ fails' = [c \in Clients |-> NoRecord]
  /\ opened' = [c \in Clients |-> 0]
  /\ sessions' \in {sessions, {}}
  /\ UNCHANGED <<hash, ip>>

-----------------------------------------------------------------------------
(* The throttle. *)

\* A signed duration of Width bits.
Wrap(x) == LET r == x % 2 ^ Width IN IF r >= 2 ^ (Width - 1) THEN r - 2 ^ Width ELSE r

LockUnclamped(n) ==
  LET d == Smaller(Wrap(2 ^ (n - Threshold)), Window) IN IF d < 0 THEN 0 ELSE d

LockUncapped(n) == Wrap(2 ^ Smaller(n - Threshold, MaxShift))

\* How long the n-th failure locks.
Lock(n) == Smaller(Wrap(2 ^ Smaller(n - Threshold, MaxShift)), Window)

\* The record is as good as none.
Idle(r) == r.n = 0 \/ r.age > Window

\* The sweep above the size limit.
Swept == IF Cardinality({c \in Clients : fails[c].n > 0}) > MaxKeys
         THEN [c \in Clients |-> IF Idle(fails[c]) THEN NoRecord ELSE fails[c]]
         ELSE fails

\* One more failure, from none when the window has passed since the last.
Bumped(r) ==
  LET n == Smaller((IF Idle(r) THEN 0 ELSE r.n) + 1, Cap)
  IN [n |-> n, age |-> 0,
      left |-> IF n >= Threshold THEN Lock(n) ELSE IF Idle(r) THEN 0 ELSE r.left]

fail(c) ==
  /\ fails' = [Swept EXCEPT ![c] = Bumped(@)]
  /\ opened' = [k \in Clients |->
       IF fails'[k].n = 0 \/ (k = c /\ Idle(fails[c])) THEN 0 ELSE opened[k]]

ok(c) ==
  /\ fails' = [fails EXCEPT ![c] = NoRecord]
  /\ opened' = [opened EXCEPT ![c] = 0]

-----------------------------------------------------------------------------
(* handleLogin. *)

\* A client's POST arrives; the handler takes the configuration.
ServeHTTP(h) ==
  /\ at[h] = "idle"
  /\ at' = [at EXCEPT ![h] = "asked"]
  /\ ad' = [ad EXCEPT ![h] = hash]
  /\ \E p \in Hashes \union {None} : pass' = [pass EXCEPT ![h] = p]
  /\ \E c \in Clients : ip' = [ip EXCEPT ![h] = c]
  /\ UNCHANGED <<hash, fails, sessions, opened>>

Answered(h) ==
  /\ at' = [at EXCEPT ![h] = "idle"]
  /\ ad' = [ad EXCEPT ![h] = None] /\ pass' = [pass EXCEPT ![h] = None]
  /\ UNCHANGED ip

\* blockedUntil.
Blocked(c) == fails[c].left > 0

BlockedCounts(c) == fail(c)

\* A refused attempt leaves the record as it is.
BlockedEffect(c) == UNCHANGED <<fails, opened>>

Refuse(h) ==
  /\ at[h] = "asked" /\ Blocked(ip[h])
  /\ Answered(h) /\ BlockedEffect(ip[h])
  /\ UNCHANGED <<hash, sessions>>

Admit(h) ==
  /\ at[h] = "asked" /\ ~Blocked(ip[h])
  /\ at' = [at EXCEPT ![h] = "compare"]
  /\ UNCHANGED <<hash, ad, pass, ip, fails, sessions, opened>>

\* verifyCred, on the configuration the handler took.
verifyCred(h) == ad[h] # None /\ pass[h] = ad[h]

LoginFails(h) ==
  /\ at[h] = "compare" /\ ~verifyCred(h)
  /\ Answered(h) /\ fail(ip[h])
  /\ UNCHANGED <<hash, sessions>>

newSessionReread(h) == [signed |-> IF hash = None THEN ad[h] ELSE hash, knew |-> pass[h]]

\* The session is signed with the hash of that same configuration.
newSession(h) == [signed |-> ad[h], knew |-> pass[h]]

LoginSucceeds(h) ==
  /\ at[h] = "compare" /\ verifyCred(h)
  /\ sessions' = sessions \union {newSession(h)}
  /\ Answered(h) /\ ok(ip[h])
  /\ UNCHANGED hash

handleLogin(h) == Refuse(h) \/ Admit(h) \/ LoginFails(h) \/ LoginSucceeds(h)

LoginNext ==
  \/ ReloadHash \/ Tick \/ Expire \/ Restart
  \/ \E h \in Handlers : ServeHTTP(h) \/ handleLogin(h)

LoginSpec == LoginInit /\ [][LoginNext]_loginVars

\* Time goes on.
LoginFairSpec == LoginSpec /\ WF_loginVars(Tick)

-----------------------------------------------------------------------------
(* Properties. *)

\* parseSession: which sessions a request is let in with.
Valid(s) == hash # None /\ s.signed = hash

(***************************************************************************)
(* A session that is let in was opened with the account's current          *)
(* password, however the password was changed while logins were under way  *)
(* and across restarts: "changing the password invalidates every existing  *)
(* session for that user".                                                 *)
(***************************************************************************)
SessionsKnowPassword == \A s \in sessions : Valid(s) => s.knew = hash

(***************************************************************************)
(* A client's failures in a row are at most those before the threshold and *)
(* one for each handler, and that again for each lock it has sat out: not  *)
(* more, whatever the handlers that were past the check when the lock came *)
(* down, whatever the sweep removes, and however many failures there were. *)
(***************************************************************************)
GuessesBounded ==
  \A c \in Clients :
    fails[c].n <= Threshold - 1 + Cardinality(Handlers) * (1 + opened[c])

(***************************************************************************)
(* Nobody is locked out for good: a locked client is admitted again, even  *)
(* if it keeps trying.                                                     *)
(***************************************************************************)
LocksEnd == \A c \in Clients : []<>(~Blocked(c))
=============================================================================
