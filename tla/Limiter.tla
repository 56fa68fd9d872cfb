------------------------------ MODULE Limiter ------------------------------
(***************************************************************************)
(* The per-client rate limiter of a proxied host (internal/proxy/limiter.go) *)
(* as the request handlers use it.                                         *)
(*                                                                         *)
(* A handler reads the clock, then waits for the limiter's lock, so that   *)
(* the buckets meet timestamps out of order; idle buckets are swept from   *)
(* the map and come back full.  Amounts are integers: a tick of the clock  *)
(* is 1/PerSecond of a second and adds Rate units, a token is PerSecond    *)
(* units (float64 rounding is left out).                                   *)
(*                                                                         *)
(* The module follows one limiter: a reload that changes the host's rule   *)
(* replaces it by a new one with no buckets, whose behaviours these are.   *)
(***************************************************************************)
EXTENDS Integers, FiniteSets

CONSTANTS
  Clients,     \* bucket identities (bucketKey): an IPv4 address or an IPv6 /64
  Requests,    \* concurrent handlers
  Rate,        \* rate_limit, tokens per second
  PerSecond,   \* ticks per second
  Minute,      \* the short idle time and sweep interval, in ticks
  TenMinutes,  \* the long ones
  Full,        \* buckets that make the limiter sweep early (16384)
  MaxLag,      \* ticks between reading the clock and having the lock, at most
  MaxClock,    \* bound: ticks
  MaxCalls     \* bound: calls

ASSUME LimiterAssumption ==
  /\ IsFiniteSet(Clients)
  /\ Rate \in Nat \ {0} /\ PerSecond \in Nat \ {0}
  /\ MaxLag \in Nat /\ Minute \in Nat /\ TenMinutes \in Nat /\ Full \in Nat
  /\ Minute >= 2 * MaxLag + 2 * PerSecond /\ TenMinutes >= Minute
  /\ MaxClock \in Nat /\ MaxCalls \in Nat

Unit == PerSecond
Burst == 2 * Rate * PerSecond

VARIABLES
  clock,    \* time, in ticks
  buckets,  \* the clients that have a bucket in the map
  tokens,   \* its content; may be negative
  last,     \* when it was filled up
  sweep,    \* when the map was swept
  at,       \* where each handler is: "idle" or "called"
  client,   \* its client
  now,      \* the time it read
  granted,  \* history: requests let through, per client
  fair,     \* history: what a bucket with exact time would hold
  calls     \* counter for the bound

vars == <<clock, buckets, tokens, last, sweep, at, client, now, granted, fair, calls>>

Least(a, b) == IF a < b THEN a ELSE b

TypeOK ==
  /\ clock \in 0 .. MaxClock /\ sweep \in 0 .. clock
  /\ buckets \subseteq Clients
  /\ tokens \in [Clients -> Int] /\ last \in [Clients -> 0 .. clock]
  /\ \A c \in buckets : tokens[c] \in -(Rate * MaxLag) .. Burst
  /\ at \in [Requests -> {"idle", "called"}] /\ client \in [Requests -> Clients]
  /\ now \in [Requests -> 0 .. clock]
  /\ granted \in [Clients -> Nat] /\ fair \in [Clients -> Int] /\ calls \in 0 .. MaxCalls

Init ==
  /\ clock = 0 /\ sweep = 0
  /\ buckets = {}
  /\ tokens = [c \in Clients |-> 0] /\ last = [c \in Clients |-> 0]
  /\ at = [r \in Requests |-> "idle"] /\ client \in [Requests -> Clients]
  /\ now = [r \in Requests |-> 0]
  /\ granted = [c \in Clients |-> 0] /\ calls = 0
  /\ fair = [c \in Clients |-> Burst]

-----------------------------------------------------------------------------
\* allow: the key and the time, before the lock is asked for.
Arrive(r) ==
  /\ at[r] = "idle"
  /\ calls < MaxCalls /\ calls' = calls + 1
  /\ at' = [at EXCEPT ![r] = "called"]
  /\ \E c \in Clients : client' = [client EXCEPT ![r] = c]
  /\ now' = [now EXCEPT ![r] = clock]
  /\ UNCHANGED <<clock, buckets, tokens, last, sweep, granted, fair>>

FilledEmpty(c, t) ==
  IF c \in buckets THEN Least(Burst, tokens[c] + Rate * (t - last[c])) ELSE 0

\* What c's bucket holds at t; a new one is full.
Filled(c, t) ==
  IF c \in buckets THEN Least(Burst, tokens[c] + Rate * (t - last[c])) ELSE Burst

Pressed(held) == Cardinality(held) > Full

\* A sweep is due after ten minutes, and with many buckets after one.
Due(held, t) ==
  /\ t - sweep > Minute
  /\ Pressed(held) \/ t - sweep > TenMinutes

SweptUsed(held, used, t) == held \ {used}

\* The buckets a sweep at t takes away.
Swept(held, used, t) ==
  {c \in held \ {used} : t - last[c] > IF Pressed(held) THEN Minute ELSE TenMinutes}

\* allow, under the lock: fill up, sweep, then take a token or refuse.
Allow(r) ==
  LET c == client[r]
      t == now[r]
      held == buckets \union {c}
      full == Filled(c, t)
  IN  /\ at[r] = "called"
      /\ at' = [at EXCEPT ![r] = "idle"]
      /\ last' = [last EXCEPT ![c] = t]
      /\ buckets' = IF Due(held, t) THEN held \ Swept(held, c, t) ELSE held
      /\ sweep' = IF Due(held, t) THEN t ELSE sweep
      /\ \/ /\ full >= Unit
            /\ tokens' = [tokens EXCEPT ![c] = full - Unit]
            /\ granted' = [granted EXCEPT ![c] = @ + 1]
            /\ fair' = [fair EXCEPT ![c] = @ - Unit]
         \/ /\ full < Unit
            /\ tokens' = [tokens EXCEPT ![c] = full]
            /\ UNCHANGED <<granted, fair>>
      /\ UNCHANGED <<clock, client, now, calls>>

\* Time passes; no handler waits for the lock longer than MaxLag.
Tick ==
  /\ clock < MaxClock /\ clock' = clock + 1
  /\ \A r \in Requests : at[r] = "called" => clock - now[r] < MaxLag
  /\ fair' = [c \in Clients |-> Least(Burst, fair[c] + Rate)]
  /\ UNCHANGED <<buckets, tokens, last, sweep, at, client, now, granted, calls>>

Next == Tick \/ \E r \in Requests : Arrive(r) \/ Allow(r)

Spec == Init /\ [][Next]_vars

-----------------------------------------------------------------------------
(* Properties. *)

Capacity == Burst + Rate * MaxLag

\* What each client's bucket holds by the present clock, at most.
Available ==
  [c \in Clients |->
     IF c \in buckets THEN Least(Capacity, tokens[c] + Rate * (clock - last[c]))
                     ELSE Capacity]

Bucket == INSTANCE TokenBucket WITH avail <- Available, served <- granted

(***************************************************************************)
(* The limiter is a token bucket per client: handlers that take the lock   *)
(* in another order than they read the clock, and the sweep of idle        *)
(* buckets, let no request more through, in no interval of time, than the  *)
(* burst, the rate and one lag allow.                                      *)
(***************************************************************************)
IsTokenBucket == Bucket!Spec

\* A handler is answered 429.
Refused(r) == at[r] = "called" /\ at'[r] = "idle" /\ granted' = granted

(***************************************************************************)
(* A request is refused (429) only when its client has used up the burst   *)
(* and the rate, but for what the bucket gained since the handler read the *)
(* clock: neither the sweep nor a handler with an older time takes a token *)
(* from anyone.                                                            *)
(***************************************************************************)
RefusedOnlyWhenDry ==
  [][\A r \in Requests :
       Refused(r) => fair[client[r]] < Unit + Rate * (clock - now[r])]_vars
=============================================================================
