---------------------------- MODULE TokenBucket ----------------------------
(***************************************************************************)
(* What the rate limiter promises (internal/proxy/limiter.go: "a per-client *)
(* token bucket: rate tokens/sec, burst capacity 2 x rate"): every client   *)
(* has its own bucket, all are refilled as time passes, a request takes a  *)
(* token, and tokens may be lost, never gained.  There is no map, no sweep *)
(* and no lock here.                                                       *)
(***************************************************************************)
EXTENDS Integers

CONSTANTS
  Clients,   \* bucket identities
  Rate,      \* what a tick of the clock adds to a bucket
  Capacity,  \* what a bucket holds
  Unit       \* what a request costs

VARIABLES
  avail,     \* what each bucket holds
  served     \* requests let through, per client

Least(a, b) == IF a < b THEN a ELSE b

Init ==
  /\ avail = [c \in Clients |-> Capacity]
  /\ served = [c \in Clients |-> 0]

Refill ==
  /\ avail' = [c \in Clients |-> Least(Capacity, avail[c] + Rate)]
  /\ UNCHANGED served

\* At least a token goes.
Grant(c) ==
  /\ avail[c] >= Unit
  /\ \E left \in 0 .. avail[c] - Unit : avail' = [avail EXCEPT ![c] = left]
  /\ served' = [served EXCEPT ![c] = @ + 1]

Lose(c) ==
  /\ \E left \in 0 .. avail[c] : avail' = [avail EXCEPT ![c] = left]
  /\ UNCHANGED served

Next == Refill \/ \E c \in Clients : Grant(c) \/ Lose(c)

Spec == Init /\ [][Next]_<<avail, served>>
=============================================================================
