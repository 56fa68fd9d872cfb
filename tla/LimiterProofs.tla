--------------------------- MODULE LimiterProofs ---------------------------
(***************************************************************************)
(* Proofs about the rate limiter: its types, that it implements a token    *)
(* bucket per client, and that it refuses nobody who has a token.          *)
(***************************************************************************)
EXTENDS Limiter, TLAPS

\* No handler that waits read the clock more than MaxLag ago.
Lag == \A r \in Requests : at[r] = "called" => clock - now[r] <= MaxLag

\* By the present clock no bucket in the map is below zero, nor below the
\* bucket with exact time.
Held ==
  \A c \in buckets : /\ tokens[c] + Rate * (clock - last[c]) >= 0
                     /\ tokens[c] + Rate * (clock - last[c]) >= fair[c]

FairCapped == \A c \in Clients : fair[c] <= Burst

IInv == TypeOK /\ Lag /\ Held /\ FairCapped

-----------------------------------------------------------------------------
\* Amounts are integers.
LEMMA Amounts ==
  /\ Burst \in Nat /\ Unit \in Nat /\ Capacity \in Nat
  /\ Rate * MaxLag \in Nat /\ Capacity = Burst + Rate * MaxLag
  /\ 0 < Unit /\ Unit <= Burst
<1>1. PerSecond <= Rate * PerSecond
  BY LimiterAssumption
<1>2. Rate * PerSecond \in Nat /\ Rate * MaxLag \in Nat
  BY LimiterAssumption
<1>3. Burst = 2 * (Rate * PerSecond)
  BY LimiterAssumption DEF Burst
<1> QED
  BY <1>1, <1>2, <1>3, LimiterAssumption DEF Unit, Capacity

\* The refill between two times, in two parts and in one: what a handler with
\* an older time does not add is added later.
LEMMA Refilled ==
  ASSUME NEW l \in Int, NEW t \in Int, NEW n \in Int
  PROVE  /\ Rate * (t - l) \in Int /\ Rate * (n - t) \in Int /\ Rate * (n - l) \in Int
         /\ Rate * (t - l) + Rate * (n - t) = Rate * (n - l)
BY LimiterAssumption

\* More time adds more.
LEMMA More ==
  ASSUME NEW a \in Int, NEW b \in Int, a <= b
  PROVE  Rate * a <= Rate * b /\ Rate * a \in Int /\ Rate * b \in Int
BY LimiterAssumption

\* A tick adds Rate.
LEMMA OneTick ==
  ASSUME NEW l \in Int, NEW n \in Int
  PROVE  Rate * ((n + 1) - l) = Rate * (n - l) + Rate /\ Rate * (n - l) \in Int
BY LimiterAssumption

\* A bucket idle for a minute is full.
LEMMA IdleIsFull ==
  ASSUME NEW a \in Int, a > Minute
  PROVE  Rate * a >= Capacity + Rate * MaxLag /\ Rate * a \in Int
<1>1. Rate * a >= Rate * (2 * MaxLag + 2 * PerSecond)
  BY LimiterAssumption
<1>2. Rate * (2 * MaxLag + 2 * PerSecond) = 2 * (Rate * MaxLag) + 2 * (Rate * PerSecond)
  BY LimiterAssumption
<1>3. Burst = 2 * (Rate * PerSecond) /\ Rate * PerSecond \in Nat
  BY LimiterAssumption DEF Burst
<1>4. Rate * a \in Int
  BY LimiterAssumption
<1> QED
  BY <1>1, <1>2, <1>3, <1>4, Amounts

-----------------------------------------------------------------------------
\* What a handler finds and does under the lock: the bucket it fills, seen
\* at the present clock, and the buckets it sweeps.
LEMMA AllowStep ==
  ASSUME IInv, NEW r \in Requests, Allow(r), NEW c, NEW t, NEW full, NEW held,
         c = client[r], t = now[r], full = Filled(c, t), held = buckets \union {c}
  PROVE  /\ c \in Clients /\ t \in Int /\ t <= clock /\ t >= 0
         /\ full \in Int /\ full <= Burst /\ full >= -(Rate * MaxLag)
         /\ Rate * (clock - t) \in 0 .. Rate * MaxLag
         /\ full + Rate * (clock - t) >= 0
         /\ full + Rate * (clock - t) >= fair[c]
         /\ full + Rate * (clock - t) <= Available[c]
         /\ c \in buckets'
         /\ buckets' \subseteq held
         /\ \A d \in Clients \ {c} : (d \in buckets') => (d \in buckets)
         /\ \A d \in buckets : d \notin buckets' => d # c /\ Available[d] = Capacity
<1> DEFINE add == Rate * (t - last[c])  rest == Rate * (clock - t)  all == Rate * (clock - last[c])
<1>1. /\ c \in Clients /\ t \in Int /\ t <= clock /\ t >= 0 /\ clock - t <= MaxLag
      /\ clock \in Int /\ last[c] \in Int /\ tokens[c] \in Int /\ fair[c] \in Int
      /\ fair[c] <= Burst
  BY DEF IInv, TypeOK, Lag, FairCapped, Allow
<1>2. rest \in 0 .. Rate * MaxLag
  <2>1. Rate * 0 <= rest /\ rest <= Rate * MaxLag /\ rest \in Int
    <3>1. 0 <= clock - t /\ clock - t \in Int /\ MaxLag \in Int
      BY <1>1, LimiterAssumption
    <3> QED
      BY <3>1, <1>1, More
  <2> QED
    BY <2>1, LimiterAssumption, Amounts
<1>3. add \in Int /\ all \in Int /\ add + rest = all
  BY <1>1, Refilled
<1>4. /\ full \in Int /\ full <= Burst /\ full >= -(Rate * MaxLag)
      /\ full + rest >= 0 /\ full + rest >= fair[c] /\ full + rest <= Available[c]
  <2>1. CASE c \in buckets
    <3>1. full = IF Burst < tokens[c] + add THEN Burst ELSE tokens[c] + add
      BY <2>1 DEF Filled, Least
    <3>2. tokens[c] + all >= 0 /\ tokens[c] + all >= fair[c]
      BY <2>1 DEF IInv, Held
    <3>3. Available[c] = IF Capacity < tokens[c] + all THEN Capacity ELSE tokens[c] + all
      BY <1>1, <2>1 DEF Available, Least
    <3> HIDE DEF add, rest, all
    <3> QED
      BY <1>1, <1>2, <1>3, <3>1, <3>2, <3>3, Amounts
  <2>2. CASE c \notin buckets
    <3>1. full = Burst /\ Available[c] = Capacity
      BY <1>1, <2>2 DEF Filled, Available
    <3> HIDE DEF rest
    <3> QED
      BY <1>1, <1>2, <3>1, Amounts
  <2> QED
    BY <2>1, <2>2
<1>6. /\ c \in buckets' /\ buckets' \subseteq held
      /\ \A d \in buckets : d \notin buckets' => d # c /\ t - last[d] > Minute
  <2>1. \/ buckets' = held
        \/ buckets' = held \ Swept(held, c, t)
    BY DEF Allow
  <2>2. ASSUME NEW d \in Swept(held, c, t)
        PROVE  d # c /\ t - last[d] > Minute
    <3>1. d # c /\ t - last[d] > IF Pressed(held) THEN Minute ELSE TenMinutes
      BY <2>2 DEF Swept
    <3>2. d \in buckets /\ last[d] \in Int
      <4>1. d \in held \ {c}
        BY <2>2 DEF Swept
      <4> QED
        BY <4>1 DEF IInv, TypeOK
    <3> QED
      BY <3>1, <3>2, <1>1, LimiterAssumption
  <2> QED
    BY <2>1, <2>2
<1>7. ASSUME NEW d \in buckets, d \notin buckets'
      PROVE  d # c /\ Available[d] = Capacity
  <2>1. d # c /\ t - last[d] > Minute
    BY <1>6, <1>7
  <2>2. /\ d \in Clients /\ last[d] \in Int /\ tokens[d] \in Int
        /\ tokens[d] >= -(Rate * MaxLag)
    BY DEF IInv, TypeOK
  <2>3. clock - last[d] \in Int /\ clock - last[d] > Minute
    BY <2>1, <2>2, <1>1, LimiterAssumption
  <2>4. Rate * (clock - last[d]) >= Capacity + Rate * MaxLag /\ Rate * (clock - last[d]) \in Int
    BY <2>3, IdleIsFull
  <2>5. Available[d] = IF Capacity < tokens[d] + Rate * (clock - last[d])
                       THEN Capacity ELSE tokens[d] + Rate * (clock - last[d])
    BY <2>2 DEF Available, Least
  <2>6. tokens[d] + Rate * (clock - last[d]) >= Capacity
    BY <2>2, <2>4, Amounts
  <2> QED
    BY <2>1, <2>5, <2>6, <2>2, <2>4, Amounts
<1> QED
  BY <1>1, <1>2, <1>4, <1>6, <1>7

\* Initially every bucket is full.
LEMMA Start == Init => IInv
<1> SUFFICES ASSUME Init PROVE IInv
  OBVIOUS
<1>1. TypeOK
  BY LimiterAssumption, Amounts DEF Init, TypeOK
<1> QED
  BY <1>1, Amounts DEF IInv, Lag, Held, FairCapped, Init

\* Time keeps the invariant.
LEMMA TickKeeps == IInv /\ Tick => IInv'
<1> SUFFICES ASSUME IInv, Tick PROVE IInv'
  OBVIOUS
<1>0. /\ clock \in Nat /\ clock' = clock + 1 /\ buckets' = buckets
      /\ tokens' = tokens /\ last' = last /\ at' = at /\ now' = now
      /\ \A c \in Clients : /\ fair[c] \in Int /\ last[c] \in Int /\ tokens[c] \in Int
                            /\ fair'[c] = Least(Burst, fair[c] + Rate)
      /\ buckets \subseteq Clients
  BY DEF IInv, TypeOK, Tick
<1>1. TypeOK'
  <2>1. fair' \in [Clients -> Int]
    BY Amounts, LimiterAssumption DEF Tick, IInv, TypeOK, Least
  <2>2. clock' \in 0 .. MaxClock
    BY LimiterAssumption DEF Tick, IInv, TypeOK
  <2>3. sweep' \in 0 .. clock' /\ last' \in [Clients -> 0 .. clock'] /\ now' \in [Requests -> 0 .. clock']
    BY DEF Tick, IInv, TypeOK
  <2> QED
    BY <2>1, <2>2, <2>3 DEF Tick, IInv, TypeOK
<1>2. Lag'
  BY LimiterAssumption DEF Tick, IInv, TypeOK, Lag
<1>3. Held'
  <2> SUFFICES ASSUME NEW c \in buckets
               PROVE  /\ tokens[c] + Rate * ((clock + 1) - last[c]) >= 0
                      /\ tokens[c] + Rate * ((clock + 1) - last[c]) >= Least(Burst, fair[c] + Rate)
    BY <1>0 DEF Held
  <2>1. Rate * ((clock + 1) - last[c]) = Rate * (clock - last[c]) + Rate /\ Rate * (clock - last[c]) \in Int
    BY <1>0, OneTick
  <2>2. /\ tokens[c] + Rate * (clock - last[c]) >= 0
        /\ tokens[c] + Rate * (clock - last[c]) >= fair[c]
    BY DEF IInv, Held
  <2> QED
    BY <2>1, <2>2, <1>0, Amounts, LimiterAssumption DEF Least
<1>4. FairCapped'
  BY <1>0, Amounts, LimiterAssumption DEF FairCapped, Least
<1> QED
  BY <1>1, <1>2, <1>3, <1>4 DEF IInv

\* So does a handler that reads the clock.
LEMMA ArriveKeeps ==
  ASSUME IInv, NEW r \in Requests, Arrive(r)
  PROVE  IInv'
<1>1. TypeOK'
  BY LimiterAssumption DEF Arrive, IInv, TypeOK
<1>2. Lag'
  BY LimiterAssumption DEF Arrive, IInv, TypeOK, Lag
<1>3. Held' /\ FairCapped'
  BY DEF Arrive, IInv, Held, FairCapped
<1> QED
  BY <1>1, <1>2, <1>3 DEF IInv

\* So does a handler under the lock.
LEMMA AllowKeeps ==
  ASSUME IInv, NEW r \in Requests, Allow(r)
  PROVE  IInv'
<1> DEFINE c == client[r]  t == now[r]  full == Filled(c, t)  held == buckets \union {c}
<1>1. /\ c \in Clients /\ t \in Int /\ t <= clock /\ t >= 0
      /\ full \in Int /\ full <= Burst /\ full >= -(Rate * MaxLag)
      /\ Rate * (clock - t) \in 0 .. Rate * MaxLag
      /\ full + Rate * (clock - t) >= 0
      /\ full + Rate * (clock - t) >= fair[c]
      /\ c \in buckets'
      /\ buckets' \subseteq held
  BY AllowStep
<1>2. /\ at' = [at EXCEPT ![r] = "idle"] /\ last' = [last EXCEPT ![c] = t]
      /\ clock' = clock /\ client' = client /\ now' = now /\ calls' = calls
      /\ sweep' \in {t, sweep}
      /\ \/ /\ full >= Unit /\ tokens' = [tokens EXCEPT ![c] = full - Unit]
            /\ granted' = [granted EXCEPT ![c] = @ + 1]
            /\ fair' = [fair EXCEPT ![c] = @ - Unit]
         \/ /\ full < Unit /\ tokens' = [tokens EXCEPT ![c] = full]
            /\ granted' = granted /\ fair' = fair
  BY DEF Allow
<1>3. /\ clock \in Nat /\ tokens \in [Clients -> Int] /\ fair \in [Clients -> Int]
      /\ last \in [Clients -> 0 .. clock] /\ at \in [Requests -> {"idle", "called"}]
      /\ sweep \in 0 .. clock /\ granted \in [Clients -> Nat] /\ buckets \subseteq Clients
      /\ \A d \in buckets : tokens[d] \in -(Rate * MaxLag) .. Burst
  BY DEF IInv, TypeOK
<1> HIDE DEF c, t, full, held
<1>4. tokens'[c] \in {full, full - Unit} /\ tokens'[c] >= -(Rate * MaxLag) /\ tokens'[c] <= Burst
  BY <1>1, <1>2, <1>3, Amounts
<1>5. \A d \in Clients \ {c} : tokens'[d] = tokens[d] /\ fair'[d] = fair[d] /\ last'[d] = last[d]
  BY <1>2, <1>3
<1>6. TypeOK'
  <2>1. tokens' \in [Clients -> Int] /\ fair' \in [Clients -> Int] /\ granted' \in [Clients -> Nat]
    BY <1>1, <1>2, <1>3, Amounts
  <2>2. last' \in [Clients -> 0 .. clock'] /\ sweep' \in 0 .. clock'
    BY <1>1, <1>2, <1>3
  <2>3. \A d \in buckets' : tokens'[d] \in -(Rate * MaxLag) .. Burst
    <3> SUFFICES ASSUME NEW d \in buckets' PROVE tokens'[d] \in -(Rate * MaxLag) .. Burst
      OBVIOUS
    <3>1. CASE d = c
      BY <3>1, <1>1, <1>4, Amounts
    <3>2. CASE d # c
      BY <3>2, <1>1, <1>3, <1>5 DEF held
    <3> QED
      BY <3>1, <3>2
  <2>4. buckets' \subseteq Clients
    BY <1>1, <1>3 DEF held
  <2> QED
    BY <2>1, <2>2, <2>3, <2>4, <1>2 DEF IInv, TypeOK
<1>7. Lag'
  BY <1>2, <1>3 DEF IInv, Lag
<1>8. Held'
  <2> SUFFICES ASSUME NEW d \in buckets'
               PROVE  /\ tokens'[d] + Rate * (clock - last'[d]) >= 0
                      /\ tokens'[d] + Rate * (clock - last'[d]) >= fair'[d]
    BY <1>2 DEF Held
  <2>1. CASE d = c
    <3>1. last'[d] = t
      BY <2>1, <1>1, <1>2, <1>3
    <3>2. \/ full >= Unit /\ tokens'[d] = full - Unit /\ fair'[d] = fair[d] - Unit
          \/ tokens'[d] = full /\ fair'[d] = fair[d]
      BY <2>1, <1>1, <1>2, <1>3
    <3>3. fair[d] \in Int
      BY <2>1, <1>1, <1>3
    <3> QED
      BY <2>1, <3>1, <3>2, <3>3, <1>1, Amounts
  <2>2. CASE d # c
    <3>1. d \in buckets /\ d \in Clients
      BY <2>2, <1>1, <1>3 DEF held
    <3> QED
      BY <3>1, <2>2, <1>5 DEF IInv, Held
  <2> QED
    BY <2>1, <2>2
<1>9. FairCapped'
  BY <1>2, <1>3, Amounts DEF IInv, FairCapped
<1> QED
  BY <1>6, <1>7, <1>8, <1>9 DEF IInv

\* IInv is inductive.
LEMMA Inductive == IInv /\ [Next]_vars => IInv'
<1> SUFFICES ASSUME IInv, [Next]_vars PROVE IInv'
  OBVIOUS
<1>1. CASE UNCHANGED vars
  BY <1>1 DEF vars, IInv, TypeOK, Lag, Held, FairCapped
<1>2. CASE Tick
  BY <1>2, TickKeeps
<1>3. ASSUME NEW r \in Requests, Arrive(r) \/ Allow(r)
      PROVE  IInv'
  BY <1>3, ArriveKeeps, AllowKeeps
<1> QED
  BY <1>1, <1>2, <1>3 DEF Next

\* The invariant holds throughout.
LEMMA Invariance == Spec => []IInv
<1> QED
  BY Start, Inductive, PTL DEF Spec

\* Types: a bucket never holds more than the burst, nor owes more than one
\* lag of refill (allow's arithmetic, limiter.go:54-63 and 84).
THEOREM TypeCorrect == Spec => []TypeOK
<1>1. IInv => TypeOK
  BY DEF IInv
<1> QED
  BY <1>1, Invariance, PTL

-----------------------------------------------------------------------------
(* The limiter implements a token bucket. *)

\* A new limiter's buckets are full.
LEMMA BucketStart == Init => Bucket!Init
BY DEF Init, Bucket!Init, Available

\* Time refills every bucket.
LEMMA TickRefills == IInv /\ Tick => Bucket!Refill
<1> SUFFICES ASSUME IInv, Tick PROVE Bucket!Refill
  OBVIOUS
<1>1. ASSUME NEW c \in Clients
      PROVE  Available'[c] = Bucket!Least(Capacity, Available[c] + Rate)
  <2>1. clock \in Int /\ last[c] \in Int /\ tokens[c] \in Int
    BY DEF IInv, TypeOK
  <2>2. Rate * ((clock + 1) - last[c]) = Rate * (clock - last[c]) + Rate /\ Rate * (clock - last[c]) \in Int
    BY <2>1, OneTick
  <2>3. Available'[c] = IF c \in buckets THEN Least(Capacity, tokens[c] + Rate * ((clock + 1) - last[c]))
                                        ELSE Capacity
    BY DEF Available, Tick, Capacity, Burst
  <2>4. Available[c] = IF c \in buckets THEN Least(Capacity, tokens[c] + Rate * (clock - last[c]))
                                       ELSE Capacity
    BY DEF Available
  <2> QED
    BY <2>1, <2>2, <2>3, <2>4, Amounts, LimiterAssumption DEF Least, Bucket!Least
<1>2. Available' = [c \in Clients |-> Available'[c]]
  BY DEF Available
<1>3. granted' = granted
  BY DEF Tick
<1> QED
  BY <1>1, <1>2, <1>3 DEF Bucket!Refill

\* Under the lock one bucket loses a token or more, or just loses, and no
\* other bucket changes: the swept ones were full.
LEMMA AllowGrants ==
  ASSUME IInv, NEW r \in Requests, Allow(r)
  PROVE  \E c \in Clients : Bucket!Grant(c) \/ Bucket!Lose(c)
<1> DEFINE c == client[r]  t == now[r]  full == Filled(c, t)  held == buckets \union {c}
<1>1. /\ c \in Clients /\ t \in Int /\ t <= clock /\ t >= 0
      /\ full \in Int /\ full <= Burst
      /\ Rate * (clock - t) \in 0 .. Rate * MaxLag
      /\ full + Rate * (clock - t) >= 0
      /\ full + Rate * (clock - t) <= Available[c]
      /\ c \in buckets'
      /\ \A d \in Clients \ {c} : (d \in buckets') => (d \in buckets)
      /\ \A d \in buckets : d \notin buckets' => d # c /\ Available[d] = Capacity
  BY AllowStep
<1>2. /\ last' = [last EXCEPT ![c] = t] /\ clock' = clock
      /\ \/ /\ full >= Unit /\ tokens' = [tokens EXCEPT ![c] = full - Unit]
            /\ granted' = [granted EXCEPT ![c] = @ + 1]
         \/ /\ full < Unit /\ tokens' = [tokens EXCEPT ![c] = full]
            /\ granted' = granted
  BY DEF Allow
<1>3. /\ clock \in Nat /\ tokens \in [Clients -> Int] /\ last \in [Clients -> 0 .. clock]
      /\ buckets \subseteq Clients /\ granted \in [Clients -> Nat]
      /\ \A d \in Clients : tokens[d] \in Int /\ last[d] \in Int
  BY DEF IInv, TypeOK
<1>4. \A d \in Clients :
        Available[d] = IF d \in buckets THEN Least(Capacity, tokens[d] + Rate * (clock - last[d]))
                                       ELSE Capacity
  BY DEF Available
<1>5. \A d \in Clients :
        Available'[d] = IF d \in buckets' THEN Least(Capacity, tokens'[d] + Rate * (clock - last'[d]))
                                         ELSE Capacity
  BY <1>2 DEF Available, Capacity, Burst
<1>6. Available[c] \in Int
  <2>1. Rate * (clock - last[c]) \in Int
    BY <1>1, <1>3, Refilled
  <2> QED
    BY <1>1, <1>3, <1>4, <2>1, Amounts DEF Least
<1> HIDE DEF c, t, full, held
<1>7. \A d \in Clients \ {c} : Available'[d] = Available[d]
  <2> SUFFICES ASSUME NEW d \in Clients \ {c} PROVE Available'[d] = Available[d]
    OBVIOUS
  <2>1. tokens'[d] = tokens[d] /\ last'[d] = last[d]
    BY <1>2, <1>3
  <2>2. CASE d \in buckets /\ d \notin buckets'
    BY <2>2, <1>1, <1>5
  <2>3. CASE d \in buckets <=> d \in buckets'
    BY <2>1, <2>3, <1>4, <1>5
  <2> QED
    BY <2>2, <2>3, <1>1
<1>8. Available'[c] = tokens'[c] + Rate * (clock - t) /\ tokens'[c] \in {full, full - Unit}
  <2>1. last'[c] = t /\ tokens'[c] \in {full, full - Unit}
    BY <1>1, <1>2, <1>3
  <2>2. Available'[c] = Least(Capacity, tokens'[c] + Rate * (clock - t))
    BY <2>1, <1>1, <1>5
  <2>3. tokens'[c] \in Int /\ tokens'[c] <= Burst
    BY <2>1, <1>1, Amounts
  <2> QED
    BY <2>1, <2>2, <2>3, <1>1, Amounts DEF Least
<1>9. Available' = [Available EXCEPT ![c] = Available'[c]]
  <2>1. Available = [d \in Clients |-> Available[d]] /\ Available' = [d \in Clients |-> Available'[d]]
    BY DEF Available
  <2> QED
    BY <2>1, <1>7, <1>1
<1>10. CASE full >= Unit
  <2>1. tokens'[c] = full - Unit /\ granted' = [granted EXCEPT ![c] = @ + 1]
    BY <1>10, <1>1, <1>2, <1>3, Amounts
  <2>2. Available'[c] \in 0 .. Available[c] - Unit /\ Available[c] >= Unit
    BY <2>1, <1>10, <1>1, <1>6, <1>8, Amounts
  <2>3. Bucket!Grant(c)
    BY <2>1, <2>2, <1>9 DEF Bucket!Grant
  <2> QED
    BY <2>3, <1>1
<1>11. CASE full < Unit
  <2>1. tokens'[c] = full /\ granted' = granted
    BY <1>11, <1>1, <1>2, <1>3, Amounts
  <2>2. Available'[c] \in 0 .. Available[c]
    BY <2>1, <1>1, <1>6, <1>8, Amounts
  <2>3. Bucket!Lose(c)
    BY <2>1, <2>2, <1>9 DEF Bucket!Lose
  <2> QED
    BY <2>3, <1>1
<1> QED
  BY <1>1, <1>10, <1>11, Amounts

\* Every step of the limiter is a step of the token bucket, or none.
LEMMA BucketStep == IInv /\ [Next]_vars => [Bucket!Next]_<<Available, granted>>
<1> SUFFICES ASSUME IInv, [Next]_vars PROVE [Bucket!Next]_<<Available, granted>>
  OBVIOUS
<1>1. CASE UNCHANGED vars
  BY <1>1 DEF vars, Available
<1>2. CASE Tick
  BY <1>2, TickRefills DEF Bucket!Next
<1>3. ASSUME NEW r \in Requests, Arrive(r)
      PROVE  UNCHANGED <<Available, granted>>
  BY <1>3 DEF Arrive, Available
<1>4. ASSUME NEW r \in Requests, Allow(r)
      PROVE  Bucket!Next
  BY <1>4, AllowGrants DEF Bucket!Next
<1> QED
  BY <1>1, <1>2, <1>3, <1>4 DEF Next

\* The limiter is a token bucket per client (limiter.go:9-10), whatever order
\* the handlers take its lock in (limiter.go:49-51) and whatever is swept.
THEOREM LimiterIsTokenBucket == Spec => IsTokenBucket
<1> QED
  BY BucketStart, BucketStep, Invariance, PTL DEF Spec, IsTokenBucket, Bucket!Spec

-----------------------------------------------------------------------------
\* A 429 is answered (limiter.go:80) only to a client that used up its burst.
THEOREM RefusesOnlyWhenDry == Spec => RefusedOnlyWhenDry
<1> DEFINE Dry == \A r \in Requests :
                    Refused(r) => fair[client[r]] < Unit + Rate * (clock - now[r])
<1>1. IInv /\ [Next]_vars => [Dry]_vars
  <2> SUFFICES ASSUME IInv, Next, NEW r \in Requests, Refused(r)
               PROVE  fair[client[r]] < Unit + Rate * (clock - now[r])
    OBVIOUS
  <2>1. Allow(r)
    <3>1. ASSUME NEW q \in Requests, q # r, Arrive(q) \/ Allow(q)
          PROVE  FALSE
      BY <3>1 DEF Arrive, Allow, Refused, IInv, TypeOK
    <3>2. ~Tick
      BY DEF Tick, Refused
    <3>3. ~Arrive(r)
      BY DEF Arrive, Refused
    <3> QED
      BY <3>1, <3>2, <3>3 DEF Next
  <2>2. Filled(client[r], now[r]) < Unit
    <3>1. client[r] \in Clients /\ granted \in [Clients -> Nat]
      BY DEF IInv, TypeOK
    <3>2. granted' # [granted EXCEPT ![client[r]] = @ + 1]
      BY <3>1 DEF Refused
    <3> QED
      BY <2>1, <3>2 DEF Allow
  <2> DEFINE full == Filled(client[r], now[r])  more == Rate * (clock - now[r])
  <2>3. full \in Int /\ more \in 0 .. Rate * MaxLag /\ full + more >= fair[client[r]]
    BY <2>1, AllowStep
  <2>4. fair[client[r]] \in Int
    BY DEF IInv, TypeOK
  <2> HIDE DEF full, more
  <2> QED
    BY <2>2, <2>3, <2>4, Amounts DEF full, more
<1> QED
  BY <1>1, Invariance, PTL DEF Spec, RefusedOnlyWhenDry
=============================================================================
