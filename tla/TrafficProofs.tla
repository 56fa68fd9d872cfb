--------------------------- MODULE TrafficProofs ---------------------------
(***************************************************************************)
(* Proofs about traffic accounting: the invariants of module Traffic hold  *)
(* for any number of hosts, handlers, reloads, failures and restarts.      *)
(***************************************************************************)
EXTENDS Traffic, FiniteSetTheorems, TLAPS

\* The types without the bound below of the active requests.
Typed ==
  /\ table \subseteq Hosts /\ stat \subseteq Hosts
  /\ gen \in [Hosts -> Nat]
  /\ count \in [Hosts -> Counts] /\ active \in [Hosts -> Int]
  /\ upd \in {"idle", "swapped", "pruned"}
  /\ at \in [Requests -> {"idle", "routed", "open"}]
  /\ host \in [Requests -> Hosts] /\ obj \in [Requests -> Nat]
  /\ todo \subseteq Hosts
  /\ snap \in [Hosts -> Counts] /\ last \in [Hosts -> Counts]
  /\ rows \in [Hosts -> Counts] /\ made \in [Hosts -> Counts]
  /\ lost \in [Hosts -> Counts]
  /\ counts \in 0 .. MaxCounts /\ updates \in 0 .. MaxUpdates
  /\ errors \in 0 .. MaxErrors /\ kills \in 0 .. MaxKills
  /\ reset \subseteq Hosts /\ ghosts \subseteq Hosts

\* Counters not in the map are zero; no handler holds counters yet to be made.
Mapped ==
  /\ \A h \in Hosts \ stat : count[h] = Zero /\ active[h] = 0
  /\ \A r \in Requests : at[r] = "open" => obj[r] <= gen[host[r]]

Positive(n) == IF n > 0 THEN n ELSE 0

\* What a flush may still add for h, the one under way and the next.
Ahead(h, k) ==
  IF h \in todo
  THEN Positive(snap[h][k] - last[h][k]) + Positive(count[h][k] - snap[h][k])
  ELSE Positive(count[h][k] - last[h][k])

Once == \A h \in Hosts : \A k \in Kind : rows[h][k] + Ahead(h, k) <= made[h][k]

\* A host no reload removed: who was routed to it finds it in the table, who
\* was counted holds the counters in the map, and a snapshot lies between the
\* last flush and the counters.
Kept ==
  /\ \A r \in Requests : host[r] \notin reset =>
       /\ at[r] # "idle" => host[r] \in table
       /\ at[r] = "open" => Current(r)
  /\ \A h \in Hosts \ (table \union reset) : count[h] = Zero
  /\ \A h \in todo \ reset : \A k \in Kind :
       last[h][k] <= snap[h][k] /\ snap[h][k] <= count[h][k]

Step ==
  /\ upd # "swapped" => stat \subseteq table \union ghosts
  /\ upd = "idle" => table \subseteq stat

IInv == Typed /\ Mapped /\ ActiveExact /\ Once /\ Kept /\ NothingLost /\ Step

-----------------------------------------------------------------------------
(* Counters. *)

\* One more of one kind of one host, and nothing else changes.
LEMMA AddedIs ==
  ASSUME NEW f \in [Hosts -> Counts], NEW h \in Hosts, NEW k \in Kind
  PROVE  /\ Added(f, h, k) \in [Hosts -> Counts]
         /\ \A g \in Hosts : \A j \in Kind :
              Added(f, h, k)[g][j] = IF g = h /\ j = k THEN f[g][j] + 1 ELSE f[g][j]
         /\ \A g \in Hosts \ {h} : Added(f, h, k)[g] = f[g]
<1>1. f[h] \in Counts /\ f[h][k] + 1 \in Nat
  BY DEF Counts
<1>2. [f[h] EXCEPT ![k] = @ + 1] \in Counts
  BY <1>1 DEF Counts
<1>3. Added(f, h, k) = [f EXCEPT ![h] = [f[h] EXCEPT ![k] = @ + 1]]
  BY DEF Added
<1>4. Added(f, h, k)[h] = [f[h] EXCEPT ![k] = @ + 1] /\ \A g \in Hosts \ {h} : Added(f, h, k)[g] = f[g]
  BY <1>3
<1>5. \A j \in Kind : Added(f, h, k)[h][j] = IF j = k THEN f[h][j] + 1 ELSE f[h][j]
  BY <1>1, <1>4 DEF Counts
<1> QED
  BY <1>2, <1>3, <1>4, <1>5

\* Zero counters.
LEMMA ZeroIs ==
  /\ Zero \in Counts /\ (\A k \in Kind : Zero[k] = 0)
  /\ Nothing \in [Hosts -> Counts] /\ \A h \in Hosts : Nothing[h] = Zero
BY DEF Zero, Counts, Nothing

\* Counters are numbers.
LEMMA Numbers ==
  ASSUME Typed
  PROVE  \A h \in Hosts : \A k \in Kind :
           /\ count[h][k] \in Nat /\ snap[h][k] \in Nat /\ last[h][k] \in Nat
           /\ rows[h][k] \in Nat /\ made[h][k] \in Nat /\ lost[h][k] \in Nat
BY DEF Typed, Counts

\* What a flush adds.
LEMMA DeltaIs ==
  ASSUME Typed, NEW h \in Hosts
  PROVE  /\ Delta(h) \in Counts
         /\ \A k \in Kind : Delta(h)[k] = Positive(snap[h][k] - last[h][k])
<1>1. \A k \in Kind : snap[h][k] \in Nat /\ last[h][k] \in Nat
  BY Numbers
<1> QED
  BY <1>1 DEF Delta, Counts, Positive

\* A counted request: one more made and counted, of one host.
LEMMA Counting ==
  ASSUME Typed, NEW r \in Requests, Count(r)
  PROVE  /\ host[r] \in Hosts
         /\ \A g \in Hosts : \A j \in Kind :
              /\ made'[g][j] = IF g = host[r] /\ j = "req" THEN made[g][j] + 1 ELSE made[g][j]
              /\ count'[g][j] = IF g = host[r] /\ j = "req" THEN count[g][j] + 1 ELSE count[g][j]
         /\ \A g \in Hosts \ {host[r]} : count'[g] = count[g]
<1>1. host[r] \in Hosts /\ "req" \in Kind /\ count \in [Hosts -> Counts] /\ made \in [Hosts -> Counts]
  BY DEF Typed, Kind
<1>2. count' = Added(count, host[r], "req") /\ made' = Added(made, host[r], "req")
  BY DEF Count
<1>3. /\ \A g \in Hosts : \A j \in Kind :
           Added(count, host[r], "req")[g][j] = IF g = host[r] /\ j = "req" THEN count[g][j] + 1 ELSE count[g][j]
      /\ \A g \in Hosts \ {host[r]} : Added(count, host[r], "req")[g] = count[g]
  BY <1>1, AddedIs
<1>4. \A g \in Hosts : \A j \in Kind :
        Added(made, host[r], "req")[g][j] = IF g = host[r] /\ j = "req" THEN made[g][j] + 1 ELSE made[g][j]
  BY <1>1, AddedIs
<1> QED
  BY <1>1, <1>2, <1>3, <1>4

\* A moved byte: one more made, and one more counted where r's counters are
\* the ones in the map.
LEMMA Moving ==
  ASSUME Typed, NEW r \in Requests, Move(r)
  PROVE  /\ host[r] \in Hosts
         /\ \A g \in Hosts : \A j \in Kind :
              /\ made'[g][j] = IF g = host[r] /\ j = "bytes" THEN made[g][j] + 1 ELSE made[g][j]
              /\ count'[g][j] = IF Current(r) /\ g = host[r] /\ j = "bytes" THEN count[g][j] + 1 ELSE count[g][j]
         /\ \A g \in Hosts : g # host[r] \/ ~Current(r) => count'[g] = count[g]
<1>1. host[r] \in Hosts /\ "bytes" \in Kind /\ count \in [Hosts -> Counts] /\ made \in [Hosts -> Counts]
  BY DEF Typed, Kind
<1>2. made' = Added(made, host[r], "bytes")
  BY DEF Move
<1>3. \A g \in Hosts : \A j \in Kind :
        Added(made, host[r], "bytes")[g][j] = IF g = host[r] /\ j = "bytes" THEN made[g][j] + 1 ELSE made[g][j]
  BY <1>1, AddedIs
<1>4. /\ \A g \in Hosts : \A j \in Kind :
           Added(count, host[r], "bytes")[g][j] = IF g = host[r] /\ j = "bytes" THEN count[g][j] + 1 ELSE count[g][j]
      /\ \A g \in Hosts \ {host[r]} : Added(count, host[r], "bytes")[g] = count[g]
  BY <1>1, AddedIs
<1>5. CASE Current(r)
  <2>1. count' = Added(count, host[r], "bytes")
    BY <1>5 DEF Move
  <2> QED
    BY <1>1, <1>2, <1>3, <1>4, <1>5, <2>1
<1>6. CASE ~Current(r)
  <2>1. count' = count
    BY <1>6 DEF Move
  <2> QED
    BY <1>1, <1>2, <1>3, <1>6, <2>1
<1> QED
  BY <1>5, <1>6

\* Initially nothing is counted.
LEMMA Start == Init => IInv
<1> SUFFICES ASSUME Init PROVE IInv
  OBVIOUS
<1>1. Typed
  BY ZeroIs, TrafficAssumption DEF Init, Typed
<1>2. Mapped
  BY ZeroIs DEF Init, Mapped
<1>3. ActiveExact
  <2>1. \A h \in Hosts : InFlight(h) = {}
    BY DEF Init, InFlight
  <2> QED
    BY <2>1, FS_EmptySet DEF Init, ActiveExact
<1>4. Once
  BY ZeroIs DEF Init, Once, Ahead, Positive
<1>5. Kept
  BY ZeroIs DEF Init, Kept
<1>6. NothingLost
  BY ZeroIs DEF Init, NothingLost
<1>7. Step
  BY DEF Init, Step
<1> QED
  BY <1>1, <1>2, <1>3, <1>4, <1>5, <1>6, <1>7 DEF IInv

-----------------------------------------------------------------------------
(* Types. *)

\* Every step keeps the types; lost counts are what is not in the store.
LEMMA TypedStep == IInv /\ [Next]_vars => Typed'
<1> SUFFICES ASSUME IInv, [Next]_vars PROVE Typed'
  OBVIOUS
<1> USE DEF IInv
<1>1. ASSUME NEW hosts \in SUBSET Hosts, SwapTo(hosts) PROVE Typed'
  BY <1>1, TrafficAssumption DEF SwapTo, Typed, mapVars, handlerVars, flushVars
<1>2. CASE prune
  BY <1>2, ZeroIs DEF prune, Typed, handlerVars, flushVars, bounds
<1>3. CASE Seed
  BY <1>3 DEF Seed, hostAdds, Typed, handlerVars, flushVars, bounds, history
<1>4. ASSUME NEW r \in Requests, Route(r) PROVE Typed'
  BY <1>4 DEF Route, Typed, mapVars, flushVars, bounds, history
<1>5. ASSUME NEW r \in Requests, Refuse(r) PROVE Typed'
  BY <1>5 DEF Refuse, Typed, mapVars, flushVars, bounds, history
<1>6. ASSUME NEW r \in Requests, Count(r) PROVE Typed'
  <2>1. host[r] \in Hosts /\ "req" \in Kind
    BY DEF Typed, Kind
  <2>2. count' \in [Hosts -> Counts] /\ made' \in [Hosts -> Counts]
    BY <1>6, <2>1, AddedIs DEF Count, Typed
  <2>3. gen' \in [Hosts -> Nat] /\ obj' \in [Requests -> Nat] /\ stat' \subseteq Hosts
    BY <1>6, <2>1 DEF Count, hostAdds, Typed
  <2>4. active' \in [Hosts -> Int] /\ ghosts' \subseteq Hosts /\ at' \in [Requests -> {"idle", "routed", "open"}]
    BY <1>6, <2>1 DEF Count, Typed
  <2>5. counts' \in 0 .. MaxCounts
    BY <1>6, TrafficAssumption DEF Count, Typed
  <2> QED
    BY <1>6, <2>2, <2>3, <2>4, <2>5 DEF Count, Typed, flushVars
<1>7. ASSUME NEW r \in Requests, Move(r) PROVE Typed'
  <2>1. host[r] \in Hosts /\ "bytes" \in Kind
    BY DEF Typed, Kind
  <2>2. count' \in [Hosts -> Counts] /\ made' \in [Hosts -> Counts]
    BY <1>7, <2>1, AddedIs DEF Move, Typed
  <2> QED
    BY <1>7, <2>2, TrafficAssumption DEF Move, Typed, handlerVars, flushVars
<1>8. ASSUME NEW r \in Requests, Finish(r) PROVE Typed'
  BY <1>8 DEF Finish, Typed, flushVars, bounds, history
<1>9. CASE snapshot
  BY <1>9, ZeroIs DEF snapshot, Typed, mapVars, handlerVars, bounds, history
<1>10. ASSUME NEW h \in Hosts, FlushHost(h) PROVE Typed'
  <2>1. rows' \in [Hosts -> Counts]
    <3>1. Delta(h) \in Counts /\ rows[h] \in Counts
      BY DeltaIs DEF Typed
    <3>2. [k \in Kind |-> rows[h][k] + Delta(h)[k]] \in Counts
      BY <3>1 DEF Counts
    <3> QED
      BY <1>10, <3>2 DEF FlushHost, Typed
  <2> QED
    BY <1>10, <2>1, ZeroIs DEF FlushHost, Advance, NextHost, Typed, mapVars, handlerVars, bounds, history
<1>11. ASSUME NEW h \in Hosts, FlushError(h) PROVE Typed'
  BY <1>11, ZeroIs, TrafficAssumption DEF FlushError, KeepDelta, NextHost, Typed, mapVars, handlerVars, history
<1>12. CASE Kill
  <2>1. lost' \in [Hosts -> Counts]
    <3>1. \A h \in Hosts : \A k \in Kind : made[h][k] - rows[h][k] \in Nat
      BY Numbers DEF Once, Ahead, Positive
    <3> QED
      BY <1>12, <3>1 DEF Kill, Counts
  <2> QED
    BY <1>12, <2>1, ZeroIs, TrafficAssumption DEF Kill, Typed
<1>13. CASE UNCHANGED vars
  BY <1>13 DEF vars, Typed, mapVars, handlerVars, flushVars, bounds, history
<1> QED
  BY <1>1, <1>2, <1>3, <1>4, <1>5, <1>6, <1>7, <1>8, <1>9, <1>10, <1>11, <1>12, <1>13
  DEF Next, Update, Handler, Flush

-----------------------------------------------------------------------------
(* The counter map. *)

\* Counters that leave the map are gone, and new ones are new.
LEMMA MappedStep == IInv /\ Typed' /\ [Next]_vars => Mapped'
<1> SUFFICES ASSUME IInv, Typed', [Next]_vars PROVE Mapped'
  OBVIOUS
<1> USE DEF IInv
<1>1. ASSUME NEW hosts \in SUBSET Hosts, SwapTo(hosts) PROVE Mapped'
  BY <1>1 DEF SwapTo, Mapped, Typed, mapVars, handlerVars, flushVars, bounds, history
<1>2. CASE prune
  BY <1>2, ZeroIs DEF prune, Mapped, Typed, mapVars, handlerVars, flushVars, bounds, history
<1>3. CASE Seed
  BY <1>3 DEF Seed, hostAdds, Mapped, Typed, mapVars, handlerVars, flushVars, bounds, history
<1>4. ASSUME NEW r \in Requests, Route(r) PROVE Mapped'
  BY <1>4 DEF Route, Mapped, Typed, mapVars, handlerVars, flushVars, bounds, history
<1>5. ASSUME NEW r \in Requests, Refuse(r) PROVE Mapped'
  BY <1>5 DEF Refuse, Mapped, Typed, mapVars, handlerVars, flushVars, bounds, history
<1>6. ASSUME NEW r \in Requests, Count(r) PROVE Mapped'
  <2>1. host[r] \in Hosts /\ "req" \in Kind
    BY DEF Typed, Kind
  <2>2. \A g \in Hosts \ {host[r]} : count'[g] = count[g] /\ active'[g] = active[g]
    BY <1>6, <2>1, Counting DEF Count, Typed
  <2>3. stat' = stat \union {host[r]} /\ \A g \in Hosts : gen[g] <= gen'[g]
    BY <1>6, <2>1 DEF Count, hostAdds, Typed
  <2>4. at' = [at EXCEPT ![r] = "open"] /\ obj' = [obj EXCEPT ![r] = gen'[host[r]]] /\ host' = host
    BY <1>6 DEF Count
  <2>5. \A q \in Requests : at'[q] = "open" => obj'[q] <= gen'[host'[q]]
    BY <2>1, <2>3, <2>4 DEF Mapped, Typed
  <2>6. \A g \in Hosts \ stat' : count'[g] = Zero /\ active'[g] = 0
    BY <2>2, <2>3 DEF Mapped
  <2> QED
    BY <2>5, <2>6 DEF Mapped
<1>7. ASSUME NEW r \in Requests, Move(r) PROVE Mapped'
  <2>1. host[r] \in Hosts /\ "bytes" \in Kind
    BY DEF Typed, Kind
  <2>2. \A g \in Hosts \ stat : count'[g] = count[g]
    BY <1>7, <2>1, Moving DEF Current
  <2> QED
    BY <1>7, <2>2 DEF Move, Mapped, handlerVars
<1>8. ASSUME NEW r \in Requests, Finish(r) PROVE Mapped'
  BY <1>8 DEF Finish, Done, Current, Mapped, Typed
<1>9. CASE snapshot
  BY <1>9 DEF snapshot, Mapped, Typed, mapVars, handlerVars, flushVars, bounds, history
<1>10. ASSUME NEW h \in Hosts, FlushHost(h) PROVE Mapped'
  BY <1>10 DEF FlushHost, Mapped, Typed, mapVars, handlerVars, flushVars, bounds, history
<1>11. ASSUME NEW h \in Hosts, FlushError(h) PROVE Mapped'
  BY <1>11 DEF FlushError, Mapped, Typed, mapVars, handlerVars, flushVars, bounds, history
<1>12. CASE Kill
  BY <1>12, ZeroIs DEF Kill, Mapped, Typed, mapVars, handlerVars, flushVars, bounds, history
<1>13. CASE UNCHANGED vars
  BY <1>13 DEF vars, Mapped, mapVars, handlerVars, flushVars, bounds, history
<1> QED
  BY <1>1, <1>2, <1>3, <1>4, <1>5, <1>6, <1>7, <1>8, <1>9, <1>10, <1>11, <1>12, <1>13
  DEF Next, Update, Handler, Flush

\* The map follows the table.
LEMMA StepStep == IInv /\ Typed' /\ [Next]_vars => Step'
<1> SUFFICES ASSUME IInv, Typed', [Next]_vars PROVE Step'
  OBVIOUS
<1> USE DEF IInv
<1>1. ASSUME NEW hosts \in SUBSET Hosts, SwapTo(hosts) PROVE Step'
  BY <1>1 DEF SwapTo, Step, Typed, mapVars, handlerVars, flushVars, bounds, history
<1>2. CASE prune
  BY <1>2 DEF prune, Step, Typed, mapVars, handlerVars, flushVars, bounds, history
<1>3. CASE Seed
  BY <1>3 DEF Seed, hostAdds, Step, Typed, mapVars, handlerVars, flushVars, bounds, history
<1>4. ASSUME NEW r \in Requests, Route(r) PROVE Step'
  BY <1>4 DEF Route, Step, Typed, mapVars, handlerVars, flushVars, bounds, history
<1>5. ASSUME NEW r \in Requests, Refuse(r) PROVE Step'
  BY <1>5 DEF Refuse, Step, Typed, mapVars, handlerVars, flushVars, bounds, history
<1>6. ASSUME NEW r \in Requests, Count(r) PROVE Step'
  BY <1>6 DEF Count, hostAdds, Step, Typed, mapVars, handlerVars, flushVars, bounds, history
<1>7. ASSUME NEW r \in Requests, Move(r) PROVE Step'
  BY <1>7 DEF Move, Step, Typed, mapVars, handlerVars, flushVars, bounds, history
<1>8. ASSUME NEW r \in Requests, Finish(r) PROVE Step'
  BY <1>8 DEF Finish, Step, Typed, mapVars, handlerVars, flushVars, bounds, history
<1>9. CASE snapshot
  BY <1>9 DEF snapshot, Step, Typed, mapVars, handlerVars, flushVars, bounds, history
<1>10. ASSUME NEW h \in Hosts, FlushHost(h) PROVE Step'
  BY <1>10 DEF FlushHost, Step, Typed, mapVars, handlerVars, flushVars, bounds, history
<1>11. ASSUME NEW h \in Hosts, FlushError(h) PROVE Step'
  BY <1>11 DEF FlushError, Step, Typed, mapVars, handlerVars, flushVars, bounds, history
<1>12. CASE Kill
  BY <1>12 DEF Kill, Step, Typed, mapVars, handlerVars, flushVars, bounds, history
<1>13. CASE UNCHANGED vars
  BY <1>13 DEF vars, Step, mapVars, handlerVars, flushVars, bounds, history
<1> QED
  BY <1>1, <1>2, <1>3, <1>4, <1>5, <1>6, <1>7, <1>8, <1>9, <1>10, <1>11, <1>12, <1>13
  DEF Next, Update, Handler, Flush

-----------------------------------------------------------------------------
(* The store. *)

\* A flush adds what the last one did not, whatever the counters did meanwhile.
LEMMA OnceStep == IInv /\ Typed' /\ [Next]_vars => Once'
<1> SUFFICES ASSUME IInv, Typed', [Next]_vars PROVE Once'
  OBVIOUS
<1> USE DEF IInv
<1>1. ASSUME NEW hosts \in SUBSET Hosts, SwapTo(hosts) PROVE Once'
  BY <1>1 DEF SwapTo, Once, Ahead, mapVars, handlerVars, flushVars, bounds, history
<1>2. CASE prune
  <2>1. \A h \in Hosts : \A k \in Kind : count'[h][k] \in {0, count[h][k]}
    BY <1>2, ZeroIs DEF prune
  <2>2. todo' = todo /\ snap' = snap /\ last' = last /\ rows' = rows /\ made' = made
    BY <1>2 DEF prune, flushVars
  <2>3. \A h \in Hosts : \A k \in Kind : Ahead(h, k)' <= Ahead(h, k)
    BY <2>1, <2>2, Numbers DEF Ahead, Positive
  <2>4. \A h \in Hosts : \A k \in Kind : Ahead(h, k) \in Nat /\ Ahead(h, k)' \in Nat
    BY <2>1, <2>2, Numbers DEF Ahead, Positive
  <2> QED
    BY <2>2, <2>3, <2>4, Numbers DEF Once
<1>3. CASE Seed
  BY <1>3 DEF Seed, Once, Ahead, mapVars, handlerVars, flushVars, bounds, history
<1>4. ASSUME NEW r \in Requests, Route(r) PROVE Once'
  BY <1>4 DEF Route, Once, Ahead, mapVars, handlerVars, flushVars, bounds, history
<1>5. ASSUME NEW r \in Requests, Refuse(r) PROVE Once'
  BY <1>5 DEF Refuse, Once, Ahead, mapVars, handlerVars, flushVars, bounds, history
<1>6. ASSUME NEW r \in Requests, Count(r) PROVE Once'
  <2>1. host[r] \in Hosts /\ "req" \in Kind
    BY DEF Typed, Kind
  <2>2. todo' = todo /\ snap' = snap /\ last' = last /\ rows' = rows
    BY <1>6 DEF Count, flushVars
  <2>3. \A h \in Hosts : \A k \in Kind :
          \/ made'[h][k] = made[h][k] /\ count'[h][k] = count[h][k]
          \/ made'[h][k] = made[h][k] + 1 /\ count'[h][k] \in {count[h][k], count[h][k] + 1}
    BY <1>6, Counting
  <2>4. \A h \in Hosts : \A k \in Kind : rows[h][k] + Ahead(h, k) <= made[h][k]
    BY DEF Once
  <2> QED
    BY <2>2, <2>3, <2>4, Numbers DEF Once, Ahead, Positive
<1>7. ASSUME NEW r \in Requests, Move(r) PROVE Once'
  <2>1. host[r] \in Hosts /\ "bytes" \in Kind
    BY DEF Typed, Kind
  <2>2. todo' = todo /\ snap' = snap /\ last' = last /\ rows' = rows
    BY <1>7 DEF Move, flushVars
  <2>3. \A h \in Hosts : \A k \in Kind :
          \/ made'[h][k] = made[h][k] /\ count'[h][k] = count[h][k]
          \/ made'[h][k] = made[h][k] + 1 /\ count'[h][k] \in {count[h][k], count[h][k] + 1}
    BY <1>7, Moving
  <2>4. \A h \in Hosts : \A k \in Kind : rows[h][k] + Ahead(h, k) <= made[h][k]
    BY DEF Once
  <2> QED
    BY <2>2, <2>3, <2>4, Numbers DEF Once, Ahead, Positive
<1>8. ASSUME NEW r \in Requests, Finish(r) PROVE Once'
  BY <1>8 DEF Finish, Once, Ahead, mapVars, handlerVars, flushVars, bounds, history
<1>9. CASE snapshot
  <2>1. \A h \in Hosts : h \in todo' => snap'[h] = count[h]
    BY <1>9 DEF snapshot
  <2>2. count' = count /\ last' = last /\ rows' = rows /\ made' = made /\ todo = {}
    BY <1>9 DEF snapshot, mapVars, history
  <2> QED
    BY <2>1, <2>2, Numbers DEF Once, Ahead, Positive
<1>10. ASSUME NEW h \in Hosts, FlushHost(h) PROVE Once'
  <2>1. count' = count /\ made' = made /\ todo' = todo \ {h} /\ h \in todo
    BY <1>10 DEF FlushHost, Advance, NextHost, mapVars, history
  <2>2. \A g \in Hosts \ {h} : snap'[g] = snap[g] /\ last'[g] = last[g] /\ rows'[g] = rows[g]
    BY <1>10 DEF FlushHost, Advance, NextHost, Typed
  <2>3. last'[h] = snap[h] /\ \A k \in Kind : rows'[h][k] = rows[h][k] + Positive(snap[h][k] - last[h][k])
    BY <1>10, DeltaIs DEF FlushHost, Advance, Typed
  <2>4. \A g \in Hosts \ {h} : \A k \in Kind : rows'[g][k] + Ahead(g, k)' <= made'[g][k]
    BY <2>1, <2>2 DEF Once, Ahead
  <2>5. \A k \in Kind : rows'[h][k] + Ahead(h, k)' <= made'[h][k]
    BY <2>1, <2>3, Numbers DEF Once, Ahead, Positive
  <2> QED
    BY <2>4, <2>5 DEF Once
<1>11. ASSUME NEW h \in Hosts, FlushError(h) PROVE Once'
  <2>1. count' = count /\ made' = made /\ todo' = todo \ {h} /\ h \in todo /\ last' = last /\ rows' = rows
    BY <1>11 DEF FlushError, KeepDelta, NextHost, mapVars, history
  <2>2. \A g \in Hosts \ {h} : snap'[g] = snap[g]
    BY <1>11 DEF FlushError, KeepDelta, NextHost, Typed
  <2>3. \A g \in Hosts \ {h} : \A k \in Kind : rows'[g][k] + Ahead(g, k)' <= made'[g][k]
    BY <2>1, <2>2 DEF Once, Ahead
  <2>4. \A k \in Kind : rows'[h][k] + Ahead(h, k)' <= made'[h][k]
    BY <2>1, Numbers DEF Once, Ahead, Positive
  <2> QED
    BY <2>3, <2>4 DEF Once
<1>12. CASE Kill
  <2>1. todo' = {} /\ rows' = rows /\ made' = made /\ count' = Nothing /\ last' = Nothing
    BY <1>12 DEF Kill
  <2>2. \A h \in Hosts : \A k \in Kind : Ahead(h, k)' = 0
    BY <2>1, ZeroIs DEF Ahead, Positive
  <2> QED
    BY <2>1, <2>2, Numbers DEF Once, Ahead, Positive
<1>13. CASE UNCHANGED vars
  BY <1>13 DEF vars, Once, Ahead, mapVars, handlerVars, flushVars, bounds, history
<1> QED
  BY <1>1, <1>2, <1>3, <1>4, <1>5, <1>6, <1>7, <1>8, <1>9, <1>10, <1>11, <1>12, <1>13
  DEF Next, Update, Handler, Flush

\* Handlers of a host that stays keep its counters.
LEMMA KeptStep == IInv /\ Typed' /\ [Next]_vars => Kept'
<1> SUFFICES ASSUME IInv, Typed', [Next]_vars PROVE Kept'
  OBVIOUS
<1> USE DEF IInv
<1>1. ASSUME NEW hosts \in SUBSET Hosts, SwapTo(hosts) PROVE Kept'
  BY <1>1 DEF SwapTo, Kept, Current, Typed, mapVars, handlerVars, flushVars, bounds, history
<1>2. CASE prune
  <2>1. /\ stat' = stat \intersect table /\ table' = table /\ gen' = gen /\ at' = at /\ host' = host
        /\ obj' = obj /\ reset' = reset /\ todo' = todo /\ snap' = snap /\ last' = last
    BY <1>2 DEF prune, handlerVars, flushVars
  <2>2. \A h \in Hosts \ reset : count'[h] = count[h]
    BY <1>2 DEF prune, Kept
  <2>3. \A r \in Requests : host[r] \notin reset =>
          /\ at[r] # "idle" => host[r] \in table
          /\ at[r] = "open" => Current(r)'
    BY <2>1 DEF Kept, Current
  <2>4. \A h \in Hosts \ (table \union reset) : count'[h] = Zero
    BY <2>2 DEF Kept
  <2>5. \A h \in todo \ reset : \A k \in Kind : last[h][k] <= snap[h][k] /\ snap[h][k] <= count'[h][k]
    BY <2>2 DEF Kept, Typed
  <2> QED
    BY <2>1, <2>3, <2>4, <2>5 DEF Kept
<1>3. CASE Seed
  BY <1>3 DEF Seed, hostAdds, Kept, Current, Typed, mapVars, handlerVars, flushVars, bounds, history
<1>4. ASSUME NEW r \in Requests, Route(r) PROVE Kept'
  BY <1>4 DEF Route, Kept, Current, Typed, mapVars, handlerVars, flushVars, bounds, history
<1>5. ASSUME NEW r \in Requests, Refuse(r) PROVE Kept'
  BY <1>5 DEF Refuse, Kept, Current, Typed, mapVars, handlerVars, flushVars, bounds, history
<1>6. ASSUME NEW r \in Requests, Count(r) PROVE Kept'
  <2>1. /\ table' = table /\ host' = host /\ reset' = reset /\ todo' = todo /\ snap' = snap /\ last' = last
        /\ host[r] \in Hosts /\ at[r] # "idle"
    BY <1>6, Counting DEF Count, handlerVars, flushVars
  <2>2. \A q \in Requests : host[q] \notin reset =>
          /\ at'[q] # "idle" => host[q] \in table
          /\ at'[q] = "open" => Current(q)'
    BY <1>6 DEF Count, hostAdds, Kept, Current, Typed, handlerVars
  <2>3. \A g \in Hosts \ (table \union reset) : count'[g] = Zero
    <3>1. host[r] \in table \union reset
      BY <2>1 DEF Kept
    <3> QED
      BY <1>6, <3>1, Counting DEF Kept
  <2>4. \A g \in Hosts : \A k \in Kind : count[g][k] <= count'[g][k] /\ count'[g][k] \in Nat
    BY <1>6, Counting, Numbers
  <2>5. \A g \in todo \ reset : \A k \in Kind : last[g][k] <= snap[g][k] /\ snap[g][k] <= count'[g][k]
    <3>1. todo \subseteq Hosts
      BY DEF Typed
    <3> QED
      BY <2>4, <3>1, Numbers DEF Kept
  <2> QED
    BY <2>1, <2>2, <2>3, <2>5 DEF Kept
<1>7. ASSUME NEW r \in Requests, Move(r) PROVE Kept'
  <2>1. /\ table' = table /\ host' = host /\ reset' = reset /\ todo' = todo /\ snap' = snap /\ last' = last
        /\ host[r] \in Hosts /\ at[r] # "idle"
    BY <1>7, Moving DEF Move, handlerVars, flushVars
  <2>2. \A q \in Requests : host[q] \notin reset =>
          /\ at'[q] # "idle" => host[q] \in table
          /\ at'[q] = "open" => Current(q)'
    BY <1>7 DEF Move, hostAdds, Kept, Current, Typed, handlerVars
  <2>3. \A g \in Hosts \ (table \union reset) : count'[g] = Zero
    <3>1. host[r] \in table \union reset
      BY <2>1 DEF Kept
    <3> QED
      BY <1>7, <3>1, Moving DEF Kept
  <2>4. \A g \in Hosts : \A k \in Kind : count[g][k] <= count'[g][k] /\ count'[g][k] \in Nat
    BY <1>7, Moving, Numbers
  <2>5. \A g \in todo \ reset : \A k \in Kind : last[g][k] <= snap[g][k] /\ snap[g][k] <= count'[g][k]
    <3>1. todo \subseteq Hosts
      BY DEF Typed
    <3> QED
      BY <2>4, <3>1, Numbers DEF Kept
  <2> QED
    BY <2>1, <2>2, <2>3, <2>5 DEF Kept
<1>8. ASSUME NEW r \in Requests, Finish(r) PROVE Kept'
  BY <1>8 DEF Finish, Kept, Current, Typed, mapVars, handlerVars, flushVars, bounds, history
<1>9. CASE snapshot
  <2>1. /\ table' = table /\ stat' = stat /\ gen' = gen /\ at' = at /\ host' = host /\ obj' = obj
        /\ reset' = reset /\ count' = count /\ last' = last /\ todo' \subseteq Hosts
        /\ \A h \in todo' : snap'[h] = count[h]
    BY <1>9 DEF snapshot, Typed, mapVars, handlerVars, history
  <2>2. \A h \in todo' \ reset : \A k \in Kind : last[h][k] <= snap'[h][k] /\ snap'[h][k] <= count[h][k]
    BY <2>1, Numbers DEF NothingLost
  <2> QED
    BY <2>1, <2>2 DEF Kept, Current
<1>10. ASSUME NEW h \in Hosts, FlushHost(h) PROVE Kept'
  <2>1. /\ todo' = todo \ {h} /\ \A g \in Hosts \ {h} : snap'[g] = snap[g] /\ last'[g] = last[g]
    BY <1>10 DEF FlushHost, Advance, NextHost, Typed
  <2> QED
    BY <1>10, <2>1 DEF FlushHost, Kept, Current, Typed, mapVars, handlerVars, flushVars, bounds, history
<1>11. ASSUME NEW h \in Hosts, FlushError(h) PROVE Kept'
  <2>1. /\ todo' = todo \ {h} /\ \A g \in Hosts \ {h} : snap'[g] = snap[g] /\ last'[g] = last[g]
    BY <1>11 DEF FlushError, KeepDelta, NextHost, Typed
  <2> QED
    BY <1>11, <2>1 DEF FlushError, Kept, Current, Typed, mapVars, handlerVars, flushVars, bounds, history
<1>12. CASE Kill
  BY <1>12, ZeroIs DEF Kill, Kept
<1>13. CASE UNCHANGED vars
  BY <1>13 DEF vars, Kept, Current, mapVars, handlerVars, flushVars, bounds, history
<1> QED
  BY <1>1, <1>2, <1>3, <1>4, <1>5, <1>6, <1>7, <1>8, <1>9, <1>10, <1>11, <1>12, <1>13
  DEF Next, Update, Handler, Flush

\* What is counted is stored or still ahead.
LEMMA LostStep == IInv /\ Typed' /\ [Next]_vars => NothingLost'
<1> SUFFICES ASSUME IInv, Typed', [Next]_vars PROVE NothingLost'
  OBVIOUS
<1> USE DEF IInv
<1>1. ASSUME NEW hosts \in SUBSET Hosts, SwapTo(hosts) PROVE NothingLost'
  BY <1>1 DEF SwapTo, NothingLost, mapVars, handlerVars, flushVars, bounds, history
<1>2. CASE prune
  <2>1. \A h \in Hosts \ reset : count'[h] = count[h]
    BY <1>2 DEF prune, Kept
  <2> QED
    BY <1>2, <2>1 DEF prune, NothingLost, flushVars
<1>3. CASE Seed
  BY <1>3 DEF Seed, NothingLost, mapVars, handlerVars, flushVars, bounds, history
<1>4. ASSUME NEW r \in Requests, Route(r) PROVE NothingLost'
  BY <1>4 DEF Route, NothingLost, mapVars, handlerVars, flushVars, bounds, history
<1>5. ASSUME NEW r \in Requests, Refuse(r) PROVE NothingLost'
  BY <1>5 DEF Refuse, NothingLost, mapVars, handlerVars, flushVars, bounds, history
<1>6. ASSUME NEW r \in Requests, Count(r) PROVE NothingLost'
  <2>1. rows' = rows /\ last' = last /\ lost' = lost /\ reset' = reset
    BY <1>6 DEF Count, flushVars
  <2> QED
    BY <1>6, <2>1, Counting, Numbers DEF NothingLost
<1>7. ASSUME NEW r \in Requests, Move(r) PROVE NothingLost'
  <2>1. rows' = rows /\ last' = last /\ lost' = lost /\ reset' = reset
    BY <1>7 DEF Move, flushVars
  <2>2. host[r] \notin reset => Current(r)
    BY <1>7 DEF Move, Kept
  <2>3. \A g \in Hosts \ reset : \A k \in Kind :
          \/ made'[g][k] = made[g][k] /\ count'[g][k] = count[g][k]
          \/ made'[g][k] = made[g][k] + 1 /\ count'[g][k] = count[g][k] + 1
    BY <1>7, <2>2, Moving
  <2> QED
    BY <2>1, <2>3, Numbers DEF NothingLost
<1>8. ASSUME NEW r \in Requests, Finish(r) PROVE NothingLost'
  BY <1>8 DEF Finish, NothingLost, mapVars, handlerVars, flushVars, bounds, history
<1>9. CASE snapshot
  BY <1>9 DEF snapshot, NothingLost, mapVars, handlerVars, flushVars, bounds, history
<1>10. ASSUME NEW h \in Hosts, FlushHost(h) PROVE NothingLost'
  <2>1. count' = count /\ made' = made /\ lost' = lost /\ reset' = reset /\ h \in todo
    BY <1>10 DEF FlushHost, mapVars, history
  <2>2. \A g \in Hosts \ {h} : last'[g] = last[g] /\ rows'[g] = rows[g]
    BY <1>10 DEF FlushHost, Advance, Typed
  <2>3. last'[h] = snap[h] /\ \A k \in Kind : rows'[h][k] = rows[h][k] + Positive(snap[h][k] - last[h][k])
    BY <1>10, DeltaIs DEF FlushHost, Advance, Typed
  <2>4. h \notin reset => \A k \in Kind : last[h][k] <= snap[h][k] /\ snap[h][k] <= count[h][k]
    BY <2>1 DEF Kept
  <2>5. h \notin reset => \A k \in Kind :
          /\ count[h][k] >= last'[h][k]
          /\ rows'[h][k] + lost[h][k] + (count[h][k] - last'[h][k]) = made[h][k]
    BY <2>3, <2>4, Numbers DEF NothingLost, Positive
  <2> QED
    BY <2>1, <2>2, <2>5 DEF NothingLost
<1>11. ASSUME NEW h \in Hosts, FlushError(h) PROVE NothingLost'
  BY <1>11 DEF FlushError, KeepDelta, NothingLost, mapVars, history
<1>12. CASE Kill
  <2>1. rows' = rows /\ made' = made /\ count' = Nothing /\ last' = Nothing
    BY <1>12 DEF Kill
  <2>2. \A h \in Hosts : \A k \in Kind : lost'[h][k] = made[h][k] - rows[h][k]
    BY <1>12 DEF Kill
  <2> QED
    BY <2>1, <2>2, ZeroIs, Numbers DEF NothingLost
<1>13. CASE UNCHANGED vars
  BY <1>13 DEF vars, NothingLost, mapVars, handlerVars, flushVars, bounds, history
<1> QED
  BY <1>1, <1>2, <1>3, <1>4, <1>5, <1>6, <1>7, <1>8, <1>9, <1>10, <1>11, <1>12, <1>13
  DEF Next, Update, Handler, Flush

-----------------------------------------------------------------------------
(* Requests in flight. *)

\* A request is in flight once, in the counters it was added to.
LEMMA ActiveStep == IInv /\ Typed' /\ [Next]_vars => ActiveExact'
<1> SUFFICES ASSUME IInv, Typed', [Next]_vars PROVE ActiveExact'
  OBVIOUS
<1> USE DEF IInv
<1>0. \A h \in Hosts : IsFiniteSet(InFlight(h))
  <2>1. \A h \in Hosts : InFlight(h) \in SUBSET Requests
    BY DEF InFlight
  <2> QED
    BY <2>1, FS_Subset, TrafficAssumption
<1>1. ASSUME NEW hosts \in SUBSET Hosts, SwapTo(hosts) PROVE ActiveExact'
  BY <1>1 DEF SwapTo, ActiveExact, InFlight, mapVars, handlerVars, flushVars, bounds, history
<1>2. ASSUME NEW r \in Requests, Route(r) PROVE ActiveExact'
  <2>1. \A g \in Hosts : InFlight(g)' = InFlight(g)
    BY <1>2 DEF Route, InFlight, Typed, mapVars
  <2>2. stat' = stat /\ active' = active /\ stat \subseteq Hosts
    BY <1>2 DEF Route, Typed, mapVars
  <2> QED
    BY <2>1, <2>2 DEF ActiveExact
<1>3. ASSUME NEW r \in Requests, Refuse(r) PROVE ActiveExact'
  <2>1. \A g \in Hosts : InFlight(g)' = InFlight(g)
    BY <1>3 DEF Refuse, InFlight, Typed, mapVars
  <2>2. stat' = stat /\ active' = active /\ stat \subseteq Hosts
    BY <1>3 DEF Refuse, Typed, mapVars
  <2> QED
    BY <2>1, <2>2 DEF ActiveExact
<1>4. ASSUME NEW r \in Requests, Move(r) PROVE ActiveExact'
  BY <1>4 DEF Move, ActiveExact, InFlight, mapVars, handlerVars, flushVars, bounds, history
<1>5. CASE snapshot
  BY <1>5 DEF snapshot, ActiveExact, InFlight, mapVars, handlerVars, flushVars, bounds, history
<1>6. ASSUME NEW h \in Hosts, FlushHost(h) PROVE ActiveExact'
  BY <1>6 DEF FlushHost, ActiveExact, InFlight, mapVars, handlerVars, flushVars, bounds, history
<1>7. ASSUME NEW h \in Hosts, FlushError(h) PROVE ActiveExact'
  BY <1>7 DEF FlushError, ActiveExact, InFlight, mapVars, handlerVars, flushVars, bounds, history
<1>8. CASE UNCHANGED vars
  BY <1>8 DEF vars, ActiveExact, InFlight, mapVars, handlerVars
<1>9. CASE prune
  <2>1. \A h \in Hosts : InFlight(h)' = InFlight(h)
    BY <1>9 DEF prune, InFlight, handlerVars
  <2> QED
    BY <1>9, <2>1 DEF prune, ActiveExact, Typed
<1>10. CASE Seed
  <2> SUFFICES ASSUME NEW h \in stat' PROVE active'[h] = Cardinality(InFlight(h)')
    BY DEF ActiveExact
  <2>1. h \in Hosts /\ active' = active /\ at' = at /\ host' = host /\ obj' = obj
    BY <1>10 DEF Seed, hostAdds, Typed, handlerVars
  <2>2. CASE h \in stat
    <3>1. gen'[h] = gen[h]
      BY <1>10, <2>1, <2>2 DEF Seed, hostAdds
    <3>2. InFlight(h)' = InFlight(h)
      BY <3>1, <2>1 DEF InFlight
    <3> QED
      BY <3>2, <2>1, <2>2 DEF ActiveExact
  <2>3. CASE h \notin stat
    <3>1. gen'[h] = gen[h] + 1 /\ gen[h] \in Nat
      BY <1>10, <2>1, <2>3 DEF Seed, hostAdds, Typed
    <3>2. \A r \in Requests : at[r] = "open" /\ host[r] = h => obj[r] # gen'[h]
      BY <3>1 DEF Mapped, Typed
    <3>3. InFlight(h)' = {}
      BY <3>2, <2>1 DEF InFlight
    <3> QED
      BY <3>3, <2>1, <2>3, FS_EmptySet DEF Mapped
  <2> QED
    BY <2>2, <2>3
<1>11. ASSUME NEW r \in Requests, Count(r) PROVE ActiveExact'
  <2>0. PICK h : h = host[r]
    OBVIOUS
  <2>1. /\ h \in Hosts /\ at' = [at EXCEPT ![r] = "open"] /\ obj' = [obj EXCEPT ![r] = gen'[h]]
        /\ host' = host /\ stat' = stat \union {h} /\ active' = [active EXCEPT ![h] = @ + 1]
        /\ at[r] = "routed" /\ stat \subseteq Hosts /\ active \in [Hosts -> Int]
        /\ at \in [Requests -> {"idle", "routed", "open"}] /\ obj \in [Requests -> Nat]
    BY <1>11, <2>0 DEF Count, hostAdds, Typed
  <2>2. \A g \in Hosts : gen'[g] = IF g = h /\ g \notin stat THEN gen[g] + 1 ELSE gen[g]
    BY <1>11, <2>0 DEF Count, hostAdds
  <2>3. \A g \in stat \ {h} : InFlight(g)' = InFlight(g)
    BY <2>0, <2>1, <2>2 DEF InFlight
  <2>4. CASE h \in stat
    <3>1. InFlight(h)' = InFlight(h) \union {r} /\ r \notin InFlight(h)
      BY <2>0, <2>1, <2>2, <2>4 DEF InFlight
    <3>2. Cardinality(InFlight(h)') = Cardinality(InFlight(h)) + 1
      BY <3>1, <2>1, <1>0, FS_AddElement
    <3>3. active'[h] = Cardinality(InFlight(h)')
      BY <3>2, <2>1, <2>4 DEF ActiveExact
    <3>4. \A g \in stat \ {h} : active'[g] = Cardinality(InFlight(g)')
      BY <2>0, <2>1, <2>3 DEF ActiveExact
    <3> QED
      BY <3>3, <3>4, <2>1 DEF ActiveExact
  <2>5. CASE h \notin stat
    <3>1. gen'[h] = gen[h] + 1 /\ gen[h] \in Nat
      BY <2>0, <2>1, <2>2, <2>5 DEF Typed
    <3>2. \A q \in Requests : at[q] = "open" /\ host[q] = h => obj[q] # gen'[h]
      BY <3>1 DEF Mapped, Typed
    <3>3. InFlight(h)' = {r}
      BY <3>2, <2>0, <2>1 DEF InFlight
    <3>4. active'[h] = 1
      BY <2>0, <2>1, <2>5 DEF Mapped
    <3>5. active'[h] = Cardinality(InFlight(h)')
      BY <3>3, <3>4, FS_Singleton
    <3>6. \A g \in stat \ {h} : active'[g] = Cardinality(InFlight(g)')
      BY <2>0, <2>1, <2>3 DEF ActiveExact
    <3> QED
      BY <3>5, <3>6, <2>1 DEF ActiveExact
  <2> QED
    BY <2>4, <2>5
<1>12. ASSUME NEW r \in Requests, Finish(r) PROVE ActiveExact'
  <2>0. PICK h : h = host[r]
    OBVIOUS
  <2>1. /\ h \in Hosts /\ at' = [at EXCEPT ![r] = "idle"] /\ obj' = [obj EXCEPT ![r] = 0]
        /\ host' = host /\ stat' = stat /\ gen' = gen /\ at[r] = "open"
        /\ stat \subseteq Hosts /\ active \in [Hosts -> Int]
        /\ at \in [Requests -> {"idle", "routed", "open"}] /\ obj \in [Requests -> Nat]
        /\ active' = IF Current(r) THEN [active EXCEPT ![h] = @ - 1] ELSE active
    BY <1>12, <2>0 DEF Finish, Done, Typed
  <2>2. \A g \in stat : InFlight(g)' = InFlight(g) \ {r}
    BY <2>0, <2>1 DEF InFlight
  <2>3. \A g \in stat : r \in InFlight(g) <=> g = h /\ Current(r)
    BY <2>0, <2>1 DEF InFlight, Current
  <2>4. \A g \in stat : Cardinality(InFlight(g)') = IF r \in InFlight(g) THEN Cardinality(InFlight(g)) - 1 ELSE Cardinality(InFlight(g))
    BY <2>0, <2>1, <2>2, <1>0, FS_RemoveElement
  <2>5. \A g \in stat : active'[g] = IF g = h /\ Current(r) THEN active[g] - 1 ELSE active[g]
    BY <2>0, <2>1
  <2> QED
    BY <2>0, <2>1, <2>3, <2>4, <2>5 DEF ActiveExact
<1>13. CASE Kill
  <2>1. \A h \in Hosts : InFlight(h)' = {}
    BY <1>13 DEF Kill, InFlight
  <2>2. stat' \subseteq Hosts /\ \A h \in Hosts : active'[h] = 0
    BY <1>13 DEF Kill
  <2> QED
    BY <2>1, <2>2, FS_EmptySet DEF ActiveExact
<1> QED
  BY <1>1, <1>2, <1>3, <1>4, <1>5, <1>6, <1>7, <1>8, <1>9, <1>10, <1>11, <1>12, <1>13
  DEF Next, Update, Handler, Flush

-----------------------------------------------------------------------------
(* The theorems. *)

\* IInv is inductive.
LEMMA Inductive == IInv /\ [Next]_vars => IInv'
BY TypedStep, MappedStep, StepStep, OnceStep, KeptStep, LostStep, ActiveStep DEF IInv

\* The invariant holds throughout.
LEMMA Invariance == Spec => []IInv
<1> QED
  BY Start, Inductive, PTL DEF Spec

\* Types; the active requests of a host are never below zero (the deferred
\* decrement, proxy.go:388 and console.go:66).
THEOREM TypeCorrect == Spec => []TypeOK
<1>1. IInv => TypeOK
  <2> SUFFICES ASSUME IInv PROVE TypeOK
    OBVIOUS
  <2>1. \A h \in Hosts : active[h] \in Nat
    <3>1. \A h \in Hosts : Cardinality(InFlight(h)) \in Nat
      <4>1. \A h \in Hosts : InFlight(h) \in SUBSET Requests
        BY DEF InFlight
      <4>2. \A h \in Hosts : IsFiniteSet(InFlight(h))
        BY <4>1, FS_Subset, TrafficAssumption
      <4> QED
        BY <4>2, FS_CardinalityType
    <3> QED
      BY <3>1 DEF IInv, ActiveExact, Mapped
  <2>2. active \in [Hosts -> Nat]
    BY <2>1 DEF IInv, Typed
  <2> QED
    BY <2>2 DEF IInv, Typed, TypeOK
<1> QED
  BY <1>1, Invariance, PTL

\* The dashboard's active requests are exact (stats.go:18).
THEOREM ActiveIsExact == Spec => []ActiveExact
<1>1. IInv => ActiveExact
  BY DEF IInv
<1> QED
  BY <1>1, Invariance, PTL

\* The flusher stores nothing twice (serve.go:414-442).
THEOREM CountedOnce == Spec => []NeverCountedTwice
<1>1. IInv => NeverCountedTwice
  <2> SUFFICES ASSUME IInv, NEW h \in Hosts, NEW k \in Kind PROVE rows[h][k] <= made[h][k]
    BY DEF NeverCountedTwice
  <2>1. rows[h][k] \in Nat /\ made[h][k] \in Nat /\ Ahead(h, k) \in Nat
    BY Numbers DEF IInv, Ahead, Positive
  <2>2. rows[h][k] + Ahead(h, k) <= made[h][k]
    BY DEF IInv, Once
  <2> QED
    BY <2>1, <2>2
<1> QED
  BY <1>1, Invariance, PTL

\* Nothing of a host that stays is lost but by an end of the process
\* (serve.go:408-413).
THEOREM KeepsEveryCount == Spec => []NothingLost
<1>1. IInv => NothingLost
  BY DEF IInv
<1> QED
  BY <1>1, Invariance, PTL

\* Counter map and routing table stay in step (stats.go:77-78).
THEOREM MapFollowsTable == Spec => []InStep
<1>1. IInv => InStep
  BY DEF IInv, Step, InStep, Typed
<1> QED
  BY <1>1, Invariance, PTL
=============================================================================
