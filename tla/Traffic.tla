------------------------------ MODULE Traffic ------------------------------
(***************************************************************************)
(* Traffic accounting of the proxy: the per-host counters that request     *)
(* handlers and console sessions add to (internal/proxy/stats.go, proxy.go, *)
(* console.go), the routing table and counter map that Proxy.Update swaps  *)
(* and prunes, and runTrafficFlusher (cmd/goddns/serve.go), which every    *)
(* minute adds what is new to the store's per-day rows.                    *)
(*                                                                         *)
(* A handler looks its host up in the table, later in the counter map, and *)
(* keeps the counters it found until it ends, whatever the reloads do      *)
(* meanwhile; counters that are no longer in the map are read by nobody    *)
(* and left out.  The days of the store's rows are taken together.         *)
(***************************************************************************)
EXTENDS Integers, FiniteSets

CONSTANTS
  Hosts,       \* proxied host names
  Requests,    \* concurrent handlers: requests and console sessions
  MaxCounts,   \* bound: requests counted and bytes moved, together
  MaxUpdates,  \* bound: reloads
  MaxErrors,   \* bound: failed writes to the store
  MaxKills     \* bound: ends of the process

ASSUME TrafficAssumption ==
  IsFiniteSet(Requests) /\ {MaxCounts, MaxUpdates, MaxErrors, MaxKills} \subseteq Nat

\* The counters of a host that are stored.
Kind == {"req", "bytes"}
Counts == [Kind -> Nat]
Zero == [k \in Kind |-> 0]

VARIABLES
  table,    \* hosts in the routing table
  stat,     \* hosts with counters in the map
  gen,      \* names a host's newest counters; 0: there never were any
  count,    \* the tallies of the counters in the map
  active,   \* and their requests in flight
  upd,      \* where Update is
  at,       \* where each handler is
  host,     \* its host
  obj,      \* the counters it holds
  todo,     \* hosts the running flush has still to store
  snap,     \* their counters as the flush's snapshot has them
  last,     \* the counters at each host's last flush
  rows,     \* what the store holds, per host
  counts, updates, errors, kills,  \* counters for the bounds
  made,     \* history: what was ever counted, per host
  lost,     \* history: what was not stored when the process ended
  reset,    \* history: hosts that a reload ever removed
  ghosts    \* history: hosts counted, since the last prune, though not in the table

handlerVars == <<at, host, obj>>
mapVars == <<stat, gen, count, active>>
flushVars == <<todo, snap, last>>
bounds == <<counts, updates, errors, kills>>
history == <<made, lost, reset, ghosts>>
vars == <<table, mapVars, upd, handlerVars, flushVars, rows, bounds, history>>

TypeOK ==
  /\ table \subseteq Hosts /\ stat \subseteq Hosts
  /\ gen \in [Hosts -> Nat]
  /\ count \in [Hosts -> Counts] /\ active \in [Hosts -> Nat]
  /\ upd \in {"idle", "swapped", "pruned"}
  /\ at \in [Requests -> {"idle", "routed", "open"}]
  /\ host \in [Requests -> Hosts] /\ obj \in [Requests -> Nat]
  /\ todo \subseteq Hosts
  /\ {snap, last, rows, made, lost} \subseteq [Hosts -> Counts]
  /\ counts \in 0 .. MaxCounts /\ updates \in 0 .. MaxUpdates
  /\ errors \in 0 .. MaxErrors /\ kills \in 0 .. MaxKills
  /\ reset \subseteq Hosts /\ ghosts \subseteq Hosts

Nothing == [h \in Hosts |-> Zero]

Init ==
  /\ table \in SUBSET Hosts /\ stat = table
  /\ gen = [h \in Hosts |-> IF h \in stat THEN 1 ELSE 0]
  /\ count = Nothing /\ active = [h \in Hosts |-> 0]
  /\ upd = "idle"
  /\ at = [r \in Requests |-> "idle"] /\ obj = [r \in Requests |-> 0]
  /\ host \in [Requests -> Hosts]
  /\ todo = {} /\ snap = Nothing /\ last = Nothing /\ rows = Nothing
  /\ counts = 0 /\ updates = 0 /\ errors = 0 /\ kills = 0
  /\ made = Nothing /\ lost = Nothing /\ reset = {} /\ ghosts = {}

-----------------------------------------------------------------------------
(* A request (ServeHTTP) or a console session (ServeConsole). *)

\* It has read the routing table; an unknown host is not counted.
Route(r) ==
  /\ at[r] = "idle"
  /\ \E h \in table : host' = [host EXCEPT ![r] = h]
  /\ at' = [at EXCEPT ![r] = "routed"]
  /\ UNCHANGED <<table, mapVars, upd, obj, flushVars, rows, bounds, history>>

\* A console session may be refused, or its upstream be down.
Refuse(r) ==
  /\ at[r] = "routed"
  /\ at' = [at EXCEPT ![r] = "idle"]
  /\ UNCHANGED <<table, mapVars, upd, host, obj, flushVars, rows, bounds, history>>

\* stats.host: a host's counters, made when the map has none.
hostAdds(new) ==
  /\ stat' = stat \union new
  /\ gen' = [h \in Hosts |-> IF h \in new \ stat THEN gen[h] + 1 ELSE gen[h]]

\* One more of kind k in h's counters.
Added(f, h, k) == [f EXCEPT ![h][k] = @ + 1]

\* The request is counted and is in flight.
Count(r) ==
  LET h == host[r]
  IN  /\ at[r] = "routed"
      /\ counts < MaxCounts /\ counts' = counts + 1
      /\ at' = [at EXCEPT ![r] = "open"]
      /\ hostAdds({h})
      /\ obj' = [obj EXCEPT ![r] = gen'[h]]
      /\ count' = Added(count, h, "req")
      /\ active' = [active EXCEPT ![h] = @ + 1]
      /\ made' = Added(made, h, "req")
      /\ ghosts' = IF h \in table THEN ghosts ELSE ghosts \union {h}
      /\ UNCHANGED <<table, upd, host, flushVars, rows, updates, errors, kills, lost, reset>>

\* The counters r holds are the ones in the map.
Current(r) == host[r] \in stat /\ obj[r] = gen[host[r]]

\* countReadCloser, countConn, and the response's bytes at the end.
Move(r) ==
  /\ at[r] = "open"
  /\ counts < MaxCounts /\ counts' = counts + 1
  /\ count' = IF Current(r) THEN Added(count, host[r], "bytes") ELSE count
  /\ made' = Added(made, host[r], "bytes")
  /\ UNCHANGED <<table, stat, gen, active, upd, handlerVars, flushVars, rows,
                 updates, errors, kills, lost, reset, ghosts>>

DoneLooksUp(r) == host[r] \in stat

\* The deferred decrement goes to the counters the request was added to.
Done(r) == Current(r)

Finish(r) ==
  /\ at[r] = "open"
  /\ at' = [at EXCEPT ![r] = "idle"]
  /\ active' = IF Done(r) THEN [active EXCEPT ![host[r]] = @ - 1] ELSE active
  /\ obj' = [obj EXCEPT ![r] = 0]
  /\ UNCHANGED <<table, stat, gen, count, upd, host, flushVars, rows, bounds, history>>

-----------------------------------------------------------------------------
(* Proxy.Update, by the reload loop. *)

SwapTo(hosts) ==
  /\ upd = "idle"
  /\ updates < MaxUpdates /\ updates' = updates + 1
  /\ upd' = "swapped"
  /\ table' = hosts
  /\ reset' = reset \union (table \ hosts)
  /\ UNCHANGED <<mapVars, handlerVars, flushVars, rows, counts, errors, kills,
                 made, lost, ghosts>>

pruneNothing ==
  /\ upd = "swapped"
  /\ upd' = "pruned"
  /\ ghosts' = {}
  /\ UNCHANGED <<table, mapVars, handlerVars, flushVars, rows, bounds, made, lost, reset>>

\* Counters of hosts that are not in the new table leave the map.
prune ==
  /\ upd = "swapped"
  /\ upd' = "pruned"
  /\ stat' = stat \intersect table
  /\ count' = [h \in Hosts |-> IF h \in table THEN count[h] ELSE Zero]
  /\ active' = [h \in Hosts |-> IF h \in table THEN active[h] ELSE 0]
  /\ ghosts' = {}
  /\ UNCHANGED <<table, gen, handlerVars, flushVars, rows, bounds, made, lost, reset>>

\* Every host of the new table gets counters.
Seed ==
  /\ upd = "pruned"
  /\ upd' = "idle"
  /\ hostAdds(table)
  /\ UNCHANGED <<table, count, active, handlerVars, flushVars, rows, bounds, history>>

-----------------------------------------------------------------------------
(* runTrafficFlusher. *)

\* A tick: px.Stats().
snapshot ==
  /\ todo = {} /\ stat # {}
  /\ todo' = stat
  /\ snap' = [h \in Hosts |-> IF h \in stat THEN count[h] ELSE Zero]
  /\ UNCHANGED <<table, mapVars, upd, handlerVars, last, rows, bounds, history>>

DeltaWhole(h) ==
  [k \in Kind |-> IF snap[h][k] > last[h][k] THEN snap[h][k] - last[h][k]
                                             ELSE snap[h][k]]

DeltaAny(h) ==
  IF \E k \in Kind : snap[h][k] <= last[h][k]
  THEN Zero
  ELSE [k \in Kind |-> snap[h][k] - last[h][k]]

\* What is new of h, per kind; counters below the last flush started again.
Delta(h) ==
  [k \in Kind |-> IF snap[h][k] > last[h][k] THEN snap[h][k] - last[h][k] ELSE 0]

\* The loop goes on to the next host.
NextHost(h) == todo' = todo \ {h} /\ snap' = [snap EXCEPT ![h] = Zero]

Advance(h) == NextHost(h) /\ last' = [last EXCEPT ![h] = snap[h]]

\* Nothing new, or stored.
FlushHost(h) ==
  /\ h \in todo
  /\ Advance(h)
  /\ rows' = [rows EXCEPT ![h] = [k \in Kind |-> @[k] + Delta(h)[k]]]
  /\ UNCHANGED <<table, mapVars, upd, handlerVars, bounds, history>>

AdvanceAnyway(h) == Advance(h)

\* AddTraffic failed: the next tick takes the delta again.
KeepDelta(h) == NextHost(h) /\ UNCHANGED last

FlushError(h) ==
  /\ h \in todo /\ Delta(h) # Zero
  /\ errors < MaxErrors /\ errors' = errors + 1
  /\ KeepDelta(h)
  /\ UNCHANGED <<table, mapVars, upd, handlerVars, rows, counts, updates,
                 kills, history>>

\* The process ends, by a kill or a restart, and starts again: New calls Update
\* before anything is served or flushed.
Kill ==
  /\ kills < MaxKills /\ kills' = kills + 1
  /\ table' \in SUBSET Hosts /\ stat' = table'
  /\ gen' = [h \in Hosts |-> IF h \in stat' THEN gen[h] + 1 ELSE gen[h]]
  /\ count' = Nothing /\ active' = [h \in Hosts |-> 0]
  /\ upd' = "idle"
  /\ at' = [r \in Requests |-> "idle"] /\ obj' = [r \in Requests |-> 0]
  /\ todo' = {} /\ snap' = Nothing /\ last' = Nothing
  /\ reset' = reset \union (table \ table')
  /\ lost' = [h \in Hosts |-> [k \in Kind |-> made[h][k] - rows[h][k]]]
  /\ ghosts' = {}
  /\ UNCHANGED <<host, rows, counts, updates, errors, made>>

Update == (\E hosts \in SUBSET Hosts : SwapTo(hosts)) \/ prune \/ Seed
Handler(r) == Route(r) \/ Refuse(r) \/ Count(r) \/ Move(r) \/ Finish(r)
Flush == snapshot \/ \E h \in Hosts : FlushHost(h) \/ FlushError(h)

Next == Update \/ (\E r \in Requests : Handler(r)) \/ Flush \/ Kill

Spec == Init /\ [][Next]_vars

FairSpec == Spec /\ WF_vars(Flush) /\ WF_vars(prune \/ Seed)

-----------------------------------------------------------------------------
(* Properties. *)

\* Requests in flight that were added to h's counters in the map.
InFlight(h) == {r \in Requests : at[r] = "open" /\ host[r] = h /\ obj[r] = gen[h]}

(***************************************************************************)
(* The dashboard's number of active requests is exact: a request that a    *)
(* reload has cut off from the map takes nothing from the counters a later *)
(* reload made for the same host.                                          *)
(***************************************************************************)
ActiveExact == \A h \in stat : active[h] = Cardinality(InFlight(h))

(***************************************************************************)
(* The stored history never has more than there was: no request or byte is *)
(* stored twice, over failed writes, restarts, and counters that start at  *)
(* zero again under a flush's feet.                                        *)
(***************************************************************************)
NeverCountedTwice == \A h \in Hosts : \A k \in Kind : rows[h][k] <= made[h][k]

(***************************************************************************)
(* Of a host that no reload removed nothing is lost but what a process had *)
(* not stored when it ended: every other count is in the store, or in the  *)
(* counters and still ahead of the last flush.                             *)
(***************************************************************************)
NothingLost ==
  \A h \in Hosts \ reset : \A k \in Kind :
    /\ count[h][k] >= last[h][k]
    /\ rows[h][k] + lost[h][k] + (count[h][k] - last[h][k]) = made[h][k]

(***************************************************************************)
(* Between reloads the counter map has the hosts of the routing table and  *)
(* no other, except those a request, routed by an older table, put back.   *)
(***************************************************************************)
InStep == upd = "idle" => table \subseteq stat /\ stat \subseteq table \union ghosts

(***************************************************************************)
(* When no more is counted, everything is stored in the end: failed writes *)
(* are tried again, unless the process ends first or a reload removes the  *)
(* host.                                                                   *)
(***************************************************************************)
CatchesUp ==
  <>[](\A h \in Hosts \ reset : \A k \in Kind : rows[h][k] + lost[h][k] = made[h][k])
=============================================================================
