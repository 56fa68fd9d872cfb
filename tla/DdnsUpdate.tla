---------------------------- MODULE DdnsUpdate ----------------------------
(***************************************************************************)
(* The DDNS update endpoint (internal/server): a client polls with its     *)
(* token; the handler looks the record up in the store, answers `nochg` if *)
(* last_ip is the address already, and otherwise replaces the address in   *)
(* the DNS with one signed UPDATE (internal/ddns) and then stores last_ip. *)
(* The store and the DNS are two places, written one after the other by    *)
(* handlers that run concurrently and take no lock.                        *)
(*                                                                         *)
(* The UPDATE goes over UDP with a five second timeout: it, or its answer, *)
(* may be lost, and named may apply it after the handler has given up.     *)
(***************************************************************************)
EXTENDS Naturals

CONSTANTS
  Handlers,   \* concurrent requests
  Name,       \* fully qualified names
  V4, V6,     \* routable addresses, by family
  BadIP,      \* an override that clientIP refuses
  NoIP,       \* last_ip of a record nobody has updated yet
  NoRow,      \* no record for this name
  Nobody,     \* no handler
  MaxAdmin,   \* bound: records added, deleted, rotated, edited in the DNS
  MaxMoves,   \* bound: changes of a client's address
  MaxNet,     \* bound: UPDATEs lost, late or rejected
  MaxStore,   \* bound: failures to store last_ip
  MaxCrash    \* bound: restarts of the daemon

IP == V4 \union V6
Id == 1 .. MaxAdmin
Row == [id : Id, token : Id, ip : IP \union {NoIP}]
Request == [name : Name, id : Id, ip : IP]

ASSUME DdnsAssumption ==
  /\ {BadIP, NoIP} \intersect IP = {}
  /\ NoRow \notin Row
  /\ Nobody \notin Handlers
  /\ {MaxAdmin, MaxMoves, MaxNet, MaxStore, MaxCrash} \subseteq Nat

VARIABLES
  row,      \* the records table
  dns,      \* the addresses each name has in the DNS
  pc, req,  \* where each handler is and the request it serves
  late,     \* UPDATEs named may still apply, their handlers gone
  held,     \* the token each name's client is configured with (0: none)
  addr,     \* the address each name's client polls with (override or peer)
  admin, moves, net, store, crash,   \* counters for the bounds
  claims,   \* history: addresses polled for with a token of the record
  last,     \* history: the running handler that wrote the DNS last
  slips     \* history: names whose two writes came apart

handlerVars == <<pc, req>>
bounds == <<admin, moves, net, store, crash>>
history == <<claims, last, slips>>
vars == <<row, dns, handlerVars, late, held, addr, bounds, history>>

TypeOK ==
  /\ row \in [Name -> Row \union {NoRow}]
  /\ dns \in [Name -> SUBSET IP]
  /\ pc \in [Handlers -> {"idle", "update", "mark"}]
  /\ req \in [Handlers -> Request \union {NoRow}]
  /\ \A h \in Handlers : pc[h] # "idle" => req[h] \in Request
  /\ late \subseteq Request
  /\ held \in [Name -> 0 .. MaxAdmin]
  /\ addr \in [Name -> IP \union {BadIP}]
  /\ admin \in 0 .. MaxAdmin /\ moves \in 0 .. MaxMoves /\ net \in 0 .. MaxNet
  /\ store \in 0 .. MaxStore /\ crash \in 0 .. MaxCrash
  /\ claims \in [Name -> SUBSET IP]
  /\ last \in [Name -> Handlers \union {Nobody}]
  /\ slips \subseteq Name

Init ==
  /\ row = [n \in Name |-> NoRow]
  /\ dns = [n \in Name |-> {}]
  /\ pc = [h \in Handlers |-> "idle"]
  /\ req = [h \in Handlers |-> NoRow]
  /\ late = {}
  /\ held = [n \in Name |-> 0]
  /\ addr \in [Name -> IP]
  /\ admin = 0 /\ moves = 0 /\ net = 0 /\ store = 0 /\ crash = 0
  /\ claims = [n \in Name |-> {}]
  /\ last = [n \in Name |-> Nobody]
  /\ slips = {}

-----------------------------------------------------------------------------
(* The store and the updater. *)

\* Lookup: an unknown token finds nothing, and the request is refused.
Lookup(tok, n) == row[n] # NoRow /\ row[n].token = tok

\* clientIP: an override that is no address, or not routable, is refused.  An
\* address taken from the connection or from a proxy's header is not checked.
clientIP(n) == addr[n] \in IP

ChangedOnce(n) == row[n].ip = NoIP

\* doUpdate's first test; an equal last_ip is answered `nochg`.
Changed(n) == row[n].ip # addr[n]

UpdateOwnFamily(rrs, ip) ==
  (rrs \ (IF ip \in V4 THEN V4 ELSE V6)) \union {ip}

\* RFC2136.Update: delete the A and the AAAA set, add one record, in one
\* UPDATE that named applies as a whole.
Update(rrs, ip) == ((rrs \ V4) \ V6) \union {ip}

-----------------------------------------------------------------------------
(* A request. *)

Return(h) ==
  /\ pc' = [pc EXCEPT ![h] = "idle"]
  /\ req' = [req EXCEPT ![h] = NoRow]

\* handleSimple / handleDynDNS2 up to the UPDATE.  Refusals (badauth, badip)
\* and `nochg` change neither the table's addresses nor the DNS.
Poll(h, n) ==
  /\ pc[h] = "idle"
  /\ Lookup(held[n], n) /\ clientIP(n) /\ Changed(n)
  /\ pc' = [pc EXCEPT ![h] = "update"]
  /\ req' = [req EXCEPT ![h] = [name |-> n, id |-> row[n].id, ip |-> addr[n]]]
  /\ claims' = [claims EXCEPT ![n] = @ \union {addr[n]}]
  /\ UNCHANGED <<row, dns, late, held, addr, bounds, last, slips>>

\* The record the request was authenticated for is still there.
StillThere(r) == row[r.name] # NoRow /\ row[r.name].id = r.id

\* named applies the UPDATE and the answer arrives.
Apply(h) ==
  /\ pc[h] = "update"
  /\ LET n == req[h].name IN
       /\ dns' = [dns EXCEPT ![n] = Update(@, req[h].ip)]
       /\ last' = [last EXCEPT ![n] = h]
       /\ slips' = IF StillThere(req[h]) THEN slips ELSE slips \union {n}
  /\ pc' = [pc EXCEPT ![h] = "mark"]
  /\ UNCHANGED <<row, req, late, held, addr, bounds, claims>>

\* One more of a bounded kind of event.
Count(counter, max) == counter < max /\ counter' = counter + 1

\* No answer, or a refusal: the request fails and last_ip is left alone.  If
\* it is not the UPDATE but its answer that is lost or slow, named applies it.
Fail(h) ==
  /\ pc[h] = "update"
  /\ Count(net, MaxNet)
  /\ Return(h)
  /\ late' \in {late, late \union {req[h]}}
  /\ UNCHANGED <<row, dns, held, addr, admin, moves, store, crash, history>>

ApplyLate ==
  \E r \in late :
    /\ late' = late \ {r}
    /\ dns' = [dns EXCEPT ![r.name] = Update(@, r.ip)]
    /\ last' = [last EXCEPT ![r.name] = Nobody]
    /\ slips' = slips \union {r.name}
    /\ UNCHANGED <<row, handlerVars, held, addr, bounds, claims>>

\* MarkUpdated: UPDATE ... WHERE id=?, which finds no row once the record is
\* deleted.
MarkUpdated(r) ==
  row' = [n \in Name |-> IF row[n] # NoRow /\ row[n].id = r.id
                           THEN [row[n] EXCEPT !.ip = r.ip] ELSE row[n]]

\* The answer is `good`, also when the store fails.
Mark(h) ==
  /\ pc[h] = "mark"
  /\ Return(h)
  /\ LET n == req[h].name IN
       /\ \/ /\ MarkUpdated(req[h])
             /\ slips' = IF last[n] = h /\ StillThere(req[h])
                           THEN slips \ {n} ELSE slips \union {n}
             /\ UNCHANGED store
          \/ /\ Count(store, MaxStore)
             /\ slips' = slips \union {n}
             /\ UNCHANGED row
       /\ last' = [last EXCEPT ![n] = IF @ = h THEN Nobody ELSE @]
  /\ UNCHANGED <<dns, late, held, addr, admin, moves, net, crash, claims>>

\* The daemon dies and is started again.  An UPDATE on its way may still be
\* applied; an address that was written is not stored.
Crash ==
  /\ Count(crash, MaxCrash)
  /\ pc' = [h \in Handlers |-> "idle"]
  /\ req' = [h \in Handlers |-> NoRow]
  /\ late' \in {late, late \union {req[h] : h \in {g \in Handlers : pc[g] = "update"}}}
  /\ last' = [n \in Name |-> Nobody]
  /\ slips' = slips \union {req[h].name : h \in {g \in Handlers : pc[g] = "mark"}}
  /\ UNCHANGED <<row, dns, held, addr, admin, moves, net, store, claims>>

-----------------------------------------------------------------------------
(* The operator (CLI, admin UI) and the clients. *)

NewIdReused == 1

\* AUTOINCREMENT: an id is never used again.
NewId == admin + 1

\* Add: the name is UNIQUE; tokens are 256 random bits.
Add(n) ==
  /\ row[n] = NoRow
  /\ Count(admin, MaxAdmin)
  /\ row' = [row EXCEPT ![n] = [id |-> NewId, token |-> admin + 1, ip |-> NoIP]]
  /\ claims' = [claims EXCEPT ![n] = {}]
  /\ UNCHANGED <<dns, handlerVars, late, held, addr, moves, net, store, crash,
                 last, slips>>

\* Del removes the record only: the name keeps its address in the DNS.
Del(n) ==
  /\ row[n] # NoRow
  /\ Count(admin, MaxAdmin)
  /\ row' = [row EXCEPT ![n] = NoRow]
  /\ UNCHANGED <<dns, handlerVars, late, held, addr, moves, net, store, crash,
                 history>>

\* Rotate: a new token; last_ip stays.
Rotate(n) ==
  /\ row[n] # NoRow
  /\ Count(admin, MaxAdmin)
  /\ row' = [row EXCEPT ![n].token = admin + 1]
  /\ UNCHANGED <<dns, handlerVars, late, held, addr, moves, net, store, crash,
                 history>>

\* The name's records are edited, restored from a snapshot, or updated by
\* another program.
Edit(n) ==
  /\ Count(admin, MaxAdmin)
  /\ \E rrs \in SUBSET IP : dns' = [dns EXCEPT ![n] = rrs]
  /\ last' = [last EXCEPT ![n] = Nobody]
  /\ slips' = slips \union {n}
  /\ UNCHANGED <<row, handlerVars, late, held, addr, moves, net, store, crash,
                 claims>>

\* The client is given the record's token.
Configure(n) ==
  /\ row[n] # NoRow /\ held[n] # row[n].token
  /\ held' = [held EXCEPT ![n] = row[n].token]
  /\ UNCHANGED <<row, dns, handlerVars, late, addr, bounds, history>>

Move(n) ==
  /\ Count(moves, MaxMoves)
  /\ \E ip \in (IP \union {BadIP}) \ {addr[n]} : addr' = [addr EXCEPT ![n] = ip]
  /\ UNCHANGED <<row, dns, handlerVars, late, held, admin, net, store, crash,
                 history>>

-----------------------------------------------------------------------------
Step(h) == Apply(h) \/ Fail(h) \/ Mark(h)

Next ==
  \/ \E h \in Handlers : Step(h) \/ \E n \in Name : Poll(h, n)
  \/ \E n \in Name : Add(n) \/ Del(n) \/ Rotate(n) \/ Edit(n) \/ Configure(n) \/ Move(n)
  \/ ApplyLate
  \/ Crash

\* A request runs to its end, and a client polls again and again (cron).
Fairness ==
  /\ \A h \in Handlers : WF_vars(Step(h))
  /\ \A n \in Name : WF_vars(\E h \in Handlers : Poll(h, n))

Spec == Init /\ [][Next]_vars /\ Fairness

-----------------------------------------------------------------------------
(* Properties. *)

Marking(n) == \E h \in Handlers : pc[h] = "mark" /\ req[h].name = n

(***************************************************************************)
(* last_ip, which decides between `nochg` and an UPDATE, is what the DNS   *)
(* answers, and all it answers: concurrent polls, lost and rejected        *)
(* UPDATEs, and records deleted and added again under a running request    *)
(* keep the two together.  They come apart only at the events that put a   *)
(* name among the slips, and the next update that is stored in order puts  *)
(* them together again.                                                    *)
(***************************************************************************)
LastIpTracksDns ==
  \A n \in Name \ slips :
    row[n] # NoRow /\ row[n].ip # NoIP /\ ~Marking(n) => dns[n] = {row[n].ip}

(***************************************************************************)
(* A record's last_ip was polled for with a token of that record: a        *)
(* request that outlives its record does not mark the record that took its *)
(* place, under the same name or another.                                  *)
(***************************************************************************)
OwnMarks ==
  \A n \in Name : row[n] # NoRow => row[n].ip \in claims[n] \union {NoIP}

\* The endpoint accepts this name's client as it is now.
Accepted(n) == row[n] # NoRow /\ held[n] = row[n].token /\ addr[n] \in IP

Served(n) == dns[n] = {addr[n]}

(***************************************************************************)
(* Polling settles.  Once its token, its address and the network are       *)
(* stable, a client that keeps polling has its address in last_ip,         *)
(* whatever came before, and from then on is answered `nochg`.  That this  *)
(* answer is right, its address being in the DNS and alone there, is       *)
(* claimed for names outside the slips only: a name whose two writes came  *)
(* apart, by a fault or by two polls that overtook each other, may be      *)
(* answered `nochg` for ever with another address in the DNS, until its    *)
(* client moves (doUpdate compares with last_ip and nothing else).         *)
(***************************************************************************)
PollsSettle ==
  \A n \in Name :
    <>[](Accepted(n) => row[n].ip = addr[n] /\ (n \notin slips => Served(n)))

(***************************************************************************)
(* server.go, doUpdate: a failure to store last_ip "leaves the record      *)
(* permanently "changed", so every poll re-writes DNS".  So a client that  *)
(* keeps polling has its address in the DNS, whatever the store does.      *)
(***************************************************************************)
EveryPollRewrites == \A n \in Name : <>[](Accepted(n) => Served(n))
=============================================================================
