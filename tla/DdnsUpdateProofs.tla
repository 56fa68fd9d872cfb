------------------------- MODULE DdnsUpdateProofs -------------------------
(***************************************************************************)
(* Theorems about DdnsUpdate, for every set of handlers, names and         *)
(* addresses and every bound: type correctness, OwnMarks and               *)
(* LastIpTracksDns.                                                        *)
(*                                                                         *)
(* Neither of the last two is inductive.  OwnMarks needs that a running    *)
(* request's id belongs to the record it was authenticated for or to none, *)
(* which rests on ids being handed out in order; LastIpTracksDns needs     *)
(* that the address of the last writer stays in the DNS until that writer  *)
(* has stored it.                                                          *)
(***************************************************************************)
EXTENDS DdnsUpdate, TLAPS

\* Ids are handed out in order, and no two records share one.
IdsOrdered ==
  /\ \A n \in Name : row[n] # NoRow => row[n].id <= admin
  /\ \A h \in Handlers : pc[h] # "idle" => req[h].id <= admin
  /\ \A m, n \in Name :
       row[m] # NoRow /\ row[n] # NoRow /\ row[m].id = row[n].id => m = n

\* A request whose record is still there polled for its address.
RequestsClaimed ==
  \A h \in Handlers, n \in Name :
    pc[h] # "idle" /\ row[n] # NoRow /\ row[n].id = req[h].id =>
      req[h].name = n /\ req[h].ip \in claims[n]

\* The address of the last writer is in place until it has stored it.
LastWriter ==
  \A n \in Name : last[n] # Nobody =>
    /\ pc[last[n]] = "mark"
    /\ req[last[n]].name = n
    /\ dns[n] = {req[last[n]].ip}

IInv ==
  /\ TypeOK
  /\ IdsOrdered
  /\ RequestsClaimed
  /\ OwnMarks
  /\ LastWriter
  /\ LastIpTracksDns


-----------------------------------------------------------------------------
(* The operators. *)

\* An UPDATE leaves exactly the new address, whichever families were there.
LEMMA UpdateReplaces ==
  ASSUME NEW rrs \in SUBSET IP, NEW ip \in IP
  PROVE  Update(rrs, ip) = {ip}
BY DEF Update, IP

\* MarkUpdated in a state of the invariant changes the request's own record
\* or nothing.
LEMMA MarksOwn ==
  ASSUME IInv, NEW h \in Handlers, pc[h] = "mark", MarkUpdated(req[h])
  PROVE  /\ row' \in [Name -> Row \union {NoRow}]
         /\ \A n \in Name : (row'[n] = NoRow) = (row[n] = NoRow)
         /\ \A n \in Name : row[n] # NoRow => row'[n].id = row[n].id
         /\ \A n \in Name : n # req[h].name => row'[n] = row[n]
         /\ ~StillThere(req[h]) => row' = row
         /\ StillThere(req[h]) => row'[req[h].name].ip = req[h].ip
<1>1. req[h] \in Request
  BY DEF IInv, TypeOK
<1>2. row \in [Name -> Row \union {NoRow}]
  BY DEF IInv, TypeOK
<1>3. ASSUME NEW n \in Name, row[n] # NoRow, row[n].id = req[h].id
      PROVE  n = req[h].name
  BY <1>3 DEF IInv, RequestsClaimed
<1>4. ASSUME NEW n \in Name, row[n] # NoRow
      PROVE  /\ [row[n] EXCEPT !.ip = req[h].ip] \in Row
             /\ [row[n] EXCEPT !.ip = req[h].ip].id = row[n].id
             /\ [row[n] EXCEPT !.ip = req[h].ip].ip = req[h].ip
  BY <1>1, <1>2, <1>4 DEF Row, Request
<1>5. row' = [n \in Name |-> IF row[n] # NoRow /\ row[n].id = req[h].id
                               THEN [row[n] EXCEPT !.ip = req[h].ip] ELSE row[n]]
  BY DEF MarkUpdated
<1>6. req[h].name \in Name
  BY <1>1 DEF Request
<1> QED BY <1>2, <1>3, <1>4, <1>5, <1>6, DdnsAssumption DEF StillThere

-----------------------------------------------------------------------------
(* The invariant holds initially and every step keeps it. *)

\* Every initial state: an empty table, nobody polling.
LEMMA InitIInv ==
  ASSUME Init
  PROVE  IInv
<1>1. TypeOK
  BY DdnsAssumption DEF Init, TypeOK, IP
<1> QED BY <1>1 DEF Init, IInv, IdsOrdered, RequestsClaimed, OwnMarks,
                    LastWriter, LastIpTracksDns

\* Poll: a new request, authenticated now.
LEMMA PollKeeps ==
  ASSUME IInv, NEW h \in Handlers, NEW n \in Name, Poll(h, n)
  PROVE  IInv'
<1> USE DEF IInv
<1>1. row[n] \in Row /\ addr[n] \in IP
  BY DEF Poll, Lookup, clientIP, TypeOK
<1>2. [name |-> n, id |-> row[n].id, ip |-> addr[n]] \in Request
  BY <1>1 DEF Row, Request
<1>3. TypeOK'
  BY <1>1, <1>2 DEF Poll, TypeOK, bounds
<1>4. IdsOrdered'
  BY <1>1 DEF Poll, Lookup, TypeOK, IdsOrdered, bounds
<1>5. RequestsClaimed'
  BY <1>1 DEF Poll, Lookup, TypeOK, RequestsClaimed, IdsOrdered
<1>6. OwnMarks'
  BY DEF Poll, TypeOK, OwnMarks
<1>7. LastWriter'
  BY DEF Poll, TypeOK, LastWriter
<1>8. LastIpTracksDns'
  BY DEF Poll, TypeOK, LastIpTracksDns, Marking
<1> QED BY <1>3, <1>4, <1>5, <1>6, <1>7, <1>8

\* Apply: the handler becomes the last writer and is marking.
LEMMA ApplyKeeps ==
  ASSUME IInv, NEW h \in Handlers, Apply(h)
  PROVE  IInv'
<1> USE DEF IInv
<1>1. req[h] \in Request /\ req[h].name \in Name /\ req[h].ip \in IP
  BY DEF Apply, TypeOK, Request
<1>2. Update(dns[req[h].name], req[h].ip) = {req[h].ip}
  BY <1>1, UpdateReplaces DEF TypeOK
<1>3. dns' = [dns EXCEPT ![req[h].name] = {req[h].ip}]
  BY <1>2 DEF Apply
<1>4. TypeOK'
  BY <1>1, <1>3 DEF Apply, TypeOK, bounds
<1>5. IdsOrdered' /\ RequestsClaimed' /\ OwnMarks'
  BY DEF Apply, TypeOK, IdsOrdered, RequestsClaimed, OwnMarks, bounds
<1>6. LastWriter'
  BY <1>1, <1>3, DdnsAssumption DEF Apply, TypeOK, LastWriter
<1>7. LastIpTracksDns'
  BY <1>1, <1>3 DEF Apply, TypeOK, LastIpTracksDns, Marking
<1> QED BY <1>4, <1>5, <1>6, <1>7

\* Fail: the request is gone and nothing was written by it.
LEMMA FailKeeps ==
  ASSUME IInv, NEW h \in Handlers, Fail(h)
  PROVE  IInv'
<1> USE DEF IInv
<1>1. req[h] \in Request
  BY DEF Fail, TypeOK
<1>2. net' \in 0 .. MaxNet
  BY DdnsAssumption DEF Fail, Count, TypeOK
<1>3. TypeOK'
  BY <1>1, <1>2 DEF Fail, Return, TypeOK, history
<1>4. IdsOrdered' /\ RequestsClaimed' /\ OwnMarks'
  BY DEF Fail, Return, TypeOK, IdsOrdered, RequestsClaimed, OwnMarks, history
<1>5. LastWriter'
  BY DEF Fail, Return, TypeOK, LastWriter, history
<1>6. LastIpTracksDns'
  BY DEF Fail, Return, TypeOK, LastIpTracksDns, Marking, history
<1> QED BY <1>3, <1>4, <1>5, <1>6

\* ApplyLate: a write nobody will store; the name is a slip.
LEMMA ApplyLateKeeps ==
  ASSUME IInv, ApplyLate
  PROVE  IInv'
<1> USE DEF IInv
<1>1. PICK r \in late :
        /\ late' = late \ {r}
        /\ dns' = [dns EXCEPT ![r.name] = Update(@, r.ip)]
        /\ last' = [last EXCEPT ![r.name] = Nobody]
        /\ slips' = slips \union {r.name}
        /\ UNCHANGED <<row, handlerVars, held, addr, bounds, claims>>
  BY DEF ApplyLate
<1>2. r.name \in Name /\ r.ip \in IP
  BY DEF TypeOK, Request
<1>3. dns' = [dns EXCEPT ![r.name] = {r.ip}]
  BY <1>1, <1>2, UpdateReplaces DEF TypeOK
<1>4. TypeOK'
  BY <1>1, <1>2, <1>3 DEF TypeOK, handlerVars, bounds
<1>5. IdsOrdered' /\ RequestsClaimed' /\ OwnMarks'
  BY <1>1 DEF TypeOK, IdsOrdered, RequestsClaimed, OwnMarks, handlerVars, bounds
<1>6. LastWriter'
  BY <1>1, <1>2, <1>3 DEF TypeOK, LastWriter, handlerVars
<1>7. LastIpTracksDns'
  BY <1>1, <1>2, <1>3 DEF TypeOK, LastIpTracksDns, Marking, handlerVars
<1> QED BY <1>4, <1>5, <1>6, <1>7

\* Mark: stored in order, stored out of order, or not stored.
LEMMA MarkKeeps ==
  ASSUME IInv, NEW h \in Handlers, Mark(h)
  PROVE  IInv'
<1> DEFINE n == req[h].name
<1>1. req[h] \in Request /\ n \in Name /\ req[h].ip \in IP /\ pc[h] = "mark"
  BY DEF Mark, IInv, TypeOK, Request
<1>2. /\ pc' = [pc EXCEPT ![h] = "idle"] /\ req' = [req EXCEPT ![h] = NoRow]
      /\ last' = [last EXCEPT ![n] = IF @ = h THEN Nobody ELSE @]
      /\ UNCHANGED <<dns, late, held, addr, admin, moves, net, crash, claims>>
  BY DEF Mark, Return
<1>3. \/ /\ MarkUpdated(req[h])
         /\ slips' = IF last[n] = h /\ StillThere(req[h])
                       THEN slips \ {n} ELSE slips \union {n}
         /\ UNCHANGED store
      \/ /\ store < MaxStore /\ store' = store + 1
         /\ slips' = slips \union {n}
         /\ UNCHANGED row
  BY DEF Mark, Count
<1>4. /\ row' \in [Name -> Row \union {NoRow}]
      /\ \A m \in Name : (row'[m] = NoRow) = (row[m] = NoRow)
      /\ \A m \in Name : row[m] # NoRow => row'[m].id = row[m].id
      /\ \A m \in Name : m # n => row'[m] = row[m]
      /\ row'[n] = row[n] \/ (StillThere(req[h]) /\ row'[n].ip = req[h].ip)
  BY <1>1, <1>3, MarksOwn DEF IInv, TypeOK
<1>5. store' \in 0 .. MaxStore
  BY <1>3, DdnsAssumption DEF IInv, TypeOK
<1>6. TypeOK'
  BY <1>1, <1>2, <1>3, <1>4, <1>5 DEF IInv, TypeOK
<1>7. IdsOrdered'
  BY <1>2, <1>4 DEF IInv, TypeOK, IdsOrdered
<1>8. RequestsClaimed'
  BY <1>2, <1>4 DEF IInv, TypeOK, RequestsClaimed
<1>9. OwnMarks'
  BY <1>1, <1>2, <1>4 DEF IInv, TypeOK, OwnMarks, RequestsClaimed, StillThere
<1>10. LastWriter'
  BY <1>1, <1>2 DEF IInv, TypeOK, LastWriter
<1>11. LastIpTracksDns'
  <2>1. SUFFICES ASSUME NEW m \in Name \ slips', row'[m] # NoRow,
                        row'[m].ip # NoIP, ~Marking(m)'
                 PROVE  dns'[m] = {row'[m].ip}
    BY DEF LastIpTracksDns
  <2>2. CASE m = n
    <3>1. MarkUpdated(req[h]) /\ last[n] = h /\ StillThere(req[h])
      BY <1>3, <2>2
    <3>2. row'[n].ip = req[h].ip
      BY <1>1, <3>1, MarksOwn
    <3>3. dns[n] = {req[h].ip}
      BY <1>1, <3>1, DdnsAssumption DEF IInv, LastWriter
    <3> QED BY <1>2, <2>2, <3>2, <3>3
  <2>3. CASE m # n
    <3>1. m \notin slips /\ row'[m] = row[m]
      BY <1>3, <1>4, <2>3
    <3>2. ~Marking(m)
      BY <1>1, <1>2, <2>1, <2>3 DEF Marking, IInv, TypeOK
    <3> QED BY <1>2, <2>1, <3>1, <3>2 DEF IInv, LastIpTracksDns
  <2> QED BY <2>2, <2>3
<1> QED BY <1>6, <1>7, <1>8, <1>9, <1>10, <1>11 DEF IInv

\* Crash: no request is left; the names being marked are slips.
LEMMA CrashKeeps ==
  ASSUME IInv, Crash
  PROVE  IInv'
<1> USE DEF IInv
<1>1. crash' \in 0 .. MaxCrash
  BY DdnsAssumption DEF Crash, Count, TypeOK
<1>2. \A h \in Handlers : pc[h] # "idle" => req[h] \in Request /\ req[h].name \in Name
  BY DEF TypeOK, Request
<1>3. late' \subseteq Request /\ slips' \subseteq Name
  BY <1>2 DEF Crash, TypeOK
<1>4. TypeOK'
  BY <1>1, <1>3 DEF Crash, TypeOK
<1>5. IdsOrdered' /\ RequestsClaimed' /\ OwnMarks' /\ LastWriter'
  BY DEF Crash, TypeOK, IdsOrdered, RequestsClaimed, OwnMarks, LastWriter
<1>6. LastIpTracksDns'
  BY DEF Crash, TypeOK, LastIpTracksDns, Marking
<1> QED BY <1>4, <1>5, <1>6

\* Add: an id no record and no request has.
LEMMA AddKeeps ==
  ASSUME IInv, NEW n \in Name, Add(n)
  PROVE  IInv'
<1> USE DEF IInv
<1>1. admin \in Nat /\ admin' = admin + 1 /\ admin' \in 0 .. MaxAdmin /\ admin + 1 \in Id
  BY DdnsAssumption DEF Add, Count, TypeOK, Id
<1> DEFINE new == [id |-> admin + 1, token |-> admin + 1, ip |-> NoIP]
<1>2. new \in Row /\ row' = [row EXCEPT ![n] = new] /\ new.id = admin + 1 /\ new.ip = NoIP
  BY <1>1 DEF Add, NewId, Row
<1> HIDE DEF new
<1>3. TypeOK'
  BY <1>1, <1>2 DEF Add, TypeOK, handlerVars
<1>4. \A m \in Name : row[m] # NoRow => row[m].id \in Nat
  BY DEF TypeOK, Row, Id
<1>5. \A h \in Handlers : pc[h] # "idle" => req[h].id \in Nat
  BY DEF TypeOK, Request, Id
<1>6. IdsOrdered'
  BY <1>1, <1>2, <1>4, <1>5 DEF Add, TypeOK, IdsOrdered, handlerVars
<1>7. RequestsClaimed'
  BY <1>1, <1>2, <1>5 DEF Add, TypeOK, IdsOrdered, RequestsClaimed, handlerVars
<1>8. OwnMarks' /\ LastWriter'
  BY <1>2 DEF Add, TypeOK, OwnMarks, LastWriter, handlerVars
<1>9. LastIpTracksDns'
  BY <1>2 DEF Add, TypeOK, LastIpTracksDns, Marking, handlerVars
<1> QED BY <1>3, <1>6, <1>7, <1>8, <1>9

\* Del and Rotate: last_ip goes with its record or stays.
LEMMA DelRotateKeep ==
  ASSUME IInv, NEW n \in Name, Del(n) \/ Rotate(n)
  PROVE  IInv'
<1> USE DEF IInv
<1>1. admin \in Nat /\ admin' = admin + 1 /\ admin' \in 0 .. MaxAdmin /\ admin + 1 \in Id
  BY DdnsAssumption DEF Del, Rotate, Count, TypeOK, Id
<1>2. /\ UNCHANGED <<dns, handlerVars, late, held, addr, moves, net, store, crash, history>>
      /\ row' \in [Name -> Row \union {NoRow}]
      /\ \A m \in Name : row'[m] # NoRow =>
           row[m] # NoRow /\ row'[m].id = row[m].id /\ row'[m].ip = row[m].ip
  <2>1. CASE Del(n)
    BY <2>1 DEF Del, TypeOK
  <2>2. CASE Rotate(n)
    <3>1. row[n] \in Row
      BY <2>2 DEF Rotate, TypeOK
    <3> DEFINE new == [row[n] EXCEPT !.token = admin + 1]
    <3>2. new \in Row /\ new.id = row[n].id /\ new.ip = row[n].ip
      BY <1>1, <3>1 DEF Row
    <3>3. row' = [row EXCEPT ![n] = new]
      BY <2>2 DEF Rotate
    <3> HIDE DEF new
    <3> QED BY <2>2, <3>2, <3>3 DEF Rotate, TypeOK
  <2> QED BY <2>1, <2>2
<1>3. TypeOK'
  BY <1>1, <1>2 DEF TypeOK, handlerVars, history
<1>4. \A m \in Name : row[m] # NoRow => row[m].id \in Nat
  BY DEF TypeOK, Row, Id
<1>5. \A h \in Handlers : pc[h] # "idle" => req[h].id \in Nat
  BY DEF TypeOK, Request, Id
<1>6. IdsOrdered'
  BY <1>1, <1>2, <1>4, <1>5 DEF IdsOrdered, handlerVars
<1>7. RequestsClaimed' /\ OwnMarks' /\ LastWriter'
  BY <1>2 DEF RequestsClaimed, OwnMarks, LastWriter, handlerVars, history
<1>8. LastIpTracksDns'
  BY <1>2 DEF LastIpTracksDns, Marking, handlerVars, history
<1> QED BY <1>3, <1>6, <1>7, <1>8

\* Edit: the name is a slip until the next update.
LEMMA EditKeeps ==
  ASSUME IInv, NEW n \in Name, Edit(n)
  PROVE  IInv'
<1> USE DEF IInv
<1>1. admin \in Nat /\ admin' = admin + 1 /\ admin' \in 0 .. MaxAdmin
  BY DdnsAssumption DEF Edit, Count, TypeOK
<1>2. TypeOK'
  BY <1>1 DEF Edit, TypeOK, handlerVars
<1>3. \A m \in Name : row[m] # NoRow => row[m].id \in Nat
  BY DEF TypeOK, Row, Id
<1>4. \A h \in Handlers : pc[h] # "idle" => req[h].id \in Nat
  BY DEF TypeOK, Request, Id
<1>5. IdsOrdered'
  BY <1>1, <1>3, <1>4 DEF Edit, IdsOrdered, handlerVars
<1>6. RequestsClaimed' /\ OwnMarks'
  BY DEF Edit, RequestsClaimed, OwnMarks, handlerVars
<1>7. LastWriter' /\ LastIpTracksDns'
  BY DEF Edit, TypeOK, LastWriter, LastIpTracksDns, Marking, handlerVars
<1> QED BY <1>2, <1>5, <1>6, <1>7

\* The clients change their own token and address only.
LEMMA ClientKeeps ==
  ASSUME IInv, NEW n \in Name, Configure(n) \/ Move(n)
  PROVE  IInv'
<1> USE DEF IInv
<1>1. UNCHANGED <<row, dns, handlerVars, late, admin, net, store, crash, history>>
  BY DEF Configure, Move, bounds
<1>2. held' \in [Name -> 0 .. MaxAdmin]
  BY DEF Configure, Move, TypeOK, Row, Id
<1>3. addr' \in [Name -> IP \union {BadIP}]
  BY DEF Configure, Move, TypeOK
<1>4. moves' \in 0 .. MaxMoves
  BY DdnsAssumption DEF Configure, Move, Count, TypeOK, bounds
<1>5. TypeOK'
  BY <1>1, <1>2, <1>3, <1>4 DEF TypeOK, handlerVars, history
<1>6. (IdsOrdered /\ RequestsClaimed /\ OwnMarks /\ LastWriter /\ LastIpTracksDns)'
  BY <1>1 DEF IdsOrdered, RequestsClaimed, OwnMarks, LastWriter,
              LastIpTracksDns, Marking, handlerVars, history
<1> QED BY <1>5, <1>6

\* One step of anyone.
LEMMA NextIInv ==
  ASSUME IInv, [Next]_vars
  PROVE  IInv'
<1>1. CASE Next
  BY <1>1, PollKeeps, ApplyKeeps, FailKeeps, ApplyLateKeeps, MarkKeeps, CrashKeeps,
     AddKeeps, DelRotateKeep, EditKeeps, ClientKeeps DEF Next, Step
<1>2. CASE UNCHANGED vars
  BY <1>2 DEF vars, handlerVars, bounds, history, IInv, TypeOK, IdsOrdered,
     RequestsClaimed, OwnMarks, LastWriter, LastIpTracksDns, Marking
<1> QED BY <1>1, <1>2

-----------------------------------------------------------------------------
(* The theorems. *)

\* The inductive invariant holds in every reachable state.
THEOREM Inductive == Spec => []IInv
<1> QED BY InitIInv, NextIInv, PTL DEF Spec

\* Type correctness of the table, the DNS, the requests and the bounds.
THEOREM TypeCorrect == Spec => []TypeOK
<1>1. IInv => TypeOK
  BY DEF IInv
<1> QED BY <1>1, Inductive, PTL

\* A request that outlives its record marks no other record.
THEOREM MarksStayOwn == Spec => []OwnMarks
<1>1. IInv => OwnMarks
  BY DEF IInv
<1> QED BY <1>1, Inductive, PTL

\* Outside the slips, last_ip is what the DNS answers: `nochg` is right.
THEOREM NochgIsRight == Spec => []LastIpTracksDns
<1>1. IInv => LastIpTracksDns
  BY DEF IInv
<1> QED BY <1>1, Inductive, PTL
=============================================================================
