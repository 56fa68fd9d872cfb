------------------------- MODULE ZoneHistoryProofs -------------------------
(***************************************************************************)
(* Theorems about ZoneHistory, for every zone, retention and number of     *)
(* editors.                                                                *)
(***************************************************************************)
EXTENDS ZoneHistory, FiniteSetTheorems, TLAPS

NoClash(R) == \A r, s \in R : <<r, s>> \notin Clash

\* What named never lets a zone lose: an NS record, and no data beside a CNAME.
Sound(z) == z \in Content /\ z \intersect ApexNS # {} /\ NoClash(z)

ZoneInv == \A i \in 1 .. serial : Sound(was[i])

\* Ids are unique, and the newest Keep ids that were handed out are held.
StoreInv ==
  /\ IsFiniteSet(snaps)
  /\ \A s \in snaps : s.id \in 1 .. puts
  /\ \A s, t \in snaps : s.id = t.id => s = t
  /\ \A i \in 1 .. puts : (\E s \in snaps : s.id = i) \/ puts - i >= Keep

TrueInv == \A s \in snaps : s.serial \in 1 .. serial /\ s.recs = was[s.serial]

\* An editor past its transfer knows a zone that was; past its Put, the
\* snapshot with its id is that zone.
EditorInv(e) ==
  /\ pc[e] \in {"put", "update"} => live[e] \in 1 .. serial
  /\ pc[e] = "update" =>
       /\ snapId[e] \in 1 .. puts
       /\ \A s \in snaps : s.id = snapId[e] => s.recs = was[live[e]]

\* The operations of a restore are the delta from the zone they were computed at.
JobInv(e) ==
  /\ job[e].first = "del" /\ NoClash(job[e].add)
  /\ job[e].kind = "restore" =>
       /\ planned[e] \in 1 .. serial
       /\ want[e] \subseteq Owned /\ NoClash(want[e])
       /\ job[e] = restoreOps(want[e], ownedBy(was[planned[e]]))

PollInv == ppc = "put" => moved \in 1 .. serial

IInv ==
  /\ TypeOK /\ ZoneInv /\ StoreInv /\ TrueInv /\ PollInv
  /\ \A e \in Editors : EditorInv(e) /\ JobInv(e)

-----------------------------------------------------------------------------
\* named's processing of an UPDATE, deletions first, leaves a sound zone.
LEMMA ProcessedSound ==
  ASSUME NEW z, Sound(z), NEW j \in Job, j.first = "del", NoClash(j.add),
         NEW y \in Processed(z, j)
  PROVE  Sound(y)
<1>1. PICK d \in Deleted(z, j) : y = Added(d, j.add)
  BY DEF Processed
<1>2. d \subseteq z /\ d \intersect ApexNS # {}
  BY <1>1 DEF Deleted, Sound
<1>3. j.add \subseteq Rec
  BY DEF Job, Content
<1>4. Sound(d)
  BY <1>2 DEF Sound, NoClash, Content
<1>5. NoClash(y)
  <2> SUFFICES ASSUME NEW r \in y, NEW s \in y PROVE <<r, s>> \notin Clash
    BY DEF NoClash
  <2>1. r \in Rec /\ s \in Rec
    BY <1>1, <1>3, <1>4 DEF Added, Sound, Content
  <2>2. CASE r \in d /\ s \in d
    BY <2>2, <1>4 DEF Sound, NoClash
  <2>3. CASE r \notin d /\ s \in d
    BY <2>3, <1>1 DEF Added
  <2>4. CASE r \in d /\ s \notin d
    BY <2>1, <2>4, <1>1, HistoryAssumption DEF Added
  <2>5. CASE r \notin d /\ s \notin d
    BY <2>5, <1>1 DEF Added, NoClash
  <2> QED
    BY <2>2, <2>3, <2>4, <2>5
<1> QED
  BY <1>1, <1>2, <1>3, <1>4, <1>5 DEF Added, Sound, Content

\* A change of the zone keeps what was and ends in the zone it names.
LEMMA ChangeKeeps ==
  ASSUME was \in Seq(Content), was # <<>>, ZoneInv, NEW z, Sound(z), ChangeTo(z)
  PROVE  /\ was' \in Seq(Content) /\ was' # <<>>
         /\ serial' >= serial /\ serial \in Nat /\ serial' \in Nat
         /\ \A i \in 1 .. serial : was'[i] = was[i]
         /\ was'[serial'] = z
         /\ ZoneInv'
<1>1. CASE z = Zone
  BY <1>1 DEF ChangeTo, Zone, serial, ZoneInv
<1>2. CASE z # Zone
  <2>1. was' = Append(was, z) /\ z \in Content
    BY <1>2 DEF ChangeTo, Sound
  <2> QED
    BY <2>1 DEF serial, ZoneInv, Sound
<1> QED
  BY <1>1, <1>2

\* Snapshots newer than one of id i number at most as many as ids handed out since.
LEMMA NewerBounded ==
  ASSUME NEW S, \A s, t \in S : s.id = t.id => s = t,
         NEW n \in Nat, \A s \in S : s.id \in 1 .. n, NEW i \in 1 .. n
  PROVE  Cardinality({t \in S : t.id > i}) <= n - i
<1> DEFINE T == {t \in S : t.id > i}
           f == [t \in T |-> t.id]
<1>1. f \in Injection(T, (i + 1) .. n)
  BY DEF Injection, IsInjective
<1>2. /\ IsFiniteSet((i + 1) .. n)
      /\ Cardinality((i + 1) .. n) = IF i + 1 > n THEN 0 ELSE n - (i + 1) + 1
  BY FS_Interval
<1>3. Cardinality(T) <= Cardinality((i + 1) .. n)
  <2> HIDE DEF f, T
  <2> QED BY <1>1, <1>2, FS_Injection
<1> QED
  BY <1>2, <1>3

\* Insert and prune keep the newest Keep ids, and what is kept is unchanged.
LEMMA PutKeeps ==
  ASSUME StoreInv, puts \in Nat, snaps \subseteq Snapshot,
         NEW ser \in Nat, NEW recs \in Content, SnapshotPut(ser, recs)
  PROVE  /\ StoreInv' /\ puts' = puts + 1 /\ snaps' \subseteq Snapshot
         /\ \A s \in snaps' : s \in snaps \/ (s.id = puts + 1 /\ s.serial = ser /\ s.recs = recs)
<1> DEFINE new == [id |-> puts + 1, serial |-> ser, recs |-> recs]
           S == snaps \union {new}
<1>1. puts' = puts + 1 /\ snaps' = Newest(S, Keep)
  BY DEF SnapshotPut
<1>2. /\ new \in Snapshot /\ S \subseteq Snapshot
      /\ new.id = puts + 1 /\ new.serial = ser /\ new.recs = recs
  BY DEF Snapshot
<1>3. IsFiniteSet(S)
  BY FS_AddElement DEF StoreInv
<1>4. \A s \in S : s.id \in 1 .. puts + 1
  BY <1>2 DEF StoreInv
<1>5. \A s, t \in S : s.id = t.id => s = t
  BY <1>2 DEF StoreInv
<1>6. snaps' \subseteq S
  BY <1>1 DEF Newest
<1>7. IsFiniteSet(snaps')
  BY <1>3, <1>6, FS_Subset
<1>8. \A i \in 1 .. puts' : (\E s \in snaps' : s.id = i) \/ puts' - i >= Keep
  <2> SUFFICES ASSUME NEW i \in 1 .. puts', ~ \E s \in snaps' : s.id = i
               PROVE  puts' - i >= Keep
    OBVIOUS
  <2>1. puts' \in Nat /\ (\A s \in S : s.id \in 1 .. puts')
    BY <1>1, <1>4
  <2>2. CASE \E s \in S : s.id = i
    <3>1. PICK s \in S : s.id = i
      BY <2>2
    <3> HIDE DEF S
    <3> DEFINE c == Cardinality({t \in S : t.id > i})
    <3>2. c <= puts' - i
      BY <1>5, <2>1, NewerBounded
    <3>3. {t \in S : t.id > i} \in SUBSET S
      OBVIOUS
    <3>4. c \in Nat
      BY <1>3, <3>3, FS_Subset, FS_CardinalityType
    <3>5. ~(c < Keep)
      <4>1. ~(Cardinality({t \in S : t.id > s.id}) < Keep)
        BY <1>1, <3>1 DEF Newest
      <4> QED BY <3>1, <4>1
    <3>6. puts' \in Int /\ i \in Int /\ Keep \in Int
      BY <2>1, HistoryAssumption
    <3>7. \A x, y, k \in Int : x <= y /\ ~(x < k) => y >= k
      OBVIOUS
    <3>8. c \in Int /\ puts' - i \in Int
      BY <3>4, <3>6
    <3> HIDE DEF c
    <3> QED
      BY <3>2, <3>5, <3>6, <3>7, <3>8, Zenon
  <2>3. CASE ~ \E s \in S : s.id = i
    <3>1. i \in 1 .. puts /\ ~ \E s \in snaps : s.id = i
      BY <1>1, <1>2, <2>3
    <3> QED
      BY <1>1, <3>1, HistoryAssumption DEF StoreInv
  <2> QED
    BY <2>2, <2>3
<1>9. StoreInv'
  <2>1. \A s \in snaps' : s.id \in 1 .. puts'
    BY <1>1, <1>4, <1>6
  <2>2. \A s, t \in snaps' : s.id = t.id => s = t
    BY <1>5, <1>6
  <2> QED
    BY <1>7, <1>8, <2>1, <2>2 DEF StoreInv
<1> QED
  BY <1>1, <1>2, <1>6, <1>9

\* What an undisturbed restore leaves.
LEMMA RestoreLeaves ==
  ASSUME NEW z, Sound(z), NEW w \in SUBSET Owned, NoClash(w),
         NEW y \in Processed(z, restoreOps(w, ownedBy(z)))
  PROVE  /\ w \subseteq y
         /\ y \intersect Child = z \intersect Child
         /\ ownedBy(y) \ w # {} =>
              /\ \E n \in ApexNS : ownedBy(y) \ w = {n}
              /\ z \intersect w \intersect ApexNS = {}
<1> DEFINE j == restoreOps(w, ownedBy(z))
<1>1. /\ j.first = "del" /\ ~j.whole /\ j.del = ownedBy(z) \ w /\ j.add = w \ ownedBy(z)
  BY DEF restoreOps, NoJob
<1>2. PICK d \in Deleted(z, j) : y = Added(d, j.add)
  BY <1>1 DEF Processed
<1>3. \/ d = z \ j.del
      \/ /\ z \intersect ApexNS \subseteq j.del
         /\ \E n \in z \intersect ApexNS : d = (z \ j.del) \union {n}
  BY <1>1, <1>2 DEF Deleted
<1>4. z \subseteq Rec /\ ApexNS \subseteq Owned /\ w \subseteq Rec
  BY HistoryAssumption DEF Sound, Content, Owned
<1>5. \A r \in j.add, s \in d : <<r, s>> \notin Clash
  <2> SUFFICES ASSUME NEW r \in j.add, NEW s \in d PROVE <<r, s>> \notin Clash
    OBVIOUS
  <2>1. r \in w
    BY <1>1
  <2>2. s \in w \/ s \in Child \/ s \in ApexNS
    BY <1>1, <1>3, <1>4 DEF ownedBy, Owned
  <2>3. CASE s \in w
    BY <2>1, <2>3 DEF NoClash
  <2>4. CASE s \in Child \/ s \in ApexNS
    BY <2>4, HistoryAssumption
  <2> QED
    BY <2>2, <2>3, <2>4
<1>6. y = d \union (w \ ownedBy(z))
  BY <1>1, <1>2, <1>5 DEF Added
<1> HIDE DEF j
<1>7. w \subseteq y
  BY <1>1, <1>3, <1>6 DEF ownedBy
<1>8. y \intersect Child = z \intersect Child
  BY <1>1, <1>3, <1>4, <1>6 DEF ownedBy, Owned
<1>9. ASSUME ownedBy(y) \ w # {}
      PROVE  /\ \E n \in ApexNS : ownedBy(y) \ w = {n}
             /\ z \intersect w \intersect ApexNS = {}
  <2>1. CASE d = z \ j.del
    BY <1>1, <1>6, <1>9, <2>1 DEF ownedBy
  <2>2. ASSUME NEW n \in z \intersect ApexNS, d = (z \ j.del) \union {n},
               z \intersect ApexNS \subseteq j.del
        PROVE  /\ ownedBy(y) \ w = {n} /\ n \in ApexNS
               /\ z \intersect w \intersect ApexNS = {}
    <3>1. n \in Owned /\ n \notin w
      BY <1>1, <1>4, <2>2
    <3> QED
      BY <1>1, <1>4, <1>6, <2>2, <3>1 DEF ownedBy
  <2> QED
    BY <1>3, <2>1, <2>2
<1> QED
  BY <1>7, <1>8, <1>9
-----------------------------------------------------------------------------
\* An editor that is idle has nothing to keep.
LEMMA ReturnKeeps ==
  ASSUME TypeOK, \A e \in Editors : EditorInv(e) /\ JobInv(e),
         NEW e \in Editors, Return(e),
         serial' >= serial, serial \in Nat, serial' \in Nat,
         \A i \in 1 .. serial : was'[i] = was[i], UNCHANGED storeVars
  PROVE  /\ pc' \in [Editors -> At] /\ job' \in [Editors -> Job]
         /\ live' \in [Editors -> 0 .. serial'] /\ snapId' \in [Editors -> 0 .. puts']
         /\ want' \in [Editors -> Content] /\ planned' \in [Editors -> 0 .. serial']
         /\ \A q \in Editors : EditorInv(q)' /\ JobInv(q)'
<1>1. NoJob \in Job /\ NoJob.first = "del" /\ NoJob.kind = "edit" /\ NoJob.add = {}
  BY DEF NoJob, Job, Content
<1>2. /\ pc' \in [Editors -> At] /\ job' \in [Editors -> Job]
      /\ want' \in [Editors -> Content]
  BY <1>1 DEF TypeOK, Return, At, Content
<1>3. /\ live' \in [Editors -> 0 .. serial'] /\ planned' \in [Editors -> 0 .. serial']
      /\ snapId' \in [Editors -> 0 .. puts']
  BY DEF TypeOK, Return, storeVars
<1>4. ASSUME NEW q \in Editors PROVE EditorInv(q)' /\ JobInv(q)'
  <2>1. CASE q = e
    <3>1. pc'[q] = "idle" /\ job'[q] = NoJob
      BY <2>1 DEF Return, TypeOK
    <3> QED
      BY <3>1, <1>1 DEF EditorInv, JobInv, NoClash
  <2>2. CASE q # e
    <3>1. /\ pc'[q] = pc[q] /\ job'[q] = job[q] /\ live'[q] = live[q]
          /\ snapId'[q] = snapId[q] /\ want'[q] = want[q] /\ planned'[q] = planned[q]
      BY <2>2 DEF Return, TypeOK
    <3>2. EditorInv(q) /\ JobInv(q) /\ snaps' = snaps /\ puts' = puts
      BY DEF storeVars
    <3>3. EditorInv(q)'
      BY <3>1, <3>2 DEF EditorInv
    <3>4. JobInv(q)'
      <4>1. job[q].kind = "restore" => was'[planned[q]] = was[planned[q]]
        BY <3>2 DEF JobInv
      <4>2. job[q].kind = "restore" => planned[q] \in 1 .. serial'
        BY <3>2 DEF JobInv
      <4> QED
        BY <3>1, <3>2, <4>1, <4>2 DEF JobInv
    <3> QED
      BY <3>3, <3>4
  <2> QED
    BY <2>1, <2>2
<1> QED
  BY <1>2, <1>3, <1>4

\* A step that only returns an editor, after a fault or a refusal.
LEMMA ReturnOnly ==
  ASSUME IInv, NEW e \in Editors, Return(e), UNCHANGED <<was, storeVars, pollVars>>,
         edits' \in 0 .. MaxEdits, others' \in 0 .. MaxOthers, faults' \in 0 .. MaxFaults
  PROVE  IInv'
<1>1. was' = was /\ serial' = serial /\ serial \in Nat /\ snaps' = snaps /\ puts' = puts
  BY DEF IInv, TypeOK, serial, storeVars
<1>2. /\ pc' \in [Editors -> At] /\ job' \in [Editors -> Job]
      /\ live' \in [Editors -> 0 .. serial'] /\ snapId' \in [Editors -> 0 .. puts']
      /\ want' \in [Editors -> Content] /\ planned' \in [Editors -> 0 .. serial']
      /\ \A q \in Editors : EditorInv(q)' /\ JobInv(q)'
  BY <1>1, ReturnKeeps DEF IInv
<1>3. TypeOK'
  BY <1>1, <1>2 DEF IInv, TypeOK, pollVars
<1>4. ZoneInv' /\ TrueInv' /\ StoreInv'
  BY <1>1 DEF IInv, ZoneInv, TrueInv, StoreInv
<1>5. PollInv'
  BY <1>1 DEF IInv, PollInv, pollVars
<1> QED
  BY <1>2, <1>3, <1>4, <1>5 DEF IInv
-----------------------------------------------------------------------------
\* The zone and the table stay as they are.
LEMMA UnchangedInv ==
  ASSUME IInv, UNCHANGED <<was, storeVars>>
  PROVE  /\ ZoneInv' /\ StoreInv' /\ TrueInv'
         /\ was' = was /\ serial' = serial /\ serial \in Nat \ {0}
         /\ snaps' = snaps /\ puts' = puts
<1>1. was' = was /\ snaps' = snaps /\ puts' = puts /\ serial' = serial
  BY DEF storeVars, serial
<1>2. serial \in Nat \ {0}
  BY DEF IInv, TypeOK, serial
<1> QED
  BY <1>1, <1>2 DEF IInv, ZoneInv, StoreInv, TrueInv

\* An editor begins: its job has no operations that clash with each other.
LEMMA BeginStep ==
  ASSUME IInv, NEW e \in Editors, NEW j \in Job, Begin(e, j),
         j.first = "del", NoClash(j.add),
         NEW w \in Content, NEW p \in 0 .. serial,
         want' = [want EXCEPT ![e] = w], planned' = [planned EXCEPT ![e] = p],
         j.kind = "restore" =>
           /\ p \in 1 .. serial /\ w \subseteq Owned /\ NoClash(w)
           /\ j = restoreOps(w, ownedBy(was[p]))
  PROVE  IInv'
<1>1. /\ ZoneInv' /\ StoreInv' /\ TrueInv' /\ was' = was /\ serial' = serial
      /\ serial \in Nat \ {0} /\ snaps' = snaps /\ puts' = puts
  BY UnchangedInv DEF Begin
<1>2. TypeOK'
  BY <1>1, HistoryAssumption DEF IInv, TypeOK, Begin, At, pollVars
<1>3. PollInv'
  BY <1>1 DEF IInv, PollInv, Begin, pollVars
<1>4. ASSUME NEW q \in Editors PROVE EditorInv(q)' /\ JobInv(q)'
  <2>1. live' = live /\ snapId' = snapId
    BY DEF Begin
  <2>2. EditorInv(q)'
    BY <1>1, <2>1 DEF IInv, TypeOK, EditorInv, Begin
  <2>3. CASE q = e
    <3>1. job'[q] = j /\ want'[q] = w /\ planned'[q] = p
      BY <2>3 DEF IInv, TypeOK, Begin
    <3> QED
      BY <1>1, <2>2, <3>1 DEF JobInv
  <2>4. CASE q # e
    <3>1. job'[q] = job[q] /\ want'[q] = want[q] /\ planned'[q] = planned[q]
      BY <2>4 DEF IInv, TypeOK, Begin
    <3> QED
      BY <1>1, <2>2, <3>1 DEF IInv, JobInv
  <2> QED
    BY <2>3, <2>4
<1> QED
  BY <1>1, <1>2, <1>3, <1>4 DEF IInv

\* record add, del and delset.
LEMMA SubmitStep == ASSUME IInv, NEW e \in Editors, Submit(e) PROVE IInv'
<1>1. ASSUME NEW j \in Job, Begin(e, j), j.first = "del", j.kind = "edit", NoClash(j.add)
      PROVE  IInv'
  <2>1. /\ want' = [want EXCEPT ![e] = want[e]] /\ want[e] \in Content
        /\ planned' = [planned EXCEPT ![e] = planned[e]] /\ planned[e] \in 0 .. serial
    BY DEF IInv, TypeOK, Submit
  <2> QED
    BY <1>1, <2>1, BeginStep
<1>2. ASSUME NEW r \in Rec PROVE NoClash({r}) /\ {r} \in Content
  BY HistoryAssumption DEF NoClash, Content
<1>3. ASSUME NEW r \in Rec, Begin(e, [NoJob EXCEPT !.add = {r}]) PROVE IInv'
  <2> DEFINE j == [NoJob EXCEPT !.add = {r}]
  <2>1. j \in Job /\ j.first = "del" /\ j.kind = "edit" /\ j.add = {r}
    BY <1>2 DEF NoJob, Job, Content
  <2> HIDE DEF j
  <2> QED BY <1>1, <1>2, <1>3, <2>1 DEF j
<1>4. ASSUME NEW r \in Rec, Begin(e, [NoJob EXCEPT !.del = {r}]) PROVE IInv'
  <2> DEFINE j == [NoJob EXCEPT !.del = {r}]
  <2>1. j \in Job /\ j.first = "del" /\ j.kind = "edit" /\ j.add = {}
    BY <1>2 DEF NoJob, Job, Content
  <2>2. NoClash(j.add)
    BY <2>1 DEF NoClash
  <2> HIDE DEF j
  <2> QED BY <1>1, <1>4, <2>1, <2>2 DEF j
<1>5. ASSUME NEW R \in RRsets, Begin(e, [NoJob EXCEPT !.del = R, !.whole = TRUE])
      PROVE  IInv'
  <2> DEFINE j == [NoJob EXCEPT !.del = R, !.whole = TRUE]
  <2>1. R \in Content
    BY HistoryAssumption DEF Content
  <2>2. j \in Job /\ j.first = "del" /\ j.kind = "edit" /\ j.add = {}
    BY <2>1 DEF NoJob, Job, Content
  <2>3. NoClash(j.add)
    BY <2>2 DEF NoClash
  <2> HIDE DEF j
  <2> QED BY <1>1, <1>5, <2>2, <2>3 DEF j
<1> QED
  BY <1>3, <1>4, <1>5 DEF Submit

\* A restore's plan comes from a snapshot, which is a zone that was.
LEMMA RestorePlanStep == ASSUME IInv, NEW e \in Editors, RestorePlan(e) PROVE IInv'
<1>1. PICK s \in snaps :
        /\ Begin(e, restoreOps(ownedBy(s.recs), ownedBy(Zone)))
        /\ want' = [want EXCEPT ![e] = ownedBy(s.recs)]
        /\ planned' = [planned EXCEPT ![e] = serial]
  BY DEF RestorePlan
<1> DEFINE w == ownedBy(s.recs)
           j == restoreOps(w, ownedBy(Zone))
<1>2. serial \in Nat \ {0} /\ Sound(was[serial])
  BY DEF IInv, TypeOK, serial, ZoneInv
<1>3. Sound(s.recs)
  BY DEF IInv, TrueInv, ZoneInv
<1>4. w \in Content /\ w \subseteq Owned /\ NoClash(w)
  BY <1>3 DEF Sound, Content, ownedBy, NoClash
<1>5. ownedBy(Zone) \in Content
  BY <1>2 DEF Zone, Sound, Content, ownedBy
<1>6. /\ j \in Job /\ j.first = "del" /\ j.kind = "restore" /\ j.add \subseteq w
  <2> HIDE DEF w
  <2> QED BY <1>4, <1>5 DEF restoreOps, NoJob, Job, Content
<1>7. NoClash(j.add)
  BY <1>4, <1>6 DEF NoClash
<1>8. j = restoreOps(w, ownedBy(was[serial]))
  BY DEF Zone
<1>9. /\ Begin(e, j) /\ want' = [want EXCEPT ![e] = w]
      /\ planned' = [planned EXCEPT ![e] = serial]
  BY <1>1
<1>10. serial \in 0 .. serial /\ serial \in 1 .. serial
  BY <1>2
<1> HIDE DEF j, w
<1> QED
  BY <1>4, <1>6, <1>7, <1>8, <1>9, <1>10, BeginStep

\* The transfer: the editor knows the zone as it is.
LEMMA PrepareStep == ASSUME IInv, NEW e \in Editors, Prepare(e) PROVE IInv'
<1>1. CASE /\ pc' = [pc EXCEPT ![e] = "put"]
           /\ live' = [live EXCEPT ![e] = serial]
           /\ UNCHANGED <<job, snapId, want, planned, bounds>>
  <2>1. /\ ZoneInv' /\ StoreInv' /\ TrueInv' /\ was' = was /\ serial' = serial
        /\ serial \in Nat \ {0} /\ snaps' = snaps /\ puts' = puts
    BY UnchangedInv DEF Prepare
  <2>2. TypeOK'
    BY <1>1, <2>1 DEF IInv, TypeOK, At, Prepare, pollVars, bounds
  <2>3. PollInv'
    BY <2>1 DEF IInv, PollInv, Prepare, pollVars
  <2>4. ASSUME NEW q \in Editors PROVE EditorInv(q)' /\ JobInv(q)'
    <3>1. EditorInv(q)'
      BY <1>1, <2>1 DEF IInv, TypeOK, EditorInv
    <3>2. JobInv(q)'
      BY <1>1, <2>1 DEF IInv, JobInv
    <3> QED
      BY <3>1, <3>2
  <2> QED
    BY <2>1, <2>2, <2>3, <2>4 DEF IInv
<1>2. CASE Return(e) /\ (UNCHANGED bounds \/ Fault)
  <2>1. /\ edits' \in 0 .. MaxEdits /\ others' \in 0 .. MaxOthers
        /\ faults' \in 0 .. MaxFaults
    BY <1>2, HistoryAssumption DEF IInv, TypeOK, bounds, Fault
  <2> QED
    BY <1>2, <2>1, ReturnOnly DEF Prepare
<1> QED
  BY <1>1, <1>2 DEF Prepare

\* A step that stores a true snapshot.
LEMMA StoreStep ==
  ASSUME IInv, NEW ser \in 1 .. serial, SnapshotPut(ser, was[ser]), UNCHANGED was
  PROVE  /\ ZoneInv' /\ StoreInv' /\ TrueInv' /\ snaps' \subseteq Snapshot
         /\ serial' = serial /\ serial \in Nat \ {0}
         /\ puts' = puts + 1 /\ puts \in Nat
         /\ \A s \in snaps' : s \in snaps \/ (s.id = puts + 1 /\ s.recs = was[ser])
<1>1. serial' = serial /\ serial \in Nat \ {0} /\ puts \in Nat /\ snaps \subseteq Snapshot
  BY DEF IInv, TypeOK, serial
<1>2. was[ser] \in Content /\ ser \in Nat
  BY <1>1 DEF IInv, ZoneInv, Sound
<1>3. /\ StoreInv' /\ puts' = puts + 1 /\ snaps' \subseteq Snapshot
      /\ \A s \in snaps' : s \in snaps
           \/ (s.id = puts + 1 /\ s.serial = ser /\ s.recs = was[ser])
  BY <1>1, <1>2, PutKeeps DEF IInv
<1>4. TrueInv'
  BY <1>1, <1>3 DEF IInv, TrueInv
<1>5. ZoneInv'
  BY <1>1 DEF IInv, ZoneInv
<1> QED
  BY <1>1, <1>3, <1>4, <1>5

\* The editor's snapshot.
LEMMA PutStep == ASSUME IInv, NEW e \in Editors, Put(e) PROVE IInv'
<1>1. CASE /\ SnapshotPut(live[e], was[live[e]])
           /\ snapId' = [snapId EXCEPT ![e] = puts + 1]
           /\ pc' = [pc EXCEPT ![e] = "update"]
           /\ UNCHANGED <<job, live, want, planned, bounds>>
  <2>1. live[e] \in 1 .. serial /\ UNCHANGED was
    BY DEF IInv, EditorInv, Put
  <2>2. /\ ZoneInv' /\ StoreInv' /\ TrueInv' /\ snaps' \subseteq Snapshot
        /\ serial' = serial /\ serial \in Nat \ {0}
        /\ puts' = puts + 1 /\ puts \in Nat
        /\ \A s \in snaps' : s \in snaps \/ (s.id = puts + 1 /\ s.recs = was[live[e]])
    BY <1>1, <2>1, StoreStep
  <2>3. TypeOK'
    BY <1>1, <2>1, <2>2 DEF IInv, TypeOK, At, Put, pollVars, bounds
  <2>4. PollInv'
    BY <2>2 DEF IInv, PollInv, Put, pollVars
  <2>5. ASSUME NEW q \in Editors PROVE EditorInv(q)' /\ JobInv(q)'
    <3>1. CASE q = e
      <4>1. pc'[q] = "update" /\ snapId'[q] = puts + 1 /\ live'[q] = live[e] /\ was' = was
        BY <1>1, <2>1, <3>1 DEF IInv, TypeOK
      <4>2. \A s \in snaps : s.id # puts + 1
        BY <2>2 DEF IInv, StoreInv
      <4> QED
        BY <1>1, <2>1, <2>2, <4>1, <4>2 DEF IInv, EditorInv, JobInv
    <3>2. CASE q # e
      <4>1. pc'[q] = pc[q] /\ snapId'[q] = snapId[q] /\ live'[q] = live[q] /\ was' = was
        BY <1>1, <2>1, <3>2 DEF IInv, TypeOK
      <4>2. EditorInv(q) /\ JobInv(q)
        BY DEF IInv
      <4>3. EditorInv(q)'
        BY <2>2, <4>1, <4>2 DEF EditorInv
      <4>4. JobInv(q)'
        BY <1>1, <2>2, <4>1, <4>2 DEF JobInv
      <4> QED
        BY <4>3, <4>4
    <3> QED
      BY <3>1, <3>2
  <2> QED
    BY <2>2, <2>3, <2>4, <2>5 DEF IInv
<1>2. CASE Fault /\ Return(e) /\ UNCHANGED storeVars
  <2>1. /\ edits' \in 0 .. MaxEdits /\ others' \in 0 .. MaxOthers
        /\ faults' \in 0 .. MaxFaults
    BY <1>2, HistoryAssumption DEF IInv, TypeOK, bounds, Fault
  <2> QED
    BY <1>2, <2>1, ReturnOnly DEF Put
<1> QED
  BY <1>1, <1>2 DEF Put

\* The zone after an UPDATE of an editor is sound.
LEMMA UpdateSound ==
  ASSUME IInv, NEW e \in Editors, NEW z \in Processed(Zone, job[e])
  PROVE  Sound(z)
<1>1. Sound(Zone)
  BY DEF IInv, ZoneInv, Zone, TypeOK, serial
<1>2. job[e] \in Job /\ job[e].first = "del" /\ NoClash(job[e].add)
  BY DEF IInv, TypeOK, JobInv
<1> QED
  BY <1>1, <1>2, ProcessedSound

\* The UPDATE: a new zone, after every one that was.
LEMMA UpdateStep == ASSUME IInv, NEW e \in Editors, Update(e) PROVE IInv'
<1>1. PICK z \in Processed(Zone, job[e]) : ChangeTo(z)
  BY DEF Update
<1>2. Sound(z)
  BY UpdateSound
<1>3. /\ was' \in Seq(Content) /\ was' # <<>>
      /\ serial' >= serial /\ serial \in Nat /\ serial' \in Nat
      /\ \A i \in 1 .. serial : was'[i] = was[i]
      /\ ZoneInv'
  BY <1>1, <1>2, ChangeKeeps DEF IInv, TypeOK
<1>4. Return(e) /\ UNCHANGED storeVars /\ snaps' = snaps /\ puts' = puts
  BY DEF Update, storeVars
<1>5. /\ pc' \in [Editors -> At] /\ job' \in [Editors -> Job]
      /\ live' \in [Editors -> 0 .. serial'] /\ snapId' \in [Editors -> 0 .. puts']
      /\ want' \in [Editors -> Content] /\ planned' \in [Editors -> 0 .. serial']
      /\ \A q \in Editors : EditorInv(q)' /\ JobInv(q)'
  BY <1>3, <1>4, ReturnKeeps DEF IInv
<1>6. TypeOK'
  BY <1>3, <1>4, <1>5, SMTT(30) DEF IInv, TypeOK, Update, pollVars, bounds
<1>7. StoreInv' /\ TrueInv'
  BY <1>3, <1>4 DEF IInv, StoreInv, TrueInv
<1>8. PollInv'
  BY <1>3 DEF IInv, PollInv, Update, pollVars
<1> QED
  BY <1>3, <1>5, <1>6, <1>7, <1>8 DEF IInv

\* Somebody else's UPDATE.
LEMMA OtherStep == ASSUME IInv, OtherUpdate PROVE IInv'
<1>1. PICK r \in Rec : \E j \in {[NoJob EXCEPT !.add = {r}], [NoJob EXCEPT !.del = {r}]} :
        \E z \in Processed(Zone, j) : ChangeTo(z)
  BY DEF OtherUpdate
<1>2. PICK j \in {[NoJob EXCEPT !.add = {r}], [NoJob EXCEPT !.del = {r}]} :
        \E z \in Processed(Zone, j) : ChangeTo(z)
  BY <1>1
<1>3. PICK z \in Processed(Zone, j) : ChangeTo(z)
  BY <1>2
<1>4. j \in Job /\ j.first = "del" /\ j.add \subseteq {r}
  BY <1>2, ZenonT(60) DEF NoJob, Job, Content
<1>5. NoClash(j.add)
  BY <1>4, HistoryAssumption DEF NoClash
<1>6. Sound(z)
  <2>1. Sound(Zone)
    BY DEF IInv, ZoneInv, Zone, TypeOK, serial
  <2> QED
    BY <1>4, <1>5, <2>1, ProcessedSound
<1>7. /\ was' \in Seq(Content) /\ was' # <<>>
      /\ serial' >= serial /\ serial \in Nat /\ serial' \in Nat
      /\ \A i \in 1 .. serial : was'[i] = was[i]
      /\ ZoneInv'
  BY <1>3, <1>6, ChangeKeeps DEF IInv, TypeOK
<1>8. /\ UNCHANGED <<snaps, puts, pc, job, live, snapId, want, planned>>
      /\ UNCHANGED <<ppc, asked, moved, edits, faults>>
      /\ others' \in 0 .. MaxOthers
  BY HistoryAssumption DEF OtherUpdate, storeVars, editVars, pollVars, IInv, TypeOK
<1>9. TypeOK'
  BY <1>7, <1>8, SMTT(30) DEF IInv, TypeOK
<1>10. StoreInv' /\ TrueInv' /\ PollInv'
  BY <1>7, <1>8 DEF IInv, StoreInv, TrueInv, PollInv
<1>11. ASSUME NEW q \in Editors PROVE EditorInv(q)' /\ JobInv(q)'
  <2>1. EditorInv(q) /\ JobInv(q)
    BY DEF IInv
  <2>2. EditorInv(q)'
    BY <1>7, <1>8, <2>1 DEF EditorInv
  <2>3. job[q].kind = "restore" =>
          was'[planned[q]] = was[planned[q]] /\ planned[q] \in 1 .. serial'
    BY <1>7, <2>1 DEF JobInv
  <2>4. JobInv(q)'
    BY <1>8, <2>1, <2>3 DEF JobInv
  <2> QED
    BY <2>2, <2>4
<1> QED
  BY <1>7, <1>9, <1>10, <1>11 DEF IInv

\* The poller's queries and failures touch neither the zone nor the table.
LEMMA PollStep ==
  ASSUME IInv, PollAsk \/ PollCompare \/ PollTransfer \/ PollFails
  PROVE  IInv'
<1>1. UNCHANGED <<was, storeVars>> /\ UNCHANGED editVars
  BY DEF PollAsk, PollCompare, PollTransfer, PollFails
<1>2. /\ ZoneInv' /\ StoreInv' /\ TrueInv' /\ was' = was /\ serial' = serial
      /\ serial \in Nat \ {0} /\ snaps' = snaps /\ puts' = puts
  BY <1>1, UnchangedInv
<1>3. /\ edits' \in 0 .. MaxEdits /\ others' \in 0 .. MaxOthers
      /\ faults' \in 0 .. MaxFaults
  BY HistoryAssumption
  DEF PollAsk, PollCompare, PollTransfer, PollFails, Fault, bounds, IInv, TypeOK
<1>4. ppc' \in PollAt /\ asked' \in 0 .. serial /\ moved' \in 0 .. serial /\ PollInv'
  <2>1. CASE PollAsk \/ PollTransfer
    BY <1>2, <2>1 DEF PollAsk, PollTransfer, PollAt, PollInv, IInv, TypeOK
  <2>2. CASE PollCompare \/ PollFails
    BY <1>2, <2>2, Unchanged \/ ~Unchanged
    DEF PollCompare, PollFails, Sleep, PollAt, PollInv, IInv, TypeOK
  <2> QED
    BY <2>1, <2>2
<1>5. UNCHANGED <<pc, job, live, snapId, want, planned>>
  BY <1>1 DEF editVars
<1>6. TypeOK'
  BY <1>2, <1>3, <1>4, <1>5 DEF IInv, TypeOK
<1>7. \A q \in Editors : EditorInv(q)' /\ JobInv(q)'
  BY <1>2, <1>5 DEF IInv, EditorInv, JobInv
<1> QED
  BY <1>2, <1>4, <1>6, <1>7 DEF IInv

\* The poller's snapshot, under the serial of the zone it transferred.
LEMMA PollPutStep == ASSUME IInv, PollPut PROVE IInv'
<1>1. moved \in 1 .. serial /\ UNCHANGED was /\ SnapshotPut(moved, was[moved])
  BY DEF PollPut, SerialTransferred, IInv, PollInv
<1>2. /\ ZoneInv' /\ StoreInv' /\ TrueInv' /\ snaps' \subseteq Snapshot
      /\ serial' = serial /\ serial \in Nat \ {0}
      /\ puts' = puts + 1 /\ puts \in Nat
      /\ \A s \in snaps' : s \in snaps \/ (s.id = puts + 1 /\ s.recs = was[moved])
  BY <1>1, StoreStep
<1>3. /\ UNCHANGED <<pc, job, live, snapId, want, planned, edits, others, faults>>
      /\ ppc' = "sleep" /\ asked' = 0 /\ moved' = 0
  BY DEF PollPut, Sleep, editVars, bounds
<1>4. TypeOK' /\ PollInv'
  BY <1>1, <1>2, <1>3 DEF IInv, TypeOK, PollInv, PollAt
<1>5. ASSUME NEW q \in Editors PROVE EditorInv(q)' /\ JobInv(q)'
  <2>1. EditorInv(q) /\ JobInv(q)
    BY DEF IInv
  <2>2. EditorInv(q)'
    BY <1>1, <1>2, <1>3, <2>1 DEF EditorInv
  <2>3. JobInv(q)'
    BY <1>1, <1>2, <1>3, <2>1 DEF JobInv
  <2> QED
    BY <2>2, <2>3
<1> QED
  BY <1>2, <1>4, <1>5 DEF IInv

-----------------------------------------------------------------------------
\* The invariant holds at the start.
LEMMA InitIInv == Init => IInv
<1> SUFFICES ASSUME Init PROVE IInv
  OBVIOUS
<1>1. was = <<Zone0>> /\ serial = 1 /\ was[1] = Zone0
  BY DEF Init, serial
<1>2. Sound(Zone0)
  BY HistoryAssumption DEF Sound, NoClash, Content
<1>3. NoJob \in Job /\ NoJob.first = "del" /\ NoJob.kind = "edit" /\ NoJob.add = {}
  BY DEF NoJob, Job, Content
<1>4. TypeOK
  BY <1>1, <1>2, <1>3, HistoryAssumption DEF Init, TypeOK, At, PollAt, Content, Sound
<1>5. ZoneInv /\ TrueInv /\ PollInv
  BY <1>1, <1>2 DEF Init, ZoneInv, TrueInv, PollInv
<1>6. StoreInv
  BY FS_EmptySet DEF Init, StoreInv
<1>7. \A e \in Editors : EditorInv(e) /\ JobInv(e)
  BY <1>3 DEF Init, EditorInv, JobInv, NoClash
<1> QED
  BY <1>4, <1>5, <1>6, <1>7 DEF IInv

\* Every step keeps it.
LEMMA NextIInv == IInv /\ [Next]_vars => IInv'
<1> SUFFICES ASSUME IInv, [Next]_vars PROVE IInv'
  OBVIOUS
<1>1. ASSUME NEW e \in Editors, UpdateFails(e) \/ Abandon(e) PROVE IInv'
  <2>1. Return(e) /\ Fault /\ UNCHANGED <<was, storeVars, pollVars>>
    BY <1>1 DEF UpdateFails, Abandon
  <2>2. /\ edits' \in 0 .. MaxEdits /\ others' \in 0 .. MaxOthers
        /\ faults' \in 0 .. MaxFaults
    BY <2>1, HistoryAssumption DEF IInv, TypeOK, Fault
  <2> QED
    BY <2>1, <2>2, ReturnOnly
<1>2. CASE UNCHANGED vars
  <2>1. /\ UNCHANGED <<was, snaps, puts, pc, job, live, snapId, want, planned>>
        /\ UNCHANGED <<ppc, asked, moved, edits, others, faults>> /\ serial' = serial
    BY <1>2 DEF vars, storeVars, editVars, pollVars, bounds, serial
  <2>2. TypeOK' /\ ZoneInv' /\ StoreInv' /\ TrueInv' /\ PollInv'
    BY <2>1 DEF IInv, TypeOK, ZoneInv, StoreInv, TrueInv, PollInv
  <2>3. \A q \in Editors : EditorInv(q)' /\ JobInv(q)'
    BY <2>1 DEF IInv, EditorInv, JobInv
  <2> QED
    BY <2>2, <2>3 DEF IInv
<1> QED
  BY <1>1, <1>2, SubmitStep, RestorePlanStep, PrepareStep, PutStep, UpdateStep,
     PollStep, PollPutStep, OtherStep
  DEF Next, Poll

\* The invariant is inductive.
THEOREM Inductive == Spec => []IInv
  BY InitIInv, NextIInv, PTL DEF Spec

\* Type correctness of the table, the editors and the poller.
THEOREM TypeCorrect == Spec => []TypeOK
<1>1. IInv => TypeOK
  BY DEF IInv
<1> QED
  BY <1>1, Inductive, PTL

\* A snapshot is the zone at its serial, however queries, transfers and stores
\* interleave with changes.
THEOREM SnapshotsAreTrue == Spec => []SnapshotsTrue
<1>1. IInv => SnapshotsTrue
  BY DEF IInv, TrueInv, SnapshotsTrue, TypeOK, serial
<1> QED
  BY <1>1, Inductive, PTL

\* An editor at its UPDATE ends by the UPDATE or after a fault.
LEMMA LeavesUpdate ==
  ASSUME IInv, [Next]_vars, NEW e \in Editors, pc[e] = "update", pc'[e] = "idle"
  PROVE  Update(e) \/ (Fault /\ UNCHANGED was)
<1>1. pc \in [Editors -> At]
  BY DEF IInv, TypeOK
<1>2. ASSUME NEW q \in Editors, q # e,
             \/ Submit(q) \/ RestorePlan(q) \/ Prepare(q) \/ Put(q)
             \/ Update(q) \/ UpdateFails(q) \/ Abandon(q)
      PROVE  FALSE
  <2>1. pc'[e] = pc[e]
    BY <1>1, <1>2 DEF Submit, RestorePlan, Begin, Prepare, Put, Update, UpdateFails,
                      Abandon, Return
  <2> QED
    BY <2>1
<1>3. ~Submit(e) /\ ~RestorePlan(e) /\ ~Prepare(e) /\ ~Put(e)
  BY DEF Submit, RestorePlan, Begin, Prepare, Put
<1>4. ~(Poll \/ PollFails \/ OtherUpdate \/ UNCHANGED vars)
  BY DEF Poll, PollAsk, PollCompare, PollTransfer, PollPut, PollFails, OtherUpdate,
         vars, editVars
<1> QED
  BY <1>2, <1>3, <1>4 DEF Next, UpdateFails, Abandon

\* Every UPDATE that changes the zone has its restore point in the store.
THEOREM ChangesAreReversible == Spec => RestorePoint
<1> DEFINE P ==
      \A e \in Editors : pc[e] = "update" /\ serial' # serial /\ pc'[e] = "idle" =>
        /\ snapId[e] > 0 /\ Held(e)
        /\ \A s \in snaps : s.id = snapId[e] =>
             \A r \in was[serial] \ was'[serial'] :
               r \in s.recs \/ r \notin was[live[e]]
<1>1. IInv /\ [Next]_vars => [P]_vars
  <2> SUFFICES ASSUME IInv, [Next]_vars, NEW e \in Editors, pc[e] = "update"
               PROVE  /\ snapId[e] > 0 /\ Held(e)
                      /\ \A s \in snaps : s.id = snapId[e] => s.recs = was[live[e]]
    OBVIOUS
  <2>1. snapId[e] \in 1 .. puts /\ puts \in Nat
    BY DEF IInv, TypeOK, EditorInv
  <2>2. Held(e)
    BY <2>1 DEF IInv, StoreInv, Held
  <2> QED
    BY <2>1, <2>2 DEF IInv, EditorInv
<1> QED
  BY <1>1, Inductive, PTL DEF Spec, RestorePoint

\* An undisturbed restore leaves the snapshot's records, but for one NS record
\* that named keeps.
THEOREM RestoresAreExact == Spec => RestoreExact
<1> DEFINE Q(e) ==
      LET extra == ownedBy(was'[serial']) \ want[e]
      IN  /\ want[e] \subseteq was'[serial']
          /\ extra # {} => /\ Cardinality(extra) = 1 /\ extra \subseteq ApexNS
                           /\ Zone \intersect want[e] \intersect ApexNS = {}
          /\ was'[serial'] \intersect Child = Zone \intersect Child
<1>1. ASSUME IInv, [Next]_vars, NEW e \in Editors, Restores(e) PROVE Q(e)
  <2>1. Update(e)
    <3>1. faults \in Nat /\ faults' = faults
      BY <1>1, HistoryAssumption DEF IInv, TypeOK, Restores
    <3>2. ~Fault
      BY <3>1 DEF Fault
    <3> QED
      BY <1>1, <3>2, LeavesUpdate DEF Restores
  <2>2. PICK z \in Processed(Zone, job[e]) : ChangeTo(z)
    BY <2>1 DEF Update
  <2>3. Sound(z)
    BY <1>1, UpdateSound
  <2>4. was'[serial'] = z
    BY <1>1, <2>2, <2>3, ChangeKeeps DEF IInv, TypeOK
  <2>5. /\ want[e] \in SUBSET Owned /\ NoClash(want[e])
        /\ job[e] = restoreOps(want[e], ownedBy(Zone)) /\ Sound(Zone)
    BY <1>1 DEF IInv, JobInv, Restores, Zone, ZoneInv, TypeOK, serial
  <2>6. /\ want[e] \subseteq z
        /\ z \intersect Child = Zone \intersect Child
        /\ ownedBy(z) \ want[e] # {} =>
             /\ \E n \in ApexNS : ownedBy(z) \ want[e] = {n}
             /\ Zone \intersect want[e] \intersect ApexNS = {}
    BY <2>2, <2>5, RestoreLeaves
  <2>7. \A n \in ApexNS : Cardinality({n}) = 1 /\ {n} \subseteq ApexNS
    BY FS_Singleton
  <2> QED
    BY <2>4, <2>6, <2>7
<1>2. IInv /\ [Next]_vars => [\A e \in Editors : Restores(e) => Q(e)]_vars
  BY <1>1
<1> QED
  BY <1>2, Inductive, PTL DEF Spec, RestoreExact
=============================================================================
