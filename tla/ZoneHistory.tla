---------------------------- MODULE ZoneHistory ----------------------------
(***************************************************************************)
(* One dynamic zone, the snapshots of it in the store, the poller that     *)
(* takes them (internal/history), and the record edits and restores that   *)
(* take one before they send their UPDATE (internal/recordmut).            *)
(*                                                                         *)
(* A zone is a set of records and a serial; the SOA and the DNSSEC records *)
(* (`managed`) are named's and stand behind the serial.  Editors, the      *)
(* poller and whoever else updates the zone share no lock.                 *)
(***************************************************************************)
EXTENDS Integers, Sequences, FiniteSets

CONSTANTS
  Editors,    \* concurrent `goddns record` commands and admin requests
  Rec,        \* records, each an owner, a type and its data
  ApexNS,     \* the NS records among them at the zone's apex
  Child,      \* those of a delegated child: its NS and glue
  RRsets,     \* the RRsets that are deleted as a whole
  Clash,      \* pairs of a CNAME and another record at its name
  Zone0,      \* the records at the start
  Keep,       \* snapshots retained (history_keep)
  MaxEdits,   \* bound: edits and restores begun
  MaxOthers,  \* bound: changes by others
  MaxFaults   \* bound: refused or failing calls, and kills

ASSUME HistoryAssumption ==
  /\ Zone0 \subseteq Rec /\ Zone0 \intersect ApexNS # {}
  /\ ApexNS \subseteq Rec /\ Child \subseteq Rec \ ApexNS
  /\ Clash \subseteq (Rec \ (ApexNS \union Child)) \X (Rec \ (ApexNS \union Child))
  /\ \A r, s \in Rec : <<r, s>> \in Clash => r # s /\ <<s, r>> \in Clash
  /\ \A r, s \in Zone0 : <<r, s>> \notin Clash
  /\ RRsets \subseteq SUBSET Rec
  /\ Keep \in Nat \ {0}
  /\ MaxEdits \in Nat /\ MaxOthers \in Nat /\ MaxFaults \in Nat

Content == SUBSET Rec
Owned == Rec \ Child

Snapshot == [id : Nat, serial : Nat, recs : Content]

\* Operations: records to delete (one by one, or as a whole RRset) and to add,
\* and which are listed first.
Job == [kind : {"edit", "restore"}, whole : BOOLEAN, first : {"del", "add"},
        del : Content, add : Content]
NoJob == [kind |-> "edit", whole |-> FALSE, first |-> "del", del |-> {}, add |-> {}]

VARIABLES
  was,      \* the zone's records at every serial so far; the last is live
  snaps,    \* the snapshots table
  puts,     \* ids handed out
  pc,       \* where each editor is
  job,      \* the operations it applies
  live,     \* the serial of the zone it transferred (0: none)
  snapId,   \* the snapshot it took (0: none)
  want,     \* of a restore: the snapshot's records
  planned,  \* of a restore: the serial its operations were computed at
  ppc,      \* where the poller is
  asked,    \* the serial it was told
  moved,    \* the serial it transferred
  edits, others, faults  \* counters for the bounds

storeVars == <<snaps, puts>>
editVars == <<pc, job, live, snapId, want, planned>>
pollVars == <<ppc, asked, moved>>
bounds == <<edits, others, faults>>
vars == <<was, storeVars, editVars, pollVars, bounds>>

At == {"idle", "prepare", "put", "update"}
PollAt == {"sleep", "compare", "transfer", "put"}

serial == Len(was)
Zone == was[serial]

TypeOK ==
  /\ was \in Seq(Content) /\ was # <<>>
  /\ snaps \subseteq Snapshot /\ puts \in Nat
  /\ pc \in [Editors -> At] /\ job \in [Editors -> Job]
  /\ live \in [Editors -> 0 .. serial] /\ snapId \in [Editors -> 0 .. puts]
  /\ want \in [Editors -> Content] /\ planned \in [Editors -> 0 .. serial]
  /\ ppc \in PollAt /\ asked \in 0 .. serial /\ moved \in 0 .. serial
  /\ edits \in 0 .. MaxEdits /\ others \in 0 .. MaxOthers /\ faults \in 0 .. MaxFaults

Init ==
  /\ was = <<Zone0>>
  /\ snaps = {} /\ puts = 0
  /\ pc = [e \in Editors |-> "idle"] /\ job = [e \in Editors |-> NoJob]
  /\ live = [e \in Editors |-> 0] /\ snapId = [e \in Editors |-> 0]
  /\ want = [e \in Editors |-> {}] /\ planned = [e \in Editors |-> 0]
  /\ ppc = "sleep" /\ asked = 0 /\ moved = 0
  /\ edits = 0 /\ others = 0 /\ faults = 0

Fault == faults < MaxFaults /\ faults' = faults + 1 /\ UNCHANGED <<edits, others>>

-----------------------------------------------------------------------------
(* named. *)

\* The deletions of an UPDATE.  named keeps the apex's last NS record and
\* ignores the deletion of the NS set as a whole.  In which order single
\* deletions are listed decides which one is the last.
Deleted(z, j) ==
  IF ~(z \intersect ApexNS \subseteq j.del) THEN {z \ j.del}
  ELSE IF j.whole THEN {z \ (j.del \ ApexNS)}
  ELSE {(z \ j.del) \union {n} : n \in z \intersect ApexNS}

\* The additions.  A CNAME is not added beside other data, nor they beside it.
Added(z, add) == z \union {r \in add : \A s \in z : <<r, s>> \notin Clash}

\* The zones an UPDATE may leave: its operations in the order they are listed.
Processed(z, j) ==
  IF j.first = "del" THEN {Added(d, j.add) : d \in Deleted(z, j)}
                     ELSE Deleted(Added(z, j.add), j)

\* A change of the zone takes the next serial; an UPDATE that changes nothing
\* does not.
ChangeTo(z) == was' = IF z = Zone THEN was ELSE Append(was, z)

-----------------------------------------------------------------------------
(* The store. *)

\* DELETE ... NOT IN (the newest `keep` rows).
Newest(S, keep) == {s \in S : Cardinality({t \in S : t.id > s.id}) < keep}

SnapshotPutReused(ser, recs) ==
  /\ UNCHANGED puts
  /\ snaps' = Newest(snaps \union {[id |-> puts + 1, serial |-> ser, recs |-> recs]}, Keep)

\* Insert and prune, in one transaction.
SnapshotPut(ser, recs) ==
  /\ puts' = puts + 1
  /\ snaps' = Newest(snaps \union {[id |-> puts + 1, serial |-> ser, recs |-> recs]}, Keep)

Latest == {s \in snaps : \A t \in snaps : t.id <= s.id}

-----------------------------------------------------------------------------
(* Editors. *)

Return(e) ==
  /\ pc' = [pc EXCEPT ![e] = "idle"]
  /\ job' = [job EXCEPT ![e] = NoJob]
  /\ live' = [live EXCEPT ![e] = 0]
  /\ snapId' = [snapId EXCEPT ![e] = 0]
  /\ want' = [want EXCEPT ![e] = {}]
  /\ planned' = [planned EXCEPT ![e] = 0]

Begin(e, j) ==
  /\ pc[e] = "idle"
  /\ pc' = [pc EXCEPT ![e] = "prepare"]
  /\ job' = [job EXCEPT ![e] = j]
  /\ edits < MaxEdits /\ edits' = edits + 1
  /\ UNCHANGED <<live, snapId, was, storeVars, pollVars, others, faults>>

\* buildResult: the records of an RRset that a deletion of it takes away.
Removed(R) == R \intersect Zone

\* record add, del and delset.  The preview before changes nothing; a delset
\* that would remove nothing ends there (the admin page sends a del all the same).
Submit(e) ==
  /\ \/ \E r \in Rec : Begin(e, [NoJob EXCEPT !.add = {r}])
     \/ \E r \in Rec : Begin(e, [NoJob EXCEPT !.del = {r}])
     \/ \E R \in RRsets : Removed(R) # {} /\ Begin(e, [NoJob EXCEPT !.del = R, !.whole = TRUE])
  /\ UNCHANGED <<want, planned>>

ownedBy(recs) == recs \intersect Owned

restoreOpsAddsFirst(w, l) ==
  [NoJob EXCEPT !.kind = "restore", !.first = "add", !.del = l \ w, !.add = w \ l]

\* The delta from live to wanted, the deletions before the additions.
restoreOps(w, l) == [NoJob EXCEPT !.kind = "restore", !.del = l \ w, !.add = w \ l]

\* record restore: SnapshotByID, then RestorePlan, which transfers the zone.
\* A snapshot without a record to restore is refused, and there may be nothing
\* to do; both end here.  The operator may take any time to confirm.
RestorePlan(e) ==
  \E s \in snaps :
    LET w == ownedBy(s.recs)
        j == restoreOps(w, ownedBy(Zone))
    IN  /\ w # {} /\ j.del \union j.add # {}
        /\ Begin(e, j)
        /\ want' = [want EXCEPT ![e] = w]
        /\ planned' = [planned EXCEPT ![e] = serial]

\* Every operation's most specific zone is this one.
validateOps(j) == j.del \union j.add # {} /\ j.del \union j.add \subseteq Owned

\* prepare: the zone is one to edit (else a fault), it can be transferred (else
\* a fault), and the operations are its own.
Prepare(e) ==
  /\ pc[e] = "prepare"
  /\ \/ /\ validateOps(job[e])
        /\ pc' = [pc EXCEPT ![e] = "put"]
        /\ live' = [live EXCEPT ![e] = serial]
        /\ UNCHANGED <<job, snapId, want, planned, bounds>>
     \/ ~validateOps(job[e]) /\ Return(e) /\ UNCHANGED bounds
     \/ Fault /\ Return(e)
  /\ UNCHANGED <<was, storeVars, pollVars>>

PutBestEffort(e) ==
  /\ pc[e] = "put"
  /\ pc' = [pc EXCEPT ![e] = "update"]
  /\ \/ /\ SnapshotPut(live[e], was[live[e]])
        /\ snapId' = [snapId EXCEPT ![e] = puts + 1]
        /\ UNCHANGED bounds
     \/ Fault /\ UNCHANGED <<storeVars, snapId>>
  /\ UNCHANGED <<job, live, want, planned, was, pollVars>>

\* The snapshot of what was transferred; without it the zone is not changed.
Put(e) ==
  /\ pc[e] = "put"
  /\ \/ /\ SnapshotPut(live[e], was[live[e]])
        /\ snapId' = [snapId EXCEPT ![e] = puts + 1]
        /\ pc' = [pc EXCEPT ![e] = "update"]
        /\ UNCHANGED <<job, live, want, planned, bounds>>
     \/ Fault /\ Return(e) /\ UNCHANGED storeVars
  /\ UNCHANGED <<was, pollVars>>

\* The UPDATE, one message, is applied, whether or not its answer arrives.
Update(e) ==
  /\ pc[e] = "update"
  /\ \E z \in Processed(Zone, job[e]) : ChangeTo(z)
  /\ Return(e)
  /\ UNCHANGED <<storeVars, pollVars, bounds>>

\* The UPDATE is refused or lost.
UpdateFails(e) ==
  /\ pc[e] = "update"
  /\ Fault
  /\ Return(e)
  /\ UNCHANGED <<was, storeVars, pollVars>>

\* The operator does not confirm, or the command or the daemon dies.
Abandon(e) ==
  /\ pc[e] # "idle"
  /\ Fault
  /\ Return(e)
  /\ UNCHANGED <<was, storeVars, pollVars>>

-----------------------------------------------------------------------------
(* The poller. *)

Sleep == ppc' = "sleep" /\ asked' = 0 /\ moved' = 0

\* CurrentSerial.
PollAsk ==
  /\ ppc = "sleep"
  /\ ppc' = "compare" /\ asked' = serial
  /\ UNCHANGED <<moved, was, storeVars, editVars, bounds>>

UnchangedOnce == snaps # {}

\* The serial is that of the newest snapshot.
Unchanged == \E s \in Latest : s.serial = asked

\* SnapshotLatest.  A zone that has not moved is not transferred.
PollCompare ==
  /\ ppc = "compare"
  /\ IF Unchanged THEN Sleep ELSE ppc' = "transfer" /\ UNCHANGED <<asked, moved>>
  /\ UNCHANGED <<was, storeVars, editVars, bounds>>

PollTransfer ==
  /\ ppc = "transfer"
  /\ ppc' = "put" /\ moved' = serial
  /\ UNCHANGED <<asked, was, storeVars, editVars, bounds>>

SerialAsked == asked

\* "trust the transferred SOA"
SerialTransferred == moved

PollPut ==
  /\ ppc = "put"
  /\ SnapshotPut(SerialTransferred, was[moved])
  /\ Sleep
  /\ UNCHANGED <<was, editVars, bounds>>

\* A query, the transfer or the store fails, or the daemon restarts.
PollFails ==
  /\ ppc # "sleep"
  /\ Fault
  /\ Sleep
  /\ UNCHANGED <<was, storeVars, editVars>>

-----------------------------------------------------------------------------
\* Somebody else's UPDATE: a DDNS client, certbot, the child's owner.
OtherUpdate ==
  /\ others < MaxOthers /\ others' = others + 1
  /\ \E r \in Rec : \E j \in {[NoJob EXCEPT !.add = {r}], [NoJob EXCEPT !.del = {r}]} :
       \E z \in Processed(Zone, j) : z # Zone /\ ChangeTo(z)
  /\ UNCHANGED <<storeVars, editVars, pollVars, edits, faults>>

Poll == PollAsk \/ PollCompare \/ PollTransfer \/ PollPut

Next ==
  \/ \E e \in Editors :
       \/ Submit(e) \/ RestorePlan(e) \/ Prepare(e) \/ Put(e)
       \/ Update(e) \/ UpdateFails(e) \/ Abandon(e)
  \/ Poll \/ PollFails
  \/ OtherUpdate

\* The poller's goroutine runs for ever (Run).
Spec == Init /\ [][Next]_vars /\ WF_vars(Poll)

-----------------------------------------------------------------------------
(* Properties. *)

(***************************************************************************)
(* A snapshot is the zone as it was at the snapshot's serial, also when    *)
(* the zone moves between the SOA query, the transfer and the store.       *)
(***************************************************************************)
SnapshotsTrue == \A s \in snaps : s.serial <= serial /\ s.recs = was[s.serial]

\* The snapshot e took is held, or Keep newer ones were stored.
Held(e) == (\E s \in snaps : s.id = snapId[e]) \/ puts - snapId[e] >= Keep

(***************************************************************************)
(* "Every change snapshots the zone first so it is reversible": when an    *)
(* UPDATE changes the zone, the snapshot its editor took is in the store   *)
(* (unless history_keep newer ones have pushed it out) and has every       *)
(* record that goes, but for records that came after the transfer.         *)
(***************************************************************************)
RestorePoint ==
  [][\A e \in Editors : pc[e] = "update" /\ serial' # serial /\ pc'[e] = "idle" =>
       /\ snapId[e] > 0 /\ Held(e)
       /\ \A s \in snaps : s.id = snapId[e] =>
            \A r \in was[serial] \ was'[serial'] :
              r \in s.recs \/ r \notin was[live[e]]]_vars

\* A restore ends on the zone its operations were computed for.
Restores(e) ==
  /\ pc[e] = "update" /\ pc'[e] = "idle" /\ faults' = faults
  /\ job[e].kind = "restore" /\ planned[e] = serial

(***************************************************************************)
(* A restore that nobody disturbed leaves the snapshot's records, CNAMEs   *)
(* replaced by other data and back included, and the child's records as    *)
(* they are.  Excepted is one NS record at the apex that named does not    *)
(* let go (RFC 2136, 3.4.2.4) when the snapshot has none of the live ones. *)
(***************************************************************************)
RestoreExact ==
  [][\A e \in Editors : Restores(e) =>
       LET extra == ownedBy(was'[serial']) \ want[e]
       IN  /\ want[e] \subseteq was'[serial']
           /\ extra # {} => /\ Cardinality(extra) = 1 /\ extra \subseteq ApexNS
                            /\ Zone \intersect want[e] \intersect ApexNS = {}
           /\ was'[serial'] \intersect Child = Zone \intersect Child]_vars

(***************************************************************************)
(* After the last change the newest snapshot is the zone, also when an     *)
(* editor or a slow sweep stores an older one last.                        *)
(***************************************************************************)
HistoryCatchesUp ==
  <>[](\E s \in Latest : s.serial = serial /\ s.recs = Zone)
=============================================================================
