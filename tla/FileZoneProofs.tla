--------------------------- MODULE FileZoneProofs ---------------------------
(***************************************************************************)
(* Theorems about FileZone, for every set of writers, records and texts,   *)
(* every retention Keep and every serial width.                            *)
(*                                                                         *)
(* None of the properties is inductive alone: that a writer renames over   *)
(* the bytes it read needs that no other writer wrote since, which needs   *)
(* the lock; that the file is loadable needs that the bytes computed under *)
(* the lock passed the gate.  WriterInv says, for each program point of a  *)
(* writer, what it knows about the lock, its own buffers and the disk.     *)
(*                                                                         *)
(* Then FileZone is shown to implement AtomicZone, and the theorems about  *)
(* Zoned, whose zone is an AtomicZone, follow at the end.                  *)
(***************************************************************************)
EXTENDS FileZone, Zoned, TLAPS, SequenceTheorems, FiniteSetTheorems,
        NaturalsInduction, WellFoundedInduction

\* A record's line is found at a least index.
LEMMA FirstMatch ==
  ASSUME NEW s \in Seq(RR), NEW e, \E i \in 1 .. Len(s) : s[i] = e
  PROVE  Min({i \in 1 .. Len(s) : s[i] = e}) \in 1 .. Len(s)
<1> DEFINE I == {i \in 1 .. Len(s) : s[i] = e}
<1>1. I \subseteq Nat /\ I # {}
  OBVIOUS
<1>2. PICK m \in I : \A k \in I : <<k, m>> \notin OpToRel(<, Nat)
  <2> HIDE DEF I
  <2> QED BY <1>1, WFMin, NatLessThanWellFounded
<1>3. \A k \in I : ~(k < m)
  BY <1>1, <1>2, Zenon DEF OpToRel
<1>4. \A k \in I : m =< k
  BY <1>3
<1>5. Min(I) \in I
  BY <1>4 DEF Min
<1> QED BY <1>5

\* Deleting a line leaves a sequence of records.
LEMMA RemoveFirstType ==
  ASSUME NEW s \in Seq(RR), NEW e
  PROVE  RemoveFirst(s, e) \in Seq(RR)
<1>1. CASE \E i \in 1 .. Len(s) : s[i] = e
  <2>1. PICK n \in 1 .. Len(s) : RemoveFirst(s, e) = RemoveAt(s, n)
    BY <1>1, FirstMatch DEF RemoveFirst, SelectInSeq
  <2>2. SubSeq(s, 1, n - 1) \in Seq(RR) /\ SubSeq(s, n + 1, Len(s)) \in Seq(RR)
    BY SubSeqProperties
  <2> QED BY <2>1, <2>2 DEF RemoveAt
<1>2. CASE ~ \E i \in 1 .. Len(s) : s[i] = e
  BY <1>2 DEF RemoveFirst
<1> QED BY <1>1, <1>2

\* What a writer will write is a text, if it is not refused.
LEMMA ComputeType ==
  ASSUME NEW j \in RecordJob \union RawJob, NEW cur \in Text
  PROVE  /\ Compute(j, cur) \in Text \union {NoText}
         /\ Compute(j, cur) # NoText => Screen(cur)
<1>1. \A n \in 0 .. SerialMod - 1 : nextSerial(n) \in 0 .. SerialMod - 1
  BY ConstantsAssumption DEF nextSerial, Larger
<1>2. \A t \in Text : NormalizeRawSerial(cur, t) \in Text \union {NoText}
  BY <1>1 DEF NormalizeRawSerial, Text, Larger
<1>3. j.kind # "raw" => j \in RecordJob
  BY DEF RawJob
<1>4. ASSUME j \in RecordJob PROVE EditLines(cur.recs, j) \in Seq(RR)
  BY <1>4, RemoveFirstType DEF EditLines, RecordJob, Text
<1>5. ASSUME j \in RecordJob PROVE Edit(cur, j) \in Text \union {NoText}
  BY <1>1, <1>4, <1>5 DEF Edit, Text
<1>6. j.kind = "raw" => j \in RawJob
  BY DEF RecordJob
<1>7. j \in RawJob => j.text \in Text
  BY DEF RawJob
<1> QED BY <1>2, <1>3, <1>5, <1>6, <1>7 DEF Compute

-----------------------------------------------------------------------------
(* The inductive invariant. *)

Computed == {"guard"} \union Committing

\* The buffers of a writer that has read the file under the lock.
BuffersInv(w) ==
  /\ orig[w] \in Text
  /\ new[w] \in Text
  /\ new[w] = Compute(job[w], orig[w])
  /\ Screen(orig[w])
  /\ CheckZone(orig[w]) \/ orig[w] \in HandTexts

\* The file in a commit window that no hand save has disturbed.
WindowInv(w) ==
  /\ pc[w] \in {"backup", "write"} => file = orig[w]
  /\ pc[w] \in {"reload", "restore", "verify"} => file = new[w]
  /\ pc[w] = "verify" => served = new[w] \/ pending

WriterInv(w) ==
  /\ pc[w] \in Holding => lock = w
  /\ pc[w] # "idle" => job[w] # NoJob
  /\ pc[w] = "editing" => job[w] \in RawJob
  /\ pc[w] \in Computed => BuffersInv(w)
  /\ pc[w] \in Committing => CheckZone(new[w])
  /\ w \notin touched => WindowInv(w)

IInv ==
  /\ TypeOK
  /\ \A w \in Writers : WriterInv(w)
  /\ BackupHeld
  /\ BrokenOnlyByHand

\* The start: nobody is writing, and the file is loadable.
LEMMA InitIInv ==
  ASSUME Init
  PROVE  IInv
<1> USE DEF Init
<1>0. <<>> \in Seq(Text)
  BY EmptySeq
<1>1. TypeOK
  <2>1. file \in Text /\ served \in Text /\ backups \in Seq(Text)
    BY <1>0, ConstantsAssumption
  <2>2. edits \in 0 .. MaxEdits /\ operator \in 0 .. MaxOperator
    BY ConstantsAssumption
  <2>3. /\ pc \in [Writers -> InFlight \union {"idle"}]
        /\ res \in [Writers -> Result]
    BY DEF InFlight, Result
  <2> QED BY <2>1, <2>2, <2>3 DEF TypeOK
<1>2. \A w \in Writers : pc[w] = "idle"
  BY DEF Init
<1>3. \A w \in Writers : WriterInv(w)
  BY <1>2 DEF WriterInv, WindowInv, Holding, Committing, Computed
<1>4. BackupHeld
  BY <1>2 DEF BackupHeld
<1>5. BrokenOnlyByHand
  BY InitialLoadable DEF Init, BrokenOnlyByHand
<1> QED BY <1>1, <1>3, <1>4, <1>5 DEF IInv

\* Everything a returning writer leaves behind: it holds nothing, knows
\* nothing, and the other writers keep what they know if the disk and named
\* are unchanged.
LEMMA ReturnKeeps ==
  ASSUME IInv, NEW w \in Writers, NEW r \in Result, Return(w, r),
         UNCHANGED <<diskVars, namedVars, editable, boundVars, historyVars>>
  PROVE  IInv'
<1> USE DEF IInv
<1>1. TypeOK'
  BY DEF TypeOK, Return, ReleaseOf, diskVars, namedVars, boundVars, historyVars
<1>2. ASSUME NEW v \in Writers PROVE WriterInv(v)'
  <2>1. CASE v = w
    BY <2>1 DEF WriterInv, WindowInv, Return, Holding, Computed, Committing, TypeOK
  <2>2. CASE v # w
    <3>1. pc'[v] = pc[v] /\ job'[v] = job[v] /\ orig'[v] = orig[v] /\ new'[v] = new[v]
      BY <2>2 DEF Return, TypeOK
    <3>2. pc[v] \in Holding => lock' = v
      BY <2>2 DEF WriterInv, Return, ReleaseOf
    <3> QED
      BY <3>1, <3>2 DEF WriterInv, BuffersInv, WindowInv, diskVars, namedVars, historyVars
  <2> QED BY <2>1, <2>2
<1>3. BackupHeld'
  BY DEF BackupHeld, Return, TypeOK, diskVars
<1>4. BrokenOnlyByHand'
  BY DEF BrokenOnlyByHand, diskVars
<1> QED BY <1>1, <1>2, <1>3, <1>4

\* A writer outside the lock keeps what it knows, whatever happens to the disk.
LEMMA OutsiderKeeps ==
  ASSUME NEW v \in Writers, WriterInv(v), pc[v] \notin Holding,
         pc'[v] = pc[v], job'[v] = job[v]
  PROVE  WriterInv(v)'
BY DEF WriterInv, WindowInv, Holding, Computed, Committing

\* A writer keeps what it knows through a step that leaves the disk, named and
\* its own variables alone.
LEMMA BystanderKeeps ==
  ASSUME NEW v \in Writers, WriterInv(v),
         pc'[v] = pc[v], job'[v] = job[v], orig'[v] = orig[v], new'[v] = new[v],
         UNCHANGED <<diskVars, namedVars, historyVars>>,
         pc[v] \in Holding => lock' = v
  PROVE  WriterInv(v)'
BY DEF WriterInv, BuffersInv, WindowInv, diskVars, namedVars, historyVars

\* Starting an edit: the writer has a job and no lock.
LEMMA StartKeeps ==
  ASSUME IInv, NEW w \in Writers,
         SubmitRecord(w) \/ OpenEditor(w) \/ Import(w)
  PROVE  IInv'
<1> USE DEF IInv
<1>1. /\ UNCHANGED <<diskVars, namedVars, editable, lock, orig, new, res,
                     operator, historyVars>>
      /\ edits' = edits + 1
      /\ edits < MaxEdits
  BY DEF SubmitRecord, OpenEditor, Import
<1>2. PICK p \in {"ready", "editing"} : pc' = [pc EXCEPT ![w] = p]
  BY DEF SubmitRecord, OpenEditor, Import, Goto
<1>3. PICK j \in RecordJob \union RawJob :
        /\ job' = [job EXCEPT ![w] = j]
        /\ p = "editing" => j \in RawJob
  <2>1. file \in Text
    BY DEF TypeOK
  <2>2. CASE SubmitRecord(w)
    <3>1. p = "ready"
      <4>1. pc'[w] = "ready" /\ pc'[w] = p
        BY <1>2, <2>2 DEF SubmitRecord, Goto, TypeOK
      <4> QED BY <4>1
    <3>2. PICK j \in RecordJob : job' = [job EXCEPT ![w] = j]
      BY <2>2 DEF SubmitRecord
    <3> QED BY <3>1, <3>2
  <2>3. CASE OpenEditor(w)
    <3> DEFINE j == [kind |-> "raw", text |-> file, base |-> file]
    <3>1. j \in RawJob
      BY <2>1 DEF RawJob
    <3>2. job' = [job EXCEPT ![w] = j]
      BY <2>3 DEF OpenEditor
    <3> QED BY <3>1, <3>2
  <2>4. CASE Import(w)
    <3>1. PICK t \in RawTexts :
            job' = [job EXCEPT ![w] = [kind |-> "raw", text |-> t, base |-> file]]
      BY <2>4 DEF Import
    <3>2. [kind |-> "raw", text |-> t, base |-> file] \in RawJob
      BY <2>1, ConstantsAssumption DEF RawJob
    <3> QED BY <3>1, <3>2
  <2> QED BY <2>2, <2>3, <2>4
<1>4. j # NoJob
  BY DEF RecordJob, RawJob, NoJob
<1>5. edits' \in 0 .. MaxEdits
  BY <1>1, ConstantsAssumption DEF TypeOK
<1>6. TypeOK'
  BY <1>1, <1>2, <1>3, <1>5
     DEF TypeOK, InFlight, diskVars, namedVars, historyVars
<1>7. ASSUME NEW v \in Writers PROVE WriterInv(v)'
  <2>1. CASE v = w
    <3>1. pc'[v] = p /\ job'[v] = j
      BY <2>1, <1>2, <1>3 DEF TypeOK
    <3> QED BY <3>1, <1>3, <1>4
            DEF WriterInv, WindowInv, Holding, Computed, Committing
  <2>2. CASE v # w
    BY <2>2, <1>1, <1>2, <1>3, BystanderKeeps DEF TypeOK, WriterInv
  <2> QED BY <2>1, <2>2
<1>8. BackupHeld'
  BY <1>1, <1>2 DEF BackupHeld, TypeOK, diskVars
<1>9. BrokenOnlyByHand'
  BY <1>1 DEF BrokenOnlyByHand, diskVars
<1> QED BY <1>6, <1>7, <1>8, <1>9

\* The steps before the file is read.
LEMMA BeforeReadKeeps ==
  ASSUME IInv, NEW w \in Writers, CloseEditor(w) \/ Resolve(w) \/ Lock(w)
  PROVE  IInv'
<1> USE DEF IInv
<1>1. ASSUME NEW r \in Result, Return(w, r),
             UNCHANGED <<diskVars, namedVars, editable, boundVars, historyVars>>
      PROVE  IInv'
  BY <1>1, ReturnKeeps
<1>2. "refused" \in Result
  BY DEF Result
<1> DEFINE
      Moves(p) == /\ pc' = [pc EXCEPT ![w] = p]
                  /\ pc[w] \in {"editing", "ready", "lock"}
                  /\ p = "read" => lock = Free /\ lock' = w
                  /\ p # "read" => UNCHANGED lock
                  /\ \/ UNCHANGED job
                     \/ \E t \in RawTexts : /\ pc[w] = "editing"
                                            /\ job' = [job EXCEPT ![w].text = t]
                  /\ UNCHANGED <<diskVars, namedVars, editable, orig, new, res,
                                 boundVars, historyVars>>
<1>3. ASSUME NEW p \in {"ready", "lock", "read"}, Moves(p) PROVE IInv'
  <2>1. Moves(p)
    BY <1>3
  <2>2. /\ job' \in [Writers -> RecordJob \union RawJob \union {NoJob}]
        /\ job'[w] # NoJob
        /\ \A v \in Writers : v # w => job'[v] = job[v]
    <3>1. CASE UNCHANGED job
      BY <2>1, <3>1 DEF TypeOK, WriterInv
    <3>2. CASE \E t \in RawTexts :
                 pc[w] = "editing" /\ job' = [job EXCEPT ![w].text = t]
      <4>1. PICK t \in RawTexts :
              pc[w] = "editing" /\ job' = [job EXCEPT ![w].text = t]
        BY <3>2
      <4>2. job[w] \in RawJob /\ t \in Text
        BY <4>1, ConstantsAssumption DEF WriterInv
      <4>3. [job[w] EXCEPT !.text = t] \in RawJob
        BY <4>2 DEF RawJob
      <4>4. [job[w] EXCEPT !.text = t] # NoJob
        BY <4>3 DEF RawJob, NoJob
      <4> QED BY <4>1, <4>3, <4>4 DEF TypeOK
    <3> QED BY <2>1, <3>1, <3>2
  <2>3. TypeOK'
    BY <2>1, <2>2
       DEF TypeOK, InFlight, diskVars, namedVars, boundVars, historyVars
  <2>4. ASSUME NEW v \in Writers PROVE WriterInv(v)'
    <3>1. CASE v = w
      <4>1. pc'[v] = p
        BY <3>1, <2>1 DEF TypeOK
      <4> QED BY <3>1, <4>1, <2>1, <2>2
              DEF WriterInv, WindowInv, Holding, Computed, Committing
    <3>2. CASE v # w
      <4>1. pc[v] \in Holding => lock' = v
        BY <3>2, <2>1, ConstantsAssumption DEF WriterInv
      <4> QED BY <3>2, <4>1, <2>1, <2>2, BystanderKeeps DEF TypeOK
    <3> QED BY <3>1, <3>2
  <2>5. BackupHeld'
    BY <2>1 DEF BackupHeld, TypeOK, diskVars
  <2>6. BrokenOnlyByHand'
    BY <2>1 DEF BrokenOnlyByHand, diskVars
  <2> QED BY <2>3, <2>4, <2>5, <2>6
<1>4. CASE CloseEditor(w)
  BY <1>1, <1>2, <1>3, <1>4 DEF CloseEditor
<1>5. CASE Resolve(w)
  BY <1>1, <1>2, <1>3, <1>5 DEF Resolve
<1>6. CASE Lock(w)
  BY <1>3, <1>6 DEF Lock, TakeLock, Goto
<1> QED BY <1>4, <1>5, <1>6

\* Pruning keeps the backup just written: Keep is at least one.
LEMMA PruneKeepsLast ==
  ASSUME NEW s \in Seq(Text), NEW t \in Text
  PROVE  /\ Prune(Append(s, t)) \in Seq(Text)
         /\ t \in ToSet(Prune(Append(s, t)))
<1> DEFINE u == Append(s, t)
           p == SubSeq(u, Len(u) - Keep + 1, Len(u))
<1>1. u \in Seq(Text) /\ Len(u) \in Nat \ {0} /\ u[Len(u)] = t
  BY AppendProperties
<1> HIDE DEF u
<1>2. CASE Len(u) > Keep
  <2>1. p \in Seq(Text) /\ Len(p) = Keep /\ p[Keep] = u[Len(u)]
    <3>1. \A i \in Len(u) - Keep + 1 .. Len(u) : u[i] \in Text
      BY <1>1, <1>2, ConstantsAssumption
    <3> QED BY <1>1, <1>2, <3>1, SubSeqProperties, ConstantsAssumption
  <2> HIDE DEF p
  <2>2. Keep \in DOMAIN p
    BY <2>1, ConstantsAssumption
  <2>3. t \in ToSet(p)
    BY <1>1, <2>1, <2>2 DEF ToSet
  <2>4. Prune(u) = p
    BY <1>2 DEF Prune, p
  <2> QED BY <2>1, <2>3, <2>4 DEF u
<1>3. CASE ~(Len(u) > Keep)
  <2>1. t \in ToSet(u)
    BY <1>1 DEF ToSet
  <2> QED BY <1>1, <1>3, <2>1 DEF Prune, u
<1> QED BY <1>2, <1>3

\* The holder of the lock is alone in it.
LEMMA Alone ==
  ASSUME IInv, NEW w \in Writers, pc[w] \in Holding
  PROVE  lock = w /\ \A v \in Writers : v # w => pc[v] \notin Holding
BY DEF IInv, WriterInv

\* Read the file under the lock and compute.
LEMMA ReadKeeps ==
  ASSUME IInv, NEW w \in Writers, Read(w)
  PROVE  IInv'
<1> USE DEF IInv
<1> DEFINE out == Compute(job[w], file)
<1>1. CASE out = NoText /\ Return(w, "refused")
  BY <1>1, ReturnKeeps DEF Read, Result
<1>2. CASE /\ out # NoText
           /\ pc' = [pc EXCEPT ![w] = "guard"]
           /\ orig' = [orig EXCEPT ![w] = file]
           /\ new' = [new EXCEPT ![w] = out]
           /\ UNCHANGED <<lock, job, res>>
  <2>1. job[w] \in RecordJob \union RawJob /\ file \in Text
    BY DEF Read, WriterInv, TypeOK
  <2>2. out \in Text /\ Screen(file)
    BY <1>2, <2>1, ComputeType
  <2>3. UNCHANGED <<diskVars, namedVars, editable, boundVars, historyVars>>
    BY DEF Read
  <2>4. TypeOK'
    BY <1>2, <2>1, <2>2, <2>3
       DEF TypeOK, InFlight, diskVars, namedVars, boundVars, historyVars
  <2>5. ASSUME NEW v \in Writers PROVE WriterInv(v)'
    <3>1. CASE v = w
      <4>1. /\ pc'[v] = "guard" /\ orig'[v] = file /\ new'[v] = out
            /\ job'[v] = job[v] /\ lock' = v /\ job[v] # NoJob
        BY <3>1, <1>2, Alone DEF Read, TypeOK, WriterInv, Holding
      <4>2. BuffersInv(v)'
        BY <3>1, <4>1, <2>1, <2>2 DEF BuffersInv, BrokenOnlyByHand
      <4> QED BY <4>1, <4>2
              DEF WriterInv, WindowInv, Computed, Committing, Holding
    <3>2. CASE v # w
      BY <3>2, <1>2, <2>3, BystanderKeeps DEF TypeOK, WriterInv
    <3> QED BY <3>1, <3>2
  <2>6. BackupHeld'
    BY <1>2, <2>3 DEF BackupHeld, TypeOK, diskVars
  <2>7. BrokenOnlyByHand'
    BY <2>3 DEF BrokenOnlyByHand, diskVars
  <2> QED BY <2>4, <2>5, <2>6, <2>7
<1> QED BY <1>1, <1>2 DEF Read

\* The gate and the guard.
LEMMA GuardKeeps ==
  ASSUME IInv, NEW w \in Writers, Guard(w)
  PROVE  IInv'
<1> USE DEF IInv
<1>1. CASE Return(w, "refused") /\ UNCHANGED touched
  BY <1>1, ReturnKeeps DEF Guard, Result, historyVars
<1>2. CASE /\ CheckPasses(w) /\ Unmoved(w)
           /\ pc' = [pc EXCEPT ![w] = "backup"]
           /\ touched' = touched \ {w}
           /\ UNCHANGED <<lock, job, orig, new, res>>
  <2>1. /\ UNCHANGED <<diskVars, namedVars, editable, boundVars, rolledBack>>
        /\ pc[w] = "guard"
    BY DEF Guard
  <2>2. lock = w /\ \A v \in Writers : v # w => pc[v] \notin Holding
    BY <2>1, Alone DEF Holding
  <2>3. TypeOK'
    BY <1>2, <2>1 DEF TypeOK, InFlight, diskVars, namedVars, boundVars
  <2>4. ASSUME NEW v \in Writers PROVE WriterInv(v)'
    <3>1. CASE v = w
      <4>1. pc'[v] = "backup" /\ BuffersInv(v) /\ job[v] # NoJob
        BY <3>1, <1>2, <2>1 DEF TypeOK, WriterInv, Computed
      <4>2. BuffersInv(v)'
        BY <4>1, <1>2 DEF BuffersInv
      <4> QED BY <3>1, <4>1, <4>2, <1>2, <2>1, <2>2
              DEF WriterInv, WindowInv, CheckPasses, Unmoved, diskVars
    <3>2. CASE v # w
      BY <3>2, <1>2, <2>2, OutsiderKeeps DEF TypeOK
    <3> QED BY <3>1, <3>2
  <2>5. BackupHeld'
    BY <1>2, <2>1 DEF BackupHeld, TypeOK, diskVars
  <2>6. BrokenOnlyByHand'
    BY <2>1 DEF BrokenOnlyByHand, diskVars
  <2> QED BY <2>3, <2>4, <2>5, <2>6
<1> QED BY <1>1, <1>2 DEF Guard

\* The backup, the rename and rndc: the holder of the lock moves on with its
\* buffers as they are.
LEMMA CommitKeeps ==
  ASSUME IInv, NEW w \in Writers, Backup(w) \/ Write(w) \/ Reload(w)
  PROVE  IInv'
<1> USE DEF IInv
<1>1. /\ pc[w] \in {"backup", "write", "reload"}
      /\ UNCHANGED <<editable, lock, job, orig, new, res, boundVars, served>>
  BY DEF Backup, Write, Reload, Goto, namedVars
<1>2. PICK p \in {"write", "reload", "restore", "verify"} :
        pc' = [pc EXCEPT ![w] = p]
  BY DEF Backup, Write, Reload, Goto
<1>3. lock = w /\ \A v \in Writers : v # w => pc[v] \notin Holding
  BY <1>1, Alone DEF Holding
<1>4. BuffersInv(w) /\ CheckZone(new[w]) /\ job[w] # NoJob
  BY <1>1 DEF WriterInv, Computed, Committing
<1>5. pc'[w] = p /\ \A v \in Writers : v # w => pc'[v] = pc[v]
  BY <1>2 DEF TypeOK
<1>6. ASSUME NEW v \in Writers, v # w PROVE WriterInv(v)'
  BY <1>1, <1>3, <1>5, <1>6, OutsiderKeeps
<1>7. BuffersInv(w)'
  BY <1>1, <1>4 DEF BuffersInv
<1>8. ASSUME (w \notin touched => WindowInv(w))' PROVE WriterInv(w)'
  BY <1>1, <1>3, <1>4, <1>5, <1>7, <1>8 DEF WriterInv
<1>9. CASE Backup(w)
  <2>1. /\ UNCHANGED <<file, namedVars, historyVars>>
        /\ pc[w] = "backup" /\ pc'[w] = "write"
        /\ backups' = Prune(Append(backups, orig[w]))
    BY <1>9 DEF Backup, Goto, TypeOK
  <2>2. backups' \in Seq(Text) /\ orig[w] \in ToSet(backups')
    BY <2>1, <1>4, PruneKeepsLast DEF TypeOK, BuffersInv
  <2>3. TypeOK'
    BY <1>1, <1>2, <2>1, <2>2
       DEF TypeOK, InFlight, namedVars, boundVars, historyVars
  <2>4. WriterInv(w)'
    BY <2>1, <1>1, <1>8 DEF WriterInv, WindowInv, historyVars
  <2>5. BackupHeld'
    BY <1>1, <1>3, <1>5, <2>2 DEF BackupHeld, Holding
  <2>6. BrokenOnlyByHand'
    BY <2>1 DEF BrokenOnlyByHand
  <2> QED BY <1>6, <2>3, <2>4, <2>5, <2>6
<1>10. CASE Write(w)
  <2>1. /\ UNCHANGED <<backups, namedVars>>
        /\ pc[w] = "write" /\ pc'[w] = "reload"
        /\ file' = new[w]
        /\ touched' = touched \ {w}
        /\ rolledBack' = rolledBack \ {new[w]}
    BY <1>10 DEF Write, Goto, TypeOK
  <2>2. TypeOK'
    BY <1>1, <1>2, <1>4, <2>1
       DEF TypeOK, BuffersInv, InFlight, namedVars, boundVars
  <2>3. WriterInv(w)'
    BY <2>1, <1>1, <1>8 DEF WindowInv
  <2>4. BackupHeld'
    BY <1>1, <1>5, <2>1 DEF BackupHeld
  <2>5. BrokenOnlyByHand'
    BY <1>4, <2>1 DEF BrokenOnlyByHand
  <2> QED BY <1>6, <2>2, <2>3, <2>4, <2>5
<1>11. CASE Reload(w)
  <2>1. /\ UNCHANGED <<diskVars, historyVars>>
        /\ pc[w] = "reload" /\ pc'[w] \in {"restore", "verify"}
        /\ pc'[w] = "verify" => pending' = TRUE
        /\ pending' \in {pending, TRUE}
    <3>1. UNCHANGED <<diskVars, historyVars>> /\ pc[w] = "reload"
      BY <1>11 DEF Reload
    <3>2. CASE pc' = [pc EXCEPT ![w] = "verify"] /\ pending' = TRUE
      BY <3>1, <3>2 DEF TypeOK
    <3>3. CASE pc' = [pc EXCEPT ![w] = "restore"] /\ pending' \in {pending, TRUE}
      BY <3>1, <3>3 DEF TypeOK
    <3> QED BY <1>11, <3>2, <3>3 DEF Reload
  <2>2. TypeOK'
    BY <1>1, <1>2, <2>1
       DEF TypeOK, InFlight, diskVars, boundVars, historyVars
  <2>3. WriterInv(w)'
    BY <2>1, <1>1, <1>8 DEF WriterInv, WindowInv, diskVars, historyVars
  <2>4. BackupHeld'
    BY <1>1, <1>5, <2>1 DEF BackupHeld, diskVars
  <2>5. BrokenOnlyByHand'
    BY <2>1 DEF BrokenOnlyByHand, diskVars
  <2> QED BY <1>6, <2>2, <2>3, <2>4, <2>5
<1> QED BY <1>9, <1>10, <1>11

\* The ways out: an early failure, the roll-back, the verdict, a death.
LEMMA FinishKeeps ==
  ASSUME IInv, NEW w \in Writers,
         FailEarly(w) \/ Restore(w) \/ Verify(w) \/ Crash(w)
  PROVE  IInv'
<1> USE DEF IInv
<1>1. {"ok", "refused", "rolled_back", "failed"} \subseteq Result
  BY DEF Result
<1>2. CASE FailEarly(w)
  BY <1>1, <1>2, ReturnKeeps DEF FailEarly
<1>3. CASE Verify(w)
  BY <1>1, <1>3, ReturnKeeps DEF Verify
<1>4. CASE Crash(w)
  BY <1>1, <1>4, ReturnKeeps DEF Crash
<1>5. CASE Restore(w)
  <2>1. CASE Return(w, "failed") /\ UNCHANGED <<file, rolledBack>>
    BY <1>1, <1>5, <2>1, ReturnKeeps DEF Restore, diskVars, historyVars
  <2>2. CASE /\ file' = orig[w]
             /\ rolledBack' = rolledBack \union {new[w]}
             /\ Return(w, "rolled_back")
    <3>1. /\ pc[w] = "restore"
          /\ UNCHANGED <<backups, namedVars, editable, boundVars, touched>>
      BY <1>5 DEF Restore
    <3>2. lock = w /\ \A v \in Writers : v # w => pc[v] \notin Holding
      BY <3>1, Alone DEF Holding
    <3>3. BuffersInv(w)
      BY <3>1 DEF WriterInv, Computed, Committing
    <3>4. TypeOK'
      BY <1>1, <2>2, <3>1, <3>3
         DEF TypeOK, Return, ReleaseOf, BuffersInv, namedVars, boundVars
    <3>5. ASSUME NEW v \in Writers PROVE WriterInv(v)'
      <4>1. CASE v = w
        BY <4>1, <2>2
           DEF WriterInv, WindowInv, Return, Holding, Computed, Committing, TypeOK
      <4>2. CASE v # w
        BY <4>2, <2>2, <3>2, OutsiderKeeps DEF Return, TypeOK
      <4> QED BY <4>1, <4>2
    <3>6. BackupHeld'
      BY <2>2, <3>1 DEF BackupHeld, Return, TypeOK
    <3>7. BrokenOnlyByHand'
      BY <2>2, <3>3 DEF BrokenOnlyByHand, BuffersInv
    <3> QED BY <3>4, <3>5, <3>6, <3>7
  <2> QED BY <1>5, <2>1, <2>2 DEF Restore
<1> QED BY <1>2, <1>3, <1>4, <1>5

\* The operator and named.
LEMMA EnvironmentKeeps ==
  ASSUME IInv, HandSave \/ ToggleZone \/ OperatorReload \/ NamedLoad
  PROVE  IInv'
<1> USE DEF IInv
<1>1. UNCHANGED <<lock, writerVars, backups, rolledBack, edits>>
  BY DEF HandSave, ToggleZone, OperatorReload, NamedLoad, diskVars,
         boundVars, historyVars
<1>2. BackupHeld'
  BY <1>1 DEF BackupHeld, writerVars
<1>3. operator' \in 0 .. MaxOperator
  BY ConstantsAssumption DEF HandSave, ToggleZone, OperatorReload, NamedLoad,
                         OperatorEvent, boundVars, TypeOK
<1>4. CASE HandSave
  <2>1. /\ file' \in HandTexts /\ UNCHANGED <<namedVars, editable>>
        /\ touched' = touched \union {w \in Writers : pc[w] \in Committing}
    BY <1>4 DEF HandSave
  <2>2. TypeOK'
    BY <1>1, <1>3, <2>1, ConstantsAssumption DEF TypeOK, writerVars, namedVars
  <2>3. ASSUME NEW v \in Writers PROVE WriterInv(v)'
    <3>1. WriterInv(v)
      OBVIOUS
    <3>2. v \notin touched' => pc[v] \notin Committing
      BY <2>1
    <3> QED BY <1>1, <3>1, <3>2
            DEF WriterInv, BuffersInv, WindowInv, writerVars, Committing
  <2>4. BrokenOnlyByHand'
    BY <2>1 DEF BrokenOnlyByHand
  <2> QED BY <1>2, <2>2, <2>3, <2>4
<1>5. CASE ToggleZone \/ OperatorReload \/ NamedLoad
  <2>1. /\ UNCHANGED <<file, touched>>
        /\ pending' \in BOOLEAN /\ editable' \in BOOLEAN /\ served' \in Text
    BY <1>5 DEF ToggleZone, OperatorReload, NamedLoad, diskVars, namedVars,
                historyVars, TypeOK
  <2>2. TypeOK'
    BY <1>1, <1>3, <2>1 DEF TypeOK, writerVars
  <2>3. ASSUME NEW v \in Writers PROVE WriterInv(v)'
    <3>1. WriterInv(v)
      OBVIOUS
    <3>2. ASSUME v \notin touched, pc[v] = "verify"
          PROVE  served' = new[v] \/ pending'
      <4>1. file = new[v] /\ CheckZone(new[v]) /\ (served = new[v] \/ pending)
        BY <3>1, <3>2 DEF WriterInv, WindowInv, Committing
      <4> QED BY <1>5, <4>1
              DEF ToggleZone, OperatorReload, NamedLoad, namedVars
    <3> QED BY <1>1, <2>1, <3>1, <3>2
            DEF WriterInv, BuffersInv, WindowInv, writerVars
  <2>4. BrokenOnlyByHand'
    BY <2>1 DEF BrokenOnlyByHand
  <2> QED BY <1>2, <2>2, <2>3, <2>4
<1> QED BY <1>4, <1>5

\* One step of a writer, the operator or named.
LEMMA NextIInv ==
  ASSUME IInv, [Next]_vars
  PROVE  IInv'
<1>1. CASE UNCHANGED vars
  <2>1. UNCHANGED <<file, served, pending, editable, backups, lock, pc, job,
                    orig, new, res, edits, operator, touched, rolledBack>>
    BY <1>1 DEF vars, diskVars, namedVars, writerVars, boundVars, historyVars
  <2> QED BY <2>1 DEF IInv, TypeOK, WriterInv, BuffersInv, WindowInv,
                      BackupHeld, BrokenOnlyByHand
<1>2. CASE Next
  BY <1>2, StartKeeps, BeforeReadKeeps, ReadKeeps, GuardKeeps, CommitKeeps,
     FinishKeeps, EnvironmentKeeps DEF Next, Step
<1> QED BY <1>1, <1>2

\* The invariant holds in every reachable state.
THEOREM Inductive == Spec => []IInv
BY InitIInv, NextIInv, PTL DEF Spec

-----------------------------------------------------------------------------
(* The theorems. *)

\* Every reachable state is typed: in particular a writer never writes the
\* result of a refused computation.
THEOREM TypeCorrect == Spec => []TypeOK
<1>1. IInv => TypeOK
  BY DEF IInv
<1> QED BY <1>1, Inductive, PTL

\* While a writer may replace the file, and until it returns, the bytes it
\* replaces are among the backups, for every retention of at least one.
THEOREM BackupsHeld == Spec => []BackupHeld
<1>1. IInv => BackupHeld
  BY DEF IInv
<1> QED BY <1>1, Inductive, PTL

\* Only a save by hand leaves a file that named refuses.
THEOREM Loadable == Spec => []BrokenOnlyByHand
<1>1. IInv => BrokenOnlyByHand
  BY DEF IInv
<1> QED BY <1>1, Inductive, PTL

\* A rename is a Write step, a return from "restore" is a Restore or a death,
\* a successful return from "verify" is a Verify step.
LEMMA RenamedByWrite ==
  ASSUME IInv, Next, NEW w \in Writers, Renamed(w)
  PROVE  Write(w)
<1>1. pc[w] = "write" /\ pc'[w] = "reload" /\ pc \in [Writers -> InFlight \union {"idle"}]
  BY DEF Renamed, IInv, TypeOK
<1>2. ~ \/ HandSave \/ ToggleZone \/ OperatorReload \/ NamedLoad
  BY <1>1 DEF HandSave, ToggleZone, OperatorReload, NamedLoad, writerVars
<1>3. PICK v \in Writers :
        SubmitRecord(v) \/ OpenEditor(v) \/ Import(v) \/ Step(v)
                \/ FailEarly(v) \/ Crash(v)
  BY <1>2 DEF Next
<1>4. v = w
  BY <1>1, <1>3 DEF SubmitRecord, OpenEditor, Import, Step, Crash, CloseEditor,
     Resolve, Lock, TakeLock, Read, Guard, Backup, Write, FailEarly, Reload,
     Restore, Verify, Goto, Return
<1> QED BY <1>1, <1>3, <1>4 DEF SubmitRecord, OpenEditor, Import, Step, Crash,
     CloseEditor, Resolve, Lock, TakeLock, Read, Guard, Backup, FailEarly,
     Reload, Restore, Verify, Goto, Return

\* No lost update among goddns writers.
THEOREM NoLostUpdate == Spec => WritersSerialize
<1> DEFINE A == \A w \in Writers \ touched :
                  /\ Renamed(w) => file = orig[w] /\ Screen(file)
                  /\ Undone(w) => file = new[w] /\ file' = orig[w]
<1>1. ASSUME IInv, [Next]_vars PROVE [A]_vars
  <2>1. CASE Next
    <3>1. ASSUME NEW w \in Writers \ touched, Renamed(w)
          PROVE  file = orig[w] /\ Screen(file)
      BY <1>1, <3>1 DEF Renamed, IInv, WriterInv, WindowInv, BuffersInv, Computed, Committing
    <3>2. ASSUME NEW w \in Writers \ touched, Undone(w)
          PROVE  file = new[w] /\ file' = orig[w]
      <4>1. file = new[w]
        BY <1>1, <3>2 DEF Undone, IInv, WriterInv, WindowInv
      <4>2. pc[w] = "restore" /\ pc'[w] = "idle" /\ res'[w] = "rolled_back"
            /\ pc \in [Writers -> InFlight \union {"idle"}]
            /\ res \in [Writers -> Result]
        BY <1>1, <3>2 DEF Undone, Returned, IInv, TypeOK
      <4>3. PICK v \in Writers :
              SubmitRecord(v) \/ OpenEditor(v) \/ Import(v) \/ Step(v)
                \/ FailEarly(v) \/ Crash(v)
        BY <2>1, <4>2 DEF Next, HandSave, ToggleZone, OperatorReload, NamedLoad,
                          writerVars
      <4>4. v = w
        BY <4>2, <4>3 DEF SubmitRecord, OpenEditor, Import, Step, Crash,
           CloseEditor, Resolve, Lock, TakeLock, Read, Guard, Backup, Write,
           FailEarly, Reload, Restore, Verify, Goto, Return
      <4>5. Restore(w) \/ Crash(w)
        BY <4>2, <4>3, <4>4 DEF SubmitRecord, OpenEditor, Import, Step,
           CloseEditor, Resolve, Lock, TakeLock, Read, Guard, Backup, Write,
           FailEarly, Reload, Verify, Goto
      <4>6. ~Return(w, "failed")
        BY <4>2 DEF Return
      <4> QED BY <4>1, <4>5, <4>6 DEF Restore, Crash
    <3> QED BY <3>1, <3>2
  <2>2. CASE UNCHANGED vars
    BY <2>2
  <2> QED BY <1>1, <2>1, <2>2
<1> QED BY <1>1, Inductive, PTL DEF Spec, WritersSerialize

\* A success reported to the caller means that named has the text or is about
\* to read it.
THEOREM AppliedIsServed == Spec => AppliedReachesNamed
<1> DEFINE A == \A w \in Writers \ touched :
                  pc[w] = "verify" /\ Returned(w, "ok") =>
                    \/ served = new[w]
                    \/ pending /\ file = new[w]
<1>1. ASSUME IInv PROVE A
  BY <1>1 DEF IInv, WriterInv, WindowInv
<1>2. IInv => [A]_vars
  BY <1>1
<1> QED BY <1>2, Inductive, PTL DEF AppliedReachesNamed

-----------------------------------------------------------------------------
(* The pipeline implements AtomicZone. *)

\* What each step is to the mapping: a writer's job is fixed,
LEMMA AtomicAsk ==
  ASSUME IInv, NEW w \in Writers, pc[w] \in {"idle", "editing"},
         pc' = [pc EXCEPT ![w] = "ready"], job' = [job EXCEPT ![w] = job'[w]],
         job'[w] \in RecordJob \union RawJob, UNCHANGED <<file, orig, res, touched>>
  PROVE  Atomic!Ask(w)
<1>1. /\ pc \in [Writers -> InFlight \union {"idle"}]
      /\ job \in [Writers -> RecordJob \union RawJob \union {NoJob}]
  BY DEF IInv, TypeOK
<1>2. /\ Phase(w) = "idle" /\ Phase(w)' = "asked"
      /\ \A v \in Writers \ {w} : Phase(v)' = Phase(v)
  BY <1>1 DEF Phase, Asked, Applied
<1>3. {v \in touched : pc[v] \in Committing}' = {v \in touched : pc[v] \in Committing}
  <2>1. touched \subseteq Writers
    BY DEF IInv, TypeOK
  <2> QED
    BY <1>1, <2>1 DEF Committing
<1>4. \A v \in Writers \ {w} : pc'[v] = pc[v] /\ job'[v] = job[v] /\ orig'[v] = orig[v]
  BY <1>1
<1>5. pc'[w] \in Asked \union Applied /\ pc'[w] \notin Applied /\ pc[w] \notin Applied
  BY <1>1 DEF Asked, Applied
<1> QED
  BY <1>1, <1>2, <1>3, <1>4, <1>5 DEF Atomic!Ask

\* a call returns,
LEMMA AtomicAnswer ==
  ASSUME IInv, NEW w \in Writers, NEW r, Return(w, r), UNCHANGED touched
  PROVE  Atomic!Answer(w, r)
<1>1. /\ pc \in [Writers -> InFlight \union {"idle"}] /\ touched \subseteq Writers
      /\ pc'[w] = "idle" /\ pc' = [pc EXCEPT ![w] = "idle"]
      /\ \A v \in Writers \ {w} : pc'[v] = pc[v] /\ job'[v] = job[v] /\ orig'[v] = orig[v]
  BY DEF IInv, TypeOK, Return
<1>2. Phase(w)' = "idle" /\ \A v \in Writers \ {w} : Phase(v)' = Phase(v)
  BY <1>1 DEF Phase, Asked, Applied
<1>3. {v \in touched : pc[v] \in Committing}' = {v \in touched : pc[v] \in Committing} \ {w}
  BY <1>1 DEF Committing
<1>4. pc'[w] \notin Asked \union Applied
  BY <1>1 DEF Asked, Applied
<1> QED
  BY <1>1, <1>2, <1>3, <1>4, ZenonT(60) DEF Atomic!Answer, Return

\* or nothing that the abstract file shows happens.
LEMMA AtomicQuiet ==
  ASSUME IInv, NEW w \in Writers, pc' = [pc EXCEPT ![w] = pc'[w]],
         \/ pc[w] \in Asked /\ pc'[w] \in Asked
              /\ (pc[w] \in Committing => pc'[w] \in Committing)
              /\ UNCHANGED job /\ orig' = [orig EXCEPT ![w] = orig'[w]]
         \/ pc[w] \in Applied /\ pc'[w] \in Applied /\ UNCHANGED <<job, orig>>
         \/ pc[w] = "idle" /\ pc'[w] = "editing"
              /\ job' = [job EXCEPT ![w] = job'[w]] /\ UNCHANGED orig,
         \/ UNCHANGED touched /\ (pc'[w] \in Committing => pc[w] \in Committing)
         \/ touched' = touched \ {w} /\ pc[w] \notin Committing,
         UNCHANGED <<file, res>>
  PROVE  UNCHANGED Atomic!vars
<1>1. pc \in [Writers -> InFlight \union {"idle"}] /\ touched \subseteq Writers
  BY DEF IInv, TypeOK
<1>2. \A v \in Writers : Phase(v)' = Phase(v)
  BY <1>1 DEF Phase, Asked, Applied
<1>3. {v \in touched : pc[v] \in Committing}' = {v \in touched : pc[v] \in Committing}
  BY <1>1 DEF Committing, Asked, Applied
<1>4. \A v \in Writers :
        /\ (IF pc[v] \in Asked \union Applied THEN job[v] ELSE NoJob)'
             = IF pc[v] \in Asked \union Applied THEN job[v] ELSE NoJob
        /\ (IF pc[v] \in Applied THEN orig[v] ELSE NoText)'
             = IF pc[v] \in Applied THEN orig[v] ELSE NoText
  BY <1>1 DEF Asked, Applied, IInv, TypeOK
<1> QED
  BY <1>2, <1>3, <1>4 DEF Atomic!vars

\* The rename is the moment at which an edit takes effect.
LEMMA AtomicApply ==
  ASSUME IInv, NEW w \in Writers, Write(w)
  PROVE  Atomic!Apply(w)
<1>1. /\ pc \in [Writers -> InFlight \union {"idle"}] /\ touched \subseteq Writers
      /\ pc[w] = "write" /\ pc' = [pc EXCEPT ![w] = "reload"]
      /\ file' = new[w] /\ touched' = touched \ {w} /\ UNCHANGED <<job, orig, res>>
  BY DEF IInv, TypeOK, Write, Goto
<1>2. /\ orig[w] \in Text /\ new[w] \in Text /\ new[w] = Compute(job[w], orig[w])
      /\ CheckZone(new[w]) /\ (w \notin touched => file = orig[w])
  BY <1>1 DEF IInv, WriterInv, BuffersInv, WindowInv, Computed, Committing
<1>3. \A v \in Writers : pc[v] \notin Applied
  BY <1>1 DEF IInv, WriterInv, Holding, Applied
<1>4. /\ Phase(w) = "asked" /\ Phase(w)' = "applied"
      /\ \A v \in Writers \ {w} : Phase(v)' = Phase(v)
      /\ \A v \in Writers : Phase(v) # "applied"
  BY <1>1, <1>3 DEF Phase, Asked, Applied
<1>5. {v \in touched : pc[v] \in Committing}' = {v \in touched : pc[v] \in Committing} \ {w}
  BY <1>1 DEF Committing
<1>6. w \notin {v \in touched : pc[v] \in Committing} => w \notin touched
  BY <1>1 DEF Committing
<1>7. \A v \in Writers :
        (IF pc[v] \in Asked \union Applied THEN job[v] ELSE NoJob)'
          = IF pc[v] \in Asked \union Applied THEN job[v] ELSE NoJob
  BY <1>1 DEF Asked, Applied
<1>8. /\ pc[w] \in Asked \union Applied /\ pc'[w] \in Applied
      /\ \A v \in Writers \ {w} : pc'[v] = pc[v] /\ orig'[v] = orig[v]
  BY <1>1 DEF Asked, Applied
<1> QED
  BY <1>1, <1>2, <1>4, <1>5, <1>6, <1>7, <1>8 DEF Atomic!Apply

\* Initially nothing is asked.
LEMMA AtomicStart ==
  ASSUME Init
  PROVE  Atomic!Init
BY DEF Init, Atomic!Init, Phase, Asked, Applied

\* Every step of a writer is a step of its call, or none.
LEMMA AtomicWriter ==
  ASSUME IInv, NEW w \in Writers,
         SubmitRecord(w) \/ OpenEditor(w) \/ Import(w) \/ Step(w) \/ FailEarly(w) \/ Crash(w)
  PROVE  Atomic!Next \/ UNCHANGED Atomic!vars
<1>0. /\ pc \in [Writers -> InFlight \union {"idle"}] /\ file \in Text
      /\ job \in [Writers -> RecordJob \union RawJob \union {NoJob}]
      /\ orig \in [Writers -> Text \union {NoText}] /\ RawTexts \subseteq Text
  BY ConstantsAssumption DEF IInv, TypeOK
<1>1. ASSUME NEW r \in {"refused", "failed"}, Return(w, r), UNCHANGED <<file, touched>>,
             r = "refused" => pc[w] \notin Applied
      PROVE  Atomic!Next
  <2>1. Atomic!Answer(w, r)
    BY <1>1, AtomicAnswer
  <2>2. r = "refused" => [v \in Writers |-> Phase(v)][w] # "applied"
    BY <1>1 DEF Phase
  <2> QED
    BY <1>1, <2>1, <2>2 DEF Atomic!Next, Atomic!Refuse, Atomic!Fail
<1>2. CASE SubmitRecord(w)
  <2>1. PICK j \in RecordJob : job' = [job EXCEPT ![w] = j]
    BY <1>2 DEF SubmitRecord
  <2>2. Atomic!Ask(w)
    BY <1>0, <1>2, <2>1, AtomicAsk DEF SubmitRecord, Goto, diskVars, historyVars
  <2> QED
    BY <2>2 DEF Atomic!Next
<1>3. CASE OpenEditor(w)
  BY <1>0, <1>3, AtomicQuiet DEF OpenEditor, Goto, diskVars, historyVars, Committing
<1>4. CASE Import(w)
  <2>1. PICK t \in RawTexts :
          job' = [job EXCEPT ![w] = [kind |-> "raw", text |-> t, base |-> file]]
    BY <1>4 DEF Import
  <2>2. job'[w] \in RawJob /\ job' = [job EXCEPT ![w] = job'[w]]
    BY <1>0, <2>1 DEF RawJob
  <2>3. Atomic!Ask(w)
    BY <1>4, <2>2, AtomicAsk DEF Import, Goto, diskVars, historyVars
  <2> QED
    BY <2>3 DEF Atomic!Next
<1>5. CASE CloseEditor(w)
  <2>1. CASE Return(w, "refused")
    BY <1>1, <1>5, <2>1 DEF CloseEditor, diskVars, historyVars, Applied
  <2>2. CASE ~Return(w, "refused")
    <3>1. PICK t \in RawTexts \ {job[w].base} :
            /\ pc' = [pc EXCEPT ![w] = "ready"] /\ job' = [job EXCEPT ![w].text = t]
            /\ UNCHANGED <<orig, res>>
      BY <1>5, <2>2 DEF CloseEditor
    <3>2. job[w] \in RawJob
      BY <1>5 DEF CloseEditor, IInv, WriterInv
    <3>3. job'[w] \in RawJob /\ job' = [job EXCEPT ![w] = job'[w]]
      BY <1>0, <3>1, <3>2 DEF RawJob
    <3>4. Atomic!Ask(w)
      BY <1>5, <3>1, <3>3, AtomicAsk DEF CloseEditor, diskVars, historyVars
    <3> QED
      BY <3>4 DEF Atomic!Next
  <2> QED
    BY <2>1, <2>2
<1>6. CASE Resolve(w)
  <2>1. CASE Return(w, "refused")
    BY <1>1, <1>6, <2>1 DEF Resolve, diskVars, historyVars, Applied
  <2>2. CASE ~Return(w, "refused")
    BY <1>0, <1>6, <2>2, AtomicQuiet DEF Resolve, diskVars, historyVars, Asked, Committing
  <2> QED
    BY <2>1, <2>2
<1>7. CASE Lock(w)
  BY <1>0, <1>7, AtomicQuiet DEF Lock, TakeLock, Goto, diskVars, historyVars, Asked, Committing
<1>8. CASE Read(w)
  <2>1. CASE Return(w, "refused")
    BY <1>1, <1>8, <2>1 DEF Read, diskVars, historyVars, Applied
  <2>2. CASE ~Return(w, "refused")
    BY <1>0, <1>8, <2>2, AtomicQuiet DEF Read, diskVars, historyVars, Asked, Committing
  <2> QED
    BY <2>1, <2>2
<1>9. CASE Guard(w)
  <2>1. CASE Return(w, "refused") /\ UNCHANGED touched
    BY <1>1, <1>9, <2>1 DEF Guard, diskVars, Applied
  <2>2. CASE ~(Return(w, "refused") /\ UNCHANGED touched)
    BY <1>0, <1>9, <2>2, AtomicQuiet DEF Guard, diskVars, Asked, Committing
  <2> QED
    BY <2>1, <2>2
<1>10. CASE Backup(w)
  BY <1>0, <1>10, AtomicQuiet DEF Backup, Goto, historyVars, Asked, Committing
<1>11. CASE Write(w)
  BY <1>11, AtomicApply DEF Atomic!Next
<1>12. CASE Reload(w)
  BY <1>0, <1>12, AtomicQuiet DEF Reload, diskVars, historyVars, Applied, Committing
<1>13. CASE Restore(w)
  <2>1. CASE Return(w, "failed") /\ UNCHANGED file
    BY <1>1, <1>13, <2>1 DEF Restore
  <2>2. CASE Return(w, "rolled_back") /\ file' = orig[w]
    <3>1. Atomic!Answer(w, "rolled_back")
      BY <1>13, <2>2, AtomicAnswer DEF Restore
    <3>2. pc[w] \in Applied /\ Phase(w) = "applied"
      BY <1>13 DEF Restore, Phase, Asked, Applied
    <3> QED
      BY <2>2, <3>1, <3>2 DEF Atomic!Next, Atomic!TakeBack
  <2> QED
    BY <1>13, <2>1, <2>2 DEF Restore
<1>14. CASE Verify(w)
  <2>1. CASE Return(w, "failed")
    BY <1>1, <1>14, <2>1 DEF Verify, diskVars, historyVars
  <2>2. CASE Return(w, "ok")
    <3>1. Atomic!Answer(w, "ok")
      BY <1>14, <2>2, AtomicAnswer DEF Verify, historyVars
    <3>2. Phase(w) = "applied"
      BY <1>14 DEF Verify, Phase, Asked, Applied
    <3> QED
      BY <1>14, <3>1, <3>2 DEF Atomic!Next, Atomic!Succeed, Verify, diskVars
  <2> QED
    BY <1>14, <2>1, <2>2 DEF Verify
<1>15. CASE FailEarly(w)
  BY <1>1, <1>15 DEF FailEarly, diskVars, historyVars, Applied
<1>16. CASE Crash(w)
  BY <1>1, <1>16 DEF Crash, diskVars, historyVars
<1> QED
  BY <1>2, <1>3, <1>4, <1>5, <1>6, <1>7, <1>8, <1>9, <1>10, <1>11, <1>12, <1>13, <1>14,
     <1>15, <1>16 DEF Step

\* Of the environment the abstract file sees the saves by hand.
LEMMA AtomicEnvironment ==
  ASSUME IInv, HandSave \/ ToggleZone \/ OperatorReload \/ NamedLoad \/ UNCHANGED vars
  PROVE  Atomic!HandSave \/ UNCHANGED Atomic!vars
<1>1. CASE HandSave
  <2>1. /\ file' \in HandTexts /\ UNCHANGED <<pc, job, orig, res>>
        /\ touched' = touched \union {w \in Writers : pc[w] \in Committing}
        /\ touched \subseteq Writers
    BY <1>1 DEF HandSave, writerVars, IInv, TypeOK
  <2>2. \A w \in Writers : Phase(w)' = Phase(w) /\ (pc[w] \in Committing => Phase(w) # "idle")
    BY <2>1 DEF Phase, Asked, Applied, Committing
  <2> QED
    BY <2>1, <2>2 DEF Atomic!HandSave
<1>2. CASE ToggleZone \/ OperatorReload \/ NamedLoad \/ UNCHANGED vars
  <2>1. UNCHANGED <<file, pc, job, orig, res, touched>>
    BY <1>2 DEF ToggleZone, OperatorReload, NamedLoad, vars, diskVars, writerVars, historyVars
  <2>2. \A w \in Writers : Phase(w)' = Phase(w)
    BY <2>1 DEF Phase
  <2> QED
    BY <2>1, <2>2 DEF Atomic!vars
<1> QED
  BY <1>1, <1>2

(***************************************************************************)
(* Apply and ReplaceRaw, with their lock, steps, failures and crashes,     *)
(* change the zone file atomically, and every answer is true: the pipeline *)
(* implements AtomicZone.                                                  *)
(***************************************************************************)
THEOREM PipelineIsAtomic == Spec => EditsAtomic
<1>1. Init => Atomic!Init
  BY AtomicStart
<1>2. IInv /\ [Next]_vars => [Atomic!Next]_(Atomic!vars)
  <2> SUFFICES ASSUME IInv, [Next]_vars PROVE Atomic!Next \/ UNCHANGED Atomic!vars
    OBVIOUS
  <2>1. Atomic!HandSave => Atomic!Next
    BY DEF Atomic!Next
  <2> QED
    BY <2>1, AtomicWriter, AtomicEnvironment DEF Next
<1> QED
  BY <1>1, <1>2, Inductive, PTL DEF Spec, EditsAtomic, Atomic!Spec

-----------------------------------------------------------------------------
(* Serials. *)

\* nextSerial publishes a serial that secondaries take for newer, also when
\* cur + 1 wraps: the day's serial is below half of the serial space.
LEMMA NextSerialNewer ==
  ASSUME NEW n \in 0 .. SerialMod - 1
  PROVE  SerialNewer(nextSerial(n), n)
<1> DEFINE M == SerialMod
           h == (M - 1) \div 2
<1>1. /\ M \in Nat /\ M > 0 /\ Today \in Nat /\ 2 * (Today + 1) < M
      /\ n \in Nat /\ n < M
  BY ConstantsAssumption
<1>2. h \in Nat /\ Today + 1 =< h
  BY <1>1
<1>3. CASE n + 1 = M
  <2>1. (n + 1) % M = 0
    BY <1>1, <1>3
  <2>2. nextSerial(n) = Today
    BY <1>1, <2>1 DEF nextSerial, Larger
  <2>3. (Today + M) - n = Today + 1
    BY <1>1, <1>3
  <2>4. (Today + 1) % M = Today + 1
    BY <1>1
  <2> QED BY <1>1, <1>2, <2>2, <2>3, <2>4 DEF SerialNewer, HalfRange
<1>4. CASE n + 1 < M
  <2>1. (n + 1) % M = n + 1
    BY <1>1, <1>4
  <2>2. CASE Today > n + 1
    <3>1. nextSerial(n) = Today
      BY <2>1, <2>2 DEF nextSerial, Larger
    <3>2. Today - n \in 1 .. h
      BY <1>1, <1>2, <2>2
    <3>3. ((Today + M) - n) % M = Today - n
      BY <1>1, <2>2
    <3> QED BY <3>1, <3>2, <3>3 DEF SerialNewer, HalfRange
  <2>3. CASE ~(Today > n + 1)
    <3>1. nextSerial(n) = n + 1
      BY <2>1, <2>3 DEF nextSerial, Larger
    <3>2. ((n + 1 + M) - n) % M = 1
      BY <1>1
    <3> QED BY <1>1, <1>2, <3>1, <3>2 DEF SerialNewer, HalfRange
  <2> QED BY <2>2, <2>3
<1> QED BY <1>1, <1>3, <1>4

\* A larger serial less than half of the serial space ahead is newer.
LEMMA AheadNewer ==
  ASSUME NEW n \in 0 .. SerialMod - 1, NEW v \in 0 .. SerialMod - 1,
         v > n, v =< n + HalfRange
  PROVE  SerialNewer(v, n)
<1> DEFINE M == SerialMod
<1>1. M \in Nat /\ M > 0 /\ n \in Nat /\ v \in Nat /\ n < M /\ v < M
  BY ConstantsAssumption
<1>2. HalfRange \in Nat /\ HalfRange < M
  BY <1>1 DEF HalfRange
<1>3. ((v + M) - n) % M = v - n
  BY <1>1
<1>4. v - n \in 1 .. HalfRange
  BY <1>1, <1>2
<1> QED BY <1>3, <1>4 DEF SerialNewer

\* normalizeRawSerial publishes a newer serial unless the submitted one leaps.
LEMMA RawSerialNewer ==
  ASSUME NEW cur \in Text, NEW t \in Text,
         NormalizeRawSerial(cur, t) # NoText, ~Leaps(t, cur)
  PROVE  SerialNewer(NormalizeRawSerial(cur, t).serial, cur.serial)
<1> DEFINE c == cur.serial
           s == t.serial
<1>1. /\ SerialMod \in Nat /\ Today \in 0 .. SerialMod - 1 /\ 2 * (Today + 1) < SerialMod
      /\ c \in 0 .. SerialMod - 1 /\ s \in 0 .. SerialMod - 1
  BY ConstantsAssumption DEF Text
<1>2. HalfRange \in Nat /\ Today + 1 =< HalfRange
  BY <1>1 DEF HalfRange
<1>3. ~(s >= c + HalfRange) /\ (Surgical(t) /\ s > c => s # SerialMod - 1)
  BY DEF Leaps
<1>4. CASE Surgical(t)
  <2>1. NormalizeRawSerial(cur, t).serial = nextSerial(Larger(s, c))
    BY <1>4 DEF NormalizeRawSerial, Text
  <2> HIDE DEF s, c
  <2>2. CASE s > c
    <3>1. Larger(s, c) = s
      BY <2>2 DEF Larger
    <3>2. s + 1 \in 0 .. SerialMod - 1 /\ (s + 1) % SerialMod = s + 1
      BY <1>1, <1>3, <1>4, <2>2
    <3>3. nextSerial(s) \in {Today, s + 1} /\ nextSerial(s) >= s + 1
      BY <1>1, <3>2 DEF nextSerial, Larger
    <3>4. /\ nextSerial(s) \in 0 .. SerialMod - 1
          /\ nextSerial(s) > c /\ nextSerial(s) =< c + HalfRange
      BY <1>1, <1>2, <1>3, <2>2, <3>2, <3>3
    <3> QED BY <1>1, <2>1, <3>1, <3>4, AheadNewer DEF c
  <2>3. CASE ~(s > c)
    <3>1. Larger(s, c) = c
      BY <2>3 DEF Larger
    <3> QED BY <1>1, <2>1, <3>1, NextSerialNewer DEF c
  <2> QED BY <2>2, <2>3
<1>5. CASE ~Surgical(t)
  <2>1. NormalizeRawSerial(cur, t) = t /\ s > c
    BY <1>5 DEF NormalizeRawSerial
  <2>2. s =< c + HalfRange
    BY <1>1, <1>2, <1>3
  <2> QED BY <1>1, <2>1, <2>2, AheadNewer
<1> QED BY <1>4, <1>5

\* A rename publishes a serial that secondaries take for newer, unless a hand
\* save raced it or the submitted text's own serial leaps (Editor.Apply,
\* Editor.ReplaceRaw).
THEOREM SerialsAdvance == Spec => SerialAdvances
<1> DEFINE Adv(w) == \/ SerialNewer(file'.serial, file.serial)
                     \/ job[w].kind = "raw" /\ Leaps(job[w].text, file)
           A == \A w \in Writers \ touched : Renamed(w) => Adv(w)
<1>1. ASSUME IInv, [Next]_vars PROVE [A]_vars
  <2>1. CASE Next
    <3>1. ASSUME NEW w \in Writers \ touched, Renamed(w) PROVE Adv(w)
      <4>1. file' = new[w]
        BY <1>1, <2>1, <3>1, RenamedByWrite DEF Write
      <4>2. /\ file = orig[w] /\ file \in Text /\ new[w] \in Text
            /\ new[w] = Compute(job[w], file)
            /\ job[w] \in RecordJob \union RawJob
        BY <1>1, <3>1 DEF Renamed, IInv, TypeOK, WriterInv, WindowInv,
                      BuffersInv, Computed, Committing
      <4>3. new[w] # NoText
        BY <4>2, ConstantsAssumption
      <4>4. file.serial \in 0 .. SerialMod - 1
        BY <4>2 DEF Text
      <4>5. CASE job[w].kind # "raw"
        <5>1. new[w] = Edit(file, job[w])
          BY <4>2, <4>3, <4>5 DEF Compute
        <5>2. new[w].serial = nextSerial(file.serial)
          BY <4>2, <4>3, <5>1 DEF Edit, Text
        <5> QED BY <4>1, <4>4, <4>5, <5>2, NextSerialNewer
      <4>6. CASE job[w].kind = "raw"
        <5>1. job[w].text \in Text
          BY <4>2, <4>6 DEF RecordJob, RawJob
        <5>2. new[w] = NormalizeRawSerial(file, job[w].text)
          BY <4>2, <4>3, <4>6 DEF Compute
        <5> QED BY <4>1, <4>2, <4>3, <4>6, <5>1, <5>2, RawSerialNewer
      <4> QED BY <4>5, <4>6
    <3> QED BY <3>1
  <2>2. CASE UNCHANGED vars
    BY <2>2
  <2> QED BY <1>1, <2>1, <2>2
<1> QED BY <1>1, Inductive, PTL DEF Spec, SerialAdvances

-----------------------------------------------------------------------------
(***************************************************************************)
(* The root helper.                                                        *)
(***************************************************************************)

(***************************************************************************)
(* What a call's connection says about its edit: it is with the pipeline   *)
(* exactly while its handler is in Apply, it has been made or not          *)
(* accordingly, and what was logged and answered follows from that.        *)
(***************************************************************************)
Before == {"none", "backlog", "accepted", "decode", "process"}

Tracked ==
  \A c \in Calls :
    /\ call[c] = "new" => conn[c] = "none"
    /\ phase[c] # "idle" <=> conn[c] = "edit"
    /\ conn[c] \in Before => done[c] = 0
    /\ conn[c] = "edit" => kind[c] = "edit" /\ done[c] = (IF phase[c] = "applied" THEN 1 ELSE 0)
    /\ conn[c] = "audit" => kind[c] = "edit" /\ done[c] = 1
    /\ done[c] \in {0, 1} /\ (done[c] = 1 => kind[c] = "edit")
    /\ conn[c] \in Before \union {"edit", "audit"} => resp[c] = "none" /\ c \notin audit
    /\ c \in audit => done[c] = 1
    /\ "ok" \in {resp[c], call[c]} /\ kind[c] = "edit" => c \in audit

WithinSlots == IsFiniteSet(Busy) /\ Cardinality(Busy) <= Slots

ZonedIInv == ZonedTypeOK /\ Tracked /\ WithinSlots

\* The slots taken stay within the bound when no connection enters one.
LEMMA BusyKept ==
  ASSUME WithinSlots, Busy' \in SUBSET Busy
  PROVE  WithinSlots'
<1>1. IsFiniteSet(Busy) BY DEF WithinSlots
<1>2. IsFiniteSet(Busy') /\ Cardinality(Busy') <= Cardinality(Busy) BY <1>1, FS_Subset
<1>3. Cardinality(Busy) \in Nat /\ Cardinality(Busy') \in Nat BY <1>1, <1>2, FS_CardinalityType
<1> QED BY <1>2, <1>3 DEF WithinSlots, Slots

\* What the admin UI does.
LEMMA CallerStep == ASSUME ZonedIInv, NEW c \in Calls, Caller(c) PROVE ZonedIInv'
<1> USE DEF ZonedIInv, zoneVars, helperVars, Becomes
<1>1. ASSUME Busy' \in SUBSET Busy PROVE WithinSlots'
  BY <1>1, BusyKept
<1>2. CASE Dial(c)
  <2>1. ZonedTypeOK' BY <1>2 DEF Dial, ZonedTypeOK, Conn, Kinds
  <2>2. Tracked' BY <1>2 DEF Dial, ZonedTypeOK, Tracked, Before
  <2>3. Busy' \in SUBSET Busy BY <1>2 DEF Dial, ZonedTypeOK, Busy, Serving
  <2> QED BY <1>1, <2>1, <2>2, <2>3
<1>3. CASE Send(c)
  <2>1. ZonedTypeOK' BY <1>3 DEF Send, ZonedTypeOK
  <2>2. Tracked' BY <1>3 DEF Send, ZonedTypeOK, Tracked
  <2>3. Busy' \in SUBSET Busy BY <1>3 DEF Send, Busy
  <2> QED BY <1>1, <2>1, <2>2, <2>3
<1>4. CASE Receive(c)
  <2>1. ZonedTypeOK' BY <1>4 DEF Receive, ZonedTypeOK
  <2>2. Tracked' BY <1>4 DEF Receive, ZonedTypeOK, Tracked
  <2>3. Busy' \in SUBSET Busy BY <1>4 DEF Receive, Busy
  <2> QED BY <1>1, <2>1, <2>2, <2>3
<1>5. CASE GiveUp(c)
  <2>1. ZonedTypeOK' BY <1>5 DEF GiveUp, ZonedTypeOK
  <2>2. Tracked' BY <1>5 DEF GiveUp, ZonedTypeOK, Tracked
  <2>3. Busy' \in SUBSET Busy BY <1>5 DEF GiveUp, Busy
  <2> QED BY <1>1, <2>1, <2>2, <2>3
<1> QED BY <1>2, <1>3, <1>4, <1>5 DEF Caller

\* A connection gets a slot: the bound is checked just before.
LEMMA StartStep == ASSUME ZonedIInv, NEW c \in Calls, Start(c) PROVE ZonedIInv'
<1> USE DEF ZonedIInv, zoneVars, clientVars, Start, Goes
<1>1. ZonedTypeOK' BY DEF ZonedTypeOK, Conn, Serving
<1>2. Tracked' BY DEF ZonedTypeOK, Tracked, Before
<1>3. Busy' = Busy \union {c} BY DEF ZonedTypeOK, Busy, Serving
<1>4. IsFiniteSet(Busy) BY DEF WithinSlots
<1>5. /\ IsFiniteSet(Busy \union {c})
      /\ Cardinality(Busy \union {c}) \in {Cardinality(Busy), Cardinality(Busy) + 1}
  BY <1>4, FS_AddElement
<1>6. Cardinality(Busy) \in Nat BY <1>4, FS_CardinalityType
<1>7. WithinSlots' BY <1>3, <1>5, <1>6 DEF WithinSlots, SlotFree, Slots
<1> QED BY <1>1, <1>2, <1>7

\* The steps of a handler that do not touch the zone.
LEMMA ServeStep ==
  ASSUME ZonedIInv, NEW c \in Calls,
         Accept(c) \/ Request(c) \/ Audit(c) \/ WriteResp(c)
  PROVE  ZonedIInv'
<1> USE DEF ZonedIInv, zoneVars, clientVars, Goes, Answers
<1>1. ASSUME Busy' \in SUBSET Busy PROVE WithinSlots'
  BY <1>1, BusyKept
<1>2. CASE Accept(c)
  <2>1. ZonedTypeOK' BY <1>2 DEF Accept, ZonedTypeOK, Conn
  <2>2. Tracked' BY <1>2 DEF Accept, ZonedTypeOK, Tracked, Before
  <2>3. Busy' \in SUBSET Busy BY <1>2 DEF Accept, ZonedTypeOK, Busy, Serving
  <2> QED BY <1>1, <2>1, <2>2, <2>3
<1>3. CASE Request(c)
  <2>1. ZonedTypeOK' BY <1>3 DEF Request, Decode, ZonedTypeOK, Conn, Serving
  <2>2. Tracked' BY <1>3 DEF Request, Decode, ZonedTypeOK, Tracked, Before
  <2>3. Busy' \in SUBSET Busy BY <1>3 DEF Request, Decode, ZonedTypeOK, Busy, Serving
  <2> QED BY <1>1, <2>1, <2>2, <2>3
<1>4. CASE Audit(c)
  <2>1. ZonedTypeOK' BY <1>4 DEF Audit, ZonedTypeOK, Conn, Serving
  <2>2. Tracked' BY <1>4 DEF Audit, ZonedTypeOK, Tracked, Before
  <2>3. Busy' \in SUBSET Busy BY <1>4 DEF Audit, ZonedTypeOK, Busy, Serving
  <2> QED BY <1>1, <2>1, <2>2, <2>3
<1>5. CASE WriteResp(c)
  <2>1. ZonedTypeOK' BY <1>5 DEF WriteResp, ZonedTypeOK, Conn
  <2>2. Tracked' BY <1>5 DEF WriteResp, ZonedTypeOK, Tracked, Before
  <2>3. Busy' \in SUBSET Busy BY <1>5 DEF WriteResp, ZonedTypeOK, Busy, Serving
  <2> QED BY <1>1, <2>1, <2>2, <2>3
<1> QED BY <1>2, <1>3, <1>4, <1>5

\* The steps of a handler that are the pipeline's.
LEMMA EditStep ==
  ASSUME ZonedIInv, NEW c \in Calls,
         Process(c) \/ MakeEdit(c) \/ EndEdit(c) \/ Die(c)
  PROVE  ZonedIInv'
<1> USE DEF ZonedIInv, zoneVars, clientVars, helperVars, Goes, Answers
<1>1. ASSUME Busy' \in SUBSET Busy PROVE WithinSlots'
  BY <1>1, BusyKept
<1>2. CASE Process(c)
  <2>1. ZonedTypeOK' BY <1>2 DEF Process, Z!Ask, ZonedTypeOK, Conn, Serving
  <2>2. Tracked' BY <1>2 DEF Process, Z!Ask, ZonedTypeOK, Tracked, Before
  <2>3. Busy' \in SUBSET Busy BY <1>2 DEF Process, ZonedTypeOK, Busy, Serving
  <2> QED BY <1>1, <2>1, <2>2, <2>3
<1>3. CASE MakeEdit(c)
  <2>1. ZonedTypeOK' BY <1>3 DEF MakeEdit, Z!Apply, ZonedTypeOK
  <2>2. Tracked' BY <1>3 DEF MakeEdit, Z!Apply, ZonedTypeOK, Tracked, Before
  <2>3. Busy' \in SUBSET Busy BY <1>3 DEF MakeEdit, Busy
  <2> QED BY <1>1, <2>1, <2>2, <2>3
<1>4. CASE EndEdit(c)
  <2> USE DEF EndEdit, Z!Succeed, Z!Refuse, Z!Fail, Z!TakeBack, Z!Answer
  <2>1. ZonedTypeOK' BY <1>4 DEF ZonedTypeOK, Tracked, Conn, Serving
  <2>2. Tracked' BY <1>4 DEF ZonedTypeOK, Tracked, Before
  <2>3. Busy' \in SUBSET Busy BY <1>4 DEF ZonedTypeOK, Busy, Serving
  <2> QED BY <1>1, <2>1, <2>2, <2>3
<1>5. CASE Die(c)
  <2> USE DEF Die, Alive, Z!Fail, Z!Answer
  <2>1. ZonedTypeOK' BY <1>5 DEF ZonedTypeOK, Conn
  <2>2. Tracked' BY <1>5 DEF ZonedTypeOK, Tracked, Before
  <2>3. Busy' \in SUBSET Busy BY <1>5 DEF ZonedTypeOK, Busy, Serving
  <2> QED BY <1>1, <2>1, <2>2, <2>3
<1> QED BY <1>2, <1>3, <1>4, <1>5

\* The helper ends or starts, and the command line edits the file.
LEMMA AroundStep == ASSUME ZonedIInv, Stop \/ Restart \/ Others PROVE ZonedIInv'
<1> USE DEF ZonedIInv, zoneVars, clientVars, helperVars
<1>1. ASSUME Busy' \in SUBSET Busy PROVE WithinSlots'
  BY <1>1, BusyKept
<1>2. CASE Stop
  <2>1. ZonedTypeOK' BY <1>2 DEF Stop, ZonedTypeOK
  <2>2. Tracked' BY <1>2 DEF Stop, Tracked
  <2>3. Busy' \in SUBSET Busy BY <1>2 DEF Stop, Busy
  <2> QED BY <1>1, <2>1, <2>2, <2>3
<1>3. CASE Restart
  <2>1. ZonedTypeOK' BY <1>3 DEF Restart, ZonedTypeOK
  <2>2. Tracked' BY <1>3 DEF Restart, Tracked
  <2>3. Busy' \in SUBSET Busy BY <1>3 DEF Restart, Busy
  <2> QED BY <1>1, <2>1, <2>2, <2>3
<1>4. CASE Others
  <2> USE DEF Others, DirectEdit, DirectEnd, Z!Ask, Z!Apply, Z!Refuse, Z!Succeed,
              Z!TakeBack, Z!Fail, Z!Answer, Z!HandSave
  <2>1. ZonedTypeOK' BY <1>4 DEF ZonedTypeOK
  <2>2. Tracked' BY <1>4 DEF ZonedTypeOK, Tracked
  <2>3. Busy' \in SUBSET Busy BY <1>4 DEF Busy
  <2> QED BY <1>1, <2>1, <2>2, <2>3
<1> QED BY <1>2, <1>3, <1>4

LEMMA ZonedInitIInv == ZonedInit => ZonedIInv
<1> SUFFICES ASSUME ZonedInit PROVE ZonedIInv OBVIOUS
<1> USE DEF ZonedInit, Z!Init
<1>1. ZonedTypeOK
  <2>1. wrote \in [Calls -> BOOLEAN] /\ dead \in BOOLEAN OBVIOUS
  <2> QED BY <2>1 DEF ZonedTypeOK, Conn, Kinds
<1>2. Tracked BY DEF Tracked, Before
<1>3. Busy = {} BY DEF Busy, Serving
<1>4. WithinSlots BY <1>3, FS_EmptySet DEF WithinSlots, Slots
<1> QED BY <1>1, <1>2, <1>4 DEF ZonedIInv

LEMMA ZonedNextIInv == ZonedIInv /\ [ZonedNext]_zonedVars => ZonedIInv'
<1> SUFFICES ASSUME ZonedIInv, [ZonedNext]_zonedVars PROVE ZonedIInv' OBVIOUS
<1>1. CASE ZonedNext
  <2>1. ASSUME NEW c \in Calls, Caller(c) PROVE ZonedIInv' BY <2>1, CallerStep
  <2>2. ASSUME NEW c \in Calls, Handler(c) PROVE ZonedIInv'
    BY <2>2, StartStep, ServeStep, EditStep DEF Handler
  <2> QED BY <1>1, <2>1, <2>2, AroundStep DEF ZonedNext
<1>2. CASE UNCHANGED zonedVars
  BY <1>2 DEF zonedVars, zoneVars, clientVars, helperVars, ZonedIInv, ZonedTypeOK, Tracked,
              WithinSlots, Busy
<1> QED BY <1>1, <1>2

THEOREM ZonedInductive == ZonedSpec => []ZonedIInv
BY ZonedInitIInv, ZonedNextIInv, PTL DEF ZonedSpec

\* Type correctness of the helper: no edit is ever counted back below zero.
THEOREM ZonedTypeCorrect == ZonedSpec => []ZonedTypeOK
<1>1. ZonedIInv => ZonedTypeOK BY DEF ZonedIInv
<1> QED BY <1>1, ZonedInductive, PTL

(***************************************************************************)
(* The admin UI may believe the helper: what zoned.Call reports as made    *)
(* was made once, also when callers give up, the helper dies and edits go  *)
(* on without their caller.                                                *)
(***************************************************************************)
THEOREM HelperIsTrue == ZonedSpec => []ReportedIsDone
<1>1. ZonedIInv => ReportedIsDone BY DEF ZonedIInv, ZonedTypeOK, Tracked, ReportedIsDone
<1> QED BY <1>1, ZonedInductive, PTL

(***************************************************************************)
(* The helper's own audit log (process) has only edits that were made, and *)
(* every one that the admin UI reports.                                    *)
(***************************************************************************)
THEOREM LogIsTrue == ZonedSpec => []AuditTrue
<1>1. ZonedIInv => AuditTrue BY DEF ZonedIInv, ZonedTypeOK, Tracked, AuditTrue
<1> QED BY <1>1, ZonedInductive, PTL

(***************************************************************************)
(* The semaphore of Serve bounds the handlers, and with them the edits     *)
(* that the helper has in the pipeline.                                    *)
(***************************************************************************)
THEOREM HandlersAreBounded == ZonedSpec => []HandlersBounded
<1>1. ZonedIInv => HandlersBounded
  BY DEF ZonedIInv, Tracked, WithinSlots, HandlersBounded, Busy, Serving
<1> QED BY <1>1, ZonedInductive, PTL
=============================================================================
