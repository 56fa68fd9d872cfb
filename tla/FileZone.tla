------------------------------ MODULE FileZone ------------------------------
(***************************************************************************)
(* The locked edit pipeline for a static master zone's file                *)
(* (internal/filezone): `goddns record`, `goddns zone edit`, `goddns zone  *)
(* import`, the admin UI and the zoned root helper all write the zone file *)
(* through Editor.Apply or Editor.ReplaceRaw.  Each call is a writer here. *)
(* The operator may save the file by hand at any time (nano takes no       *)
(* lock), named loads it when it is told to, and a writer may die.         *)
(*                                                                         *)
(* One zone is modelled: locks, files and backups are per zone.            *)
(***************************************************************************)
EXTENDS Naturals, Sequences, SequencesExt

CONSTANTS
  Writers,       \* concurrent callers of Apply / ReplaceRaw
  Free,          \* the lock's value when nobody holds it
  RR,            \* resource records
  Rejected,      \* records named-checkzone (and named) refuse in this zone
  RawTexts,      \* whole-file texts an operator submits (zone edit / import)
  HandTexts,     \* texts the operator saves with an ordinary editor
  InitialText,   \* the zone file at the start, which named has loaded
  NoText,        \* "no bytes": the result of a refused computation
  Keep,          \* backups retained per zone
  Today,         \* the YYYYMMDD00 serial of the current day
  SerialMod,     \* serials are unsigned and wrap at 2^32
  MaxEdits,      \* bound: edits started
  MaxOperator    \* bound: operator events (hand saves, reloads, toggles)

(***************************************************************************)
(* What the pipeline tells apart about a file's bytes: its SOA serial, its *)
(* record lines, and its form.  "plain": explicit-owner single-line        *)
(* records; "implied": some record inherits its owner, so a delete is      *)
(* unsafe; "generate": $GENERATE, raw mode only; "signed": DNSSEC records  *)
(* or a panel's marker in the file; "broken": does not parse.              *)
(***************************************************************************)
Form == {"plain", "implied", "generate", "signed", "broken"}
Text == [form : Form, serial : 0 .. SerialMod - 1, recs : Seq(RR)]

\* One record per job: a job that deletes a name's records or a set of them drops
\* several lines at once, under the same rules.
RecordJob == [kind : {"add", "del"}, rr : RR]
RawJob    == [kind : {"raw"}, text : Text, base : Text]
NoJob     == [kind |-> "none"]

ASSUME ConstantsAssumption ==
  /\ Free \notin Writers
  /\ Rejected \subseteq RR
  /\ RawTexts \subseteq Text
  /\ HandTexts \subseteq Text
  /\ InitialText \in Text
  /\ NoText \notin Text
  /\ Keep \in Nat \ {0}
  /\ SerialMod \in Nat \ {0}
  /\ Today \in 0 .. SerialMod - 1
  /\ 2 * (Today + 1) < SerialMod       \* 2026010101 < 2^31
  /\ MaxEdits \in Nat
  /\ MaxOperator \in Nat

VARIABLES
  file,        \* the zone file's bytes
  served,      \* what named serves
  pending,     \* named was told to reload and has not read the file yet
  editable,    \* what resolve() finds: an enabled, static, non-panel master
  backups,     \* the backup directory, oldest first
  lock,        \* the zone's flock
  pc,          \* where each writer is
  job,         \* what it was asked to do
  orig,        \* the bytes it read under the lock (`expected`)
  new,         \* the bytes it will write (`newBytes`)
  res,         \* its last call's outcome: done, refused with nothing
               \* written, rolled back, or failed after a write (or dead)
  edits,       \* edits started (bounded by MaxEdits)
  operator,    \* operator events so far (bounded by MaxOperator)
  touched,     \* history: writers in their commit window when the operator
               \* last saved by hand
  rolledBack   \* history: texts a writer reported as rolled back

diskVars == <<file, backups>>
namedVars == <<served, pending>>
writerVars == <<pc, job, orig, new, res>>
historyVars == <<touched, rolledBack>>
boundVars == <<edits, operator>>
vars == <<diskVars, namedVars, editable, lock, writerVars, boundVars,
          historyVars>>

InFlight == {"editing", "ready", "lock", "read", "guard", "backup", "write",
             "reload", "restore", "verify"}
Holding  == {"read", "guard", "backup", "write", "reload", "restore", "verify"}
Committing == {"backup", "write", "reload", "restore", "verify"}
Result   == {"none", "ok", "refused", "rolled_back", "failed"}

TypeOK ==
  /\ file \in Text
  /\ served \in Text
  /\ pending \in BOOLEAN
  /\ editable \in BOOLEAN
  /\ backups \in Seq(Text)
  /\ lock \in Writers \union {Free}
  /\ pc \in [Writers -> InFlight \union {"idle"}]
  /\ job \in [Writers -> RecordJob \union RawJob \union {NoJob}]
  /\ orig \in [Writers -> Text \union {NoText}]
  /\ new \in [Writers -> Text \union {NoText}]
  /\ res \in [Writers -> Result]
  /\ edits \in 0 .. MaxEdits
  /\ operator \in 0 .. MaxOperator
  /\ touched \subseteq Writers
  /\ rolledBack \subseteq Text

Init ==
  /\ file = InitialText
  /\ served = InitialText
  /\ pending = FALSE
  /\ editable = TRUE
  /\ backups = <<>>
  /\ lock = Free
  /\ pc = [w \in Writers |-> "idle"]
  /\ job = [w \in Writers |-> NoJob]
  /\ orig = [w \in Writers |-> NoText]
  /\ new = [w \in Writers |-> NoText]
  /\ res = [w \in Writers |-> "none"]
  /\ edits = 0
  /\ operator = 0
  /\ touched = {}
  /\ rolledBack = {}

-----------------------------------------------------------------------------
(* The pure parts: internal/zonefile and the screens of internal/filezone. *)

Larger(a, b) == IF a > b THEN a ELSE b

NextSerialNoBump(cur) == Larger(Today, cur)
NextSerialUnwrapped(cur) == Larger(Today, cur + 1)

\* max(cur + 1, today), in 32-bit arithmetic.
nextSerial(cur) == Larger(Today, (cur + 1) % SerialMod)

\* A file the surgical engine can map line by line.
Surgical(t) == t.form \in {"plain", "implied", "signed"}

\* screen: not a panel's file, unsigned, and fully parseable.
Screen(t) == t.form \notin {"signed", "broken"}

\* named-checkzone, strict.
CheckZone(t) == t.form # "broken" /\ ToSet(t.recs) \intersect Rejected = {}

ASSUME InitialLoadable == CheckZone(InitialText)

\* The record lines after one operation: an add is appended, a delete takes
\* the first matching line, if there is one.
EditLines(rs, j) ==
  IF j.kind = "add" THEN Append(rs, j.rr) ELSE RemoveFirst(rs, j.rr)

\* canDelete: the line's neighbours inherit nothing from it.
Deletable(t, j) ==
  j.kind = "del" /\ j.rr \in ToSet(t.recs) => t.form # "implied"

\* File.Edit for one operation; NoText stands for UnsafeError.
Edit(t, j) ==
  IF Surgical(t) /\ Deletable(t, j)
    THEN [t EXCEPT !.serial = nextSerial(t.serial), !.recs = EditLines(t.recs, j)]
    ELSE NoText

\* normalizeRawSerial: lift the serial above the live one, or refuse.
NormalizeRawSerial(cur, t) ==
  IF Surgical(t)
    THEN [t EXCEPT !.serial = nextSerial(Larger(t.serial, cur.serial))]
    ELSE IF t.serial > cur.serial THEN t ELSE NoText

\* What Apply or ReplaceRaw writes, given the bytes it read under the lock.
Compute(j, cur) ==
  IF ~Screen(cur) THEN NoText
  ELSE IF j.kind # "raw" THEN Edit(cur, j)
  ELSE IF cur = j.base THEN NormalizeRawSerial(cur, j.text)
  ELSE NoText

\* diff(): the serial verifySerial will ask for; 0 for content Parse leaves
\* unresolved.
WantSerial(t) == IF Surgical(t) THEN t.serial ELSE 0

PruneKeepingOneLess(s) ==
  SubSeq(s, Len(s) - Larger(Keep, 1) + 2, Len(s))

\* pruneBackups: the Keep most recent, in the order they were made; the code
\* tells it from the wall clock in their names, taken not to be set back.
Prune(s) == IF Len(s) > Keep THEN SubSeq(s, Len(s) - Keep + 1, Len(s)) ELSE s

-----------------------------------------------------------------------------
(* A writer's steps. *)

Goto(w, from, to) ==
  /\ pc[w] = from
  /\ pc' = [pc EXCEPT ![w] = to]

ReleaseForgotten(w) == IF lock = w /\ pc[w] # "guard" THEN Free ELSE lock

\* The deferred unlock runs on every return; a writer without the lock has
\* nothing to release.
ReleaseOf(w) == IF lock = w THEN Free ELSE lock

\* Return to the caller with result r.
Return(w, r) ==
  /\ pc' = [pc EXCEPT ![w] = "idle"]
  /\ res' = [res EXCEPT ![w] = r]
  /\ job' = [job EXCEPT ![w] = NoJob]
  /\ orig' = [orig EXCEPT ![w] = NoText]
  /\ new' = [new EXCEPT ![w] = NoText]
  /\ lock' = ReleaseOf(w)

\* A record edit is submitted (CLI after its prompt, admin POST, zoned).
SubmitRecord(w) ==
  /\ edits < MaxEdits
  /\ edits' = edits + 1
  /\ Goto(w, "idle", "ready")
  /\ \E j \in RecordJob : job' = [job EXCEPT ![w] = j]
  /\ UNCHANGED <<diskVars, namedVars, editable, lock, orig, new, res,
                 operator, historyVars>>

\* zone edit: ReadRaw captures the base, then $EDITOR runs.
OpenEditor(w) ==
  /\ edits < MaxEdits
  /\ editable
  /\ edits' = edits + 1
  /\ Goto(w, "idle", "editing")
  /\ job' = [job EXCEPT ![w] = [kind |-> "raw", text |-> file, base |-> file]]
  /\ UNCHANGED <<diskVars, namedVars, editable, lock, orig, new, res,
                 operator, historyVars>>

\* PreviewRaw accepts text t against the file as it is now.
PreviewRaw(t) ==
  /\ editable
  /\ Screen(file)
  /\ NormalizeRawSerial(file, t) # NoText
  /\ CheckZone(NormalizeRawSerial(file, t))

\* zone edit: the editor exits; an unchanged text, a refused preview or a
\* "no" at the prompt ends the command.
CloseEditor(w) ==
  /\ pc[w] = "editing"
  /\ \/ \E t \in RawTexts \ {job[w].base} :
          /\ PreviewRaw(t)
          /\ pc' = [pc EXCEPT ![w] = "ready"]
          /\ job' = [job EXCEPT ![w].text = t]
          /\ UNCHANGED <<lock, orig, new, res>>
     \/ Return(w, "refused")
  /\ UNCHANGED <<diskVars, namedVars, editable, boundVars, historyVars>>

\* zone import: PreviewRaw's current bytes become the base.
Import(w) ==
  /\ edits < MaxEdits
  /\ edits' = edits + 1
  /\ Goto(w, "idle", "ready")
  /\ \E t \in RawTexts :
       /\ PreviewRaw(t)
       /\ job' = [job EXCEPT ![w] = [kind |-> "raw", text |-> t, base |-> file]]
  /\ UNCHANGED <<diskVars, namedVars, editable, lock, orig, new, res,
                 operator, historyVars>>

\* Apply and ReplaceRaw resolve the zone before they take the lock.
Resolve(w) ==
  /\ pc[w] = "ready"
  /\ \/ editable /\ pc' = [pc EXCEPT ![w] = "lock"]
        /\ UNCHANGED <<lock, job, orig, new, res>>
     \/ ~editable /\ Return(w, "refused")
  /\ UNCHANGED <<diskVars, namedVars, editable, boundVars, historyVars>>

LockIgnored(w) ==
  /\ Goto(w, "lock", "read")
  /\ lock' = w

\* flock(LOCK_EX), blocking.
TakeLock(w) ==
  /\ Goto(w, "lock", "read")
  /\ lock = Free
  /\ lock' = w

Lock(w) ==
  /\ TakeLock(w)
  /\ UNCHANGED <<diskVars, namedVars, editable, job, orig, new, res,
                 boundVars, historyVars>>

\* Read the file under the lock, screen it and compute the new bytes.
Read(w) ==
  /\ pc[w] = "read"
  /\ LET out == Compute(job[w], file) IN
     \/ /\ out # NoText
        /\ pc' = [pc EXCEPT ![w] = "guard"]
        /\ orig' = [orig EXCEPT ![w] = file]
        /\ new' = [new EXCEPT ![w] = out]
        /\ UNCHANGED <<lock, job, res>>
     \/ out = NoText /\ Return(w, "refused")
  /\ UNCHANGED <<diskVars, namedVars, editable, boundVars, historyVars>>

CheckPassesUnchecked(w) == new[w] # NoText

\* commit's hard gate: named-checkzone on the new bytes.
CheckPasses(w) == CheckZone(new[w])

\* The nano guard: the file still holds the bytes the edit is based on.
Unmoved(w) == file = orig[w]

\* commit: the gate, then the guard's re-read.
Guard(w) ==
  /\ pc[w] = "guard"
  /\ \/ /\ CheckPasses(w) /\ Unmoved(w)
        /\ pc' = [pc EXCEPT ![w] = "backup"]
        /\ touched' = touched \ {w}
        /\ UNCHANGED <<lock, job, orig, new, res>>
     \/ /\ ~(CheckPasses(w) /\ Unmoved(w))
        /\ Return(w, "refused")
        /\ UNCHANGED touched
  /\ UNCHANGED <<diskVars, namedVars, editable, boundVars, rolledBack>>

\* Back up the bytes about to be replaced, and prune.
Backup(w) ==
  /\ Goto(w, "backup", "write")
  /\ backups' = Prune(Append(backups, orig[w]))
  /\ UNCHANGED <<file, namedVars, editable, lock, job, orig, new, res,
                 boundVars, historyVars>>

\* writePreserving: temp file, fsync, rename.
Write(w) ==
  /\ Goto(w, "write", "reload")
  /\ file' = new[w]
  /\ touched' = touched \ {w}
  /\ rolledBack' = rolledBack \ {new[w]}
  /\ UNCHANGED <<backups, namedVars, editable, lock, job, orig, new, res,
                 boundVars>>

\* An I/O error before the rename: locking, reading, backing up, writing.
FailEarly(w) ==
  /\ pc[w] \in {"lock", "read", "guard", "backup", "write"}
  /\ Return(w, "refused")
  /\ UNCHANGED <<diskVars, namedVars, editable, boundVars, historyVars>>

ReloadNotSent(w) ==
  /\ pc[w] = "reload"
  /\ pc' = [pc EXCEPT ![w] = "verify"]
  /\ UNCHANGED <<diskVars, namedVars, editable, lock, job, orig, new, res,
                 boundVars, historyVars>>

\* rndc reload <zone>: success queues the reload; on an error named may or
\* may not have received the command.
Reload(w) ==
  /\ pc[w] = "reload"
  /\ \/ pc' = [pc EXCEPT ![w] = "verify"] /\ pending' = TRUE
     \/ pc' = [pc EXCEPT ![w] = "restore"] /\ pending' \in {pending, TRUE}
  /\ UNCHANGED <<diskVars, served, editable, lock, job, orig, new, res,
                 boundVars, historyVars>>

\* rndc failed: put the previous bytes back.  Nothing is reloaded, and the
\* file is not compared with what was written.
Restore(w) ==
  /\ pc[w] = "restore"
  /\ \/ /\ file' = orig[w]
        /\ rolledBack' = rolledBack \union {new[w]}
        /\ Return(w, "rolled_back")
     \/ /\ Return(w, "failed")
        /\ UNCHANGED <<file, rolledBack>>
  /\ UNCHANGED <<backups, namedVars, editable, boundVars, touched>>

VerifyDenied(w) ==
  /\ pc[w] = "verify"
  /\ \/ served.serial >= WantSerial(new[w]) /\ Return(w, "ok")
     \/ Return(w, "refused")
  /\ UNCHANGED <<diskVars, namedVars, editable, boundVars, historyVars>>

\* verifySerial: the served serial reached the wanted one, or it did not, or
\* the query failed.
Verify(w) ==
  /\ pc[w] = "verify"
  /\ \/ served.serial >= WantSerial(new[w]) /\ Return(w, "ok")
     \/ Return(w, "failed")
  /\ UNCHANGED <<diskVars, namedVars, editable, boundVars, historyVars>>

\* The process dies.  The kernel drops its flock; the file stays as it is.
Crash(w) ==
  /\ pc[w] # "idle"
  /\ Return(w, "failed")
  /\ UNCHANGED <<diskVars, namedVars, editable, boundVars, historyVars>>

-----------------------------------------------------------------------------
(* The environment: the operator and named. *)

OperatorEvent == operator < MaxOperator /\ operator' = operator + 1

\* nano saves the file; it takes no lock.
HandSave ==
  /\ OperatorEvent
  /\ file' \in HandTexts \ {file}
  /\ touched' = touched \union
       {w \in Writers : pc[w] \in Committing}
  /\ UNCHANGED <<backups, namedVars, editable, lock, writerVars, edits,
                 rolledBack>>

\* The operator enables or disables the zone, or makes it dynamic.
ToggleZone ==
  /\ OperatorEvent
  /\ editable' = ~editable
  /\ UNCHANGED <<diskVars, namedVars, lock, writerVars, edits, historyVars>>

\* The operator runs rndc reload.
OperatorReload ==
  /\ OperatorEvent
  /\ pending' = TRUE
  /\ UNCHANGED <<diskVars, served, editable, lock, writerVars, edits,
                 historyVars>>

\* named reads the file; it keeps the zone it has when the file is bad.
NamedLoad ==
  /\ pending
  /\ pending' = FALSE
  /\ served' = IF CheckZone(file) THEN file ELSE served
  /\ UNCHANGED <<diskVars, editable, lock, writerVars, boundVars, historyVars>>

-----------------------------------------------------------------------------
Step(w) ==
  \/ CloseEditor(w) \/ Resolve(w) \/ Lock(w) \/ Read(w) \/ Guard(w)
  \/ Backup(w) \/ Write(w) \/ Reload(w) \/ Restore(w)
  \/ Verify(w)

Next ==
  \/ \E w \in Writers :
       \/ SubmitRecord(w) \/ OpenEditor(w) \/ Import(w)
       \/ Step(w) \/ FailEarly(w) \/ Crash(w)
  \/ HandSave
  \/ ToggleZone
  \/ OperatorReload
  \/ NamedLoad

\* Every external command the pipeline waits for ends (rndc, checkzone and
\* the operator's editor), and the kernel grants a free flock to a waiter.
\* Nobody has to fail.
Fairness == (\A w \in Writers : WF_vars(Step(w))) /\ WF_vars(NamedLoad)

Spec == Init /\ [][Next]_vars /\ Fairness

-----------------------------------------------------------------------------
(* Properties. *)

Renamed(w) == pc[w] = "write" /\ pc'[w] = "reload"
Returned(w, r) == pc'[w] = "idle" /\ res'[w] = r
Undone(w)  == pc[w] = "restore" /\ Returned(w, "rolled_back")

(***************************************************************************)
(* No lost update.  A commit renames over exactly the bytes its edit was   *)
(* computed from, and a roll-back replaces exactly the bytes its own       *)
(* commit wrote, whatever the other goddns writers do and wherever they    *)
(* die.  Only a save by hand after the writer's last re-read or write (the *)
(* flock is advisory) is excepted: docs/PHASE4.md section 3, "the lock     *)
(* perfectly serializes goddns-vs-goddns".                                 *)
(***************************************************************************)
WritersSerialize ==
  [][\A w \in Writers \ touched :
       /\ Renamed(w) => file = orig[w] /\ Screen(file)
       /\ Undone(w) => file = new[w] /\ file' = orig[w]]_vars

(***************************************************************************)
(* The refinement mapping: a call has asked once its job is fixed, and its *)
(* edit has taken effect with the rename.                                  *)
(***************************************************************************)
Asked == {"ready", "lock", "read", "guard", "backup", "write"}
Applied == {"reload", "restore", "verify"}

Phase(w) == IF pc[w] \in Asked THEN "asked" ELSE IF pc[w] \in Applied THEN "applied" ELSE "idle"

Atomic == INSTANCE AtomicZone WITH
  Callers <- Writers, Jobs <- RecordJob \union RawJob, Texts <- Text,
  Edited <- Compute, Accepted <- CheckZone,
  text <- file,
  phase <- [w \in Writers |-> Phase(w)],
  ask <- [w \in Writers |-> IF pc[w] \in Asked \union Applied THEN job[w] ELSE NoJob],
  base <- [w \in Writers |-> IF pc[w] \in Applied THEN orig[w] ELSE NoText],
  answer <- res,
  hit <- {w \in touched : pc[w] \in Committing}

(***************************************************************************)
(* The pipeline with its lock, its steps, its failures and its crashes is  *)
(* a file that calls change atomically, and every answer is true: refused  *)
(* means that nothing was changed, rolled back that the file is what the   *)
(* call found, ok that its edit was made, once.                            *)
(***************************************************************************)
EditsAtomic == Atomic!Spec

(***************************************************************************)
(* From the moment a writer may replace the file until its call returns,   *)
(* the bytes it replaces are in the backup directory: pruning to Keep      *)
(* never takes the artifact that the failure message of commit points at.  *)
(***************************************************************************)
BackupHeld ==
  \A w \in Writers :
    pc[w] \in {"write", "reload", "restore", "verify"} =>
      orig[w] \in ToSet(backups)

(***************************************************************************)
(* A zone file that named would refuse was saved by hand: no sequence of   *)
(* record edits, raw edits, roll-backs and crashes produces one.           *)
(***************************************************************************)
BrokenOnlyByHand == ~CheckZone(file) => file \in HandTexts

HalfRange == (SerialMod - 1) \div 2

\* RFC 1982: what a secondary takes for a newer serial.
SerialNewer(a, b) == ((a + SerialMod) - b) % SerialMod \in 1 .. HalfRange

\* A submitted text whose own serial is so far ahead of the live one that it,
\* or the serial after it, is older to a secondary; or is the last one, which
\* nextSerial wraps to today's serial, wherever the live one is.
Leaps(t, live) ==
  \/ t.serial >= live.serial + HalfRange
  \/ Surgical(t) /\ t.serial = SerialMod - 1 /\ t.serial > live.serial

(***************************************************************************)
(* Serials move forward.  An edit that is not raced by a hand save, of     *)
(* records or of the whole file, publishes a serial that secondaries take  *)
(* for newer than the file's, also across the wrap at 2^32; an import that *)
(* carries a stale serial is lifted above the live one.  Excepted is a     *)
(* submitted serial that leaps: SerialFloor and normalizeRawSerial compare *)
(* serials as numbers, so the published one can be older, although their   *)
(* comments say that the live zone is never regressed.                     *)
(***************************************************************************)
SerialAdvances ==
  [][\A w \in Writers \ touched : Renamed(w) =>
       \/ SerialNewer(file'.serial, file.serial)
       \/ job[w].kind = "raw" /\ Leaps(job[w].text, file)]_vars

(***************************************************************************)
(* A call that returns success has its text with named: served already, or *)
(* the file holds it and the reload is queued; verifySerial alone, a test  *)
(* of serials, would not give this.                                        *)
(***************************************************************************)
AppliedReachesNamed ==
  [][\A w \in Writers \ touched : pc[w] = "verify" /\ Returned(w, "ok") =>
       \/ served = new[w]
       \/ pending /\ file = new[w]]_vars

(***************************************************************************)
(* Every submitted edit returns: no refusal, failure or death of a writer  *)
(* leaves the zone's lock behind for the others.                           *)
(***************************************************************************)
EditReturns == \A w \in Writers : pc[w] = "lock" ~> pc[w] = "idle"

(***************************************************************************)
(* docs/PHASE4.md section 2: "Rollback = restore the saved pre-edit bytes  *)
(* -> checkzone -> write -> reload".  So once named has no reload queued,  *)
(* it does not serve an edit that was reported as rolled back.             *)
(***************************************************************************)
RolledBackNotServed == ~pending => served \notin rolledBack
=============================================================================
