----------------------------- MODULE RotateKey -----------------------------
(***************************************************************************)
(* `goddns rotate-key` (cmd/goddns/rotatekey.go): a new secret for one key *)
(* of the key file that named includes and the daemon reads.  A rotation   *)
(* loads the keyring, writes it back with the new secret, has named        *)
(* reconfigured, tests the key against named and reloads the daemon; when  *)
(* a step fails it writes the old secret back and reconfigures again.      *)
(*                                                                         *)
(* Rotations take no lock: two of them, of the same or of different keys,  *)
(* may run at once, and each writes the whole keyring it loaded.  What     *)
(* goddns loads is what its regular expressions match: a key block that    *)
(* named reads and they do not (an unquoted name) is not among them.       *)
(***************************************************************************)
EXTENDS Naturals

CONSTANTS
  Rotators,     \* concurrent rotate-key commands
  Key,          \* names of the keys in the file
  MaxSecrets,   \* bound: secrets generated
  MaxFaults,    \* bound: failing commands, writes and probes
  MaxStops      \* bound: killed rotations, rotations with -no-reconfig, and
                \* reconfigurations by the operator

NoKey == 0        \* no block for this key
FirstSecret == 1  \* every key's secret at the start
Secret == 0 .. MaxSecrets
Keyring == [Key -> Secret]

ASSUME RotateAssumption == MaxSecrets \in Nat \ {0} /\ MaxFaults \in Nat /\ MaxStops \in Nat

VARIABLES
  file,      \* the key file, as named reads it
  odd,       \* the keys whose blocks in it reBlock does not match
  included,  \* named.conf includes the key file
  named,     \* the keys named has
  daemon,    \* the keys the daemon signs with
  pc,        \* where each rotation is
  name,      \* the key it rotates
  loaded,    \* the keyring LoadFile gave it
  ring,      \* the keyring it holds in memory (`keys`)
  res,       \* how its last call ended
  secrets, faults, stops,  \* counters for the bounds
  raced,     \* history: rotations during which another wrote the file
  stale      \* history: the last write of the file was not followed up

rotation == <<pc, name, loaded, ring, res>>
bounds == <<secrets, faults, stops>>
vars == <<file, odd, included, named, daemon, rotation, bounds, raced, stale>>

At == {"idle", "write", "reconfig", "probe", "reload", "rollback", "restore"}
Result == {"none", "tested", "untested", "rolled_back", "failed"}

TypeOK ==
  /\ included \in BOOLEAN
  /\ file \in Keyring /\ named \in Keyring /\ daemon \in Keyring
  /\ odd \subseteq Key
  /\ pc \in [Rotators -> At]
  /\ name \in [Rotators -> Key]
  /\ loaded \in [Rotators -> Keyring] /\ ring \in [Rotators -> Keyring]
  /\ res \in [Rotators -> Result]
  /\ secrets \in Secret /\ faults \in 0 .. MaxFaults /\ stops \in 0 .. MaxStops
  /\ raced \subseteq Rotators
  /\ stale \in BOOLEAN

Fresh == [k \in Key |-> FirstSecret]

\* Parse: the keys whose blocks it matches.
Parse == [k \in Key |-> IF k \in odd THEN NoKey ELSE file[k]]

Init ==
  /\ included \in BOOLEAN
  /\ odd \in SUBSET Key
  /\ file = Fresh /\ named = Fresh /\ daemon = Parse
  /\ pc = [r \in Rotators |-> "idle"]
  /\ name \in [Rotators -> Key]
  /\ loaded = [r \in Rotators |-> Fresh] /\ ring = [r \in Rotators |-> Fresh]
  /\ res = [r \in Rotators |-> "none"]
  /\ secrets = FirstSecret /\ faults = 0 /\ stops = 0
  /\ raced = {}
  /\ stale = FALSE

-----------------------------------------------------------------------------
Goto(r, from, to) == pc[r] = from /\ pc' = [pc EXCEPT ![r] = to]

Return(r, how) ==
  /\ pc' = [pc EXCEPT ![r] = "idle"]
  /\ res' = [res EXCEPT ![r] = how]

Fault == faults < MaxFaults /\ faults' = faults + 1
Stopped == stops < MaxStops /\ stops' = stops + 1

\* Whoever else is running has read a keyring that is now out of date.
Racing(r) == raced \union {q \in Rotators \ {r} : pc[q] # "idle"}

\* 32 random bytes: a secret nobody has had.
GenSecret == secrets + 1

\* LoadFile, Find and GenSecret: the new secret is in memory only.  A key that
\* Parse does not find cannot be rotated.
LoadFile(r) ==
  /\ Goto(r, "idle", "write")
  /\ secrets < MaxSecrets
  /\ secrets' = secrets + 1
  /\ \E k \in Key :
       /\ Parse[k] # NoKey
       /\ name' = [name EXCEPT ![r] = k]
       /\ ring' = [ring EXCEPT ![r] = [Parse EXCEPT ![k] = GenSecret]]
  /\ loaded' = [loaded EXCEPT ![r] = Parse]
  /\ raced' = raced \ {r}
  /\ UNCHANGED <<included, file, odd, named, daemon, res, faults, stops, stale>>

RenderRotated(r) == [k \in Key |-> IF k = name[r] THEN ring[r][k] ELSE NoKey]

\* Render: every key of the keyring, not only the rotated one, and nothing
\* else that was in the file.
Render(r) == ring[r]

\* WriteFile replaces the file as a whole.  With -no-reconfig the command
\* ends here.
WriteFile(r) ==
  /\ pc[r] = "write"
  /\ \/ /\ file' = Render(r)
        /\ odd' = {}
        /\ raced' = Racing(r)
        /\ \/ pc' = [pc EXCEPT ![r] = "reconfig"] /\ UNCHANGED <<res, stops, stale>>
           \/ Stopped /\ Return(r, "untested") /\ stale' = TRUE
        /\ UNCHANGED faults
     \/ /\ Fault
        /\ Return(r, "failed")
        /\ UNCHANGED <<file, odd, raced, stops, stale>>
  /\ UNCHANGED <<included, named, daemon, name, loaded, ring, secrets>>

\* named reads its configuration, and the key file with it if included.
ReadKeys ==
  /\ named' = IF included THEN file ELSE named
  /\ stale' = FALSE

\* rndc reconfig.  When rndc fails, named may have done it all the same.
Reconfig(r) ==
  \/ /\ Goto(r, "reconfig", "probe")
     /\ ReadKeys
     /\ UNCHANGED faults
  \/ /\ Goto(r, "reconfig", "rollback")
     /\ Fault
     /\ ReadKeys \/ UNCHANGED <<named, stale>>

RunReconfig(r) ==
  /\ Reconfig(r)
  /\ UNCHANGED <<included, file, odd, daemon, name, loaded, ring, res, secrets, stops, raced>>

VerifyUnsigned(r) == TRUE

\* Verify: the answer is signed with the new secret.
Verify(r) == named[name[r]] = ring[r][name[r]]

\* The self-test: up to three tries.  Without a zone to ask for it is skipped.
Probe(r) ==
  /\ pc[r] = "probe"
  /\ \/ /\ Verify(r)
        /\ pc' = [pc EXCEPT ![r] = "reload"]
        /\ res' = [res EXCEPT ![r] = "tested"]
        /\ UNCHANGED faults
     \/ /\ Fault
        /\ pc' = [pc EXCEPT ![r] = "reload"]
        /\ res' = [res EXCEPT ![r] = "untested"]
     \/ /\ Fault \/ (~Verify(r) /\ UNCHANGED faults)
        /\ pc' = [pc EXCEPT ![r] = "rollback"]
        /\ UNCHANGED res
  /\ UNCHANGED <<included, file, odd, named, daemon, name, loaded, ring, secrets, stops, raced, stale>>

\* systemctl reload goddns; when it fails the daemon finds the file by itself.
Reload(r) ==
  /\ Goto(r, "reload", "idle")
  /\ daemon' \in {daemon, Parse}
  /\ UNCHANGED <<included, file, odd, named, name, loaded, ring, res, bounds, raced, stale>>

\* The keyring this rotation holds, with its key's old secret.
Restored(r) == [ring[r] EXCEPT ![name[r]] = loaded[r][name[r]]]

\* rollback, its first half: write the old secret back.
Rollback(r) ==
  /\ pc[r] = "rollback"
  /\ \/ /\ pc' = [pc EXCEPT ![r] = "restore"]
        /\ ring' = [ring EXCEPT ![r] = Restored(r)]
        /\ file' = Restored(r)
        /\ odd' = {}
        /\ raced' = Racing(r)
        /\ UNCHANGED <<res, faults, stale>>
     \/ /\ Fault
        /\ Return(r, "failed")
        /\ stale' = TRUE
        /\ UNCHANGED <<file, odd, ring, raced>>
  /\ UNCHANGED <<included, named, daemon, name, loaded, secrets, stops>>

RestoreSkipped(r) ==
  /\ pc[r] = "restore"
  /\ Return(r, "rolled_back")
  /\ UNCHANGED <<named, stale, faults>>

\* The roll-back's own rndc reconfig.  Its outcome is ignored and the command
\* reports the same; when rndc fails, named may have done it all the same.
Restore(r) ==
  /\ pc[r] = "restore"
  /\ Return(r, "rolled_back")
  /\ \/ ReadKeys /\ UNCHANGED faults
     \/ Fault /\ ReadKeys
     \/ Fault /\ stale' = TRUE /\ UNCHANGED named

RunRestore(r) ==
  /\ Restore(r)
  /\ UNCHANGED <<included, file, odd, daemon, name, loaded, ring, secrets, stops, raced>>

\* The command is killed.
Kill(r) ==
  /\ pc[r] # "idle"
  /\ Stopped
  /\ Return(r, "failed")
  /\ stale' = (stale \/ pc[r] \in {"reconfig", "rollback", "restore"})
  /\ UNCHANGED <<included, file, odd, named, daemon, name, loaded, ring, secrets, faults, raced>>

-----------------------------------------------------------------------------
(* The daemon and the operator. *)

DaemonUnaware == UNCHANGED vars

\* The reload loop finds the key file changed.
DaemonReads ==
  /\ daemon' = Parse
  /\ UNCHANGED <<included, file, odd, named, rotation, bounds, raced, stale>>

\* The operator runs rndc reconfig, as the messages ask for.
OperatorReconfig ==
  /\ Stopped
  /\ ReadKeys
  /\ UNCHANGED <<included, file, odd, daemon, rotation, secrets, faults, raced>>

Step(r) ==
  \/ WriteFile(r) \/ RunReconfig(r) \/ Probe(r) \/ Reload(r)
  \/ Rollback(r) \/ RunRestore(r)

Next ==
  \/ \E r \in Rotators : LoadFile(r) \/ Step(r) \/ Kill(r)
  \/ DaemonReads
  \/ OperatorReconfig

\* rndc, the probe and systemctl return, and the daemon's ticker fires.
Fairness == (\A r \in Rotators : WF_vars(Step(r))) /\ WF_vars(DaemonReads)

Spec == Init /\ [][Next]_vars /\ Fairness

-----------------------------------------------------------------------------
(* Properties. *)

Quiet == \A r \in Rotators : pc[r] = "idle"

(***************************************************************************)
(* When no rotation is running, named has the keys of the file, however    *)
(* rotations overlapped, failed and rolled back, since whoever writes the  *)
(* file reconfigures named after it.  Excepted, until a later reconfig:    *)
(* -no-reconfig, a killed command, a roll-back whose write fails, and a    *)
(* roll-back whose own reconfig fails.  The command says so of all but the *)
(* last: rollback ignores that error and reports "no change".              *)
(***************************************************************************)
InSync == Quiet /\ included /\ ~stale => named = file

(***************************************************************************)
(* After the last rotation the daemon signs with what named accepts, with  *)
(* the same exceptions, also when it loaded a secret that was rolled back, *)
(* for every key whose block it can read.                                  *)
(***************************************************************************)
DaemonFollows ==
  <>[](Quiet /\ included /\ ~stale => \A k \in Key \ odd : daemon[k] = named[k])

(***************************************************************************)
(* No key is lost that goddns can read: WriteFile and the roll-back's      *)
(* write replace the whole file by a keyring loaded earlier, also while    *)
(* other rotations write theirs.  A block that Parse does not match is     *)
(* lost with the first write, although the comment of cmdRotateKey says    *)
(* "Other keys in the file are untouched".                                 *)
(***************************************************************************)
KeysKept == [][\A k \in Key \ odd : file[k] # NoKey => file'[k] # NoKey]_vars

Ended(r, how) == pc[r] # "idle" /\ pc'[r] = "idle" /\ res'[r] = how

(***************************************************************************)
(* A rotation that is alone is a transaction.  If it reports success after *)
(* its self-test, the file and named have the new secret of its key; if it *)
(* reports a roll-back, the file has the keys that it had found; either    *)
(* way none of the other keys it had found has changed.                    *)
(***************************************************************************)
Transactional ==
  [][\A r \in Rotators \ raced :
       /\ Ended(r, "tested") =>
            /\ file = [loaded[r] EXCEPT ![name[r]] = ring[r][name[r]]]
            /\ file[name[r]] # loaded[r][name[r]]
            /\ named[name[r]] = file[name[r]]
       /\ Ended(r, "rolled_back") => file = loaded[r]]_vars
=============================================================================
