-------------------------- MODULE CredentialProofs --------------------------
(***************************************************************************)
(* Proofs about the credentials: the TSIG keys, for every number of        *)
(* rotations, keys, faults and interruptions, and the admin UI's password, *)
(* for every number of handlers, clients and passwords.                    *)
(***************************************************************************)
EXTENDS RotateKey, Login, FiniteSetTheorems, TLAPS

(***************************************************************************)
(* RotateKey.                                                              *)
(***************************************************************************)

\* The key's secret is the only difference between what was read and what is
\* held, and it is a new one.
Rotated(r) ==
  /\ ring[r] = [loaded[r] EXCEPT ![name[r]] = ring[r][name[r]]]
  /\ ring[r][name[r]] # loaded[r][name[r]]

\* A rotation that nobody raced knows what is in the file.
Alone(r) ==
  /\ pc[r] = "write" => Parse = loaded[r] /\ Rotated(r)
  /\ pc[r] \in {"reconfig", "probe", "reload", "rollback"} =>
       file = ring[r] /\ Rotated(r)
  /\ pc[r] = "reload" => res[r] \in {"tested", "untested"}
  /\ pc[r] = "reload" /\ res[r] = "tested" => named[name[r]] = ring[r][name[r]]
  /\ pc[r] = "restore" => file = loaded[r]

\* Every secret in use was generated.
Generated ==
  /\ \A k \in Key : file[k] <= secrets
  /\ \A r \in Rotators, k \in Key : loaded[r][k] <= secrets /\ ring[r][k] <= secrets

\* Whoever wrote the file last still has named to tell.
Owed ==
  included /\ ~stale /\ named # file =>
    \E r \in Rotators : pc[r] \in {"reconfig", "rollback", "restore"}

\* Every running rotation holds the keys that goddns can read in the file, in
\* whatever order the rotations loaded and wrote it.
Held ==
  \A r \in Rotators, k \in Key : pc[r] # "idle" =>
    /\ ring[r][k] = NoKey <=> Parse[k] = NoKey
    /\ loaded[r][k] = NoKey <=> Parse[k] = NoKey

IInv == TypeOK /\ Generated /\ Owed /\ Held /\ \A r \in Rotators \ raced : Alone(r)

-----------------------------------------------------------------------------
\* Parse gives a keyring without the odd blocks.
LEMMA ParseType ==
  ASSUME TypeOK
  PROVE  Parse \in Keyring /\ \A k \in Key : Parse[k] = IF k \in odd THEN NoKey ELSE file[k]
BY RotateAssumption DEF Parse, NoKey, TypeOK, Keyring, Secret

\* Type correctness of a step.
LEMMA NextTypeOK == TypeOK /\ [Next]_vars => TypeOK'
<1> SUFFICES ASSUME TypeOK, [Next]_vars PROVE TypeOK'
  OBVIOUS
<1>0. Parse \in Keyring
  BY ParseType
<1> USE RotateAssumption DEF TypeOK, Keyring, Secret, At, Result, rotation, bounds
<1>1. ASSUME NEW r \in Rotators, LoadFile(r) PROVE TypeOK'
  <2>1. PICK k \in Key :
          /\ name' = [name EXCEPT ![r] = k]
          /\ ring' = [ring EXCEPT ![r] = [Parse EXCEPT ![k] = GenSecret]]
    BY <1>1 DEF LoadFile
  <2> QED
    BY <1>0, <1>1, <2>1 DEF LoadFile, Goto, GenSecret
<1>2. ASSUME NEW r \in Rotators, WriteFile(r) PROVE TypeOK'
  <2>1. stale' \in BOOLEAN
    BY <1>2, Zenon DEF WriteFile
  <2>2. faults' \in 0 .. MaxFaults /\ stops' \in 0 .. MaxStops
    BY <1>2 DEF WriteFile, Stopped, Fault
  <2>3. file' \in Keyring /\ raced' \subseteq Rotators /\ odd' \subseteq Key
    BY <1>2 DEF WriteFile, Render, Racing
  <2>4. pc' \in [Rotators -> At] /\ res' \in [Rotators -> Result]
    BY <1>2 DEF WriteFile, Return
  <2> QED
    BY <1>2, <2>1, <2>2, <2>3, <2>4 DEF WriteFile
<1>3. ASSUME NEW r \in Rotators, RunReconfig(r) PROVE TypeOK'
  <2>1. stale' \in BOOLEAN
    BY <1>3, Zenon DEF RunReconfig, Reconfig, ReadKeys
  <2>2. named' \in Keyring
    BY <1>3, Zenon DEF RunReconfig, Reconfig, ReadKeys
  <2>3. pc' \in [Rotators -> At]
    BY <1>3 DEF RunReconfig, Reconfig, Goto
  <2>4. faults' \in 0 .. MaxFaults
    BY <1>3 DEF RunReconfig, Reconfig, Fault
  <2> QED
    BY <1>3, <2>1, <2>2, <2>3, <2>4 DEF RunReconfig
<1>4. ASSUME NEW r \in Rotators, Probe(r) PROVE TypeOK'
  <2>1. faults' \in 0 .. MaxFaults
    BY <1>4 DEF Probe, Fault
  <2>2. pc' \in [Rotators -> At] /\ res' \in [Rotators -> Result]
    BY <1>4 DEF Probe
  <2> QED
    BY <1>4, <2>1, <2>2 DEF Probe
<1>5. ASSUME NEW r \in Rotators, Reload(r) PROVE TypeOK'
  BY <1>0, <1>5 DEF Reload, Goto
<1>6. ASSUME NEW r \in Rotators, Rollback(r) PROVE TypeOK'
  <2>1. stale' \in BOOLEAN
    BY <1>6, Zenon DEF Rollback
  <2>2. Restored(r) \in Keyring
    BY DEF Restored
  <2>3. file' \in Keyring /\ ring' \in [Rotators -> Keyring]
    BY <1>6, <2>2 DEF Rollback
  <2>6. raced' \subseteq Rotators /\ odd' \subseteq Key
    BY <1>6 DEF Rollback, Racing
  <2>4. pc' \in [Rotators -> At] /\ res' \in [Rotators -> Result]
    BY <1>6 DEF Rollback, Return
  <2>5. faults' \in 0 .. MaxFaults
    BY <1>6 DEF Rollback, Fault
  <2> QED
    BY <1>6, <2>1, <2>3, <2>4, <2>5, <2>6 DEF Rollback
<1>7. ASSUME NEW r \in Rotators, RunRestore(r) PROVE TypeOK'
  <2>1. stale' \in BOOLEAN
    BY <1>7, Zenon DEF RunRestore, Restore, ReadKeys
  <2>2. named' \in Keyring
    BY <1>7, Zenon DEF RunRestore, Restore, ReadKeys
  <2>3. /\ pc' \in [Rotators -> At] /\ res' \in [Rotators -> Result]
        /\ faults' \in 0 .. MaxFaults
    BY <1>7 DEF RunRestore, Restore, Return, Fault
  <2> QED
    BY <1>7, <2>1, <2>2, <2>3 DEF RunRestore
<1>8. ASSUME NEW r \in Rotators, Kill(r) PROVE TypeOK'
  BY <1>8 DEF Kill, Stopped, Return
<1>9. CASE DaemonReads
  BY <1>0, <1>9 DEF DaemonReads
<1>10. CASE OperatorReconfig
  <2>1. stale' \in BOOLEAN /\ named' \in Keyring
    BY <1>10, Zenon DEF OperatorReconfig, ReadKeys
  <2> QED
    BY <1>10, <2>1 DEF OperatorReconfig, Stopped
<1>11. CASE UNCHANGED vars
  BY <1>11 DEF vars
<1> QED
  BY <1>1, <1>2, <1>3, <1>4, <1>5, <1>6, <1>7, <1>8, <1>9, <1>10, <1>11 DEF Next, Step

\* A secret enters the file only from a rotation that generated it.
LEMMA NextGenerated == TypeOK /\ Generated /\ [Next]_vars => Generated'
<1> SUFFICES ASSUME TypeOK, Generated, [Next]_vars PROVE Generated'
  OBVIOUS
<1>0. \A k \in Key : Parse[k] \in Nat /\ Parse[k] <= secrets
  BY ParseType, RotateAssumption DEF TypeOK, Generated, Keyring, Secret, NoKey
<1>a. Parse \in Keyring
  BY ParseType
<1> USE RotateAssumption DEF TypeOK, Generated, Keyring, Secret, rotation, bounds
<1>1. ASSUME NEW r \in Rotators, LoadFile(r) PROVE Generated'
  <2>1. PICK k \in Key :
          /\ name' = [name EXCEPT ![r] = k]
          /\ ring' = [ring EXCEPT ![r] = [Parse EXCEPT ![k] = GenSecret]]
    BY <1>1 DEF LoadFile
  <2> QED
    BY <1>0, <1>a, <1>1, <2>1 DEF LoadFile, Goto, GenSecret
<1>2. ASSUME NEW r \in Rotators, WriteFile(r) PROVE Generated'
  BY <1>2 DEF WriteFile, Return, Stopped, Fault, Racing, Render
<1>3. ASSUME NEW r \in Rotators, Rollback(r) PROVE Generated'
  <2>1. /\ UNCHANGED <<loaded, secrets>>
        /\ \/ file' = Restored(r) /\ ring' = [ring EXCEPT ![r] = Restored(r)]
           \/ UNCHANGED <<file, ring>>
    BY <1>3 DEF Rollback
  <2>2. \A k \in Key : Restored(r)[k] <= secrets
    BY DEF Restored
  <2> QED
    BY <2>1, <2>2
<1>4. CASE UNCHANGED <<file, loaded, ring, secrets>>
  BY <1>4
<1> QED
  BY <1>1, <1>2, <1>3, <1>4
  DEF Next, Step, vars, RunReconfig, Probe, Reload, RunRestore, Kill, DaemonReads,
      OperatorReconfig

\* A step that leaves file and named different leaves somebody to reconfigure
\* named, or the mark that nobody will.
LEMMA NextOwed == TypeOK /\ Owed /\ [Next]_vars => Owed'
<1> SUFFICES ASSUME TypeOK, Owed, [Next]_vars PROVE Owed'
  OBVIOUS
<1> USE DEF TypeOK, Owed, At, rotation, bounds
<1>1. ASSUME NEW r \in Rotators, LoadFile(r) PROVE Owed'
  BY <1>1 DEF LoadFile, Goto
<1>2. ASSUME NEW r \in Rotators, WriteFile(r) PROVE Owed'
  BY <1>2 DEF WriteFile, Return
<1>3. ASSUME NEW r \in Rotators, RunReconfig(r) PROVE Owed'
  BY <1>3 DEF RunReconfig, Reconfig, ReadKeys, Goto
<1>4. ASSUME NEW r \in Rotators, Probe(r) PROVE Owed'
  BY <1>4 DEF Probe
<1>5. ASSUME NEW r \in Rotators, Reload(r) PROVE Owed'
  BY <1>5 DEF Reload, Goto
<1>6. ASSUME NEW r \in Rotators, Rollback(r) PROVE Owed'
  BY <1>6 DEF Rollback, Return
<1>7. ASSUME NEW r \in Rotators, RunRestore(r) PROVE Owed'
  BY <1>7 DEF RunRestore, Restore, ReadKeys, Return
<1>8. ASSUME NEW r \in Rotators, Kill(r) PROVE Owed'
  BY <1>8 DEF Kill, Return
<1>9. CASE DaemonReads
  BY <1>9 DEF DaemonReads
<1>10. CASE OperatorReconfig
  BY <1>10 DEF OperatorReconfig, ReadKeys
<1>11. CASE UNCHANGED vars
  BY <1>11 DEF vars
<1> QED
  BY <1>1, <1>2, <1>3, <1>4, <1>5, <1>6, <1>7, <1>8, <1>9, <1>10, <1>11 DEF Next, Step

\* What a rotation that stays alone knows after a step of its own or of another.
LEMMA NextAlone ==
  ASSUME IInv, [Next]_vars, NEW q \in Rotators, q \notin raced'
  PROVE  Alone(q)'
<1> USE DEF TypeOK, Keyring, Secret, At, rotation, bounds
<1>0. TypeOK /\ Generated /\ (q \notin raced => Alone(q))
  BY DEF IInv
<1>a. Parse \in Keyring /\ \A k \in Key : Parse[k] <= secrets
  BY <1>0, ParseType, RotateAssumption DEF Generated, NoKey
<1>1. ASSUME NEW r \in Rotators, LoadFile(r) PROVE Alone(q)'
  <2>1. PICK k \in Key :
          /\ name' = [name EXCEPT ![r] = k]
          /\ ring' = [ring EXCEPT ![r] = [Parse EXCEPT ![k] = GenSecret]]
    BY <1>1 DEF LoadFile
  <2>2. CASE q = r
    <3>1. /\ pc'[q] = "write" /\ Parse' = Parse /\ name'[q] = k
          /\ loaded'[q] = Parse /\ ring'[q] = [Parse EXCEPT ![k] = secrets + 1]
      BY <1>0, <1>1, <2>1, <2>2 DEF LoadFile, Goto, GenSecret, Parse
    <3>2. Parse[k] # secrets + 1
      BY <1>0, <1>a, RotateAssumption
    <3> QED
      BY <1>0, <1>a, <3>1, <3>2 DEF Alone, Rotated
  <2>3. CASE q # r
    <3>1. q \notin raced
      BY <1>1, <2>3 DEF LoadFile
    <3>2. /\ pc'[q] = pc[q] /\ name'[q] = name[q] /\ loaded'[q] = loaded[q]
          /\ ring'[q] = ring[q] /\ res'[q] = res[q] /\ file' = file /\ named' = named
          /\ Parse' = Parse
      BY <1>0, <1>1, <2>1, <2>3 DEF LoadFile, Goto, Parse
    <3> QED
      BY <1>0, <3>1, <3>2 DEF Alone, Rotated
  <2> QED
    BY <2>2, <2>3
<1>2. ASSUME NEW r \in Rotators, WriteFile(r) PROVE Alone(q)'
  BY <1>0, <1>2 DEF WriteFile, Return, Racing, Render, Alone, Rotated, Parse
<1>3. ASSUME NEW r \in Rotators, RunReconfig(r) PROVE Alone(q)'
  BY <1>0, <1>3 DEF RunReconfig, Reconfig, ReadKeys, Goto, Alone, Rotated, Parse
<1>4. ASSUME NEW r \in Rotators, Probe(r) PROVE Alone(q)'
  BY <1>0, <1>4 DEF Probe, Verify, Alone, Rotated, Parse
<1>5. ASSUME NEW r \in Rotators, Reload(r) PROVE Alone(q)'
  BY <1>0, <1>5 DEF Reload, Goto, Alone, Rotated, Parse
<1>6. ASSUME NEW r \in Rotators, Rollback(r) PROVE Alone(q)'
  <2>1. CASE q = r /\ pc'[r] = "restore"
    <3>1. q \notin raced /\ pc[q] = "rollback"
      BY <1>0, <1>6, <2>1 DEF Rollback, Return, Racing
    <3>2. Restored(q) = loaded[q]
      BY <1>0, <3>1 DEF Alone, Rotated, Restored
    <3> QED
      BY <1>0, <1>6, <2>1, <3>2 DEF Rollback, Return, Alone
  <2>2. CASE q # r /\ pc'[r] = "restore"
    <3>1. pc'[q] = pc[q] /\ raced' = Racing(r)
      BY <1>0, <1>6, <2>2 DEF Rollback, Return
    <3>2. pc'[q] = "idle"
      BY <2>2, <3>1 DEF Racing
    <3> QED
      BY <3>2 DEF Alone
  <2>3. CASE pc'[r] # "restore"
    <3>1. /\ UNCHANGED <<file, odd, named, name, loaded, ring, raced>>
          /\ pc' = [pc EXCEPT ![r] = "idle"] /\ res' = [res EXCEPT ![r] = "failed"]
      BY <1>0, <1>6, <2>3 DEF Rollback, Return
    <3> QED
      BY <1>0, <3>1 DEF Alone, Rotated, Parse
  <2> QED
    BY <2>1, <2>2, <2>3
<1>7. ASSUME NEW r \in Rotators, RunRestore(r) PROVE Alone(q)'
  BY <1>0, <1>7 DEF RunRestore, Restore, ReadKeys, Return, Alone, Rotated, Parse
<1>8. ASSUME NEW r \in Rotators, Kill(r) PROVE Alone(q)'
  BY <1>0, <1>8 DEF Kill, Return, Alone, Rotated, Parse
<1>9. CASE DaemonReads
  BY <1>0, <1>9 DEF DaemonReads, Alone, Rotated, Parse
<1>10. CASE OperatorReconfig
  BY <1>0, <1>10 DEF OperatorReconfig, ReadKeys, Alone, Rotated, Parse
<1>11. CASE UNCHANGED vars
  BY <1>0, <1>11 DEF vars, Alone, Rotated, Parse
<1> QED
  BY <1>1, <1>2, <1>3, <1>4, <1>5, <1>6, <1>7, <1>8, <1>9, <1>10, <1>11 DEF Next, Step

-----------------------------------------------------------------------------
\* What a rotation writes are the keys that can be read, so nobody's keyring
\* gets out of date in which keys there are.
LEMMA NextHeld == TypeOK /\ Generated /\ Held /\ [Next]_vars => Held'
<1> SUFFICES ASSUME TypeOK, Generated, Held, [Next]_vars,
                    NEW q \in Rotators, NEW k \in Key, pc'[q] # "idle"
             PROVE  /\ ring'[q][k] = NoKey <=> Parse'[k] = NoKey
                    /\ loaded'[q][k] = NoKey <=> Parse'[k] = NoKey
  BY DEF Held
<1>0. Parse \in Keyring /\ Parse[k] = IF k \in odd THEN NoKey ELSE file[k]
  BY ParseType
<1>a. Parse'[k] = IF k \in odd' THEN NoKey ELSE file'[k]
  BY DEF Parse
<1>1. ASSUME NEW r \in Rotators, LoadFile(r)
      PROVE  /\ ring'[q][k] = NoKey <=> Parse'[k] = NoKey
             /\ loaded'[q][k] = NoKey <=> Parse'[k] = NoKey
  <2>1. PICK n \in Key :
          Parse[n] # NoKey /\ ring' = [ring EXCEPT ![r] = [Parse EXCEPT ![n] = secrets + 1]]
    BY <1>1 DEF LoadFile, GenSecret
  <2>2. /\ file' = file /\ odd' = odd /\ loaded' = [loaded EXCEPT ![r] = Parse]
        /\ pc' = [pc EXCEPT ![r] = "write"]
    BY <1>1 DEF LoadFile, Goto
  <2>3. Parse'[k] = Parse[k]
    BY <1>0, <1>a, <2>2
  <2>4. CASE q = r
    <3>1. ring'[q] = [Parse EXCEPT ![n] = secrets + 1] /\ loaded'[q] = Parse
      BY <2>1, <2>2, <2>4 DEF TypeOK
    <3>2. secrets + 1 # NoKey
      BY DEF TypeOK, Secret, NoKey
    <3> QED BY <1>0, <2>1, <2>3, <3>1, <3>2 DEF Keyring
  <2>5. CASE q # r
    BY <2>1, <2>2, <2>3, <2>5 DEF TypeOK, Held
  <2> QED BY <2>4, <2>5
<1>2. ASSUME NEW r \in Rotators, WriteFile(r) \/ Rollback(r)
      PROVE  /\ ring'[q][k] = NoKey <=> Parse'[k] = NoKey
             /\ loaded'[q][k] = NoKey <=> Parse'[k] = NoKey
  <2>1. pc[q] # "idle" /\ pc[r] # "idle"
    BY <1>2 DEF WriteFile, Rollback, Return, TypeOK
  <2>2. Restored(r)[k] = NoKey <=> Parse[k] = NoKey
    BY <2>1 DEF Restored, Held, TypeOK, Keyring
  <2>3. /\ loaded' = loaded
        /\ ring' = ring \/ ring' = [ring EXCEPT ![r] = Restored(r)]
    BY <1>2 DEF WriteFile, Rollback
  <2>4. ring'[q][k] = NoKey <=> Parse[k] = NoKey
    BY <2>1, <2>2, <2>3 DEF Held, TypeOK
  <2>5. \/ UNCHANGED <<file, odd>>
        \/ odd' = {} /\ file' \in {ring[r], Restored(r)}
    BY <1>2 DEF WriteFile, Rollback, Render
  <2>6. Parse'[k] = NoKey <=> Parse[k] = NoKey
    BY <1>0, <1>a, <2>1, <2>2, <2>5 DEF Held
  <2> QED BY <2>1, <2>3, <2>4, <2>6 DEF Held
<1>3. ASSUME UNCHANGED <<file, odd, loaded, ring>>, pc[q] # "idle"
      PROVE  /\ ring'[q][k] = NoKey <=> Parse'[k] = NoKey
             /\ loaded'[q][k] = NoKey <=> Parse'[k] = NoKey
  BY <1>0, <1>a, <1>3 DEF Held
<1>4. ASSUME NEW r \in Rotators,
             RunReconfig(r) \/ Probe(r) \/ Reload(r) \/ RunRestore(r) \/ Kill(r)
      PROVE  UNCHANGED <<file, odd, loaded, ring>> /\ pc[q] # "idle"
  BY <1>4 DEF RunReconfig, Reconfig, Probe, Reload, RunRestore, Restore, Kill, Goto, Return, TypeOK
<1>5. CASE DaemonReads \/ OperatorReconfig \/ UNCHANGED vars
  BY <1>3, <1>5 DEF DaemonReads, OperatorReconfig, vars, rotation
<1> QED
  BY <1>1, <1>2, <1>3, <1>4, <1>5 DEF Next, Step

\* The conjunction of the five is inductive.
THEOREM Inductive == Spec => []IInv
<1>1. ASSUME Init PROVE IInv
  <2>1. /\ NoKey \in Secret /\ FirstSecret \in Secret
        /\ 0 \in 0 .. MaxFaults /\ 0 \in 0 .. MaxStops
    BY RotateAssumption DEF Secret, NoKey, FirstSecret
  <2>2. Fresh \in Keyring
    BY <2>1 DEF Fresh, Keyring
  <2>3. Parse \in Keyring
    BY <1>1, <2>1, <2>2 DEF Init, Parse, Keyring
  <2>4. TypeOK
    BY <1>1, <2>1, <2>2, <2>3 DEF Init, TypeOK, At, Result
  <2>5. Generated
    BY <1>1 DEF Init, Generated, Fresh, FirstSecret
  <2>6. Owed /\ Held /\ \A r \in Rotators : Alone(r)
    BY <1>1 DEF Init, Owed, Held, Alone
  <2> QED
    BY <2>4, <2>5, <2>6 DEF IInv
<1>2. IInv /\ [Next]_vars => IInv'
  <2> SUFFICES ASSUME IInv, [Next]_vars PROVE IInv'
    OBVIOUS
  <2>1. TypeOK' /\ Generated' /\ Owed' /\ Held'
    BY NextTypeOK, NextGenerated, NextOwed, NextHeld DEF IInv
  <2>2. \A r \in Rotators : r \notin raced' => Alone(r)'
    BY NextAlone
  <2> QED
    BY <2>1, <2>2 DEF IInv
<1> QED
  BY <1>1, <1>2, PTL DEF Spec

\* Type correctness of key rotation (cmdRotateKey).
THEOREM TypeCorrect == Spec => []TypeOK
<1>1. IInv => TypeOK
  BY DEF IInv
<1> QED
  BY <1>1, Inductive, PTL

\* Whatever overlaps, fails or rolls back, named has the file's keys when all
\* rotations have ended, unless the last one was given up before it told named
\* (cmdRotateKey, its rollback included).
THEOREM StaysInSync == Spec => []InSync
<1>1. IInv => InSync
  BY DEF IInv, Owed, InSync, Quiet
<1> QED
  BY <1>1, Inductive, PTL

\* No write of cmdRotateKey, of however many rotations at once, drops a key that
\* goddns can read in the file.
THEOREM NoKeyLost == Spec => KeysKept
<1> DEFINE A == \A k \in Key \ odd : file[k] # NoKey => file'[k] # NoKey
<1>1. IInv /\ [Next]_vars => [A]_vars
  <2> SUFFICES ASSUME IInv, [Next]_vars, NEW k \in Key \ odd, file[k] # NoKey
               PROVE  file'[k] # NoKey
    OBVIOUS
  <2>1. TypeOK /\ Held /\ Parse[k] # NoKey
    BY ParseType DEF IInv
  <2>2. ASSUME NEW r \in Rotators, WriteFile(r) \/ Rollback(r) PROVE file'[k] # NoKey
    <3>1. ring[r][k] # NoKey /\ loaded[r][k] # NoKey
      BY <2>1, <2>2 DEF Held, WriteFile, Rollback
    <3>2. Restored(r)[k] # NoKey
      BY <2>1, <3>1 DEF Restored, TypeOK, Keyring
    <3> QED BY <2>2, <3>1, <3>2 DEF WriteFile, Rollback, Render
  <2>3. CASE UNCHANGED file
    BY <2>3
  <2> QED
    BY <2>2, <2>3 DEF Next, Step, vars, LoadFile, RunReconfig, Probe, Reload, RunRestore,
                      Kill, DaemonReads, OperatorReconfig
<1> QED
  BY <1>1, Inductive, PTL DEF Spec, KeysKept

\* A rotation that nobody raced ends with its new secret in the file and in
\* named, or with the keys that it had found.
THEOREM RotationIsTransaction == Spec => Transactional
<1> DEFINE Ends(r) ==
      /\ Ended(r, "tested") =>
           /\ file = [loaded[r] EXCEPT ![name[r]] = ring[r][name[r]]]
           /\ file[name[r]] # loaded[r][name[r]]
           /\ named[name[r]] = file[name[r]]
      /\ Ended(r, "rolled_back") => file = loaded[r]
<1>1. ASSUME IInv, [Next]_vars, NEW q \in Rotators \ raced PROVE Ends(q)
  <2> USE DEF TypeOK, At, Result, rotation, bounds, Ended
  <2>0. TypeOK /\ Alone(q)
    BY <1>1 DEF IInv
  <2>1. ASSUME NEW r \in Rotators, LoadFile(r) PROVE Ends(q)
    BY <2>0, <2>1 DEF LoadFile, Goto
  <2>2. ASSUME NEW r \in Rotators, WriteFile(r) PROVE Ends(q)
    BY <2>0, <2>2 DEF WriteFile, Return
  <2>3. ASSUME NEW r \in Rotators, RunReconfig(r) PROVE Ends(q)
    BY <2>0, <2>3 DEF RunReconfig, Reconfig, Goto
  <2>4. ASSUME NEW r \in Rotators, Probe(r) PROVE Ends(q)
    BY <2>0, <2>4 DEF Probe
  <2>5. ASSUME NEW r \in Rotators, Reload(r) PROVE Ends(q)
    <3>1. CASE q = r
      <4>1. pc[q] = "reload" /\ UNCHANGED res
        BY <2>5, <3>1 DEF Reload, Goto
      <4> QED
        BY <2>0, <4>1 DEF Alone, Rotated
    <3>2. CASE q # r
      BY <2>0, <2>5, <3>2 DEF Reload, Goto
    <3> QED
      BY <3>1, <3>2
  <2>6. ASSUME NEW r \in Rotators, Rollback(r) PROVE Ends(q)
    BY <2>0, <2>6 DEF Rollback, Return
  <2>7. ASSUME NEW r \in Rotators, RunRestore(r) PROVE Ends(q)
    BY <2>0, <2>7 DEF RunRestore, Restore, Return, Alone
  <2>8. ASSUME NEW r \in Rotators, Kill(r) PROVE Ends(q)
    BY <2>0, <2>8 DEF Kill, Return
  <2>9. CASE DaemonReads \/ OperatorReconfig \/ UNCHANGED vars
    BY <2>0, <2>9 DEF DaemonReads, OperatorReconfig, vars
  <2> QED
    BY <1>1, <2>1, <2>2, <2>3, <2>4, <2>5, <2>6, <2>7, <2>8, <2>9 DEF Next, Step
<1>2. IInv /\ [Next]_vars => [\A r \in Rotators \ raced : Ends(r)]_vars
  BY <1>1
<1> QED
  BY <1>2, Inductive, PTL DEF Spec, Transactional

-----------------------------------------------------------------------------
(***************************************************************************)
(* Login.  Failures are counted against the locks the client has sat out:  *)
(* a lock stops new handlers at the check, so that the failures it does    *)
(* not stop are those of handlers already past it, one each.               *)
(***************************************************************************)

\* The records of the throttle.
FailRecord == [n : 0 .. Cap, left : 0 .. Window, age : 0 .. Window + 1]

\* Handlers past the check for client c.
Past(c) == {h \in Handlers : at[h] = "compare" /\ ip[h] = c}

\* The number of handlers.
NH == Cardinality(Handlers)

\* How many failures are paid for by o locks sat out.
Paid(o) == Threshold - 1 + NH * o

\* A record is as good as none only when its lock is over.
Records ==
  \A c \in Clients :
    /\ fails[c].n = 0 => fails[c].left = 0
    /\ fails[c].left > 0 => fails[c].left + fails[c].age <= Window

(***************************************************************************)
(* Of a client that is not locked, every failure is paid for.  Once it is  *)
(* locked, the handlers that were past the check may each add one, and     *)
(* nobody else gets there.                                                 *)
(***************************************************************************)
Counted ==
  \A c \in Clients :
    IF fails[c].left = 0
    THEN fails[c].n <= Paid(opened[c])
    ELSE fails[c].n + Cardinality(Past(c)) <= Paid(opened[c] + 1)

\* Sessions are signed with the hash whose password was given.
SessionsSigned == \A s \in sessions : s.signed = s.knew

LoginIInv == LoginTypeOK /\ Records /\ Counted /\ SessionsSigned

-----------------------------------------------------------------------------
\* What is assumed of the constants.
LEMMA LoginConstants ==
  /\ Threshold \in Nat \ {0} /\ Window \in Nat \ {0} /\ Cap \in Nat \ {0}
  /\ MaxShift \in Nat /\ MaxKeys \in Nat /\ Threshold <= Cap
  /\ None \notin Hashes /\ IsFiniteSet(Handlers) /\ NH \in Nat
<1>1. IsFiniteSet(Handlers)
  BY LoginAssumption
<1>2. NH \in Nat
  BY <1>1, FS_CardinalityType DEF NH
<1> QED
  BY <1>1, <1>2, LoginAssumption

\* From the threshold on, a failure locks: the clamped shift does not wrap.
LEMMA LockRange == \A n \in Threshold .. Cap : Lock(n) \in 1 .. Window
<1> SUFFICES ASSUME NEW n \in Threshold .. Cap PROVE Lock(n) \in 1 .. Window
  OBVIOUS
<1> DEFINE k == Smaller(n - Threshold, MaxShift)
           half == 2 ^ (Width - 1)
<1>1. k \in 0 .. MaxShift
  BY LoginConstants DEF Smaller
<1>2. half \in Nat /\ 2 ^ Width = 2 * half /\ 2 ^ k \in 1 .. half - 1
  BY <1>1, PowersAssumption
<1> HIDE DEF k, half
<1>3. 2 ^ k % (2 * half) = 2 ^ k
  BY <1>2
<1>4. Wrap(2 ^ k) = 2 ^ k
  BY <1>2, <1>3 DEF Wrap, half
<1>5. Lock(n) = Smaller(2 ^ k, Window)
  BY <1>4 DEF Lock, k
<1> QED
  BY <1>2, <1>5, LoginConstants DEF Smaller

\* What the next failure makes of a record.
LEMMA BumpedRecord ==
  ASSUME NEW r \in FailRecord, r.left > 0 => r.left + r.age <= Window
  PROVE  /\ Bumped(r) \in FailRecord /\ Bumped(r).age = 0 /\ Bumped(r).n >= 1
         /\ Bumped(r).n <= (IF Idle(r) THEN 0 ELSE r.n) + 1
         /\ Bumped(r).n >= Threshold => Bumped(r).left >= 1
         /\ Bumped(r).n < Threshold => Bumped(r).left = IF Idle(r) THEN 0 ELSE r.left
         /\ Idle(r) => Bumped(r) = Bumped(NoRecord)
<1> DEFINE n == Smaller((IF Idle(r) THEN 0 ELSE r.n) + 1, Cap)
           left == IF n >= Threshold THEN Lock(n) ELSE IF Idle(r) THEN 0 ELSE r.left
<1>1. n \in 1 .. Cap /\ n <= (IF Idle(r) THEN 0 ELSE r.n) + 1
  BY LoginConstants DEF FailRecord, Smaller
<1>2. n >= Threshold => Lock(n) \in 1 .. Window
  BY <1>1, LockRange, LoginConstants
<1>3. left \in 0 .. Window /\ (n >= Threshold => left >= 1)
  BY <1>1, <1>2, LoginConstants DEF FailRecord
<1>4. Bumped(r) = [n |-> n, age |-> 0, left |-> left]
  BY DEF Bumped
<1>5. Idle(r) => Bumped(r) = Bumped(NoRecord)
  BY DEF Bumped, Idle, NoRecord
<1> HIDE DEF n
<1> QED
  BY <1>1, <1>3, <1>4, <1>5, LoginConstants DEF FailRecord

\* fail touches the client's own record, and drops those that are as good as
\* none.
LEMMA FailEffect ==
  ASSUME LoginTypeOK, Records, NEW c \in Clients, fail(c)
  PROVE  /\ fails' \in [Clients -> FailRecord]
         /\ fails'[c] = Bumped(fails[c])
         /\ \A k \in Clients \ {c} :
              fails'[k] = fails[k] \/ (Idle(fails[k]) /\ fails'[k] = NoRecord)
<1>1. fails \in [Clients -> FailRecord] /\ NoRecord \in FailRecord
  BY LoginConstants DEF LoginTypeOK, FailRecord, NoRecord
<1>2. /\ Swept \in [Clients -> FailRecord]
      /\ \A k \in Clients : Swept[k] = fails[k] \/ (Idle(fails[k]) /\ Swept[k] = NoRecord)
  BY <1>1 DEF Swept
<1> HIDE DEF Swept
<1>3. Bumped(Swept[c]) = Bumped(fails[c])
  BY <1>1, <1>2, BumpedRecord DEF Records
<1>4. Bumped(fails[c]) \in FailRecord
  BY <1>1, BumpedRecord DEF Records
<1>5. fails' = [Swept EXCEPT ![c] = Bumped(Swept[c])]
  BY DEF fail
<1> QED
  BY <1>2, <1>3, <1>4, <1>5

\* The failures that o locks pay for.
LEMMA PaidFor ==
  /\ Paid(0) = Threshold - 1
  /\ \A o \in Nat : /\ Paid(o) \in Int /\ Paid(o) >= Threshold - 1
                    /\ Paid(o + 1) = Paid(o) + NH
  /\ \A o \in Nat : NH > 0 => Paid(o) >= o
  /\ NH = 0 => \A o \in Nat : Paid(o) = Threshold - 1
<1>1. \A o \in Nat : NH * o \in Nat /\ NH * (o + 1) = NH * o + NH
  BY LoginConstants
<1>2. \A o \in Nat : NH > 0 => NH * o >= o
  BY LoginConstants
<1>3. NH * 0 = 0 /\ (NH = 0 => \A o \in Nat : NH * o = 0)
  BY LoginConstants
<1> QED
  BY <1>1, <1>2, <1>3, LoginConstants DEF Paid

\* The handlers past the check are counted.
LEMMA PastCounted ==
  ASSUME NEW c
  PROVE  IsFiniteSet(Past(c)) /\ Cardinality(Past(c)) \in 0 .. NH
BY LoginConstants, FS_Subset, FS_CardinalityType DEF Past, NH

\* One handler's move changes the count of its client by one at most.
LEMMA PastMoves ==
  ASSUME LoginTypeOK, NEW h \in Handlers, NEW step \in {"idle", "asked", "compare"},
         at' = [at EXCEPT ![h] = step], ip' = [ip EXCEPT ![h] = ip'[h]]
  PROVE  \A c \in Clients :
           /\ Cardinality(Past(c)') \in 0 .. NH
           /\ step # "compare" => Cardinality(Past(c)') <= Cardinality(Past(c))
           /\ at[h] = "compare" /\ ip[h] = c /\ step # "compare" =>
                Cardinality(Past(c)') = Cardinality(Past(c)) - 1
           /\ ip[h] # c /\ ip'[h] # c => Cardinality(Past(c)') = Cardinality(Past(c))
<1> SUFFICES ASSUME NEW c \in Clients
             PROVE  /\ Cardinality(Past(c)') \in 0 .. NH
                    /\ step # "compare" => Cardinality(Past(c)') <= Cardinality(Past(c))
                    /\ at[h] = "compare" /\ ip[h] = c /\ step # "compare" =>
                         Cardinality(Past(c)') = Cardinality(Past(c)) - 1
                    /\ ip[h] # c /\ ip'[h] # c => Cardinality(Past(c)') = Cardinality(Past(c))
  OBVIOUS
<1>0. IsFiniteSet(Past(c)) /\ Cardinality(Past(c)) \in 0 .. NH /\ NH \in Nat
  BY PastCounted, LoginConstants
<1>1. Cardinality(Past(c)') \in 0 .. NH
  BY LoginConstants, FS_Subset, FS_CardinalityType DEF Past, NH
<1>2. step # "compare" => Past(c)' = Past(c) \ {h}
  BY DEF Past, LoginTypeOK
<1>3. Cardinality(Past(c) \ {h}) =
        IF h \in Past(c) THEN Cardinality(Past(c)) - 1 ELSE Cardinality(Past(c))
  BY <1>0, FS_RemoveElement
<1>4. at[h] = "compare" /\ ip[h] = c => h \in Past(c)
  BY DEF Past
<1>5. ip[h] # c /\ ip'[h] # c => Past(c)' = Past(c)
  BY DEF Past, LoginTypeOK
<1>6. step # "compare" => Cardinality(Past(c)') <= Cardinality(Past(c))
  <2>1. Cardinality(Past(c)) \in Int /\ Cardinality(Past(c)) - 1 <= Cardinality(Past(c))
    BY <1>0
  <2>2. Cardinality(Past(c) \ {h}) <= Cardinality(Past(c))
    BY <1>3, <2>1
  <2> QED
    BY <1>2, <2>2
<1>7. at[h] = "compare" /\ ip[h] = c /\ step # "compare" =>
        Cardinality(Past(c)') = Cardinality(Past(c)) - 1
  BY <1>2, <1>3, <1>4
<1>8. ip[h] # c /\ ip'[h] # c => Cardinality(Past(c)') = Cardinality(Past(c))
  BY <1>5
<1> QED
  BY <1>1, <1>6, <1>7, <1>8

-----------------------------------------------------------------------------
\* Initially nobody has failed.
LEMMA LoginStart == LoginInit => LoginIInv
<1> SUFFICES ASSUME LoginInit PROVE LoginIInv
  OBVIOUS
<1>1. LoginTypeOK
  BY LoginConstants DEF LoginInit, LoginTypeOK, NoRecord
<1>2. Records /\ SessionsSigned
  BY DEF LoginInit, Records, SessionsSigned, NoRecord
<1>3. Counted
  BY PaidFor, LoginConstants DEF LoginInit, Counted, NoRecord
<1> QED
  BY <1>1, <1>2, <1>3 DEF LoginIInv

\* The type invariant is preserved: locks stay within the window.
LEMMA LoginTypeStep == LoginTypeOK /\ Records /\ [LoginNext]_loginVars => LoginTypeOK'
<1> SUFFICES ASSUME LoginTypeOK, Records, [LoginNext]_loginVars PROVE LoginTypeOK'
  OBVIOUS
<1>0. NoRecord \in FailRecord
  BY LoginConstants DEF NoRecord, FailRecord
<1>1. CASE ReloadHash
  BY <1>1 DEF ReloadHash, LoginTypeOK, request
<1>2. CASE Tick
  <2>1. fails' \in [Clients -> FailRecord]
    <3>1. ASSUME NEW c \in Clients
          PROVE  (IF fails[c].n = 0 THEN NoRecord
                  ELSE [fails[c] EXCEPT !.left = IF @ = 0 THEN 0 ELSE @ - 1,
                                        !.age = Smaller(@ + 1, Window + 1)]) \in FailRecord
      <4>1. fails[c] \in FailRecord
        BY DEF LoginTypeOK, FailRecord
      <4>2. CASE fails[c].n # 0
        <5>1. /\ (IF fails[c].left = 0 THEN 0 ELSE fails[c].left - 1) \in 0 .. Window
              /\ Smaller(fails[c].age + 1, Window + 1) \in 0 .. Window + 1
          BY <4>1, LoginConstants DEF FailRecord, Smaller
        <5> QED
          BY <4>1, <4>2, <5>1 DEF FailRecord
      <4> QED
        BY <1>0, <4>2
    <3> QED
      BY <1>2, <3>1 DEF Tick
  <2>2. \A c \in Clients : opened[c] \in 0 .. Cap /\ Smaller(opened[c] + 1, Cap) \in 0 .. Cap
    BY LoginConstants DEF LoginTypeOK, Smaller
  <2>3. opened' \in [Clients -> 0 .. Cap]
    BY <1>2, <2>2 DEF Tick
  <2> QED
    BY <1>2, <2>1, <2>3 DEF Tick, LoginTypeOK, FailRecord, request
<1>3. CASE Expire
  BY <1>3 DEF Expire, LoginTypeOK, request
<1>4. CASE Restart
  BY <1>0, <1>4, LoginConstants DEF Restart, LoginTypeOK, FailRecord
<1>5. ASSUME NEW h \in Handlers, ServeHTTP(h) PROVE LoginTypeOK'
  BY <1>5 DEF ServeHTTP, LoginTypeOK
<1>6. ASSUME NEW h \in Handlers, Refuse(h) PROVE LoginTypeOK'
  BY <1>6 DEF Refuse, Answered, BlockedEffect, LoginTypeOK
<1>7. ASSUME NEW h \in Handlers, Admit(h) PROVE LoginTypeOK'
  BY <1>7 DEF Admit, LoginTypeOK
<1>8. ASSUME NEW h \in Handlers, LoginFails(h) PROVE LoginTypeOK'
  <2>1. ip[h] \in Clients /\ fail(ip[h])
    BY <1>8 DEF LoginFails, LoginTypeOK
  <2>2. fails' \in [Clients -> FailRecord]
    BY <2>1, FailEffect
  <2>3. opened' \in [Clients -> 0 .. Cap]
    BY <2>1, LoginConstants DEF fail, LoginTypeOK
  <2> QED
    BY <1>8, <2>2, <2>3 DEF LoginFails, Answered, LoginTypeOK, FailRecord
<1>9. ASSUME NEW h \in Handlers, LoginSucceeds(h) PROVE LoginTypeOK'
  <2>1. ip[h] \in Clients /\ newSession(h) \in [signed : Hashes, knew : Hashes]
    BY <1>9, LoginConstants DEF LoginSucceeds, newSession, verifyCred, LoginTypeOK
  <2>2. fails' \in [Clients -> FailRecord] /\ opened' \in [Clients -> 0 .. Cap]
    BY <1>0, <1>9, <2>1, LoginConstants DEF LoginSucceeds, ok, LoginTypeOK, FailRecord
  <2> QED
    BY <1>9, <2>1, <2>2 DEF LoginSucceeds, Answered, LoginTypeOK, FailRecord
<1>10. CASE UNCHANGED loginVars
  BY <1>10 DEF loginVars, LoginTypeOK
<1> QED
  BY <1>1, <1>2, <1>3, <1>4, <1>5, <1>6, <1>7, <1>8, <1>9, <1>10 DEF LoginNext, handleLogin

\* A lock ends before its record is as good as none.
LEMMA RecordsStep == LoginTypeOK /\ Records /\ [LoginNext]_loginVars => Records'
<1> SUFFICES ASSUME LoginTypeOK, Records, [LoginNext]_loginVars, NEW c \in Clients
             PROVE  /\ fails'[c].n = 0 => fails'[c].left = 0
                    /\ fails'[c].left > 0 => fails'[c].left + fails'[c].age <= Window
  BY DEF Records
<1>0. fails[c] \in FailRecord /\ NoRecord \in FailRecord /\ NoRecord.n = 0 /\ NoRecord.left = 0
  BY LoginConstants DEF LoginTypeOK, FailRecord, NoRecord
<1>1. CASE UNCHANGED fails
  BY <1>1 DEF Records
<1>2. CASE Tick
  <2>1. CASE fails[c].n = 0
    <3>1. fails'[c] = NoRecord
      BY <1>2, <2>1 DEF Tick
    <3> QED
      BY <1>0, <3>1
  <2>2. CASE fails[c].n # 0
    <3>1. fails'[c] = [fails[c] EXCEPT !.left = IF @ = 0 THEN 0 ELSE @ - 1,
                                       !.age = Smaller(@ + 1, Window + 1)]
      BY <1>2, <2>2 DEF Tick
    <3> QED
      BY <1>0, <2>2, <3>1, LoginConstants DEF Records, FailRecord, Smaller
  <2> QED
    BY <2>1, <2>2
<1>3. CASE Restart
  BY <1>0, <1>3 DEF Restart
<1>4. ASSUME NEW h \in Handlers, LoginFails(h)
      PROVE  /\ fails'[c].n = 0 => fails'[c].left = 0
             /\ fails'[c].left > 0 => fails'[c].left + fails'[c].age <= Window
  <2>1. ip[h] \in Clients /\ fail(ip[h])
    BY <1>4 DEF LoginFails, LoginTypeOK
  <2>2. CASE c = ip[h]
    <3>1. fails'[c] = Bumped(fails[c])
      BY <2>1, <2>2, FailEffect
    <3> QED
      BY <1>0, <3>1, BumpedRecord, LoginConstants DEF Records, FailRecord
  <2>3. CASE c # ip[h]
    BY <1>0, <2>1, <2>3, FailEffect DEF Records
  <2> QED
    BY <2>2, <2>3
<1>5. ASSUME NEW h \in Handlers, LoginSucceeds(h)
      PROVE  /\ fails'[c].n = 0 => fails'[c].left = 0
             /\ fails'[c].left > 0 => fails'[c].left + fails'[c].age <= Window
  BY <1>0, <1>5 DEF LoginSucceeds, ok, LoginTypeOK, Records
<1> QED
  BY <1>1, <1>2, <1>3, <1>4, <1>5
  DEF LoginNext, handleLogin, ReloadHash, Expire, ServeHTTP, Refuse, BlockedEffect, Admit,
      loginVars

\* Sessions are signed with the hash whose password was given.
LEMMA SignedStep == SessionsSigned /\ [LoginNext]_loginVars => SessionsSigned'
<1> SUFFICES ASSUME SessionsSigned, [LoginNext]_loginVars PROVE SessionsSigned'
  OBVIOUS
<1>1. ASSUME NEW h \in Handlers, LoginSucceeds(h) PROVE SessionsSigned'
  BY <1>1 DEF LoginSucceeds, newSession, verifyCred, SessionsSigned
<1>2. CASE sessions' \subseteq sessions
  BY <1>2 DEF SessionsSigned
<1> QED
  BY <1>1, <1>2
  DEF LoginNext, handleLogin, ReloadHash, Tick, Expire, Restart, ServeHTTP, Refuse, Admit,
      LoginFails, loginVars

\* Failures beyond what is paid for are handlers' that were past the check.
LEMMA CountedStep == LoginIInv /\ [LoginNext]_loginVars => Counted'
<1> SUFFICES ASSUME LoginIInv, [LoginNext]_loginVars, NEW c \in Clients
             PROVE  IF fails'[c].left = 0
                    THEN fails'[c].n <= Paid(opened'[c])
                    ELSE fails'[c].n + Cardinality(Past(c)') <= Paid(opened'[c] + 1)
  BY DEF Counted, Paid, NH
<1> DEFINE Goal == IF fails'[c].left = 0
                   THEN fails'[c].n <= Paid(opened'[c])
                   ELSE fails'[c].n + Cardinality(Past(c)') <= Paid(opened'[c] + 1)
<1>0. /\ LoginTypeOK /\ Records /\ LoginTypeOK' /\ Records'
      /\ fails[c].n \in 0 .. Cap /\ fails[c].left \in 0 .. Window /\ opened[c] \in 0 .. Cap
      /\ fails[c] \in FailRecord
      /\ fails'[c].n \in 0 .. Cap /\ fails'[c].left \in 0 .. Window /\ opened'[c] \in 0 .. Cap
      /\ IF fails[c].left = 0
         THEN fails[c].n <= Paid(opened[c])
         ELSE fails[c].n + Cardinality(Past(c)) <= Paid(opened[c] + 1)
  BY LoginTypeStep, RecordsStep DEF LoginIInv, LoginTypeOK, Counted, FailRecord
<1>a. Cardinality(Past(c)) \in 0 .. NH /\ NH \in Nat
  BY PastCounted, LoginConstants
<1>b. /\ Paid(0) = Threshold - 1 /\ Threshold \in Nat \ {0} /\ Cap \in Nat \ {0}
      /\ \A o \in Nat : /\ Paid(o) \in Int /\ Paid(o) >= Threshold - 1
                        /\ Paid(o + 1) = Paid(o) + NH
  BY PaidFor, LoginConstants
<1>d. opened[c] \in 0 .. Cap /\ opened[c] \in Nat /\ Cap \in Nat
  BY <1>0, LoginConstants
<1>c. NoRecord.n = 0 /\ NoRecord.left = 0
  BY DEF NoRecord
<1> SUFFICES Goal
  OBVIOUS
<1> HIDE DEF Goal
<1>1. CASE UNCHANGED <<fails, opened, at, ip>>
  <2>1. Past(c)' = Past(c)
    BY <1>1 DEF Past
  <2> QED
    BY <1>0, <1>1, <2>1 DEF Goal
<1>2. CASE fails'[c].n = 0
  BY <1>0, <1>2, <1>b DEF Goal, Records
<1>3. CASE Tick /\ fails[c].n # 0
  <2>1. /\ Past(c)' = Past(c)
        /\ fails'[c] = [fails[c] EXCEPT !.left = IF @ = 0 THEN 0 ELSE @ - 1,
                                        !.age = Smaller(@ + 1, Window + 1)]
        /\ opened'[c] = IF fails[c].left = 1 THEN Smaller(opened[c] + 1, Cap) ELSE opened[c]
    BY <1>3 DEF Tick, request, Past
  <2>2. /\ fails'[c].n = fails[c].n
        /\ fails'[c].left = IF fails[c].left = 0 THEN 0 ELSE fails[c].left - 1
    BY <1>0, <2>1 DEF FailRecord
  <2>3. CASE fails[c].left # 1
    BY <1>0, <2>1, <2>2, <2>3 DEF Goal
  <2>4. CASE fails[c].left = 1 /\ opened[c] < Cap
    <3>1. opened'[c] = opened[c] + 1
      BY <1>0, <2>1, <2>4, <1>b DEF Smaller
    <3> QED
      BY <1>0, <1>a, <1>b, <2>2, <2>4, <3>1 DEF Goal
  <2>5. CASE fails[c].left = 1 /\ opened[c] = Cap
    <3>1. opened'[c] = Cap
      BY <1>0, <2>1, <2>5, <1>b DEF Smaller
    <3>2. NH > 0 => Paid(Cap) >= Cap
      BY PaidFor, <1>b
    <3>3. NH = 0 => Paid(Cap + 1) = Threshold - 1
      BY PaidFor, <1>b
    <3> QED
      BY <1>0, <1>a, <1>b, <2>2, <2>5, <3>1, <3>2, <3>3 DEF Goal
  <2>6. opened[c] < Cap \/ opened[c] = Cap
    BY <1>d
  <2> QED
    BY <2>3, <2>4, <2>5, <2>6
<1>4. CASE Tick \/ Restart
  BY <1>2, <1>3, <1>4, <1>c DEF Tick, Restart
<1>5. ASSUME NEW h \in Handlers, ServeHTTP(h) PROVE Goal
  <2>1. PICK k \in Clients : ip' = [ip EXCEPT ![h] = k]
    BY <1>5 DEF ServeHTTP
  <2>2. ip' = [ip EXCEPT ![h] = ip'[h]] /\ at' = [at EXCEPT ![h] = "asked"]
    BY <1>0, <1>5, <2>1 DEF ServeHTTP, LoginTypeOK
  <2>3. Cardinality(Past(c)') <= Cardinality(Past(c)) /\ Cardinality(Past(c)') \in 0 .. NH
    BY <1>0, <2>2, PastMoves
  <2> QED
    BY <1>0, <1>5, <1>a, <1>b, <2>3 DEF ServeHTTP, Goal
<1>6. ASSUME NEW h \in Handlers, Refuse(h) PROVE Goal
  <2>1. ip' = [ip EXCEPT ![h] = ip'[h]] /\ at' = [at EXCEPT ![h] = "idle"]
    BY <1>0, <1>6 DEF Refuse, Answered, LoginTypeOK
  <2>2. Cardinality(Past(c)') <= Cardinality(Past(c)) /\ Cardinality(Past(c)') \in 0 .. NH
    BY <1>0, <2>1, PastMoves
  <2> QED
    BY <1>0, <1>6, <1>a, <1>b, <2>2 DEF Refuse, BlockedEffect, Goal
<1>7. ASSUME NEW h \in Handlers, Admit(h) PROVE Goal
  <2>1. ip' = [ip EXCEPT ![h] = ip'[h]] /\ at' = [at EXCEPT ![h] = "compare"] /\ ip'[h] = ip[h]
    BY <1>0, <1>7 DEF Admit, LoginTypeOK
  <2>2. CASE ip[h] = c
    BY <1>0, <1>7, <2>2 DEF Admit, Blocked, Goal
  <2>3. CASE ip[h] # c
    <3>1. Cardinality(Past(c)') = Cardinality(Past(c))
      BY <1>0, <2>1, <2>3, PastMoves
    <3> QED
      BY <1>0, <1>7, <3>1 DEF Admit, Goal
  <2> QED
    BY <2>2, <2>3
<1>8. ASSUME NEW h \in Handlers, LoginFails(h) PROVE Goal
  <2>1. /\ at[h] = "compare" /\ ip[h] \in Clients /\ fail(ip[h])
        /\ ip' = [ip EXCEPT ![h] = ip'[h]] /\ at' = [at EXCEPT ![h] = "idle"] /\ ip'[h] = ip[h]
    BY <1>0, <1>8 DEF LoginFails, Answered, LoginTypeOK
  <2>2. opened'[c] = IF fails'[c].n = 0 \/ (c = ip[h] /\ Idle(fails[c])) THEN 0 ELSE opened[c]
    BY <2>1 DEF fail
  <2>3. CASE c = ip[h]
    <3>1. Cardinality(Past(c)') = Cardinality(Past(c)) - 1 /\ Cardinality(Past(c)') \in 0 .. NH
      BY <1>0, <2>1, <2>3, PastMoves
    <3>2. /\ fails'[c].n >= 1
          /\ fails'[c].n <= (IF Idle(fails[c]) THEN 0 ELSE fails[c].n) + 1
          /\ fails'[c].n >= Threshold => fails'[c].left >= 1
          /\ fails'[c].n < Threshold =>
               fails'[c].left = IF Idle(fails[c]) THEN 0 ELSE fails[c].left
      <4>1. fails'[c] = Bumped(fails[c])
        BY <1>0, <2>1, <2>3, FailEffect
      <4> QED
        BY <1>0, <4>1, BumpedRecord DEF Records
    <3>3. CASE Idle(fails[c])
      <4>1. opened'[c] = 0 /\ fails'[c].n <= 1 /\ Paid(0 + 1) = Paid(0) + NH
        BY <1>0, <1>b, <2>2, <2>3, <3>2, <3>3
      <4>2. CASE fails'[c].n < Threshold
        BY <1>0, <1>b, <3>2, <3>3, <4>1, <4>2 DEF Goal
      <4>3. CASE fails'[c].n >= Threshold
        <5>1. fails'[c].n + Cardinality(Past(c)') <= 0 + NH /\ Threshold - 1 = 0
          BY <1>0, <1>a, <1>b, <3>1, <3>2, <4>1, <4>3, SMTT(30)
        <5> QED
          BY <1>0, <1>a, <1>b, <3>2, <4>1, <4>3, <5>1, SMTT(30) DEF Goal
      <4> QED
        BY <1>0, <1>b, <4>2, <4>3
    <3>4. CASE ~Idle(fails[c])
      <4>1. opened'[c] = opened[c] /\ fails'[c].n <= fails[c].n + 1
        BY <1>0, <2>2, <2>3, <3>2, <3>4
      <4>2. /\ Paid(opened[c]) \in Int /\ Paid(opened[c]) >= Threshold - 1
            /\ Paid(opened[c] + 1) = Paid(opened[c]) + NH
        BY <1>0, <1>b
      <4> QED
        BY <1>0, <1>a, <1>b, <3>1, <3>2, <3>4, <4>1, <4>2 DEF Goal
    <3> QED
      BY <3>3, <3>4
  <2>4. CASE c # ip[h] /\ fails'[c].n # 0
    <3>1. Cardinality(Past(c)') = Cardinality(Past(c))
      BY <1>0, <2>1, <2>4, PastMoves
    <3>2. fails'[c] = fails[c] /\ opened'[c] = opened[c]
      BY <1>0, <1>c, <2>1, <2>2, <2>4, FailEffect
    <3> QED
      BY <1>0, <3>1, <3>2 DEF Goal
  <2>5. CASE fails'[c].n = 0
    BY <1>2, <2>5
  <2> QED
    BY <2>3, <2>4, <2>5
<1>9. ASSUME NEW h \in Handlers, LoginSucceeds(h) PROVE Goal
  <2>1. /\ ip' = [ip EXCEPT ![h] = ip'[h]] /\ at' = [at EXCEPT ![h] = "idle"]
        /\ ip'[h] = ip[h] /\ ok(ip[h])
    BY <1>0, <1>9 DEF LoginSucceeds, Answered, LoginTypeOK
  <2>2. CASE c = ip[h]
    <3>1. fails'[c] = NoRecord
      BY <1>0, <2>1, <2>2 DEF ok, LoginTypeOK
    <3> QED
      BY <1>2, <1>c, <3>1
  <2>3. CASE c # ip[h]
    <3>1. Cardinality(Past(c)') = Cardinality(Past(c))
      BY <1>0, <2>1, <2>3, PastMoves
    <3>2. fails'[c] = fails[c] /\ opened'[c] = opened[c]
      BY <1>0, <2>1, <2>3 DEF ok, LoginTypeOK
    <3> QED
      BY <1>0, <3>1, <3>2 DEF Goal
  <2> QED
    BY <2>2, <2>3
<1>10. CASE ReloadHash \/ Expire \/ UNCHANGED loginVars
  BY <1>1, <1>10 DEF ReloadHash, Expire, request, loginVars
<1> QED
  BY <1>4, <1>5, <1>6, <1>7, <1>8, <1>9, <1>10 DEF LoginNext, handleLogin

-----------------------------------------------------------------------------
\* The inductive invariant holds.
LEMMA LoginInvariant == LoginSpec => []LoginIInv
<1>1. LoginIInv /\ [LoginNext]_loginVars => LoginIInv'
  BY LoginTypeStep, RecordsStep, SignedStep, CountedStep DEF LoginIInv
<1> QED
  BY LoginStart, <1>1, PTL DEF LoginSpec

(***************************************************************************)
(* States stay well formed; no lock is longer than throttleWindow.         *)
(***************************************************************************)
THEOREM LoginTypeCorrect == LoginSpec => []LoginTypeOK
<1>1. LoginIInv => LoginTypeOK
  BY DEF LoginIInv
<1> QED
  BY LoginInvariant, <1>1, PTL

(***************************************************************************)
(* A session that parseSession lets in was opened with the current         *)
(* password, across reloads and restarts.                                  *)
(***************************************************************************)
THEOREM SessionsDieWithPassword == LoginSpec => []SessionsKnowPassword
<1>1. LoginIInv => SessionsKnowPassword
  BY DEF LoginIInv, SessionsSigned, SessionsKnowPassword, Valid
<1> QED
  BY LoginInvariant, <1>1, PTL

(***************************************************************************)
(* However many failures there are, each further batch of one per handler  *)
(* costs the client a lock.                                                *)
(***************************************************************************)
THEOREM GuessingIsSlow == LoginSpec => []GuessesBounded
<1>1. LoginIInv => GuessesBounded
  <2> SUFFICES ASSUME LoginIInv, NEW c \in Clients
               PROVE  fails[c].n <= Threshold - 1 + Cardinality(Handlers) * (1 + opened[c])
    BY DEF GuessesBounded
  <2>1. /\ fails[c].n \in 0 .. Cap /\ opened[c] \in Nat
        /\ Cardinality(Past(c)) \in 0 .. NH /\ NH \in Nat
    BY PastCounted, LoginConstants DEF LoginIInv, LoginTypeOK
  <2>2. Paid(opened[c]) \in Int /\ Paid(opened[c] + 1) = Paid(opened[c]) + NH
    BY <2>1, PaidFor
  <2>3. fails[c].n <= Paid(opened[c] + 1)
    BY <2>1, <2>2 DEF LoginIInv, Counted
  <2>4. opened[c] + 1 = 1 + opened[c]
    BY <2>1
  <2> QED
    BY <2>3, <2>4 DEF Paid, NH
<1> QED
  BY LoginInvariant, <1>1, PTL
=============================================================================
