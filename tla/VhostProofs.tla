---------------------------- MODULE VhostProofs ----------------------------
(***************************************************************************)
(* Proofs about the vhosts: their fragments, for any number of hosts,      *)
(* writers and hand edits, and their certificates, for any number of       *)
(* handshakes, names, renewals and reloads.                                *)
(***************************************************************************)
EXTENDS VhostMut, Certs, TLAPS

(***************************************************************************)
(* VhostMut.  What a writer found when it looked stays true until it       *)
(* writes, unless the operator edits that file: other writers write single *)
(* vhosts, each to the file of its own name.                               *)
(***************************************************************************)

\* What ownership found still holds.
Found ==
  \A w \in Writers :
    /\ at[w] = "temp" => op[w] = "set"
    /\ at[w] = "base" /\ ~conflict[w] /\ Base \notin disturbed[w] =>
         host[w] \notin Defined(file[Base])
    /\ at[w] \in {"checked", "temp"} /\ host[w] \notin disturbed[w] =>
         Defined(file[host[w]]) \subseteq {host[w]}
    /\ at[w] \in {"checked", "temp"} /\ op[w] = "set" =>
         \A n \in Files \ ({host[w]} \union disturbed[w]) : host[w] \notin Defined(file[n])

IInv == TypeOK /\ Found

-----------------------------------------------------------------------------
\* What goddns writes defines one host, and an absent file none.
LEMMA Written ==
  ASSUME NEW h \in Hosts, NEW r \in Rules
  PROVE  /\ Rendered(h, r) \in Text /\ Rendered(h, r).state = "ok"
         /\ Defined(Rendered(h, r)) = {h}
         /\ \A g \in Hosts \ {h} : Rendered(h, r).rules[g] = NoRule
         /\ Absent \in Text /\ Absent.state = "absent" /\ Absent.rules = NoRules
         /\ Defined(Absent) = {} /\ \A g \in Hosts : Absent.rules[g] = NoRule
BY VhostAssumption DEF Rendered, Absent, NoRules, Text, Defined

\* Initially nobody has looked.
LEMMA Start == Init => IInv
<1> SUFFICES ASSUME Init PROVE IInv
  OBVIOUS
<1>1. PICK t \in HandTexts : t.state = "ok" /\ file = [n \in Files |-> IF n = Base THEN t ELSE Absent]
  BY DEF Init
<1>2. t \in Text /\ Absent \in Text /\ Absent.rules = NoRules
  BY VhostAssumption DEF Absent, NoRules, Text
<1>3. file \in [Files -> Text] /\ \A n \in Files : file[n].state # "ok" => file[n].rules = NoRules
  BY <1>1, <1>2
<1> QED
  BY <1>3, VhostAssumption DEF Init, IInv, TypeOK, Found

\* The type invariant is inductive.
LEMMA TypeStep == TypeOK /\ [Next]_vars => TypeOK'
<1> SUFFICES ASSUME TypeOK, [Next]_vars PROVE TypeOK'
  OBVIOUS
<1>1. ASSUME NEW w \in Writers, Ask(w) PROVE TypeOK'
  BY <1>1, VhostAssumption DEF Ask, TypeOK
<1>2. ASSUME NEW w \in Writers, ReadBase(w) PROVE TypeOK'
  BY <1>2 DEF ReadBase, TypeOK, jobVars
<1>3. ASSUME NEW w \in Writers, ReadFragments(w) PROVE TypeOK'
  BY <1>3 DEF ReadFragments, TypeOK, jobVars
<1>4. ASSUME NEW w \in Writers, WriteTemp(w) PROVE TypeOK'
  BY <1>4 DEF WriteTemp, TypeOK, jobVars
<1>5. ASSUME NEW w \in Writers, Rename(w) PROVE TypeOK'
  <2>1. host[w] \in Hosts /\ rule[w] \in Rules /\ host[w] \in Files
    BY DEF TypeOK, Files
  <2>2. Rendered(host[w], rule[w]) \in Text /\ Rendered(host[w], rule[w]).state = "ok"
    BY <2>1, Written
  <2>3. file' \in [Files -> Text] /\ \A n \in Files : file'[n].state # "ok" => file'[n].rules = NoRules
    BY <1>5, <2>1, <2>2 DEF Rename, TypeOK
  <2> QED
    BY <1>5, <2>3 DEF Rename, Idle, TypeOK, jobVars
<1>6. ASSUME NEW w \in Writers, Unlink(w) PROVE TypeOK'
  <2>1. host[w] \in Files /\ Absent \in Text /\ Absent.rules = NoRules
    BY VhostAssumption DEF TypeOK, Files, Absent, NoRules, Text
  <2>2. file' \in [Files -> Text] /\ \A n \in Files : file'[n].state # "ok" => file'[n].rules = NoRules
    BY <1>6, <2>1 DEF Unlink, TypeOK
  <2> QED
    BY <1>6, <2>2 DEF Unlink, Idle, TypeOK, jobVars
<1>7. ASSUME NEW w \in Writers, Fail(w) PROVE TypeOK'
  BY <1>7 DEF Fail, Idle, TypeOK, jobVars
<1>8. ASSUME NEW n \in Files, Hand(n) PROVE TypeOK'
  <2>1. PICK t \in HandTexts : file' = [file EXCEPT ![n] = t]
    BY <1>8 DEF Hand
  <2>2. file' \in [Files -> Text] /\ \A m \in Files : file'[m].state # "ok" => file'[m].rules = NoRules
    BY <2>1, VhostAssumption DEF TypeOK
  <2> QED
    BY <1>8, <2>2, VhostAssumption DEF Hand, TypeOK, jobVars
<1>9. CASE UNCHANGED vars
  BY <1>9 DEF vars, TypeOK, jobVars
<1> QED
  BY <1>1, <1>2, <1>3, <1>4, <1>5, <1>6, <1>7, <1>8, <1>9 DEF Next, Writer

\* Nobody but the operator makes untrue what a writer found.
LEMMA FoundStep == IInv /\ [Next]_vars => Found'
<1> SUFFICES ASSUME IInv, [Next]_vars PROVE Found'
  OBVIOUS
<1> USE DEF IInv
<1>0. \A w \in Writers : host[w] \in Hosts /\ host[w] \in Files /\ rule[w] \in Rules /\ host[w] # Base
  BY VhostAssumption DEF TypeOK, Files
<1>1. ASSUME NEW w \in Writers, Ask(w) PROVE Found'
  BY <1>1 DEF Ask, TypeOK, Found
<1>2. ASSUME NEW w \in Writers, ReadBase(w) PROVE Found'
  BY <1>2 DEF ReadBase, TypeOK, Found, jobVars
<1>3. ASSUME NEW w \in Writers, ReadFragments(w) PROVE Found'
  <2>1. /\ file' = file /\ op' = op /\ host' = host /\ conflict' = conflict
        /\ disturbed' = [disturbed EXCEPT ![w] = disturbed[w] \intersect {Base}]
        /\ disturbed \in [Writers -> SUBSET Files]
        /\ at' = [at EXCEPT ![w] = "checked"] /\ at[w] = "base"
        /\ at \in [Writers -> {"idle", "asked", "base", "checked", "temp"}]
    BY <1>3 DEF ReadFragments, jobVars, TypeOK
  <2>2. Defined(file[host[w]]) \subseteq {host[w]}
    <3>1. CASE file[host[w]].state # "ok"
      BY <3>1, <1>0 DEF TypeOK, NoRules, Defined
    <3>2. CASE file[host[w]].state = "ok"
      BY <3>2, <1>3 DEF ReadFragments, Elsewhere, Managed
    <3> QED
      BY <3>1, <3>2
  <2>3. op[w] = "set" => \A n \in Files \ ({host[w]} \union disturbed'[w]) : host[w] \notin Defined(file[n])
    BY <1>3, <2>1 DEF ReadFragments, Elsewhere, Found
  <2> QED
    BY <2>1, <2>2, <2>3 DEF Found
<1>4. ASSUME NEW w \in Writers, WriteTemp(w) PROVE Found'
  BY <1>4 DEF WriteTemp, TypeOK, Found, jobVars
<1>5. ASSUME NEW v \in Writers, file' = [file EXCEPT ![host[v]] = Rendered(host[v], rule[v])]
                                \/ file' = [file EXCEPT ![host[v]] = Absent],
             at' = [at EXCEPT ![v] = "idle"], UNCHANGED <<jobVars, conflict, disturbed>>
      PROVE  Found'
  <2>1. Defined(file'[host[v]]) \subseteq {host[v]}
    BY <1>0, <1>5, Written DEF TypeOK
  <2>2. \A n \in Files \ {host[v]} : file'[n] = file[n]
    BY <1>5 DEF TypeOK
  <2>3. at \in [Writers -> {"idle", "asked", "base", "checked", "temp"}] /\ op' = op /\ host' = host
    BY <1>5 DEF TypeOK, jobVars
  <2>4. ASSUME NEW w \in Writers, at'[w] \in {"base", "checked", "temp"}
        PROVE  /\ at'[w] = at[w]
               /\ host[w] \notin Defined(file[Base]) => host[w] \notin Defined(file'[Base])
               /\ Defined(file[host[w]]) \subseteq {host[w]} => Defined(file'[host[w]]) \subseteq {host[w]}
               /\ \A n \in Files \ {host[w]} : host[w] \notin Defined(file[n]) => host[w] \notin Defined(file'[n])
    <3>1. at'[w] = at[w]
      BY <1>5, <2>3, <2>4
    <3>2. file'[Base] = file[Base]
      BY <2>2, <1>0 DEF Files
    <3>3. Defined(file[host[w]]) \subseteq {host[w]} => Defined(file'[host[w]]) \subseteq {host[w]}
      BY <2>1, <2>2, <1>0
    <3>4. \A n \in Files \ {host[w]} : host[w] \notin Defined(file[n]) => host[w] \notin Defined(file'[n])
      BY <2>1, <2>2, <1>0
    <3> QED
      BY <3>1, <3>2, <3>3, <3>4
  <2>5. \A w \in Writers : at'[w] = "temp" => op'[w] = "set"
    BY <1>5, <2>3 DEF Found
  <2>6. conflict' = conflict /\ disturbed' = disturbed
    BY <1>5
  <2> QED
    BY <2>3, <2>4, <2>5, <2>6 DEF Found
<1>6. ASSUME NEW w \in Writers, Rename(w) \/ Unlink(w) PROVE Found'
  BY <1>5, <1>6 DEF Rename, Unlink, Idle
<1>7. ASSUME NEW w \in Writers, Fail(w) PROVE Found'
  BY <1>7 DEF Fail, Idle, TypeOK, Found, jobVars
<1>8. ASSUME NEW n \in Files, Hand(n) PROVE Found'
  <2>1. /\ at' = at /\ op' = op /\ host' = host /\ conflict' = conflict
        /\ \A w \in Writers : disturbed'[w] = disturbed[w] \union {n}
        /\ \A m \in Files \ {n} : file'[m] = file[m]
    BY <1>8 DEF Hand, jobVars, TypeOK
  <2> QED
    BY <2>1, <1>0 DEF Found, Files
<1>9. CASE UNCHANGED vars
  BY <1>9 DEF vars, Found, jobVars
<1> QED
  BY <1>1, <1>2, <1>3, <1>4, <1>6, <1>7, <1>8, <1>9 DEF Next, Writer

\* The invariant holds throughout.
LEMMA Invariance == Spec => []IInv
<1>1. IInv /\ [Next]_vars => IInv'
  BY TypeStep, FoundStep DEF IInv
<1> QED
  BY <1>1, Start, PTL DEF Spec

\* Type correctness of the vhost editors (vhostmut.go:60-225).
THEOREM TypeCorrect == Spec => []TypeOK
<1>1. IInv => TypeOK
  BY DEF IInv
<1> QED
  BY <1>1, Invariance, PTL

-----------------------------------------------------------------------------
\* The steps of a writer that change a file.
LEMMA Change ==
  ASSUME IInv, Next, NEW w \in Writers, at'[w] # at[w], file' # file
  PROVE  Rename(w) \/ Unlink(w)
<1>1. ASSUME NEW v \in Writers, v # w, Writer(v) PROVE FALSE
  BY <1>1 DEF Writer, Ask, ReadBase, ReadFragments, WriteTemp, Rename, Unlink, Fail, Idle, IInv, TypeOK
<1>2. ASSUME NEW n \in Files, Hand(n) PROVE FALSE
  BY <1>2 DEF Hand
<1>3. Writer(w)
  BY <1>1, <1>2 DEF Next
<1> QED
  BY <1>3 DEF Writer, Ask, ReadBase, ReadFragments, WriteTemp, Fail

\* What such a step leaves in the files.
LEMMA Effect ==
  ASSUME IInv, NEW w \in Writers, Rename(w) \/ Unlink(w)
  PROVE  /\ host[w] \in Hosts /\ host[w] # Base /\ host[w] \in Files
         /\ \A n \in Files \ {host[w]} : file'[n] = file[n]
         /\ file'[host[w]].state # "bad"
         /\ Defined(file'[host[w]]) \subseteq {host[w]}
         /\ host[w] \notin disturbed[w] => \A g \in Hosts \ {host[w]} :
              file'[host[w]].rules[g] = NoRule /\ file[host[w]].rules[g] = NoRule
         /\ Rename(w) <=> op[w] = "set"
         /\ op[w] = "set" =>
              /\ Defined(file'[host[w]]) = {host[w]}
              /\ \A n \in Files \ ({host[w]} \union disturbed[w]) : host[w] \notin Defined(file[n])
         /\ op[w] = "remove" => Defined(file'[host[w]]) = {}
<1>1. /\ host[w] \in Hosts /\ host[w] # Base /\ host[w] \in Files /\ rule[w] \in Rules
      /\ file \in [Files -> Text] /\ op[w] \in {"set", "remove"}
  BY VhostAssumption DEF IInv, TypeOK, Files
<1>2. at[w] \in {"checked", "temp"} /\ (Rename(w) <=> op[w] = "set")
  BY DEF IInv, Found, Rename, Unlink
<1>3. file' = [file EXCEPT ![host[w]] = IF op[w] = "set" THEN Rendered(host[w], rule[w]) ELSE Absent]
  BY <1>2 DEF Rename, Unlink
<1>4. host[w] \notin disturbed[w] => Defined(file[host[w]]) \subseteq {host[w]}
  BY <1>2 DEF IInv, Found
<1>5. op[w] = "set" => \A n \in Files \ ({host[w]} \union disturbed[w]) : host[w] \notin Defined(file[n])
  BY <1>2 DEF IInv, Found
<1>6. host[w] \notin disturbed[w] => \A g \in Hosts \ {host[w]} : file[host[w]].rules[g] = NoRule
  BY <1>4 DEF Defined
<1>7. CASE op[w] = "set"
  <2>1. file'[host[w]] = Rendered(host[w], rule[w])
    BY <1>1, <1>3, <1>7
  <2> QED
    BY <2>1, <1>1, <1>2, <1>3, <1>5, <1>6, <1>7, Written
<1>8. CASE op[w] = "remove"
  <2>1. file'[host[w]] = Absent
    BY <1>1, <1>3, <1>8
  <2> QED
    BY <2>1, <1>1, <1>2, <1>3, <1>6, <1>8, Written
<1> QED
  BY <1>1, <1>7, <1>8

\* Set and Remove change their own host's rule and nobody else's
\* (vhostmut.go:1-7, 176-221).
THEOREM EditsOwnRulesOnly == Spec => OwnRulesOnly
<1> DEFINE Own == \A w \in Writers : Wrote(w) /\ host[w] \notin disturbed[w] =>
                    /\ file'[Base] = file[Base]
                    /\ \A n \in Files : \A h \in Hosts \ {host[w]} :
                         file'[n].rules[h] = file[n].rules[h]
<1>1. IInv /\ [Next]_vars => [Own]_vars
  <2> SUFFICES ASSUME IInv, Next, NEW w \in Writers, Wrote(w), host[w] \notin disturbed[w]
               PROVE  /\ file'[Base] = file[Base]
                      /\ \A n \in Files : \A h \in Hosts \ {host[w]} :
                           file'[n].rules[h] = file[n].rules[h]
    OBVIOUS
  <2>1. Rename(w) \/ Unlink(w)
    BY Change DEF Wrote
  <2>2. /\ host[w] # Base /\ \A n \in Files \ {host[w]} : file'[n] = file[n]
        /\ \A g \in Hosts \ {host[w]} :
             file'[host[w]].rules[g] = NoRule /\ file[host[w]].rules[g] = NoRule
    BY <2>1, Effect DEF Wrote
  <2> QED
    BY <2>2 DEF Files
<1> QED
  BY <1>1, Invariance, PTL DEF Spec, OwnRulesOnly

\* goddns's own steps keep the configuration loadable (vhostmut.go:60-62).
THEOREM KeepsLoadable == Spec => StaysLoadable
<1> DEFINE Keeps == Loads(file) /\ (\E w \in Writers : MayWrite(w)) => Loads(file')
<1>1. IInv /\ [Next]_vars => [Keeps]_vars
  <2> SUFFICES ASSUME IInv, Next, Loads(file), NEW w \in Writers, at'[w] # at[w], host[w] # AdminHost,
                      disturbed[w] \subseteq {host[w]}, file' # file
               PROVE  Loads(file')
    BY DEF MayWrite
  <2>1. Rename(w) \/ Unlink(w)
    BY Change
  <2>2. /\ host[w] # Base /\ host[w] \in Files /\ \A n \in Files \ {host[w]} : file'[n] = file[n]
        /\ file'[host[w]].state # "bad" /\ Defined(file'[host[w]]) \subseteq {host[w]}
        /\ \/ Defined(file'[host[w]]) = {}
           \/ \A n \in Files \ {host[w]} : host[w] \notin Defined(file[n])
    BY <2>1, Effect DEF IInv, TypeOK
  <2>3. file'[Base].state = "ok"
    BY <2>2 DEF Loads, Files
  <2>4. \A n \in Files : file'[n].state # "bad" /\ AdminHost \notin Defined(file'[n])
    BY <2>2 DEF Loads
  <2>5. \A n, m \in Files : n # m => Defined(file'[n]) \intersect Defined(file'[m]) = {}
    BY <2>2 DEF Loads
  <2> QED
    BY <2>3, <2>4, <2>5 DEF Loads
<1> QED
  BY <1>1, Invariance, PTL DEF Spec, StaysLoadable

\* A Set defines its host once, in the file goddns owns (vhostmut.go:176-221).
THEOREM SetLeavesOwned == Spec => SetIsOwned
<1> DEFINE Owned == \A w \in Writers : Wrote(w) /\ op[w] = "set" =>
             /\ Defined(file'[host[w]]) = {host[w]}
             /\ \A n \in Files \ ({host[w]} \union disturbed[w]) : host[w] \notin Defined(file'[n])
<1>1. IInv /\ [Next]_vars => [Owned]_vars
  <2> SUFFICES ASSUME IInv, Next, NEW w \in Writers, Wrote(w), op[w] = "set"
               PROVE  /\ Defined(file'[host[w]]) = {host[w]}
                      /\ \A n \in Files \ ({host[w]} \union disturbed[w]) :
                           host[w] \notin Defined(file'[n])
    OBVIOUS
  <2>1. Rename(w) \/ Unlink(w)
    BY Change DEF Wrote
  <2>2. /\ \A n \in Files \ {host[w]} : file'[n] = file[n]
        /\ \A n \in Files \ ({host[w]} \union disturbed[w]) : host[w] \notin Defined(file[n])
        /\ Defined(file'[host[w]]) = {host[w]}
    BY <2>1, Effect DEF Wrote
  <2> QED
    BY <2>2
<1> QED
  BY <1>1, Invariance, PTL DEF Spec, SetIsOwned

-----------------------------------------------------------------------------
(***************************************************************************)
(* Certs.  The mtime kept with a pair tells whether it is the one on disk, *)
(* unless a certificate was written while a load was between reading it    *)
(* and its mtime; so a handshake that nothing disturbs has the pair on     *)
(* disk when it looks for a match.                                         *)
(***************************************************************************)

\* Between the two looks of a load at the certificate file.
Reading == {"key", "stat"}

\* As long as no certificate was written between a load's two looks at the
\* file, what is kept or about to be kept is filed under its own mtime.
Filed ==
  /\ mtime = cert
  /\ ~raced =>
       /\ modTime = mem /\ mem <= cert
       /\ \A p \in Procs : stage[p] \in Reading => gotCert[p] = cert
       /\ \A p \in Procs :
            stage[p] = "store" => gotTime[p] = gotCert[p] /\ gotCert[p] <= cert

\* What a handshake that is left alone can rely on.
Undisturbed ==
  \A h \in Handshakes : fresh[h] =>
    /\ have /\ cert = key /\ cert >= expired /\ now[h] = expired
    /\ \A p \in Procs : stage[p] \in Reading \union {"store"} => gotCert[p] = cert
    /\ ~raced /\ stage[h] = "pick" => mem = cert
    /\ ~raced /\ stage[h] = "acme" => name[h] \notin Covered

CertsIInv == CertsTypeOK /\ Filed /\ Undisturbed

\* Initially nothing is loaded.
LEMMA CertsStart == CertsInit => CertsIInv
<1> SUFFICES ASSUME CertsInit PROVE CertsIInv
  OBVIOUS
<1>0. Handshakes \subseteq Procs /\ 0 \in Gen
  BY CertsAssumption DEF Procs, Gen
<1>1. CertsTypeOK
  <2>1. /\ stage \in [Procs -> Loading \union {"idle", "begun", "pick", "acme"}]
        /\ goal \in [Procs -> {"match", "last"}] /\ fresh \in [Procs -> BOOLEAN]
        /\ name \in [Procs -> Names \union {Blank}] /\ now \in [Procs -> Gen]
        /\ gotCert \in [Procs -> Gen] /\ gotTime \in [Procs -> Gen]
    BY <1>0 DEF CertsInit, Loading
  <2>2. allow \subseteq Names /\ ordered \subseteq Names /\ reloads \in 0 .. MaxReloads
    BY CertsAssumption DEF CertsInit
  <2> QED
    BY <1>0, <2>1, <2>2 DEF CertsInit, CertsTypeOK
<1>2. Filed /\ Undisturbed
  BY <1>0 DEF CertsInit, Filed, Undisturbed, Reading
<1> QED
  BY <1>1, <1>2 DEF CertsIInv

\* The type invariant is preserved, since certificate and mtime go together.
LEMMA CertsTypeStep == CertsTypeOK /\ Filed /\ [CertsNext]_certsVars => CertsTypeOK'
<1> SUFFICES ASSUME CertsTypeOK, Filed, [CertsNext]_certsVars PROVE CertsTypeOK'
  OBVIOUS
<1> USE DEF CertsTypeOK, Gen, Loading,
            disk, memory, hello, got
<1>0. Handshakes \subseteq Procs /\ 0 \in Gen
  BY CertsAssumption DEF Procs, Gen
<1>1. CASE WriteCert
  BY <1>0, <1>1, CertsAssumption DEF WriteCert, Filed
<1>2. CASE WriteKey
  BY <1>0, <1>2, CertsAssumption DEF WriteKey
<1>3. CASE Expire
  BY <1>0, <1>3, CertsAssumption DEF Expire
<1>4. CASE SetAllowed
  BY <1>0, <1>4, CertsAssumption DEF SetAllowed
<1>5. ASSUME NEW p \in Procs, ReadCert(p) PROVE CertsTypeOK'
  BY <1>0, <1>5 DEF ReadCert, Goes
<1>6. ASSUME NEW p \in Procs, ReadKey(p) PROVE CertsTypeOK'
  BY <1>0, <1>6 DEF ReadKey, Goes
<1>7. ASSUME NEW p \in Procs, ReadWrongKey(p) PROVE CertsTypeOK'
  BY <1>0, <1>7 DEF ReadWrongKey, LoadFailed, Goes
<1>8. ASSUME NEW p \in Procs, Stat(p) PROVE CertsTypeOK'
  BY <1>0, <1>8 DEF Stat, Goes
<1>9. ASSUME NEW p \in Procs, Store(p) PROVE CertsTypeOK'
  BY <1>0, <1>9 DEF Store, Goes
<1>10. ASSUME NEW h \in Handshakes, Begin(h) PROVE CertsTypeOK'
  BY <1>0, <1>10 DEF Begin, Wants, Goes
<1>11. ASSUME NEW h \in Handshakes, reloadIfStale(h) PROVE CertsTypeOK'
  BY <1>0, <1>11 DEF reloadIfStale, Stale, Goes
<1>12. ASSUME NEW h \in Handshakes, Serve(h) PROVE CertsTypeOK'
  BY <1>0, <1>12 DEF Serve, Answered, Matches, Goes
<1>13. ASSUME NEW h \in Handshakes, NoMatch(h) PROVE CertsTypeOK'
  BY <1>0, <1>13 DEF NoMatch, Matches, Goes
<1>14. ASSUME NEW h \in Handshakes, Order(h) PROVE CertsTypeOK'
  BY <1>0, <1>14 DEF Order, Answered, Decide, Goes
<1>15. ASSUME NEW h \in Handshakes, OrderFails(h) PROVE CertsTypeOK'
  BY <1>0, <1>15 DEF OrderFails, Goes
<1>16. ASSUME NEW h \in Handshakes, Abort(h) PROVE CertsTypeOK'
  BY <1>0, <1>16 DEF Abort, Answered, Goes
<1>17. CASE UNCHANGED certsVars
  BY <1>17 DEF certsVars
<1> QED
  BY <1>1, <1>2, <1>3, <1>4, <1>5, <1>6, <1>7, <1>8, <1>9, <1>10, <1>11, <1>12,
     <1>13, <1>14, <1>15, <1>16, <1>17
  DEF CertsNext, Environment, Load, Handshake

\* Only a certificate written between two looks files a pair under another mtime.
LEMMA FiledStep == CertsTypeOK /\ Filed /\ [CertsNext]_certsVars => Filed'
<1> SUFFICES ASSUME CertsTypeOK, Filed, [CertsNext]_certsVars PROVE Filed'
  OBVIOUS
<1> USE DEF CertsTypeOK, Filed, Gen, Reading, Loading,
            disk, memory, hello, got
<1>0. Handshakes \subseteq Procs /\ 0 \in Gen
  BY CertsAssumption DEF Procs, Gen
<1>1. CASE WriteCert
  <2>1. /\ cert \in Nat /\ mem \in Nat /\ cert' = cert + 1 /\ mtime' = mtime + 1
        /\ UNCHANGED <<mem, modTime, stage, gotCert, gotTime>>
        /\ \A p \in Procs : gotCert[p] \in Nat
    BY <1>1 DEF WriteCert
  <2>2. ~raced' => ~raced /\ \A p \in Procs : stage[p] \notin Reading
    BY <1>1 DEF WriteCert
  <2> QED
    BY <2>1, <2>2
<1>2. CASE WriteKey
  BY <1>0, <1>2, CertsAssumption DEF WriteKey
<1>3. CASE Expire
  BY <1>0, <1>3, CertsAssumption DEF Expire
<1>4. CASE SetAllowed
  BY <1>0, <1>4, CertsAssumption DEF SetAllowed
<1>5. ASSUME NEW p \in Procs, ReadCert(p) PROVE Filed'
  BY <1>0, <1>5 DEF ReadCert, Goes
<1>6. ASSUME NEW p \in Procs, ReadKey(p) PROVE Filed'
  BY <1>0, <1>6 DEF ReadKey, Goes
<1>7. ASSUME NEW p \in Procs, ReadWrongKey(p) PROVE Filed'
  BY <1>0, <1>7 DEF ReadWrongKey, LoadFailed, Goes
<1>8. ASSUME NEW p \in Procs, Stat(p) PROVE Filed'
  BY <1>0, <1>8 DEF Stat, Goes
<1>9. ASSUME NEW p \in Procs, Store(p) PROVE Filed'
  BY <1>0, <1>9 DEF Store, Goes
<1>10. ASSUME NEW h \in Handshakes, Begin(h) PROVE Filed'
  BY <1>0, <1>10 DEF Begin, Wants, Goes
<1>11. ASSUME NEW h \in Handshakes, reloadIfStale(h) PROVE Filed'
  BY <1>0, <1>11 DEF reloadIfStale, Stale, Goes
<1>12. ASSUME NEW h \in Handshakes, Serve(h) PROVE Filed'
  BY <1>0, <1>12 DEF Serve, Answered, Matches, Goes
<1>13. ASSUME NEW h \in Handshakes, NoMatch(h) PROVE Filed'
  BY <1>0, <1>13 DEF NoMatch, Matches, Goes
<1>14. ASSUME NEW h \in Handshakes, Order(h) PROVE Filed'
  BY <1>0, <1>14 DEF Order, Answered, Goes
<1>15. ASSUME NEW h \in Handshakes, OrderFails(h) PROVE Filed'
  BY <1>0, <1>15 DEF OrderFails, Goes
<1>16. ASSUME NEW h \in Handshakes, Abort(h) PROVE Filed'
  BY <1>0, <1>16 DEF Abort, Answered, Goes
<1>17. CASE UNCHANGED certsVars
  BY <1>17 DEF certsVars
<1> QED
  BY <1>1, <1>2, <1>3, <1>4, <1>5, <1>6, <1>7, <1>8, <1>9, <1>10, <1>11, <1>12,
     <1>13, <1>14, <1>15, <1>16, <1>17
  DEF CertsNext, Environment, Load, Handshake

\* While a handshake is left alone, whatever is stored is the pair on disk, and
\* it never asks ACME for a name that pair covers.
LEMMA UndisturbedStep == CertsIInv /\ [CertsNext]_certsVars => Undisturbed'
<1> SUFFICES ASSUME CertsIInv, [CertsNext]_certsVars PROVE Undisturbed'
  OBVIOUS
<1> USE DEF CertsIInv, CertsTypeOK, Filed, Undisturbed, Gen, Reading, Loading,
            disk, memory, hello, got
<1>0. Handshakes \subseteq Procs /\ 0 \in Gen
  BY CertsAssumption DEF Procs, Gen
<1>1. CASE WriteCert
  BY <1>0, <1>1, CertsAssumption DEF WriteCert
<1>2. CASE WriteKey
  BY <1>0, <1>2, CertsAssumption DEF WriteKey
<1>3. CASE Expire
  BY <1>0, <1>3, CertsAssumption DEF Expire
<1>4. CASE SetAllowed
  BY <1>0, <1>4, CertsAssumption DEF SetAllowed
<1>5. ASSUME NEW p \in Procs, ReadCert(p) PROVE Undisturbed'
  BY <1>0, <1>5 DEF ReadCert, Goes
<1>6. ASSUME NEW p \in Procs, ReadKey(p) PROVE Undisturbed'
  BY <1>0, <1>6 DEF ReadKey, Goes
<1>7. ASSUME NEW p \in Procs, ReadWrongKey(p) PROVE Undisturbed'
  BY <1>0, <1>7 DEF ReadWrongKey, LoadFailed, Goes
<1>8. ASSUME NEW p \in Procs, Stat(p) PROVE Undisturbed'
  BY <1>0, <1>8 DEF Stat, Goes
<1>9. ASSUME NEW p \in Procs, Store(p) PROVE Undisturbed'
  BY <1>0, <1>9 DEF Store, Goes
<1>10. ASSUME NEW h \in Handshakes, Begin(h) PROVE Undisturbed'
  BY <1>0, <1>10 DEF Begin, Wants, Goes
<1>11. ASSUME NEW h \in Handshakes, reloadIfStale(h) PROVE Undisturbed'
  BY <1>0, <1>11 DEF reloadIfStale, Stale, Goes
<1>12. ASSUME NEW h \in Handshakes, Serve(h) PROVE Undisturbed'
  BY <1>0, <1>12 DEF Serve, Answered, Matches, Goes
<1>13. ASSUME NEW h \in Handshakes, NoMatch(h) PROVE Undisturbed'
  BY <1>0, <1>13 DEF NoMatch, Matches, Goes
<1>14. ASSUME NEW h \in Handshakes, Order(h) PROVE Undisturbed'
  BY <1>0, <1>14 DEF Order, Answered, Goes
<1>15. ASSUME NEW h \in Handshakes, OrderFails(h) PROVE Undisturbed'
  BY <1>0, <1>15 DEF OrderFails, Goes
<1>16. ASSUME NEW h \in Handshakes, Abort(h) PROVE Undisturbed'
  BY <1>0, <1>16 DEF Abort, Answered, Goes
<1>17. CASE UNCHANGED certsVars
  BY <1>17 DEF certsVars
<1> QED
  BY <1>1, <1>2, <1>3, <1>4, <1>5, <1>6, <1>7, <1>8, <1>9, <1>10, <1>11, <1>12,
     <1>13, <1>14, <1>15, <1>16, <1>17
  DEF CertsNext, Environment, Load, Handshake

\* The inductive invariant holds.
LEMMA CertsInvariant == CertsSpec => []CertsIInv
<1>1. CertsIInv /\ [CertsNext]_certsVars => CertsIInv'
  BY CertsTypeStep, FiledStep, UndisturbedStep DEF CertsIInv
<1> QED
  BY CertsStart, <1>1, PTL DEF CertsSpec

(***************************************************************************)
(* States stay well formed; files mode never serves without a pair.        *)
(***************************************************************************)
THEOREM CertsTypeCorrect == CertsSpec => []CertsTypeOK
<1>1. CertsIInv => CertsTypeOK
  BY DEF CertsIInv
<1> QED
  BY CertsInvariant, <1>1, PTL

(***************************************************************************)
(* Hybrid mode orders nothing from ACME that the pair on disk covers, with *)
(* any number of handshakes loading at once, outside the exceptions that   *)
(* the property names.                                                     *)
(***************************************************************************)
THEOREM FilesAreEnough == CertsSpec => []NoNeedlessOrder
<1>1. CertsIInv => NoNeedlessOrder
  BY DEF CertsIInv, Undisturbed, NoNeedlessOrder
<1> QED
  BY CertsInvariant, <1>1, PTL
=============================================================================
