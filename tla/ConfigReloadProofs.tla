------------------------- MODULE ConfigReloadProofs -------------------------
(***************************************************************************)
(* Theorems about ConfigReload, for every set of hosts, file contents and  *)
(* bounds: type correctness and InStep.                                    *)
(*                                                                         *)
(* InStep speaks of the loop at rest.  In the middle of a pass the routing *)
(* table is already the next configuration's while the allowlist and the   *)
(* listeners are still the published one's; the invariant says which is    *)
(* which at every point of the pass.                                       *)
(***************************************************************************)
EXTENDS ConfigReload, TLAPS

\* What the handlers use, against the published configuration c.
RoutesOf(c) == proxied /\ c.on => table = c.hosts
NamesOf(c)  == mode = "hybrid" => allowed = hybridNames(c)
PortsOf(c)  == ports \subseteq c.hosts

Unapplied == {"idle", "stat", "read", "sig", "loadMain", "loadKeys", "merge", "apply"}

PassInv ==
  /\ at \in Unapplied => RoutesOf(cfg)
  /\ at \in {"manage", "publish"} => RoutesOf(next)
  /\ at \in Unapplied \union {"manage", "publish"} => NamesOf(cfg) /\ PortsOf(cfg)
  /\ at \in {"apply", "manage", "publish"} /\ why = "retry" => next = cfg
  /\ at \in {"stat", "read", "sig", "loadMain", "loadKeys", "merge"} => why # "retry"
  /\ ~proxied => ports = {}
  /\ at \in Booting \union {"down"} => ports = {} /\ why = "boot"

IInv == TypeOK /\ PassInv

\* A merged configuration is one.
LEMMA MergedType ==
  ASSUME NEW m \in MainText, NEW f \in FragText, NEW k \in KeyTexts
  PROVE  Merged(m, f, k) \in Config
BY ReloadAssumption DEF Merged, MainText, FragText, Config

\* The values a stopped daemon starts from have their types.
LEMMA ConstantsTyped ==
  /\ NoConfig \in Config
  /\ NoMain \in MainText
  /\ NothingRead \in [main : MainText, keys : KeyTexts]
  /\ Unwatched \in [have : BOOLEAN, mod : Time, sum : MainText, stat : Time]
  /\ <<0, 0>> \in Time \X (0 .. MaxWrites + 1)
<1>1. 0 \in Time /\ 0 \in 0 .. MaxWrites + 1
  BY ReloadAssumption DEF Time
<1>2. NoConfig \in Config
  BY ReloadAssumption DEF NoConfig, Config
<1>3. NoMain \in MainText
  BY DEF NoMain, MainText
<1>4. NothingRead \in [main : MainText, keys : KeyTexts]
  BY <1>3, ReloadAssumption DEF NothingRead
<1> QED BY <1>1, <1>2, <1>3, <1>4 DEF Unwatched

\* Init: no process, so no table, no listeners and nothing to compare.
LEMMA InitIInv ==
  ASSUME Init
  PROVE  IInv
<1>1. TypeOK
  <2>1. /\ main \in MainText /\ frags \in FragText /\ keys \in KeyTexts
        /\ mtime \in [File -> Time]
    BY ReloadAssumption DEF Init, Time
  <2>2. writes \in 0 .. MaxWrites /\ hups \in 0 .. MaxHups /\ failures \in 0 .. MaxFailures
    BY ReloadAssumption DEF Init
  <2> QED BY <2>1, <2>2, ConstantsTyped DEF Init, TypeOK, At, Why, Booting
<1>2. PassInv
  BY DEF Init, PassInv, Unapplied
<1> QED BY <1>1, <1>2 DEF IInv

\* The end of the process, for whatever reason.
LEMMA ExitKeeps ==
  ASSUME IInv, Exit, UNCHANGED <<files, mode>>,
         writes' \in 0 .. MaxWrites, hups' \in 0 .. MaxHups, failures' \in 0 .. MaxFailures
  PROVE  IInv'
<1>1. TypeOK'
  BY ConstantsTyped DEF IInv, TypeOK, Exit, files, At, Why, Booting, Blindness
<1>2. PassInv'
  BY DEF Exit, PassInv, Unapplied, Booting
<1> QED BY <1>1, <1>2 DEF IInv

\* The console listeners after a sync.
LEMMA SyncType ==
  ASSUME TypeOK, NEW c \in Config, Sync(c)
  PROVE  ports' \subseteq c.hosts /\ failures' \in 0 .. MaxFailures
<1>1. failures' \in 0 .. MaxFailures
  BY ReloadAssumption DEF TypeOK, Sync, Fail
<1>2. ports' \subseteq c.hosts
  BY DEF Sync
<1> QED BY <1>1, <1>2

\* The start-up steps.
LEMMA BootKeeps ==
  ASSUME IInv, Start \/ LoadMain \/ LoadKeys \/ BootMerge \/ BuildTLS
  PROVE  IInv'
<1> USE DEF IInv
<1>1. CASE Start
  <2>1. TypeOK'
    BY <1>1 DEF Start, TypeOK, files, watchVars, proxyVars, bounds, At, Booting
  <2>2. PassInv'
    BY <1>1 DEF Start, PassInv, Unapplied, Booting
  <2> QED BY <2>1, <2>2
<1>2. CASE LoadMain
  <2>1. TypeOK'
    BY <1>2 DEF LoadMain, TypeOK, files, watchVars, proxyVars, bounds, At, Booting, Blindness
  <2>2. PassInv'
    BY <1>2 DEF LoadMain, PassInv, RoutesOf, NamesOf, PortsOf, Unapplied, Booting, proxyVars
  <2> QED BY <2>1, <2>2
<1>3. CASE BootMerge
  <2>1. CASE Exit
    BY <1>3, <2>1, ExitKeeps DEF BootMerge, TypeOK, bounds
  <2>2. CASE at' = "bootTLS" /\ ~Exit
    <3>1. Merged(got.main, frags, got.keys) \in Config
      BY MergedType DEF TypeOK
    <3>2. /\ cfg' = Merged(got.main, frags, got.keys)
          /\ UNCHANGED <<why, got, next, watchVars, hup, proxied, proxyVars,
                         allowed, ports, blind, files, mode, bounds>>
      BY <1>3, <2>2 DEF BootMerge
    <3>3. TypeOK'
      BY <2>2, <3>1, <3>2 DEF TypeOK, files, watchVars, proxyVars, bounds, At, Booting
    <3>4. PassInv'
      BY <1>3, <2>2, <3>2 DEF BootMerge, PassInv, Unapplied, Booting
    <3> QED BY <3>3, <3>4
  <2> QED BY <1>3, <2>1, <2>2 DEF BootMerge
<1>4. CASE BuildTLS
  <2>1. CASE Fail /\ Exit
    <3>1. failures' \in 0 .. MaxFailures
      BY <2>1, ReloadAssumption DEF Fail, TypeOK
    <3> QED BY <1>4, <2>1, <3>1, ExitKeeps DEF BuildTLS, TypeOK
  <2>2. CASE at' = "stat"
    <3>1. /\ at = "bootTLS"
          /\ proxied' = cfg.on
          /\ table' = IF cfg.on THEN cfg.hosts ELSE {}
          /\ managed' = IF mode = "acme" /\ cfg.on THEN cfg.hosts ELSE {}
          /\ allowed' = IF mode = "hybrid" THEN hybridNames(cfg) ELSE {}
          /\ appliedHosts' = cfg.hosts
          /\ proxyDirty' = FALSE
          /\ UNCHANGED <<why, got, next, cfg, watchVars, hup, blind>>
          /\ UNCHANGED <<files, mode, writes, hups>>
          /\ IF cfg.on THEN Sync(cfg) ELSE UNCHANGED <<ports, failures>>
      BY <1>4, <2>2 DEF BuildTLS, Exit
    <3>2. cfg.on \in BOOLEAN /\ cfg.hosts \subseteq Host /\ cfg \in Config
      BY DEF TypeOK, Config
    <3>3. ports' \subseteq cfg.hosts /\ failures' \in 0 .. MaxFailures
      <4>1. ports = {}
        BY <3>1 DEF PassInv, Booting
      <4> QED BY <3>1, <3>2, <4>1, SyncType DEF TypeOK
    <3>4. ~cfg.on => ports' = {}
      BY <3>1 DEF PassInv, Booting
    <3>5. TypeOK'
      BY <2>2, <3>1, <3>2, <3>3
         DEF TypeOK, files, watchVars, At, Booting, hybridNames
    <3>6. PassInv'
      BY <2>2, <3>1, <3>3, <3>4
         DEF PassInv, RoutesOf, NamesOf, PortsOf, Unapplied, Booting, hybridNames
    <3> QED BY <3>5, <3>6
  <2> QED BY <1>4, <2>1, <2>2 DEF BuildTLS
<1>5. CASE LoadKeys
  <2>1. TypeOK'
    BY <1>5 DEF LoadKeys, TypeOK, files, watchVars, proxyVars, bounds, At, Booting
  <2>2. PassInv'
    BY <1>5 DEF LoadKeys, PassInv, RoutesOf, NamesOf, PortsOf, Unapplied, Booting, proxyVars
  <2> QED BY <2>1, <2>2
<1> QED BY <1>1, <1>2, <1>3, <1>4, <1>5

\* The watching half of a pass leaves what the handlers use alone.
LEMMA WatchKeeps ==
  ASSUME IInv, Tick \/ TakeHup \/ WatchStat \/ WatchRead \/ WatchSides \/ Merge
  PROVE  IInv'
<1> USE DEF IInv
<1>1. UNCHANGED <<files, mode, cfg, proxied, proxyVars, allowed, ports, bounds, blind>>
  BY DEF Tick, TakeHup, WatchStat, WatchRead, WatchSides, Merge
<1>2. UNCHANGED <<main, frags, keys, mtime, table, appliedHosts, proxyDirty,
                  managed, writes, hups, failures>>
  BY <1>1 DEF files, proxyVars, bounds
<1>3. at \in Unapplied /\ at' \in Unapplied /\ at' \in At /\ at' \notin Booting
  BY DEF Tick, TakeHup, WatchStat, WatchRead, WatchSides, Merge, Unapplied, At, Booting
<1>4. why' \in Why
  BY DEF Tick, TakeHup, WatchStat, WatchRead, WatchSides, Merge, Why, TypeOK
<1>5. next' \in Config /\ got' \in [main : MainText, keys : KeyTexts] /\ hup' \in BOOLEAN
  <2>1. Merged(got.main, frags, got.keys) \in Config
    BY MergedType DEF TypeOK
  <2> QED BY <2>1 DEF Tick, TakeHup, WatchStat, WatchRead, WatchSides, Merge, TypeOK
<1>6. watch' \in [have : BOOLEAN, mod : Time, sum : MainText, stat : Time]
  <2>1. mtime["main"] \in Time
    BY DEF TypeOK, File
  <2>2. CASE WatchStat
    BY <2>1, <2>2 DEF WatchStat, TypeOK
  <2>3. CASE WatchRead
    BY <2>3 DEF WatchRead, TypeOK
  <2>4. CASE ~WatchStat /\ ~WatchRead
    BY <2>4 DEF Tick, TakeHup, WatchSides, Merge, watchVars, TypeOK
  <2> QED BY <2>2, <2>3, <2>4
<1>7. lastSig' \in Time \X (0 .. MaxWrites + 1)
  <2>1. watchSig \in Time \X (0 .. MaxWrites + 1)
    <3>1. mtime["frags"] \in Time /\ mtime["keys"] \in Time
      BY DEF TypeOK, File
    <3>2. (IF cfg.keys THEN mtime["keys"] + 1 ELSE 0) \in 0 .. MaxWrites + 1
      BY <3>1, ReloadAssumption DEF Time
    <3> QED BY <3>1, <3>2 DEF watchSig
  <2> QED BY <2>1 DEF Tick, TakeHup, WatchStat, WatchRead, WatchSides, Merge,
                      watchVars, TypeOK
<1>8. TypeOK'
  BY <1>1, <1>2, <1>3, <1>4, <1>5, <1>6, <1>7 DEF TypeOK
<1>9. at' = "apply" /\ why' = "retry" => next' = cfg
  <2>1. at # "apply"
    BY DEF Tick, TakeHup, WatchStat, WatchRead, WatchSides, Merge
  <2>2. ASSUME Merge, at' = "apply" PROVE why' # "retry"
    BY <2>2 DEF Merge, PassInv
  <2> QED BY <2>1, <2>2 DEF Tick, TakeHup, WatchStat, WatchRead, WatchSides, Merge
<1>10. at' \in {"stat", "read", "sig", "loadMain", "loadKeys", "merge"} => why' # "retry"
  BY DEF Tick, TakeHup, WatchStat, WatchRead, WatchSides, Merge, PassInv
<1>11. PassInv'
  BY <1>1, <1>2, <1>3, <1>9, <1>10
     DEF PassInv, RoutesOf, NamesOf, PortsOf, Unapplied, Booting
<1> QED BY <1>8, <1>11

\* Applying and publishing.
LEMMA ApplyKeeps ==
  ASSUME IInv, ApplyProxy \/ Manage \/ Publish
  PROVE  IInv'
<1> USE DEF IInv
<1>1. UNCHANGED <<files, mode, why, got, next, watchVars, hup, proxied, writes, hups, blind>>
  BY DEF ApplyProxy, Manage, Publish, bounds
<1>2. UNCHANGED <<main, frags, keys, mtime, watch, lastSig>>
  BY <1>1 DEF files, watchVars
<1>3. next \in Config /\ cfg \in Config /\ next.hosts \subseteq Host /\ next.on \in BOOLEAN
  BY DEF TypeOK, Config
<1>4. CASE ApplyProxy
  <2>1. /\ at = "apply" /\ at' \in {"manage", "publish"}
        /\ UNCHANGED <<cfg, allowed, ports, failures, managed>>
    BY <1>4 DEF ApplyProxy, proxyVars, bounds
  <2>2. table' \subseteq Host /\ appliedHosts' \subseteq Host /\ proxyDirty' \in BOOLEAN
    BY <1>3, <1>4 DEF ApplyProxy, ApplyOff, Update, proxyVars, TypeOK
  <2>3. proxied /\ next.on => table' = next.hosts
    BY <1>3, <1>4 DEF ApplyProxy, Update
  <2>4. TypeOK'
    BY <1>1, <1>2, <2>1, <2>2 DEF TypeOK, At
  <2>5. PassInv'
    BY <1>1, <2>1, <2>3
       DEF PassInv, RoutesOf, NamesOf, PortsOf, Unapplied, Booting
  <2> QED BY <2>4, <2>5
<1>5. CASE Manage
  <2>1. /\ at = "manage" /\ at' = "publish"
        /\ UNCHANGED <<cfg, allowed, ports, table>>
    BY <1>5 DEF Manage
  <2>2. /\ managed' \subseteq Host /\ appliedHosts' \subseteq Host
        /\ proxyDirty' \in BOOLEAN
    BY <1>3, <1>5 DEF Manage, ManageFails, TypeOK
  <2>3. failures' \in 0 .. MaxFailures
    BY <1>5, ReloadAssumption DEF Manage, ManageFails, Fail, TypeOK
  <2>4. TypeOK'
    BY <1>1, <1>2, <2>1, <2>2, <2>3 DEF TypeOK, At
  <2>5. PassInv'
    BY <1>1, <2>1 DEF PassInv, RoutesOf, NamesOf, PortsOf, Unapplied, Booting
  <2> QED BY <2>4, <2>5
<1>6. CASE Publish
  <2>1. at = "publish" /\ at' = "idle" /\ UNCHANGED proxyVars
    BY <1>6 DEF Publish
  <2>2. UNCHANGED <<table, appliedHosts, proxyDirty, managed>>
    BY <2>1 DEF proxyVars
  <2>3. CASE why = "retry"
    <3>1. UNCHANGED <<cfg, allowed, ports, failures>> /\ next = cfg
      BY <1>6, <2>1, <2>3 DEF Publish, PassInv
    <3>2. TypeOK'
      BY <1>1, <1>2, <2>1, <2>2, <3>1 DEF TypeOK, At
    <3>3. PassInv'
      BY <1>1, <2>1, <2>2, <3>1
         DEF PassInv, RoutesOf, NamesOf, PortsOf, Unapplied, Booting
    <3> QED BY <3>2, <3>3
  <2>4. CASE why # "retry"
    <3>1. /\ cfg' = next
          /\ allowed' = IF mode = "hybrid" THEN hybridNames(next) ELSE {}
          /\ IF proxied THEN Sync(next) ELSE UNCHANGED <<ports, failures>>
      BY <1>6, <2>4 DEF Publish
    <3>2. ports' \subseteq next.hosts /\ failures' \in 0 .. MaxFailures
      BY <1>3, <3>1, SyncType DEF PassInv, TypeOK
    <3>3. ~proxied => ports' = {}
      BY <3>1 DEF PassInv
    <3>4. TypeOK'
      BY <1>1, <1>2, <1>3, <2>1, <2>2, <3>1, <3>2 DEF TypeOK, At, hybridNames
    <3>5. PassInv'
      BY <1>1, <2>1, <2>2, <3>1, <3>2, <3>3
         DEF PassInv, RoutesOf, NamesOf, PortsOf, Unapplied, Booting, hybridNames
    <3> QED BY <3>4, <3>5
  <2> QED BY <2>3, <2>4
<1> QED BY <1>4, <1>5, <1>6

\* The operator's writes and signals.
LEMMA OperatorKeeps ==
  ASSUME IInv, WriteMain \/ WriteFrags \/ WriteKeys \/ Hup \/ Stop
  PROVE  IInv'
<1> USE DEF IInv
<1>1. ASSUME NEW f \in File, WriteFile(f), main' \in MainText, frags' \in FragText,
             keys' \in KeyTexts
      PROVE  IInv'
  <2>1. UNCHANGED <<mode, at, why, got, next, cfg, watchVars, hup, proxied,
                    proxyVars, allowed, ports, hups, failures>>
    BY <1>1 DEF WriteFile
  <2>2. UNCHANGED <<watch, lastSig, table, appliedHosts, proxyDirty, managed>>
    BY <2>1 DEF watchVars, proxyVars
  <2>3. writes' \in 0 .. MaxWrites /\ mtime' \in [File -> Time]
    BY <1>1, ReloadAssumption DEF WriteFile, TypeOK, Time
  <2>4. blind' \subseteq Blindness
    BY <1>1 DEF WriteFile, TypeOK, Missed, Blindness
  <2>5. TypeOK'
    BY <1>1, <2>1, <2>2, <2>3, <2>4 DEF TypeOK
  <2>6. PassInv'
    BY <2>1, <2>2 DEF PassInv, RoutesOf, NamesOf, PortsOf
  <2> QED BY <2>5, <2>6
<1>2. CASE WriteMain \/ WriteFrags \/ WriteKeys
  <2>1. main' \in MainText /\ frags' \in FragText /\ keys' \in KeyTexts
    BY <1>2, ReloadAssumption DEF WriteMain, WriteFrags, WriteKeys, TypeOK
  <2> QED BY <1>1, <1>2, <2>1 DEF WriteMain, WriteFrags, WriteKeys, File
<1>3. CASE Hup \/ Stop
  <2>1. /\ hups' \in 0 .. MaxHups
        /\ UNCHANGED <<files, mode, writes, failures>>
    BY <1>3, ReloadAssumption DEF Hup, Stop, TypeOK
  <2>2. CASE Exit
    BY <2>1, <2>2, ExitKeeps DEF TypeOK
  <2>3. CASE /\ hup' = TRUE
             /\ UNCHANGED <<at, why, got, next, cfg, watchVars, proxied, proxyVars,
                            allowed, ports, blind>>
    <3>1. UNCHANGED <<main, frags, keys, mtime, watch, lastSig, table, appliedHosts,
                      proxyDirty, managed>>
      BY <2>1, <2>3 DEF files, watchVars, proxyVars
    <3>2. TypeOK'
      BY <2>1, <2>3, <3>1 DEF TypeOK
    <3>3. PassInv'
      BY <2>1, <2>3, <3>1 DEF PassInv, RoutesOf, NamesOf, PortsOf
    <3> QED BY <3>2, <3>3
  <2> QED BY <1>3, <2>2, <2>3 DEF Hup, Stop
<1> QED BY <1>2, <1>3

\* Every step keeps the invariant.
LEMMA NextIInv ==
  ASSUME IInv, [Next]_vars
  PROVE  IInv'
<1>1. CASE Next
  BY <1>1, BootKeeps, WatchKeeps, ApplyKeeps, OperatorKeeps DEF Next, Loop
<1>2. CASE UNCHANGED vars
  <2>1. UNCHANGED <<main, frags, keys, mtime, mode, at, why, got, next, cfg, watch,
                    lastSig, hup, proxied, table, appliedHosts, proxyDirty, managed,
                    allowed, ports, writes, hups, failures, blind>>
    BY <1>2 DEF vars, files, watchVars, proxyVars, bounds
  <2>2. TypeOK'
    BY <2>1 DEF IInv, TypeOK
  <2>3. PassInv'
    BY <2>1 DEF IInv, PassInv, RoutesOf, NamesOf, PortsOf
  <2> QED BY <2>2, <2>3 DEF IInv
<1> QED BY <1>1, <1>2

\* The invariant holds in every reachable state.
THEOREM Inductive == Spec => []IInv
BY InitIInv, NextIInv, PTL DEF Spec

\* Every reachable state of the loop is typed.
THEOREM TypeCorrect == Spec => []TypeOK
<1>1. IInv => TypeOK
  BY DEF IInv
<1> QED BY <1>1, Inductive, PTL

\* Between passes the routing table, the allowlist and the console listeners
\* agree with the published configuration.
THEOREM HandlersInStep == Spec => []InStep
<1>1. IInv => InStep
  BY DEF IInv, PassInv, InStep, RoutesOf, NamesOf, PortsOf, Unapplied
<1> QED BY <1>1, Inductive, PTL
=============================================================================
