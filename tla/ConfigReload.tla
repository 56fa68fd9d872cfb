---------------------------- MODULE ConfigReload ----------------------------
(***************************************************************************)
(* The daemon's configuration: loaded once by cmdServe, then hot-swapped   *)
(* by reloadLoop (cmd/goddns/serve.go), which polls goddns.conf with a     *)
(* filewatch.Watcher and the side files (proxy.d fragments, tsig_keys_file) *)
(* with watchSig, and reloads at once on SIGHUP.  A reload swaps the       *)
(* proxy's routing table, brings new names under ACME management, moves    *)
(* the hybrid allowlist and the console listeners, and last publishes the  *)
(* configuration the request handlers read.                                *)
(*                                                                         *)
(* The operator writes any file at any time, between any two steps.        *)
(***************************************************************************)
EXTENDS Naturals, FiniteSets

CONSTANTS
  Host,         \* proxied host names; a host's console port is named by it
  MainTexts,    \* contents of goddns.conf
  FragTexts,    \* contents of proxy.d/*.conf, taken together
  KeyTexts,     \* contents of the tsig_keys_file
  NoKey,        \* a keys file that is missing or lacks tsig_name
  MaxWrites,    \* bound: files written
  MaxHups,      \* bound: SIGHUPs and restarts
  MaxFailures   \* bound: ACME and bind failures

\* A file's text: whether it is there and decodes and validates by itself, and
\* what Load takes from it.  keys: the main file names a tsig_keys_file.
MainText == [state : {"ok", "bad", "missing"}, on : BOOLEAN,
             hosts : SUBSET Host, keys : BOOLEAN]
FragText == [state : {"ok", "bad"}, hosts : SUBSET Host]

Config == [on : BOOLEAN, hosts : SUBSET Host, keys : BOOLEAN,
           secret : KeyTexts]

ASSUME ReloadAssumption ==
  /\ MainTexts \subseteq MainText
  /\ FragTexts \subseteq FragText
  /\ NoKey \in KeyTexts
  /\ {MaxWrites, MaxHups, MaxFailures} \subseteq Nat

VARIABLES
  main, frags, keys,  \* the files' contents
  mtime,              \* their modification times
  mode,               \* tls_mode of this process
  at,                 \* where cmdServe / reloadLoop is; "down": no process
  why,                \* what the current pass is for
  got,                \* the main and the key file's texts as Load read them
  next,               \* the configuration being applied
  cfg,                \* the published one (the atomic pointer cur)
  watch,              \* the Watcher of goddns.conf
  lastSig,            \* the signature of the side files
  hup,                \* a SIGHUP is queued (the channel holds one)
  proxied,            \* this process has a proxy (px # nil)
  table,              \* hosts in the proxy's routing table
  appliedHosts,       \* hosts whose certificates are taken care of
  proxyDirty,         \* an apply failed and is retried every tick
  managed,            \* names under ACME management
  allowed,            \* the hybrid on-demand allowlist
  ports,              \* console ports with an open listener
  writes, hups, failures,  \* counters for the bounds
  blind               \* history: how the watchers may have missed a write

files == <<main, frags, keys, mtime>>
proxyVars == <<table, appliedHosts, proxyDirty, managed>>
watchVars == <<watch, lastSig>>
bounds == <<writes, hups, failures>>
vars == <<files, mode, at, why, got, next, cfg, watchVars, hup, proxied,
          proxyVars, allowed, ports, bounds, blind>>

File == {"main", "frags", "keys"}
Booting == {"bootMain", "bootKeys", "bootMerge", "bootTLS"}
At == Booting \union {"down", "idle", "stat", "read", "sig", "loadMain", "loadKeys",
                      "merge", "apply", "manage", "publish"}
\* "boot": written while the process starts; "keys": a key file the published
\* configuration does not name; "load": the text Load read is not the one the
\* watcher hashed, so putting the hashed text back goes unnoticed.
Blindness == {"boot", "keys", "load"}
Why == {"boot", "tick", "edited", "hup", "retry"}
Time == 0 .. MaxWrites

NoConfig == [on |-> FALSE, hosts |-> {}, keys |-> FALSE, secret |-> NoKey]
NoMain == [state |-> "missing", on |-> FALSE, hosts |-> {}, keys |-> FALSE]
NothingRead == [main |-> NoMain, keys |-> NoKey]
Unwatched == [have |-> FALSE, mod |-> 0, sum |-> NoMain, stat |-> 0]

TypeOK ==
  /\ main \in MainText /\ frags \in FragText /\ keys \in KeyTexts
  /\ mtime \in [File -> Time]
  /\ mode \in {"files", "acme", "hybrid"}
  /\ at \in At /\ why \in Why
  /\ got \in [main : MainText, keys : KeyTexts]
  /\ next \in Config /\ cfg \in Config
  /\ watch \in [have : BOOLEAN, mod : Time, sum : MainText, stat : Time]
  /\ lastSig \in Time \X (0 .. MaxWrites + 1)
  /\ hup \in BOOLEAN /\ proxied \in BOOLEAN
  /\ proxyDirty \in BOOLEAN /\ blind \subseteq Blindness
  /\ table \subseteq Host /\ appliedHosts \subseteq Host
  /\ managed \subseteq Host /\ allowed \subseteq Host /\ ports \subseteq Host
  /\ writes \in 0 .. MaxWrites /\ hups \in 0 .. MaxHups
  /\ failures \in 0 .. MaxFailures

Init ==
  /\ main \in MainTexts /\ frags \in FragTexts /\ keys \in KeyTexts
  /\ mtime = [f \in File |-> 0]
  /\ mode \in {"files", "acme", "hybrid"}
  /\ at = "down" /\ why = "boot"
  /\ got = NothingRead /\ next = NoConfig /\ cfg = NoConfig
  /\ watch = Unwatched /\ lastSig = <<0, 0>>
  /\ hup = FALSE /\ proxied = FALSE
  /\ table = {} /\ appliedHosts = {} /\ proxyDirty = FALSE /\ managed = {}
  /\ allowed = {} /\ ports = {}
  /\ writes = 0 /\ hups = 0 /\ failures = 0
  /\ blind = {}

-----------------------------------------------------------------------------
(* config.Load and the reload loop's helpers. *)

\* Load and mergeProxyFragments accept these contents: each file is well
\* formed, a host is defined once, and the keys file has the named key.
Loads(m, f, k) ==
  /\ m.state = "ok" /\ f.state = "ok"
  /\ m.hosts \intersect f.hosts = {}
  /\ m.keys => k # NoKey

Merged(m, f, k) ==
  [on |-> m.on, hosts |-> m.hosts \union f.hosts, keys |-> m.keys,
   secret |-> IF m.keys THEN k ELSE NoKey]

watchSigNoKeys == <<mtime["frags"], 0>>

\* watchSig: the key file counts only when the published config names it.
watchSig == <<mtime["frags"], IF cfg.keys THEN mtime["keys"] + 1 ELSE 0>>

hybridNamesAny(c) == IF c.on THEN c.hosts ELSE {"*"}

\* hybridNames: the names an on-demand certificate may be ordered for.  The names
\* of goddns's own (acme_domain, public_host, the admin UI's) are left out.
hybridNames(c) == IF c.on THEN c.hosts ELSE {}

-----------------------------------------------------------------------------
(* Start-up: cmdServe. *)

Start ==
  /\ at = "down"
  /\ at' = "bootMain"
  /\ UNCHANGED <<files, mode, why, got, next, cfg, watchVars, hup, proxied,
                 proxyVars, allowed, ports, bounds, blind>>

\* The process ends and its memory and sockets are gone.
Exit ==
  /\ at' = "down" /\ why' = "boot"
  /\ got' = NothingRead /\ next' = NoConfig /\ cfg' = NoConfig
  /\ watch' = Unwatched /\ lastSig' = <<0, 0>>
  /\ hup' = FALSE /\ proxied' = FALSE
  /\ table' = {} /\ appliedHosts' = {} /\ proxyDirty' = FALSE /\ managed' = {}
  /\ allowed' = {} /\ ports' = {}
  /\ blind' = {}

\* Load reads goddns.conf first, then the key file, then the fragments.
LoadMain ==
  /\ \/ at = "bootMain" /\ at' = "bootKeys" /\ UNCHANGED blind
     \/ /\ at = "loadMain" /\ at' = "loadKeys"
        /\ blind' = IF watch.have /\ watch.sum # main THEN {"load"} ELSE {}
  /\ got' = [got EXCEPT !.main = main]
  /\ UNCHANGED <<files, mode, why, next, cfg, watchVars, hup, proxied,
                 proxyVars, allowed, ports, bounds>>

\* A missing key, or a main file that does not decode, ends Load here or before;
\* Merge gives the verdict, as a failed Load changes nothing.
LoadKeys ==
  /\ \/ at = "bootKeys" /\ at' = "bootMerge"
     \/ at = "loadKeys" /\ at' = "merge"
  /\ got' = [got EXCEPT !.keys = keys]
  /\ UNCHANGED <<files, mode, why, next, cfg, watchVars, hup, proxied,
                 proxyVars, allowed, ports, bounds, blind>>

BootMerge ==
  /\ at = "bootMerge"
  /\ \/ /\ Loads(got.main, frags, got.keys)
        /\ at' = "bootTLS"
        /\ cfg' = Merged(got.main, frags, got.keys)
        /\ UNCHANGED <<why, got, next, watchVars, hup, proxied, proxyVars,
                       allowed, ports, blind>>
     \/ ~Loads(got.main, frags, got.keys) /\ Exit
  /\ UNCHANGED <<files, mode, bounds>>

Fail == failures < MaxFailures /\ failures' = failures + 1

\* consoleManager.sync: close what is no longer wanted, open the rest; a port
\* that does not bind is left out.
Sync(c) ==
  \/ ports' = c.hosts /\ UNCHANGED failures
  \/ /\ Fail
     /\ \E busy \in SUBSET (c.hosts \ ports) \ {{}} : ports' = c.hosts \ busy

\* buildTLS (in acme mode it waits for the certificates), the proxy and its
\* console listeners, then the reload loop's goroutine.
BuildTLS ==
  /\ at = "bootTLS"
  /\ \/ /\ at' = "stat"
        /\ proxied' = cfg.on
        /\ table' = IF cfg.on THEN cfg.hosts ELSE {}
        /\ managed' = IF mode = "acme" /\ cfg.on THEN cfg.hosts ELSE {}
        /\ allowed' = IF mode = "hybrid" THEN hybridNames(cfg) ELSE {}
        /\ appliedHosts' = cfg.hosts
        /\ proxyDirty' = FALSE
        /\ IF cfg.on THEN Sync(cfg) ELSE UNCHANGED <<ports, failures>>
        /\ UNCHANGED <<why, got, next, cfg, watchVars, hup, blind>>
     \/ Fail /\ Exit
  /\ UNCHANGED <<files, mode, writes, hups>>

-----------------------------------------------------------------------------
(* One pass of the reload loop. *)

Tick ==
  /\ at = "idle"
  /\ at' = "stat" /\ why' = "tick"
  /\ UNCHANGED <<files, mode, got, next, cfg, watchVars, hup, proxied,
                 proxyVars, allowed, ports, bounds, blind>>

TakeHup ==
  /\ at = "idle" /\ hup
  /\ hup' = FALSE
  /\ at' = "stat" /\ why' = "hup"
  /\ UNCHANGED <<files, mode, got, next, cfg, watchVars, proxied, proxyVars,
                 allowed, ports, bounds, blind>>

\* Watcher.Changed, first half: a missing file forgets the state, an equal
\* mtime ends the call.
WatchStat ==
  /\ at = "stat"
  /\ \/ /\ main.state = "missing"
        /\ watch' = [watch EXCEPT !.have = FALSE]
        /\ at' = "sig"
     \/ /\ main.state # "missing"
        /\ watch.have /\ watch.mod = mtime["main"]
        /\ at' = "sig"
        /\ UNCHANGED watch
     \/ /\ main.state # "missing"
        /\ ~(watch.have /\ watch.mod = mtime["main"])
        /\ watch' = [watch EXCEPT !.stat = mtime["main"]]
        /\ at' = "read"
  /\ UNCHANGED <<files, mode, why, got, next, cfg, lastSig, hup, proxied,
                 proxyVars, allowed, ports, bounds, blind>>

\* Watcher.Changed, second half: read and hash.  The recorded mtime is the
\* one of the stat, also when the file was replaced since.  On a tick, new
\* content makes the pass a reload.
WatchRead ==
  /\ at = "read"
  /\ at' = "sig"
  /\ \/ main.state = "missing" /\ UNCHANGED <<watch, why>>
     \/ /\ main.state # "missing"
        /\ watch' = [watch EXCEPT !.have = TRUE, !.mod = watch.stat, !.sum = main]
        /\ why' = IF why = "tick" /\ ~(watch.have /\ watch.sum = main)
                    THEN "edited" ELSE why
  /\ UNCHANGED <<files, mode, got, next, cfg, lastSig, hup, proxied, proxyVars,
                 allowed, ports, bounds, blind>>

\* The side files' signature; then load, retry a failed apply, or rest.
WatchSides ==
  /\ at = "sig"
  /\ \/ /\ why # "tick" \/ watchSig # lastSig
        /\ lastSig' = watchSig
        /\ at' = IF why = "boot" THEN "idle" ELSE "loadMain"
        /\ UNCHANGED <<why, next>>
     \/ /\ why = "tick" /\ watchSig = lastSig /\ proxyDirty
        /\ at' = "apply" /\ why' = "retry" /\ next' = cfg
        /\ UNCHANGED lastSig
     \/ /\ why = "tick" /\ watchSig = lastSig /\ ~proxyDirty
        /\ at' = "idle"
        /\ UNCHANGED <<why, next, lastSig>>
  /\ UNCHANGED <<files, mode, got, cfg, watch, hup, proxied, proxyVars,
                 allowed, ports, bounds, blind>>

\* Load's last part: a rejected load keeps the previous configuration.
Merge ==
  /\ at = "merge"
  /\ \/ Loads(got.main, frags, got.keys) /\ at' = "apply"
        /\ next' = Merged(got.main, frags, got.keys)
     \/ ~Loads(got.main, frags, got.keys) /\ at' = "idle" /\ UNCHANGED next
  /\ UNCHANGED <<files, mode, why, got, cfg, watchVars, hup, proxied, proxyVars,
                 allowed, ports, bounds, blind>>

\* The knob is off: empty the table, if any host was applied.
ApplyOff ==
  /\ IF appliedHosts # {}
       THEN table' = {} /\ appliedHosts' = {}
       ELSE UNCHANGED <<table, appliedHosts>>
  /\ proxyDirty' = FALSE

UpdateKeepsOld == table' = table \union next.hosts

\* Proxy.Update swaps the routing table.
Update == table' = next.hosts

\* applyProxy up to the call of manage.
ApplyProxy ==
  /\ at = "apply"
  /\ \/ /\ ~proxied
        /\ at' = "publish"
        /\ UNCHANGED proxyVars
     \/ /\ proxied /\ ~next.on
        /\ at' = "publish"
        /\ ApplyOff
        /\ UNCHANGED managed
     \/ /\ proxied /\ next.on
        /\ mode = "acme" /\ next.hosts # appliedHosts
        /\ at' = "manage"
        /\ Update
        /\ UNCHANGED <<appliedHosts, proxyDirty, managed>>
     \/ /\ proxied /\ next.on
        /\ ~(mode = "acme" /\ next.hosts # appliedHosts)
        /\ at' = "publish"
        /\ Update
        /\ appliedHosts' = next.hosts /\ proxyDirty' = FALSE
        /\ UNCHANGED managed
  /\ UNCHANGED <<files, mode, why, got, next, cfg, watchVars, hup, proxied,
                 allowed, ports, bounds, blind>>

ManageFailsClean ==
  /\ Fail
  /\ UNCHANGED <<managed, appliedHosts, proxyDirty>>

\* manage failed: the apply is dirty and every tick retries it.
ManageFails ==
  /\ Fail
  /\ proxyDirty' = TRUE
  /\ UNCHANGED <<managed, appliedHosts>>

\* src.manage waits for the CA, up to three minutes.
Manage ==
  /\ at = "manage"
  /\ at' = "publish"
  /\ \/ /\ managed' = managed \union next.hosts
        /\ appliedHosts' = next.hosts
        /\ proxyDirty' = FALSE
        /\ UNCHANGED failures
     \/ ManageFails
  /\ UNCHANGED <<files, mode, why, got, next, cfg, watchVars, hup, proxied,
                 table, allowed, ports, writes, hups, blind>>

\* The allowlist, the console listeners and the atomic pointer, in one step: the
\* properties compare them between passes only.  A console port may fail to bind
\* (Sync).  A retry of applyProxy ends the pass without them.
Publish ==
  /\ at = "publish"
  /\ at' = "idle"
  /\ \/ why = "retry" /\ UNCHANGED <<cfg, allowed, ports, failures>>
     \/ /\ why # "retry"
        /\ cfg' = next
        /\ allowed' = IF mode = "hybrid" THEN hybridNames(next) ELSE {}
        /\ IF proxied THEN Sync(next) ELSE UNCHANGED <<ports, failures>>
  /\ UNCHANGED <<files, mode, why, got, next, watchVars, hup, proxied,
                 proxyVars, writes, hups, blind>>

-----------------------------------------------------------------------------
(* The operator. *)

\* cmdServe has not come to signal.Notify, or to the primed watchers, yet.
Deaf == at \in Booting \/ (why = "boot" /\ at \in {"stat", "read"})
Priming == why = "boot" /\ at = "sig"

\* A write the running process has no watcher for: made before the watchers
\* are primed, or to a key file the published configuration does not name.
Missed(f) ==
  (IF Deaf \/ Priming THEN {"boot"} ELSE {})
    \union (IF f = "keys" /\ ~cfg.keys THEN {"keys"} ELSE {})

WriteFile(f) ==
  /\ writes < MaxWrites
  /\ writes' = writes + 1
  /\ mtime' = [mtime EXCEPT ![f] = writes + 1]
  /\ blind' = blind \union Missed(f)
  /\ UNCHANGED <<mode, at, why, got, next, cfg, watchVars, hup, proxied,
                 proxyVars, allowed, ports, hups, failures>>

WriteMain  == WriteFile("main") /\ main' \in MainTexts /\ UNCHANGED <<frags, keys>>
WriteFrags == WriteFile("frags") /\ frags' \in FragTexts /\ UNCHANGED <<main, keys>>
WriteKeys  == WriteFile("keys") /\ keys' \in KeyTexts /\ UNCHANGED <<main, frags>>

\* systemctl reload.  Before signal.Notify the signal's default action ends
\* the process (systemd counts that as a clean exit and does not restart it);
\* after it, the channel holds one.
Hup ==
  /\ at # "down"
  /\ hups < MaxHups
  /\ hups' = hups + 1
  /\ \/ Deaf /\ Exit
     \/ /\ ~Deaf
        /\ hup' = TRUE
        /\ UNCHANGED <<at, why, got, next, cfg, watchVars, proxied, proxyVars,
                       allowed, ports, blind>>
  /\ UNCHANGED <<files, mode, writes, failures>>

\* systemctl stop, or a crash.
Stop ==
  /\ at # "down"
  /\ hups < MaxHups
  /\ hups' = hups + 1
  /\ Exit
  /\ UNCHANGED <<files, mode, writes, failures>>

-----------------------------------------------------------------------------
Loop ==
  \/ LoadMain \/ LoadKeys \/ BootMerge \/ BuildTLS
  \/ Tick \/ WatchStat \/ WatchRead \/ WatchSides
  \/ Merge \/ ApplyProxy \/ Manage \/ Publish

Next == Loop \/ TakeHup \/ Start \/ WriteMain \/ WriteFrags \/ WriteKeys \/ Hup \/ Stop

\* The goroutine runs and its ticker fires; nobody has to start the daemon,
\* to write a file or to send a signal.
Spec == Init /\ [][Next]_vars /\ WF_vars(Loop)

-----------------------------------------------------------------------------
(* Properties. *)

(***************************************************************************)
(* Between passes, what the request handlers use agrees with the published *)
(* configuration, whatever was rejected, failed or retried on the way: the *)
(* routing table and the hybrid allowlist are its hosts, and no console    *)
(* listener is left open for a host it does not have.                      *)
(***************************************************************************)
InStep ==
  at = "idle" =>
    /\ proxied /\ cfg.on => table = cfg.hosts
    /\ mode = "hybrid" => allowed = hybridNames(cfg)
    /\ ports \subseteq cfg.hosts

OnDisk == Merged(main, frags, keys)
Current == Loads(main, frags, keys) => cfg = OnDisk

(***************************************************************************)
(* Once the operator stops writing, a daemon that runs ends up with what   *)
(* is on disk, if that is loadable: no interleaving of the writes with the *)
(* stat, the hash, the signature and the parts of Load makes the loop      *)
(* record a file as seen that it did not load.  Excepted are the three     *)
(* gaps that Blindness names.                                              *)
(***************************************************************************)
Converges == <>[](at # "down" /\ blind = {} => Current)

(***************************************************************************)
(* In acme mode every routed host of the published configuration ends up   *)
(* under certificate management, although the CA fails: a failed manage is *)
(* retried, also when the next reload turns out to change nothing.         *)
(***************************************************************************)
CertsFollow ==
  <>[](at # "down" /\ mode = "acme" /\ proxied /\ cfg.on =>
         cfg.hosts \subseteq managed)
=============================================================================
