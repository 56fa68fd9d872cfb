# Verification of goddns

TLA+ models of goddns, the TLC runs that check them on small instances, and
TLAPS proofs of what the runs show, for every instance. Every definition is
translated from the Go source; `PROJECT.json` maps it to its lines.

## The system

goddns is one Go program: a daemon (`goddns serve`) beside BIND, a command line
for the operator, and an optional root helper (`goddns zoned`).

| Component | State it keeps | Operations | Hard because |
|---|---|---|---|
| Static zone edit pipeline (`internal/filezone`) | zone file, backups, per-zone flock | Apply, ReplaceRaw, ReadRaw, PreviewRaw | CLI, admin UI and helper write concurrently; the operator saves by hand without the lock; rndc fails halfway; processes die |
| Root helper (`internal/zoned`) | connections, eight slots, its audit log | Call, Serve, process | the caller's deadline passes while the edit goes on; stops under running handlers |
| Surgical engine (`internal/zonefile`) | none (bytes to bytes) | Parse, Edit, SerialFloor | serial arithmetic, edits that would change a neighbour line |
| Reload loop (`cmd/goddns/serve.go`, `internal/filewatch`) | published config, routing table, allowlist, console listeners, watcher | start-up, tick, SIGHUP, apply, retry | files change between stat, hash and load; ACME fails after the table is swapped |
| Config (`internal/config`) | none (files to Config) | Load, mergeProxyFragments | three files read at different moments |
| DDNS endpoint (`internal/server`, `internal/ddns`, `internal/store`) | records table, the DNS | poll (two protocols), add, del, rotate | two stores written one after the other, no lock, UDP |
| Key rotation (`cmd/goddns/rotatekey.go`, `internal/tsig`) | key file, named's and the daemon's keys | rotate, roll back | three parties, crash between steps, no lock |
| Zone history and record edits (`internal/history`, `internal/recordmut`, `internal/store/snapshots.go`) | snapshots | sweep, Apply, RestorePlan | the zone moves between transfer and UPDATE |
| Vhost fragments (`internal/vhostmut`) | proxy.d files | Set, Remove | check then write without a lock |
| Proxy (`internal/proxy`) | routing table, token buckets, counters | request gates, allow, flush | limits at their boundary, counters reset by a reload |
| TLS sources (`internal/tlsmgr`) | loaded pairs, ACME management | GetCertificate, reloadIfStale | pair and mtime read at different moments |
| Admin login (`internal/admin` throttle.go, session.go) | failure counts, signed sessions | login, blockedUntil, fail, ok | handlers overlap each other and a change of the password; a doubled lock at its limits |
| Admin pages, BIND inventory, CLI | none of their own | pages, parsing | presentation over the operations above |

They interact through files (goddns.conf, proxy.d, the key file, zone files),
through named (UPDATE, AXFR, rndc), through the SQLite store, and inside the
daemon through an atomic pointer to the published configuration.

What makes each correct: no edit is lost and every success is served
(pipeline); what handlers use is one published configuration, and it becomes
what is on disk (reload); `nochg` is only said when the DNS has the address
(endpoint); file, named and daemon hold one secret (rotation); a restore point
exists for every change (history); a vhost edit never breaks the next reload
(fragments); a client gets its rate and no more, and traffic is stored once
(proxy); a renewed certificate is served (TLS); a session dies with its password
and guessing is slow (login). The hazards are listed in `PROJECT.json`
with the properties that would catch them.

## Modules

| Module | What it is |
|---|---|
| `FileZone` | the edit pipeline and the rules of the surgical engine it calls |
| `AtomicZone` | what the pipeline promises: a file that calls change in one step |
| `Zoned` | the root helper and its callers, over an `AtomicZone` |
| `FileZoneProofs` | theorems about `FileZone`, its refinement of `AtomicZone` among them, and about `Zoned` |
| `MCFileZone` | instance of `FileZone`: two writers, serials modulo 8 |
| `ConfigReload` | start-up and the reload loop, with the watcher and Load |
| `ConfigReloadProofs` | theorems about it |
| `MCConfigReload` | its instance: one host, four main files, three sets of fragments, three key files |
| `DdnsUpdate` | the update endpoint with the store and the updater |
| `DdnsUpdateProofs` | theorems about it |
| `RotateKey` | `goddns rotate-key` with the key file, named and the daemon |
| `ZoneHistory` | record edits, restores, the history poller and the snapshots of a dynamic zone |
| `ZoneHistoryProofs` | theorems about it |
| `MCZoneHistory` | its instance: two editors, two apex NS records, a CNAME and an address at one name, one record of a child |
| `TokenBucket` | what a rate limiter promises: one bucket per client |
| `Limiter` | the proxy's limiter, shown to implement `TokenBucket` |
| `LimiterProofs` | theorems about it, the refinement among them |
| `Traffic` | the proxy's counters, from the request to the store |
| `TrafficProofs` | theorems about it |
| `VhostMut` | setting and removing vhosts in proxy.d |
| `MCVhostMut` | its instance: two editors, two hosts and the admin UI's |
| `Certs` | certificates from files and the hybrid fallback to ACME |
| `VhostProofs` | theorems about `VhostMut` and `Certs` |
| `Login` | the admin UI's login, its throttle and its sessions |
| `CredentialProofs` | theorems about `RotateKey` and `Login` |

The names of `Zoned`, `Certs` and `Login` carry the component's name (LoginInit,
LoginNext) because their proofs share a module with another component's.

### FileZone

One zone. A writer is a call of `Editor.Apply` (a record edit from the CLI, the
admin UI or the helper) or `Editor.ReplaceRaw` (`zone edit`, `zone import`). Its
`pc` follows the call: resolve, lock, read and compute, check and guard, backup,
rename, reload, then verify, or restore when rndc failed. Every return releases
the lock (`ReleaseOf`), every I/O step may fail (`FailEarly`), and a writer may
die anywhere (`Crash`), which frees its flock and leaves the file. A text is its
form (what Parse, screen and canDelete tell apart), its serial and its record
lines. Hand saves, `rndc reload` by the operator, enabling and disabling the
zone, and named's loading are the environment. named loads the file some time
after it was told to; on a failed rndc it may or may not have been told. A record
job adds or deletes one record; `record delset`, which drops several lines in one
edit under the same rules, is left out. Backups are ordered as they were made; the
code orders them by the wall clock in their names, so that a clock set back
between two edits could make it prune the newest one.

### AtomicZone

No lock, no backup, no process: a call asks, its edit replaces the file in one
step by what it makes of all the file holds at that moment, and it is answered:
refused (nothing was changed), ok (the edit was made), rolled_back (it was made
and the file is what the call found), failed (the caller cannot tell). `FileZone`
implements it (EditsAtomic): a call has asked from "ready" on, its edit is made at
the rename, `base` is what it read under the lock. Saves by hand are the one
exception, as the lock does not bind them: a call that one fell into after its
last re-read (`hit`, FileZone's `touched`) may use an older text.

### Zoned

A call of the admin UI dials, writes its request into the socket and waits for one
response; its deadline may pass at any point, and the helper still finds the
request in the socket, also when it only accepts the connection afterwards. The
helper's loop accepts one connection, waits for a slot (`SlotFree`), and the
handler checks the peer, reads the request (or gives up at its own deadline),
processes it, logs it and answers; past its deadline the answer is lost. A stop or
a kill takes every handler with it (`Die`), in the middle of an edit too. The zone
is an `AtomicZone` with the helper's edits and the command line's as callers, so
that what is shown here holds of the pipeline by its refinement. `done` is the
history of edits made and not taken back. Nothing is bounded and nothing assumed
of the constants: the module is for the proofs.

### ConfigReload

One process and the three inputs it reads: goddns.conf, the proxy.d fragments and
the key file, each with a content and an mtime. Watcher.Changed is two steps
(stat; read and hash), Load is three (main file; key file; fragments and verdict),
and the operator may write between any two. A pass of the loop swaps the table,
calls ACME, moves the allowlist and the listeners, and publishes last; the last
three are one step, since the properties compare them between passes. A console
port may fail to bind (`Sync`). The allowlist leaves out goddns's own names
(acme_domain, public_host, the admin UI's). `blind` records the three ways in
which a write can escape the watchers by design of the code.

### DdnsUpdate

A handler looks the token up, compares last_ip, sends the UPDATE and stores
last_ip; the four may interleave with other handlers, with the operator and with
faults: an UPDATE refused, lost, or applied after the timeout (`late`), a store
failure, a restart. `claims`, `last` and `slips` are history variables. A name
slips when its DNS write is not stored (store failure, crash, late UPDATE),
is stored after a newer write, belongs to a record that is gone, or is made by
somebody else; an update stored in order ends it. Slips need no fault: a client
polls from a, moves and polls from b, the UPDATEs are applied b before a, the
stores made a before b, and last_ip is b with a in the DNS; from then on the
endpoint answers `nochg` until the client moves. No property claims otherwise.
BadIP stands for an override that clientIP refuses; addresses of connections and
headers are not checked there. last_seen stamps and
X-Forwarded-For parsing are left out.

### RotateKey

A rotation loads the keyring, writes it back with a new secret, runs rndc
reconfig, tests the key and reloads the daemon; on a failure it writes the old
secret back and reconfigures again. named.conf may or may not include the file;
rndc may fail before or after named acted; the self-test may be skipped because
no zone is found to ask for; a command may be killed. A keyring gives each key
its secret or none. Of the file's syntax there is one thing left: `odd` are the
keys whose blocks named reads and tsig.Parse does not match; they are in no
keyring goddns loads, and gone with its first write. `raced` marks the
rotations during which another one wrote the file, and `stale` that the last
write was given up before named was told: by -no-reconfig, by a kill, or by a
roll-back whose own write or reconfig failed (the failed reconfig is the one that
the command does not report). The daemon's watching of the file
is `ConfigReload`'s; here it is one step.

### ZoneHistory

One dynamic zone. `was` is the zone's content at every serial so far, so a
snapshot can be compared with what the zone was. An editor is a `goddns record`
command or an admin request: it transfers and validates (`Prepare`), stores the
snapshot (`Put`) and sends one UPDATE (`Update`); a restore computes its delta
first (`RestorePlan`) and waits for the operator. The poller asks for the serial,
compares it with the newest snapshot, transfers and stores. Others update the
zone meanwhile, and any call may fail. How named processes an UPDATE is external:
operations in the order they are listed, the apex's last NS record kept, a CNAME
not added beside other data. Left out: an UPDATE applied after its timeout,
serial 0 and the wrap (`ok` of CurrentSerial), differences of the TTL alone,
DNSSEC records, history_keep <= 0 (50 for the poller, unlimited for an editor),
and a zone that changes without its serial.

### Limiter and TokenBucket

`allow` is two steps, since it takes the time before it asks for the lock: a
handler may fill a bucket with an older time than the last one did (`Arrive`,
`Allow`). Tokens are counted in units of one tick's share, so that the code's
floating-point product is exact. The sweep drops idle buckets, sooner when there
are many, never the one in use; a dropped bucket is a full one when its client
comes back. `TokenBucket` has none of that: a bucket per client, refilled with
the clock, and a request takes at least a token. The refinement maps its bucket
to what a client could have at this moment (`Available`); its capacity exceeds
the burst by what a handler's wait for the lock is worth (`MaxLag`), which is how
far the code lets a client go above the promise. The module is about one limiter;
a reload that changes the host's rule starts a new one with full buckets
(proxy.go:174-182). `fair` is the history of the
bucket a client is owed, for the other direction.

### Traffic

A request reads the routing table and later, separately, the counter map, and
then keeps the counters it found (`obj`, a generation) until it ends; reloads
swap the table, prune the map and seed it in three steps. The flusher takes a
snapshot and stores host by host; a failed write leaves `last` and is made up for
by the next flush. Bytes in and out are one kind, the days of the rows are taken
together, status classes and PruneTraffic are left out. Known and excepted: what a
removed host counted after its last flush is not stored; a request routed before
the swap may put its host's counters back into the map, until the next reload.

### VhostMut

A file is what decodeProxy makes of it: absent, undecodable, or rules by host. An
editor (CLI or admin request) reads goddns.conf, then the fragments, and then
writes a temporary file and renames it, or removes the fragment; nothing is
locked. The operator writes any file at any time; `disturbed` are the files so
written since an editor read them. `Loads` is config.Load's verdict on the whole,
as far as hosts go. The values an editor writes are valid by ValidateRule, with
one exception that is not modelled: a console port equal to proxy_listen's, which
Load refuses (config.go:302-309) and ValidateRule does not know; handleProxySet
keeps it out, against the published configuration, and the command line cannot set
console ports. That Go's %q quoting decodes as TOML is assumed. Known: neither
ValidateRule nor the ownership check knows the admin UI's host name, so that a
vhost of that name can be written and is refused by every reload; StaysLoadable
excepts it. Editors of one host overwrite each other, the last rename wins.

### Certs

certbot's two files, the process's own load, and handshakes that each look at the
mtime and load the pair when it advanced. The four steps of a load (certificate,
key, mtime, store) interleave with renewals and with other loads; a key that does
not fit fails the load. In hybrid mode a name without a match goes to ACME when it
is on the allowlist, and else gets the pair as a last resort; without a pair
everything goes to ACME. ACME refusing, failing and not being set up are one
action. A failing stat of a certificate that is there (files.go:53-59, 66-69: the
mtime is kept, the reload put off to the next handshake) is left out. Known: the
pair is read before its mtime, so a certificate written in between leaves the old
pair in memory under the new mtime, until the next renewal or a restart; `raced`
excepts it (files.go says "certbot renewals are picked up with no restart").

### Login

One account. A handler takes the configuration when its request arrives, looks at
the throttle, compares the password (bcrypt, slow) and then records the failure or
opens the session; reloads change or remove the hash meanwhile, also back to an
old one. Instants are kept as distances, so time has no bound; the doubling lock
is computed in integers of `Width` bits. The sweep, expiry and restarts are
modelled; a restart forgets the failures. Not modelled: the outer CIDR and Basic
gates, which only let fewer requests through, and CSRF tokens. throttle.go:11
describes throttling per user name as well; the code throttles addresses only, as
the comment in handleLogin says.

## Runs

| Run | Result | Shows |
|---|---|---|
| `file_zone` | pass | calls change the file atomically and are answered truly, no lost update, backups held, only hand saves break the file, serials advance in RFC 1982 arithmetic unless a submitted one leaps, success reaches named, every call returns |
| `file_rollback` | violation | an edit reported as rolled back is served (docs/PHASE4.md describes a reload in the roll-back) |
| `config_reload` | pass | handlers in step at rest; the loop ends with what is on disk; failed ACME calls are made up for |
| `ddns_update` | pass | last_ip tracks the DNS outside the slips, requests mark their own record, polling settles: a client's address ends up in last_ip, and in the DNS unless the name slipped |
| `ddns_store` | violation | one failed store and a return to the old address end in `nochg` for ever |
| `rotate_key` | pass | overlapping, failing and killed rotations leave named and the daemon with the file's keys, unless the last write was given up before named was told; no readable key is lost; a rotation that is alone is a transaction |
| `zone_history` | pass | snapshots are true, every change has its restore point, undisturbed restores are exact but for one apex NS record, the newest snapshot ends as the zone |
| `limiter` | pass | the limiter with its sweeps and late handlers implements a token bucket per client, and refuses no one who is owed a token |
| `traffic` | pass | in-flight counts are exact, the store counts nothing twice and loses nothing but the excepted, table and map agree, and with the traffic over the store catches up |
| `vhosts` | pass | an edit touches no other host's rules, leaves files that load, and leaves its host goddns's own, but for files edited by hand since they were read |
| `certs` | pass | a renewal ends up served; no order for a name that the files cover; files mode never serves without a pair |
| `login` | pass | a valid session knew the current password; failures in a row are bounded by the locks sat out; every lock ends |

Facts that the passing runs and the theorems except, each a disagreement between
the code and what the repository says of it:

- A roll-back overwrites a save made by hand while rndc ran (filezone.go:392;
  docs/PHASE4.md:88-90 leaves only the gap before the rename).
- An edit through the root helper that was written and whose verify failed stays in
  the file and is not in the helper's audit log (zoned.go:146; the comment at 149-150
  says "the root writer records what it applied"); AuditTrue claims the other
  direction only.
- A route survives turning the proxy off after a first apply failed at ACME
  (serve.go:499; the comment at 497-498 says the table is emptied).
- A file written while the daemon starts is not loaded until the next change
  (serve.go:481, "prime with the already-loaded state").
- Of two overlapping rotations of different keys the later write restores the
  other's old secret (rotatekey.go:55; README.md:95-96).
- A restore to a snapshot without any of the live apex NS records leaves one of
  them (recordmut.go:373; the comment at 271-272).
- A raw edit whose own serial is half the serial space or more ahead of the live
  one, or 2^32-1, publishes a serial that secondaries take for older: 4294967295
  over a live 2026010105 becomes today's 2026010100 (zonefile.go:142-145 "never
  regresses below the live zone", filezone.go:318-321). SerialAdvances excepts it
  (`Leaps`).
- Two polls of one client that overtake each other leave a wrong `nochg` for ever
  without any fault (server.go:111-130; QUICKSTART.md:134 gives `nochg` as "no
  change").
- rotate-key drops the key blocks that its regular expressions do not match
  (tsig.go:27-31; rotatekey.go:20-21 "Other keys in the file are untouched").
- A failed reconfig in rotate-key's roll-back is ignored and the command reports
  "rolled back to the previous key (no change)" with named on the new secret
  (rotatekey.go:68-69).
- ValidateRule promises that "a bad value is rejected at write time rather than
  failing the next reload" (proxy.go:104-105); a console port equal to
  proxy_listen's passes it and not Load.

### Bounds

`file_zone`: two writers, two edits and two operator events. Two edits overlap in
every way, one hand save falls into any gap of either, and the second event lets
named load in between; one backup is kept, so pruning happens at the second edit;
the first serial is one below the wrap and the serial of the day is small;
submitted serials are stale, ahead, and leaping. `config_reload`: two writes, one
SIGHUP or stop and one failure. One write makes a file stale, the second reverts
or overtakes it; texts include a missing main file, a host defined twice, a
fragment that does not decode and a key file without the key. `ddns_update`: two
requests, an IPv4 and an IPv6 address, three administrative operations (add,
delete, add again), two moves of the client (away and back), and one fault of each
kind. `rotate_key`: two rotations over two keys, each in a block that is matched
or not, two faults (a failing step and a failing roll-back) and one kill or
operator's reconfig. `zone_history`: two edits or restores, which overlap or
follow each other, one change by others that falls into any gap, one failure, and
two snapshots retained, so that a third one prunes. `limiter`: two clients, two
handlers, four calls over ten ticks; a bucket empties, refills, is swept at both
limits and comes back. `traffic`: one host, two handlers, four counts, two reloads
(removed and added again), one failed write and one end of the process; more hosts
do not interact. `vhosts`: two editors with three jobs, one hand edit; texts
include a fragment with two hosts and one that does not decode. `certs`: two
handshakes, two renewals (one under way while the other is loaded), one expiry,
one change of the allowlist, a covered name, another one, and none. `login`: two
handlers, one address, two passwords, a threshold of two, locks of 1, 2, 3, 3
minutes in four bits, so that an unclamped shift wraps at the fourth; counters
stop at six, where nothing changes any more. Bounds are guards in the actions and
named MaxXxx; the proofs hold for all of them.

### Fairness

`FileZone`: a writer's next step is taken (rndc, named-checkzone and the editor
end, a free lock is granted), and named loads what it was told to. No fairness
for crashes, the operator, or new edits. `ConfigReload`: the loop's goroutine
runs and its ticker fires; nobody has to write, signal, stop or start anything.
`DdnsUpdate`: a request runs to its end (five second timeout, local store), and a
client polls again and again, which is what a DDNS client is; failures are
bounded, since a network that always fails serves nobody. `RotateKey`: rndc, the
self-test and systemctl return, and the daemon's ticker fires. `ZoneHistory`: the
poller's goroutine runs and history is enabled; no editor has to go on.
`Traffic`: the flusher's ticker fires and a reload that has begun ends; no request
has to. `Certs`: handshakes keep coming and run to their end, and certbot, having
written one of its files, writes the other. `Login`: time passes, and nothing else
has to happen.

## Proofs

`FileZoneProofs`: TypeOK, BackupHeld, BrokenOnlyByHand, and the action
properties WritersSerialize, SerialAdvances and AppliedReachesNamed. The
inductive invariant says that a writer past the lock holds it, so at most one is
there; that from the guard on its `new` text is computed from `orig` and passes
the check; that, unless a hand save touched it, the file is `orig` before and
`new` after its rename; and that its backup is the newest, which pruning keeps.
Assumed: the constants' types, at least one backup kept, and a serial of the day
below half of the serial space (2026010101 < 2^31).

The same module proves that `FileZone` implements `AtomicZone` (PipelineIsAtomic).
Each action is matched with one of the abstract ones: submitting with Ask, the
rename with Apply, each return with the answer it gives, and all else stutters.
Apply needs most of the invariant: the file is `orig` unless a hand save hit the
writer, the new text is Compute's of `orig` and passes the check, and no other
writer is past its rename, since that one would hold the lock.

Of `Zoned` it proves ReportedIsDone, AuditTrue and HandlersBounded. The invariant
says that a call's edit is with the pipeline exactly while its handler is in
Apply, that it has been made or not accordingly, that what is logged was made and
that an ok, in the response or at the caller, is of a logged edit.

`ConfigReloadProofs`: TypeOK and InStep. InStep speaks of the loop at rest; the
invariant says for every point of a pass whether table, allowlist and listeners
belong to the published or to the next configuration, and that a retry applies
the published one.

`DdnsUpdateProofs`: TypeOK, OwnMarks and LastIpTracksDns. A request's id belongs
to its own record or to none, because ids are handed out in order; the last
writer's address stays in the DNS until it is stored.

`CredentialProofs`, of `RotateKey`: TypeOK, InSync, Transactional and KeysKept. As
long as named and the file differ, some rotation is between its write and the end
of its reconfig or roll-back, or `stale` holds; a rotation that nobody raced finds
in the file what it last wrote, and what it holds differs from what it read in one
secret, which is larger than every secret in use before. For KeysKept: a keyring
that a running rotation holds has exactly the keys that are readable in the file.
Of `Login`: LoginTypeOK, SessionsKnowPassword and GuessesBounded. A session
carries the signature of the hash its login compared with. Failures are counted
against locks: a client that is not locked has at most the failures below the
threshold and, for each lock it sat out, one for each handler; of one that is
locked the failures and the handlers that are past the check together fit into one
lock more. Assumed of the integers: that the powers of two up to the clamp of the
shift fit into `Width` bits (PowersAssumption), which TLC evaluates.

`ZoneHistoryProofs`: TypeOK, SnapshotsTrue, RestorePoint and RestoreExact. Ids are
handed out in order and the newest `Keep` of them are held, so the snapshot an
editor took is in the table until that many newer ones exist; past `Put` it holds
what the editor transferred. For restores: the zone, and therefore every
snapshot, always has an apex NS record and no CNAME beside other data, and a
restore's operations are the delta from the zone at `planned`. Assumed: the
first zone is such a zone, clashes are symmetric and not at the apex or in the
child, at least one snapshot is kept.

`LimiterProofs`: TypeOK, RefusedOnlyWhenDry, and that `Limiter` implements
`TokenBucket`. The invariant bounds how far a bucket's time is behind or ahead of
a handler's by MaxLag, says that a swept bucket would be full by now, which needs
a minute to be longer than a bucket takes to fill, and that a bucket holds at
least what its client is owed. Every step then is a refill, a grant, a loss, or
stutters.

`TrafficProofs`: TypeOK, ActiveExact, NeverCountedTwice, NothingLost, InStep. The
invariant relates a host's rows, its last flush, the running flush's snapshot and
its counters: the rows are at most what was made, and for a host never removed
rows, pending and lost add up to it; a handler's generation is never newer than
the map's, so those that hold the current one are the ones counted in flight.

`VhostProofs`, of `VhostMut`: TypeOK, OwnRulesOnly, StaysLoadable, SetIsOwned.
What an editor found in a file stays true until it writes unless the operator
edits that file: another editor's rename can add its own host to its own fragment
and nothing else, so no check of another host is made stale. Of `Certs`:
CertsTypeOK and NoNeedlessOrder. Unless `raced`, what is kept or about to be kept
is filed under its own mtime; so a handshake during which the files were left
alone has the pair on disk in memory when it looks for a match, and goes to ACME
only with a name the pair does not cover.

The TypeOK of FileZone, DdnsUpdate, RotateKey, Limiter, Traffic, VhostMut and
Zoned is left to the proofs.

Only model-checked: the liveness properties EditReturns, Converges, CertsFollow,
PollsSettle, DaemonFollows, HistoryCatchesUp, CatchesUp, RenewalServed and
LocksEnd (the prover does not handle fairness), and the violations. Every other
property of a passing run is a theorem.

Only proved: `Zoned`, which has no run. That every connection of the helper ends
and gives its slot back is liveness and is not shown.

## Not modelled

The tokenizer of zone files and the parsing of named.conf (text processing whose
verdicts are inputs here), AXFR and health checks (read-only), the admin pages,
CSRF tokens and templates, log targets, command-line parsing, the proxy's
forwarding of a request (headers, transports), certmagic. px.Update's error branch
in a reload cannot be reached, since Load validates the same rules.

## Plan

Modelled so far, in this order: the edit pipeline, the reload loop, the update
endpoint, key rotation, zone history, the limiter, traffic, vhost fragments,
certificates, login, the root helper. Left: an abstract specification of a zone
with undo, implemented by `ZoneHistory`.
