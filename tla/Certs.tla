------------------------------- MODULE Certs -------------------------------
(***************************************************************************)
(* The certificate sources of the TLS listener in the modes "files" and    *)
(* "hybrid" (internal/tlsmgr files.go, hybrid.go; serve.go chooses).       *)
(*                                                                         *)
(* certbot writes the certificate and its key one after the other.  Every  *)
(* handshake looks at the certificate's mtime, and loads the pair when it  *)
(* is newer than the one in memory; handshakes load at the same time and   *)
(* only the last step is under a lock.  In hybrid mode a name that the     *)
(* pair does not cover, or no longer, is ordered from ACME when it is on   *)
(* the allowlist, which every reload replaces.  The stat of a certificate  *)
(* that is there does not fail.                                            *)
(***************************************************************************)
EXTENDS Naturals

CONSTANTS
  Handshakes,   \* concurrent handshakes
  Boot,         \* the process's own load at start-up
  Names,        \* server names a client may ask for
  Covered,      \* those the files' certificate is for
  Blank,        \* no server name in the hello
  MaxRenewals,  \* bound: renewals
  MaxExpired,   \* bound: certificates that expire
  MaxReloads    \* bound: changes of the allowlist

ASSUME CertsAssumption ==
  /\ Boot \notin Handshakes /\ Covered \subseteq Names /\ Blank \notin Names
  /\ MaxRenewals \in Nat /\ MaxExpired \in 0 .. MaxRenewals /\ MaxReloads \in Nat

Procs == Handshakes \union {Boot}
Gen == 0 .. MaxRenewals   \* certificates in the order of their issue

VARIABLES
  mode,        \* tls_mode: "files" or "hybrid"
  cert, key,   \* the pair on disk: which certificate, and whose key
  mtime,       \* the certificate file's
  expired,     \* certificates below this one are out of date
  up,          \* the process serves
  have,        \* it has a pair in memory (in hybrid mode it may do without)
  mem,         \* that pair
  modTime,     \* the mtime kept with it
  allow,       \* the on-demand allowlist
  stage, goal, \* where each load or handshake is, and what for
  name, now,   \* the name asked for, and the certificates out of date by then
  gotCert, gotTime,  \* what a load has read
  ordered,     \* names ACME has a certificate for
  reloads,     \* counter for the bound
  raced,       \* history: a certificate was written between the two looks at
               \* the file of one load
  fresh        \* history: the handshake began with a pair on disk in date, no
               \* load still had an older one in hand, and it was left alone since

disk == <<cert, key, mtime>>
memory == <<up, have, mem, modTime>>
hello == <<name, now>>
got == <<gotCert, gotTime>>
certsVars == <<mode, disk, expired, memory, allow, stage, goal, hello, got,
               ordered, reloads, raced, fresh>>

Loading == {"cert", "key", "stat", "store"}

CertsTypeOK ==
  /\ mode \in {"files", "hybrid"}
  /\ {cert, key, mtime, mem, modTime} \subseteq Gen /\ expired \in Gen
  /\ up \in BOOLEAN /\ have \in BOOLEAN /\ (mode = "files" /\ up => have)
  /\ allow \subseteq Names /\ ordered \subseteq Names
  /\ stage \in [Procs -> Loading \union {"idle", "begun", "pick", "acme"}]
  /\ goal \in [Procs -> {"match", "last"}]
  /\ name \in [Procs -> Names \union {Blank}] /\ now \in [Procs -> Gen]
  /\ gotCert \in [Procs -> Gen] /\ gotTime \in [Procs -> Gen]
  /\ reloads \in 0 .. MaxReloads
  /\ raced \in BOOLEAN /\ fresh \in [Procs -> BOOLEAN]

CertsInit ==
  /\ mode \in {"files", "hybrid"}
  /\ cert = 0 /\ key = 0 /\ mtime = 0 /\ expired = 0
  /\ up = FALSE /\ have = FALSE /\ mem = 0 /\ modTime = 0
  /\ allow = (IF mode = "hybrid" THEN Names ELSE {})
  /\ stage = [p \in Procs |-> IF p = Boot THEN "cert" ELSE "idle"]
  /\ goal = [p \in Procs |-> "last"]
  /\ name = [p \in Procs |-> Blank] /\ now = [p \in Procs |-> 0]
  /\ gotCert = [p \in Procs |-> 0] /\ gotTime = [p \in Procs |-> 0]
  /\ ordered = {} /\ reloads = 0
  /\ raced = FALSE /\ fresh = [p \in Procs |-> FALSE]

-----------------------------------------------------------------------------
(* certbot, the clock, and the reload loop. *)

\* The next certificate and its key, in either order.
WriteCert ==
  /\ cert <= key /\ cert < MaxRenewals
  /\ cert' = cert + 1 /\ mtime' = mtime + 1
  /\ raced' = (raced \/ \E p \in Procs : stage[p] \in {"key", "stat"})
  /\ fresh' = [p \in Procs |-> FALSE]
  /\ UNCHANGED <<mode, key, expired, memory, allow, stage, goal, hello, got, ordered, reloads>>

WriteKey ==
  /\ key <= cert /\ key < MaxRenewals
  /\ key' = key + 1
  /\ fresh' = [p \in Procs |-> FALSE]
  /\ UNCHANGED <<mode, cert, mtime, expired, memory, allow, stage, goal, hello, got,
                 ordered, reloads, raced>>

\* The oldest certificate still in date expires.
Expire ==
  /\ expired < MaxExpired /\ expired' = expired + 1
  /\ fresh' = [p \in Procs |-> FALSE]
  /\ UNCHANGED <<mode, disk, memory, allow, stage, goal, hello, got, ordered, reloads, raced>>

SetAllowed ==
  /\ mode = "hybrid" /\ reloads < MaxReloads /\ reloads' = reloads + 1
  /\ allow' \in SUBSET Names \ {allow}
  /\ UNCHANGED <<mode, disk, expired, memory, stage, goal, hello, got, ordered, raced, fresh>>

-----------------------------------------------------------------------------
(* Files.load. *)

Goes(p, step) == stage' = [stage EXCEPT ![p] = step]

\* LoadX509KeyPair reads the certificate,
ReadCert(p) ==
  /\ stage[p] = "cert"
  /\ gotCert' = [gotCert EXCEPT ![p] = cert]
  /\ Goes(p, "key")
  /\ UNCHANGED <<mode, disk, expired, memory, allow, goal, hello, gotTime, ordered,
                 reloads, raced, fresh>>

\* then the key, and they must belong together.
ReadKey(p) ==
  /\ stage[p] = "key" /\ key = gotCert[p]
  /\ Goes(p, "stat")
  /\ UNCHANGED <<mode, disk, expired, memory, allow, goal, hello, got, ordered,
                 reloads, raced, fresh>>

LoadFailedServes ==
  /\ up' = TRUE
  /\ UNCHANGED <<have, mem, modTime>>

\* A load that fails changes nothing; without a pair at start-up hybrid mode
\* goes on, and files mode gives up and is started again.
LoadFailed ==
  /\ up' = (up \/ mode = "hybrid")
  /\ UNCHANGED <<have, mem, modTime>>

ReadWrongKey(p) ==
  /\ stage[p] = "key" /\ key # gotCert[p]
  /\ LoadFailed
  /\ gotCert' = [gotCert EXCEPT ![p] = 0]
  /\ Goes(p, IF p # Boot THEN "pick" ELSE IF mode = "hybrid" THEN "idle" ELSE "cert")
  /\ UNCHANGED <<mode, disk, expired, allow, goal, hello, gotTime, ordered, reloads,
                 raced, fresh>>

\* The mtime is read after the pair.
Stat(p) ==
  /\ stage[p] = "stat"
  /\ gotTime' = [gotTime EXCEPT ![p] = mtime]
  /\ Goes(p, "store")
  /\ UNCHANGED <<mode, disk, expired, memory, allow, goal, hello, gotCert, ordered,
                 reloads, raced, fresh>>

Store(p) ==
  /\ stage[p] = "store"
  /\ up' = TRUE /\ have' = TRUE /\ mem' = gotCert[p] /\ modTime' = gotTime[p]
  /\ gotCert' = [gotCert EXCEPT ![p] = 0] /\ gotTime' = [gotTime EXCEPT ![p] = 0]
  /\ Goes(p, IF p = Boot THEN "idle" ELSE "pick")
  /\ UNCHANGED <<mode, disk, expired, allow, goal, hello, ordered, reloads, raced, fresh>>

-----------------------------------------------------------------------------
(* GetCertificate. *)

\* What a handshake asks of the pair: files mode serves what it has, whatever
\* the name, hybrid mode first wants a match.  Without a pair only ACME is left, and a name on
\* the allowlist is taken to it twice.
Wants(n) ==
  IF mode = "hybrid" /\ n # Blank /\ (have \/ n \in allow) THEN "match" ELSE "last"

Begin(h) ==
  /\ up /\ stage[h] = "idle"
  /\ \E n \in {Blank} \union (IF mode = "hybrid" THEN Names ELSE {}) :
       name' = [name EXCEPT ![h] = n] /\ goal' = [goal EXCEPT ![h] = Wants(n)]
  /\ now' = [now EXCEPT ![h] = expired]
  /\ Goes(h, IF have THEN "begun" ELSE "acme")
  /\ fresh' = [fresh EXCEPT ![h] =
       /\ have /\ cert = key /\ cert >= expired
       /\ \A p \in Procs : stage[p] \in {"key", "stat", "store"} => gotCert[p] = cert]
  /\ UNCHANGED <<mode, disk, expired, memory, allow, got, ordered, reloads, raced>>

\* The handshake has its certificate, or none.
Answered(h) ==
  /\ Goes(h, "idle")
  /\ goal' = [goal EXCEPT ![h] = "last"]
  /\ name' = [name EXCEPT ![h] = Blank] /\ now' = [now EXCEPT ![h] = 0]
  /\ fresh' = [fresh EXCEPT ![h] = FALSE]

StaleReversed(h) == modTime > mtime

StaleLastOnly(h) == goal[h] = "last" /\ mtime > modTime

\* reloadIfStale: the mtime advanced.
Stale(h) == mtime > modTime

reloadIfStale(h) ==
  /\ stage[h] = "begun"
  /\ Goes(h, IF Stale(h) THEN "cert" ELSE "pick")
  /\ UNCHANGED <<mode, disk, expired, memory, allow, goal, hello, got, ordered,
                 reloads, raced, fresh>>

\* matching: the pair was in date when the handshake began and covers the name.
Matches(h) == name[h] \in Covered /\ mem >= now[h]

\* The pair is served, as a match or as the last resort.
Serve(h) ==
  /\ stage[h] = "pick"
  /\ goal[h] = "last" \/ Matches(h)
  /\ Answered(h)
  /\ UNCHANGED <<mode, disk, expired, memory, allow, got, ordered, reloads, raced>>

\* No match: to ACME for a name on the allowlist, else the last resort.
NoMatch(h) ==
  /\ stage[h] = "pick" /\ goal[h] = "match" /\ ~Matches(h)
  /\ \/ name[h] \in allow /\ Goes(h, "acme") /\ UNCHANGED goal
     \/ name[h] \notin allow /\ Goes(h, "begun") /\ goal' = [goal EXCEPT ![h] = "last"]
  /\ UNCHANGED <<mode, disk, expired, memory, allow, hello, got, ordered, reloads, raced, fresh>>

\* Decide, the gate certmagic asks before an order.
Decide(n) == n \in allow

\* certmagic has the name's certificate or gets it.
Order(h) ==
  /\ stage[h] = "acme"
  /\ name[h] \in ordered \/ Decide(name[h])
  /\ ordered' = ordered \union {name[h]}
  /\ Answered(h)
  /\ UNCHANGED <<mode, disk, expired, memory, allow, got, reloads, raced>>

\* Refused, failed, or ACME not set up: the pair as the last resort, without
\* one ACME again.
OrderFails(h) ==
  /\ stage[h] = "acme" /\ name[h] \notin ordered
  /\ have \/ goal[h] = "match"
  /\ Goes(h, IF have THEN "begun" ELSE "acme")
  /\ goal' = [goal EXCEPT ![h] = "last"]
  /\ UNCHANGED <<mode, disk, expired, memory, allow, hello, got, ordered, reloads, raced, fresh>>

\* No certificate at all.
Abort(h) ==
  /\ stage[h] = "acme" /\ name[h] \notin ordered
  /\ ~have /\ goal[h] = "last"
  /\ Answered(h)
  /\ UNCHANGED <<mode, disk, expired, memory, allow, got, ordered, reloads, raced>>

Load(p) == ReadCert(p) \/ ReadKey(p) \/ ReadWrongKey(p) \/ Stat(p) \/ Store(p)
Handshake(h) ==
  \/ Begin(h) \/ reloadIfStale(h) \/ Serve(h) \/ NoMatch(h) \/ Order(h)
  \/ OrderFails(h) \/ Abort(h)
Environment == WriteCert \/ WriteKey \/ Expire \/ SetAllowed

CertsNext == Environment \/ (\E p \in Procs : Load(p)) \/ \E h \in Handshakes : Handshake(h)

CertsSpec == CertsInit /\ [][CertsNext]_certsVars

\* Clients keep coming, a handshake and a load go on, a renewal ends.
CertsFairSpec ==
  /\ CertsSpec
  /\ \A p \in Procs : WF_certsVars(Load(p))
  /\ \A h \in Handshakes : WF_certsVars(Handshake(h))
  /\ WF_certsVars(cert # key /\ (WriteCert \/ WriteKey))

-----------------------------------------------------------------------------
(* Properties. *)

(***************************************************************************)
(* Renewals are picked up without a restart: in the end the handshakes are *)
(* served the certificate on disk, loads that met a half-written pair      *)
(* tried again and older pairs stored late replaced, unless a certificate  *)
(* was written between a load's reading of it and of its mtime, or hybrid  *)
(* mode started without a pair.                                            *)
(***************************************************************************)
RenewalServed == <>[](have /\ ~raced => mem = cert)

(***************************************************************************)
(* Nothing is ordered from ACME that the files cover: not when the pair on *)
(* disk is in date as a handshake begins and stays as it is, whatever pair *)
(* is in memory, unless another handshake's load still holds an older one. *)
(***************************************************************************)
NoNeedlessOrder ==
  \A h \in Handshakes :
    stage[h] = "acme" /\ name[h] \in Covered /\ fresh[h] => raced
=============================================================================
