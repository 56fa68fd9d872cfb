------------------------------ MODULE VhostMut ------------------------------
(***************************************************************************)
(* The proxy-vhost write layer (internal/vhostmut) under its two users, the *)
(* vhost command and the admin UI: a host's rule is the file               *)
(* proxy.d/<host>.conf, written or removed only when goddns owns it.       *)
(*                                                                         *)
(* Set and Remove read goddns.conf, then the fragments, and act on what    *)
(* they read; there is no lock.  The previews that both users show first   *)
(* are the same reads without the write, and Set and Remove read again.    *)
(* The operator edits any file at any time.                                *)
(***************************************************************************)
EXTENDS Naturals, FiniteSets

CONSTANTS
  Hosts,      \* vhost names; a host also names its file proxy.d/<host>.conf
  AdminHost,  \* the admin UI's host name in goddns.conf
  Base,       \* goddns.conf
  Other,      \* a fragment named after no host
  Rules,      \* proxy rules
  NoRule,     \* no rule
  Writers,    \* vhost commands and admin requests
  HandTexts,  \* what the operator writes
  MaxHands,   \* bound: hand edits
  MaxJobs     \* bound: Sets and Removes

Files == Hosts \union {Base, Other}

\* A file's text: whether it is there and decodes, and the rules it has.
Text == [state : {"absent", "bad", "ok"}, rules : [Hosts -> Rules \union {NoRule}]]

NoRules == [h \in Hosts |-> NoRule]
Absent == [state |-> "absent", rules |-> NoRules]

ASSUME VhostAssumption ==
  /\ NoRule \notin Rules /\ Base \notin Hosts /\ Other \notin Hosts /\ Base # Other
  /\ HandTexts \subseteq Text
  /\ \A t \in HandTexts : t.state # "ok" => t.rules = NoRules
  /\ MaxHands \in Nat /\ MaxJobs \in Nat

VARIABLES
  file,       \* the files' texts
  at,         \* where each writer is
  op,         \* "set" or "remove"
  host, rule, \* its arguments
  conflict,   \* the host is defined where goddns does not own it
  hands, jobs,  \* counters for the bounds
  disturbed   \* history: files the operator edited since the writer read them

jobVars == <<op, host, rule>>
vars == <<file, at, jobVars, conflict, hands, jobs, disturbed>>

TypeOK ==
  /\ file \in [Files -> Text]
  /\ \A n \in Files : file[n].state # "ok" => file[n].rules = NoRules
  /\ at \in [Writers -> {"idle", "asked", "base", "checked", "temp"}]
  /\ op \in [Writers -> {"set", "remove"}]
  /\ host \in [Writers -> Hosts] /\ rule \in [Writers -> Rules]
  /\ conflict \in [Writers -> BOOLEAN] /\ disturbed \in [Writers -> SUBSET Files]
  /\ hands \in 0 .. MaxHands /\ jobs \in 0 .. MaxJobs

Init ==
  /\ \E t \in HandTexts :
       t.state = "ok" /\ file = [n \in Files |-> IF n = Base THEN t ELSE Absent]
  /\ at = [w \in Writers |-> "idle"] /\ op = [w \in Writers |-> "set"]
  /\ host \in [Writers -> Hosts] /\ rule \in [Writers -> Rules]
  /\ conflict = [w \in Writers |-> FALSE] /\ disturbed = [w \in Writers |-> {}]
  /\ hands = 0 /\ jobs = 0

-----------------------------------------------------------------------------
\* The hosts a text defines (decodeProxy).
Defined(t) == {h \in Hosts : t.rules[h] # NoRule}

\* config.Load accepts the files: all decode, no host is defined twice, and
\* none is the admin UI's.  The values of a rule that a writer sets are valid,
\* for ValidateRule has checked them; a console port equal to proxy_listen's, which
\* it does not check, is kept out of the form by handleProxySet and not modelled.
Loads(f) ==
  /\ f[Base].state = "ok"
  /\ \A n \in Files : f[n].state # "bad" /\ AdminHost \notin Defined(f[n])
  /\ \A n, m \in Files : n # m => Defined(f[n]) \intersect Defined(f[m]) = {}

\* renderFragment: one vhost per file.  That what Go's %q quotes decodes as TOML is
\* assumed here; it does for printable text.
Rendered(h, r) == [state |-> "ok", rules |-> [NoRules EXCEPT ![h] = r]]

Idle(w) == at' = [at EXCEPT ![w] = "idle"]

\* A valid rule for a valid host, or a host to remove.
Ask(w) ==
  /\ at[w] = "idle"
  /\ jobs < MaxJobs /\ jobs' = jobs + 1
  /\ at' = [at EXCEPT ![w] = "asked"]
  /\ \E o \in {"set", "remove"} : op' = [op EXCEPT ![w] = o]
  /\ \E h \in Hosts : host' = [host EXCEPT ![w] = h]
  /\ \E r \in Rules : rule' = [rule EXCEPT ![w] = r]
  /\ disturbed' = [disturbed EXCEPT ![w] = {}]
  /\ UNCHANGED <<file, conflict, hands>>

\* ownership: goddns.conf first.
ReadBase(w) ==
  /\ at[w] = "asked"
  /\ file[Base].state # "bad"
  /\ at' = [at EXCEPT ![w] = "base"]
  /\ conflict' = [conflict EXCEPT ![w] = host[w] \in Defined(file[Base])]
  /\ disturbed' = [disturbed EXCEPT ![w] = {}]
  /\ UNCHANGED <<file, jobVars, hands, jobs>>

ManagedLoosely(h) == h \in Defined(file[h])

\* goddns owns proxy.d/<host>.conf when it defines exactly that host.
Managed(h) == Defined(file[h]) = {h}

ElsewhereBaseOnly(h) == FALSE

\* Another fragment defines h, or h's own is not one of goddns's.
Elsewhere(h) ==
  \/ file[h].state = "ok" /\ ~Managed(h)
  \/ \E n \in Files \ {Base, h} : h \in Defined(file[n])

\* ownership: then the fragments.
ReadFragments(w) ==
  /\ at[w] = "base"
  /\ \A n \in Files \ {Base} : file[n].state # "bad"
  /\ \/ op[w] = "set" /\ ~conflict[w] /\ ~Elsewhere(host[w])
     \/ op[w] = "remove" /\ Managed(host[w])
  /\ at' = [at EXCEPT ![w] = "checked"]
  /\ disturbed' = [disturbed EXCEPT ![w] = disturbed[w] \intersect {Base}]
  /\ UNCHANGED <<file, jobVars, conflict, hands, jobs>>

WriteInPlace(w) ==
  /\ at[w] = "checked" /\ op[w] = "set"
  /\ at' = [at EXCEPT ![w] = "temp"]
  /\ file' = [file EXCEPT ![host[w]] = [state |-> "bad", rules |-> NoRules]]
  /\ UNCHANGED <<jobVars, conflict, hands, jobs, disturbed>>

\* writeFragment, up to the rename: proxy.d/.vhost-*.tmp, which no *.conf glob
\* sees.
WriteTemp(w) ==
  /\ at[w] = "checked" /\ op[w] = "set"
  /\ at' = [at EXCEPT ![w] = "temp"]
  /\ UNCHANGED <<file, jobVars, conflict, hands, jobs, disturbed>>

Rename(w) ==
  /\ at[w] = "temp"
  /\ file' = [file EXCEPT ![host[w]] = Rendered(host[w], rule[w])]
  /\ Idle(w)
  /\ UNCHANGED <<jobVars, conflict, hands, jobs, disturbed>>

\* Remove: os.Remove.
Unlink(w) ==
  /\ at[w] = "checked" /\ op[w] = "remove"
  /\ file[host[w]].state # "absent"
  /\ file' = [file EXCEPT ![host[w]] = Absent]
  /\ Idle(w)
  /\ UNCHANGED <<jobVars, conflict, hands, jobs, disturbed>>

\* Refused, aborted at the prompt, failed, or killed.
Fail(w) ==
  /\ at[w] # "idle"
  /\ Idle(w)
  /\ UNCHANGED <<file, jobVars, conflict, hands, jobs, disturbed>>

\* The operator writes or removes a file.
Hand(n) ==
  /\ hands < MaxHands /\ hands' = hands + 1
  /\ \E t \in HandTexts :
       /\ n = Base => t.state # "absent"
       /\ file' = [file EXCEPT ![n] = t]
  /\ disturbed' = [w \in Writers |-> disturbed[w] \union {n}]
  /\ UNCHANGED <<at, jobVars, conflict, jobs>>

Writer(w) ==
  \/ Ask(w) \/ ReadBase(w) \/ ReadFragments(w) \/ WriteTemp(w) \/ Rename(w)
  \/ Unlink(w) \/ Fail(w)

Next == (\E w \in Writers : Writer(w)) \/ \E n \in Files : Hand(n)

Spec == Init /\ [][Next]_vars

-----------------------------------------------------------------------------
(* Properties. *)

\* A writer ends its job with a change of the files.
Wrote(w) == at[w] # "idle" /\ at'[w] = "idle" /\ file' # file

(***************************************************************************)
(* goddns edits only what it owns: a Set or Remove leaves every other      *)
(* host's rules as they are, in every file, and never rewrites             *)
(* goddns.conf, whatever other writers did since it looked; only an        *)
(* operator who edits the very fragment between the check and the write    *)
(* may lose by it.                                                         *)
(***************************************************************************)
OwnRulesOnly ==
  [][\A w \in Writers : Wrote(w) /\ host[w] \notin disturbed[w] =>
       /\ file'[Base] = file[Base]
       /\ \A n \in Files : \A h \in Hosts \ {host[w]} :
            file'[n].rules[h] = file[n].rules[h]]_vars

\* A writer goes on, and the operator has left alone what it goes by.
MayWrite(w) ==
  at'[w] # at[w] /\ host[w] # AdminHost /\ disturbed[w] \subseteq {host[w]}

(***************************************************************************)
(* A step of goddns's own never makes a configuration that loads into one  *)
(* that does not, so that every reload before and after it succeeds: two   *)
(* writers at once do not define a host twice, nobody sees a fragment half *)
(* written, and a killed writer leaves nothing behind that is read.        *)
(* Excepted are a hand edit of another file since the writer read it, and  *)
(* a rule for the admin UI's own host, which is not checked here.          *)
(***************************************************************************)
StaysLoadable ==
  [][Loads(file) /\ (\E w \in Writers : MayWrite(w)) => Loads(file')]_vars

(***************************************************************************)
(* A Set defines its host in its own file, and in no other that the        *)
(* operator has left alone since it was read: the rule is the one served,  *)
(* and the next Set or Remove finds a fragment it owns.                    *)
(***************************************************************************)
SetIsOwned ==
  [][\A w \in Writers : Wrote(w) /\ op[w] = "set" =>
       /\ Defined(file'[host[w]]) = {host[w]}
       /\ \A n \in Files \ ({host[w]} \union disturbed[w]) : host[w] \notin Defined(file'[n])]_vars
=============================================================================
