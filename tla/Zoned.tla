------------------------------- MODULE Zoned -------------------------------
(***************************************************************************)
(* The root helper (internal/zoned): the admin UI sends one record edit    *)
(* over a unix socket, the helper runs it through the edit pipeline and    *)
(* answers.  Both sides set a deadline on the connection; the pipeline has *)
(* none, so an edit goes on when its caller has given up.                  *)
(*                                                                         *)
(* The zone file is AtomicZone's, which FileZone implements: each call's   *)
(* edit is a caller of it, beside the edits of the command line.           *)
(***************************************************************************)
EXTENDS Naturals, FiniteSets

CONSTANTS
  Calls,        \* calls of the admin UI, each with a connection of its own
  Direct,       \* edits on the command line, which go to the file directly
  Edits,        \* add and del of a record
  NoEdit,
  Contents,     \* what the zone file may hold
  NoContent,
  Content0,
  Saved,        \* what is saved by hand
  Made(_, _),   \* what an edit makes of a content, NoContent if it is refused
  Acceptable(_) \* named takes the content

VARIABLES
  text, phase, ask, base, answer, hit,   \* the zone file, see AtomicZone
  call,      \* each call as the admin UI sees it
  want,      \* the edit it is to make
  kind,      \* an edit or a preview, or from a peer that is not of the group
  wrote,     \* its request is in the socket
  conn,      \* its connection, as the helper sees it
  resp,      \* the helper's response
  dead,      \* the helper is not running
  audit,     \* the helper's audit log
  done       \* history: times a call's edit was made and not taken back

Z == INSTANCE AtomicZone WITH
  Callers <- Calls \union Direct, Jobs <- Edits, NoJob <- NoEdit,
  Texts <- Contents, NoText <- NoContent, HandTexts <- Saved,
  InitialText <- Content0, Edited <- Made, Accepted <- Acceptable

zoneVars == <<text, phase, ask, base, answer, hit>>
clientVars == <<call, want, kind, wrote>>
helperVars == <<conn, resp, dead, audit>>
zonedVars == <<zoneVars, clientVars, helperVars, done>>

\* A connection waits in the listener's backlog, is accepted and waits for a
\* slot, and has one from "decode" to "reply".
Serving == {"decode", "process", "edit", "audit", "reply"}
Conn == {"none", "backlog", "accepted", "closed"} \union Serving

Kinds == {"edit", "preview", "stranger"}

ZonedTypeOK ==
  /\ phase \in [Calls \union Direct -> {"idle", "asked", "applied"}]
  /\ answer \in [Calls \union Direct -> {"none", "ok", "refused", "rolled_back", "failed"}]
  /\ call \in [Calls -> {"new", "dialed", "sent", "ok", "error", "lost"}]
  /\ want \in [Calls -> Edits \union {NoEdit}]
  /\ kind \in [Calls -> Kinds] /\ wrote \in [Calls -> BOOLEAN]
  /\ conn \in [Calls -> Conn]
  /\ resp \in [Calls -> {"none", "ok", "error"}]
  /\ dead \in BOOLEAN
  /\ audit \subseteq Calls
  /\ done \in [Calls -> Nat]

ZonedInit ==
  /\ Z!Init
  /\ call = [c \in Calls |-> "new"] /\ want = [c \in Calls |-> NoEdit]
  /\ kind = [c \in Calls |-> "preview"] /\ wrote = [c \in Calls |-> FALSE]
  /\ conn = [c \in Calls |-> "none"] /\ resp = [c \in Calls |-> "none"]
  /\ dead = FALSE /\ audit = {}
  /\ done = [c \in Calls |-> 0]

-----------------------------------------------------------------------------
(* Call, in the admin UI. *)

Becomes(c, how) == call' = [call EXCEPT ![c] = how]

\* Dial; it fails when there is no helper, or none that listens.
Dial(c) ==
  /\ call[c] = "new"
  /\ \E j \in Edits : want' = [want EXCEPT ![c] = j]
  /\ \E k \in Kinds : kind' = [kind EXCEPT ![c] = k]
  /\ \/ ~dead /\ Becomes(c, "dialed") /\ conn' = [conn EXCEPT ![c] = "backlog"]
     \/ Becomes(c, "lost") /\ UNCHANGED conn
  /\ UNCHANGED <<zoneVars, wrote, resp, dead, audit, done>>

\* The request goes into the socket's buffer, accepted or not.
Send(c) ==
  /\ call[c] = "dialed" /\ conn[c] # "closed"
  /\ Becomes(c, "sent")
  /\ wrote' = [wrote EXCEPT ![c] = TRUE]
  /\ UNCHANGED <<zoneVars, want, kind, helperVars, done>>

\* A response has come, which is the helper's last word.
Receive(c) ==
  /\ call[c] = "sent" /\ conn[c] = "closed" /\ resp[c] # "none"
  /\ Becomes(c, resp[c])
  /\ UNCHANGED <<zoneVars, want, kind, wrote, helperVars, done>>

\* The deadline passes, or the helper closes the connection without a response.
GiveUp(c) ==
  /\ call[c] \in {"dialed", "sent"}
  /\ Becomes(c, "lost")
  /\ UNCHANGED <<zoneVars, want, kind, wrote, helperVars, done>>

-----------------------------------------------------------------------------
(* The helper. *)

Goes(c, from, to) == ~dead /\ conn[c] = from /\ conn' = [conn EXCEPT ![c] = to]
Answers(c, how) == resp' = [resp EXCEPT ![c] = how]

\* The loop accepts one connection and takes no other before it has a slot.
Accept(c) ==
  /\ \A d \in Calls : conn[d] # "accepted"
  /\ Goes(c, "backlog", "accepted")
  /\ UNCHANGED <<zoneVars, clientVars, resp, dead, audit, done>>

Busy == {c \in Calls : conn[c] \in Serving}

\* make(chan struct{}, 8)
Slots == 8

\* sem <- struct{}{}
SlotFree == Cardinality(Busy) < Slots

Start(c) ==
  /\ SlotFree
  /\ Goes(c, "accepted", "decode")
  /\ UNCHANGED <<zoneVars, clientVars, resp, dead, audit, done>>

\* peerOK, then the request is read.  Without one the peer's closing or the
\* helper's deadline ends the wait.
Decode(c) ==
  \/ /\ kind[c] # "stranger" /\ wrote[c]
     /\ Goes(c, "decode", "process")
     /\ UNCHANGED resp
  \/ Goes(c, "decode", "reply") /\ Answers(c, "error")

Request(c) ==
  /\ Decode(c)
  /\ UNCHANGED <<zoneVars, clientVars, dead, audit, done>>

\* process: a request that is no good, a preview, or an edit.
Process(c) ==
  /\ \/ Goes(c, "process", "reply") /\ Answers(c, "error") /\ UNCHANGED zoneVars
     \/ /\ kind[c] = "preview"
        /\ Goes(c, "process", "reply") /\ Answers(c, "ok")
        /\ UNCHANGED zoneVars
     \/ /\ kind[c] = "edit"
        /\ Goes(c, "process", "edit") /\ UNCHANGED resp
        /\ ask' = [ask EXCEPT ![c] = want[c]] /\ Z!Ask(c)
  /\ UNCHANGED <<clientVars, dead, audit, done>>

\* The pipeline makes the edit.
MakeEdit(c) ==
  /\ ~dead /\ conn[c] = "edit"
  /\ \E b \in Contents : base' = [base EXCEPT ![c] = b] /\ Z!Apply(c)
  /\ done' = [done EXCEPT ![c] = @ + 1]
  /\ UNCHANGED <<clientVars, helperVars>>

\* Apply returns.
EndEdit(c) ==
  /\ \/ Z!Succeed(c) /\ Goes(c, "edit", "audit") /\ UNCHANGED <<resp, done>>
     \/ /\ Z!Refuse(c) \/ Z!Fail(c)
        /\ Goes(c, "edit", "reply") /\ Answers(c, "error") /\ UNCHANGED done
     \/ /\ Z!TakeBack(c)
        /\ Goes(c, "edit", "reply") /\ Answers(c, "error")
        /\ done' = [done EXCEPT ![c] = @ - 1]
  /\ UNCHANGED <<clientVars, dead, audit>>

Audit(c) ==
  /\ Goes(c, "audit", "reply") /\ Answers(c, "ok")
  /\ audit' = audit \union {c}
  /\ UNCHANGED <<zoneVars, clientVars, dead, done>>

\* writeResp, which fails past the deadline or when the caller has gone; the
\* connection is closed and the slot is free again.
WriteResp(c) ==
  /\ Goes(c, "reply", "closed")
  /\ resp' \in {resp, [resp EXCEPT ![c] = "none"]}
  /\ UNCHANGED <<zoneVars, clientVars, dead, audit, done>>

\* SIGTERM closes the listener and ends the process without waiting for its
\* handlers; a kill does the same.
Stop ==
  /\ ~dead /\ dead' = TRUE
  /\ UNCHANGED <<zoneVars, clientVars, conn, resp, audit, done>>

Alive(c) == conn[c] \notin {"none", "closed"}

\* What goes with the process: a connection, and with it an edit under way.
Die(c) ==
  /\ dead /\ Alive(c)
  /\ conn' = [conn EXCEPT ![c] = "closed"]
  /\ Answers(c, "none")
  /\ IF conn[c] = "edit" THEN Z!Fail(c) ELSE UNCHANGED zoneVars
  /\ UNCHANGED <<clientVars, dead, audit, done>>

\* It is started again.
Restart ==
  /\ dead /\ \A c \in Calls : ~Alive(c)
  /\ dead' = FALSE
  /\ UNCHANGED <<zoneVars, clientVars, conn, resp, audit, done>>

-----------------------------------------------------------------------------
(* `goddns record` on the command line, and saves by hand. *)

DirectEdit(d) ==
  \/ \E j \in Edits : ask' = [ask EXCEPT ![d] = j] /\ Z!Ask(d)
  \/ \E b \in Contents : base' = [base EXCEPT ![d] = b] /\ Z!Apply(d)

DirectEnd(d) ==
  /\ phase[d] # "idle"
  /\ Z!Refuse(d) \/ Z!Succeed(d) \/ Z!TakeBack(d) \/ Z!Fail(d)

Others ==
  /\ (\E d \in Direct \ Calls : DirectEdit(d) \/ DirectEnd(d)) \/ Z!HandSave
  /\ UNCHANGED <<clientVars, helperVars, done>>

-----------------------------------------------------------------------------
Caller(c) == Dial(c) \/ Send(c) \/ Receive(c) \/ GiveUp(c)

Handler(c) ==
  \/ Accept(c) \/ Start(c) \/ Request(c) \/ Process(c) \/ MakeEdit(c)
  \/ EndEdit(c) \/ Audit(c) \/ WriteResp(c) \/ Die(c)

ZonedNext ==
  \/ \E c \in Calls : Caller(c) \/ Handler(c)
  \/ Stop \/ Restart \/ Others

ZonedSpec == ZonedInit /\ [][ZonedNext]_zonedVars

-----------------------------------------------------------------------------
(* Properties. *)

(***************************************************************************)
(* What the admin UI may believe.  A confirmed edit that it reports as     *)
(* made was made, once, and not taken back; a preview and a call of a      *)
(* stranger change nothing; and whether a call failed, was lost or goes on *)
(* after its caller has given up, its edit is not made twice.              *)
(***************************************************************************)
ReportedIsDone ==
  \A c \in Calls :
    /\ done[c] <= 1
    /\ call[c] = "ok" /\ kind[c] = "edit" => done[c] = 1
    /\ kind[c] # "edit" => done[c] = 0

(***************************************************************************)
(* "The daemon's audit log is the thing assumed compromised": what the     *)
(* helper logged was made, and what the daemon reports as made is in the   *)
(* helper's log, wherever the helper was stopped.                          *)
(***************************************************************************)
AuditTrue ==
  /\ \A c \in audit : done[c] = 1
  /\ \A c \in Calls : call[c] = "ok" /\ kind[c] = "edit" => c \in audit

(***************************************************************************)
(* "A small bound on concurrent handlers": at most Slots of them run, and  *)
(* no more edits are with the pipeline, and only theirs are.               *)
(***************************************************************************)
HandlersBounded ==
  /\ Cardinality(Busy) <= Slots
  /\ {c \in Calls : phase[c] # "idle"} \subseteq Busy
=============================================================================
