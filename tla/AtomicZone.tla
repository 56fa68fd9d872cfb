---------------------------- MODULE AtomicZone ----------------------------
(***************************************************************************)
(* What the edit pipeline promises its callers (internal/filezone, "read,  *)
(* edit, check, back up, write, reload" under one lock): a call changes    *)
(* the zone file in one step, from all of what the file holds at that      *)
(* moment, or not at all, and its answer says which.  A call that is       *)
(* answered as rolled back leaves what it found.  There are no locks,      *)
(* backups or processes here.                                              *)
(*                                                                         *)
(* Saves by hand take no lock.  A call that one falls into may make its    *)
(* edit from an older text, or take it back over the save.                 *)
(***************************************************************************)

CONSTANTS
  Callers,         \* concurrent calls
  Jobs,            \* what a call may ask for
  NoJob,
  Texts,           \* what the file may hold
  NoText,
  HandTexts,       \* what is saved by hand
  InitialText,
  Edited(_, _),    \* what a job makes of a text, NoText if it is refused
  Accepted(_)      \* named takes the text

VARIABLES
  text,      \* what the file holds
  phase,     \* "idle", "asked", or "applied": done and not answered yet
  ask,       \* what is asked for
  base,      \* what an applied edit was made from
  answer,    \* the last answer
  hit        \* calls that a save by hand fell into

vars == <<text, phase, ask, base, answer, hit>>

Init ==
  /\ text = InitialText
  /\ phase = [c \in Callers |-> "idle"]
  /\ ask = [c \in Callers |-> NoJob]
  /\ base = [c \in Callers |-> NoText]
  /\ answer = [c \in Callers |-> "none"]
  /\ hit = {}

\* Any job.
Ask(c) ==
  /\ phase[c] = "idle"
  /\ phase' = [phase EXCEPT ![c] = "asked"]
  /\ ask'[c] \in Jobs /\ ask' = [ask EXCEPT ![c] = ask'[c]]
  /\ UNCHANGED <<text, base, answer, hit>>

\* The edit takes effect, on the file as it is; no other is open meanwhile.
Apply(c) ==
  /\ phase[c] = "asked"
  /\ \A d \in Callers : phase[d] # "applied"
  /\ phase' = [phase EXCEPT ![c] = "applied"]
  /\ base'[c] \in Texts /\ base' = [base EXCEPT ![c] = base'[c]]
  /\ c \notin hit => base'[c] = text
  /\ text' = Edited(ask[c], base'[c]) /\ text' \in Texts /\ Accepted(text')
  /\ hit' = hit \ {c}
  /\ UNCHANGED <<ask, answer>>

Answer(c, a) ==
  /\ phase' = [phase EXCEPT ![c] = "idle"]
  /\ ask' = [ask EXCEPT ![c] = NoJob]
  /\ base' = [base EXCEPT ![c] = NoText]
  /\ answer' = [answer EXCEPT ![c] = a]
  /\ hit' = hit \ {c}

\* Nothing was changed.
Refuse(c) ==
  /\ phase[c] # "applied"
  /\ Answer(c, "refused") /\ UNCHANGED text

\* The change was made.
Succeed(c) ==
  /\ phase[c] = "applied"
  /\ Answer(c, "ok") /\ UNCHANGED text

\* The change was made and taken back.
TakeBack(c) ==
  /\ phase[c] = "applied"
  /\ Answer(c, "rolled_back") /\ text' = base[c]

\* The caller cannot tell.
Fail(c) == Answer(c, "failed") /\ UNCHANGED text

HandSave ==
  /\ text' \in HandTexts
  /\ hit \subseteq hit' /\ \A c \in hit' \ hit : c \in Callers /\ phase[c] # "idle"
  /\ UNCHANGED <<phase, ask, base, answer>>

Next ==
  \/ \E c \in Callers :
       Ask(c) \/ Apply(c) \/ Refuse(c) \/ Succeed(c) \/ TakeBack(c) \/ Fail(c)
  \/ HandSave

Spec == Init /\ [][Next]_vars
=============================================================================
