---------------------------- MODULE MCVhostMut ----------------------------
(***************************************************************************)
(* Instance of VhostMut for TLC: two ordinary hosts and the admin UI's.    *)
(***************************************************************************)
EXTENDS VhostMut

CONSTANTS a, b, adm, r1

MCHosts == {a, b, adm}

With(hosts) == [state |-> "ok", rules |-> [h \in MCHosts |-> IF h \in hosts THEN r1 ELSE NoRule]]

\* A removed file, a broken one, none, one and two vhosts.
MCHandTexts ==
  {[state |-> s, rules |-> [h \in MCHosts |-> NoRule]] : s \in {"absent", "bad", "ok"}}
  \union {With({a}), With({a, b})}
=============================================================================
