-------------------------- MODULE MCConfigReload --------------------------
(* A small instance of ConfigReload. *)
EXTENDS ConfigReload

CONSTANTS h1, k1, k2

MCMain(st, on, hs, ks) == [state |-> st, on |-> on, hosts |-> hs, keys |-> ks]
MCFrag(st, hs) == [state |-> st, hosts |-> hs]

MCHost == {h1}

\* The last one names the keys file.  The third is the knob turned off.
MCMainTexts == {MCMain("ok", TRUE, {h1}, FALSE), MCMain("missing", FALSE, {}, FALSE),
                MCMain("ok", FALSE, {h1}, FALSE), MCMain("ok", TRUE, {}, TRUE)}

\* {h1} collides with the main file; "bad" is a fragment that does not decode.
MCFragTexts == {MCFrag("ok", {}), MCFrag("ok", {h1}), MCFrag("bad", {})}

MCKeyTexts == {NoKey, k1, k2}
=============================================================================
