---------------------------- MODULE MCFileZone ----------------------------
(* A small instance of FileZone: two writers, serials modulo 8. *)
EXTENDS FileZone

CONSTANTS a, x   \* two records; named-checkzone refuses x

MCText(f, s, rs) == [form |-> f, serial |-> s, recs |-> rs]

MCRR == {a, x}
MCRejected == {x}

\* One bump below the wrap, so that edits cross it.
MCInitialText == MCText("plain", 6, <<a>>)

\* A serial that is stale beside the first text and ahead of a lowered one;
\* content that Parse leaves unresolved, whose serial is ahead or leaps; and
\* one that does not parse.
MCRawTexts == {MCText("implied", 4, <<a, a>>), MCText("generate", 7, <<>>),
               MCText("broken", 7, <<>>)}

\* A change that forgets the serial, a signed file, and one that lowers the
\* serial and that named refuses.
MCHandTexts == {MCText("plain", 6, <<a, a>>), MCText("signed", 7, <<a>>),
                MCText("plain", 3, <<a, x>>)}
=============================================================================
