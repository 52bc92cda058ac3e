------------------------------ MODULE Scanning ------------------------------
(* Looking for a word in a text, the way str.find, str.startswith and the   *)
(* readers' while loops do. A text is a sequence of tokens.                 *)
EXTENDS Naturals, SequencesExt

At(text, i, word) ==
    /\ i + Len(word) <= Len(text) + 1
    /\ SubSeq(text, i, i + Len(word) - 1) = word

\* The first place from i on where word begins; 0 when there is none.
Find(text, word, i) ==
    LET hits == {p \in i..Len(text) : At(text, p, word)}
    IN  IF hits = {} THEN 0 ELSE Min(hits)

Until(text, i, marks) ==
    Min({p \in i..Len(text) : text[p] \in marks} \cup {Len(text) + 1})

Past(text, i, marks) ==
    Min({p \in i..Len(text) : text[p] \notin marks} \cup {Len(text) + 1})

From(text, i) == SubSeq(text, i, Len(text))
=============================================================================
