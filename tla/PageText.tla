------------------------------ MODULE PageText ------------------------------
(* A page as text (app/web.py, _Readable).                                  *)
EXTENDS Naturals, SequencesExt

Skipped == {"script", "template"}   \* and their like: what is never read
Breaking == {"p", "br"}             \* and theirs: what ends a line
Newline == 0                        \* data are numbered from 1

\* _Readable's handlers, called for each token of a page: a tag opened, a tag
\* closed or the data between them.
Handle(seen, token) ==
    CASE token.kind = "data" ->
            IF seen.inTitle THEN [seen EXCEPT !.title = Append(@, token.data)]
            ELSE IF seen.skipDepth = 0 THEN [seen EXCEPT !.chunks = Append(@, token.data)]
            ELSE seen
      [] token.tag \in Skipped ->
            [seen EXCEPT !.skipDepth = IF token.kind = "open" THEN @ + 1
                                       ELSE IF @ > 0 THEN @ - 1 ELSE 0]
      [] token.tag = "title" -> [seen EXCEPT !.inTitle = token.kind = "open"]
      [] token.tag \in Breaking -> [seen EXCEPT !.chunks = Append(@, Newline)]
      [] OTHER -> seen

\* readable_text: the lines of a page that say something, and its title.
ReadableText(page) ==
    LET seen == FoldLeft(Handle, [title |-> <<>>, chunks |-> <<>>, skipDepth |-> 0,
                                  inTitle |-> FALSE], page)
        lines == FoldLeft(LAMBDA all, chunk :
                              IF chunk = Newline THEN Append(all, <<>>)
                              ELSE [all EXCEPT ![Len(all)] = Append(@, chunk)],
                          <<<<>>>>, seen.chunks)
    IN  [title |-> seen.title, lines |-> SelectSeq(lines, LAMBDA line : line # <<>>)]
=============================================================================
