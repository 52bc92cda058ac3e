---------------------------- MODULE AnswerMarkup ----------------------------
(* How a Markdown answer becomes Telegram messages (ui/telegram/            *)
(* markdown.py, and Formatted, pack, split_message and the rendering of     *)
(* send_message in ui/telegram/api.py). An answer is a sequence of lines, a *)
(* line a record of what it opens with (what the line patterns tell apart)  *)
(* and the tokens after it. A block is rendered twice, as HTML tokens and   *)
(* as the plain tokens that are sent when Telegram refuses the HTML.        *)
EXTENDS Scanning

CONSTANTS MaxMessage,   \* MAX_MESSAGE_CHARS
          MaxCode,      \* MAX_CODE_CHARS
          MaxInlineDepth

\* What the constants must satisfy.
LimitsAssumption ==
    /\ MaxMessage \in Nat \ {0} /\ MaxCode \in Nat \ {0}
    /\ MaxInlineDepth \in Nat

Word == {"x", "y", "url"}
Space == {" ", "nl"}

\* One HTML token of a plain one, and how many characters an HTML token has.
Escaped(token) == IF token = "<" THEN "&lt;" ELSE token
Escape(text) == [i \in DOMAIN text |-> Escaped(text[i])]

Tags == "<b>" :> 3 @@ "</b>" :> 4 @@ "<i>" :> 3 @@ "</i>" :> 4
        @@ "<s>" :> 3 @@ "</s>" :> 4 @@ "<code>" :> 6 @@ "</code>" :> 7
        @@ "<pre>" :> 5 @@ "</pre>" :> 6 @@ "<a>" :> 11 @@ "</a>" :> 4
        @@ "<blockquote>" :> 12 @@ "</blockquote>" :> 13
Closes == [b \in {"</b>"} |-> "<b>"] @@ "</i>" :> "<i>" @@ "</s>" :> "<s>"
          @@ "</code>" :> "<code>" @@ "</pre>" :> "<pre>" @@ "</a>" :> "<a>"
          @@ "</blockquote>" :> "<blockquote>"

Width(token) == IF token \in DOMAIN Tags THEN Tags[token]
                ELSE IF token = "&lt;" THEN 4 ELSE 1
Length(html) == FoldLeft(LAMBDA n, token : n + Width(token), 0, html)

Join(texts, separator) ==
    IF texts = <<>> THEN <<>>
    ELSE FoldLeft(LAMBDA whole, text : whole \o separator \o text, texts[1], Tail(texts))

Lines(text) ==
    FoldLeft(LAMBDA lines, token :
                IF token = "nl" THEN Append(lines, <<>>)
                ELSE [lines EXCEPT ![Len(lines)] = Append(@, token)],
             << <<>> >>, text)

-----------------------------------------------------------------------------
(* One span. A construct that does not close is text, character by character. *)

Nothing == [html |-> <<>>, plain |-> <<>>, next |-> 0]

Wrapped(tag, close, inner, next) ==
    [html |-> <<tag>> \o inner.html \o <<close>>, plain |-> inner.plain, next |-> next]

CodeSpan(text, i) ==
    LET opened == Past(text, i, {"bq"})
        run == SubSeq(text, i, opened - 1)
        closing == Find(text, run, opened)
        inner == SubSeq(text, opened, closing - 1)
    IN  IF closing = 0 \/ inner = <<>> THEN Nothing
        ELSE Wrapped("<code>", "</code>", [html |-> Escape(inner), plain |-> inner],
                     closing + Len(run))

RECURSIVE InlineFrom(_, _, _, _)
Inline(text, depth) == InlineFrom(text, 1, depth, Nothing)

\* [label](address); the address is a token of its own.
Named(label) ==
    IF ToSet(label.plain) \subseteq Space THEN [html |-> <<"url">>, plain |-> <<"url">>]
    ELSE IF label.plain = <<"url">> THEN label
    ELSE [label EXCEPT !.plain = @ \o <<" ", "(", "url", ")">>]
Link(text, i, depth) ==
    LET closing == Until(text, i + 1, {"]", "nl"})
    IN  IF ~At(text, closing, <<"]", "(", "url", ")">>) THEN Nothing
        ELSE Wrapped("<a>", "</a>",
                     Named(Inline(SubSeq(text, i + 1, closing - 1), depth + 1)), closing + 4)

Paired(text, i, marker, tag, close, depth) ==
    LET start == i + 2
        closing == Find(text, marker, start)
    IN  IF depth >= MaxInlineDepth \/ closing <= start THEN Nothing
        ELSE Wrapped(tag, close, Inline(SubSeq(text, start, closing - 1), depth + 1),
                     closing + 2)

\* The marker that ends an emphasis: not after a space and, for "_", not
\* inside a word. Text that has one right after its opening has none.
Ends(text, i, marker) ==
    {p \in i + 2..Len(text) :
        /\ text[p] = marker
        /\ text[p - 1] \notin Space
        /\ ~(marker = "_" /\ p < Len(text) /\ text[p + 1] \in Word \cup {"_"})}

Emphasis(text, i, marker, depth) ==
    LET inWord == marker = "_" /\ i > 1 /\ text[i - 1] \in Word \cup {"_"}
        opens == i < Len(text) /\ text[i + 1] \notin Space \cup {marker}
        ends == Ends(text, i, marker)
    IN  IF depth >= MaxInlineDepth \/ inWord \/ ~opens \/ ends = {} THEN Nothing
        ELSE Wrapped("<i>", "</i>",
                     Inline(SubSeq(text, i + 1, Min(ends) - 1), depth + 1),
                     Min(ends) + 1)

Span(text, i, depth) ==
    IF text[i] = "bq" THEN CodeSpan(text, i)
    ELSE IF text[i] = "[" THEN Link(text, i, depth)
    ELSE IF At(text, i, <<"*", "*">>) \/ At(text, i, <<"_", "_">>)
    THEN Paired(text, i, SubSeq(text, i, i + 1), "<b>", "</b>", depth)
    ELSE IF At(text, i, <<"~", "~">>) THEN Paired(text, i, <<"~", "~">>, "<s>", "</s>", depth)
    ELSE IF text[i] \in {"*", "_"} THEN Emphasis(text, i, text[i], depth)
    ELSE Nothing

\* A span, or the one character that opened none; and the text after it.
Read(text, i, span) ==
    IF span.next # 0 THEN span
    ELSE [html |-> <<Escaped(text[i])>>, plain |-> <<text[i]>>, next |-> i + 1]
After(text, depth, done, read) ==
    InlineFrom(text, read.next, depth,
               [done EXCEPT !.html = @ \o read.html, !.plain = @ \o read.plain])

\* The rest of a text from i on, after what is rendered already.
InlineFrom(text, i, depth, done) ==
    IF i > Len(text) THEN done ELSE After(text, depth, done, Read(text, i, Span(text, i, depth)))

-----------------------------------------------------------------------------
(* The blocks of an answer. *)

Block(html, plain) == [html |-> html, plain |-> plain]
BlockOf(span) == Block(span.html, span.plain)

\* A line of spaces opens nothing, whatever it is made of.
MarkOf(line) == IF line.mark = "text" /\ ToSet(line.text) \subseteq Space THEN "blank"
                ELSE line.mark

\* How many lines from i on are of one kind.
RunOf(lines, i, mark) ==
    Min({p \in i..Len(lines) : MarkOf(lines[p]) # mark} \cup {Len(lines) + 1}) - i

TextOf(lines, i, n) == Join([k \in 1..n |-> lines[i + k - 1].text], <<"nl">>)

\* Text cut into pieces of at most limit tokens, at line ends; a line that
\* alone is too long is cut where it must be.
RECURSIVE ChunkLines(_, _, _, _)
ChunkLines(lines, limit, current, pieces) ==
    IF lines = <<>> THEN IF current = <<>> THEN pieces ELSE Append(pieces, current)
    ELSE LET line == lines[1]
             joined == IF current = <<>> THEN line ELSE current \o <<"nl">> \o line
         IN  IF Len(line) > limit
             THEN ChunkLines(<<From(line, limit + 1)>> \o Tail(lines), limit, <<>>,
                             (IF current = <<>> THEN pieces ELSE Append(pieces, current))
                                 \o <<SubSeq(line, 1, limit)>>)
             ELSE IF Len(joined) > limit
             THEN ChunkLines(Tail(lines), limit, line, Append(pieces, current))
             ELSE ChunkLines(Tail(lines), limit, joined, pieces)

Chunk(text, limit) == ChunkLines(Lines(text), limit, <<>>, <<>>)

\* A fence runs to the next bare one of its kind, or to the end; its code is
\* the one block that may be cut.
Fence(lines, i) ==
    LET closing == {p \in i + 1..Len(lines) :
                       lines[p].mark = lines[i].mark /\ lines[p].text = <<>>}
        end == IF closing = {} THEN Len(lines) + 1 ELSE Min(closing)
        code == TextOf([p \in DOMAIN lines |->
                           [text |-> lines[p].opening \o lines[p].text]],
                       i + 1, end - i - 1)
        chunks == IF ToSet(code) \subseteq Space THEN <<>> ELSE Chunk(code, MaxCode)
    IN  [next |-> end + 1,
         blocks |-> [k \in DOMAIN chunks |->
             Block(<<"<pre>">> \o Escape(chunks[k]) \o <<"</pre>">>, chunks[k])]]

Heading(lines, i) ==
    LET span == Inline(lines[i].text, 0)
    IN  [next |-> i + 1,
         blocks |-> IF ToSet(span.plain) \subseteq Space THEN <<>>
                    ELSE <<Block(<<"<b>">> \o span.html \o <<"</b>">>, span.plain)>>]

Quote(lines, i) ==
    LET n == RunOf(lines, i, "quote")
        span == Inline(TextOf(lines, i, n), 0)
        said == Lines(span.plain)
    IN  [next |-> i + n,
         blocks |-> <<Block(<<"<blockquote>">> \o span.html \o <<"</blockquote>">>,
                            Join([k \in DOMAIN said |-> <<">", " ">> \o said[k]], <<"nl">>))>>]

List(lines, i) ==
    LET n == RunOf(lines, i, "item")
        span == [k \in 1..n |-> Inline(lines[i + k - 1].text, 0)]
    IN  [next |-> i + n,
         blocks |-> <<Block(Join([k \in 1..n |-> <<"-", " ">> \o span[k].html], <<"nl">>),
                            Join([k \in 1..n |-> <<"-", " ">> \o span[k].plain], <<"nl">>))>>]

Paragraph(lines, i) ==
    LET n == RunOf(lines, i, "text")
    IN  [next |-> i + n, blocks |-> <<BlockOf(Inline(TextOf(lines, i, n), 0))>>]

RECURSIVE RenderFrom(_, _, _)
RenderFrom(lines, i, blocks) ==
    IF i > Len(lines) THEN SelectSeq(blocks, LAMBDA b : b.html # <<>> \/ b.plain # <<>>)
    ELSE LET read == CASE MarkOf(lines[i]) = "blank" -> [next |-> i + 1, blocks |-> <<>>]
                       [] lines[i].mark \in {"fence", "tildes"} -> Fence(lines, i)
                       [] MarkOf(lines[i]) = "heading" -> Heading(lines, i)
                       [] MarkOf(lines[i]) = "quote" -> Quote(lines, i)
                       [] MarkOf(lines[i]) = "item" -> List(lines, i)
                       [] MarkOf(lines[i]) = "text" -> Paragraph(lines, i)
         IN  RenderFrom(lines, read.next, blocks \o read.blocks)

Render(lines) == RenderFrom(lines, 1, <<>>)

-----------------------------------------------------------------------------
(* The messages. *)

RECURSIVE BalancedFrom(_, _)
BalancedFrom(html, open) ==
    IF html = <<>> THEN open = <<>>
    ELSE IF html[1] \in DOMAIN Closes
    THEN /\ open # <<>> /\ Last(open) = Closes[html[1]]
         /\ BalancedFrom(Tail(html), Front(open))
    ELSE BalancedFrom(Tail(html), IF html[1] \in DOMAIN Tags THEN Append(open, html[1])
                                  ELSE open)
Balanced(html) == BalancedFrom(html, <<>>)

Checked(blocks) ==
    [k \in DOMAIN blocks |->
        IF Balanced(blocks[k].html) THEN blocks[k]
        ELSE Block(Escape(blocks[k].plain), blocks[k].plain)]
FromMarkdown(lines) == Checked(Render(lines))

Gap == <<"nl", "nl">>
Html(blocks) == Join([k \in DOMAIN blocks |-> blocks[k].html], Gap)
Plain(blocks) == Join([k \in DOMAIN blocks |-> blocks[k].plain], Gap)

\* Mutated: the gaps between blocks are not counted.
PackTight(blocks) ==
    LET shown == SelectSeq(blocks, LAMBDA b : b.html # <<>>)
        group == FoldLeft(LAMBDA groups, b :
                     IF /\ groups # <<>>
                        /\ Length(b.html) + FoldLeft(LAMBDA n, g : n + Length(g.html),
                                                     0, Last(groups)) <= MaxMessage
                     THEN [groups EXCEPT ![Len(groups)] = Append(@, b)]
                     ELSE Append(groups, <<b>>), <<>>, shown)
    IN  IF \E k \in DOMAIN shown : Length(shown[k].html) > MaxMessage
        THEN [refused |-> TRUE]
        ELSE [refused |-> FALSE,
              pieces |-> [k \in DOMAIN group |->
                  [html |-> Html(group[k]), plain |-> Plain(group[k]), marked |-> TRUE]]]

\* Whole blocks grouped into messages, or a refusal when one is too long.
Pack(blocks) ==
    LET shown == SelectSeq(blocks, LAMBDA b : b.html # <<>>)
        group == FoldLeft(LAMBDA groups, b :
                     IF groups # <<>> /\ Length(Html(Append(Last(groups), b))) <= MaxMessage
                     THEN [groups EXCEPT ![Len(groups)] = Append(@, b)]
                     ELSE Append(groups, <<b>>), <<>>, shown)
    IN  IF \E k \in DOMAIN shown : Length(shown[k].html) > MaxMessage
        THEN [refused |-> TRUE]
        ELSE [refused |-> FALSE,
              pieces |-> [k \in DOMAIN group |->
                  [html |-> Html(group[k]), plain |-> Plain(group[k]), marked |-> TRUE]]]

StripLeft(text) == From(text, Past(text, 1, Space))
StripRight(text) == Reverse(StripLeft(Reverse(text)))

LastOf(text, token) == Max({p \in DOMAIN text : text[p] = token} \cup {0})

\* Plain text cut at a line end, else at a space, else where it must be; a
\* cut in the first half of the window is not worth its break.
RECURSIVE SplitMessage(_)
SplitMessage(text) ==
    LET window == SubSeq(text, 1, MaxMessage)
        far(p) == p # 0 /\ p - 1 >= MaxMessage \div 2
        cut == IF far(LastOf(window, "nl")) THEN LastOf(window, "nl") - 1
               ELSE IF far(LastOf(window, " ")) THEN LastOf(window, " ") - 1
               ELSE MaxMessage
    IN  IF text = <<>> THEN <<>>
        ELSE IF Len(text) <= MaxMessage THEN <<text>>
        ELSE <<StripRight(SubSeq(text, 1, cut))>>
                 \o SplitMessage(StripLeft(From(text, cut + 1)))

Unmarked(text) ==
    LET pieces == SplitMessage(text)
    IN  [k \in DOMAIN pieces |-> [html |-> pieces[k], plain |-> pieces[k], marked |-> FALSE]]

\* The pieces an answer is sent in; an empty one is not sent.
Packed(blocks) ==
    LET packed == Pack(blocks)
    IN  IF packed.refused THEN Unmarked(Plain(blocks)) ELSE packed.pieces
Pieces(lines) == Packed(FromMarkdown(lines))
=============================================================================
