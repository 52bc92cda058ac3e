--------------------------- MODULE GemmaArguments ---------------------------
(* How the arguments of a tool call are read out of what the served model   *)
(* writes (tools/gemma4_parser.py): vLLM's own reader, which knows one way  *)
(* of writing a string, and the corrected one, which also knows quotes.     *)
(* A text is a sequence of tokens; the string delimiter is three of them,   *)
(* because its middle is a quote that a careless scan stops at.             *)
EXTENDS Scanning

StringDelim == <<"<|", "dq", "|>">>
Quotes == {"dq", "sq"}
Blank == {" ", "nl"}
Letters == {"a", "b", "c", "n", "x", "call"}

ToolCallStart == "<|tool_call>"
Endings == {"<tool_call|>", "<turn|>"}

\* A value read: a string, an object or an array.
Str(s) == [kind |-> "string", string |-> s]
Obj(f) == [kind |-> "object", object |-> f]
Arr(s) == [kind |-> "array", array |-> s]

Strip(text) ==
    LET kept == {p \in DOMAIN text : text[p] \notin Blank}
    IN  IF kept = {} THEN <<>> ELSE SubSeq(text, Min(kept), Max(kept))

\* What is left of a string whose closing delimiter has only begun to arrive.
StripPartialDelim(text) ==
    LET cut == {k \in 1..Len(StringDelim) :
                   IsSuffix(SubSeq(StringDelim, 1, k), text)}
    IN  IF cut = {} THEN text ELSE SubSeq(text, 1, Len(text) - Max(cut))

-----------------------------------------------------------------------------

Unescaped(token) == IF token = "n" THEN "nl" ELSE token

\* A quoted literal, from the token after its opening quote; one that never
\* closes is everything that arrived.
RECURSIVE Quoted(_, _, _, _)
Quoted(text, quote, i, read) ==
    IF i > Len(text) THEN [value |-> read, next |-> i]
    ELSE IF text[i] = "bs" /\ i < Len(text)
    THEN Quoted(text, quote, i + 2, Append(read, Unescaped(text[i + 1])))
    ELSE IF text[i] = quote THEN [value |-> read, next |-> i + 1]
    ELSE Quoted(text, quote, i + 1, Append(read, text[i]))

ReadQuoted(text, start) == Quoted(text, text[start], start + 1, <<>>)

\* Mutated: a brace inside quotes is a brace.
RECURSIVE ClosingAnywhere(_, _, _, _, _)
ClosingAnywhere(text, i, depth, pair, fixed) ==
    IF i > Len(text) \/ depth = 0 THEN [next |-> i, depth |-> depth]
    ELSE IF At(text, i, StringDelim)
    THEN LET end == Find(text, StringDelim, i + Len(StringDelim))
         IN  ClosingAnywhere(text, IF end = 0 THEN Len(text) + 1
                                   ELSE end + Len(StringDelim), depth, pair, fixed)
    ELSE ClosingAnywhere(text, i + 1,
                         CASE text[i] = pair[1] -> depth + 1
                           [] text[i] = pair[2] -> depth - 1
                           [] OTHER -> depth, pair, fixed)

\* Where what opened before i closes again, strings skipped. Only the
\* corrected reader knows that a brace inside quotes is not a brace.
RECURSIVE Closing(_, _, _, _, _)
Closing(text, i, depth, pair, fixed) ==
    IF i > Len(text) \/ depth = 0 THEN [next |-> i, depth |-> depth]
    ELSE IF At(text, i, StringDelim)
    THEN LET end == Find(text, StringDelim, i + Len(StringDelim))
         IN  Closing(text, IF end = 0 THEN Len(text) + 1
                           ELSE end + Len(StringDelim), depth, pair, fixed)
    ELSE IF fixed /\ text[i] \in Quotes
    THEN Closing(text, ReadQuoted(text, i).next, depth, pair, fixed)
    ELSE Closing(text, i + 1,
                 CASE text[i] = pair[1] -> depth + 1
                   [] text[i] = pair[2] -> depth - 1
                   [] OTHER -> depth, pair, fixed)

Braces == <<"{", "}">>
Brackets == <<"[", "]">>

\* Between what opens at i and what closes it, or to the end.
Inside(text, i, end) ==
    SubSeq(text, i + 1, end.next - (IF end.depth > 0 THEN 1 ELSE 2))

Stopped(i) == [value |-> Str(<<>>), next |-> i, ok |-> FALSE]
Found(value, i) == [value |-> value, next |-> i, ok |-> TRUE]

\* A string between delimiters; only an object's value loses the part of a
\* delimiter a partial text ends with.
Delimited(text, i, trims) ==
    LET start == i + Len(StringDelim)
        end == Find(text, StringDelim, start)
        rest == From(text, start)
    IN  IF end = 0
        THEN Found(Str(IF trims THEN StripPartialDelim(rest) ELSE rest), Len(text) + 1)
        ELSE Found(Str(SubSeq(text, start, end - 1)), end + Len(StringDelim))

Bare(text, i, partial, stops) ==
    LET end == Until(text, i, stops)
        raw == Strip(SubSeq(text, i, end - 1))
    IN  IF \/ partial /\ end > Len(text)
           \/ end = i
           \/ partial /\ IsSuffix(<<".">>, raw)
        THEN Stopped(end)
        ELSE Found(Str(raw), end)

-----------------------------------------------------------------------------

RECURSIVE VendoredArgs(_, _), VendoredArray(_, _), FixedArgs(_, _), FixedArray(_, _)

ReadObject(text, partial, fixed) ==
    Obj(IF fixed THEN FixedArgs(text, partial) ELSE VendoredArgs(text, partial))
ReadArray(text, partial, fixed) ==
    Arr(IF fixed THEN FixedArray(text, partial) ELSE VendoredArray(text, partial))

\* One value of any form, for an object or for an array.
Value(text, i, partial, fixed, inArray) ==
    LET nested(pair) == Closing(text, i + 1, 1, pair, fixed)
    IN  CASE At(text, i, StringDelim) -> Delimited(text, i, partial /\ ~inArray)
          [] fixed /\ text[i] \in Quotes ->
                LET read == ReadQuoted(text, i) IN Found(Str(read.value), read.next)
          [] text[i] = "{" ->
                LET end == nested(Braces)
                IN  Found(ReadObject(Inside(text, i, end), end.depth > 0, fixed), end.next)
          [] text[i] = "[" ->
                LET end == nested(Brackets)
                IN  Found(ReadArray(Inside(text, i, end), end.depth > 0, fixed), end.next)
          [] OTHER ->
                Bare(text, i, partial,
                     IF inArray /\ ~fixed THEN {",", "]"} ELSE {",", "}", "]"})

\* The name before a colon, and where its value may begin.
Key(text, i, fixed) ==
    IF fixed /\ text[i] \in Quotes
    THEN LET read == ReadQuoted(text, i)
             colon == Past(text, read.next, Blank)
         IN  [name |-> read.value, next |-> colon + 1, ok |-> At(text, colon, <<":">>)]
    ELSE LET colon == Until(text, i, {":"})
             key == Strip(SubSeq(text, i, colon - 1))
             wrapped == IsPrefix(StringDelim, key) /\ IsSuffix(StringDelim, key)
         IN  [name |-> IF wrapped
                       THEN SubSeq(key, Len(StringDelim) + 1, Len(key) - Len(StringDelim))
                       ELSE key,
              next |-> colon + 1, ok |-> colon <= Len(text)]

\* The members of an object from i on, the ones read so far in read.
RECURSIVE Args(_, _, _, _, _)
Args(text, i, partial, fixed, read) ==
    LET start == Past(text, i, Blank \cup {","})
    IN  IF start > Len(text) THEN read
        ELSE LET key == Key(text, start, fixed)
                 at == Past(text, key.next, Blank)
             IN  IF ~key.ok THEN read
                 ELSE IF at > Len(text)
                 THEN IF partial THEN read ELSE (key.name :> Str(<<>>)) @@ read
                 ELSE LET value == Value(text, at, partial, fixed, FALSE)
                      IN  IF value.ok
                          THEN Args(text, value.next, partial, fixed,
                                    (key.name :> value.value) @@ read)
                          ELSE read

\* The items of an array.
RECURSIVE Items(_, _, _, _, _)
Items(text, i, partial, fixed, read) ==
    LET start == Past(text, i, Blank \cup {","})
    IN  IF start > Len(text) THEN read
        ELSE LET value == Value(text, start, partial, fixed, TRUE)
             IN  IF value.ok
                 THEN Items(text, value.next, partial, fixed, Append(read, value.value))
                 ELSE read

VendoredArgs(text, partial) == Args(text, 1, partial, FALSE, <<>>)
VendoredArray(text, partial) == Items(text, 1, partial, FALSE, <<>>)
FixedArgs(text, partial) == Args(text, 1, partial, TRUE, <<>>)
FixedArray(text, partial) == Items(text, 1, partial, TRUE, <<>>)

-----------------------------------------------------------------------------

\* A name no parameter can have: the scan has lost its place.
Implausible(key) ==
    \/ key = <<>>
    \/ ToSet(key) \cap {"{", "}", "[", "]", "nl"} # {}
    \/ Find(key, StringDelim, 1) # 0

Corrupt == Str(<<"corrupt">>)

\* One call's arguments, or the refusal of the call.
ParseArguments(text, partial) ==
    LET parsed == FixedArgs(text, partial)
    IN  IF ~partial /\ \E key \in DOMAIN parsed : Implausible(key)
        THEN Corrupt ELSE Obj(parsed)

\* Every call in one completion from position on, as its name and its
\* arguments' text; "call:" and ":" both open one.
RECURSIVE ExtractCalls(_, _, _)
ExtractCalls(text, position, found) ==
    LET start == Find(text, <<ToolCallStart>>, position)
        opened == IF At(text, start + 1, <<"call", ":">>) THEN start + 3
                  ELSE IF At(text, start + 1, <<":">>) THEN start + 2 ELSE 0
        named == Past(text, opened, Letters)
        end == Closing(text, named + 1, 1, Braces, TRUE)
        ended == end.next <= Len(text) /\ text[end.next] \in Endings
    IN  IF start = 0 THEN found
        ELSE IF opened = 0 THEN ExtractCalls(text, start + 1, found)
        ELSE IF named = opened \/ ~At(text, named, <<"{">>)
        THEN ExtractCalls(text, named, found)
        ELSE ExtractCalls(text, IF ended THEN end.next + 1 ELSE end.next,
                          Append(found, [name |-> SubSeq(text, opened, named - 1),
                                         args |-> Inside(text, named, end)]))
=============================================================================
