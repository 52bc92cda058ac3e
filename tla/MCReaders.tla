------------------------------ MODULE MCReaders ------------------------------
(* What turns one form of a text into another and keeps no state, each      *)
(* explored alone: what a behaviour explores is chosen at its start. A text *)
(* is put together piece by piece, and after every piece the whole of it is *)
(* read.                                                                    *)
EXTENDS PageText, SequencesExt

CONSTANTS Family,        \* what is explored
          Fragment,      \* what an answer's lines are made of
          Mark,          \* and what they open with
          MaxPieces,     \* lines and fragments of an answer
          Character,     \* what the strings of a call are made of
          MaxMessage, MaxCode, MaxInlineDepth,
          MaxTokens      \* tags and data of a page

VARIABLES family, answer, calls,
          page           \* a page's tokens

vars == <<family, answer, calls, page>>

M == INSTANCE AnswerMarkup
G == INSTANCE GemmaArguments

ASSUME ReadersAssumption == M!LimitsAssumption

-----------------------------------------------------------------------------
(* An answer, line by line and fragment by fragment. *)

\* What a line opens with, there to be read when it stands inside a fence.
Opening(mark) == CASE mark \in {"text", "blank"} -> <<>>
                   [] mark = "fence" -> <<"bq", "bq", "bq">>
                   [] mark = "tildes" -> <<"~", "~", "~">>
                   [] mark = "heading" -> <<"#", " ">>
                   [] mark = "quote" -> <<">", " ">>
                   [] mark = "item" -> <<"-", " ">>
Line(mark) == [mark |-> mark, opening |-> Opening(mark), text |-> <<>>]

Pieces == FoldLeft(LAMBDA n, line : n + 1 + line.pieces, 0, answer)

\* A line of text opens like no other kind.
Plainly(text) == LET start == M!StripLeft(text)
                 IN  ~IsPrefix(<<"*", " ">>, start) /\ ~IsPrefix(<<"bq", "bq", "bq">>, start)
Extended(line, fragment) == [line EXCEPT !.text = @ \o fragment, !.pieces = @ + 1]
Fits(line, fragment) ==
    CASE line.mark = "blank" -> FALSE
      [] line.mark \in {"fence", "tildes"} -> fragment = <<"info">> /\ line.text = <<>>
      [] line.mark = "text" -> fragment # <<"info">> /\ Plainly(line.text \o fragment)
      [] OTHER -> fragment # <<"info">>

Write ==
    /\ family = "answer" /\ Pieces < MaxPieces
    /\ \/ /\ answer # <<>>
          /\ \E fragment \in Fragment :
                /\ Fits(Last(answer), fragment)
                /\ answer' = [answer EXCEPT ![Len(answer)] = Extended(@, fragment)]
       \/ \E mark \in Mark :
             answer' = Append(answer, Line(mark) @@ [pieces |-> 0])
    /\ UNCHANGED <<calls, page>>

Letters(text) == SelectSeq(text, LAMBDA token : token \in {"x", "y"})
Said(lines) ==
    FlattenSeq([k \in DOMAIN lines |-> Letters(lines[k].text)])

\* Every piece fits into one message and its HTML is balanced, and the pieces,
\* as HTML and as the plain reading alike, say every letter of the answer in
\* its order.
ArrivesIn(pieces) ==
    /\ \A k \in DOMAIN pieces :
          /\ M!Length(pieces[k].html) <= MaxMessage
          /\ pieces[k].marked => M!Balanced(pieces[k].html)
    /\ \A side \in {"html", "plain"} :
          FlattenSeq([k \in DOMAIN pieces |-> Letters(pieces[k][side])]) = Said(answer)
AnswerArrives == family = "answer" => ArrivesIn(M!Pieces(answer))

-----------------------------------------------------------------------------
(* What the model writes: calls with members written in any of its ways. *)

Texts(n) == UNION {[1..k -> Character] : k \in 0..n}
EscapedFor(quote, token) ==
    CASE token \in {quote, "bs"} -> <<"bs", token>>
      [] token = "nl" -> <<"bs", "n">>
      [] OTHER -> <<token>>

WrittenString(s, form) ==
    CASE form = "delim" -> G!StringDelim \o s \o G!StringDelim
      [] form = "bare" -> s
      [] OTHER -> <<form>> \o FlattenSeq([k \in DOMAIN s |-> EscapedFor(form, s[k])]) \o <<form>>
Leaves(n) == [string : Texts(n), form : {"delim", "dq", "sq"}]
             \cup {[string |-> <<"x">>, form |-> "bare"]}

\* A value: a leaf, an object under "a" and "c" or an array of leaves.
Values == [kind : {"leaf"}, leaves : {<<leaf>> : leaf \in Leaves(2)}]
          \cup [kind : {"object", "array"},
                leaves : UNION {[1..k -> Leaves(1)] : k \in 0..2}]
Simple == [kind : {"leaf"}, leaves : {<<[string |-> <<"x">>, form |-> form]>> :
                                          form \in {"bare", "dq"}}]

Name(k) == <<<<"a">>, <<"c">>>>[k]
Written(value) ==
    LET leaf == [k \in DOMAIN value.leaves |->
                    WrittenString(value.leaves[k].string, value.leaves[k].form)]
        member == [k \in DOMAIN leaf |-> Name(k) \o <<":">> \o leaf[k]]
    IN  CASE value.kind = "leaf" -> leaf[1]
          [] value.kind = "object" -> <<"{">> \o M!Join(member, <<",">>) \o <<"}">>
          [] value.kind = "array" -> <<"[">> \o M!Join(leaf, <<",", " ">>) \o <<"]">>
Meant(value) ==
    LET leaf == [k \in DOMAIN value.leaves |-> G!Str(value.leaves[k].string)]
    IN  CASE value.kind = "leaf" -> leaf[1]
          [] value.kind = "object" ->
                G!Obj([name \in {Name(k) : k \in DOMAIN leaf} |->
                          leaf[CHOOSE k \in DOMAIN leaf : Name(k) = name]])
          [] value.kind = "array" -> G!Arr(leaf)

Styles == {[opener |-> <<"call", ":">>, ending |-> <<"<tool_call|>">>, key |-> "bare"],
           [opener |-> <<":">>, ending |-> <<"<turn|>">>, key |-> "dq"],
           [opener |-> <<"call", ":">>, ending |-> <<>>, key |-> "delim"]}

Args(call) ==
    M!Join([k \in DOMAIN call.members |->
               WrittenString(Name(k), call.style.key) \o <<":">> \o Written(call.members[k])],
           <<",">>)
Completion(all) ==
    FlattenSeq([k \in DOMAIN all |->
        <<G!ToolCallStart>> \o all[k].style.opener \o <<"n", "{">> \o Args(all[k])
            \o <<"}">> \o all[k].style.ending])

Call ==
    /\ family = "calls"
    /\ \/ /\ Len(calls) < 2
          /\ \A k \in DOMAIN calls : /\ Len(calls[k].members) = 1
                                     /\ calls[k].members[1].kind = "leaf"
          /\ \E style \in Styles : calls' = Append(calls, [style |-> style, members |-> <<>>])
       \/ /\ calls # <<>>
          /\ LET call == Last(calls)
             IN  /\ Len(call.members) < 2
                 /\ Len(calls) = 2 => call.members = <<>>
                 /\ \E value \in IF call.members = <<>> /\ Len(calls) = 1
                                 THEN Values ELSE Simple :
                       calls' = [calls EXCEPT ![Len(calls)].members = Append(@, value)]
    /\ UNCHANGED <<answer, page>>

\* Calls are read as they were written, however the model wrote its strings;
\* and where no string is quoted vLLM's own reader reads the same.
CallsReadAsWritten ==
    family = "calls" =>
        LET found == G!ExtractCalls(Completion(calls), 1, <<>>)
            meant(call) == G!Obj([name \in {Name(k) : k \in DOMAIN call.members} |->
                               Meant(call.members[CHOOSE k \in 1..2 : Name(k) = name])])
            quoted(args) == ToSet(args) \cap {"dq", "sq"} # {}
                            /\ \E k \in DOMAIN args : /\ args[k] \in G!Quotes
                                                      /\ ~(k > 1 /\ args[k - 1] = "<|")
        IN  /\ Len(found) = Len(calls)
            /\ \A k \in DOMAIN calls :
                  /\ G!ParseArguments(found[k].args, FALSE) = meant(calls[k])
                  /\ ~quoted(found[k].args) =>
                        G!VendoredArgs(found[k].args, FALSE) = G!FixedArgs(found[k].args, FALSE)

-----------------------------------------------------------------------------
(* A page of the web. *)

\* The tags that stand open after n tokens of a page.
Open(n) ==
    {tag \in Skipped \cup {"title", "p", "b"} :
        Cardinality({k \in 1..n : page[k].kind = "open" /\ page[k].tag = tag})
        > Cardinality({k \in 1..n : page[k].kind = "close" /\ page[k].tag = tag})}
Tag(kind, tag) == [kind |-> kind, tag |-> tag, data |-> 0]

\* A page that closes what it opens; script and title hold text alone. Its
\* data are told apart by their places.
Tagged ==
    /\ family = "page" /\ Len(page) < MaxTokens
    /\ LET open == Open(Len(page))
           closed == open \cap {"script", "title"} # {}
       IN  \/ page' = Append(page, [kind |-> "data", tag |-> "none", data |-> Len(page) + 1])
           \/ ~closed /\ page' = Append(page, Tag("open", "br"))
           \/ \E tag \in Skipped \cup {"title", "p", "b"} :
                 \/ ~closed /\ tag \notin open /\ page' = Append(page, Tag("open", tag))
                 \/ /\ tag \in open /\ (closed => tag \in {"script", "title"})
                    /\ page' = Append(page, Tag("close", tag))
    /\ UNCHANGED <<answer, calls>>

\* A page read as text says everything outside its skipped elements and its
\* title, in order, and only that; two words share a line as long as nothing
\* that ends one stands between them.
PageReads ==
    LET read == ReadableText(page)
        data(S) == {k \in DOMAIN page : page[k].kind = "data" /\ S \cap Open(k) = {}}
        visible == data(Skipped \cup {"title"})
        ends(j, k) == \E i \in j..k : page[i].kind # "data" /\ page[i].tag \in Breaking
    IN  /\ FlattenSeq(read.lines) = SetToSortSeq(visible, <)
        /\ \A j, k \in visible : j < k =>
              (ends(j, k) <=> ~\E l \in DOMAIN read.lines : {j, k} \subseteq ToSet(read.lines[l]))

\* What is rendered arrives whole: an answer in Telegram's messages (markdown.py,
\* api.py), a page as text (web.py).
ArrivesWhole == AnswerArrives /\ PageReads

-----------------------------------------------------------------------------

ReadersInit ==
    family \in Family /\ answer = <<>> /\ calls = <<>> /\ page = <<>>

ReadersNext == (Write \/ Call \/ Tagged) /\ UNCHANGED family

ReadersSpec == ReadersInit /\ [][ReadersNext]_vars

-----------------------------------------------------------------------------

Fragments == {<<"x">>, <<" ">>, <<"*">>, <<"_">>, <<"bq">>, <<"<">>, <<"*", "*">>,
              <<"[", "y", "]", "(", "url", ")">>, <<"[">>, <<"y", " ", "x", "y">>, <<"info">>}
Marks == {"text", "blank", "fence", "tildes", "heading", "quote", "item"}
Characters == {"x", "{", "}", "]", ",", ":", "dq", "bs", "nl"}
=============================================================================
