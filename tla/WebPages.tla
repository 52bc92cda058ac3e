------------------------------ MODULE WebPages ------------------------------
(* Reading the public web (app/web.py, app/tools/web.py): a page is fetched *)
(* anew for every part of it that is read, over its redirects. A name is    *)
(* resolved for every hop, and may answer differently each time; a site may *)
(* answer anything at any request, another text of the page included.       *)
EXTENDS Naturals, Sequences

CONSTANTS Url, Public, Private,   \* addresses a name may resolve to
          MaxRedirects, FallbackAgent,
          MaxText,                \* characters a page holds, at most
          TextLimit               \* MAX_TEXT_CHARS

WebAssumption ==
    /\ Public \cap Private = {} /\ FallbackAgent \in BOOLEAN
    /\ {MaxRedirects, MaxText} \subseteq Nat
    /\ TextLimit \in Nat \ {0}

VARIABLES fetch,      \* the fetch under way, or its end
          requests,   \* every request the fetch made, and the check it rests on
          paging     \* the agent reading a page part by part: how far it is

vars == <<fetch, requests, paging>>

NoUrl == "none"
Address == Public \cup Private
Lookups == {<<>>} \cup {<<a>> : a \in Address} \cup (Address \X Address)

NoFetch == [phase |-> "none", url |-> NoUrl, address |-> NoUrl, redirects |-> 0,
            checked |-> [url |-> NoUrl, answers |-> <<>>],
            agent |-> "browser", named |-> FALSE]
\* The page read, the text last fetched and whether every one so far was that,
\* the parts shown, and what the last one said: the offset and what is left.
NotReading == [url |-> NoUrl, text |-> 0, cut |-> FALSE, same |-> TRUE, seen |-> <<>>,
               offset |-> 0, told |-> "nothing"]

Init ==
    /\ fetch = NoFetch /\ requests = <<>>
    /\ paging = NotReading

Failed(f, why) == [f EXCEPT !.phase = why]

\* check_destination: every answer must be public, and the first is where
\* the connection will go. Any other scheme, port, name or literal is refused.
Checked(f, url, answers) ==
    IF answers = <<>> THEN Failed(f, "unreachable")
    ELSE IF \E k \in DOMAIN answers : answers[k] \notin Public THEN Failed(f, "refused")
    ELSE [f EXCEPT !.phase = "going", !.url = url, !.address = answers[1],
                   !.checked = [url |-> url, answers |-> answers]]
CheckDestination(f, url) ==
    {Checked(f, url, answers) : answers \in Lookups} \cup {Failed(f, "refused")}

\* A page is fetched from the start when it is first read, when the last part
\* said that there is more, and again when that failed.
FetchPage(url) ==
    /\ fetch.phase \notin {"going", "asking"}
    /\ paging.seen = <<>> \/ (paging.told = "more" /\ url = paging.url)
    /\ fetch' \in CheckDestination(NoFetch, url) /\ requests' = <<>>
    /\ paging' = [paging EXCEPT !.url = url]

\* The request goes to the address the name was checked at.
Request ==
    /\ fetch.phase = "going"
    /\ fetch' = [fetch EXCEPT !.phase = "asking"]
    /\ requests' = Append(requests, [url |-> fetch.url, address |-> fetch.address,
                                     checked |-> fetch.checked])
    /\ UNCHANGED paging

\* Mutated: the connection checked for the first address is used for the next.
RedirectedUnchecked ==
    /\ fetch.phase = "asking" /\ fetch.redirects < MaxRedirects
    /\ \E url \in Url :
          fetch' = [fetch EXCEPT !.phase = "going", !.url = url, !.redirects = @ + 1]
    /\ UNCHANGED <<requests, paging>>

\* Followed by hand: the next address is checked like the first. A redirect
\* with no destination, or one too many, ends the fetch.
Redirected ==
    /\ fetch.phase = "asking"
    /\ \/ fetch' = Failed(fetch, "unreachable")
       \/ /\ fetch.redirects < MaxRedirects
          /\ \E url \in Url :
                fetch' \in CheckDestination([fetch EXCEPT !.redirects = @ + 1], url)
    /\ UNCHANGED <<requests, paging>>

\* A 403 is asked once more by a client that names itself, on the connection
\* that was checked.
Forbidden ==
    /\ fetch.phase = "asking"
    /\ IF FallbackAgent /\ ~fetch.named
       THEN fetch' = [fetch EXCEPT !.phase = "going", !.agent = "named", !.named = TRUE]
       ELSE fetch' = Failed(fetch, "unreachable")
    /\ UNCHANGED <<requests, paging>>

\* Another status, a type that is not read, a broken connection, or the
\* deadline around all of it.
Fail(why) ==
    /\ fetch.phase \in {"going", "asking"}
    /\ fetch' = Failed(fetch, why)
    /\ UNCHANGED <<requests, paging>>

-----------------------------------------------------------------------------

\* What a part of a text shows and what its last line says comes next.
AsText(text, cut, offset) ==
    LET from == IF offset > text THEN text ELSE offset
        to == IF from + TextLimit > text THEN text ELSE from + TextLimit
    IN  [from |-> from, to |-> to,
         next |-> IF to < text THEN "more" ELSE IF cut THEN "cut" ELSE "nothing"]

\* The page as downloaded now, n characters of it, the download cut or not, its
\* words those of the parts read before or others; shown from the offset told.
Fetched(n, cut, other) ==
    LET page == AsText(n, cut, paging.offset)
        again == n = paging.text /\ cut = paging.cut /\ ~other
    IN  /\ fetch.phase = "asking"
        /\ fetch' = [fetch EXCEPT !.phase = "fetched"]
        /\ paging' = [paging EXCEPT !.text = n, !.cut = cut,
                                    !.same = @ /\ (again \/ paging.seen = <<>>),
                                    !.seen = Append(@, <<page.from, page.to>>),
                                    !.offset = page.to, !.told = page.next]
        /\ UNCHANGED requests

Next ==
    \/ \E url \in Url : FetchPage(url)
    \/ Request \/ Redirected \/ Forbidden
    \/ \E why \in {"refused", "unreachable"} : Fail(why)
    \/ \E n \in 0..MaxText, cut \in BOOLEAN, other \in BOOLEAN : Fetched(n, cut, other)

Spec == Init /\ [][Next]_vars
=============================================================================
