--------------------------- MODULE HistoryReading ---------------------------
(* read_history (app/tools/history.py, paging.py): the way back from a stub *)
(* or a hit to the stored words, page by page, over a conversation that     *)
(* goes on growing between the pages.                                       *)
EXTENDS Naturals, Sequences, FiniteSets

CONSTANTS MaxStored,   \* bound: messages a conversation has
          MaxTogether, \* bound: calls of one message
          MaxText,     \* bound: characters of a message
          PageChars    \* PAGE_CHARS

\* What the constants must satisfy.
HistoryAssumption ==
    {MaxStored, MaxTogether, MaxText} \subseteq Nat /\ PageChars \in Nat \ {0}

VARIABLES said,     \* the stored conversation: each message's text, calls, and the call answered
          reading   \* the agent's reading: what it asked for, what it got, what it was told

history == <<said, reading>>

NotReading == [at |-> 0, count |-> 0, offset |-> 0, got |-> <<>>, told |-> "nothing", of |-> 0]

Init == said = <<>> /\ reading = NotReading

Said(text, calls, answers) == [text |-> text, calls |-> calls, answers |-> answers]

\* A turn is stored whole: a request, the calls of one message and the result
\* of each or none, an answer. A call goes by the place its result is stored at.
Grow(size, calls) ==
    LET n == Len(said)
        made == (n + 3)..(n + 2 + calls)
        turn == [k \in 1..(IF calls = 0 THEN 2 ELSE 3 + calls) |->
                    Said([i \in 1..size |-> <<n + k, i>>], IF k = 2 THEN made ELSE {},
                         IF n + k \in made THEN n + k ELSE 0)]
    IN  /\ n + Len(turn) <= MaxStored
        /\ said' = said \o turn /\ UNCHANGED reading

-----------------------------------------------------------------------------

\* The store's messages from a position on, so many at most.
Messages(from, limit) ==
    SubSeq(said, from, IF from + limit - 1 < Len(said) THEN from + limit - 1 ELSE Len(said))

\* Mutated: a range ends where it was asked to, its calls' results behind it.
WithoutResults(position, messages) == messages

\* The results of the calls the last message made, as long as they follow it: a
\* range that ends between the results of a message is not completed.
WithResults(position, messages) ==
    LET wanted == messages[Len(messages)].calls
        after == Messages(position + Len(messages), Cardinality(wanted))
    IN  IF wanted = {} THEN messages
        ELSE messages \o SubSeq(after, 1, Cardinality({k \in DOMAIN after :
                 \A i \in 1..k : after[i].answers \in wanted}))

\* Messages joined to one text, each under its own heading.
Headed(position, messages) ==
    LET words[k \in DOMAIN messages] ==
            LET own == <<<<position + k - 1, 0>>>> \o messages[k].text
            IN  IF k = 1 THEN own ELSE words[k - 1] \o own
    IN  words[Len(messages)]

\* What is read from a position.
Text(position, count) == Headed(position, WithResults(position, Messages(position, count)))

\* One page of a text, and the offset of the next if there is a rest.
Page(text, offset, size) ==
    IF offset > 0 /\ offset >= Len(text) THEN [body |-> <<>>, told |-> "past the end"]
    ELSE LET body == SubSeq(text, offset + 1,
                            IF offset + size < Len(text) THEN offset + size ELSE Len(text))
         IN  [body |-> body,
              told |-> IF offset + Len(body) >= Len(text) THEN "all" ELSE "more"]

Shown(position, count, offset, got) ==
    LET page == Page(Text(position, count), offset, PageChars)
    IN  reading' = [at |-> position, count |-> count, offset |-> offset + Len(page.body),
                    got |-> got \o page.body, told |-> page.told, of |-> Len(said)]

\* A read is begun, where a stub or a hit points.
Read(position, count) ==
    /\ position <= Len(said)
    /\ Shown(position, count, 0, <<>>) /\ UNCHANGED said

\* The page's last line is followed.
ReadOn ==
    /\ reading.told = "more"
    /\ Shown(reading.at, reading.count, reading.offset, reading.got) /\ UNCHANGED said

Next ==
    \/ \E size \in 1..MaxText, calls \in 0..MaxTogether : Grow(size, calls)
    \/ \E position \in 1..MaxStored, count \in 1..2 : Read(position, count)
    \/ ReadOn

Spec == Init /\ [][Next]_history
=============================================================================
