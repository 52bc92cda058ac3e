----------------------------- MODULE PollingBot -----------------------------
(* The local profile's loop (ui/telegram/run.py): getUpdates, one task for  *)
(* each update, one lock for each chat. Telegram keeps an update until a    *)
(* later getUpdates names an offset past it; a loop that has just started   *)
(* names none. An update is known by its place in the feed.                 *)
EXTENDS Naturals, Sequences

CONSTANTS Chat,
          MaxUpdates,   \* bound: updates sent
          MaxLives      \* bound: processes started

\* What the constants must satisfy.
PollingAssumption == {MaxUpdates, MaxLives} \subseteq Nat

VARIABLES feed,       \* the updates so far: their chat, and whether they travel out of band
          confirmed,  \* how many of them Telegram has forgotten
          bot,        \* the process: up, its offset, created, handling and line
          begun,      \* history: the updates a handler was called for, and in which life
          ended       \* history: the updates that ended, or whose process did

poll == <<feed, confirmed, bot, begun, ended>>

NoOffset == 0
Fresh(life) == [up |-> TRUE, life |-> life, offset |-> NoOffset,
                created |-> <<>>,                     \* tasks that have not run yet
                handling |-> {},                      \* updates being handled
                line |-> [chat \in Chat |-> <<>>]]    \* who holds a chat's lock, then who waits

Init == /\ feed = <<>> /\ confirmed = 0 /\ bot = Fresh(1)
        /\ begun = <<>> /\ ended = {}

Arrive(chat, control) ==
    /\ Len(feed) < MaxUpdates
    /\ feed' = Append(feed, [chat |-> chat, control |-> control])
    /\ UNCHANGED <<confirmed, bot, begun, ended>>

\* What a getUpdates confirms, and what it answers.
Confirming == IF bot.offset = NoOffset THEN confirmed ELSE bot.offset - 1
News(from) == [k \in 1..Len(feed) - from |-> from + k]

\* Mutated: the offset names the last update, not the one after it.
PollOnceShort ==
    /\ bot.up /\ Confirming < Len(feed)
    /\ confirmed' = IF bot.offset = NoOffset THEN confirmed ELSE Confirming - 1
    /\ bot' = [bot EXCEPT !.created = @ \o News(confirmed'), !.offset = Len(feed) + 1]
    /\ UNCHANGED <<feed, begun, ended>>

\* One batch, each of it dispatched at once.
PollOnce ==
    /\ bot.up /\ Confirming < Len(feed)
    /\ confirmed' = Confirming
    /\ bot' = [bot EXCEPT !.created = @ \o News(Confirming), !.offset = Len(feed) + 1]
    /\ UNCHANGED <<feed, begun, ended>>

\* A getUpdates that fails, or answers nothing: Telegram may have read it.
PollFails ==
    /\ bot.up
    /\ confirmed' = Confirming
    /\ UNCHANGED <<feed, bot, begun, ended>>

Begins(update) == begun' = Append(begun, [update |-> update, life |-> bot.life])

\* A task runs until it waits: a control update is handled beside the others,
\* any other stands in the line of its chat's lock.
Guarded ==
    /\ bot.up /\ bot.created # <<>>
    /\ LET update == Head(bot.created)
           chat == feed[update].chat
           taken == bot.line[chat] # <<>>
           rest == [bot EXCEPT !.created = Tail(@)]
       IN  IF feed[update].control
           THEN /\ bot' = [rest EXCEPT !.handling = @ \cup {update}]
                /\ Begins(update)
           ELSE /\ bot' = [rest EXCEPT !.line[chat] = Append(@, update),
                                       !.handling = IF taken THEN @ ELSE @ \cup {update}]
                /\ IF taken THEN UNCHANGED begun ELSE Begins(update)
    /\ UNCHANGED <<feed, confirmed, ended>>

\* A handler returns or raises: either way the update is over, and the lock
\* goes to the first that waits.
Handled(update) ==
    /\ bot.up /\ update \in bot.handling
    /\ LET chat == feed[update].chat
           after == Tail(bot.line[chat])
           others == bot.handling \ {update}
       IN  IF feed[update].control
           THEN bot' = [bot EXCEPT !.handling = others] /\ UNCHANGED begun
           ELSE /\ bot' = [bot EXCEPT
                     !.line[chat] = after,
                     !.handling = IF after = <<>> THEN others ELSE others \cup {Head(after)}]
                /\ IF after = <<>> THEN UNCHANGED begun ELSE Begins(Head(after))
    /\ ended' = ended \cup {update}
    /\ UNCHANGED <<feed, confirmed>>

Tasks == bot.handling \cup {bot.created[k] : k \in DOMAIN bot.created}
                       \cup UNION {{bot.line[chat][k] : k \in DOMAIN bot.line[chat]} : chat \in Chat}

\* The process ends, by aclose, which cancels every task, or at once.
Ends ==
    /\ bot.up
    /\ bot' = [Fresh(bot.life) EXCEPT !.up = FALSE]
    /\ ended' = ended \cup Tasks
    /\ UNCHANGED <<feed, confirmed, begun>>

Starts ==
    /\ ~bot.up /\ bot.life < MaxLives
    /\ bot' = Fresh(bot.life + 1)
    /\ UNCHANGED <<feed, confirmed, begun, ended>>

Next ==
    \/ \E chat \in Chat, control \in BOOLEAN : Arrive(chat, control)
    \/ PollOnce \/ PollFails \/ Guarded \/ Ends \/ Starts
    \/ \E update \in DOMAIN feed : Handled(update)

Spec == Init /\ [][Next]_poll
=============================================================================
