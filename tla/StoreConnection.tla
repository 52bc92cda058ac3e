--------------------------- MODULE StoreConnection ---------------------------
(* The one connection of PostgresStore (app/memory/postgres.py) over the    *)
(* calls of a worker's life. The server may hang up at any time, which the  *)
(* client learns when it next sends a statement; it may refuse a statement, *)
(* which leaves the transaction aborted until someone ends it; and a value  *)
(* the client cannot send raises after the transaction began, which leaves  *)
(* it open. _cursor handles the first of these only.                        *)
EXTENDS Naturals

CONSTANTS MaxCalls,     \* bound: calls of the store
          MaxHangups    \* bound: connections the server drops, and opens refused

\* What the constants must satisfy.
StoreAssumption == {MaxCalls, MaxHangups} \subseteq Nat

VARIABLES link,     \* the connection: "none", "idle", "open" (in a transaction), "aborted"
          gone,     \* the server has hung up on it
          call,     \* the call under way: its kind, and how far it is
          result,   \* how the last call ended
          spent, hangups,
          since,    \* history: the last call's kind, and the hangups before it
          wrote,    \* history: writes of deletes in the server's transaction
          torn      \* history: a part of a delete was kept

store == <<link, gone, call, result, spent, hangups, since, wrote, torn>>

NoCall == [kind |-> "none", step |-> "none", fresh |-> FALSE]
Operation == {"read", "write", "delete", "append", "context"}

Init ==
    /\ link = "idle" /\ gone = FALSE /\ call = NoCall /\ result = "ok"
    /\ spent = 0 /\ hangups = 0 /\ since = [kind |-> "none", hangups |-> 0]
    /\ wrote = 0 /\ torn = FALSE

\* The server drops a connection: between calls, or during one.
HangUp ==
    /\ link # "none" /\ ~gone /\ hangups < MaxHangups
    /\ gone' = TRUE /\ hangups' = hangups + 1
    /\ UNCHANGED <<link, call, result, spent, since, wrote, torn>>

\* Mutated: the first connection is asked only, as before a server could hang up.
FirstStepFresh(kind) ==
    IF kind \in {"read", "write", "delete"}
    THEN [kind |-> kind, step |-> "search_path", fresh |-> TRUE]
    ELSE [kind |-> kind, step |-> IF kind = "context" THEN "settle" ELSE "statement",
          fresh |-> FALSE]

\* A call through _cursor sends the search path first; append sends its one
\* statement, turn_context settles and turns autocommit on first.
FirstStep(kind) ==
    IF kind \in {"read", "write", "delete"}
    THEN [kind |-> kind, step |-> "search_path", fresh |-> FALSE]
    ELSE [kind |-> kind, step |-> IF kind = "context" THEN "settle" ELSE "statement",
          fresh |-> FALSE]

Return(how) == call' = NoCall /\ result' = how

\* The server ends its transaction: it keeps an open one at a commit, and undoes
\* it at a rollback, when it was aborted, and when its connection goes.
Writes == 3
Committed == wrote' = 0 /\ torn' = (torn \/ (link = "open" /\ wrote \notin {0, Writes}))
Undone == wrote' = 0 /\ UNCHANGED torn

\* _live_connection: a connection known to be closed is opened anew.
Call(kind) ==
    /\ call = NoCall /\ spent < MaxCalls
    /\ spent' = spent + 1 /\ since' = [kind |-> kind, hangups |-> hangups]
    /\ \/ /\ link # "none"
          /\ call' = FirstStep(kind)
          /\ UNCHANGED <<link, gone, hangups, result>>
       \/ /\ link = "none"
          /\ link' = "idle" /\ gone' = FALSE /\ call' = FirstStep(kind)
          /\ UNCHANGED <<hangups, result>>
       \/ /\ link = "none" /\ hangups < MaxHangups
          /\ hangups' = hangups + 1 /\ Return("unreachable")
          /\ UNCHANGED <<link, gone>>
    /\ UNCHANGED <<wrote, torn>>

\* OperationalError: the connection is dropped and the call raises.
Dropped(how) == link' = "none" /\ gone' = FALSE /\ Return(how) /\ Undone

\* The search path, sent again on a fresh connection if the server had hung
\* up on the one at hand.
SearchPath ==
    /\ call.step = "search_path"
    /\ \/ /\ gone /\ call.fresh
          /\ Dropped("hung_up") /\ UNCHANGED hangups
       \/ /\ gone /\ ~call.fresh /\ Undone
          /\ link' = "idle" /\ gone' = FALSE /\ call' = [call EXCEPT !.fresh = TRUE]
          /\ UNCHANGED <<result, hangups>>
       \/ /\ gone /\ ~call.fresh /\ hangups < MaxHangups /\ Undone
          /\ link' = "none" /\ gone' = FALSE /\ hangups' = hangups + 1
          /\ Return("unreachable")
       \/ /\ ~gone /\ link = "aborted"
          /\ Return("refused") /\ UNCHANGED <<link, gone, hangups, wrote, torn>>
       \/ /\ ~gone /\ link # "aborted"
          /\ link' = "open" /\ call' = [call EXCEPT !.step = "statement"]
          /\ UNCHANGED <<gone, result, hangups, wrote, torn>>
    /\ UNCHANGED <<spent, since>>

\* turn_context ends a transaction left behind before it turns autocommit on; an
\* aborted one is rolled back by the same commit. A commit that fails raises,
\* and the connection is known to be closed.
Settle ==
    /\ call.step = "settle"
    /\ IF link # "idle" /\ gone THEN Dropped("hung_up")
       ELSE /\ link' = "idle" /\ call' = [call EXCEPT !.step = "autocommit"]
            /\ Committed /\ UNCHANGED <<gone, result>>
    /\ UNCHANGED <<spent, hangups, since>>

\* psycopg refuses to change autocommit inside a transaction.
Autocommit ==
    /\ call.step = "autocommit"
    /\ IF link = "idle" THEN call' = [call EXCEPT !.step = "statement"] /\ UNCHANGED result
       ELSE Return("in_transaction")
    /\ UNCHANGED <<link, gone, spent, hangups, since, wrote, torn>>

\* What a transaction becomes: turn_context's one statement needs none.
Within(state) == link' = IF call.kind = "context" THEN link ELSE state

\* The statements of a call, of which a delete has four: it looks for the thread
\* first, and ends there if there is none.
AfterStatement ==
    IF call.kind # "delete" THEN {"end"}
    ELSE CASE call.step = "statement" -> {"second", "end"}
           [] call.step = "second"    -> {"third"}
           [] call.step = "third"     -> {"fourth"}
           [] call.step = "fourth"    -> {"end"}

\* A refusal that is an OperationalError (a deadlock, a cancelled statement) drops
\* the connection like a hang-up; any other leaves the transaction aborted.
Statement ==
    /\ call.step \in {"statement", "second", "third", "fourth"}
    /\ \/ /\ gone
          /\ Dropped("hung_up")
       \/ /\ ~gone /\ link # "aborted"
          /\ Dropped("refused")
       \/ /\ ~gone
          /\ Within("aborted") /\ Return("refused") /\ UNCHANGED <<gone, wrote, torn>>
       \/ /\ ~gone /\ link # "aborted" /\ Within("open")
          /\ \E step \in AfterStatement : call' = [call EXCEPT !.step = step]
          /\ wrote' = IF call.step = "statement" THEN wrote ELSE wrote + 1
          /\ UNCHANGED <<gone, result, torn>>
    /\ UNCHANGED <<spent, hangups, since>>

\* A value that cannot be sent (text with a NUL): the client raises before it
\* sends the statement and after it began the transaction, if there was none.
\* The statements of a delete send the same one value.
Unsendable ==
    /\ call.step = "statement"
    /\ gone => link # "idle" \/ call.kind = "context"
    /\ Within(IF link = "aborted" THEN link ELSE "open") /\ Return("raised")
    /\ UNCHANGED <<gone, spent, hangups, since, wrote, torn>>

\* The commit: a writer's own, and _settle's for a read; set_summary rolls back
\* and raises where there is no thread. turn_context has neither.
End ==
    /\ call.step = "end"
    /\ IF gone /\ call.kind # "context" THEN Dropped("hung_up")
       ELSE /\ link' = "idle" /\ UNCHANGED gone
            /\ \/ Return("ok") /\ Committed
               \/ call.kind = "write" /\ Return("raised") /\ Undone
    /\ UNCHANGED <<spent, hangups, since>>

Next ==
    \/ HangUp \/ SearchPath \/ Settle \/ Autocommit \/ Statement \/ Unsendable \/ End
    \/ \E kind \in Operation : Call(kind)

Spec == Init /\ [][Next]_store
=============================================================================
