----------------------------- MODULE MCServices -----------------------------
(* The parts around a turn that share no state with one another, each       *)
(* explored alone: what a behaviour explores is chosen at its start.        *)
EXTENDS MCToolCalls, ChatMessages, SequencesExt

CONSTANTS Family,     \* what is explored
          Chat, MaxUpdates, MaxLives,                      \* PollingBot
          MaxCalls, MaxHangups,                            \* StoreConnection
          Run, Kind, FlushAt, MaxBrackets, MaxAttempts, MaxFailures,    \* TurnTraces
          StartupTimeout, StartReadyTimeout, WakeReadyTimeout, SleepTimeout, WarmupTimeout,
          WarmupRequests, PollInterval, HealthTimeout, Retries, RedirectHops,
          MaxBoots,                                        \* ModelServer
          Thread, Ceiling, Chosen, MaxSwitches, MaxUses, MaxOpens,      \* AgentGraphs
          Url, Public, Private, MaxRedirects, FallbackAgent, TextLimit, \* WebPages
          MaxStored, MaxTogether, PageChars,               \* HistoryReading
          MaxText,                                         \* and both of these
          MaxMessages                                      \* ChatMessages

VARIABLES family,
          feed, confirmed, bot, begun, ended,
          link, gone, call, result, spent, hangups, since, wrote, torn,
          active, db, told,
          box, snapshot, boots, ask, queued, served,
          markers, asked, limit, handle, cache, task, switches, uses, across,
          fetch, requests, paging,
          said, reading,
          talk        \* what the model is given

P == INSTANCE PollingBot
D == INSTANCE StoreConnection
T == INSTANCE TurnTraces
S == INSTANCE ModelServer
A == INSTANCE AgentGraphs
W == INSTANCE WebPages
H == INSTANCE HistoryReading

ASSUME PartsAssumption ==
    /\ P!PollingAssumption /\ D!StoreAssumption /\ T!TelemetryAssumption
    /\ S!ModelServerAssumption /\ A!GraphsAssumption
    /\ W!WebAssumption /\ H!HistoryAssumption /\ AudioAssumption

poll == <<feed, confirmed, bot, begun, ended>>
store == <<link, gone, call, result, spent, hangups, since, wrote, torn>>
traced == <<active, db, told>>
server == <<box, snapshot, boots, ask, queued, served>>
graphs == <<markers, asked, limit, handle, cache, task, switches, uses, across>>
web == <<fetch, requests, paging>>
stored == <<said, reading>>
services == <<poll, store, traced, server, graphs, web, stored, talk>>

-----------------------------------------------------------------------------
(* The polling loop. *)

Ordinary(update) == ~feed[update].control

\* run.py, _Dispatch and TelegramPollingBot: in the life of a process no update
\* is begun twice, a chat's ordinary updates are begun in the order they were
\* sent and one at a time, and one that Telegram has forgotten has ended or is
\* in the hands of the process that lives.
PolledInOrder ==
    /\ \A i, j \in DOMAIN begun : i < j /\ begun[i].life = begun[j].life =>
          LET earlier == begun[i].update  later == begun[j].update
          IN  /\ earlier # later
              /\ Ordinary(earlier) /\ Ordinary(later) /\ feed[earlier].chat = feed[later].chat
                    => earlier < later
    /\ \A one, other \in bot.handling :
          Ordinary(one) /\ Ordinary(other) /\ feed[one].chat = feed[other].chat => one = other
    /\ 1..confirmed \subseteq ended \cup (IF bot.up THEN P!Tasks ELSE {})

-----------------------------------------------------------------------------
(* The connection of the store. *)

\* postgres.py: "Reconnecting is therefore the normal path after a pause": a call
\* that sends the search path first fails because the server hung up only if it
\* did so while the call ran. A transaction, open or aborted, is left behind by a
\* call that was refused or that raised on its own and by no other, an open one by
\* the latter only (_settle); turn_context is never refused its autocommit for what
\* was left, and no later commit keeps a part of a delete that failed.
SettledUnlessFailed ==
    /\ call = D!NoCall =>
          /\ result # "in_transaction"
          /\ result = "hung_up" /\ since.kind \in {"read", "write", "delete"}
                => hangups > since.hangups
          /\ link = "open" => result = "raised"
          /\ link = "aborted" => result \in {"refused", "raised"}
    /\ ~torn

-----------------------------------------------------------------------------
(* The telemetry. *)

Whole(run) == told[run].attempts = 1 /\ told[run].ended \notin {T!NoOutcome, "died"}
              /\ run \notin db.lost
Calls(run, kind) == {m[1][2] : m \in {n \in told[run].made : n[1][1] = kind}}
Ending(run, call_) ==
    LET ends == {m[2] : m \in {n \in told[run].made : n[1] = call_}} \cap {"finished", "failed"}
    IN  IF ends = {} THEN T!NoOutcome ELSE CHOOSE how \in ends : TRUE

\* trace.py and inspect.py: a turn that ended, and none of whose writes failed,
\* reads back as it went: its outcome, how many calls it made, and each call
\* with how it ended, whatever ran beside it and however its events were
\* batched.
TraceReadsBack ==
    \A run \in Run : Whole(run) =>
        /\ db.rows[run].outcome = told[run].ended
        /\ \A kind \in Kind \ {"step"} :
              /\ db.rows[run].counts[kind] = Cardinality(Calls(run, kind))
              /\ T!CallsRead(kind, db.events[run]) =
                    {<<index, Ending(run, <<kind, index>>)>> : index \in Calls(run, kind)}

\* base.py, recent_runs: a turn whose process died is found among the
\* unsuccessful ones, unless a write of its own was lost.
CrashIsFound ==
    \A run \in Run :
        told[run].ended = "died" /\ run \notin db.lost => T!Unsuccessful(db.rows[run])

\* What is read of a turn afterwards is what happened in it (trace.py,
\* inspect.py), its process's death included.
TracesAreTrue == TraceReadsBack /\ CrashIsFound

-----------------------------------------------------------------------------
(* The model's container. *)

\* model_app.py: each hook ends within what Modal gives the container to come up,
\* also one that raises, so a slow start is reported by the hook and not cut off
\* by Modal. The first boot runs both hooks in one container: together they take
\* what each may take, which nothing keeps under the limit of one. And what a
\* container answers was answered by a vLLM that had loaded and been woken.
HooksFit ==
    /\ box.spent <= StartupTimeout
    /\ box.before <= S!StartWaits /\ (box.before # 0 => box.spent <= S!ResumeWaits)
    /\ served \subseteq {"healthy"}

\* model_app.py:156-160: "Every timeout below is chosen so that the worst case of a
\* whole path stays under it." The path of a first boot is both hooks.
FirstBootFits == box.before + box.spent <= StartupTimeout

-----------------------------------------------------------------------------
(* The compiled graphs. *)

\* runtime.py, rewire: a compiled graph asks and plans as the workspace says,
\* and its budget is the share chosen there of what the server accepts, or none;
\* unless a setting changed while the graph was being compiled.
OnlyRacesDiffer ==
    \A thread \in Thread : cache[thread] # A!NoGraph /\ thread \notin across =>
        /\ cache[thread].tools = A!Tools
        /\ cache[thread].budget \in {0, A!Budget(Ceiling)}

-----------------------------------------------------------------------------
(* The web. *)

\* web.py: every request goes to an address its own name answered with when that
\* hop was checked, nothing but public addresses among the answers; a redirect is
\* checked anew, and the requests of one fetch are bounded. What was read is what
\* the last request asked for.
RequestsAreChecked ==
    /\ \A k \in DOMAIN requests :
          /\ requests[k].checked.url = requests[k].url
          /\ requests[k].address \in ToSet(requests[k].checked.answers)
          /\ ToSet(requests[k].checked.answers) \subseteq Public
    /\ Len(requests) <= MaxRedirects + 2
    /\ fetch.phase = "fetched" => Last(requests).url = fetch.url

-----------------------------------------------------------------------------
(* Reading on. *)

\* web.py and tools/web.py: the page is downloaded anew for every part that is
\* read, and a download may fail, be cut or bring another text. Whatever it
\* brings, a part begins no later than where the last one said, and the reader is
\* told the end, and that the download was cut, where the text now there ends. As
\* long as the page stays as it was, each character is in exactly one part.
PageArrives ==
    LET seen == paging.seen
        Holds(k, c) == seen[k][1] < c /\ c <= seen[k][2]
    IN  /\ \A k \in DOMAIN seen :
              seen[k][1] <= (IF k = 1 THEN 0 ELSE seen[k - 1][2])
        /\ seen # <<>> /\ paging.told # "more" =>
              /\ Last(seen)[2] = paging.text
              /\ (paging.told = "cut") = paging.cut
        /\ paging.same => \A c \in 1..paging.offset :
              \E k \in DOMAIN seen : Holds(k, c) /\ \A j \in DOMAIN seen : Holds(j, c) => j = k

\* history.py, paging.py: what a reader of the stored words has got, following
\* what each page says comes next, is what stands at that place from its
\* beginning, though the conversation grew meanwhile; told that this is all, it
\* has every message it asked for, and every result of the calls the last of them
\* made. Of a range that ends between the results of a message it has those only.
HistoryArrives ==
    reading.at # 0 =>
        LET text == H!Text(reading.at, reading.count)
            final == reading.at + reading.count - 1
        IN  /\ IsPrefix(reading.got, text) /\ reading.told # "past the end"
            /\ reading.told = "all" /\ reading.of = Len(said) =>
                  /\ reading.got = text
                  /\ \A k \in DOMAIN said :
                        \/ k \in reading.at..final
                        \/ final \in DOMAIN said /\ said[k].answers \in said[final].calls
                     => ToSet(said[k].text) \subseteq ToSet(reading.got)

\* What is read page by page, as each page says, is read whole: a page of the web
\* (web.py) and the stored conversation (history.py, paging.py).
ReadsOnWhole == PageArrives /\ HistoryArrives

-----------------------------------------------------------------------------
(* A history, message by message, as the model is given it. *)

Part(kind, holds) == [kind |-> kind, holds |-> holds, outbound |-> FALSE]
Outbound(part) == [part EXCEPT !.outbound = TRUE]
Message(role, parts) ==
    [role |-> role, parts |-> parts, calls |-> <<>>, answers |-> NoCall]
Asking(n, count) == [Message("assistant", <<>>) EXCEPT !.calls = [i \in 1..count |-> <<n, i>>]]

\* The messages that may come after a history; each call is answered in its turn.
Unanswered(history) == {k \in DOMAIN history : k + Len(history[k].calls) > Len(history)}
MayFollow(history, n) ==
    LET text == Part("text", n)
    IN  IF Unanswered(history) # {}
        THEN UNION {{[Message("tool", parts) EXCEPT !.answers = history[k].calls[n - k]] :
                        parts \in {<<text>>, <<Outbound(Part("image", n))>>,
                                   <<text, Part("image", n)>>}} : k \in Unanswered(history)}
        ELSE {Message("system", <<text>>), Message("user", <<text>>),
              Message("assistant", <<text>>), Asking(n, 1), Asking(n, 2)}
             \cup {Message("user", <<Part("audio", format), text>>) :
                       format \in OpenAIAudio \cup OtherAudio}

Say ==
    /\ Len(talk) < MaxMessages
    /\ \E message \in MayFollow(talk, Len(talk) + 1) : talk' = Append(talk, message)

Held(content) == FlattenSeq([p \in DOMAIN content |-> content[p].holds])
Contents(message) ==
    IF message.role = "tool" /\ Kept(message) = <<>> THEN Receipt.holds
    ELSE [p \in DOMAIN Kept(message) |-> Kept(message)[p].holds]

\* build_messages. The provider's list has one system item at most, the first;
\* everything the messages hold, in its order, once; and the calls an assistant
\* makes are answered one by one by the items after them, whatever system texts
\* stand around.
ListIsWhole ==
    LET list == BuildMessages(talk).list
    IN  /\ \A k \in DOMAIN list : list[k].role = "system" => k = 1
        /\ FlattenSeq([k \in DOMAIN list |-> Held(list[k].content)])
              = FlattenSeq([k \in DOMAIN talk |-> Contents(talk[k])])
        /\ \A k \in DOMAIN list : \A i \in DOMAIN list[k].calls :
              k + i \in DOMAIN list => list[k + i].answers = list[k].calls[i]

-----------------------------------------------------------------------------

ServicesInit ==
    /\ family \in Family /\ Init
    /\ family # "calls" => /\ meant = CHOOSE answer \in Answers : TRUE
                           /\ shape = CHOOSE marks \in Shapes : TRUE
                           /\ finish = "stop" /\ \A i \in Places : damage[i].kind = "none"
    /\ P!Init /\ D!Init /\ T!Init /\ S!Init /\ A!Init /\ W!Init /\ H!Init /\ talk = <<>>

Poll == family = "polling" /\ P!Next /\ UNCHANGED <<store, traced, server, graphs, web, stored, talk>>
Store == family = "store" /\ D!Next /\ UNCHANGED <<poll, traced, server, graphs, web, stored, talk>>
Trace == family = "traces" /\ T!Next /\ UNCHANGED <<poll, store, server, graphs, web, stored, talk>>
Serve == family = "models" /\ S!Next /\ UNCHANGED <<poll, store, traced, graphs, web, stored, talk>>
Graph == family = "graphs" /\ A!Next /\ UNCHANGED <<poll, store, traced, server, web, stored, talk>>
Browse == family = "web" /\ W!Next /\ UNCHANGED <<poll, store, traced, server, graphs, stored, talk>>
Remember == family = "history" /\ H!Next /\ UNCHANGED <<poll, store, traced, server, graphs, web, talk>>
Talk == family = "chat" /\ Say /\ UNCHANGED <<poll, store, traced, server, graphs, web, stored>>

ServicesNext ==
    \/ family = "calls" /\ Next /\ UNCHANGED <<family, services>>
    \/ /\ \/ Poll \/ Store \/ Trace \/ Serve \/ Graph
          \/ Browse \/ Remember \/ Talk
       /\ UNCHANGED <<family, vars>>

ServicesSpec == ServicesInit /\ [][ServicesNext]_<<family, services, vars>>
=============================================================================
