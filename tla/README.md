# TLA+ project for the local multimodal agent

A personal assistant runs a tool-using model behind a Telegram bot. Updates are
queued durably, answered one conversation at a time by containers that may be
killed at any moment, and every turn is checkpointed node by node so that the
next container can take it up. This directory holds TLA+ models of that
machinery, the configurations TLC checks them with, and proofs TLAPS checks.
Paths below are relative to `src/`.

- [1 Inventory](#1-inventory)
- [2 Modules](#2-modules)
- [3 What TLC checks](#3-what-tlc-checks)
- [4 Fairness](#4-fairness)
- [5 What is proved](#5-what-is-proved)
- [6 Where code and documentation differ](#6-where-code-and-documentation-differ)
- [7 What is not modelled](#7-what-is-not-modelled)
- [8 Plan](#8-plan)
- [9 Running it](#9-running-it)

## 1 Inventory

```
Telegram --POST--> webhook --INSERT--> telegram_updates <--lease/settle-- worker containers
                      |                                                        |
                      +--spawn---------------------------------------------->  |
                                                                               v
                     person <--send/edit-- TelegramAdapter <--events-- Agent (runtime)
                                               |                          |
                                        current thread, stop mark     turn graph: load, model,
                                                                      tools, persist
                                                                          |
                                              checkpoints, conversation store, tools, model server
```

| Component | Source | State | Operations | Hard behaviour |
|---|---|---|---|---|
| Update inbox | `ui/telegram/inbox.py` | rows of `telegram_updates`: state, lease token, lease end, attempts | enqueue, claim, claim_next, complete, retry, abandon | two containers at one row, leases that run out under a working handler, a busy check in another transaction than the insert |
| Webhook and worker | `ui/telegram/webhook.py`, `deploy/modal/control_app.py` | the request, spawned invocations, a container's age, job and drain deadline | admit, spawn, run, answer, hand off, give up | lost 200s, suppressed spawns, kill at the timeout, one re-invocation, preemption |
| Turn graph | `app/agent/graph.py` | the checkpoint: history, spend, `stopping`, carried candidate | model, tools, persist nodes and their edges | calls must be answered on every path, a question re-runs its node, budgets judged at three places |
| Turn driver | `app/agent/runtime.py` | checkpoint of each thread, cached graph | events, resume_events, unfinished, resume_interrupted_events, pending | a worker dies in any node and the next must not repeat side effects |
| Stop requests | `app/agent/stop.py` | latest update number that asked to stop, per person | request, reader | a stop overtakes the turn and must not cancel a later one |
| Stopping extensions | `app/agent/stopping.py`, `todo.py` | objections used in this turn | objection | must run out |
| Executor | `app/tools/execution.py`, `base.py` | threads of timed-out calls | resolve, coerce, validate, ask, run, settle | a timed-out synchronous tool still runs; calls damaged on their way |
| Tools | `app/tools/`, `app/web.py` | processes, a browser's session, pages read | run a command, act on a page, fetch, read on | what a killed command left running, late replies, a page that moves, redirects |
| Workspace volume | `deploy/modal/control_app.py` | each container's copy, the committed one | reload, commit, run_command | two containers that must look like one file system |
| Telegram adapter | `ui/telegram/adapter.py` | current thread of a person, messages on screen | message, /new, /chats, buttons, give up, deliver | resume or start again, stale buttons, /new beside a running turn, retry limits of the Telegram API |
| Wire | `ui/telegram/wire.py`, `api.py`, `markdown.py` | none | classify, render, split, send, edit, retry-after | which updates travel out of band; markup cut at a message's limit |
| Polling bot | `ui/telegram/run.py` | offset, running tasks, a lock per chat | poll, dispatch, close | an offset acknowledged before the update is handled |
| Conversation store | `app/memory/`, `app/conversations.py` | threads, positions, summaries, facts | append, recent, set_summary, search | two folds of one thread, equal texts |
| Context window | `app/context/` | none (functions of a history) | surface, shorten, media budget, cut, fold | boundaries: never cut a call from its result, keep the last turns word for word |
| Model client | `app/models/`, `tools/gemma4_parser.py` | one stream, its calls so far | build the list, stream, retry while waking, parse calls | a stream that ends early, fragments without marks, an overflow answered by folding once |
| Model servers | `deploy/modal/model_app*.py` | a container, its snapshot | start, warm, sleep, restore, wake | hooks that wait inside the platform's limit |
| Compiled graphs, checkpoints | `app/agent/runtime.py`, `app/checkpoints.py`, `app/agent/mode.py` | graph per thread, one connection | build, rewire, open | two tasks of one process between awaits |
| Telemetry | `app/telemetry/` | recorders, two tables | event, flush, finish, read back | retried turns, dead processes, writes that fail |
| Config, Chainlit, scripts | see `PROJECT.json` | | | |

### What makes each part correct

- *Inbox and worker.* One live lease per conversation; a result counts only
  while its lease is the row's; an answered update stays answered; a
  conversation is served in the order it was written; a handler starts a
  bounded number of times on one update; absent worker faults, every accepted
  update is answered or given up on.
- *Turn.* Every call gets a result before the model or the store sees the
  history; nothing that needs a yes runs without one; nothing runs twice that
  was not declared safe to; the ceiling, the stop and the repetition guards end
  the turn; it is stored once.
- *Adapter.* A message is answered or the person is told why not; an answer to a
  question reaches the question it was given for; a retry takes its own turn up.
- *What the person sees.* An answer arrives whole, or the turn does not end as
  answered; nothing half stays; what has arrived is not edited away.
- *Calls and tools.* A call runs with its own arguments, and its result says
  what happened. A command reported dead is dead; a click meets the element it
  named; two containers look like one file system.
- *Store and context.* A thread holds its exchanges in order; a summary never
  covers a message that is not in it; a request fits the window and stays well
  formed.

The hazards behind these, each at the line where it bites, are in
`PROJECT.json` under `hazards`, with the properties that would catch them or
the reason why none does yet.

## 2 Modules

| Module | Models | State |
|---|---|---|
| `UpdateInbox` | the SQL statements of `inbox.py`, one action each | one record of columns per update: `state`, `token`, `remaining`, `attempts` |
| `ConversationQueue` | abstract: what the queue promises | sets `waiting`, `serving`, `finished` |
| `UpdateDelivery` (extends `UpdateInbox`) | webhook, worker and platform around the queue | `web` and `acked` per update, `calls` (spawned invocations), `worker` (containers with their age, job and lease) |
| `UpdateDeliveryProofs` | proofs about `UpdateDelivery` | |
| `TurnLoop` | one turn of the graph and the workers that drive it | the checkpoint (`next`, `transcript`, `steps`, ...), the process (`phase`, `results`, the answer it came with), the world (`stored`, `stopped`, `crashes`) |
| `TurnLoopProofs` | proofs about `TurnLoop` | |
| `Conversation` | a person's conversations as the adapter handles them, over queue, checkpoints and store | the line (`waiting`, `attempts`), the choice of conversation, each thread's checkpoint `turn` and `store`, the buttons shown, the worker that handles an update |
| `ConversationProofs` | proofs about `Conversation` | |
| `ContextWindow` | what of a history one request carries and where a fold cuts it: `window.py` and the pure part of `summary.py`, as operators | |
| `ThreadContext` (extends `ContextWindow`) | a thread that grows and is folded: store, checkpointed context, the four places that fold, the model's limits | `stored`, `summary`, `through`, `compactions`; the checkpoint's `next`, `turn`, `context`, `used`; the worker's `pc`, `prepared`, `rounds`, `fold`; a `lapsed` fold |
| `ThreadContextProofs` | proofs about both | |
| `ModelStream` | one streamed request of the model client and its retries | `request`, `attempt`, `received` |
| `AnswerDelivery` (extends `ModelStream`) | the answers of one turn on their way into a chat | the `chat`, the turn as the adapter sees it, the `preview`, the status |
| `AnswerDeliveryProofs` | proofs about both | |
| `ToolCalls` | one completion's calls from fragments to results | what was `meant`, the partial calls, `results`, `landed` and `adrift` effects |
| `Workspace` | one volume under workers and command containers | each container's `view` and `dirty` files, the `volume`, processes |
| `WorkspaceProofs` | proofs about `Workspace` | |
| `BrowserSession` | the browser protocol and the session above it | the session's call and inbox, the browser's outbox and page, refs |
| `BrowserSessionProofs` | proofs about `BrowserSession` | |
| `PollingBot` | the local profile's loop | Telegram's feed, the process's offset, tasks and locks |
| `StoreConnection` | the store's one connection | its transaction, a hang-up not yet noticed, the call under way |
| `TurnTraces` | recorders and what is read back | recorders, the tables, what really happened |
| `ModelServer` | a server's container and one call that waits for it | phase, clocks, snapshot, the client's attempts |
| `AgentGraphs` | the compiled graphs of one process | markers, budget, checkpoint handle, cache, a task per thread |
| `WebPages` | reading a public page part by part, each part a fetch of its own with its hops | the fetch, the requests it made, how far the reader is |
| `HistoryReading` | reading the stored conversation by position while it grows | what was `said`, the reading under way |
| `Scanning`, `AnswerMarkup`, `GemmaArguments`, `PageText` | algorithms on texts, as operators (recursive functions where the code loops) | |
| `ChatMessages` | the list sent to the provider, of a history | `talk`, the history, in `MCServices` |
| `MCUpdateDelivery`, `MCTurnLoop`, `MCConversation`, `MCThreadContext`, `MCAnswerDelivery`, `MCWorkspace`, `MCBrowserSession` | the instances TLC checks | |
| `MCToolCalls`, `MCServices`, `MCReaders` | instances that explore several modules, one per behaviour: `family` says which | |
| `ServicesProofs` | proofs about `ToolCalls` and the parts of `MCServices` | |

### UpdateDelivery

A lease is kept as the time that remains of it, so `CURRENT_TIMESTAMP` needs no
variable; `Tick` lets one unit pass for the leases and the ages of containers.
Time passes only while every active container is inside a handler: statements
are short beside a lease. A lease token is the attempt number it was drawn at;
attempts only grow, so this is as fresh among one row's tokens as the uuid the
code draws.

`enqueue` is two transactions and therefore two actions, `Receive` and
`CheckBusy`; between them every other actor may move. A worker goes through
`Start`, `Claim`, the handler (`HandlerReturns` or `HandlerRaises`), `Settle` or
`Retry`, and then `Drain`, `HandOff` or `Leave`; `Crash` is a preemption, after
which the platform schedules the input again as it was, and `Kill` the timeout,
after which it is invoked once more (`retries=1`). `Take` is the lease with the
attempt limit of `_give_up`. The adapter is only "a handler that returns or
raises within `TurnLimit`".

### TurnLoop

A node's patch and the edge it takes are one checkpoint write, so a node with
no earlier effect is one action (`AskForTools`, `Reply`, `Steer`, `StopTurn`,
`EndTurn`). `tools` and `persist` act on the world before that write and are
split there: `BeginTools`, `RunCall`, `CommitTools`; `Store`, `Finish`. A
question (`AskPerson`) leaves the node uncommitted; `Answer` re-enters it from
its top, so the stop, the repetition guards and the budget are judged again with
the answer in hand, as in the code. `Crash` loses what the worker had in hand and
keeps the checkpoint, the store and the effects; `Resume` is
`resume_interrupted_events`, and `DieResuming` a death while it runs the
replay-safe calls of an interrupted batch.

A call is its operation, i.e. tool and arguments; results are `ok` or `failed`,
the distinction the repetition guards make. `ran`, `ranAgain`, `approved`,
`late` and `missed` are history variables: no guard reads them, but for
`missed`'s own bound.

`asked_to_stop` takes any failure for *no stop*, and with PostgreSQL each read
opens a connection of its own (`stop.py:125-134`). `NoStopRead` is therefore true
also when the stop is set and the read fails; such a read is counted in `missed`,
`MaxMissed` of them in an instance, and `StopIsHeeded` allows one more step of
the model for each.

### Conversation

The two modules above meet here, each reduced to what the adapter sees of it.
The line has one worker, as `LeasesAreExclusive` allows; that a lease of 590 s can end
under a worker killed at 600 s is `UpdateDelivery`'s subject and left out here.
A turn is its checkpoint (`next`, the message it began with, the calls of the
batch before `tools`, whether its interrupt is set), and of a batch only the
calls the person is asked about appear.

`BeginMessage` is `_run_one_turn`: in the thread that is current *when the
update is handled* it takes an unfinished turn of equal text up (`TakeUp`,
`resume_interrupted_events`) or begins afresh. `BeginPress` is
`handle_callback`, which likewise resumes the current thread, whichever thread
the question was asked in. Then `Answer`, `AskForCalls`, `Interrupt`,
`RunCalls`, `CommitTools`, `StoreExchange` and `EndTurn` are the nodes, and
`AskPending` and `Complete` what the adapter does after the stream.
`SettleIfDue` is `_settle`: the pressed button is marked at the first event of
the stream or at its end, and Telegram may refuse the edit. `Die` is a death of
the worker, `Refuse` a message Telegram would not take (the update is put back or
abandoned), `Fail` a node that raised. `NewConversation` and
`ChooseConversation` happen at any moment, since `/new` and `/chats` travel
beside the line.

What LangGraph does with `Command(resume=...)` is assumed, not derived: the
thread's pending node runs again with the answer, a thread with nothing pending
is left alone, and an answer no `interrupt` took in that first node is gone.
`granted`, `ran`, `cut` and `late` are history variables.

### ContextWindow and ThreadContext

A message is what the algorithms tell apart: its role, the size of its text, the
number of its media items, its calls (an assistant's) or its call (a result's),
whether it failed. Positions count from 1 and a cut is the number of messages in
front of it. `Surface` is `Context.surface`: old results that became stubs, each
naming its position in the store, and the media the limit leaves. `Cut` is the
arithmetic of `fold_older_messages`: `verbatim_floor`, `cut_for`,
`turn_boundary`.

A summary is the set of positions it accounts for and a size; what its words
keep is the summarizer's quality. The turn is `TurnLoop`'s without budgets,
consent and stops, so that only what is sent and stored remains: `Load` assembles
the context and checkpoints it; `Fit` is `fitted`, up to three folds before a
request; `AskForTools`, `Answer` and `Overflow` are the three ways a request
ends; `RunTools` adds the results; `Store` and `FoldAfter` are the two halves
of `persist`. `TryFold` is `fold_older_messages` up to the summarizer,
`Summarized` and `Recorded` its two writes and what its caller does next,
`NotSummarized` a summarizer that answers with nothing or raises. `Compact` is
`/compact`, which travels beside a turn that waits. `Crash` is a death anywhere;
`Lapse` a lease that runs out while the summarizer works: another worker takes
the thread, and `LateFold` still writes what the first had read.

Choices of the model. A server counts up to `ERROR` tokens more than were
estimated. `BUDGET` beyond every size stands for an unknown limit, with which
`fitted` does nothing. Two texts of equal size are equal, which makes
`already_stored` mistake one exchange for another as often as it can. There is
one kind of media; a person's outbound media and the words that replace an item
are left out. `KEEP_TURNS` and `KEEP_STEPS` are at least 1; the code does not
check its configuration for that. `lost` and `refusal` are history variables.

### AnswerDelivery

`_answer` and `_on_callback` around one turn. `AnswerBegins` and `Delta` are
the stream's text, `AddSend` and `AddEdit` the preview it becomes
(`AnswerPreview.add`); `DeliverText` with `EditFirst`, `SendPiece` and
`AppendPiece` is `_deliver` and `replace_message`; `ShowCalls` and `ToolsRan` the
activity line; `Finally` the `finally` of `_answer`. A call of Telegram has one of
three outcomes: done, refused, or `lost` (done, with the reply lost). `Die` may
come at any point, and `Resume` or `PutBack` follows as the queue provides.
The timing of previews (`PREVIEW_INTERVAL`) is a choice: an edit may come or not
at every delta. What the loop decides is its side of the interface only:
`Acts`, `Concludes`, `Steered`, `Withdraw`, `AddsNothing`.

### ToolCalls

`Fragment` and `Add` put calls together as `StreamedCompletion._fragment` does;
which marks a server gives is `shape`, and `damage` says what happened to a call
on the way (a lost closing delimiter swallows what follows it, or the answer was
cut). `Finish` is `result` with `readable` and `repaired`; `PreExecute` the
executor's own checks; `Answer` and `Decline` the person; `Start`, `Return`,
`Raise` and `GiveUp` the run. A body may act and then raise, also a `TimeoutError`
of its own, which is reported like the executor's; `GiveUp` comes before the body
has acted or after, and what a synchronous body has not done yet it may still do
(`Land`). `landed` are the calls whose body had an effect. What a result can
promise is stated by `ResultsBoundEffects`: a success has acted; declined, damaged
or unprepared calls never act; a failure of the body promises nothing, and its
effect may come after the result only where the thread was given up.
`CallsAssumption` keeps to shapes in which a fragment says
which call it belongs to: with less, a continuation goes to the last call (or
the first) by the code's own choice.

### Workspace

A container's `view` is what it would read, `dirty` what it has not committed;
`Reload` and `Commit` are the volume's, `BackgroundCommit` the platform's own.
`Open`, `Turn`, `Write`, `Call`, `Finish`, `Leave`, `Close` are
`process_telegram_update` with one update's turn inside it; `Take`, `Started`,
`Works`, `Fork`, `KillTree`, `Killed` and `Reply` are `run_command` and
`LocalRunner.run`. A worker for a control update (`/mode`, `/plan`) only sets the
marker and ends, beside any turn. `Close` is the last commit of a worker, after
its updates are completed; from then on its files are `handedOver`, and a worker
that opens later is `owed` them (both history variables). That a runner shares
nothing with its caller but the volume is why the round trip commits and reloads
on both sides.

### BrowserSession

The browser is external: it takes commands in order, when it likes, and its
page moves and asks for resources on its own (`Changes`, `Asks`). The session
reads one queue and only while a call waits (`Took`, `PassOver`, `Decide`); a call
given up leaves its command behind, and the reply is read by a later call. A
snapshot numbers elements. A click is three commands (where the element is, the
press, the release), typing two or three (focus by ref, the key that clears, the
text), choosing from a list one (`chromium.py:782-840`). Only the first of each names a
ref: a press goes to a place, whatever covers it, and keys go to whatever has the
`focus`. The page may move or cover an element (`Changes`) and take the focus at any
command boundary. `hit` records what each act met, and what had happened in
between: nothing but a moved or covered element makes a press miss, nothing but a
moved focus makes typed text land elsewhere, and after a call was given up on, a
ref may be one of a newer snapshot.

### The parts of MCServices

`PollingBot`: asyncio runs tasks in the order they were created and a lock's
waiters in turn; `Ends` is a process that dies or is closed, with everything in
hand. `StoreConnection`: one action per statement the server sees, four of them for
deleting a conversation; `HangUp` is noticed at the next one. A refused statement
either drops the connection (`OperationalError`) or leaves the transaction
aborted, and a value that cannot be sent leaves it open (`Unsendable`), since
`_cursor` handles nothing else. `TurnTraces`: brackets of model and tool calls may
overlap, a batch is written at `FLUSH_AT` events, a write may fail and lose the
connection, `Die` loses what was pending, and a redelivered update begins again
under the same run. `ModelServer`: time is counted where the hooks wait: each
request answers at once or at its timeout, the last poll included, and a hook that
raises has spent its time too. The instance has the proportions of
`model_app.py` with small numbers, since what is interleaved with what does not
depend on them; the proof covers the real ones (section 6 names them). A
`requests` timeout is taken as the total wait, and committing the compile cache
takes no time. `AgentGraphs`: one event loop, so a
task changes hands only where `_graph` awaits the budget or the connection;
`Switch` is /mode, /plan or /context of any thread. `WebPages`: a name is resolved
anew at every hop and may answer anything each time (`CheckDestination`); the
redirect, the second try under another agent and the deadline are actions.
`fetch_page` downloads the page again for every offset (`FetchPage`), so the text
may be another, longer, shorter or cut differently each time, or the fetch fail
and be tried again; `Fetched` shows the part at the offset the last line told.
`HistoryReading`: a turn is stored whole (`Grow`): a request, one message with up to
`MaxTogether` calls, the result of each, an answer; this happens between any two
pages of `read_history`.
`ChatMessages` is `build_messages`; a history grows message by message (`Talk`),
as the application writes one: the result of each call in its turn, system texts
anywhere else.

### The parts of MCReaders

The text of a message matters here, so texts are sequences of tokens and the
instance builds them piece by piece from every fragment a reading rule tells apart;
after each piece the whole is read. `AnswerMarkup` is the Markdown renderer,
`pack` and the plain fall-back; lengths are counted in characters, with a limit of
12 for 4096. `GemmaArguments` is both readers of the server's call format,
vLLM's own and the corrected one. `PageText` is `_Readable`, the page's HTML
reduced to its words.

## 3 What TLC checks

| Run | Instance | Properties |
|---|---|---|
| `delivery_safety` | two messages of one conversation, two containers, lease 3, timeout 4, draining until 3, handlers up to 4, one loss, two faults | `LeasesAreExclusive`, `HandlerRunsBounded`, `LeaseIsRespected`, `ServedInOrder` |
| `delivery_liveness` | two messages and a `/stop`, one loss, no worker fault | `EveryUpdateSettles` |
| `turn_batches` | three tools (a look that is replay safe, a write that asks, a delivery), batches of two, two steps, one steering, one failed read of a stop, one death | `EveryCallAnswered`, `ConsentBeforeRunning`, `NothingRunsAgain`, `StoredOnce` |
| `turn_steps` | single calls, three steps, one failed read of a stop, two deaths | `SpendingBounded`, `TurnEnds` |
| `conversation` | three updates of equal or other text or of presses, two calls that ask, in one batch or two, two threads, two attempts, two faults | `RanOnlyIfPressed`, `StoredInOrder`, `RepeatsArePaidFor`, `WithdrawnNeverRuns` |
| `context` | eight messages, two calls of the model in batches of up to two, long results and pictures, summaries short and long, keep two exchanges or two steps, budget 5 of a window of 6, one death, one lost lease, one `/compact` | `FoldsAccounted`, `NothingIsLost`, `ProviderAccepts`, `NewestStays` |
| `answer` | a short text and one of two messages, three completions, one steering, one retry of a request, two failed calls of Telegram, one death | `DeliveredWhole`, `NothingHalfLeft`, `AnswersStay` |
| `workspace` | two workers, one command container, one file and the marker, two writes, two turns, one death | `OneFilesystem`, `EarlierWorkSeen`, `ModeIsRecent` |
| `workspace_killed` | the same | violates `KilledMeansDead` |
| `browser` | two elements, two requests of which one is served, six commands, decisions included, one that was given up on ahead of a call, one change of the page | `OwnReply`, `EveryRequestDecided`, `ActsOnShown` |
| `readers` | answers of up to five pieces in messages of 12 characters, one or two calls with up to two members, pages of seven tokens | `ArrivesWhole`, `CallsReadAsWritten` |
| `parts` | each part of `MCServices` alone; six answers of the model under nine shapes, four updates in two chats and two processes, four calls with three hang-ups, two attempts of a turn, two boots, two threads with two changes of settings, fetches with two redirects between two names, pages of up to five characters read in parts of two, conversations of six messages with up to two calls together, histories of five | `OwnArguments`, `ResultsBoundEffects`, `PolledInOrder`, `SettledUnlessFailed`, `TracesAreTrue`, `HooksFit`, `OnlyRacesDiffer`, `RequestsAreChecked`, `ReadsOnWhole`, `ListIsWhole` |

Where a property joins several statements, its definition names each:
`LeasesAreExclusive` (`OneLiveLease`, `HolderUnique`), `SpendingBounded`
(`StepsBounded`, `StopIsHeeded`), `RepeatsArePaidFor` (`RunsCounted`,
`CopiesCounted`), `NothingHalfLeft` (`NothingLeftOver`, `OneVoice`), `FoldsAccounted` (`SummaryAccounts`, `CompactionsAccount`),
`NothingIsLost` (`RequestWhole`, `StubsPointHome`), `ProviderAccepts`
(`RequestPaired`, `MediaBounded`), `TracesAreTrue` (`TraceReadsBack`,
`CrashIsFound`), `ReadsOnWhole` (`PageArrives`, `HistoryArrives`), `ArrivesWhole`
(`AnswerArrives`, `PageReads`). The types of
`UpdateDelivery`, `TurnLoop`, `Conversation`, `ThreadContext`, `AnswerDelivery`,
`Workspace` and `BrowserSession` are proved.

Why the bounds are enough. Two updates and two containers are the least with
which two containers can hold one row, hold two rows of one line, or hand a line
over; a handler longer than a lease (`TurnLimit` 4, `LeaseTerm` 3) makes the
late result happen, a timeout at 4 the kill, and draining until 3 a lease taken
so late that it outlives its container. In the safety run
`MAX_ATTEMPTS` is 2, so that a third claim gives up. A batch of two calls is the
least in which a worker dies with one call done; three steps of single calls the
least in which two identical failures, and two identical successes with a write
between them, happen before the ceiling. Each bound on an unbounded counter is a
constant named in the module (`MaxLosses`, `MaxFaults`, `MaxCrashes`,
`MaxBatch`, `MaxUpdates`, `MaxCalls`, `MaxThreads`, `MaxMessages`, `MaxLapses`,
`MaxMissed`, `MaxBehind`, `MaxTogether`, `MaxCompacts`, `MaxCompletions`,
`MaxDeaths`, `MaxWrites`, `MaxTurns`, `MaxChanges`, `MaxLives`, `MaxHangups`,
`MaxBrackets`, `MaxAttempts`, `MaxFailures`, `MaxBoots`, `MaxSwitches`,
`MaxUses`, `MaxOpens`, `MaxTokens`,
`MaxStored`) and stands in a guard, never in a state constraint.
Three updates are the least with a message, a press that answers it and a second
press or a message that withdraws the question; two texts and one answer make
equal exchanges, which `already_stored` takes for one, as frequent as they can
be; two faults let a redelivery be interrupted again.
In `context`, eight messages are the least with two exchanges to keep, one or
two to fold and a current turn with a batch; with them a fold cuts at the floor,
below it, and inside one long exchange, a second round of `fitted` is needed, a
forced fold after an overflow succeeds and fails, and a late fold overwrites a
newer summary. A third round of `fitted` needs more messages than TLC can take
here; the proofs cover it.
In `answer`, two messages are the least with a first one to edit and a later one
to send, three completions the least with a steered draft, tools and an answer
after them. In `workspace`, two writes are the least with an older version to
find again, two turns the least with one that is owed another's files, and the
third host is what commits in between. Six commands are the
least of `browser` in which a call is given up, its reply arrives inside another,
and an intercepted request stands between them. The pieces of `readers` are the
least with a fence or a quote that a message's limit cuts, and markup nested to
the limit of depth.
The proofs of section 5 hold for every value of the bounds.

Deadlock is not checked: the systems stop when every update is done, the turn
is over, or the person has sent all the instance allows. `answer` checks it: its
only end is a turn at rest.

Every property has a mutant in `PROJECT.json`: a definition of the model changed
the way a plausible bug would change the code (no `NOT EXISTS` in the claim, no
`WHERE lease_token` in the finish, a question that outlives its batch, a step
priced after it was judged, a status kept when its turn ends, a reply matched
to whoever waits). The mutated forms stand beside the
definitions they replace, marked *Mutated*, and are used by nothing else.

## 4 Fairness

- *Delivery.* Telegram redelivers what was not acknowledged; a request and a
  spawned invocation get to run; statements return; a handler ends or the
  platform kills it at its timeout; time passes. No fault and no loss has to
  happen. `EveryUpdateSettles` is checked with lost 200s and failing requests,
  and without crashes or raising handlers: with those the code does not promise
  it (section 6), and the person's next message drains the line.
- *Turn.* A live worker goes on, and a dead one is followed by another, as the
  queue's redelivery provides. Nobody has to answer a question or ask for a stop,
  so `TurnEnds` says: over, or waiting for an answer, infinitely often.

The other modules state safety only and no fairness.

## 5 What is proved

For every value of the constants that satisfies the assumptions of the module in
question: `InboxAssumption` and `DeliveryAssumption`, `LoopAssumption`,
`ConversationAssumption`, `WindowAssumption` and `ContextAssumption`,
`WorkspaceAssumption`, `BrowserAssumption`, `RetriesAssumption` and the
`DeliveryAssumption` of `AnswerDelivery`, `PartsAssumption` and
`CallsAssumption`. TLC evaluates each of them in a run. Two are more than a type:
`CallsAssumption` (section 2), and the part `ModelServerAssumption` of
`PartsAssumption`, which is the asserts of `model_app.py` with room for the last
poll: one more pause and the poll's own timeout. The values of the three
deployments satisfy it.

**`UpdateDeliveryProofs`.** `Invariance` establishes the inductive
invariant; `TypeCorrect`, `LeasesExclude`, `OneHolder`, `RetriesBounded`,
`DoneStaysDone`, `LeaseRespected` and `QueueImplemented` follow, and `LeasesHold`, which joins the second and third. `OneLiveLease`
is inductive with the type invariant alone, for a claim requires that no row of
the line is live. `HolderUnique` is not: a container that works on after its
lease ran out still has its number, and what keeps another from drawing the same
one is that a token never exceeds the row's attempts, that a row without a holder
has no token, and that no two containers remember the same lease of a row. Those facts are
the strengthening, together with the link between `handled` and
`attempts` that bounds the handler's starts. `QueueImplemented` is the
refinement of `ConversationQueue`: every step maps to an accept, a serve, a
return, a finish or a stutter, and the tick maps to the return of the updates
whose leases ran out.

**`TurnLoopProofs`.** `IInv` is `TypeOK` and six facts:

- `Settled`: only the last batch can lack results, and only while `tools` is next.
- `Spending`: what may still be spent, by where the turn stands. A turn that is
  ending never reaches `tools` again and has one model step left; a batch whose
  worker died is answered outside the budget check, and the death it took pays
  for the step that follows.
- `Heeding`: the same accounting for model steps begun after a stop, reads of it
  that failed included: a batch that runs was begun before the stop, or past a
  read that failed.
- `Consent`: a yes a worker holds is one the person gave for this batch, calls
  that ran are calls of the transcript, and of those about to run each that needs
  a yes has one.
- `Once`: a question is about a batch that has a call needing one, and a batch
  nobody was asked about has run nothing when it is begun and none of its open
  calls while it runs.
- `Keeping`: the store has the turn once the worker reached `stored`.

`TypeCorrect`, `CallsAnswered`, `Affordable`, `Stoppable`, `Bounded`,
`Consented`, `RunOnce` and `KeptOnce` give the types, the properties of
`turn_batches` and the safety property of `turn_steps` from it.
None is inductive alone: `StepsBounded` for instance needs that a turn over its
budget has `stopping` set before it returns to the model, but for a resumed batch,
which is where the `+ crashes` comes from.

**`ConversationProofs`.** The types and every property of `conversation`, as
`TypeCorrect`, `Pressed`, `RunsPaidFor`, `CopiesPaidFor`, `RepeatsPaidFor`,
`KeptInOrder` and `Withdrawn`, from `Invariance`. `IInv` adds to the five invariants:

- `WorkerPlaced`: the worker's update is the oldest that waits, an answer in hand
  is that update's press, and its `pc` fits the thread's checkpoint.
- `TurnPlaced`: only `tools` waits for an answer, and a turn's text is that of the
  message it began with.
- `Older`: what a thread has, stored or under way, is no younger than anything
  that waits. With the claim of the oldest this makes `StoredInOrder` inductive;
  without it a turn taken up later might be stored behind its successor.
- `BatchesApart`, `NotYetRun`: a call is in one batch at most, and one that waits
  in a batch has not run but before a death, which `RunsCounted` needs when it is
  run.
- `CopiesOwed`: where another copy of an exchange may still come, the update has
  been put back after a turn's end as often as there are copies. The two moments
  between which a copy is made and its update closed (`Kept`, `Closing`) are
  excepted.

**`ThreadContextProofs`.** `CutKeeps` is about the
algorithm alone: whatever is to be freed, messages that begin with a step are
cut where a step begins, and `KEEP_TURNS` exchanges or `KEEP_STEPS` steps stay.
It rests on `NewestIsNewest` (counting from the back reaches every number there
is) and on the fact that a cut at the floor or at an exchange needs no
`turn_boundary`. `Invariant` carries it through the machine. `IInv` adds to
`SummaryAccounts`, `NewestStays` and `CompactionsAccount`:

- `ContextsSound`: while a turn still asks the model, its checkpointed context
  and the one in hand are a summary of the store's front and the rest of it. The
  store grows only after that, which is why an old context stays whole.
- `FoldsSound`: a fold under way, and one whose worker lost its lease, read a
  summary that accounted for what it said and cuts where a step begins, in front
  of what stays. So either may write last.
- `MessagesPaired`: the store is paired, and so is the turn but for the last step
  while `tools` is next.
- `WorkerPlaced`: which node a worker runs, and for which it folds.

`TypeCorrect`, `SummaryAccounted`, `NewestKept`, `CompactionsAccounted`,
`Accounted`, `RequestsWhole`, `StubsFound`, `NothingLost` and `RequestsPaired`
follow, and with `MediaWithin` (`MediaBounded`) and `RequestsAccepted`
(`ProviderAccepts`) every property of `context`. `MediaWithin` is about a sum over
a whole request, so about the recursive function `Total`: that it is the last of
the partial sums, that it adds a position at a time and depends on nothing else
(`TotalIsSum`, `TotalStep`, `TotalSame`) is proved of the least length at which it
would fail (`LeastIsLeast`, from the well-foundedness of `<`), since the library's
induction theorems cannot be instantiated; `MediaWithinBudget` then counts the
media from the newest message back, as `within_media_budget` does. The other proofs say
nothing of what sizes add up to: `Cut`'s excess and `Fit`'s comparison are
arbitrary in them, and `used`, a sum, has no type.

**`WorkspaceProofs`.** `RoundTrip`, `FilesAreThere` and `SettingsRecent` are the
three properties of `workspace`. `IInv` is `TypeOK` and

- `Bonds`: one turn is served at a time, and a command's container belongs to one
  turn that waits for it.
- `Kept`, in three parts: a container that holds a change holds a version no older
  than the volume's (`NewestInHand`); two that hold one of the same file have raced
  for it (`RacesSeen`); so what a worker handed over stays on the volume, and
  whoever opened since has it, by the reload of its opening or in hand
  (`HandedOn`).
- `Whole`: where the turn's versions are at each point of a call: in the worker,
  on the volume, in the runner, on the volume again. A worker that waits has
  nothing uncommitted, or its reload would lose it.
- `Marked`: the volume's marker and the worker's copy of it were both in force
  since the worker opened.

**`BrowserSessionProofs`.** `RepliesOwned`, `RequestsDecided` and `ActsAsShown`
are the three properties of `browser`. `IInv` adds

- `Numbered`: a command's id is the number of commands sent before it, decisions
  counted, and its reply carries the same; so an id is never another call's.
- `Ordered`: commands wait in the order of their numbers, behind every reply there
  is, and no command but a decision is younger than the outstanding call. So once
  the awaited reply is there, only decisions are left to execute
  (`OnlyDecisions`), which is what the other parts lean on.
- `Decided`: the event or the decision of each held request, by position; the
  counts of `EveryRequestDecided` follow from it at the end.
- `Understood`: while no snapshot was given up on, a ref means to the page what
  it means to the session, and so does every act on its way. Taking a later
  reply restores it, for what was given up has been executed by then.
- `InPlace`: the later commands of an act go out behind decisions only; a place
  to be pressed has the meant element unless the page moved, and the focus is on it
  before keys are sent unless something took it.

**`AnswerDeliveryProofs`.** The types and the three properties of `answer`:
`LeavesNothingHalf` (`NothingHalfLeft`),
`DeliversWhole` (`DeliveredWhole`) and the action property `ArrivedTextsStay`
(`AnswersStay`). `IInv` is `TypeOK` and

- `Streaming`: text is let out of one attempt of a request, and after it nothing
  is asked again.
- `Pictured`: every status and preview of the chat is the one the worker
  remembers, or `stuck`; so a handler that ends leaves none behind.
- `Carrying`: the text in hand is the last one committed, and its pieces before
  the next one are in the chat.
- `Remembered`: what the worker takes for delivered has arrived, at a place
  nobody works at. Without it a repetition might be passed over that never came.
- `Covered`: the texts that are not in the chat, but the one in hand, are no more
  than the deaths so far and a failed send not yet paid for (`Owed`). A text
  counts as there only when no preview is about to become its first piece
  (`Firm`), for a refused edit takes it back.

For `Covered` a step is one of five (`Moves`): it commits a text, delivers it,
passes over a repetition, loses one, or moves no text at all.

**`ServicesProofs`.** The properties of `parts`, each with an invariant of
its own that the steps of its module keep and all others leave alone:

- `SettlesUnlessFailed` (`SettledUnlessFailed`), from `StoreInv`: between calls no
  transaction is left, or the last call failed (`Closed`); a call past its first
  statement has noticed every hang-up older than itself (`Noticed`); and what a
  delete has written is in its own transaction, so a commit keeps all of it or
  nothing (`Unmixed`).
- `HooksAlwaysFit` (`HooksFit`), from `BoxInv`: how much of a hook's time can be
  spent at each of its points, and at most `StartWaits` before the second where one
  container runs both. The last poll may begin just before its deadline, take its
  timeout and pause once more, which is the room the assumption asks for.
- `OnlyRacesDisagree`, from `GraphInv`: what a task compiles with is what the
  markers say until it puts the graph into the cache, unless they changed since
  (`across`).
- `PollsInOrder`, from `PollInv`: tasks that have not run are the last updates
  taken; a chat's line is in order, behind the update that holds its lock; and
  everything asked past has ended or is in one of these places. The properties of
  what was begun follow, for who begins is younger than all that began before.
- `RunsWhatWasMeant` (`OwnArguments`), from the part of `CallsInv` about the
  stream: the partial call at a place has that call's id and name and a prefix of
  its fragments (`Owned`), whatever the server marks and in whatever order
  different calls' fragments come.
- `ResultsBound` (`ResultsBoundEffects`), from the rest of it: what the executor
  has prepared, allowed and started of each call, and that only a body that was
  given up may still land.
- `ReadsAsItWent` (`TracesAreTrue`), from `TraceInv`: what was written of a
  turn or is about to be (`Log`) has numbers of its own (`Apart`); the calls of
  a kind are numbered from one, each in the log and under way or left
  (`Enumerated`); an ending in the log is how the call ended, and one under way
  has none (`Concluded`). A row says running as long as the turn is, or once it
  died (`RowKept`).

- `AsksWhatWasChecked` (`RequestsAreChecked`), from `FetchInv`: where a fetch
  under way goes was checked for the name it asks (`Bound`), and how many requests
  it can have made is the hops so far, one more if a second agent was tried, and
  one more while it waits (`Counted`).
- `ReadsOnToTheEnd` (`ReadsOnWhole`), from `PagingInv` and `ReadInv`. A part of a
  page begins no later than the last one ended, whatever was downloaded for it
  (`Joined`), and while the page stays the same each character is in one part
  (`Once`). A reader of the stored words has got a beginning of the text that
  stands there now (`Reached`); that this stays so while turns are stored is
  `TextGrows`: the results of every call of a message follow it side by side
  (`Turned`, `CallsStand`), so a range that ended at the end of the conversation
  ended with no call open, and only gains messages behind it. What joined pieces
  hold (`WordsJoined`, `FlattenHolds`, `FlattenGrows`) is again proved of the least
  length.
- `SendsAllOnce` (`ListIsWhole`), from `TalkInv`: a history is a conversation
  (`Conversing`), each call answered in its turn, and what answers makes no calls.
  The list is built from it message by message, and after each (`Built`) it and
  the texts carried hold what the messages so far hold, in their order (`HeldBy`).
  That system texts never come between a call and its results needs `Paired`: as
  long as results are to come, nothing is carried, and the messages next to come
  are those results. `EveryBuilt` goes through the history by the least message
  after which it would fail, `CarryKeeps` and `PlaceKeeps` are its steps.

Left to TLC: the two properties of `readers`, which say what recursive readers make of
texts of any length, with a state carried from token to token; the
liveness properties `EveryUpdateSettles` and `TurnEnds` (TLAPS does not handle
fairness here); and the counterexample.

## 6 Where code and documentation differ

`workspace_killed` ends in a counterexample to a sentence of the repository, which
`PROJECT.json` quotes under `findings`: `_kill_tree` promises to stop a command
*and everything it started*, and does nothing when the shell has already exited
and only a process it left keeps the output open (`shell.py:235`). What was
reported as killed can go on writing to the workspace.

Eight more formulas, defined beside the properties, state what a comment or
docstring says and the code does not keep. No run spends time on them; a
configuration of the module that names one in place of its invariants shows the
trace.

| Formula | Says | What happens | What holds instead |
|---|---|---|---|
| `LeaseDiesWithItsContainer` | `webhook.py:51-54` | a drained update is leased for a full lease late in its container's life; killed on it, the container leaves a live lease | `LeaseIsRespected` |
| `SuppressedSpawnIsDrained` (`delivery_liveness` with one fault) | `inbox.py:245-247` | a spawn suppressed by the lease of a crashed container starts nobody; a further message drains both | `EveryUpdateSettles` without worker faults |
| `CeilingOfSteps` | `TurnBudget`, `graph.py:101-103` | every death in `tools` adds a model call to the N + 1 | `SpendingBounded`, proved |
| `SideEffectsOnce` | `graph.py:315-316` | an approved batch runs again when the worker dies inside it and the answer is delivered again | `NothingRunsAgain`, proved |
| `ButtonTellsTruth` | `adapter.py:1369-1374` | a button of a withdrawn question, or one pressed after `/chats` led elsewhere, is settled as approved although nothing runs | `RanOnlyIfPressed`, `WithdrawnNeverRuns`, proved |
| `RefusedOnlyIfTooLarge` | `graph.py:801-803` | a resumed turn keeps the context it was given; folded meanwhile, its thread would fit, and it is refused as too large | `NothingIsLost`, proved |
| `FirstBootFits` | `model_app.py:156-160` | the first boot runs both hooks in one container, which together may take longer than the container has to come up | `HooksFit`, proved |
| `ArrivesOnce` | `AnswerPreview.finish`, `adapter.py:383-384` | the first piece replaces the preview, the second is refused, and the whole answer is sent again | `DeliveredWhole`, `AnswersStay`, proved |

Smaller observations, met while modelling:

- `_Readable.handle_data` drops data of white space alone, so
  `<a>Home</a> <a>About</a>` reads as one word (`web.py:288-291`, against
  "everything else becomes flowing text"). `PageReads` therefore speaks of the
  order and the lines of words, not of the blanks between them.
- `/mode` answers "from your next message" (`adapter.py:955`). A container that
  drains a line keeps the graph it compiled for the whole invocation; and in the
  local profile a switch that falls between a task's reading of the markers and
  its end leaves that graph cached until the next switch (`runtime.py:377-405`).
  `ModeIsRecent` and `OnlyRacesDiffer` say exactly what is excepted.
- Two tasks that open the checkpoint connection at once leave one connection
  behind; a connection whose `SET search_path` failed is kept as opened
  (`checkpoints.py:45-71`).
- A volume is committed after the update is completed: the next container may
  begin its turn, and reload, in between (`control_app.py:398-407`); a container
  killed in between loses the files while the checkpoint says they were written.
- Calls with equal or empty ids share one answer of the person; `repaired` takes
  the tail off an undamaged value that happens to end like a damaged one
  (`openai_compatible.py:325-326`). `OwnArguments` therefore allows a value to
  lose its tail.
- A stream that ends without `[DONE]`, or after an error inside it, is taken for a
  finished completion (`openai_compatible.py:734-762`).
- The final answer's failed send comes after the checkpoint: the retry finds the
  turn complete, and the trace says delivered only for what it then repeats.
- A draft a stopping extension objects to is kept by the instruction it gives
  (`agent/todo.py`) and lost when the turn ends before another one is written.
- Batches of events of a retried turn are refused by the table's key, since the
  numbers begin again (`tests/test_turn_telemetry.py:237-242` expects it);
  an aborted transaction of `telemetry/postgres.py` stays until the connection
  is dropped.
- The store's `_cursor` settles after an `OperationalError` only
  (`memory/postgres.py:294`). Any other refusal leaves the connection's transaction
  aborted, and every later call through `_cursor` is refused until a `turn_context`
  or a hang-up ends it; an error of the client leaves it open (against `_settle`'s
  docstring). `SettledUnlessFailed` says what holds: nothing is left by a call
  that succeeded, a delete is kept whole or not at all, and a call is not told of
  a hang-up older than itself.
- A read of the stop that fails is no stop (`graph.py:820-830`): the turn spends one
  more step for each. `StopIsHeeded` counts them.
- A text typed by the browser's tool goes to whatever has the focus when the key and
  the text arrive, and a press to whatever lies at the place (`chromium.py:782-817`);
  the result still names the element that was meant.
- A tool that runs out of time is reported as stopped (`execution.py:176-181`), and a
  synchronous one goes on in its thread (`execution.py:335-342` says so itself);
  one that raises may have acted before. What a failure promises is what
  `ResultsBoundEffects` leaves: nothing of the body's effect.
- `fetch_page` downloads the page again for every part: a page that changed in
  between is read on at the old offset without a word, and the parts may be of
  two texts. `PageArrives` therefore speaks of gaps and of the last line of each
  part, and of wholeness only while the page stays the same.
- `with_results` (`history.py:63-85`) completes the calls of the last message only: a
  range that ends at the first of two results leaves the second out, against "a
  call and what came back are one thing to a reader".
- `model_app.py:156-160` says that every timeout "is chosen so that the worst case of
  a whole path stays under" the container's limit, and asserts it of each hook, with
  the last poll left out. With it the hooks still fit: start 420 + 2 + 5 + 270 + 180 =
  877 of 900 seconds, resume 180 + 300 + 7 = 487; the Qwen server's start 1177 of 1200.
  But the first boot runs both hooks in one container, 877 + 487 = 1364 of 900 (Qwen
  1664 of 1200), and nothing bounds the two together (`FirstBootFits` fails).
  `HooksFit` states each hook's bound, one that raises included, and what the first
  may have spent before the second begins.

## 7 What is not modelled

External parts enter through their contracts. PostgreSQL: a statement is atomic,
the conversation's advisory lock is held to the end of its transaction. LangGraph:
a node's patch and edge are checkpointed together, `interrupt` re-runs its
node. Modal: `retries=1`, a preempted input is rescheduled, `max_containers`.

Formatting of reports, logging and the wording of prompts are left out, as are
the model's quality, bytes on the wire, and time except where the code waits or a
lease runs. A data abstraction is named in its module's head. Not modelled at
all: the Chainlit interface (a second, thin interface over the same `Agent`,
scheduled by Chainlit), scripts and measurement tools, images and settings of
the deployments. Of modelled components these parts are left out:

- the stop's sequence mark (`stop.py`): which turn a late `/stop` belongs to;
- facts, search over the history, forgetting, and the list of conversations;
- tools whose whole effect is one file or one answer: edits by text, documents,
  images, goal and to-do lists, search providers;
- incoming attachments and downloads, retry-after waits inside one call;
- the browser's `press`, which names no element and goes to the focus;
- several messages with calls in one stored turn (`HistoryReading`);
- the calibration of token estimates, costs, and the metrics of the servers.

## 8 Plan

Done: delivery, turn, conversation and context with their runs and proofs;
answers, calls, workspace, browser and the parts of `MCServices` likewise; texts
with their run. Next, in order of importance:

1. A composition of `ThreadContext` with `TurnLoop` as a refinement of an abstract
   thread, of which every message is in the store, in the summary, or in the
   turn.
2. `Conversation` extended by the stop's sequence mark and by changes of mode
   between a question and its answer.
3. The rest of the store: facts and search, forgetting.

## 9 Running it

    tlc -workers 2 -config MCUpdateDelivery_safety.cfg MCUpdateDelivery
    tlc -workers 2 -config MCTurnLoop_batches.cfg MCTurnLoop
    tlc -workers 2 -config MCConversation_safety.cfg MCConversation
    tlc -workers 2 -config MCThreadContext_folding.cfg MCThreadContext
    tlc -workers 2 -config MCAnswerDelivery_safety.cfg MCAnswerDelivery
    tlc -workers 2 -config MCWorkspace_safety.cfg MCWorkspace
    tlc -workers 2 -config MCBrowserSession_safety.cfg MCBrowserSession
    tlc -workers 2 -config MCReaders_texts.cfg MCReaders
    tlc -workers 2 -config MCServices_parts.cfg MCServices
    tlapm UpdateDeliveryProofs.tla
    tlapm TurnLoopProofs.tla
    tlapm ConversationProofs.tla
    tlapm ThreadContextProofs.tla
    tlapm WorkspaceProofs.tla
    tlapm BrowserSessionProofs.tla
    tlapm AnswerDeliveryProofs.tla
    tlapm ServicesProofs.tla

The other configurations are run the same way; `PROJECT.json` lists them. The
longest run takes about two and a half minutes on two workers; the proofs take a few minutes
each, those of `ServicesProofs` a quarter of an hour.
