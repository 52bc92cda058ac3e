---------------------------- MODULE Conversation ----------------------------
(***************************************************************************)
(* One person's conversations as the Telegram adapter handles them         *)
(* (ui/telegram/adapter.py): messages and button presses in the order they *)
(* were sent, each possibly handled more than once; /new and /chats beside *)
(* that line; a turn per message in the thread that is current when it is  *)
(* handled, taken up again, started afresh or waiting for a button; and    *)
(* what the buttons on the screen say.                                     *)
(*                                                                         *)
(* The queue is UpdateInbox's line, here with the one worker its lease     *)
(* allows.  A turn is TurnLoop's, reduced to what crosses the adapter: of a*)
(* batch only the calls the person is asked about, no budget, no stop.     *)
(*                                                                         *)
(* External: LangGraph.  Command(resume=answer) runs the thread's pending  *)
(* node again with the answer in hand, which its interrupt() then returns; *)
(* a thread with nothing pending is left as it is.  An answer nobody took  *)
(* in that first node is gone.                                             *)
(***************************************************************************)
EXTENDS Naturals, Sequences, FiniteSets

CONSTANTS
  Text,          \* what a message can say, up to equality
  Reply,         \* what an answer can say
  MAX_ATTEMPTS,  \* claims of one update before the queue gives up on it
  MaxUpdates,    \* bound: updates of the person
  MaxCalls,      \* bound: calls the person is asked about
  MaxThreads,    \* bound: conversations
  MaxBatch,      \* bound: such calls in one batch
  MaxFaults      \* bound: deaths, refusals of Telegram, failing requests

ASSUME ConversationAssumption ==
  /\ MAX_ATTEMPTS \in Nat \ {0} /\ MaxUpdates \in Nat /\ MaxCalls \in Nat
  /\ MaxThreads \in Nat /\ MaxBatch \in Nat /\ MaxFaults \in Nat

Id == 1..MaxUpdates
CallId == 1..MaxCalls
Thread == 1..MaxThreads

VARIABLES
  sent,      \* updates the person has sent; they are numbered from 1
  update,    \* what each of them is
  waiting,   \* updates in the queue that are not done
  attempts,  \* how often each was claimed
  threads,   \* conversations created
  active,    \* the current one, 0 while none was chosen
  turn,      \* each thread's checkpoint
  store,     \* each thread's stored exchanges
  calls,     \* calls the model has made that the person is asked about
  button,    \* what the screen shows beside each of them
  worker,    \* the one that handles the oldest update
  faults,
  (* history *)
  granted,   \* calls an answer allowed when its question took it
  ran,       \* how often each call was run
  cut,       \* how often a worker died between running it and its result
  late       \* how often an update was put back after its turn had ended

world == <<sent, update, faults>>
queue == <<waiting, attempts>>
choice == <<threads, active>>
history == <<granted, ran, cut, late>>
vars == <<world, queue, choice, turn, store, calls, button, worker, history>>

Message == [kind : {"message"}, text : Text]
Press == [kind : {"press"}, call : CallId, yes : BOOLEAN]
Nothing == [kind |-> "nothing"]

(* The checkpoint of a thread.  `from` is the update its turn began with,  *)
(* `batch` the calls the tools node has before it, `asked` its interrupt.  *)
Turn ==
  [next : {"model", "tools", "persist", "end"}, from : Id, text : Text,
   reply : Reply \cup {"none"}, made : SUBSET CallId, batch : SUBSET CallId,
   asked : BOOLEAN]
NoTurn == [next |-> "none", asked |-> FALSE, batch |-> {}]

Exchange == [from : Id, text : Text, reply : Reply, made : SUBSET CallId]

(* pc: "run" a node of the thread, "ran" the calls of a batch, "kept" the  *)
(* exchange in the store; "ask" the pending calls; "close" the update.     *)
(* answer: the press whose answer the next node may still take, 0 if none. *)
(* settle: the pressed button has still to be settled.                     *)
Worker ==
  [pc : {"run", "ran", "kept", "ask", "close"}, job : Id, thread : Thread,
   answer : Id \cup {0}, settle : BOOLEAN]
Idle == [pc |-> "idle"]

TypeOK ==
  /\ sent \in 0..MaxUpdates /\ update \in [Id -> Message \cup Press \cup {Nothing}]
  /\ waiting \subseteq 1..sent /\ attempts \in [Id -> Nat]
  /\ threads \in 0..MaxThreads /\ active \in 0..threads
  /\ turn \in [Thread -> Turn \cup {NoTurn}]
  /\ store \in [Thread -> Seq(Exchange)]
  /\ calls \in 0..MaxCalls
  /\ button \in [CallId -> {"none", "open", "approved", "rejected"}]
  /\ worker \in Worker \cup {Idle}
  /\ faults \in Nat
  /\ granted \subseteq CallId
  /\ ran \in [CallId -> Nat] /\ cut \in [CallId -> Nat] /\ late \in [Id -> Nat]

Init ==
  /\ sent = 0 /\ update = [u \in Id |-> Nothing]
  /\ waiting = {} /\ attempts = [u \in Id |-> 0]
  /\ threads = 0 /\ active = 0
  /\ turn = [t \in Thread |-> NoTurn]
  /\ store = [t \in Thread |-> <<>>]
  /\ calls = 0 /\ button = [c \in CallId |-> "none"]
  /\ worker = Idle /\ faults = 0
  /\ granted = {} /\ ran = [c \in CallId |-> 0]
  /\ cut = [c \in CallId |-> 0] /\ late = [u \in Id |-> 0]

----------------------------------------------------------------------------
(* The person.                                                             *)

Send(u) ==
  /\ sent < MaxUpdates
  /\ sent' = sent + 1
  /\ update' = [update EXCEPT ![sent + 1] = u]
  /\ waiting' = waiting \cup {sent + 1}
  /\ UNCHANGED <<attempts, choice, turn, store, calls, button, worker, faults, history>>

Write == \E x \in Text : Send([kind |-> "message", text |-> x])

(* Any button that is still shown, in whatever conversation it was asked. *)
PressButton ==
  \E c \in CallId, v \in BOOLEAN :
    /\ button[c] = "open"
    /\ Send([kind |-> "press", call |-> c, yes |-> v])

(* start_thread. *)
StartThread ==
  /\ threads < MaxThreads
  /\ threads' = threads + 1 /\ active' = threads + 1

(* /new and a choice in /chats are handled beside the line, at any moment. *)
NewConversation ==
  /\ active # 0 => store[active] # <<>>
  /\ StartThread
  /\ UNCHANGED <<world, queue, turn, store, calls, button, worker, history>>

ChooseConversation ==
  /\ \E t \in 1..threads : t # active /\ active' = t
  /\ UNCHANGED <<world, queue, threads, turn, store, calls, button, worker, history>>

(* current_thread: t is the thread the person is in, created if need be. *)
CurrentThread(t) ==
  \/ active # 0 /\ t = active /\ UNCHANGED choice
  \/ active = 0 /\ t = threads + 1 /\ StartThread

----------------------------------------------------------------------------
(* Claiming an update.                                                     *)

(* Mutated: any update that waits. *)
AnyWaiting(u) == u \in waiting

Oldest(u) == u \in waiting /\ \A v \in waiting : u <= v

Claim(u) ==
  /\ worker = Idle
  /\ Oldest(u)
  /\ attempts[u] < MAX_ATTEMPTS
  /\ attempts' = [attempts EXCEPT ![u] = @ + 1]

Work(pc, u, t, answer, settle) ==
  worker' = [pc |-> pc, job |-> u, thread |-> t, answer |-> answer, settle |-> settle]

(* give_up: claimed too often, and the person is told so. *)
GiveUp(u) ==
  /\ worker = Idle /\ Oldest(u) /\ attempts[u] >= MAX_ATTEMPTS
  /\ attempts' = [attempts EXCEPT ![u] = @ + 1]
  /\ waiting' = waiting \ {u}
  /\ UNCHANGED <<world, choice, turn, store, calls, button, worker, history>>

Unfinished(t) == turn[t].next \notin {"none", "end"} /\ ~turn[t].asked

(* A turn that began with the same words and that nobody finished. *)
SameRequest(t, u) == Unfinished(t) /\ turn[t].text = update[u].text

(* resume_interrupted_events: the calls of a batch that was running are    *)
(* answered "interrupted"; anything else goes on where it stopped.         *)
TakeUp(t) ==
  turn' = IF turn[t].next = "tools"
          THEN [turn EXCEPT ![t].next = "model", ![t].batch = {}]
          ELSE turn

(* events: the message replaces what the checkpoint held. *)
StartAfresh(t, u) ==
  turn' = [turn EXCEPT ![t] =
    [next |-> "model", from |-> u, text |-> update[u].text, reply |-> "none",
     made |-> {}, batch |-> {}, asked |-> FALSE]]

BeginMessage(u) ==
  /\ Claim(u) /\ update[u].kind = "message"
  /\ \E t \in Thread :
       /\ CurrentThread(t)
       /\ IF SameRequest(t, u) THEN TakeUp(t) ELSE StartAfresh(t, u)
       /\ Work("run", u, t, 0, FALSE)
  /\ UNCHANGED <<world, waiting, store, calls, button, history>>

(* The press goes to the thread that is current now.  One with nothing     *)
(* pending produces no event; whether a thread without any checkpoint      *)
(* counts as an error is LangGraph's.                                      *)
BeginPress(u) ==
  /\ Claim(u) /\ update[u].kind = "press"
  /\ \E t \in Thread :
       /\ CurrentThread(t)
       /\ \/ turn[t].next \notin {"none", "end"} /\ Work("run", u, t, u, TRUE)
          \/ turn[t].next = "end" /\ Work("close", u, t, 0, TRUE)
          \/ turn[t].next = "none" /\ \E s \in BOOLEAN : Work("close", u, t, 0, s)
  /\ UNCHANGED <<world, waiting, turn, store, calls, button, history>>

----------------------------------------------------------------------------
(* The turn.                                                               *)

T == worker.thread
J == worker.job
Running(node) == worker.pc = "run" /\ turn[T].next = node

(* _settle, on the first event of the stream or at its end. *)
Settled(c, yes) == [button EXCEPT ![c] = IF yes THEN "approved" ELSE "rejected"]
(* Telegram may refuse the edit; the buttons then stay as they are.        *)
SettleIfDue ==
  \/ UNCHANGED button
  \/ worker.settle /\ button' = Settled(update[J].call, update[J].yes)

Answer ==
  /\ Running("model")
  /\ \E r \in Reply :
       turn' = [turn EXCEPT ![T].next = "persist", ![T].reply = r]
  /\ SettleIfDue
  /\ worker' = [worker EXCEPT !.answer = 0, !.settle = FALSE]
  /\ UNCHANGED <<world, queue, choice, store, calls, history>>

AskForCalls ==
  /\ Running("model")
  /\ \E n \in 1..MaxBatch :
       /\ calls + n <= MaxCalls
       /\ calls' = calls + n
       /\ LET new == (calls + 1)..(calls + n) IN
          turn' = [turn EXCEPT ![T].next = "tools", ![T].batch = new,
                               ![T].made = @ \cup new]
  /\ SettleIfDue
  /\ worker' = [worker EXCEPT !.answer = 0, !.settle = FALSE]
  /\ UNCHANGED <<world, queue, choice, store, history>>

(* The batch's question, when the node comes to it with no answer. *)
Interrupt ==
  /\ Running("tools") /\ worker.answer = 0
  /\ turn' = [turn EXCEPT ![T].asked = TRUE]
  /\ worker' = [worker EXCEPT !.pc = "ask"]
  /\ UNCHANGED <<world, queue, choice, store, calls, button, history>>

(* Mutated: what was pressed runs, whichever question is pending. *)
AllowedAnyway ==
  {c \in CallId : update[worker.answer].call = c /\ update[worker.answer].yes}

(* Mutated: the answer is to the question, whichever calls it is about. *)
AllowedAll == IF update[worker.answer].yes THEN turn[T].batch ELSE {}

(* An answer names one call; what it does not name is declined. *)
Allowed ==
  {c \in turn[T].batch : update[worker.answer].call = c /\ update[worker.answer].yes}

RunCalls ==
  /\ Running("tools") /\ worker.answer # 0
  /\ granted' = granted \cup Allowed
  /\ ran' = [c \in CallId |-> IF c \in Allowed THEN ran[c] + 1 ELSE ran[c]]
  /\ worker' = [worker EXCEPT !.pc = "ran"]
  /\ UNCHANGED <<world, queue, choice, turn, store, calls, button, cut, late>>

(* Mutated: the question stays in the checkpoint. *)
CommitToolsKeeping ==
  /\ worker.pc = "ran"
  /\ SettleIfDue
  /\ worker' = [worker EXCEPT !.pc = "run", !.answer = 0, !.settle = FALSE]
  /\ UNCHANGED <<world, queue, choice, turn, store, calls, history>>

CommitTools ==
  /\ worker.pc = "ran"
  /\ turn' = [turn EXCEPT ![T].next = "model", ![T].batch = {}, ![T].asked = FALSE]
  /\ SettleIfDue
  /\ worker' = [worker EXCEPT !.pc = "run", !.answer = 0, !.settle = FALSE]
  /\ UNCHANGED <<world, queue, choice, store, calls, history>>

(* What already_stored compares: texts and call ids, not who asked when. *)
TailIs(t, x) ==
  /\ store[t] # <<>>
  /\ LET last == store[t][Len(store[t])] IN
     last.text = x.text /\ last.reply = x.reply /\ last.made = x.made

ExchangeOf(t) ==
  [from |-> turn[t].from, text |-> turn[t].text, reply |-> turn[t].reply,
   made |-> turn[t].made]

StoreExchange ==
  /\ Running("persist")
  /\ store' = IF TailIs(T, ExchangeOf(T)) THEN store
              ELSE [store EXCEPT ![T] = Append(@, ExchangeOf(T))]
  /\ worker' = [worker EXCEPT !.pc = "kept", !.answer = 0]
  /\ UNCHANGED <<world, queue, choice, turn, calls, button, history>>

EndTurn ==
  /\ worker.pc = "kept"
  /\ turn' = [turn EXCEPT ![T].next = "end"]
  /\ worker' = [worker EXCEPT !.pc = "close"]
  /\ UNCHANGED <<world, queue, choice, store, calls, button, history>>

----------------------------------------------------------------------------
(* After the stream.                                                       *)

(* _ask_pending_calls: a message with two buttons for each call. *)
AskPending ==
  /\ worker.pc = "ask"
  /\ button' = [c \in CallId |-> IF c \in turn[T].batch THEN "open" ELSE button[c]]
  /\ worker' = [worker EXCEPT !.pc = "close"]
  /\ UNCHANGED <<world, queue, choice, turn, store, calls, history>>

Complete ==
  /\ worker.pc = "close"
  /\ SettleIfDue
  /\ waiting' = waiting \ {J}
  /\ worker' = Idle
  /\ UNCHANGED <<world, attempts, choice, turn, store, calls, history>>

----------------------------------------------------------------------------
(* What goes wrong.                                                        *)

Fault == faults < MaxFaults /\ faults' = faults + 1

(* The worker dies and its update is claimed again later. *)
Die ==
  /\ worker # Idle /\ Fault
  /\ cut' = [c \in CallId |-> IF worker.pc = "ran" /\ c \in Allowed THEN cut[c] + 1
                              ELSE cut[c]]
  /\ late' = IF worker.pc = "close" THEN [late EXCEPT ![J] = @ + 1] ELSE late
  /\ worker' = Idle
  /\ UNCHANGED <<sent, update, queue, choice, turn, store, calls, button, granted, ran>>

(* Telegram refuses something that had to be sent: the update is put back, *)
(* or abandoned when this was its last attempt.                            *)
Refuse ==
  /\ worker # Idle /\ worker.pc \notin {"ran", "kept"} /\ Fault
  /\ waiting' = IF attempts[J] >= MAX_ATTEMPTS THEN waiting \ {J} ELSE waiting
  /\ late' = IF worker.pc = "close" THEN [late EXCEPT ![J] = @ + 1] ELSE late
  /\ worker' = Idle
  /\ UNCHANGED <<sent, update, attempts, choice, turn, store, calls, button, granted, ran, cut>>

(* A node raises, a backend that cannot answer: the person is told that    *)
(* the request failed, and the checkpoint stays where it was.              *)
Fail ==
  /\ worker # Idle /\ worker.pc = "run" /\ Fault
  /\ waiting' = waiting \ {J}
  /\ worker' = Idle
  /\ UNCHANGED <<sent, update, attempts, choice, turn, store, calls, button, history>>

----------------------------------------------------------------------------
Person == Write \/ PressButton \/ NewConversation \/ ChooseConversation
Begin == \E u \in Id : GiveUp(u) \/ BeginMessage(u) \/ BeginPress(u)
Node ==
  Answer \/ AskForCalls \/ Interrupt \/ RunCalls \/ CommitTools \/ StoreExchange \/ EndTurn

Next == Person \/ Begin \/ Node \/ AskPending \/ Complete \/ Die \/ Refuse \/ Fail

Spec == Init /\ [][Next]_vars

----------------------------------------------------------------------------
(* Properties.                                                             *)

(* A call the person is asked about runs only if its own yes was pressed,  *)
(* whatever stale, doubled, redelivered or misdirected presses arrive.     *)
RanOnlyIfPressed ==
  \A c \in CallId : ran[c] > 0 =>
    \E u \in 1..sent : update[u] = [kind |-> "press", call |-> c, yes |-> TRUE]

(* A call whose question is gone (answered, replaced by a new message, or  *)
(* taken up as interrupted) never runs, though its buttons may still show. *)
Pending(c) == \E t \in Thread : c \in turn[t].batch
WithdrawnNeverRuns ==
  [][\A c \in 1..calls : ~Pending(c) => ran'[c] = ran[c]]_vars

(* A call runs again only after a worker died between running it and       *)
(* committing its result: no press, retry or resume does it alone.         *)
RunsCounted == \A c \in CallId : ran[c] <= 1 + cut[c]

(* A thread keeps its exchanges in the order the person wrote them.        *)
StoredInOrder ==
  \A t \in Thread : \A i, j \in 1..Len(store[t]) :
    i < j => store[t][i].from <= store[t][j].from

(* A message is stored again in a thread only when its update was put back *)
(* after the turn had ended.                                               *)
Copies(t, u) == {i \in 1..Len(store[t]) : store[t][i].from = u}
CopiesCounted ==
  \A t \in Thread, u \in Id : Cardinality(Copies(t, u)) <= 1 + late[u]

(* Nothing is repeated but what a fault paid for: neither a call that was  *)
(* allowed (graph.py, interrupted) nor an exchange (already_stored).       *)
RepeatsArePaidFor == RunsCounted /\ CopiesCounted

(* adapter.py:1369-1374, _settle: "a green tick over a transition that did *)
(* not happen is not" honest.                                              *)
ButtonTellsTruth == \A c \in CallId : button[c] = "approved" => c \in granted
=============================================================================
