------------------------- MODULE ConversationProofs -------------------------
(***************************************************************************)
(* Theorems of Conversation, for any texts and answers and any numbers of  *)
(* updates, calls, conversations, attempts and faults.                     *)
(***************************************************************************)
EXTENDS Conversation, SequenceTheorems, FiniteSetTheorems, TLAPS

----------------------------------------------------------------------------
(* The inductive invariant.                                                *)

(* Where the worker stands in the turn it runs, and which update it has.   *)
WorkerPlaced ==
  worker # Idle =>
    /\ worker.job \in waiting /\ \A u \in waiting : worker.job <= u
    /\ worker.answer # 0 =>
         worker.answer = worker.job /\ update[worker.job].kind = "press"
    /\ worker.settle => update[worker.job].kind = "press"
    /\ worker.pc = "ran" => turn[T].next = "tools" /\ worker.answer # 0
    /\ worker.pc = "kept" =>
         turn[T].next = "persist" /\ TailIs(T, ExchangeOf(T))
    /\ worker.pc = "ask" => turn[T].next = "tools" /\ turn[T].asked

(* What a checkpoint that holds a turn says of it. *)
TurnPlaced ==
  \A t \in Thread :
    /\ turn[t].asked => turn[t].next = "tools"
    /\ turn[t].next # "none" => turn[t].text = update[turn[t].from].text
    /\ turn[t].next = "persist" => turn[t].reply \in Reply

(* What a thread has, stored or under way, is older than what waits.       *)
Older ==
  \A t \in Thread :
    /\ turn[t].next # "none" =>
         /\ turn[t].from <= sent
         /\ \A u \in waiting : turn[t].from <= u
    /\ \A i \in 1..Len(store[t]) :
         /\ store[t][i].from <= sent
         /\ \A u \in waiting : store[t][i].from <= u
         /\ turn[t].next # "none" /\ store[t][i].from <= turn[t].from

(* A call is in one batch at most, and one that waits there was not run    *)
(* since the last death among running calls.                               *)
BatchesApart ==
  /\ \A t \in Thread : turn[t].batch \subseteq 1..calls
  /\ \A t, s \in Thread : turn[t].batch \cap turn[s].batch # {} => t = s
JustRun(c) == worker.pc = "ran" /\ c \in Allowed
NotYetRun ==
  \A c \in CallId :
    (c > calls \/ Pending(c)) /\ ~JustRun(c) => ran[c] <= cut[c]

(* u's turn in t, its exchange in the store: before and after its end.     *)
Kept(t, u) ==
  turn[t].next = "persist" /\ turn[t].from = u /\ TailIs(t, ExchangeOf(t))
Closing(t, u) ==
  /\ turn[t].next = "end" /\ turn[t].from = u
  /\ worker.pc = "close" /\ worker.job = u /\ T = t

(* One more copy of u's exchange can come only where it was paid for.      *)
MayCome(t, u) ==
  u \in waiting \/ (turn[t].next \notin {"none", "end"} /\ turn[t].from = u)
CopiesOwed ==
  \A t \in Thread, u \in Id :
    MayCome(t, u) /\ ~Kept(t, u) /\ ~Closing(t, u) =>
      Cardinality(Copies(t, u)) <= late[u]

IInv ==
  /\ TypeOK /\ WorkerPlaced /\ TurnPlaced /\ Older /\ StoredInOrder
  /\ BatchesApart /\ NotYetRun /\ RunsCounted /\ RanOnlyIfPressed
  /\ CopiesOwed /\ CopiesCounted

----------------------------------------------------------------------------
(* Types.                                                                  *)

LEMMA TurnTyped ==
  ASSUME TypeOK, NEW t \in Thread, turn[t].next # "none"
  PROVE  turn[t] \in Turn
  <1>1. turn[t] \in Turn \cup {NoTurn}
    BY DEF TypeOK
  <1> QED
    BY <1>1 DEF NoTurn

LEMMA BatchTyped ==
  ASSUME TypeOK, NEW t \in Thread
  PROVE  turn[t].batch \subseteq CallId /\ turn[t].asked \in BOOLEAN
  <1>1. turn[t] \in Turn \cup {NoTurn}
    BY DEF TypeOK
  <1>2. CASE turn[t] \in Turn
    BY <1>2 DEF Turn
  <1>3. CASE turn[t] = NoTurn
    BY <1>3 DEF NoTurn
  <1> QED
    BY <1>1, <1>2, <1>3

LEMMA WorkerTyped ==
  ASSUME TypeOK, worker # Idle
  PROVE  /\ worker \in Worker /\ T \in Thread /\ J \in Id
         /\ worker.answer \in Id \cup {0}
         /\ worker.pc \in {"run", "ran", "kept", "ask", "close"}
  BY DEF TypeOK, Worker, T, J

LEMMA BusyFacts ==
  ASSUME worker.pc # "idle"
  PROVE  worker # Idle
  BY DEF Idle

LEMMA PressTyped ==
  ASSUME TypeOK, NEW u \in Id, update[u].kind = "press"
  PROVE  update[u] \in Press /\ update[u].call \in CallId /\ update[u].yes \in BOOLEAN
  <1>1. update[u] \in Message \cup Press \cup {Nothing}
    BY DEF TypeOK
  <1>2. update[u] \in Press
    BY <1>1 DEF Message, Nothing
  <1> QED
    BY <1>2 DEF Press

LEMMA MessageTyped ==
  ASSUME TypeOK, NEW u \in Id, update[u].kind = "message"
  PROVE  update[u].text \in Text
  <1>1. update[u] \in Message \cup Press \cup {Nothing}
    BY DEF TypeOK
  <1>2. update[u] \in Message
    BY <1>1 DEF Press, Nothing
  <1> QED
    BY <1>2 DEF Message

LEMMA SettledTyped ==
  ASSUME TypeOK, WorkerPlaced, worker # Idle, SettleIfDue
  PROVE  button' \in [CallId -> {"none", "open", "approved", "rejected"}]
  <1>1. CASE UNCHANGED button
    BY <1>1 DEF TypeOK
  <1>2. CASE worker.settle /\ button' = Settled(update[J].call, update[J].yes)
    <2>1. update[J].call \in CallId /\ update[J].yes \in BOOLEAN
      BY <1>2, WorkerTyped, PressTyped DEF WorkerPlaced, J
    <2> QED
      BY <1>2, <2>1 DEF Settled, TypeOK
  <1> QED
    BY <1>1, <1>2 DEF SettleIfDue

LEMMA CurrentThreadTyped ==
  ASSUME TypeOK, NEW t \in Thread, CurrentThread(t)
  PROVE  /\ threads' \in 0..MaxThreads /\ active' \in 0..threads'
  BY ConversationAssumption DEF TypeOK, CurrentThread, choice, StartThread

LEMMA SendTyped ==
  ASSUME TypeOK, NEW x \in Message \cup Press, Send(x)
  PROVE  TypeOK'
  BY ConversationAssumption, SMTT(30) DEF TypeOK, Send, choice, history, Id

(* What claiming an update and placing a worker at it says of the types.   *)
LEMMA WorkTyped ==
  ASSUME NEW pc \in {"run", "close"}, NEW u \in Id, NEW t \in Thread,
         NEW a \in Id \cup {0}, NEW s \in BOOLEAN, Work(pc, u, t, a, s)
  PROVE  worker' \in Worker
  BY DEF Work, Worker

LEMMA ClaimTyped ==
  ASSUME TypeOK, NEW u \in Id, Claim(u)
  PROVE  attempts' \in [Id -> Nat]
  BY DEF TypeOK, Claim

LEMMA BeginMessageTyped ==
  ASSUME TypeOK, NEW u \in Id, BeginMessage(u)
  PROVE  TypeOK'
  <1>1. PICK t \in Thread :
          /\ CurrentThread(t)
          /\ IF SameRequest(t, u) THEN TakeUp(t) ELSE StartAfresh(t, u)
          /\ Work("run", u, t, 0, FALSE)
    BY DEF BeginMessage
  <1>2. worker' \in Worker
    BY <1>1, WorkTyped
  <1>3. turn' \in [Thread -> Turn \cup {NoTurn}]
    <2>1. CASE SameRequest(t, u)
      <3>1. turn[t] \in Turn
        BY <2>1, TurnTyped DEF SameRequest, Unfinished
      <3>2. [turn[t] EXCEPT !.next = "model", !.batch = {}] \in Turn
        BY <3>1 DEF Turn
      <3>3. turn' = turn
            \/ turn' = [turn EXCEPT ![t] = [turn[t] EXCEPT !.next = "model", !.batch = {}]]
        BY <1>1, <2>1 DEF TakeUp, TypeOK
      <3> QED
        BY <3>2, <3>3 DEF TypeOK
    <2>2. CASE ~SameRequest(t, u)
      <3>1. update[u].text \in Text
        BY MessageTyped DEF BeginMessage
      <3>2. [next |-> "model", from |-> u, text |-> update[u].text, reply |-> "none",
             made |-> {}, batch |-> {}, asked |-> FALSE] \in Turn
        BY <3>1 DEF Turn
      <3> QED
        BY <1>1, <2>2, <3>2 DEF StartAfresh, TypeOK
    <2> QED
      BY <2>1, <2>2
  <1>4. threads' \in 0..MaxThreads /\ active' \in 0..threads'
    BY <1>1, CurrentThreadTyped
  <1>5. attempts' \in [Id -> Nat]
    BY ClaimTyped DEF BeginMessage
  <1> QED
    BY <1>2, <1>3, <1>4, <1>5 DEF TypeOK, BeginMessage, world, history

LEMMA BeginPressTyped ==
  ASSUME TypeOK, NEW u \in Id, BeginPress(u)
  PROVE  TypeOK'
  <1>1. PICK t \in Thread :
          /\ CurrentThread(t)
          /\ \/ Work("run", u, t, u, TRUE)
             \/ \E s \in BOOLEAN : Work("close", u, t, 0, s)
    BY DEF BeginPress
  <1>2. worker' \in Worker
    BY <1>1, WorkTyped
  <1>3. threads' \in 0..MaxThreads /\ active' \in 0..threads'
    BY <1>1, CurrentThreadTyped
  <1>4. attempts' \in [Id -> Nat]
    BY ClaimTyped DEF BeginPress
  <1> QED
    BY <1>2, <1>3, <1>4 DEF TypeOK, BeginPress, world, history

(* A step of the worker that changes the checkpoint of its thread.         *)
LEMMA TurnStepTyped ==
  ASSUME TypeOK, worker # Idle, NEW x \in Turn, turn' = [turn EXCEPT ![T] = x]
  PROVE  turn' \in [Thread -> Turn \cup {NoTurn}]
  BY WorkerTyped DEF TypeOK

LEMMA RunningTyped ==
  ASSUME TypeOK, NEW node \in {"model", "tools", "persist"}, Running(node)
  PROVE  worker # Idle /\ worker \in Worker /\ T \in Thread /\ J \in Id /\ turn[T] \in Turn
  <1>1. worker # Idle
    BY BusyFacts DEF Running
  <1>2. T \in Thread
    BY <1>1, WorkerTyped
  <1> QED
    BY <1>1, <1>2, WorkerTyped, TurnTyped DEF Running

LEMMA ModelTyped ==
  ASSUME TypeOK, WorkerPlaced, Answer \/ AskForCalls
  PROVE  TypeOK'
  <1>1. Running("model") /\ SettleIfDue /\ worker' = [worker EXCEPT !.answer = 0, !.settle = FALSE]
    BY DEF Answer, AskForCalls
  <1>2. worker # Idle /\ worker \in Worker /\ turn[T] \in Turn /\ T \in Thread
    BY <1>1, RunningTyped
  <1>3. worker' \in Worker
    BY <1>1, <1>2 DEF Worker
  <1>4. button' \in [CallId -> {"none", "open", "approved", "rejected"}]
    BY <1>1, <1>2, SettledTyped
  <1>5. CASE Answer
    <2>1. PICK r \in Reply : turn' = [turn EXCEPT ![T].next = "persist", ![T].reply = r]
      BY <1>5 DEF Answer
    <2>2. [turn[T] EXCEPT !.next = "persist", !.reply = r] \in Turn
      BY <1>2 DEF Turn
    <2>3. turn' = [turn EXCEPT ![T] = [turn[T] EXCEPT !.next = "persist", !.reply = r]]
      BY <1>2, <2>1 DEF TypeOK
    <2>4. turn' \in [Thread -> Turn \cup {NoTurn}]
      BY <1>2, <2>2, <2>3, TurnStepTyped
    <2> QED
      BY <1>3, <1>4, <1>5, <2>4 DEF Answer, TypeOK, world, queue, choice, history
  <1>6. CASE AskForCalls
    <2>1. PICK n \in 1..MaxBatch :
            /\ calls + n <= MaxCalls /\ calls' = calls + n
            /\ LET new == (calls + 1)..(calls + n) IN
               turn' = [turn EXCEPT ![T].next = "tools", ![T].batch = new,
                                    ![T].made = @ \cup new]
      BY <1>6 DEF AskForCalls
    <2> DEFINE new == (calls + 1)..(calls + n)
    <2>2. new \subseteq CallId /\ calls' \in 0..MaxCalls
      BY <2>1, ConversationAssumption, SMTT(30) DEF TypeOK, CallId
    <2>3. [turn[T] EXCEPT !.next = "tools", !.batch = new, !.made = @ \cup new] \in Turn
      BY <1>2, <2>2 DEF Turn
    <2>4. turn' = [turn EXCEPT ![T] =
            [turn[T] EXCEPT !.next = "tools", !.batch = new, !.made = @ \cup new]]
      BY <1>2, <2>1 DEF TypeOK
    <2>5. turn' \in [Thread -> Turn \cup {NoTurn}]
      BY <1>2, <2>3, <2>4, TurnStepTyped
    <2> QED
      BY <1>3, <1>4, <1>6, <2>2, <2>5 DEF AskForCalls, TypeOK, world, queue, choice, history
  <1> QED
    BY <1>5, <1>6

LEMMA ToolsTyped ==
  ASSUME TypeOK, WorkerPlaced, Interrupt \/ RunCalls \/ CommitTools
  PROVE  TypeOK'
  <1>1. worker # Idle /\ worker \in Worker /\ turn[T] \in Turn /\ T \in Thread
    <2>1. CASE Running("tools")
      BY <2>1, RunningTyped
    <2>2. CASE worker.pc = "ran"
      BY <2>2, BusyFacts, WorkerTyped, TurnTyped DEF WorkerPlaced
    <2> QED
      BY <2>1, <2>2 DEF Interrupt, RunCalls, CommitTools
  <1>2. CASE Interrupt
    <2>1. [turn[T] EXCEPT !.asked = TRUE] \in Turn
      BY <1>1 DEF Turn
    <2>2. turn' = [turn EXCEPT ![T] = [turn[T] EXCEPT !.asked = TRUE]]
      BY <1>1, <1>2 DEF TypeOK, Interrupt
    <2>3. turn' \in [Thread -> Turn \cup {NoTurn}]
      BY <1>1, <2>1, <2>2, TurnStepTyped
    <2>4. worker' \in Worker
      BY <1>1, <1>2 DEF Interrupt, Worker
    <2> QED
      BY <1>2, <2>3, <2>4 DEF Interrupt, TypeOK, world, queue, choice, history
  <1>3. CASE RunCalls
    <2>1. worker' \in Worker
      BY <1>1, <1>3 DEF RunCalls, Worker
    <2>2. granted' \subseteq CallId
      BY <1>1, <1>3 DEF RunCalls, Allowed, Turn, TypeOK
    <2>3. ran' \in [CallId -> Nat]
      BY <1>3 DEF RunCalls, TypeOK
    <2> QED
      BY <1>3, <2>1, <2>2, <2>3 DEF RunCalls, TypeOK, world, queue, choice
  <1>4. CASE CommitTools
    <2>1. [turn[T] EXCEPT !.next = "model", !.batch = {}, !.asked = FALSE] \in Turn
      BY <1>1 DEF Turn
    <2>2. turn' = [turn EXCEPT ![T] =
            [turn[T] EXCEPT !.next = "model", !.batch = {}, !.asked = FALSE]]
      BY <1>1, <1>4 DEF TypeOK, CommitTools
    <2>3. turn' \in [Thread -> Turn \cup {NoTurn}]
      BY <1>1, <2>1, <2>2, TurnStepTyped
    <2>4. worker' \in Worker
      BY <1>1, <1>4 DEF CommitTools, Worker
    <2>5. button' \in [CallId -> {"none", "open", "approved", "rejected"}]
      BY <1>1, <1>4, SettledTyped DEF CommitTools
    <2> QED
      BY <1>4, <2>3, <2>4, <2>5 DEF CommitTools, TypeOK, world, queue, choice, history
  <1> QED
    BY <1>2, <1>3, <1>4

LEMMA PersistTyped ==
  ASSUME TypeOK, WorkerPlaced, TurnPlaced, StoreExchange \/ EndTurn
  PROVE  TypeOK'
  <1>1. worker # Idle /\ worker \in Worker /\ turn[T] \in Turn /\ T \in Thread
        /\ turn[T].next = "persist"
    <2>1. CASE Running("persist")
      BY <2>1, RunningTyped DEF Running
    <2>2. CASE worker.pc = "kept"
      BY <2>2, BusyFacts, WorkerTyped, TurnTyped DEF WorkerPlaced
    <2> QED
      BY <2>1, <2>2 DEF StoreExchange, EndTurn
  <1>2. CASE StoreExchange
    <2>1. ExchangeOf(T) \in Exchange
      BY <1>1 DEF TurnPlaced, ExchangeOf, Exchange, Turn
    <2>2. store' \in [Thread -> Seq(Exchange)]
      <3>1. Append(store[T], ExchangeOf(T)) \in Seq(Exchange)
        BY <1>1, <2>1, AppendProperties DEF TypeOK
      <3> QED
        BY <1>1, <1>2, <3>1 DEF StoreExchange, TypeOK
    <2>3. worker' \in Worker
      BY <1>1, <1>2 DEF StoreExchange, Worker
    <2> QED
      BY <1>2, <2>2, <2>3 DEF StoreExchange, TypeOK, world, queue, choice, history
  <1>3. CASE EndTurn
    <2>1. [turn[T] EXCEPT !.next = "end"] \in Turn
      BY <1>1 DEF Turn
    <2>2. turn' = [turn EXCEPT ![T] = [turn[T] EXCEPT !.next = "end"]]
      BY <1>1, <1>3 DEF TypeOK, EndTurn
    <2>3. turn' \in [Thread -> Turn \cup {NoTurn}]
      BY <1>1, <2>1, <2>2, TurnStepTyped
    <2>4. worker' \in Worker
      BY <1>1, <1>3 DEF EndTurn, Worker
    <2> QED
      BY <1>3, <2>3, <2>4 DEF EndTurn, TypeOK, world, queue, choice, history
  <1> QED
    BY <1>2, <1>3

LEMMA CloseTyped ==
  ASSUME TypeOK, WorkerPlaced, AskPending \/ Complete
  PROVE  TypeOK'
  <1>1. worker # Idle /\ worker \in Worker
    BY BusyFacts, WorkerTyped DEF AskPending, Complete
  <1>2. CASE AskPending
    <2>1. worker' \in Worker
      BY <1>1, <1>2 DEF AskPending, Worker
    <2>2. button' \in [CallId -> {"none", "open", "approved", "rejected"}]
      BY <1>2 DEF AskPending, TypeOK
    <2> QED
      BY <1>2, <2>1, <2>2 DEF AskPending, TypeOK, world, queue, choice, history
  <1>3. CASE Complete
    <2>1. button' \in [CallId -> {"none", "open", "approved", "rejected"}]
      BY <1>1, <1>3, SettledTyped DEF Complete
    <2> QED
      BY <1>3, <2>1 DEF Complete, TypeOK, world, choice, history
  <1> QED
    BY <1>2, <1>3

LEMMA FaultTyped ==
  ASSUME TypeOK, Die \/ Refuse \/ Fail
  PROVE  TypeOK'
  <1>1. worker # Idle /\ faults' \in Nat /\ worker' = Idle /\ J \in Id
    BY WorkerTyped DEF Die, Refuse, Fail, Fault, TypeOK
  <1>2. CASE Die
    <2>1. cut' \in [CallId -> Nat] /\ late' \in [Id -> Nat]
      BY <1>1, <1>2 DEF Die, TypeOK
    <2> QED
      BY <1>1, <1>2, <2>1 DEF Die, TypeOK, queue, choice
  <1>3. CASE Refuse
    <2>1. late' \in [Id -> Nat]
      BY <1>1, <1>3 DEF Refuse, TypeOK
    <2>2. waiting' \subseteq 1..sent'
      BY <1>3 DEF Refuse, TypeOK
    <2> QED
      BY <1>1, <1>3, <2>1, <2>2 DEF Refuse, TypeOK, choice
  <1>4. CASE Fail
    BY <1>1, <1>4 DEF Fail, TypeOK, choice, history
  <1> QED
    BY <1>2, <1>3, <1>4

LEMMA TypeStep ==
  ASSUME TypeOK, WorkerPlaced, TurnPlaced, [Next]_vars
  PROVE  TypeOK'
  <1>1. CASE UNCHANGED vars
    BY <1>1 DEF TypeOK, vars, world, queue, choice, history
  <1>2. CASE Write
    BY <1>2, SendTyped DEF Write, Message
  <1>3. CASE PressButton
    BY <1>3, SendTyped DEF PressButton, Press
  <1>4. CASE NewConversation
    BY <1>4, ConversationAssumption
    DEF NewConversation, StartThread, TypeOK, world, queue, history
  <1>5. CASE ChooseConversation
    BY <1>5 DEF ChooseConversation, TypeOK, world, queue, history
  <1>6. ASSUME NEW u \in Id, GiveUp(u) PROVE TypeOK'
    <2>1. attempts' \in [Id -> Nat]
      BY <1>6 DEF GiveUp, TypeOK
    <2>2. waiting' \subseteq 1..sent'
      BY <1>6 DEF GiveUp, TypeOK, world
    <2> QED
      BY <1>6, <2>1, <2>2 DEF GiveUp, TypeOK, world, choice, history
  <1>7. CASE Person
    BY <1>2, <1>3, <1>4, <1>5, <1>7 DEF Person
  <1>8. CASE Begin
    BY <1>6, <1>8, BeginMessageTyped, BeginPressTyped DEF Begin
  <1>9. CASE Node
    BY <1>9, ModelTyped, ToolsTyped, PersistTyped DEF Node
  <1> QED
    BY <1>1, <1>7, <1>8, <1>9, CloseTyped, FaultTyped DEF Next

----------------------------------------------------------------------------
(* What changes what.                                                      *)

LEMMA StoreFrame ==
  ASSUME [Next]_vars
  PROVE  UNCHANGED store \/ StoreExchange
  BY DEF Next, vars, Person, Begin, Node, Write, PressButton, Send, NewConversation,
         ChooseConversation, GiveUp, BeginMessage, BeginPress, Answer, AskForCalls, Interrupt,
         RunCalls, CommitTools, EndTurn, AskPending, Complete, Die, Refuse, Fail

LEMMA RunFrame ==
  ASSUME [Next]_vars
  PROVE  UNCHANGED ran \/ RunCalls
  BY DEF Next, vars, history, Person, Begin, Node, Write, PressButton, Send, NewConversation,
         ChooseConversation, GiveUp, BeginMessage, BeginPress, Answer, AskForCalls, Interrupt,
         StoreExchange, CommitTools, EndTurn, AskPending, Complete, Die, Refuse, Fail

LEMMA SendFrame ==
  ASSUME [Next]_vars
  PROVE  (UNCHANGED <<sent, update>> /\ waiting' \subseteq waiting) \/ Write \/ PressButton
  BY DEF Next, vars, world, queue, history, Person, Begin, Node, NewConversation,
         ChooseConversation, GiveUp, BeginMessage, BeginPress, Answer, AskForCalls, Interrupt,
         RunCalls, StoreExchange, CommitTools, EndTurn, AskPending, Complete, Die, Refuse, Fail

LEMMA Sends ==
  ASSUME TypeOK, Write \/ PressButton
  PROVE  /\ sent \in Nat /\ sent' = sent + 1 /\ sent + 1 \in Id
         /\ waiting' = waiting \cup {sent + 1} /\ waiting \subseteq 1..sent
         /\ \A u \in 1..sent : update'[u] = update[u]
         /\ UNCHANGED <<attempts, choice, turn, store, calls, button, worker, faults, history>>
  <1>1. PICK x : Send(x)
    BY DEF Write, PressButton
  <1>2. sent < MaxUpdates /\ sent \in Nat /\ sent + 1 \in Id
    BY <1>1, ConversationAssumption DEF Send, TypeOK, Id
  <1> QED
    BY <1>1, <1>2 DEF Send, TypeOK, Id

(* The exchange that is kept comes last in its thread, if it comes at all. *)
LEMMA Grows ==
  ASSUME TypeOK, TurnPlaced, StoreExchange
  PROVE  /\ worker # Idle /\ T \in Thread /\ turn[T] \in Turn /\ turn[T].next = "persist"
         /\ turn' = turn /\ T' = T /\ store[T] \in Seq(Exchange)
         /\ ExchangeOf(T) \in Exchange /\ ExchangeOf(T).from = turn[T].from
         /\ \A t \in Thread : t # T => store'[t] = store[t]
         /\ \/ store' = store /\ TailIs(T, ExchangeOf(T))
            \/ /\ ~TailIs(T, ExchangeOf(T))
               /\ Len(store[T]) \in Nat /\ Len(store'[T]) = Len(store[T]) + 1
               /\ store'[T][Len(store[T]) + 1] = ExchangeOf(T)
               /\ \A i \in 1..Len(store[T]) : store'[T][i] = store[T][i]
         /\ TailIs(T, ExchangeOf(T))'
  <1>1. /\ worker # Idle /\ worker \in Worker /\ T \in Thread /\ turn[T] \in Turn
        /\ turn[T].next = "persist"
    BY RunningTyped DEF StoreExchange, Running
  <1>2. turn' = turn /\ T' = T /\ store[T] \in Seq(Exchange)
    <2>1. worker' = [worker EXCEPT !.pc = "kept", !.answer = 0] /\ turn' = turn
      BY DEF StoreExchange
    <2> QED
      BY <1>1, <2>1 DEF T, Worker, TypeOK
  <1>3. ExchangeOf(T) \in Exchange /\ ExchangeOf(T).from = turn[T].from
    BY <1>1 DEF TurnPlaced, ExchangeOf, Exchange, Turn
  <1>4. CASE TailIs(T, ExchangeOf(T))
    <2>1. store' = store
      BY <1>4 DEF StoreExchange
    <2>2. TailIs(T, ExchangeOf(T))'
      BY <1>2, <1>4, <2>1 DEF TailIs, ExchangeOf
    <2> QED
      BY <1>1, <1>2, <1>3, <1>4, <2>1, <2>2
  <1>5. CASE ~TailIs(T, ExchangeOf(T))
    <2>1. store' = [store EXCEPT ![T] = Append(@, ExchangeOf(T))]
      BY <1>5 DEF StoreExchange
    <2>2. store'[T] = Append(store[T], ExchangeOf(T))
          /\ \A t \in Thread : t # T => store'[t] = store[t]
      BY <1>1, <2>1 DEF TypeOK
    <2>3. /\ Len(store[T]) \in Nat /\ Len(store'[T]) = Len(store[T]) + 1
          /\ store'[T][Len(store[T]) + 1] = ExchangeOf(T)
          /\ \A i \in 1..Len(store[T]) : store'[T][i] = store[T][i]
          /\ store'[T] \in Seq(Exchange)
      BY <1>2, <1>3, <2>2, AppendProperties, LenProperties
    <2>4. store'[T] # <<>>
      BY <2>3, EmptySeq
    <2>5. TailIs(T, ExchangeOf(T))'
      BY <1>2, <2>3, <2>4 DEF TailIs, ExchangeOf
    <2> QED
      BY <1>1, <1>2, <1>3, <1>5, <2>2, <2>3, <2>5
  <1> QED
    BY <1>4, <1>5

LEMMA TurnFrame ==
  ASSUME [Next]_vars
  PROVE  \/ UNCHANGED turn
         \/ \E u \in Id : BeginMessage(u)
         \/ Answer \/ AskForCalls \/ Interrupt \/ CommitTools \/ EndTurn
  BY DEF Next, vars, Person, Begin, Node, Write, PressButton, Send, NewConversation,
         ChooseConversation, GiveUp, BeginPress, RunCalls, StoreExchange, AskPending,
         Complete, Die, Refuse, Fail

(* The worker's own thread while it runs a node: its turn goes on. *)
LEMMA GoesOn ==
  ASSUME TypeOK, WorkerPlaced, TurnPlaced,
         Answer \/ AskForCalls \/ Interrupt \/ CommitTools \/ EndTurn
  PROVE  /\ worker # Idle /\ T \in Thread /\ turn[T] \in Turn /\ turn'[T] \in Turn
         /\ turn[T].next \in {"model", "tools", "persist"}
         /\ turn'[T].from = turn[T].from /\ turn'[T].text = turn[T].text
         /\ turn'[T].asked => turn'[T].next = "tools"
         /\ turn'[T].next = "persist" => turn'[T].reply \in Reply
         /\ turn[T].next = "persist" => turn'[T].next = "end"
         /\ turn'[T].next = "end" => turn[T].next = "persist" /\ EndTurn
         /\ \A t \in Thread : t # T => turn'[t] = turn[t]
         /\ T' = T /\ J' = J
  <1>1. /\ worker # Idle /\ worker \in Worker /\ T \in Thread /\ turn[T] \in Turn
    <2>1. CASE Running("model") \/ Running("tools")
      BY <2>1, RunningTyped
    <2>2. CASE worker.pc = "ran" \/ worker.pc = "kept"
      BY <2>2, BusyFacts, WorkerTyped, TurnTyped DEF WorkerPlaced
    <2> QED
      BY <2>1, <2>2 DEF Answer, AskForCalls, Interrupt, CommitTools, EndTurn
  <1>2. T' = T /\ J' = J
    BY <1>1 DEF Answer, AskForCalls, Interrupt, CommitTools, EndTurn, Worker, T, J
  <1>3. turn \in [Thread -> Turn \cup {NoTurn}]
    BY DEF TypeOK
  <1>4. CASE Answer
    <2>1. PICK r \in Reply : turn' = [turn EXCEPT ![T].next = "persist", ![T].reply = r]
      BY <1>4 DEF Answer
    <2>2. turn[T].next = "model" /\ ~turn[T].asked
      BY <1>1, <1>4 DEF Answer, Running, TurnPlaced
    <2>3. turn'[T] = [turn[T] EXCEPT !.next = "persist", !.reply = r]
          /\ \A t \in Thread : t # T => turn'[t] = turn[t]
      BY <1>1, <1>3, <2>1
    <2> QED
      BY <1>1, <1>2, <2>2, <2>3 DEF Turn
  <1>5. CASE AskForCalls
    <2>1. PICK n \in 1..MaxBatch :
            /\ calls + n <= MaxCalls
            /\ LET new == (calls + 1)..(calls + n) IN
               turn' = [turn EXCEPT ![T].next = "tools", ![T].batch = new,
                                    ![T].made = @ \cup new]
      BY <1>5 DEF AskForCalls
    <2> DEFINE new == (calls + 1)..(calls + n)
    <2>2. turn[T].next = "model" /\ ~turn[T].asked
      BY <1>1, <1>5 DEF AskForCalls, Running, TurnPlaced
    <2>3. turn'[T] = [turn[T] EXCEPT !.next = "tools", !.batch = new, !.made = @ \cup new]
          /\ \A t \in Thread : t # T => turn'[t] = turn[t]
      BY <1>1, <1>3, <2>1
    <2>4. new \subseteq CallId
      BY <2>1, ConversationAssumption DEF TypeOK, CallId
    <2> HIDE DEF new
    <2> QED
      BY <1>1, <1>2, <2>2, <2>3, <2>4 DEF Turn
  <1>6. CASE Interrupt
    <2>1. turn'[T] = [turn[T] EXCEPT !.asked = TRUE]
          /\ \A t \in Thread : t # T => turn'[t] = turn[t]
      BY <1>1, <1>3, <1>6 DEF Interrupt
    <2>2. turn[T].next = "tools"
      BY <1>6 DEF Interrupt, Running
    <2> QED
      BY <1>1, <1>2, <2>1, <2>2 DEF Turn
  <1>7. CASE CommitTools
    <2>1. turn'[T] = [turn[T] EXCEPT !.next = "model", !.batch = {}, !.asked = FALSE]
          /\ \A t \in Thread : t # T => turn'[t] = turn[t]
      BY <1>1, <1>3, <1>7 DEF CommitTools
    <2>2. turn[T].next = "tools"
      BY <1>1, <1>7 DEF CommitTools, WorkerPlaced
    <2> QED
      BY <1>1, <1>2, <2>1, <2>2 DEF Turn
  <1>8. CASE EndTurn
    <2>1. turn'[T] = [turn[T] EXCEPT !.next = "end"]
          /\ \A t \in Thread : t # T => turn'[t] = turn[t]
      BY <1>1, <1>3, <1>8 DEF EndTurn
    <2>2. turn[T].next = "persist" /\ ~turn[T].asked
      BY <1>1, <1>8 DEF EndTurn, WorkerPlaced, TurnPlaced
    <2> QED
      BY <1>1, <1>2, <1>8, <2>1, <2>2 DEF Turn
  <1> QED
    BY <1>4, <1>5, <1>6, <1>7, <1>8

(* A message that is begun: its thread's turn goes on, or a new one is put *)
(* in its place.                                                           *)
Afresh(t, u) ==
  /\ turn'[t] = [next |-> "model", from |-> u, text |-> update[u].text, reply |-> "none",
                 made |-> {}, batch |-> {}, asked |-> FALSE]
  /\ ~SameRequest(t, u)
TakenUp(t, u) ==
  /\ SameRequest(t, u) /\ turn[t] \in Turn /\ turn'[t] \in Turn
  /\ turn'[t].from = turn[t].from /\ turn'[t].text = turn[t].text
  /\ \/ turn'[t] = turn[t]
     \/ turn[t].next = "tools" /\ turn'[t].next = "model" /\ turn'[t].batch = {}
        /\ turn'[t].asked = FALSE

LEMMA Begins ==
  ASSUME TypeOK, NEW u \in Id, BeginMessage(u)
  PROVE  /\ worker = Idle /\ u \in waiting /\ (\A v \in waiting : u <= v)
         /\ update[u].kind = "message"
         /\ UNCHANGED <<world, waiting, store, calls, button, history>>
         /\ \E t \in Thread :
              /\ worker' = [pc |-> "run", job |-> u, thread |-> t, answer |-> 0,
                            settle |-> FALSE]
              /\ Afresh(t, u) \/ TakenUp(t, u)
              /\ \A s \in Thread : s # t => turn'[s] = turn[s]
  <1>1. PICK t \in Thread :
          /\ IF SameRequest(t, u) THEN TakeUp(t) ELSE StartAfresh(t, u)
          /\ Work("run", u, t, 0, FALSE)
    BY DEF BeginMessage
  <1>2. turn \in [Thread -> Turn \cup {NoTurn}]
    BY DEF TypeOK
  <1>3. CASE ~SameRequest(t, u)
    BY <1>1, <1>2, <1>3 DEF BeginMessage, Claim, Oldest, Work, StartAfresh, Afresh
  <1>4. CASE SameRequest(t, u)
    <2>1. turn[t] \in Turn /\ ~turn[t].asked
      BY <1>4, TurnTyped DEF SameRequest, Unfinished
    <2>2. TakenUp(t, u) /\ \A s \in Thread : s # t => turn'[s] = turn[s]
      <3>1. CASE turn[t].next = "tools"
        <4>1. turn'[t] = [turn[t] EXCEPT !.next = "model", !.batch = {}]
              /\ \A s \in Thread : s # t => turn'[s] = turn[s]
          BY <1>1, <1>2, <1>4, <3>1 DEF TakeUp
        <4> QED
          BY <1>4, <2>1, <3>1, <4>1 DEF TakenUp, Turn
      <3>2. CASE turn[t].next # "tools"
        BY <1>1, <1>4, <2>1, <3>2 DEF TakeUp, TakenUp
      <3> QED
        BY <3>1, <3>2
    <2> QED
      BY <1>1, <2>2 DEF BeginMessage, Claim, Oldest, Work
  <1> QED
    BY <1>3, <1>4

----------------------------------------------------------------------------
(* The parts of the invariant, one lemma each.                             *)

LEMMA WorkerStep ==
  ASSUME TypeOK, WorkerPlaced, TurnPlaced, [Next]_vars
  PROVE  WorkerPlaced'
  <1>0. waiting \subseteq 1..sent
    BY DEF TypeOK
  <1>1. CASE Write \/ PressButton
    <2>1. worker' = worker /\ turn' = turn /\ store' = store /\ T' = T
      BY <1>1, Sends DEF T
    <2>2. TailIs(T, ExchangeOf(T))' = TailIs(T, ExchangeOf(T))
      BY <2>1 DEF TailIs, ExchangeOf
    <2>3. SUFFICES ASSUME worker # Idle PROVE WorkerPlaced'
      BY <2>1 DEF WorkerPlaced
    <2>7. worker.job \in waiting
      BY <2>3 DEF WorkerPlaced
    <2>8. sent \in Nat
      BY DEF TypeOK
    <2>9. worker.job \in 1..sent
      BY <1>0, <2>7
    <2>4. worker.job \in 1..sent /\ worker.job < sent + 1
      BY <2>8, <2>9
    <2>5. update'[worker.job] = update[worker.job]
      BY <1>1, <2>4, Sends
    <2>6. \A u \in waiting' : worker.job <= u
      BY <1>1, <2>3, <2>4, Sends DEF WorkerPlaced
    <2> QED
      BY <1>1, <2>1, <2>2, <2>3, <2>5, <2>6, <2>7, Sends DEF WorkerPlaced
  <1>2. CASE UNCHANGED vars \/ NewConversation \/ ChooseConversation
    BY <1>2 DEF vars, world, queue, NewConversation, ChooseConversation, WorkerPlaced, T,
                TailIs, ExchangeOf
  <1>3. CASE Complete \/ Die \/ Refuse \/ Fail \/ \E u \in Id : GiveUp(u)
    BY <1>3 DEF Complete, Die, Refuse, Fail, GiveUp, WorkerPlaced
  <1>4. ASSUME NEW u \in Id, BeginMessage(u) PROVE WorkerPlaced'
    <2>1. PICK t \in Thread :
            worker' = [pc |-> "run", job |-> u, thread |-> t, answer |-> 0, settle |-> FALSE]
      BY <1>4, Begins
    <2> QED
      BY <1>4, <2>1, Begins DEF WorkerPlaced
  <1>5. ASSUME NEW u \in Id, BeginPress(u) PROVE WorkerPlaced'
    <2>1. /\ u \in waiting /\ (\A v \in waiting : u <= v) /\ update[u].kind = "press"
          /\ UNCHANGED <<update, waiting>>
      BY <1>5 DEF BeginPress, Claim, Oldest, world
    <2>2. PICK t \in Thread :
            \/ worker' = [pc |-> "run", job |-> u, thread |-> t, answer |-> u, settle |-> TRUE]
            \/ \E s \in BOOLEAN :
                 worker' = [pc |-> "close", job |-> u, thread |-> t, answer |-> 0, settle |-> s]
      BY <1>5 DEF BeginPress, Work
    <2> QED
      BY <2>1, <2>2 DEF WorkerPlaced
  <1>6. CASE Answer \/ AskForCalls \/ CommitTools
    <2>1. /\ worker # Idle /\ worker \in Worker /\ UNCHANGED <<update, waiting>>
          /\ \/ worker' = [worker EXCEPT !.answer = 0, !.settle = FALSE] /\ worker.pc = "run"
             \/ worker' = [worker EXCEPT !.pc = "run", !.answer = 0, !.settle = FALSE]
      BY <1>6, GoesOn, WorkerTyped DEF Answer, AskForCalls, CommitTools, Running, world, queue
    <2>2. worker'.pc = "run" /\ worker'.job = worker.job /\ worker'.answer = 0 /\ ~worker'.settle
      BY <2>1 DEF Worker
    <2> QED
      BY <2>1, <2>2 DEF WorkerPlaced
  <1>7. CASE Interrupt
    <2>1. /\ worker # Idle /\ worker \in Worker /\ UNCHANGED <<update, waiting>>
          /\ worker' = [worker EXCEPT !.pc = "ask"] /\ worker.pc = "run" /\ worker.answer = 0
          /\ T' = T /\ T \in Thread /\ turn[T].next = "tools" /\ turn[T] \in Turn
          /\ turn' = [turn EXCEPT ![T].asked = TRUE]
      BY <1>7, GoesOn, WorkerTyped DEF Interrupt, Running, world, queue
    <2>2. turn'[T'].next = "tools" /\ turn'[T'].asked
      BY <2>1 DEF TypeOK, Turn
    <2>3. /\ worker'.pc = "ask" /\ worker'.job = worker.job /\ worker'.answer = worker.answer
          /\ worker'.settle = worker.settle
      BY <2>1 DEF Worker
    <2> QED
      BY <2>1, <2>2, <2>3 DEF WorkerPlaced
  <1>8. CASE RunCalls
    <2>1. worker # Idle /\ worker \in Worker /\ turn[T].next = "tools" /\ worker.answer # 0
      BY <1>8, RunningTyped DEF RunCalls, Running
    <2>2. /\ worker'.pc = "ran" /\ worker'.job = worker.job /\ worker'.answer = worker.answer
          /\ worker'.settle = worker.settle /\ T' = T
      BY <1>8, <2>1 DEF RunCalls, Worker, T
    <2> QED
      BY <1>8, <2>1, <2>2 DEF WorkerPlaced, RunCalls, world, queue
  <1>9. CASE StoreExchange
    <2>1. worker # Idle /\ worker \in Worker
      BY <1>9, RunningTyped DEF StoreExchange
    <2>2. /\ worker'.pc = "kept" /\ worker'.job = worker.job /\ worker'.answer = 0
          /\ worker'.settle = worker.settle
      BY <1>9, <2>1 DEF StoreExchange, Worker
    <2>3. turn'[T'].next = "persist" /\ TailIs(T, ExchangeOf(T))'
      BY <1>9, Grows
    <2> QED
      BY <1>9, <2>1, <2>2, <2>3 DEF WorkerPlaced, StoreExchange, world, queue
  <1>10. CASE EndTurn \/ AskPending
    <2>1. worker # Idle /\ worker \in Worker
      BY <1>10, BusyFacts, WorkerTyped DEF EndTurn, AskPending
    <2>2. /\ worker'.pc = "close" /\ worker'.job = worker.job /\ worker'.settle = worker.settle
          /\ worker'.answer = worker.answer
      BY <1>10, <2>1 DEF EndTurn, AskPending, Worker
    <2> QED
      BY <1>10, <2>1, <2>2 DEF WorkerPlaced, EndTurn, AskPending, world, queue
  <1>11. CASE Begin
    BY <1>3, <1>4, <1>5, <1>11 DEF Begin
  <1>12. CASE Node
    BY <1>6, <1>7, <1>8, <1>9, <1>10, <1>12 DEF Node
  <1> QED
    BY <1>1, <1>2, <1>3, <1>10, <1>11, <1>12 DEF Next, Person

(* An update that was sent is what it was. *)
LEMMA UpdateKept ==
  ASSUME TypeOK, [Next]_vars
  PROVE  /\ sent \in Nat /\ sent <= sent' /\ sent' \in Nat
         /\ \A u \in 1..sent : update'[u] = update[u]
         /\ waiting' \subseteq waiting \/ (waiting' = waiting \cup {sent + 1} /\ sent' = sent + 1)
  <1>1. sent \in Nat
    BY DEF TypeOK
  <1> QED
    BY <1>1, SendFrame, Sends

LEMMA TurnPlacedStep ==
  ASSUME TypeOK, WorkerPlaced, TurnPlaced, Older, [Next]_vars
  PROVE  TurnPlaced'
  <1> DEFINE P(t) ==
        /\ turn'[t].asked => turn'[t].next = "tools"
        /\ turn'[t].next # "none" => turn'[t].text = update'[turn'[t].from].text
        /\ turn'[t].next = "persist" => turn'[t].reply \in Reply
  <1>1. ASSUME NEW t \in Thread, turn'[t] = turn[t] PROVE P(t)
    <2>1. turn[t].next # "none" => turn[t].from \in 1..sent
      BY TurnTyped DEF Older, Turn, Id, TypeOK
    <2> QED
      BY <1>1, <2>1, UpdateKept DEF TurnPlaced
  <1>2. CASE UNCHANGED turn
    BY <1>1, <1>2 DEF TurnPlaced
  <1>3. CASE Answer \/ AskForCalls \/ Interrupt \/ CommitTools \/ EndTurn
    <2>1. turn[T].from \in 1..sent
      BY <1>3, GoesOn DEF Older, Turn, Id, TypeOK
    <2>2. P(T)
      <3>1. turn[T].text = update[turn[T].from].text
        BY <1>3, GoesOn DEF TurnPlaced
      <3>2. update'[turn[T].from] = update[turn[T].from]
        BY <2>1, UpdateKept
      <3> QED
        BY <1>3, <3>1, <3>2, GoesOn
    <2>3. \A t \in Thread : t # T => P(t)
      BY <1>1, <1>3, GoesOn
    <2> QED
      BY <2>2, <2>3 DEF TurnPlaced
  <1>4. ASSUME NEW u \in Id, BeginMessage(u) PROVE TurnPlaced'
    <2>1. PICK t \in Thread :
            /\ Afresh(t, u) \/ TakenUp(t, u)
            /\ \A s \in Thread : s # t => turn'[s] = turn[s]
      BY <1>4, Begins
    <2>2. update' = update
      BY <1>4, Begins DEF world
    <2>3. CASE Afresh(t, u)
      <3>1. P(t)
        BY <2>2, <2>3 DEF Afresh
      <3> QED
        BY <1>1, <2>1, <3>1 DEF TurnPlaced
    <2>4. CASE TakenUp(t, u)
      <3>1. P(t)
        <4>1. CASE turn'[t] = turn[t]
          BY <1>1, <4>1
        <4>2. CASE turn'[t].next = "model" /\ turn'[t].asked = FALSE /\ turn[t].next = "tools"
          BY <2>2, <2>4, <4>2 DEF TakenUp, TurnPlaced
        <4> QED
          BY <2>4, <4>1, <4>2 DEF TakenUp
      <3> QED
        BY <1>1, <2>1, <3>1 DEF TurnPlaced
    <2> QED
      BY <2>1, <2>3, <2>4
  <1> QED
    BY <1>2, <1>3, <1>4, TurnFrame

LEMMA OlderStep ==
  ASSUME TypeOK, WorkerPlaced, TurnPlaced, Older, [Next]_vars
  PROVE  Older'
  <1> DEFINE Before(x) == x <= sent /\ \A u \in waiting : x <= u
  <1> DEFINE After(x) == x <= sent' /\ \A u \in waiting' : x <= u
  <1>1. ASSUME NEW x \in Nat, Before(x) PROVE After(x)
    BY <1>1, UpdateKept
  <1>2. ASSUME NEW t \in Thread, NEW i \in 1..Len(store[t])
        PROVE  store[t][i].from \in Nat
    <2>1. store[t] \in Seq(Exchange)
      BY DEF TypeOK
    <2>2. store[t][i] \in Exchange
      BY <2>1, <1>2, ElementOfSeq
    <2> QED
      BY <2>2 DEF Exchange, Id
  <1>3. \A t \in Thread : turn[t].next # "none" => turn[t].from \in Nat
    BY TurnTyped DEF Turn, Id
  <1> DEFINE P(t) ==
        /\ turn'[t].next # "none" => After(turn'[t].from)
        /\ \A i \in 1..Len(store'[t]) :
             /\ After(store'[t][i].from)
             /\ turn'[t].next # "none" /\ store'[t][i].from <= turn'[t].from
  <1>4. SUFFICES ASSUME NEW t \in Thread PROVE P(t)
    BY DEF Older
  <1>5. /\ turn[t].next # "none" => Before(turn[t].from)
        /\ \A i \in 1..Len(store[t]) :
             /\ Before(store[t][i].from)
             /\ turn[t].next # "none" /\ store[t][i].from <= turn[t].from
    BY DEF Older
  <1> HIDE DEF Before, After
  <1>6. CASE store'[t] = store[t] /\ turn'[t] = turn[t]
    BY <1>1, <1>2, <1>3, <1>5, <1>6
  <1>7. CASE store'[t] = store[t] /\ turn'[t].from = turn[t].from
             /\ turn'[t].next # "none" /\ turn[t].next # "none"
    BY <1>1, <1>2, <1>3, <1>5, <1>7
  <1>8. CASE UNCHANGED store /\ UNCHANGED turn
    BY <1>6, <1>8
  <1>9. CASE StoreExchange
    <2>1. CASE t # T
      BY <1>6, <1>9, <2>1, Grows
    <2>2. CASE t = T /\ store' = store
      BY <1>6, <1>9, <2>2, Grows
    <2>3. CASE t = T /\ store' # store
      <3>1. /\ Len(store[t]) \in Nat /\ Len(store'[t]) = Len(store[t]) + 1
            /\ store'[t][Len(store[t]) + 1].from = turn[t].from
            /\ \A i \in 1..Len(store[t]) : store'[t][i] = store[t][i]
            /\ turn'[t] = turn[t] /\ turn[t].next = "persist"
        BY <1>9, <2>3, Grows
      <3>2. turn[t].from \in Nat /\ Before(turn[t].from)
        BY <1>3, <1>5, <3>1
      <3>3. ASSUME NEW i \in 1..Len(store'[t])
            PROVE  store'[t][i].from \in Nat /\ Before(store'[t][i].from)
                   /\ store'[t][i].from <= turn[t].from
        <4>1. CASE i = Len(store[t]) + 1
          BY <3>1, <3>2, <4>1
        <4>2. CASE i \in 1..Len(store[t])
          BY <1>2, <1>5, <3>1, <4>2
        <4> QED
          BY <3>1, <3>3, <4>1, <4>2
      <3> QED
        BY <1>1, <3>1, <3>2, <3>3
    <2> QED
      BY <2>1, <2>2, <2>3
  <1>10. CASE Answer \/ AskForCalls \/ Interrupt \/ CommitTools \/ EndTurn
    <2>1. store' = store
      BY <1>10 DEF Answer, AskForCalls, Interrupt, CommitTools, EndTurn
    <2>2. CASE t # T
      BY <1>6, <1>10, <2>1, <2>2, GoesOn
    <2>3. CASE t = T
      BY <1>7, <1>10, <2>1, <2>3, GoesOn DEF Turn
    <2> QED
      BY <2>2, <2>3
  <1>11. ASSUME NEW u \in Id, BeginMessage(u) PROVE P(t)
    <2>1. store' = store /\ u \in waiting /\ (\A v \in waiting : u <= v) /\ u <= sent /\ u \in Nat
      BY <1>11, Begins DEF TypeOK, Id
    <2>2. PICK s \in Thread :
            /\ Afresh(s, u) \/ TakenUp(s, u)
            /\ \A r \in Thread : r # s => turn'[r] = turn[r]
      BY <1>11, Begins
    <2>3. CASE t # s
      BY <1>6, <2>1, <2>2, <2>3
    <2>4. CASE t = s /\ TakenUp(s, u)
      BY <1>7, <2>1, <2>4 DEF TakenUp, SameRequest, Unfinished, Turn
    <2>5. CASE t = s /\ Afresh(s, u)
      <3>1. Before(u)
        BY <2>1 DEF Before
      <3>2. turn'[t].next = "model" /\ turn'[t].from = u
        BY <2>5 DEF Afresh
      <3>3. \A i \in 1..Len(store[t]) : store[t][i].from <= u
        BY <1>5, <2>1 DEF Before
      <3> QED
        BY <1>1, <1>2, <1>5, <2>1, <3>1, <3>2, <3>3
    <2> QED
      BY <2>2, <2>3, <2>4, <2>5
  <1>12. CASE UNCHANGED turn
    BY <1>8, <1>9, <1>12, StoreFrame
  <1> QED
    BY <1>10, <1>11, <1>12, TurnFrame

LEMMA OrderStep ==
  ASSUME TypeOK, TurnPlaced, Older, StoredInOrder, [Next]_vars
  PROVE  StoredInOrder'
  <1>1. CASE UNCHANGED store
    BY <1>1 DEF StoredInOrder
  <1>2. CASE StoreExchange
    <2>1. SUFFICES ASSUME NEW t \in Thread, NEW i \in 1..Len(store'[t]),
                          NEW j \in 1..Len(store'[t]), i < j
                   PROVE  store'[t][i].from <= store'[t][j].from
      BY DEF StoredInOrder
    <2>2. CASE store'[t] = store[t]
      BY <2>1, <2>2 DEF StoredInOrder
    <2>3. CASE store'[t] # store[t]
      <3>1. /\ Len(store[t]) \in Nat /\ Len(store'[t]) = Len(store[t]) + 1
            /\ store'[t][Len(store[t]) + 1].from = turn[t].from
            /\ \A k \in 1..Len(store[t]) : store'[t][k] = store[t][k]
        BY <1>2, <2>3, Grows
      <3>2. i \in 1..Len(store[t])
        BY <2>1, <3>1
      <3>3. CASE j \in 1..Len(store[t])
        BY <2>1, <3>1, <3>2, <3>3 DEF StoredInOrder
      <3>4. CASE j = Len(store[t]) + 1
        BY <3>1, <3>2, <3>4 DEF Older
      <3> QED
        BY <3>1, <3>3, <3>4
    <2> QED
      BY <2>2, <2>3
  <1> QED
    BY <1>1, <1>2, StoreFrame

(* What an answer can allow. *)
LEMMA AllowedFacts ==
  ASSUME TypeOK, WorkerPlaced, worker # Idle, worker.answer # 0, NEW c \in Allowed
  PROVE  /\ c \in CallId /\ c \in turn[T].batch /\ T \in Thread
         /\ \E u \in 1..sent : update[u] = [kind |-> "press", call |-> c, yes |-> TRUE]
  <1>1. T \in Thread /\ turn[T].batch \subseteq CallId
    BY WorkerTyped, BatchTyped
  <1>2. /\ c \in turn[T].batch
        /\ update[worker.answer].call = c /\ update[worker.answer].yes
    BY DEF Allowed
  <1>3. worker.answer \in 1..sent /\ update[worker.answer].kind = "press" /\ worker.answer \in Id
    BY WorkerTyped DEF WorkerPlaced, TypeOK
  <1>4. update[worker.answer] \in Press
    BY <1>3, PressTyped
  <1>5. update[worker.answer] = [kind |-> "press", call |-> c, yes |-> TRUE]
    BY <1>2, <1>4 DEF Press
  <1> QED
    BY <1>1, <1>2, <1>3, <1>5

LEMMA PressedStep ==
  ASSUME TypeOK, WorkerPlaced, RanOnlyIfPressed, [Next]_vars
  PROVE  RanOnlyIfPressed'
  <1>1. ASSUME NEW c \in CallId,
               \E u \in 1..sent : update[u] = [kind |-> "press", call |-> c, yes |-> TRUE]
        PROVE  \E u \in 1..sent' : update'[u] = [kind |-> "press", call |-> c, yes |-> TRUE]
    BY <1>1, UpdateKept
  <1>2. CASE UNCHANGED ran
    BY <1>1, <1>2 DEF RanOnlyIfPressed
  <1>3. CASE RunCalls
    <2>1. worker # Idle /\ worker.answer # 0
      BY <1>3, RunningTyped DEF RunCalls
    <2>2. \A c \in CallId : ran'[c] > 0 => ran[c] > 0 \/ c \in Allowed
      BY <1>3 DEF RunCalls
    <2> QED
      BY <1>1, <2>1, <2>2, AllowedFacts DEF RanOnlyIfPressed
  <1> QED
    BY <1>2, <1>3, RunFrame

----------------------------------------------------------------------------
(* Calls that run.                                                         *)

LEMMA CallCounters ==
  ASSUME TypeOK
  PROVE  /\ calls \in Nat /\ \A c \in CallId : c \in Nat /\ ran[c] \in Nat /\ cut[c] \in Nat
  <1>1. calls \in Nat
    BY DEF TypeOK
  <1>2. \A c \in CallId : c \in Nat
    BY DEF CallId
  <1>3. \A c \in CallId : ran[c] \in Nat /\ cut[c] \in Nat
    BY DEF TypeOK
  <1> QED
    BY <1>1, <1>2, <1>3

(* Which batches a step leaves: the old ones, smaller ones, or a new one.  *)
LEMMA BatchStep ==
  ASSUME TypeOK, WorkerPlaced, TurnPlaced, [Next]_vars
  PROVE  \/ /\ \A t \in Thread : turn'[t].batch \in {{}, turn[t].batch}
            /\ calls' = calls
         \/ /\ AskForCalls /\ T \in Thread /\ calls' \in Nat /\ calls <= calls'
            /\ turn'[T].batch = (calls + 1)..calls'
            /\ \A t \in Thread : t # T => turn'[t].batch = turn[t].batch
  <1>1. CASE AskForCalls
    <2>1. PICK n \in 1..MaxBatch :
            /\ calls' = calls + n
            /\ LET new == (calls + 1)..(calls + n) IN
               turn' = [turn EXCEPT ![T].next = "tools", ![T].batch = new,
                                    ![T].made = @ \cup new]
      BY <1>1 DEF AskForCalls
    <2> DEFINE new == (calls + 1)..(calls + n)
    <2>2. T \in Thread /\ turn[T] \in Turn
      BY <1>1, GoesOn
    <2>3. turn'[T] = [turn[T] EXCEPT !.next = "tools", !.batch = new, !.made = @ \cup new]
          /\ \A t \in Thread : t # T => turn'[t] = turn[t]
      BY <2>1, <2>2 DEF TypeOK
    <2>4. turn'[T].batch = new
      BY <2>2, <2>3 DEF Turn
    <2>5. n \in Nat /\ calls \in Nat
      BY CallCounters
    <2>6. calls' \in Nat /\ calls <= calls'
      BY <2>1, <2>5
    <2>7. turn'[T].batch = (calls + 1)..calls'
      BY <2>1, <2>4
    <2> QED
      BY <1>1, <2>2, <2>3, <2>6, <2>7
  <1>2. CASE Answer \/ Interrupt \/ CommitTools \/ EndTurn
    <2>1. T \in Thread /\ turn[T] \in Turn /\ calls' = calls
      BY <1>2, GoesOn DEF Answer, Interrupt, CommitTools, EndTurn
    <2>2. turn'[T].batch \in {{}, turn[T].batch}
      <3>1. turn \in [Thread -> Turn \cup {NoTurn}]
        BY DEF TypeOK
      <3>2. CASE Answer
        BY <2>1, <3>1, <3>2 DEF Answer, Turn
      <3>3. CASE Interrupt
        BY <2>1, <3>1, <3>3 DEF Interrupt, Turn
      <3>4. CASE CommitTools
        BY <2>1, <3>1, <3>4 DEF CommitTools, Turn
      <3>5. CASE EndTurn
        BY <2>1, <3>1, <3>5 DEF EndTurn, Turn
      <3> QED
        BY <1>2, <3>2, <3>3, <3>4, <3>5
    <2> QED
      BY <1>2, <2>1, <2>2, GoesOn
  <1>3. ASSUME NEW u \in Id, BeginMessage(u)
        PROVE  calls' = calls /\ \A t \in Thread : turn'[t].batch \in {{}, turn[t].batch}
    <2>1. PICK t \in Thread :
            /\ Afresh(t, u) \/ TakenUp(t, u)
            /\ \A s \in Thread : s # t => turn'[s] = turn[s]
      BY <1>3, Begins
    <2>2. turn'[t].batch \in {{}, turn[t].batch}
      BY <2>1 DEF Afresh, TakenUp
    <2> QED
      BY <1>3, <2>1, <2>2, Begins
  <1>4. calls' = calls \/ AskForCalls
    BY DEF Next, vars, Person, Begin, Node, Write, PressButton, Send, NewConversation,
           ChooseConversation, GiveUp, BeginMessage, BeginPress, Answer, Interrupt,
           RunCalls, StoreExchange, CommitTools, EndTurn, AskPending, Complete, Die, Refuse, Fail
  <1> QED
    BY <1>1, <1>2, <1>3, <1>4, TurnFrame

LEMMA ApartStep ==
  ASSUME TypeOK, WorkerPlaced, TurnPlaced, BatchesApart, [Next]_vars
  PROVE  BatchesApart'
  <1>1. CASE /\ \A t \in Thread : turn'[t].batch \in {{}, turn[t].batch}
             /\ calls' = calls
    BY <1>1 DEF BatchesApart
  <1>2. CASE /\ AskForCalls /\ T \in Thread /\ calls' \in Nat /\ calls <= calls'
             /\ turn'[T].batch = (calls + 1)..calls'
             /\ \A t \in Thread : t # T => turn'[t].batch = turn[t].batch
    <2>1. \A t \in Thread : turn'[t].batch \subseteq 1..calls'
      BY <1>2, CallCounters DEF BatchesApart
    <2>2. \A t \in Thread : t # T => turn'[t].batch \cap turn'[T].batch = {}
      BY <1>2, CallCounters DEF BatchesApart
    <2> QED
      BY <1>2, <2>1, <2>2 DEF BatchesApart
  <1> QED
    BY <1>1, <1>2, BatchStep

(* While the calls that ran have no result, the answer and the batch stay. *)
LEMMA JustRunStays ==
  ASSUME TypeOK, WorkerPlaced, [Next]_vars, worker.pc = "ran"
  PROVE  \/ /\ worker' = worker /\ turn' = turn /\ Allowed' = Allowed
            /\ UNCHANGED <<ran, cut, calls>>
         \/ Die \/ CommitTools
  <1>1. worker # Idle
    BY BusyFacts
  <1>2. \/ Write \/ PressButton \/ NewConversation \/ ChooseConversation \/ UNCHANGED vars
        \/ Die \/ CommitTools
    BY <1>1 DEF Next, Person, Begin, Node, GiveUp, BeginMessage, BeginPress, Claim, Answer,
                AskForCalls, Interrupt, RunCalls, StoreExchange, EndTurn, Running,
                AskPending, Complete, Refuse, Fail
  <1>3. CASE Write \/ PressButton
    <2>1. worker' = worker /\ turn' = turn /\ UNCHANGED <<ran, cut, calls>>
      BY <1>3, Sends DEF history
    <2>2. worker.answer \in 1..sent
      BY <1>1 DEF WorkerPlaced, TypeOK
    <2>3. update'[worker.answer] = update[worker.answer]
      BY <2>2, UpdateKept
    <2>4. Allowed' = Allowed
      BY <2>1, <2>3 DEF Allowed, T
    <2> QED
      BY <2>1, <2>4
  <1>4. CASE NewConversation \/ ChooseConversation \/ UNCHANGED vars
    BY <1>4 DEF NewConversation, ChooseConversation, vars, world, history, Allowed, T
  <1> QED
    BY <1>2, <1>3, <1>4

LEMMA RunsStep ==
  ASSUME TypeOK, WorkerPlaced, TurnPlaced, BatchesApart, NotYetRun, RunsCounted, [Next]_vars,
         TypeOK'
  PROVE  NotYetRun' /\ RunsCounted'
  <1>0. \A c \in CallId : ran'[c] \in Nat /\ cut'[c] \in Nat
    BY DEF TypeOK
  <1>1. \A c \in CallId : c > calls' \/ Pending(c)' => c > calls \/ Pending(c)
    <2>1. CASE /\ \A t \in Thread : turn'[t].batch \in {{}, turn[t].batch}
               /\ calls' = calls
      BY <2>1 DEF Pending
    <2>2. CASE /\ AskForCalls /\ T \in Thread /\ calls' \in Nat /\ calls <= calls'
               /\ turn'[T].batch = (calls + 1)..calls'
               /\ \A t \in Thread : t # T => turn'[t].batch = turn[t].batch
      <3>1. SUFFICES ASSUME NEW c \in CallId, c > calls' \/ Pending(c)'
                     PROVE  c > calls \/ Pending(c)
        OBVIOUS
      <3>2. CASE c > calls'
        BY <2>2, <3>2, CallCounters
      <3>3. CASE Pending(c)'
        <4>1. PICK t \in Thread : c \in turn'[t].batch
          BY <3>3 DEF Pending
        <4>2. CASE t = T
          BY <2>2, <4>1, <4>2, CallCounters
        <4>3. CASE t # T
          BY <2>2, <4>1, <4>3 DEF Pending
        <4> QED
          BY <4>2, <4>3
      <3> QED
        BY <3>1, <3>2, <3>3
    <2> QED
      BY <2>1, <2>2, BatchStep
  <1>2. CASE worker.pc = "ran"
    <2>1. CASE worker' = worker /\ turn' = turn /\ Allowed' = Allowed /\ UNCHANGED <<ran, cut, calls>>
      BY <2>1 DEF NotYetRun, RunsCounted, JustRun, Pending
    <2>2. CASE Die
      <3>1. \A c \in CallId : cut'[c] = IF c \in Allowed THEN cut[c] + 1 ELSE cut[c]
        BY <1>2, <2>2 DEF Die
      <3>2. ran' = ran /\ turn' = turn /\ calls' = calls
        BY <2>2 DEF Die
      <3>3. \A c \in CallId : c > calls \/ Pending(c) => ran[c] <= cut'[c]
        BY <1>2, <3>1, CallCounters DEF NotYetRun, RunsCounted, JustRun
      <3>4. RunsCounted'
        BY <3>1, <3>2, CallCounters DEF RunsCounted
      <3> QED
        BY <1>1, <3>2, <3>3, <3>4 DEF NotYetRun
    <2>3. CASE CommitTools
      <3>1. UNCHANGED <<ran, cut, calls>> /\ turn' = [turn EXCEPT ![T].next = "model",
              ![T].batch = {}, ![T].asked = FALSE]
        BY <2>3 DEF CommitTools, history
      <3>2. T \in Thread /\ turn[T] \in Turn
        BY <2>3, GoesOn
      <3>3. turn'[T].batch = {} /\ \A t \in Thread : t # T => turn'[t] = turn[t]
        BY <3>1, <3>2 DEF TypeOK, Turn
      <3>4. \A c \in CallId : c \in Allowed => ~(c > calls) /\ ~Pending(c)'
        <4>1. SUFFICES ASSUME NEW c \in Allowed PROVE ~(c > calls) /\ ~Pending(c)'
          OBVIOUS
        <4>2. c \in turn[T].batch
          BY DEF Allowed
        <4>3. \A t \in Thread : t # T => c \notin turn[t].batch
          BY <3>2, <4>2 DEF BatchesApart
        <4>4. c \in 1..calls
          BY <3>2, <4>2 DEF BatchesApart
        <4> QED
          BY <3>3, <4>3, <4>4, CallCounters DEF Pending
      <3>5. NotYetRun'
        BY <1>1, <1>2, <3>1, <3>4 DEF NotYetRun, JustRun
      <3>6. RunsCounted'
        BY <3>1 DEF RunsCounted
      <3> QED
        BY <3>5, <3>6
    <2> QED
      BY <1>2, <2>1, <2>2, <2>3, JustRunStays
  <1>3. CASE worker.pc # "ran" /\ RunCalls
    <2>1. worker # Idle /\ worker \in Worker /\ worker.answer # 0
      BY <1>3, RunningTyped DEF RunCalls
    <2>2. worker'.pc = "ran" /\ Allowed' = Allowed /\ UNCHANGED <<turn, cut, calls>>
      BY <1>3, <2>1 DEF RunCalls, Worker, Allowed, T, world
    <2>3. \A c \in CallId : ran'[c] = IF c \in Allowed THEN ran[c] + 1 ELSE ran[c]
      BY <1>3 DEF RunCalls
    <2>4. \A c \in CallId : c \in Allowed => ran[c] <= cut[c]
      BY <1>3, <2>1, AllowedFacts DEF NotYetRun, JustRun, Pending
    <2>5. NotYetRun'
      BY <1>1, <1>3, <2>2, <2>3 DEF NotYetRun, JustRun
    <2>6. RunsCounted'
      BY <2>2, <2>3, <2>4, CallCounters DEF RunsCounted
    <2> QED
      BY <2>5, <2>6
  <1>4. CASE worker.pc # "ran" /\ ran' = ran
    <2>1. \A c \in CallId : cut'[c] = cut[c]
      <3>1. CASE Die
        BY <1>4, <3>1 DEF Die, TypeOK
      <3>2. CASE ~Die
        BY <1>4, <3>2
        DEF Next, vars, history, Person, Begin, Node, Write, PressButton, Send, NewConversation,
            ChooseConversation, GiveUp, BeginMessage, BeginPress, Answer, AskForCalls, Interrupt,
            RunCalls, StoreExchange, CommitTools, EndTurn, AskPending, Complete, Refuse, Fail
      <3> QED
        BY <3>1, <3>2
    <2>2. \A c \in CallId : c > calls \/ Pending(c) => ran[c] <= cut[c]
      BY <1>4 DEF NotYetRun, JustRun
    <2> QED
      BY <1>1, <1>4, <2>1, <2>2 DEF NotYetRun, RunsCounted
  <1> QED
    BY <1>2, <1>3, <1>4, RunFrame

----------------------------------------------------------------------------
(* Exchanges stored again.                                                 *)

LEMMA CopiesFinite ==
  ASSUME TypeOK, NEW t \in Thread, NEW u \in Id
  PROVE  IsFiniteSet(Copies(t, u)) /\ Cardinality(Copies(t, u)) \in Nat /\ late[u] \in Nat
  <1>1. Len(store[t]) \in Nat
    BY LenProperties DEF TypeOK
  <1>2. IsFiniteSet(1..Len(store[t]))
    BY <1>1, FS_Interval
  <1>3. Copies(t, u) \subseteq 1..Len(store[t])
    BY DEF Copies
  <1>4. IsFiniteSet(Copies(t, u))
    BY <1>2, <1>3, FS_Subset
  <1>5. late[u] \in Nat
    BY DEF TypeOK
  <1> QED
    BY <1>4, <1>5, FS_CardinalityType

LEMMA CopyAdded ==
  ASSUME TypeOK, TurnPlaced, StoreExchange, store' # store, NEW u \in Id,
         NEW t \in Thread, t = T
  PROVE  /\ u # turn[t].from => Copies(t, u)' = Copies(t, u)
         /\ u = turn[t].from => Cardinality(Copies(t, u)') = Cardinality(Copies(t, u)) + 1
  <1>1. /\ Len(store[t]) \in Nat /\ Len(store'[t]) = Len(store[t]) + 1
        /\ store'[t][Len(store[t]) + 1].from = turn[t].from
        /\ \A i \in 1..Len(store[t]) : store'[t][i] = store[t][i]
    BY Grows
  <1>2. Copies(t, u)' = {i \in 1..Len(store'[t]) : store'[t][i].from = u}
    BY <1>1 DEF Copies
  <1>3. Len(store[t]) + 1 \notin Copies(t, u)
    BY <1>1 DEF Copies
  <1>4. CASE u # turn[t].from
    <2>1. Copies(t, u)' = Copies(t, u)
      BY <1>1, <1>2, <1>4 DEF Copies
    <2> QED
      BY <1>4, <2>1
  <1>5. CASE u = turn[t].from
    <2>1. Copies(t, u)' = Copies(t, u) \cup {Len(store[t]) + 1}
      BY <1>1, <1>2, <1>5 DEF Copies
    <2>2. Cardinality(Copies(t, u) \cup {Len(store[t]) + 1}) = Cardinality(Copies(t, u)) + 1
      BY <1>1, <1>3, CopiesFinite, FS_AddElement
    <2> QED
      BY <1>5, <2>1, <2>2
  <1> QED
    BY <1>4, <1>5

LEMMA LateFrame ==
  ASSUME TypeOK, [Next]_vars
  PROVE  \A u \in Id : late[u] <= late'[u]
  <1>1. CASE late' = late
    BY <1>1 DEF TypeOK
  <1>2. CASE Die \/ Refuse
    <2>1. late' = IF worker.pc = "close" THEN [late EXCEPT ![J] = @ + 1] ELSE late
      BY <1>2 DEF Die, Refuse
    <2>2. late \in [Id -> Nat]
      BY DEF TypeOK
    <2> QED
      BY <2>1, <2>2
  <1>3. late' = late \/ Die \/ Refuse
    BY DEF Next, vars, history, Person, Begin, Node, Write, PressButton, Send, NewConversation,
           ChooseConversation, GiveUp, BeginMessage, BeginPress, Answer, AskForCalls,
           Interrupt, RunCalls, StoreExchange, CommitTools, EndTurn, AskPending, Complete, Fail
  <1> QED
    BY <1>1, <1>2, <1>3

(* The thread whose turn is over and whose update is not done: the update  *)
(* is done next, or put back, which is counted.                            *)
LEMMA ClosingLeft ==
  ASSUME TypeOK, [Next]_vars, NEW t \in Thread, NEW u \in Id, Closing(t, u), turn' = turn
  PROVE  \/ Closing(t, u)'
         \/ ~MayCome(t, u)'
         \/ late'[u] = late[u] + 1
  <1>1. worker.pc = "close" /\ worker.job = u /\ worker # Idle
    BY BusyFacts DEF Closing
  <1>2. worker' = worker \/ Complete \/ Die \/ Refuse
    BY <1>1 DEF Next, vars, Person, Begin, Node, Write, PressButton, Send, NewConversation,
                ChooseConversation, GiveUp, BeginMessage, BeginPress, Claim, Answer, AskForCalls,
                Interrupt, RunCalls, StoreExchange, CommitTools, EndTurn, Running, AskPending, Fail
  <1>3. CASE worker' = worker
    BY <1>3 DEF Closing, T
  <1>4. CASE Complete
    <2>1. waiting' = waiting \ {u}
      BY <1>1, <1>4 DEF Complete, J
    <2> QED
      BY <2>1 DEF Closing, MayCome
  <1>5. CASE Die \/ Refuse
    BY <1>1, <1>5 DEF Die, Refuse, J, TypeOK
  <1> QED
    BY <1>2, <1>3, <1>4, <1>5

LEMMA CopiesStep ==
  ASSUME TypeOK, WorkerPlaced, TurnPlaced, Older, CopiesOwed, CopiesCounted, [Next]_vars, TypeOK'
  PROVE  CopiesOwed' /\ CopiesCounted'
  <1> DEFINE Owed(t, u) ==
        MayCome(t, u)' /\ ~Kept(t, u)' /\ ~Closing(t, u)' =>
          Cardinality(Copies(t, u)') <= late'[u]
      Counted(t, u) == Cardinality(Copies(t, u)') <= 1 + late'[u]
  <1>1. SUFFICES ASSUME NEW t \in Thread, NEW u \in Id
                 PROVE  Owed(t, u) /\ Counted(t, u)
    BY DEF CopiesOwed, CopiesCounted
  <1>2. /\ Cardinality(Copies(t, u)) \in Nat /\ late[u] \in Nat
        /\ late'[u] \in Nat /\ late[u] <= late'[u]
        /\ Cardinality(Copies(t, u)) <= 1 + late[u]
        /\ MayCome(t, u) /\ ~Kept(t, u) /\ ~Closing(t, u) =>
             Cardinality(Copies(t, u)) <= late[u]
    BY CopiesFinite, LateFrame DEF CopiesOwed, CopiesCounted, TypeOK
  <1>3. CASE StoreExchange
    <2>1. worker.pc = "run" /\ late' = late /\ waiting' = waiting /\ turn' = turn
      BY <1>3 DEF StoreExchange, Running, history, queue
    <2>2. ~Closing(t, u) /\ MayCome(t, u)' = MayCome(t, u)
      BY <2>1 DEF Closing, MayCome
    <2>3. CASE store'[t] = store[t]
      <3>1. Copies(t, u)' = Copies(t, u)
        BY <2>3 DEF Copies
      <3>2. Kept(t, u)' = Kept(t, u)
        BY <2>1, <2>3 DEF Kept, TailIs, ExchangeOf
      <3> QED
        BY <1>2, <2>1, <2>2, <3>1, <3>2
    <2>4. CASE store'[t] # store[t]
      <3>1. /\ t = T /\ ~TailIs(t, ExchangeOf(t)) /\ store' # store
            /\ turn[t].next = "persist" /\ TailIs(t, ExchangeOf(t))'
        BY <1>3, <2>4, Grows
      <3>2. CASE u # turn[t].from
        <4>1. Copies(t, u)' = Copies(t, u)
          BY <1>3, <3>1, <3>2, CopyAdded DEF Copies
        <4>2. ~Kept(t, u)
          BY <3>2 DEF Kept
        <4> QED
          BY <1>2, <2>1, <2>2, <4>1, <4>2
      <3>3. CASE u = turn[t].from
        <4>1. Cardinality(Copies(t, u)') = Cardinality(Copies(t, u)) + 1
          BY <1>3, <3>1, <3>3, Grows, CopyAdded DEF Copies
        <4>2. Kept(t, u)'
          BY <2>1, <3>1, <3>3 DEF Kept
        <4>3. MayCome(t, u) /\ ~Kept(t, u)
          BY <3>1, <3>3 DEF MayCome, Kept
        <4> QED
          BY <1>2, <2>1, <2>2, <4>1, <4>2, <4>3
      <3> QED
        BY <3>2, <3>3
    <2> QED
      BY <2>3, <2>4
  <1>4. CASE UNCHANGED store
    <2>1. Copies(t, u)' = Copies(t, u) /\ Counted(t, u)
      BY <1>2, <1>4 DEF Copies
    <2>2. turn'[t] = turn[t] => Kept(t, u)' = Kept(t, u)
      BY <1>4 DEF Kept, TailIs, ExchangeOf
    <2>3. CASE UNCHANGED turn
      <3>1. MayCome(t, u)' => MayCome(t, u) \/ (u = sent + 1 /\ Copies(t, u) = {})
        <4>1. CASE waiting' \subseteq waiting
          BY <2>3, <4>1 DEF MayCome
        <4>2. CASE waiting' = waiting \cup {sent + 1}
          <5>1. \A i \in 1..Len(store[t]) : store[t][i].from <= sent
            BY DEF Older
          <5>2. u = sent + 1 => Copies(t, u) = {}
            BY <5>1, UpdateKept DEF Copies
          <5> QED
            BY <2>3, <4>2, <5>2 DEF MayCome
        <4> QED
          BY <4>1, <4>2, UpdateKept
      <3>2. Copies(t, u) = {} => Cardinality(Copies(t, u)) = 0
        BY FS_EmptySet
      <3>3. CASE Closing(t, u)
        BY <1>2, <2>1, <2>3, <3>3, ClosingLeft
      <3>4. CASE ~Closing(t, u)
        BY <1>2, <2>1, <2>2, <2>3, <3>1, <3>2, <3>4
      <3> QED
        BY <3>3, <3>4
    <2>4. CASE Answer \/ AskForCalls \/ Interrupt \/ CommitTools \/ EndTurn
      <3>1. late' = late /\ waiting' = waiting
        BY <2>4 DEF Answer, AskForCalls, Interrupt, CommitTools, EndTurn, history, queue
      <3>2. worker.pc # "close" /\ ~Closing(t, u)
        BY <2>4 DEF Answer, AskForCalls, Interrupt, CommitTools, EndTurn, Running, Closing
      <3>3. CASE t # T
        <4>1. turn'[t] = turn[t]
          BY <2>4, <3>3, GoesOn
        <4>2. MayCome(t, u)' = MayCome(t, u)
          BY <3>1, <4>1 DEF MayCome
        <4> QED
          BY <1>2, <2>1, <2>2, <3>1, <3>2, <4>1, <4>2
      <3>4. CASE t = T /\ Kept(t, u)
        <4>1. turn'[t].next = "end" /\ EndTurn /\ turn'[t].from = u /\ worker # Idle
              /\ T' = T /\ J' = J /\ worker \in Worker
          BY <2>4, <3>4, GoesOn, WorkerTyped DEF Kept
        <4>2. SUFFICES ASSUME u \in waiting PROVE Closing(t, u)'
          BY <2>1, <3>1, <4>1 DEF MayCome
        <4>3. turn[t].from = u /\ turn[t].next # "none"
          BY <3>4 DEF Kept
        <4>4. worker.job \in waiting /\ worker.job <= u
          BY <4>1, <4>2 DEF WorkerPlaced
        <4>5. u <= worker.job
          BY <4>3, <4>4 DEF Older
        <4>6. u = worker.job
          BY <4>4, <4>5, <4>1 DEF Worker, Id
        <4>7. worker'.pc = "close"
          BY <4>1 DEF EndTurn, Worker
        <4> QED
          BY <3>4, <4>1, <4>6, <4>7 DEF Closing, J
      <3>5. CASE t = T /\ ~Kept(t, u)
        <4>1. turn'[t].from = turn[t].from /\ turn[t].next \notin {"none", "end"}
          BY <2>4, <3>5, GoesOn
        <4>2. MayCome(t, u)' => MayCome(t, u)
          BY <3>1, <4>1 DEF MayCome
        <4> QED
          BY <1>2, <2>1, <3>1, <3>2, <3>5, <4>2
      <3> QED
        BY <3>3, <3>4, <3>5
    <2>5. ASSUME NEW w \in Id, BeginMessage(w) PROVE Owed(t, u)
      <3>1. /\ worker = Idle /\ w \in waiting /\ (\A v \in waiting : w <= v)
            /\ late' = late /\ waiting' = waiting
        BY <2>5, Begins DEF history
      <3>2. ~Closing(t, u)
        BY <3>1 DEF Closing, Idle
      <3>3. PICK s \in Thread :
              /\ Afresh(s, w) \/ TakenUp(s, w)
              /\ \A r \in Thread : r # s => turn'[r] = turn[r]
        BY <2>5, Begins
      <3>4. CASE turn'[t] = turn[t]
        <4>1. MayCome(t, u)' = MayCome(t, u)
          BY <3>1, <3>4 DEF MayCome
        <4> QED
          BY <1>2, <2>1, <2>2, <3>1, <3>2, <3>4, <4>1
      <3>5. CASE t = s /\ TakenUp(t, w) /\ turn'[t] # turn[t]
        <4>1. ~Kept(t, u)
          BY <3>5 DEF TakenUp, Kept
        <4>2. MayCome(t, u)' => MayCome(t, u)
          BY <3>1, <3>5 DEF MayCome, TakenUp
        <4> QED
          BY <1>2, <2>1, <3>1, <3>2, <4>1, <4>2
      <3>6. CASE t = s /\ Afresh(t, w)
        <4>1. MayCome(t, u)' => u \in waiting
          BY <3>1, <3>6 DEF MayCome, Afresh
        <4>2. ASSUME u \in waiting, Kept(t, u) PROVE FALSE
          <5>1. turn[t].next = "persist" /\ turn[t].from = u
            BY <4>2 DEF Kept
          <5>2. u <= w /\ w <= u
            BY <3>1, <4>2, <5>1 DEF Older
          <5>3. u = w
            BY <5>2 DEF Id
          <5>4. turn[t].text = update[w].text /\ turn[t].asked # TRUE
            BY <5>1, <5>3 DEF TurnPlaced
          <5>5. turn[t].asked \in BOOLEAN
            BY BatchTyped
          <5> QED
            BY <3>6, <5>1, <5>4, <5>5 DEF Afresh, SameRequest, Unfinished
        <4> QED
          BY <1>2, <2>1, <3>1, <3>2, <4>1, <4>2 DEF MayCome
      <3> QED
        BY <3>3, <3>4, <3>5, <3>6
    <2> QED
      BY <2>1, <2>3, <2>4, <2>5, TurnFrame
  <1> QED
    BY <1>3, <1>4, StoreFrame

----------------------------------------------------------------------------
(* The theorems.                                                           *)

LEMMA InitInv ==
  ASSUME Init
  PROVE  IInv
  <1>1. TypeOK
    <2>1. turn \in [Thread -> Turn \cup {NoTurn}]
      BY DEF Init
    <2>2. store \in [Thread -> Seq(Exchange)]
      BY EmptySeq DEF Init
    <2>3. update \in [Id -> Message \cup Press \cup {Nothing}]
      BY DEF Init
    <2> QED
      BY <2>1, <2>2, <2>3, ConversationAssumption DEF Init, TypeOK
  <1>2. WorkerPlaced
    BY DEF Init, WorkerPlaced
  <1>3. \A t \in Thread :
          /\ turn[t].next = "none" /\ turn[t].asked = FALSE /\ turn[t].batch = {}
          /\ Len(store[t]) = 0
    BY EmptySeq DEF Init, NoTurn
  <1>4. TurnPlaced /\ Older /\ StoredInOrder /\ BatchesApart
    BY <1>3 DEF TurnPlaced, Older, StoredInOrder, BatchesApart
  <1>5. NotYetRun /\ RunsCounted /\ RanOnlyIfPressed
    BY DEF Init, NotYetRun, RunsCounted, RanOnlyIfPressed
  <1>6. \A t \in Thread, u \in Id : Cardinality(Copies(t, u)) = 0 /\ late[u] = 0
    <2>1. SUFFICES ASSUME NEW t \in Thread, NEW u \in Id
                   PROVE  Cardinality(Copies(t, u)) = 0 /\ late[u] = 0
      OBVIOUS
    <2>2. Copies(t, u) = {}
      BY <1>3 DEF Copies
    <2> QED
      BY <2>2, FS_EmptySet DEF Init
  <1>7. CopiesOwed /\ CopiesCounted
    BY <1>6 DEF CopiesOwed, CopiesCounted
  <1> QED
    BY <1>1, <1>2, <1>4, <1>5, <1>7 DEF IInv

(* The conversation keeps its invariant, whatever the person presses and   *)
(* whatever dies.                                                          *)
THEOREM Invariance == Spec => []IInv
  <1>1. Init => IInv
    BY InitInv
  <1>2. IInv /\ [Next]_vars => IInv'
    BY TypeStep, WorkerStep, TurnPlacedStep, OlderStep, OrderStep, PressedStep, ApartStep,
       RunsStep, CopiesStep
    DEF IInv
  <1> QED
    BY <1>1, <1>2, PTL DEF Spec

(* Types of the queue, the checkpoints, the store and the screen. *)
THEOREM TypeCorrect == Spec => []TypeOK
  <1>1. IInv => TypeOK
    BY DEF IInv
  <1> QED
    BY <1>1, Invariance, PTL

(* No press, however stale, doubled or misdirected, runs a call but its own. *)
THEOREM Pressed == Spec => []RanOnlyIfPressed
  <1>1. IInv => RanOnlyIfPressed
    BY DEF IInv
  <1> QED
    BY <1>1, Invariance, PTL

(* A call runs again only for a death between its run and its result. *)
THEOREM RunsPaidFor == Spec => []RunsCounted
  <1>1. IInv => RunsCounted
    BY DEF IInv
  <1> QED
    BY <1>1, Invariance, PTL

(* A thread's exchanges stay in the order they were asked for, though the  *)
(* person changes threads beside a running turn.                           *)
THEOREM KeptInOrder == Spec => []StoredInOrder
  <1>1. IInv => StoredInOrder
    BY DEF IInv
  <1> QED
    BY <1>1, Invariance, PTL

(* An exchange is stored again only for an update put back after its turn. *)
THEOREM CopiesPaidFor == Spec => []CopiesCounted
  <1>1. IInv => CopiesCounted
    BY DEF IInv
  <1> QED
    BY <1>1, Invariance, PTL

(* Calls and exchanges alike are repeated for faults only. *)
THEOREM RepeatsPaidFor == Spec => []RepeatsArePaidFor
  <1>1. IInv => RepeatsArePaidFor
    BY DEF IInv, RepeatsArePaidFor
  <1> QED
    BY <1>1, Invariance, PTL

(* A question that is gone takes its calls with it. *)
THEOREM Withdrawn == Spec => WithdrawnNeverRuns
  <1> DEFINE Stands == \A c \in 1..calls : ~Pending(c) => ran'[c] = ran[c]
  <1>1. IInv /\ [Next]_vars => [Stands]_vars
    <2>1. SUFFICES ASSUME IInv, [Next]_vars PROVE Stands
      OBVIOUS
    <2>2. CASE UNCHANGED ran
      BY <2>2
    <2>3. CASE RunCalls
      <3>1. \A c \in CallId : ran'[c] = IF c \in Allowed THEN ran[c] + 1 ELSE ran[c]
        BY <2>3 DEF RunCalls
      <3>2. worker # Idle /\ worker.answer # 0
        BY <2>1, <2>3, RunningTyped DEF RunCalls, IInv
      <3>3. \A c \in Allowed : Pending(c)
        BY <2>1, <3>2, AllowedFacts DEF Pending, IInv
      <3>4. 1..calls \subseteq CallId
        BY <2>1, ConversationAssumption DEF IInv, TypeOK, CallId
      <3> QED
        BY <3>1, <3>3, <3>4
    <2> QED
      BY <2>1, <2>2, <2>3, RunFrame
  <1> QED
    BY <1>1, Invariance, PTL DEF Spec, WithdrawnNeverRuns
=============================================================================
