------------------------------ MODULE TurnLoop ------------------------------
(***************************************************************************)
(* One turn of the agent's loop (app/agent/graph.py) and the ways a worker *)
(* may drive it (app/agent/runtime.py): the model node, the tools node     *)
(* with its stop, repetition and budget checks and its one question for    *)
(* the person, the steering of an answer into one more step, persisting,   *)
(* and a worker that dies anywhere and is followed by another.             *)
(*                                                                         *)
(* A node's patch and the edge it takes are checkpointed together, so each *)
(* node that has no effect before its end is one action.  Two have one:    *)
(* tools runs calls before it commits their results, and persist appends   *)
(* to the store before the checkpoint is written.  Both are split there.   *)
(*                                                                         *)
(* A tool call is its operation (the tool with its arguments); what a tool *)
(* returns, the context and the text of answers are left out.  A result is *)
(* "ok", or "failed", which stands for every result carrying a failure: an *)
(* error, a refusal, a declined, halted or interrupted call.               *)
(***************************************************************************)
EXTENDS Naturals, Sequences, FiniteSets

CONSTANTS
  Op,               \* tool calls the model can make, up to identity
  NeedsApproval,    \* those the person is asked about
  ReplaySafe,       \* those of tools declared replay_safe
  Delivers,         \* those of tools declared delivers
  Mutates,          \* those of tools declared mutates
  MaxSteps,         \* TurnBudget.max_steps
  MaxToolCalls,     \* TurnBudget.max_tool_calls
  SteeringLimit,    \* how often the stopping extension objects in one turn
  MaxBatch,         \* bound: calls in one completion
  MaxMissed,        \* bound: reads of a stop that fail
  MaxCrashes        \* bound: workers that die

ASSUME LoopAssumption ==
  /\ NeedsApproval \subseteq Op /\ Delivers \subseteq Op /\ Mutates \subseteq Op
  /\ ReplaySafe \subseteq Op \ NeedsApproval
  /\ MaxSteps \in Nat \ {0} /\ MaxToolCalls \in Nat
  /\ SteeringLimit \in Nat /\ MaxBatch \in Nat \ {0}
  /\ MaxMissed \in Nat /\ MaxCrashes \in Nat

VARIABLES
  (* the checkpoint *)
  next,        \* the node that runs next, "end" when the turn is over
  transcript,  \* the batches of calls so far, each call with its result
  steps, toolCalls, overtime,   \* spend; overtime: spent_seconds >= max_seconds
  stopping,    \* why the turn is ending, "" while it is not
  steered,     \* a candidate answer was not accepted and is carried
  steerings,   \* how often that happened
  asked,       \* calls of the last batch the person is being asked about
  (* the worker that drives the graph *)
  phase,       \* "off", "at" the next node, in "tools", "stored"
  answered,    \* the worker came with an answer to the question
  yes,         \* the calls that answer approves
  results,     \* results of the batch so far, not yet committed
  (* the rest of the world *)
  stored,      \* how often the turn was appended to the store
  stopped,     \* the person asked to stop
  missed,      \* reads that failed when there was a stop to read
  crashes,     \* workers that died
  (* history *)
  ran,         \* calls (batch, place) that were run
  ranAgain,    \* those run more than once
  approved,    \* calls the person said yes to
  late         \* model steps begun since the person asked to stop

checkpoint == <<next, transcript, steps, toolCalls, overtime, stopping, steered,
                steerings, asked>>
process == <<phase, answered, yes, results>>
history == <<ran, ranAgain, approved, late>>
vars == <<checkpoint, process, stored, stopped, missed, crashes, history>>

MAX_IDENTICAL_FAILURES == 2
MAX_IDENTICAL_SUCCESSES == 2
ENDING == {"budget", "repeated"}

Call == [op : Op, result : {"open", "ok", "failed"}]

Last == Len(transcript)
Batch == transcript[Last]
Calls == DOMAIN Batch

TypeOK ==
  /\ next \in {"model", "tools", "persist", "end"}
  /\ transcript \in Seq(Seq(Call))
  /\ steps \in Nat /\ toolCalls \in Nat /\ overtime \in BOOLEAN
  /\ stopping \in ENDING \cup {"", "stopped"}
  /\ steered \in BOOLEAN /\ steerings \in Nat
  /\ asked \subseteq Nat
  /\ phase \in {"off", "at", "tools", "stored"}
  /\ answered \in BOOLEAN /\ yes \subseteq Nat
  /\ results \in Seq({"open", "ok", "failed"})
  /\ stored \in Nat /\ stopped \in BOOLEAN /\ missed \in Nat /\ crashes \in Nat
  /\ ran \subseteq Nat \X Nat /\ ranAgain \subseteq ran /\ approved \subseteq Nat \X Nat
  /\ late \in Nat
  /\ next = "tools" => transcript # <<>>
  /\ asked # {} => next = "tools" /\ asked \subseteq Calls
  /\ phase = "tools" => next = "tools" /\ Len(results) = Len(Batch)
  /\ phase = "stored" => next = "persist"

(* events: a new message resets the counters; load leads to the model. *)
Init ==
  /\ next = "model" /\ transcript = <<>>
  /\ steps = 0 /\ toolCalls = 0 /\ overtime = FALSE
  /\ stopping = "" /\ steered = FALSE /\ steerings = 0 /\ asked = {}
  /\ phase = "at" /\ answered = FALSE /\ yes = {} /\ results = <<>>
  /\ stored = 0 /\ stopped = FALSE /\ missed = 0 /\ crashes = 0
  /\ ran = {} /\ ranAgain = {} /\ approved = {} /\ late = 0

At(node) == phase = "at" /\ next = node

----------------------------------------------------------------------------
(* The model node.                                                         *)

(* A model call is priced before anyone decides what it means: the step is *)
(* counted and its seconds may be the ones that cross the limit.           *)
Price ==
  /\ steps' = steps + 1
  /\ overtime' \in {overtime, TRUE}
  /\ late' = IF stopped THEN late + 1 ELSE late

(* exceeded(priced, 0). *)
Spent == steps' >= MaxSteps \/ toolCalls > MaxToolCalls \/ overtime'

(* The completion asks for tools.  One that was offered none is answered   *)
(* for instead: REPEAT_ANSWER, BUDGET_ANSWER or the text beside the calls. *)
AskForTools ==
  /\ At("model")
  /\ Price
  /\ \/ /\ stopping \notin ENDING
        /\ \E n \in 1..MaxBatch : \E ops \in [1..n -> Op] :
             transcript' = Append(transcript,
                             [i \in 1..n |-> [op |-> ops[i], result |-> "open"]])
        /\ next' = "tools"
     \/ /\ stopping \in ENDING
        /\ next' = "persist"
        /\ UNCHANGED transcript
  /\ steered' = FALSE
  /\ UNCHANGED <<toolCalls, stopping, steerings, asked, process, stored, stopped,
                 missed, crashes, ran, ranAgain, approved>>

(* The completion is an answer, or nothing (the carried candidate is then  *)
(* the answer), or the request fits no window and is refused: the turn is  *)
(* over.                                                                   *)
Reply ==
  /\ At("model")
  /\ Price
  /\ next' = "persist"
  /\ steered' = FALSE
  /\ UNCHANGED <<transcript, toolCalls, stopping, steerings, asked, process, stored,
                 stopped, missed, crashes, ran, ranAgain, approved>>

(* The extension objects to an answer the turn could still afford to       *)
(* improve: the candidate is carried into another model step.              *)
Steer ==
  /\ At("model")
  /\ Price
  /\ stopping \notin ENDING /\ ~Spent
  /\ steerings < SteeringLimit
  /\ steered' = TRUE /\ steerings' = steerings + 1
  /\ UNCHANGED <<next, transcript, toolCalls, stopping, asked, process, stored,
                 stopped, missed, crashes, ran, ranAgain, approved>>

----------------------------------------------------------------------------
(* What the tools node judges before anything runs.                        *)

Earlier == 1..(Last - 1)

(* Positions of earlier calls, and their order in the history. *)
Past == {p \in Earlier \X (1..MaxBatch) : p[2] \in DOMAIN transcript[p[1]]}
CallAt(p) == transcript[p[1]][p[2]]
Precedes(p, q) == p[1] < q[1] \/ (p[1] = q[1] /\ p[2] < q[2])
Succeeded == {p \in Past : CallAt(p).result = "ok"}

(* A success anywhere in a batch also forgets that batch's failures: the   *)
(* calls are counted where the assistant asked for them, before results.   *)
FailedBefore(op) ==
  Cardinality({p \in Past :
    /\ CallAt(p).op = op /\ CallAt(p).result = "failed"
    /\ \A q \in Succeeded : q[1] < p[1]})

SucceededBefore(op) ==
  Cardinality({p \in Succeeded :
    /\ CallAt(p).op = op
    /\ \A q \in Succeeded :
         CallAt(q).op # op /\ CallAt(q).op \in Mutates => Precedes(q, p)})

Looping == \E i \in Calls : FailedBefore(Batch[i].op) >= MAX_IDENTICAL_FAILURES
DoneAgain == {i \in Calls : SucceededBefore(Batch[i].op) >= MAX_IDENTICAL_SUCCESSES}

(* exceeded(state, len(calls)): judged against the whole batch. *)
OverBudget ==
  \/ steps >= MaxSteps
  \/ toolCalls + Len(Batch) > MaxToolCalls
  \/ overtime

(* The calls of the batch that are left to run: over budget, deliveries.   *)
ToRun ==
  {i \in Calls \ DoneAgain : OverBudget => Batch[i].op \in Delivers}
Risky == {i \in ToRun : Batch[i].op \in NeedsApproval}

(* Mutated: the calls a batch repeats get no result. *)
HaltedUnlessDone ==
  [i \in Calls |-> IF i \in DoneAgain THEN Batch[i]
                   ELSE [Batch[i] EXCEPT !.result = "failed"]]

(* The batch with every call that is not run answered by a refusal. *)
Halted == [i \in Calls |-> [Batch[i] EXCEPT !.result = "failed"]]

AnswerBatch(b) == transcript' = [transcript EXCEPT ![Last] = b]

----------------------------------------------------------------------------
(* The tools node.                                                         *)

UnchangedInTools == UNCHANGED <<steps, steered, steerings, stored, stopped, crashes, late>>

(* asked_to_stop, which never raises: there is no stop, or it could not be *)
(* read.  A read opens a connection of its own, and any of them may fail.  *)
NoStopRead ==
  \/ ~stopped /\ UNCHANGED missed
  \/ stopped /\ missed < MaxMissed /\ missed' = missed + 1

(* The person has asked to stop: nothing of the batch runs. *)
StopTurn ==
  /\ At("tools") /\ stopped
  /\ AnswerBatch(Halted)
  /\ stopping' = "stopped" /\ next' = "persist" /\ asked' = {}
  /\ answered' = FALSE /\ yes' = {}
  /\ UNCHANGED <<toolCalls, overtime, phase, results, missed, ran, ranAgain, approved>>
  /\ UnchangedInTools

(* A call that has failed twice the same way, or a budget that leaves      *)
(* nothing to run: the turn is asked for its answer, without tools.        *)
EndTurn ==
  /\ At("tools") /\ NoStopRead
  /\ \/ Looping /\ stopping' = "repeated"
     \/ ~Looping /\ OverBudget /\ ToRun = {} /\ stopping' = "budget"
  /\ AnswerBatch(Halted)
  /\ next' = "model" /\ asked' = {}
  /\ answered' = FALSE /\ yes' = {}
  /\ UNCHANGED <<toolCalls, overtime, phase, results, ran, ranAgain, approved>>
  /\ UnchangedInTools

(* Mutated: the node does not ask for a stop. *)
ProceedsUnasked ==
  At("tools") /\ ~Looping /\ ~(OverBudget /\ ToRun = {}) /\ UNCHANGED missed

(* Every check is passed, and the stop was read once more. *)
Proceeds == At("tools") /\ ~Looping /\ ~(OverBudget /\ ToRun = {}) /\ NoStopRead

(* interrupt: one question for the whole batch, before any of it runs.  It *)
(* is kept in the checkpoint and the worker goes home.                     *)
AskPerson ==
  /\ Proceeds /\ Risky # {} /\ ~answered
  /\ asked' = Risky
  /\ phase' = "off"
  /\ UNCHANGED <<next, transcript, toolCalls, overtime, stopping, answered, yes,
                 results, ran, ranAgain, approved>>
  /\ UnchangedInTools

(* Mutated: a call left out of the answer counts as approved. *)
BeginToolsUnasked ==
  /\ Proceeds /\ (Risky = {} \/ answered)
  /\ phase' = "tools"
  /\ results' = [i \in Calls |-> IF i \in ToRun THEN "open" ELSE "failed"]
  /\ UNCHANGED <<next, transcript, toolCalls, overtime, stopping, asked, answered, yes,
                 ran, ranAgain, approved>>
  /\ UnchangedInTools

(* Nothing to ask, or an answer: a call the answer does not approve, like  *)
(* one that is halted or done already, gets its refusal.                   *)
BeginTools ==
  /\ Proceeds /\ (Risky = {} \/ answered)
  /\ phase' = "tools"
  /\ results' = [i \in Calls |-> IF i \in ToRun /\ (i \in Risky => i \in yes)
                                 THEN "open" ELSE "failed"]
  /\ UNCHANGED <<next, transcript, toolCalls, overtime, stopping, asked, answered, yes,
                 ran, ranAgain, approved>>
  /\ UnchangedInTools

Run(positions) ==
  /\ ran' = ran \cup positions
  /\ ranAgain' = ranAgain \cup (positions \cap ran)

(* The calls run one after another, in the order they were asked for. *)
RunCall ==
  /\ phase = "tools"
  /\ \E i \in Calls :
       /\ results[i] = "open" /\ \A j \in 1..(i - 1) : results[j] # "open"
       /\ \E r \in {"ok", "failed"} : results' = [results EXCEPT ![i] = r]
       /\ Run({<<Last, i>>})
  /\ UNCHANGED <<next, transcript, toolCalls, overtime, stopping, asked, phase,
                 answered, yes, missed, approved>>
  /\ UnchangedInTools

(* Calls that were run count, also those whose tool failed. *)
Ran == {i \in ToRun : i \in Risky => i \in yes}

CommitTools ==
  /\ phase = "tools" /\ \A i \in Calls : results[i] # "open"
  /\ AnswerBatch([i \in Calls |-> [Batch[i] EXCEPT !.result = results[i]]])
  /\ toolCalls' = toolCalls + Cardinality(Ran)
  /\ overtime' \in {overtime, TRUE}
  /\ stopping' = IF OverBudget THEN "budget" ELSE stopping
  /\ next' = "model" /\ asked' = {}
  /\ phase' = "at" /\ answered' = FALSE /\ yes' = {} /\ results' = <<>>
  /\ UNCHANGED <<missed, ran, ranAgain, approved>>
  /\ UnchangedInTools

----------------------------------------------------------------------------
(* The persist node.                                                       *)

(* Mutated: without already_stored. *)
StoreAlways ==
  /\ At("persist")
  /\ stored' = stored + 1
  /\ phase' = "stored"
  /\ UNCHANGED <<checkpoint, answered, yes, results, stopped, missed, crashes, history>>

(* The turn's messages are appended unless they are the thread's tail. *)
Store ==
  /\ At("persist")
  /\ stored' = IF stored = 0 THEN 1 ELSE stored
  /\ phase' = "stored"
  /\ UNCHANGED <<checkpoint, answered, yes, results, stopped, missed, crashes, history>>

Finish ==
  /\ phase = "stored"
  /\ next' = "end" /\ phase' = "off"
  /\ UNCHANGED <<transcript, steps, toolCalls, overtime, stopping, steered, steerings,
                 asked, answered, yes, results, stored, stopped, missed, crashes, history>>

----------------------------------------------------------------------------
(* The person, the worker's death and the next worker.                     *)

Stop ==
  /\ ~stopped /\ next # "end"
  /\ stopped' = TRUE
  /\ UNCHANGED <<checkpoint, process, stored, missed, crashes, history>>

(* resume_events: the button press carries the calls it approves. *)
Answer ==
  /\ phase = "off" /\ asked # {}
  /\ phase' = "at" /\ answered' = TRUE
  /\ \E said \in SUBSET asked :
       /\ yes' = said
       /\ approved' = approved \cup {<<Last, i>> : i \in said}
  /\ UNCHANGED <<checkpoint, results, stored, stopped, missed, crashes, ran, ranAgain, late>>

(* The worker dies, or a node raises (a backend that cannot answer): what  *)
(* the node had in hand is gone, what it did is not.                       *)
Crash ==
  /\ phase # "off" /\ crashes < MaxCrashes
  /\ crashes' = crashes + 1
  /\ phase' = "off" /\ answered' = FALSE /\ yes' = {} /\ results' = <<>>
  /\ UNCHANGED <<checkpoint, stored, stopped, missed, history>>

(* Mutated: a turn whose answer was written counts as finished. *)
UnfinishedBeforePersist == phase = "off" /\ next \notin {"persist", "end"} /\ asked = {}

(* unfinished: a next node and nobody being asked. *)
Unfinished == phase = "off" /\ next # "end" /\ asked = {}

(* Mutated: every call of the interrupted batch is run again. *)
ResumeRunningAll ==
  /\ Unfinished
  /\ phase' = "at"
  /\ IF next = "tools"
     THEN /\ \E b \in [Calls -> Call] :
               /\ \A i \in Calls : b[i].op = Batch[i].op /\ b[i].result # "open"
               /\ AnswerBatch(b)
          /\ Run({Last} \X Calls)
          /\ toolCalls' = toolCalls + Cardinality(Calls)
          /\ next' = "model"
     ELSE UNCHANGED <<transcript, ran, ranAgain, toolCalls, next>>
  /\ UNCHANGED <<steps, overtime, stopping, steered, steerings, asked, answered, yes,
                 results, stored, stopped, missed, crashes, approved, late>>

(* resume_interrupted_events: of a batch that was running, calls that are  *)
(* replay safe are run now and the others are answered "interrupted"; any  *)
(* other node simply goes on.                                              *)
Replayed == {i \in Calls : Batch[i].op \in ReplaySafe}
Resume ==
  /\ Unfinished
  /\ phase' = "at"
  /\ IF next = "tools"
     THEN /\ \E b \in [Calls -> Call] :
               /\ \A i \in Calls :
                    /\ b[i].op = Batch[i].op /\ b[i].result # "open"
                    /\ i \notin Replayed => b[i].result = "failed"
               /\ AnswerBatch(b)
          /\ Run({Last} \X Replayed)
          /\ toolCalls' = toolCalls + Cardinality(Replayed)
          /\ next' = "model"
     ELSE UNCHANGED <<transcript, ran, ranAgain, toolCalls, next>>
  /\ UNCHANGED <<steps, overtime, stopping, steered, steerings, asked, answered, yes,
                 results, stored, stopped, missed, crashes, approved, late>>

(* The next worker dies as well, before the results of what it ran again   *)
(* are in the checkpoint.                                                  *)
DieResuming ==
  /\ Unfinished /\ next = "tools" /\ crashes < MaxCrashes
  /\ crashes' = crashes + 1
  /\ \E positions \in SUBSET Replayed : Run({Last} \X positions)
  /\ UNCHANGED <<checkpoint, process, stored, stopped, missed, approved, late>>

----------------------------------------------------------------------------
ModelNode == AskForTools \/ Reply \/ Steer
ToolsNode ==
  StopTurn \/ EndTurn \/ AskPerson \/ BeginTools \/ RunCall \/ CommitTools
PersistNode == Store \/ Finish

Next ==
  \/ ModelNode \/ ToolsNode \/ PersistNode
  \/ Stop \/ Answer \/ Crash \/ Resume \/ DieResuming

Spec == Init /\ [][Next]_vars

(* A running worker goes on and a dead one is followed by another, as the  *)
(* queue's redelivery and the platform's re-invocation provide.  Nobody    *)
(* has to answer a question or to ask for a stop.                          *)
Fairness == WF_vars(ModelNode \/ ToolsNode \/ PersistNode) /\ WF_vars(Resume)
FairSpec == Spec /\ Fairness

----------------------------------------------------------------------------
(* Properties.                                                             *)

(* Outside the tools node every call the model made has a result: a stored *)
(* assistant message whose calls have none is "a history the next request  *)
(* cannot be built from" (graph.py).                                       *)
EveryCallAnswered ==
  next # "tools" =>
    \A b \in 1..Last : \A i \in DOMAIN transcript[b] : transcript[b][i].result # "open"

(* A turn costs at most one model step more than its ceiling, and one more *)
(* for each time it was taken up by another worker.                        *)
StepsBounded == steps <= MaxSteps + 1 + crashes

(* Once the person asked to stop, at most the step being taken is taken,   *)
(* one more for each steering and each death, neither of which passes      *)
(* through the tools node, the only one that asks, and one more for each   *)
(* time it asked and the answer could not be read: nothing bounds those.   *)
StopIsHeeded == late <= 1 + steerings + crashes + missed

(* What a turn may still cost: its ceiling, and after a stop next to       *)
(* nothing (TurnBudget, stop.py), with what each death and each read that  *)
(* failed adds.                                                            *)
SpendingBounded == StepsBounded /\ StopIsHeeded

(* A call that needs the person's yes runs only after it was given one.    *)
ConsentBeforeRunning ==
  \A p \in ran : CallAt(p).op \in NeedsApproval => p \in approved

(* A call that is not replay safe is run at most once, whoever dies and    *)
(* resumes, but in a batch the person was asked about: their answer stays  *)
(* with the checkpoint, and takes the batch up from its first call.        *)
NothingRunsAgain ==
  \A p \in ranAgain :
    \/ CallAt(p).op \in ReplaySafe
    \/ \E i \in DOMAIN transcript[p[1]] : transcript[p[1]][i].op \in NeedsApproval

(* The store gains the turn's messages once, and has them when it is over. *)
StoredOnce == stored <= 1 /\ (next = "end" => stored = 1)

(* However often it is taken up again, the turn comes to its end or to a   *)
(* question the person has not answered.                                   *)
TurnEnds == []<>(next = "end" \/ (asked # {} /\ phase = "off"))

(* TurnBudget: "a ceiling of N steps costs at most N + 1 model calls".     *)
CeilingOfSteps == steps <= MaxSteps + 1

(* graph.py, interrupted: "the harness never runs a side effect twice on   *)
(* its own".                                                               *)
SideEffectsOnce == \A p \in ranAgain : CallAt(p).op \in ReplaySafe
============================================================================
