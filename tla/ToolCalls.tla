------------------------------ MODULE ToolCalls ------------------------------
(***************************************************************************)
(* From the words of the model to the runs of tools: the fragments of a    *)
(* streamed answer are put together into calls                             *)
(* (app/models/openai_compatible.py, StreamedCompletion), what a damaged   *)
(* call cannot have meant is taken out of it (readable, repaired), and the *)
(* executor resolves, coerces, validates, asks for, runs and settles each  *)
(* (app/tools/execution.py, app/tools/base.py).                            *)
(*                                                                         *)
(* What the model meant is chosen at the start, with what its server does  *)
(* to it: how fragments are marked, and a damage per call.  An argument is *)
(* a word, the name its text ends with as ",name:" (or None), and whether  *)
(* its value has the declared type, can be coerced to it, or cannot.       *)
(***************************************************************************)
EXTENDS Naturals, Sequences, FiniteSets

CONSTANTS
  Tool,        \* names in the toolbox
  Means,       \* Toolbox.resolve for the other names the model writes
  Accepts,     \* the properties of a tool's schema
  Required,    \* those that are required
  Asks,        \* tools that need a yes (requires_approval and the mode)
  Deadline,    \* "none", "task" (async) or "thread" (a synchronous body)
  Answers,     \* what the model may mean: sequences of [name, args]
  Shapes,      \* how servers mark fragments: [index, ids, echo]
  None, Junk   \* no name; a name that cannot be one

VARIABLES
  meant,       \* the calls the model meant
  shape,       \* [index |-> "given" | "omitted" | "same", ids, echo |-> BOOLEAN]
  damage,      \* what the served parser does to each call
  finish,      \* finish_reason: "stop", or "length" within the last call
  sent,        \* fragments sent of each call
  partials,    \* _PartialCall by key: id, name, slices of the argument text
  stage,       \* "stream", "judge", "ask", "run", "done"
  calls,       \* the completion's tool calls
  prepared,    \* PreparedToolCall of each
  allowed,     \* calls the person allowed, or nobody asked about
  results,     \* code of each result so far
  running,     \* a body is running
  landed,      \* history: calls whose body had an effect
  adrift       \* calls whose body runs on in a thread

source == <<meant, shape, damage, finish>>
vars == <<source, sent, partials, stage, calls, prepared, allowed, results, running,
          landed, adrift>>

Refusals == {"unknown_tool", "bad_arguments", "output_cut"}
Codes == Refusals \cup {"declined", "ok", "failed", "timeout"}
Places == 1..Len(meant)

(* What the constants must satisfy: a call has a name and its arguments    *)
(* have theirs, and a fragment says which call it belongs to: by its       *)
(* index, by being next to its opening, or by repeating the id.            *)
CallsAssumption ==
  /\ None \notin Refusals
  /\ \A answer \in Answers :
       /\ Len(answer) \in Nat /\ DOMAIN answer = 1..Len(answer)
       /\ \A i \in DOMAIN answer :
            /\ answer[i].name # None /\ {None, Junk} \cap DOMAIN answer[i].args = {}
            /\ \A a \in DOMAIN answer[i].args :
                 LET value == answer[i].args[a] IN
                 value = [word |-> value.word, tail |-> value.tail, form |-> value.form]
  /\ \A marks \in Shapes :
       \/ marks.index = "given"
       \/ (marks.index = "omitted" /\ marks.ids)
       \/ (marks.index = "same" /\ marks.ids /\ marks.echo)
ASSUME CallsAssumption

(* Types: the parts of the pipeline agree about which call is which.       *)
TypeOK ==
  /\ stage \in {"stream", "judge", "ask", "run", "done"}
  /\ \A k \in DOMAIN partials : Len(partials[k].slices) > 0
  /\ \A i \in Places : sent[i] \in 0..2
  /\ Len(prepared) = (IF stage \in {"stream", "judge"} THEN 0 ELSE Len(calls))
  /\ allowed \subseteq DOMAIN prepared
  /\ Len(results) <= Len(prepared) /\ \A i \in DOMAIN results : results[i] \in Codes
  /\ stage = "done" <=> stage \notin {"stream", "judge", "ask"} /\ Len(results) = Len(calls)
  /\ running => stage = "run" /\ Len(results) < Len(prepared)
  /\ landed \cup adrift \subseteq DOMAIN prepared

(* The damages of a call: none; text that is no JSON object; an argument   *)
(* whose value runs on over the name of the next one, which is lost, with  *)
(* or without a name made of what follows.                                 *)
Damages(call) ==
  {[kind |-> "none"], [kind |-> "unreadable"]} \cup
  {[kind |-> "swallowed", into |-> a, lost |-> b, junk |-> j] :
     a \in DOMAIN call.args, b \in DOMAIN call.args, j \in BOOLEAN}
Sane(d) == d.kind = "swallowed" => d.into # d.lost

Init ==
  /\ meant \in Answers /\ shape \in Shapes /\ finish \in {"stop", "length"}
  /\ damage \in {d \in [Places -> UNION {Damages(meant[i]) : i \in Places}] :
                   \A i \in Places : d[i] \in Damages(meant[i]) /\ Sane(d[i])}
  /\ sent = [i \in Places |-> 0] /\ partials = <<>>
  /\ stage = "stream" /\ calls = <<>> /\ prepared = <<>> /\ allowed = {}
  /\ results = <<>> /\ running = FALSE /\ landed = {} /\ adrift = {}

----------------------------------------------------------------------------
(* Fragments.  The first one of a call opens it with its id and name, the  *)
(* second continues it.                                                    *)
Id(i) == IF shape.ids THEN i ELSE 0
Fragment(i) ==
  LET opening == sent[i] = 0 IN
  [key  |-> CASE shape.index = "given" -> i [] shape.index = "same" -> 1
              [] shape.index = "omitted" -> IF partials = <<>> THEN 1 ELSE Len(partials),
   id   |-> IF opening \/ shape.echo THEN Id(i) ELSE 0,
   name |-> IF opening \/ shape.echo THEN meant[i].name ELSE None,
   slice |-> <<i, sent[i] + 1>>]

(* Mutated: only another name opens another call.                          *)
OpensAnotherByName(partial, f) ==
  f.name # None /\ partial.name # None /\ f.name # partial.name

OpensAnother(partial, f) ==
  \/ f.name # None /\ partial.name # None /\ f.name # partial.name
  \/ f.id # 0 /\ partial.id # 0 /\ f.id # partial.id

(* _fragment: the call at the key, or a new one after the last.            *)
Add(f) ==
  LET new == f.key > Len(partials) \/ OpensAnother(partials[f.key], f)
      old == IF new THEN [id |-> 0, name |-> None, slices |-> <<>>] ELSE partials[f.key]
      grown == [id |-> IF f.id # 0 THEN f.id ELSE old.id,
                name |-> IF f.name # None THEN f.name ELSE old.name,
                slices |-> Append(old.slices, f.slice)]
  IN  IF new THEN Append(partials, grown) ELSE [partials EXCEPT ![f.key] = grown]

(* A server that gives indices may send calls in turns; an answer cut at   *)
(* its output limit ends inside its last call.                             *)
Sendable(i) ==
  /\ sent[i] < (IF finish = "length" /\ i = Len(meant) THEN 1 ELSE 2)
  /\ \A j \in 1..(i - 1) : sent[j] >= (IF shape.index = "given" THEN 1 ELSE 2)
Send(i) ==
  /\ stage = "stream" /\ Sendable(i)
  /\ partials' = Add(Fragment(i))
  /\ sent' = [sent EXCEPT ![i] = @ + 1]
  /\ UNCHANGED <<source, stage, calls, prepared, allowed, results, running, landed, adrift>>

----------------------------------------------------------------------------
(* The calls of the completion.                                            *)

(* What the served parser made of call i.                                  *)
Served(i) ==
  LET d == damage[i]  args == meant[i].args IN
  IF d.kind # "swallowed" THEN args
  ELSE LET left == DOMAIN args \ {d.lost} IN
       [a \in left \cup (IF d.junk THEN {Junk} ELSE {}) |->
          IF a = Junk THEN [word |-> Junk, tail |-> None, form |-> "typed"]
          ELSE IF a = d.into THEN [args[a] EXCEPT !.tail = d.lost]
          ELSE args[a]]

(* read_arguments: one whole text is read as it was served, half a text    *)
(* not at all; two texts run together are sometimes read, as both.         *)
Owners(slices) == {slices[k][1] : k \in DOMAIN slices}
Legible(slices) ==
  /\ \A i \in Owners(slices) : damage[i].kind # "unreadable"
  /\ Len(slices) = 2 * Cardinality(Owners(slices))
Read(slices) ==
  LET from == CHOOSE i \in Owners(slices) : TRUE
      all == UNION {DOMAIN Served(i) : i \in Owners(slices)} IN
  IF Cardinality(Owners(slices)) = 1 THEN Served(from)
  ELSE [a \in all |-> Served(CHOOSE i \in Owners(slices) : a \in DOMAIN Served(i))[a]]

Nothing == [a \in {} |-> None]
ToolCall(partial) ==
  IF Legible(partial.slices)
  THEN [id |-> partial.id, name |-> partial.name, args |-> Read(partial.slices), raw |-> FALSE]
  ELSE [id |-> partial.id, name |-> partial.name, args |-> Nothing, raw |-> TRUE]

(* unreadable, swallowed_name: a name that cannot be one, or a value that  *)
(* ends with the name of an argument that is missing.                      *)
Unreadable(call) ==
  \/ Junk \in DOMAIN call.args
  \/ \E a \in DOMAIN call.args : call.args[a].tail \notin DOMAIN call.args \cup {None}

(* repaired: impossible names go, and so does every tail.                  *)
Repaired(call) ==
  [call EXCEPT !.args =
     [a \in DOMAIN call.args \ {Junk} |-> [call.args[a] EXCEPT !.tail = None]]]

(* result and readable: one unreadable call and all are repaired.          *)
Finish ==
  /\ stage = "stream" /\ \A i \in Places : ~Sendable(i)
  /\ LET whole == [k \in DOMAIN partials |-> ToolCall(partials[k])] IN
     calls' = IF \E k \in DOMAIN whole : Unreadable(whole[k])
              THEN [k \in DOMAIN whole |-> Repaired(whole[k])] ELSE whole
  /\ stage' = "judge"
  /\ UNCHANGED <<source, sent, partials, prepared, allowed, results, running, landed, adrift>>

----------------------------------------------------------------------------
(* The executor.                                                           *)

Resolve(name) == IF name \in Tool THEN name ELSE Means[name]

(* coerce_arguments brings a value to its type where the intent is clear.  *)
Coerced(args) ==
  [a \in DOMAIN args |->
     IF args[a].form = "coercible" THEN [args[a] EXCEPT !.form = "typed"] ELSE args[a]]
Invalid(tool, args) ==
  \/ ~(Required[tool] \subseteq DOMAIN args)
  \/ ~(DOMAIN args \subseteq Accepts[tool])
  \/ \E a \in DOMAIN args : args[a].form # "typed"

(* pre_execute: the refusal, or None, and the call that would run.         *)
PreExecute(call) ==
  LET tool == Resolve(call.name)
      args == Coerced(call.args)
      refusal == IF tool = None THEN "unknown_tool"
                 ELSE IF call.raw /\ finish = "length" THEN "output_cut"
                 ELSE IF call.raw \/ Invalid(tool, args) THEN "bad_arguments"
                 ELSE None
  IN  [id |-> call.id, tool |-> tool, args |-> args, refusal |-> refusal,
       asks |-> refusal = None /\ tool \in Asks]

(* run_tools: the whole batch is prepared before anything is asked or run. *)
Judge ==
  /\ stage = "judge"
  /\ prepared' = [i \in DOMAIN calls |-> PreExecute(calls[i])]
  /\ stage' = IF \E i \in DOMAIN calls : prepared'[i].asks THEN "ask"
              ELSE IF calls = <<>> THEN "done" ELSE "run"
  /\ allowed' = {i \in DOMAIN calls : ~prepared'[i].asks}
  /\ UNCHANGED <<source, sent, partials, calls, results, running, landed, adrift>>

(* The person answers for the calls of the batch that ask.  An answer is   *)
(* for an id: it holds for every call of the batch that carries it.        *)
Answer ==
  /\ stage = "ask"
  /\ LET asked == {prepared[i].id : i \in {j \in DOMAIN prepared : prepared[j].asks}} IN
     \E yes \in SUBSET asked :
       allowed' = {i \in DOMAIN prepared : prepared[i].id \in asked => prepared[i].id \in yes}
  /\ stage' = "run"
  /\ UNCHANGED <<source, sent, partials, calls, prepared, results, running, landed, adrift>>

At == Len(results) + 1
Settle(code) ==
  /\ results' = Append(results, code)
  /\ stage' = IF At = Len(calls) THEN "done" ELSE "run"
  /\ running' = FALSE
  /\ UNCHANGED <<source, sent, partials, calls, prepared, allowed>>

(* Declined or refused: answered without running.                          *)
Decline ==
  /\ stage = "run" /\ ~running /\ At \notin allowed
  /\ Settle("declined") /\ UNCHANGED <<landed, adrift>>
Refuse ==
  /\ stage = "run" /\ ~running /\ At \in allowed /\ prepared[At].refusal # None
  /\ Settle(prepared[At].refusal) /\ UNCHANGED <<landed, adrift>>

Start ==
  /\ stage = "run" /\ ~running /\ At \in allowed /\ prepared[At].refusal = None
  /\ running' = TRUE
  /\ UNCHANGED <<source, sent, partials, stage, calls, prepared, allowed, results, landed, adrift>>

(* The body returns, or raises: before it did anything, or after.  What it *)
(* raises may be a TimeoutError of its own, worded like the deadline's     *)
(* (failure_of).                                                           *)
Perhaps(i) == {landed, landed \cup {i}}
Return ==
  /\ running
  /\ landed' = landed \cup {At} /\ Settle("ok") /\ UNCHANGED adrift
Raise ==
  /\ running
  /\ landed' \in Perhaps(At) /\ UNCHANGED adrift
  /\ \E code \in {"failed", "timeout"} : Settle(code)

(* Mutated: what is given up counts as a failure like any other.           *)
GiveUpQuietly ==
  /\ running /\ Deadline[prepared[At].tool] # "none"
  /\ Settle("failed") /\ landed' \in Perhaps(At)
  /\ adrift' = IF Deadline[prepared[At].tool] = "thread" THEN adrift \cup {At} ELSE adrift

(* The deadline passes, whatever the body has done by then: a coroutine is *)
(* cancelled, a thread runs on.                                            *)
GiveUp ==
  /\ running /\ Deadline[prepared[At].tool] # "none"
  /\ Settle("timeout") /\ landed' \in Perhaps(At)
  /\ adrift' = IF Deadline[prepared[At].tool] = "thread" THEN adrift \cup {At} ELSE adrift
Land(i) ==
  /\ i \in adrift
  /\ adrift' = adrift \ {i} /\ landed' \in Perhaps(i)
  /\ UNCHANGED <<source, sent, partials, stage, calls, prepared, allowed, results, running>>

Next ==
  \/ \E i \in Places : Send(i)
  \/ Finish \/ Judge \/ Answer \/ Decline \/ Refuse \/ Start \/ Return \/ Raise \/ GiveUp
  \/ \E i \in adrift : Land(i)

Spec == Init /\ [][Next]_vars

----------------------------------------------------------------------------
(* Properties.                                                             *)

(* Whatever a server does to fragments and to one call, what runs is a     *)
(* call the model meant: its tool, and arguments it wrote for that very    *)
(* call, without a word of another's (StreamedCompletion, repaired: "the   *)
(* missing argument stays missing").                                       *)
OwnArguments ==
  \A i \in (IF running THEN {At} ELSE {}) \cup landed :
    /\ i \in Places /\ prepared[i].tool = Resolve(meant[i].name)
    /\ \A a \in DOMAIN prepared[i].args :
         /\ a \in DOMAIN meant[i].args
         /\ prepared[i].args[a].word = meant[i].args[a].word
         /\ prepared[i].args[a].tail \in {None, meant[i].args[a].tail}

(* What the code of a result says about the effects of its call, each body *)
(* free to act and then raise, or to run on: "ok" is said of a body that   *)
(* ended well, a refusal or a no of a call that did and will do nothing,   *)
(* a failure of one that may have acted but is over, and only a call out   *)
(* of time may still change something, after later calls were answered     *)
(* (_started: "the thread keeps running until the body returns").  What    *)
(* acted had its yes and its required arguments.                           *)
ResultsBoundEffects ==
  /\ \A i \in DOMAIN results :
       /\ results[i] = "ok" => i \in landed
       /\ results[i] \in Refusals \cup {"declined"} => i \notin landed
       /\ i \in adrift => results[i] = "timeout"
  /\ \A i \in landed \cup adrift :
       ~Invalid(prepared[i].tool, prepared[i].args) /\ i \in allowed
=============================================================================
