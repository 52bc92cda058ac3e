---------------------------- MODULE ThreadContext ----------------------------
(***************************************************************************)
(* One conversation growing past what the model can be sent: the context a *)
(* turn assembles and keeps in its checkpoint, folding before a request    *)
(* (fitted), after an overflow, after the turn (persist) and when asked    *)
(* (/compact), with workers that die, wait for a person, or lose their     *)
(* lease in the middle of it.                                              *)
(*                                                                         *)
(* A summary is the set of positions it accounts for, and its size.  The   *)
(* turn is TurnLoop's without budgets and stops; a tool returns anything,  *)
(* as it would after a yes, a no or a death.  The server counts up to      *)
(* ERROR more tokens than were estimated.                                  *)
(***************************************************************************)
EXTENDS ContextWindow

CONSTANTS
  Said,              \* what a person may send, [size, media]
  Written,           \* sizes of what the model writes
  Returned,          \* what a tool may return, [size, media, failed]
  Summaries,         \* sizes of summaries
  SUMMARIZE_AFTER,   \* messages past which a thread is folded in any case
  BUDGET,            \* max_input_tokens; beyond every size if not known
  WINDOW,            \* what the server takes
  ERROR,             \* how far its count may lie above the estimate
  MaxMessages,       \* bound: messages of the thread
  MaxCalls,          \* bound: calls of the model
  MaxBatch,          \* bound: calls in one batch
  MaxCrashes,        \* bound: deaths of a worker
  MaxLapses,         \* bound: leases lost while folding
  MaxCompacts        \* bound: /compact

ASSUME ContextAssumption ==
  /\ Said \subseteq [size : Nat, media : Nat] /\ Written \subseteq Nat
  /\ Returned \subseteq [size : Nat, media : Nat, failed : BOOLEAN]
  /\ Summaries \subseteq Nat /\ SUMMARIZE_AFTER \in Nat
  /\ BUDGET \in Nat /\ WINDOW \in Nat /\ ERROR \in Nat
  /\ MaxMessages \in Nat /\ MaxCalls \in Nat /\ MaxBatch \in Nat
  /\ MaxCrashes \in Nat /\ MaxLapses \in Nat /\ MaxCompacts \in Nat

Position == Nat \ {0}
CallId == 1..MaxCalls

VARIABLES
  (* the store *)
  stored,       \* the thread's messages
  summary,      \* its summary
  through,      \* summarized_through
  compactions,  \* the records of its folds
  (* the checkpoint *)
  next,         \* the node to run
  turn,         \* the turn's own messages
  context,      \* the context it was given
  used,         \* tokens reported for its last request, 0 if none
  (* the worker *)
  pc, prepared, rounds, fold,
  lapsed,       \* the fold of a worker that lost its lease
  (* the rest *)
  issued,       \* call ids drawn
  crashes, lapses, compacts,
  (* history *)
  lost,         \* positions folded by workers that died before the record
  refusal       \* whether the last refusal was due

store == <<stored, summary, through, compactions>>
checkpoint == <<next, turn, context, used>>
hand == <<pc, prepared, rounds, fold>>
counters == <<crashes, lapses, compacts>>
history == <<lost, refusal>>
vars == <<store, checkpoint, hand, lapsed, issued, counters, history>>

Message ==
  [role : {"user", "assistant", "tool"}, size : Nat, media : Nat,
   calls : Seq(CallId), call : CallId \cup {0}, failed : BOOLEAN]

Summary == [covers : SUBSET Position, size : Nat]
NoSummary == [covers |-> {}, size |-> 0]

(* Context: the summary, and the history behind position `through`. *)
Context == [summary : Summary, through : Nat, history : Seq(Message)]
NoContext == [summary |-> NoSummary, through |-> 0, history |-> <<>>]

(* A fold under way: who asked for it, what it read, how much it takes. *)
Fold ==
  [why : {"fitted", "overflow", "persist", "asked"}, previous : SUBSET Position,
   through : Nat, cut : Nat]
NoFold == [why |-> "none", previous |-> {}, through |-> 0, cut |-> 0]

TypeOK ==
  /\ stored \in Seq(Message) /\ summary \in Summary /\ through \in Nat
  /\ compactions \subseteq [through : Nat, folded : Nat]
  /\ next \in {"load", "model", "tools", "persist", "end"}
  /\ turn \in Seq(Message) /\ context \in Context
  /\ pc \in {"idle", "load", "model", "send", "retry", "tools", "persist", "kept",
             "fold", "record"}
  /\ prepared \in Context /\ rounds \in 0..3 /\ fold \in Fold \cup {NoFold}
  /\ lapsed \in Fold \cup {NoFold}
  /\ issued \in 0..MaxCalls
  /\ crashes \in Nat /\ lapses \in Nat /\ compacts \in Nat
  /\ lost \subseteq Position /\ refusal \in {"none", "due", "needless"}

Init ==
  /\ stored = <<>> /\ summary = NoSummary /\ through = 0 /\ compactions = {}
  /\ next = "end" /\ turn = <<>> /\ context = NoContext /\ used = 0
  /\ pc = "idle" /\ prepared = NoContext /\ rounds = 0 /\ fold = NoFold
  /\ lapsed = NoFold /\ issued = 0
  /\ crashes = 0 /\ lapses = 0 /\ compacts = 0
  /\ lost = {} /\ refusal = "none"

----------------------------------------------------------------------------
(* The person, and a worker that takes a turn up or loses it.              *)

(* Room for n messages and an answer. *)
Room(n) == Len(stored) + Len(turn) + n + 1 <= MaxMessages

Release == pc' = "idle" /\ prepared' = NoContext /\ rounds' = 0 /\ fold' = NoFold
EnterModel(c) == pc' = "model" /\ prepared' = c /\ rounds' = 0 /\ fold' = NoFold

(* events: a message begins a turn, in place of one that was not finished. *)
Write ==
  /\ pc = "idle" /\ Len(stored) + 2 <= MaxMessages
  /\ \E m \in Said : turn' = <<User(m.size, m.media)>>
  /\ next' = "load" /\ pc' = "load"
  /\ UNCHANGED <<store, context, used, prepared, rounds, fold, lapsed, issued, counters,
                 history>>

(* A message delivered again, or an answer: the checkpoint's node runs. *)
Resume ==
  /\ pc = "idle" /\ next # "end"
  /\ IF next = "model" THEN EnterModel(context)
     ELSE pc' = next /\ UNCHANGED <<prepared, rounds, fold>>
  /\ UNCHANGED <<store, checkpoint, lapsed, issued, counters, history>>

Crash ==
  /\ pc # "idle" /\ crashes < MaxCrashes
  /\ crashes' = crashes + 1
  /\ lost' = IF pc = "record"
             THEN lost \cup ((fold.through + 1)..(fold.through + fold.cut)) ELSE lost
  /\ Release
  /\ UNCHANGED <<store, checkpoint, lapsed, issued, lapses, compacts, refusal>>

----------------------------------------------------------------------------
(* Assembling.                                                             *)

(* Mutated: the last messages, whatever the summary accounts for. *)
AssembledRecent ==
  LET behind == IF Len(stored) > SUMMARIZE_AFTER THEN Len(stored) - SUMMARIZE_AFTER ELSE 0
  IN [summary |-> summary, through |-> behind, history |-> From(stored, behind)]

(* load_turn_context: one read of the summary, its position and the rest. *)
Assembled == [summary |-> summary, through |-> through, history |-> From(stored, through)]

Load ==
  /\ pc = "load"
  /\ context' = Assembled /\ next' = "model"
  /\ EnterModel(Assembled)
  /\ UNCHANGED <<store, turn, used, lapsed, issued, counters, history>>

Request(c) == Surface(c.history, c.through, turn)
Size(c) == c.summary.size + Tokens(Request(c))

----------------------------------------------------------------------------
(* Folding.                                                                *)

(* The request is larger than the server takes, and nothing is left to do: *)
(* an answer that says so.                                                 *)
Refuse(c) ==
  /\ \E n \in Written : turn' = Append(turn, Step(n, <<>>))
  /\ next' = "persist" /\ context' = c /\ used' = 0
  /\ refusal' = IF Size(Assembled) + ERROR <= WINDOW THEN "needless" ELSE "due"
  /\ pc' = "persist" /\ prepared' = NoContext /\ rounds' = 0 /\ fold' = NoFold

EndTurn == next' = "end" /\ Release /\ UNCHANGED <<turn, context, used, refusal>>
Drop == Release /\ UNCHANGED <<checkpoint, refusal>>
SendIt(c) ==
  /\ pc' = "send" /\ prepared' = c /\ rounds' = 0 /\ fold' = NoFold
  /\ UNCHANGED <<checkpoint, refusal>>

(* What its caller does when nothing was folded. *)
Without(why) ==
  CASE why = "fitted"   -> SendIt(prepared)
    [] why = "overflow" -> Refuse(context)
    [] why = "persist"  -> EndTurn
    [] why = "asked"    -> Drop

(* fold_older_messages, up to the summarizer. *)
TryFold(why, force, excess) ==
  LET pending == From(stored, through)
      cut == Cut(pending, excess)
  IN IF \/ Len(pending) <= SUMMARIZE_AFTER /\ excess = 0 /\ ~force
        \/ cut = 0 \/ cut = Len(pending)
     THEN Without(why)
     ELSE /\ fold' = [why |-> why, previous |-> summary.covers, through |-> through, cut |-> cut]
          /\ pc' = "fold"
          /\ rounds' = IF why = "fitted" THEN rounds + 1 ELSE 0
          /\ UNCHANGED <<checkpoint, prepared, refusal>>

(* fitted: send what fits, or what three folds could not make fit. *)
Fit ==
  /\ pc = "model"
  /\ LET over == Size(prepared) - BUDGET IN
     IF over <= 0 \/ rounds = 3 THEN SendIt(prepared) ELSE TryFold("fitted", TRUE, over)
  /\ UNCHANGED <<store, lapsed, issued, counters, lost>>

(* /compact *)
Compact ==
  /\ pc = "idle" /\ compacts < MaxCompacts
  /\ compacts' = compacts + 1
  /\ TryFold("asked", TRUE, 0)
  /\ UNCHANGED <<store, lapsed, issued, crashes, lapses, lost>>

(* Mutated: the position is counted from where the pending messages began. *)
SetSummaryAt(f) ==
  /\ \E n \in Summaries :
       summary' = [covers |-> f.previous \cup ((f.through + 1)..(f.through + f.cut)),
                   size |-> n]
  /\ through' = f.cut

(* What the summary covers and where it ends move together. *)
SetSummary(f) ==
  /\ \E n \in Summaries :
       summary' = [covers |-> f.previous \cup ((f.through + 1)..(f.through + f.cut)),
                   size |-> n]
  /\ through' = f.through + f.cut

RecordCompaction(f) ==
  compactions' = compactions \cup {[through |-> f.through + f.cut, folded |-> f.cut]}

(* The summarizer answers.                                                 *)
Summarized ==
  /\ pc = "fold"
  /\ SetSummary(fold)
  /\ pc' = "record"
  /\ UNCHANGED <<stored, compactions, checkpoint, prepared, rounds, fold, lapsed, issued,
                 counters, history>>

Recorded ==
  /\ pc = "record"
  /\ RecordCompaction(fold)
  /\ CASE fold.why = "fitted" ->
            /\ pc' = "model" /\ prepared' = Assembled /\ fold' = NoFold
            /\ UNCHANGED <<checkpoint, rounds, refusal>>
       [] fold.why = "overflow" ->
            /\ pc' = "retry" /\ prepared' = Assembled /\ fold' = NoFold
            /\ UNCHANGED <<checkpoint, rounds, refusal>>
       [] fold.why = "persist" -> EndTurn
       [] fold.why = "asked" -> Drop
  /\ UNCHANGED <<stored, summary, through, lapsed, issued, counters, lost>>

(* It answers with nothing, or cannot answer.  Of its errors only that its *)
(* own request is too large is caught on the way to a retry.               *)
NotSummarized ==
  /\ pc = "fold"
  /\ \/ Without(fold.why)
     \/ fold.why = "overflow" /\ Drop
  /\ UNCHANGED <<store, lapsed, issued, counters, lost>>

(* The lease runs out while the summarizer works.  Another worker takes    *)
(* the update, and the fold is still written.                              *)
Lapse ==
  /\ pc = "fold" /\ lapsed = NoFold /\ lapses < MaxLapses
  /\ lapses' = lapses + 1
  /\ lapsed' = fold
  /\ Release
  /\ UNCHANGED <<store, checkpoint, issued, crashes, compacts, history>>

LateFold ==
  /\ lapsed # NoFold
  /\ SetSummary(lapsed) /\ RecordCompaction(lapsed)
  /\ lapsed' = NoFold
  /\ UNCHANGED <<stored, checkpoint, hand, issued, counters, history>>

----------------------------------------------------------------------------
(* The model and the tools.                                                *)

(* The server's count of what is sent. *)
Sending == pc \in {"send", "retry"}
Taken ==
  /\ Sending
  /\ \E e \in 0..ERROR : Size(prepared) + e <= WINDOW /\ used' = Size(prepared) + e
  /\ context' = prepared

AskForTools ==
  /\ Taken
  /\ \E n \in 1..MaxBatch, size \in Written :
       /\ Room(n + 1) /\ issued + n <= MaxCalls
       /\ turn' = Append(turn, Step(size, [i \in 1..n |-> issued + i]))
       /\ issued' = issued + n
  /\ next' = "tools"
  /\ pc' = "tools" /\ prepared' = NoContext /\ rounds' = 0 /\ fold' = NoFold
  /\ UNCHANGED <<store, lapsed, counters, history>>

(* With or without words: a completion may be empty. *)
Answer ==
  /\ Taken
  /\ \/ \E size \in Written : turn' = Append(turn, Step(size, <<>>))
     \/ UNCHANGED turn
  /\ next' = "persist"
  /\ pc' = "persist" /\ prepared' = NoContext /\ rounds' = 0 /\ fold' = NoFold
  /\ UNCHANGED <<store, lapsed, issued, counters, history>>

(* ContextOverflowError: fold and try once more. *)
Overflow ==
  /\ Sending /\ Size(prepared) + ERROR > WINDOW
  /\ IF pc = "send" THEN TryFold("overflow", TRUE, 0) ELSE Refuse(prepared)
  /\ UNCHANGED <<store, lapsed, issued, counters, lost>>

(* The batch waits for the person. *)
Ask ==
  /\ pc = "tools"
  /\ Release
  /\ UNCHANGED <<store, checkpoint, lapsed, issued, counters, history>>

Batch == turn[Len(turn)].calls
RunTools ==
  /\ pc = "tools"
  /\ \E r \in [1..Len(Batch) -> Returned] :
       turn' = turn \o [i \in 1..Len(Batch) |->
                          Result(r[i].size, r[i].media, r[i].failed, Batch[i])]
  /\ next' = "model" /\ EnterModel(context)
  /\ UNCHANGED <<store, context, used, lapsed, issued, counters, history>>

----------------------------------------------------------------------------
(* persist.                                                                *)

Alike(m, n) == m.role = n.role /\ m.size = n.size /\ m.calls = n.calls /\ m.call = n.call
AlreadyStored ==
  /\ Len(turn) <= Len(stored)
  /\ \A i \in 1..Len(turn) : Alike(stored[Len(stored) - Len(turn) + i], turn[i])

Store ==
  /\ pc = "persist"
  /\ stored' = IF AlreadyStored THEN stored ELSE stored \o turn
  /\ pc' = "kept"
  /\ UNCHANGED <<summary, through, compactions, checkpoint, prepared, rounds, fold, lapsed,
                 issued, counters, history>>

FoldAfter ==
  /\ pc = "kept"
  /\ TryFold("persist", FALSE, IF used > BUDGET THEN used - BUDGET ELSE 0)
  /\ UNCHANGED <<store, lapsed, issued, counters, lost>>

----------------------------------------------------------------------------
Folding == Fit \/ Compact \/ Summarized \/ Recorded \/ NotSummarized \/ FoldAfter
Faults == Crash \/ Lapse \/ LateFold
Turn == Load \/ AskForTools \/ Answer \/ Overflow \/ Ask \/ RunTools \/ Store

Next == Write \/ Resume \/ Folding \/ Turn \/ Faults

Spec == Init /\ [][Next]_vars

----------------------------------------------------------------------------
(* Properties.                                                             *)

(* summary.py: "The summary and the position it covers move together", to  *)
(* a place where a step begins, also when two folds of the thread race.    *)
SummaryAccounts ==
  /\ summary.covers = 1..through /\ through <= Len(stored)
  /\ through < Len(stored) => stored[through + 1].role # "tool"

(* Every message of the conversation reaches the model, itself or in the   *)
(* summary, and none twice, however old the turn's context is.             *)
RequestWhole ==
  Sending => /\ prepared.summary.covers = 1..prepared.through
             /\ prepared.history = From(stored, prepared.through)

(* What the provider takes: every call of a step is followed by its        *)
(* result, in order, and no result stands without its call, however the    *)
(* history was cut and whatever happened to the turn.                      *)
CallsAnswered(s, i) ==
  \A k \in 1..Len(s[i].calls) :
    i + k <= Len(s) /\ s[i + k].role = "tool" /\ s[i + k].call = s[i].calls[k]
ResultCalled(s, i) ==
  \E j \in With(s, "assistant") :
    i - j \in 1..Len(s[j].calls) /\ s[j].calls[i - j] = s[i].call
Paired(s) ==
  /\ \A i \in With(s, "assistant") : CallsAnswered(s, i)
  /\ \A i \in With(s, "tool") : ResultCalled(s, i)
RequestPaired == Sending => Paired(prepared.history \o turn)

(* Context.surface: the media of one request are within the provider's     *)
(* limit, in how many messages they stand.                                 *)
MediaBounded ==
  Sending =>
    LET s == Request(prepared)
    IN Total([i \in 1..Len(s) |-> s[i].media], Len(s)) <= MEDIA_BUDGET

(* A stub names the place of the whole result in the store, and the turn   *)
(* in progress has none.                                                   *)
StubsPointHome ==
  Sending =>
    LET s == Request(prepared) IN
    \A i \in 1..Len(s) : s[i].stub # 0 =>
      /\ i <= Len(prepared.history)
      /\ s[i].stub <= Len(stored) /\ stored[s[i].stub] = s[i].message

(* docs/PROJECT_MAP.md:178: what is folded leaves the last KEEP_TURNS      *)
(* exchanges, or inside a long one the newest steps.                       *)
NewestStays ==
  through > 0 =>
    \/ Cardinality({i \in With(stored, "user") : i > through}) >= KEEP_TURNS
    \/ Cardinality({i \in With(stored, "assistant") : i > through}) >= KEEP_STEPS

(* The records say which messages each fold took: all that the summary     *)
(* stands for, none twice.  A worker that dies between summary and record  *)
(* leaves a gap.                                                           *)
Taking(r) == (r.through - r.folded + 1)..r.through
CompactionsAccount ==
  lapses = 0 =>
    /\ (UNION {Taking(r) : r \in compactions}) \cup lost
         = 1..(IF pc = "record" THEN fold.through ELSE through)
    /\ \A r, q \in compactions : Taking(r) \cap Taking(q) # {} => r = q

(* A conversation is accounted for: what the summary stands for, and in    *)
(* the records which fold took what (summary.py, record_compaction).       *)
FoldsAccounted == SummaryAccounts /\ CompactionsAccount

(* Nothing said is lost to the model: it is in the summary, in the request *)
(* or behind a stub that leads to it.                                      *)
NothingIsLost == RequestWhole /\ StubsPointHome

(* What the provider would refuse is not sent: calls without results, or   *)
(* more media than it takes.                                               *)
ProviderAccepts == RequestPaired /\ MediaBounded

(* graph.py:802-803: "Nothing left to fold: the size is the current turn,  *)
(* not the history behind it", and the refusal says the request is too     *)
(* large.                                                                  *)
RefusedOnlyIfTooLarge == refusal # "needless"
=============================================================================
