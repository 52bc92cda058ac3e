--------------------------- MODULE AnswerDelivery ---------------------------
(***************************************************************************)
(* How the answers of one turn reach a Telegram chat                       *)
(* (ui/telegram/adapter.py, _answer and _on_callback, _deliver,            *)
(* AnswerPreview, ToolActivity; ui/telegram/api.py): the text shown while  *)
(* the model writes it, the message it becomes, the status shown while     *)
(* tools run, and a Telegram that refuses a call or does it and loses the  *)
(* reply.                                                                  *)
(*                                                                         *)
(* The loop is what the adapter sees of it: a model call per completion    *)
(* (module ModelStream), a committed message or a withdrawn one, and       *)
(* outbound media of tools.  A worker that dies, or fails on Telegram, is  *)
(* followed by one that takes the turn up from its checkpoint.             *)
(*                                                                         *)
(* A text is a body with a length in pieces (split_message, pack); what it *)
(* says, its markup and the wording of statuses are left out.  Rate limits *)
(* and refused markup are retried inside one call (Call's outcome).        *)
(***************************************************************************)
EXTENDS ModelStream, Sequences

CONSTANTS
  Body,            \* texts the model writes
  Long,            \* those of at least PREVIEW_START_CHARS
  PiecesOf,        \* messages a body needs
  None,            \* no text
  Failures,        \* how a call may fail: "refused", "lost"
  SteeringLimit,   \* how often the stopping extension objects in one turn
  MaxCompletions,  \* bound: the turn's budget of model calls
  MaxFaults,       \* bound: calls Telegram fails
  MaxDeaths        \* bound: workers that die or fail on Telegram

ASSUME DeliveryAssumption ==
  /\ Long \subseteq Body /\ None \notin Body
  /\ PiecesOf \in [Body -> Nat \ {0}]
  /\ Failures \subseteq {"refused", "lost"}
  /\ SteeringLimit \in Nat /\ MaxCompletions \in Nat \ {0}
  /\ MaxFaults \in Nat /\ MaxDeaths \in Nat

VARIABLES
  (* the turn, in its checkpoint *)
  completions,  \* model calls whose result was committed
  steerings,    \* drafts that were not accepted as the ending
  draft,        \* the draft the next completion may be answered with, or None
  produced,     \* the texts committed so far
  item,         \* the last committed message: its body, and what comes after it
  (* the worker *)
  entry,        \* the handler: "_answer" or "_on_callback"
  phase,        \* where it is
  writing,      \* what the model call under way writes: a body or None
  heard,        \* how much of it arrived: 0 nothing, 1 too little to show, 2
  piece,        \* the piece of item.body to be sent next
  preview,      \* AnswerPreview: message_id (0 for none), held, stood aside
  status,       \* ToolActivity.message_id, 0 for none
  delivered,    \* bodies this worker delivered
  (* the chat *)
  chat,         \* messages in the order they were sent
  faults, deaths,
  stuck         \* history: messages a call about which failed, or whose worker died

turn == <<completions, steerings, draft, produced, item>>
screen == <<preview, status, delivered>>
talk == <<writing, heard>>
bounds == <<faults, deaths>>
vars == <<stream, turn, entry, phase, talk, piece, screen, chat, bounds, stuck>>

NoPreview == [msg |-> 0, held |-> FALSE, aside |-> FALSE]
NoItem == [body |-> None, then |-> "model"]

(* A message: transient, or a piece of the text at place `of`.             *)
Other(kind) == [kind |-> kind, of |-> 0, part |-> 0]
Piece(k) == [kind |-> "piece", of |-> Len(produced), part |-> k]

Resting == {"answered", "apologised", "given up", "begun anew"}

Phases == {"model", "stream", "deliver", "edit", "append", "send", "after", "tools", "media",
           "single", "ending", "raising", "failing", "sorry", "dead"} \cup Resting
Messages == [kind : {"piece", "status", "preview", "media", "gone"}, of : Nat, part : Nat]
Items == [body : Body \cup {None}, then : {"model", "tools", "end"}]

TypeOK ==
  /\ StreamTypeOK
  /\ completions \in 0..MaxCompletions /\ steerings \in 0..SteeringLimit
  /\ draft \in Body \cup {None} /\ produced \in Seq(Body) /\ item \in Items
  /\ entry \in {"_answer", "_on_callback"} /\ phase \in Phases
  /\ writing \in Body \cup {None} /\ heard \in 0..2
  /\ piece \in Nat \ {0}
  /\ preview \in [msg : 0..Len(chat), held : BOOLEAN, aside : BOOLEAN]
  /\ status \in 0..Len(chat)
  /\ delivered \subseteq Body
  /\ chat \in Seq(Messages)
  /\ faults \in 0..MaxFaults /\ deaths \in 0..MaxDeaths
  /\ stuck \subseteq 1..Len(chat)

Init ==
  /\ StreamInit
  /\ completions = 0 /\ steerings = 0 /\ draft = None /\ produced = <<>> /\ item = NoItem
  /\ entry \in {"_answer", "_on_callback"}
  /\ phase = "model" /\ writing = None /\ heard = 0 /\ piece = 1
  /\ preview = NoPreview /\ status = 0 /\ delivered = {}
  /\ chat = <<>> /\ faults = 0 /\ deaths = 0 /\ stuck = {}

----------------------------------------------------------------------------
(* The Bot API.                                                            *)

(* _call: done; refused, with nothing done; or done and the reply lost.    *)
(* Either failure is a TelegramError to the caller.                        *)
Fault(n) == faults + n <= MaxFaults /\ faults' = faults + n
Outcome == {"ok"} \cup Failures
Call(outcome) == Fault(IF outcome = "ok" THEN 0 ELSE 1)
Done(outcome) == outcome # "refused"

(* delete_message: a refusal is swallowed and the message stays.           *)
Without(messages, seen) ==
  [m \in DOMAIN seen |-> IF m \in messages THEN Other("gone") ELSE seen[m]]
Delete(messages) ==
  \E kept \in SUBSET (messages \ {0}) :
    /\ Fault(Cardinality(kept))
    /\ chat' = Without(messages \ kept, chat)
    /\ stuck' = stuck \cup kept

(* One new message, kept in stuck when its sender does not learn its id.   *)
Sent(message, outcome) == IF Done(outcome) THEN Append(chat, message) ELSE chat
Untraced(outcome) == IF outcome = "lost" THEN {Len(chat) + 1} ELSE {}

----------------------------------------------------------------------------
(* The model writes.                                                       *)

BeginCompletion ==
  /\ phase = "model" /\ completions < MaxCompletions
  /\ Ask
  /\ phase' = "stream"
  /\ UNCHANGED <<turn, entry, talk, piece, screen, chat, bounds, stuck>>

Length(body) == IF body = None THEN 0 ELSE IF body \in Long THEN 2 ELSE 1

(* The endpoint, and the way to it, while no text arrives.                 *)
Wire ==
  /\ phase = "stream"
  /\ (Later \/ Fails)
  /\ UNCHANGED <<turn, entry, phase, talk, piece, screen, chat, bounds, stuck>>
AnswerBegins ==
  /\ phase = "stream"
  /\ Responds
  /\ writing' \in Body \cup {None} /\ heard' = 0
  /\ UNCHANGED <<turn, entry, phase, piece, screen, chat, bounds, stuck>>

(* preview.add: nothing while the text is too short or the preview stood   *)
(* aside; else a first message, which lets the status go; else an edit of  *)
(* it, once the interval has passed.                                       *)
AddNothing ==
  /\ preview.aside \/ heard' < 2 \/ preview.msg # 0
  /\ UNCHANGED <<preview, status, chat, faults, stuck>>
AddSend ==
  /\ ~preview.aside /\ heard' = 2 /\ preview.msg = 0
  /\ \E kept \in SUBSET ({status} \ {0}) :
       /\ Fault(Cardinality(kept))
       /\ preview' = [preview EXCEPT !.msg = Len(chat) + 1]
       /\ chat' = Append(Without({status} \ kept, chat), Other("preview"))
       /\ status' = 0 /\ stuck' = stuck \cup kept
AddFails ==
  /\ ~preview.aside /\ heard' = 2 /\ preview.msg = 0
  /\ \E outcome \in Failures :
       Fault(1) /\ chat' = Sent(Other("preview"), outcome) /\ stuck' = stuck \cup Untraced(outcome)
  /\ preview' = [preview EXCEPT !.aside = TRUE]
  /\ UNCHANGED status
AddEdit ==
  /\ ~preview.aside /\ heard' = 2 /\ preview.msg # 0
  /\ Failures # {} /\ Fault(1)
  /\ preview' = [preview EXCEPT !.aside = TRUE]
  /\ UNCHANGED <<status, chat, stuck>>

Delta ==
  /\ phase = "stream" /\ heard < Length(writing)
  /\ Speaks
  /\ heard' = heard + 1
  /\ (AddNothing \/ AddSend \/ AddFails \/ AddEdit)
  /\ UNCHANGED <<turn, entry, phase, writing, piece, delivered, deaths>>

(* The completion is whole.  Out of budget it has no calls and is final.   *)
Silence == writing' = None /\ heard' = 0
Whole == phase = "stream" /\ heard = Length(writing) /\ Ends
Last == completions + 1 >= MaxCompletions
Step ==
  /\ completions' = completions + 1
  /\ Silence
  /\ UNCHANGED <<entry, piece, status, delivered, chat, bounds, stuck>>
Produce(body, then) ==
  /\ item' = [body |-> body, then |-> then]
  /\ produced' = IF body = None THEN produced ELSE Append(produced, body)
  /\ phase' = "deliver"
  /\ UNCHANGED preview

(* settled: a message with calls, or with nothing to add to.               *)
Acts ==
  /\ Whole /\ ~Last
  /\ Produce(writing, "tools") /\ draft' = None
  /\ UNCHANGED steerings /\ Step
Concludes ==
  /\ Whole /\ writing # None
  /\ Produce(writing, "end") /\ draft' = None
  /\ UNCHANGED steerings /\ Step

(* The extension objects: the text becomes a draft for one step, and       *)
(* AnswerWithdrawn reaches the adapter: hold, or in a callback discard.    *)
Withdraw ==
  IF entry = "_answer"
  THEN preview' = [preview EXCEPT !.held = TRUE] /\ UNCHANGED <<chat, faults, stuck>>
  ELSE preview' = NoPreview /\ Delete({preview.msg})
Steered ==
  /\ Whole /\ writing # None /\ ~Last /\ steerings < SteeringLimit
  /\ draft' = writing /\ steerings' = steerings + 1
  /\ completions' = completions + 1 /\ item' = NoItem
  /\ Withdraw /\ phase' = "model" /\ Silence
  /\ UNCHANGED <<produced, entry, piece, status, delivered, deaths>>

(* No text and no call: the draft, if there is one, is the answer.         *)
AddsNothing ==
  /\ Whole /\ writing = None
  /\ Produce(draft, "end")
  /\ draft' = None
  /\ UNCHANGED steerings /\ Step

(* The request failed: the handler answers with the error.                 *)
RequestFails ==
  /\ phase = "stream" /\ request = "broken"
  /\ phase' = "failing"
  /\ UNCHANGED <<stream, turn, entry, talk, piece, screen, chat, bounds, stuck>>

----------------------------------------------------------------------------
(* _deliver.                                                               *)

Repeat == entry = "_answer" /\ item.body \in delivered

(* With a new text the status goes, and the preview, if there is one,      *)
(* becomes the first piece.                                                *)
DeliverText ==
  /\ phase = "deliver" /\ item.body # None /\ ~Repeat
  /\ Delete({status}) /\ status' = 0
  /\ IF preview.msg # 0 THEN phase' = "edit" /\ UNCHANGED preview
     ELSE phase' = "send" /\ preview' = NoPreview
  /\ piece' = 1
  /\ UNCHANGED <<stream, turn, entry, talk, delivered, deaths>>
DeliverNothing ==
  /\ phase = "deliver" /\ (item.body = None \/ Repeat)
  /\ IF preview.held /\ preview.msg # 0 THEN UNCHANGED <<preview, chat, faults, stuck>>
     ELSE preview' = NoPreview /\ Delete({preview.msg})
  /\ phase' = "after"
  /\ UNCHANGED <<stream, turn, entry, talk, piece, status, delivered, deaths>>

(* Mutated: the preview is not forgotten.                                  *)
FinishedKeeping ==
  /\ phase' = "after" /\ UNCHANGED preview
  /\ delivered' = delivered \cup {item.body}

(* The last piece is out: the preview is forgotten.                        *)
Finished ==
  /\ phase' = "after" /\ preview' = NoPreview
  /\ delivered' = delivered \cup {item.body}
More(next) ==
  /\ piece' = piece + 1
  /\ IF piece = PiecesOf[item.body] THEN Finished
     ELSE phase' = next /\ UNCHANGED <<preview, delivered>>

(* Mutated: the sending goes on after the pieces that were out.            *)
SendOn(outcome, after) ==
  /\ \E kept \in SUBSET {preview.msg} :
       /\ Fault(1 + Cardinality(kept))
       /\ chat' = Without({preview.msg} \ kept, after)
       /\ stuck' = stuck \cup kept
  /\ preview' = NoPreview /\ phase' = "send" /\ UNCHANGED piece
  /\ UNCHANGED delivered

(* finish fails on any piece: the message of the preview goes, and the     *)
(* whole text is sent as new messages.                                     *)
SendInstead(outcome, after) ==
  /\ \E kept \in SUBSET {preview.msg} :
       /\ Fault(1 + Cardinality(kept))
       /\ chat' = Without({preview.msg} \ kept, after)
       /\ stuck' = stuck \cup kept
  /\ preview' = NoPreview /\ phase' = "send" /\ piece' = 1
  /\ UNCHANGED delivered

EditFirst ==
  /\ phase = "edit"
  /\ \E outcome \in Outcome :
       LET edited == IF Done(outcome) THEN [chat EXCEPT ![preview.msg] = Piece(1)] ELSE chat IN
       IF outcome = "ok" THEN More("append") /\ chat' = edited /\ UNCHANGED <<faults, stuck>>
       ELSE SendInstead(outcome, edited)
  /\ UNCHANGED <<stream, turn, entry, talk, status, deaths>>
AppendPiece ==
  /\ phase = "append"
  /\ \E outcome \in Outcome :
       LET longer == Sent(Piece(piece), outcome) IN
       IF outcome = "ok" THEN More("append") /\ chat' = longer /\ UNCHANGED <<faults, stuck>>
       ELSE SendInstead(outcome, longer)
  /\ UNCHANGED <<stream, turn, entry, talk, status, deaths>>

(* An ordinary send that fails is the handler's failure.                   *)
SendPiece ==
  /\ phase = "send"
  /\ \E outcome \in Outcome :
       /\ Call(outcome) /\ chat' = Sent(Piece(piece), outcome)
       /\ IF outcome = "ok" THEN More("send")
          ELSE phase' = "raising" /\ UNCHANGED <<piece, preview, delivered>>
  /\ UNCHANGED <<stream, turn, entry, talk, status, deaths, stuck>>

(* activity.show: one status, sent and then edited; a failure is nothing.  *)
ShowCalls ==
  /\ phase = "after" /\ item.then = "tools"
  /\ phase' = "tools"
  /\ IF status # 0 THEN UNCHANGED <<status, chat, faults, stuck>>
     ELSE \E outcome \in Outcome :
            /\ Call(outcome)
            /\ chat' = Sent(Other("status"), outcome)
            /\ status' = IF outcome = "ok" THEN Len(chat) + 1 ELSE 0
            /\ stuck' = stuck \cup Untraced(outcome)
  /\ UNCHANGED <<stream, turn, entry, talk, piece, preview, delivered, deaths>>
TurnEnds ==
  /\ phase = "after" /\ item.then = "end"
  /\ phase' = "ending"
  /\ UNCHANGED <<stream, turn, entry, talk, piece, screen, chat, bounds, stuck>>

----------------------------------------------------------------------------
(* The tools ran.  Outbound media take the status away and go as an album, *)
(* or one by one when there is one or the album is refused.                *)
NextStep == phase' = "model" /\ item' = NoItem
ToolsRan ==
  /\ phase = "tools" /\ NextStep
  /\ UNCHANGED <<stream, completions, steerings, draft, produced, entry, talk, piece,
                 screen, chat, bounds, stuck>>
ToolsSend ==
  /\ phase = "tools"
  /\ Delete({status}) /\ status' = 0
  /\ phase' \in {"media", "single"}
  /\ UNCHANGED <<stream, turn, entry, talk, piece, preview, delivered, deaths>>
SendMedia ==
  /\ phase \in {"media", "single"}
  /\ \E outcome \in Outcome :
       /\ Call(outcome) /\ chat' = Sent(Other("media"), outcome)
       /\ IF outcome = "ok" THEN NextStep
          ELSE phase' = (IF phase = "media" THEN "single" ELSE "raising") /\ UNCHANGED item
  /\ UNCHANGED <<stream, completions, steerings, draft, produced, entry, talk, piece,
                 screen, deaths, stuck>>

----------------------------------------------------------------------------
(* Endings.                                                                *)

Fresh ==
  /\ Over
  /\ writing' = None /\ heard' = 0 /\ piece' = 1
  /\ preview' = NoPreview /\ status' = 0 /\ delivered' = {}

(* A TelegramError leaves the handler: the update is put back until it was *)
(* claimed too often.                                                      *)
PutBack ==
  IF deaths < MaxDeaths THEN phase' = "dead" /\ deaths' = deaths + 1
  ELSE phase' = "given up" /\ UNCHANGED deaths

(* Mutated: a preview that was held is taken for an answer.                *)
FinallyKeepingDraft ==
  /\ phase \in {"ending", "raising", "failing"}
  /\ Delete({status} \cup (IF preview.held THEN {} ELSE {preview.msg}))
  /\ Fresh
  /\ CASE phase = "ending" -> phase' = "answered" /\ UNCHANGED deaths
       [] phase = "failing" -> phase' = "sorry" /\ UNCHANGED deaths
       [] phase = "raising" -> PutBack
  /\ UNCHANGED <<turn, entry>>

(* The finally of _answer: whatever happened, status and preview go.       *)
Finally ==
  /\ phase \in {"ending", "raising", "failing"}
  /\ Delete({status, preview.msg})
  /\ Fresh
  /\ CASE phase = "ending" -> phase' = "answered" /\ UNCHANGED deaths
       [] phase = "failing" -> phase' = "sorry" /\ UNCHANGED deaths
       [] phase = "raising" -> PutBack
  /\ UNCHANGED <<turn, entry>>

(* handle_update: the person is told what failed, and the update is done.  *)
Apologise ==
  /\ phase = "sorry"
  /\ \E outcome \in Outcome :
       /\ Call(outcome) /\ chat' = Sent(Other("media"), outcome)
       /\ IF outcome = "ok" THEN phase' = "apologised" /\ UNCHANGED deaths ELSE PutBack
  /\ UNCHANGED <<stream, turn, entry, talk, piece, screen, stuck>>

(* The worker dies: what only it knew of is left in the chat.              *)
Die ==
  /\ phase \notin Resting \cup {"dead"} /\ deaths < MaxDeaths
  /\ phase' = "dead" /\ deaths' = deaths + 1
  /\ stuck' = stuck \cup ({status, preview.msg} \ {0})
  /\ Fresh
  /\ UNCHANGED <<turn, entry, chat, faults>>

(* The next worker takes the turn up.  A message whose step was saved but  *)
(* not checkpointed is reported again; a checkpointed one is not, and when *)
(* the turn was over the request begins another one, with this chat.       *)
Resume ==
  /\ phase = "dead"
  /\ \/ item.then = "model" /\ phase' = "model" /\ UNCHANGED turn
     \/ item.then # "model" /\ phase' = "deliver" /\ UNCHANGED turn
     \/ /\ item.then = "tools" /\ NextStep
        /\ UNCHANGED <<completions, steerings, draft, produced>>
     \/ item.then = "end" /\ phase' = "ending" /\ UNCHANGED turn
     \/ item.then = "end" /\ phase' = "begun anew" /\ UNCHANGED turn
  /\ UNCHANGED <<stream, entry, talk, piece, screen, chat, bounds, stuck>>

Rest == phase \in Resting /\ UNCHANGED vars

Next ==
  \/ BeginCompletion \/ Wire \/ AnswerBegins \/ Delta \/ Acts \/ Concludes \/ Steered \/ AddsNothing
  \/ RequestFails
  \/ DeliverText \/ DeliverNothing \/ EditFirst \/ AppendPiece \/ SendPiece
  \/ ShowCalls \/ TurnEnds \/ ToolsRan \/ ToolsSend \/ SendMedia
  \/ Finally \/ Apologise \/ Die \/ Resume \/ Rest

Spec == Init /\ [][Next]_vars

----------------------------------------------------------------------------
(* Properties.                                                             *)

(* Every piece of the text at place i can be read in the chat.             *)
Arrived(i) ==
  \A k \in 1..PiecesOf[produced[i]] : \E m \in DOMAIN chat :
    chat[m].kind = "piece" /\ chat[m].part = k /\ chat[m].of = i

(* A turn that ends as answered has put every text it committed in front   *)
(* of the person, whole, whatever Telegram refused on the way and whether  *)
(* or not it was previewed, withdrawn and taken back, or a repetition: a   *)
(* worker's death costs at most the one text it was delivering.            *)
DeliveredWhole ==
  phase = "answered" =>
    Cardinality({i \in DOMAIN produced :
      ~\E j \in DOMAIN produced : produced[j] = produced[i] /\ Arrived(j)}) <= deaths

(* When the handler is done, or dead, no status and no half answer is left *)
(* in the chat, except those Telegram would not delete, those it never     *)
(* named, and those a dead worker took with it (the finally of _answer).   *)
NothingLeftOver ==
  phase \in Resting \cup {"dead"} =>
    \A m \in DOMAIN chat : chat[m].kind \in {"status", "preview"} => m \in stuck

(* A text that has arrived stays as it is: no later preview, status,       *)
(* deletion or edit touches its messages.                                  *)
AnswersStay ==
  [][\A i \in DOMAIN produced :
       /\ Arrived(i)
       /\ i < Len(produced) \/ phase \notin {"edit", "append", "send"}
       => Arrived(i)']_vars

(* What the person watches being written is one attempt of the model: a    *)
(* request that let text out is never sent again.                          *)
OneVoice == Cardinality(voices) <= 1

(* No half of an answer: none is left in the chat, and none that was shown *)
(* was another attempt's.                                                  *)
NothingHalfLeft == NothingLeftOver /\ OneVoice

(* "An answer arriving twice, once truncated, is worse than one arriving   *)
(* once" (AnswerPreview.finish): with no worker dying and every failure a  *)
(* plain refusal, no piece of an answer is in the chat twice.              *)
ArrivesOnce ==
  phase = "answered" /\ deaths = 0 =>
    \A m, n \in DOMAIN chat : chat[m].kind = "piece" /\ chat[m] = chat[n] => m = n
=============================================================================
