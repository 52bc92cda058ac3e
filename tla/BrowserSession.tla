---------------------------- MODULE BrowserSession ----------------------------
(***************************************************************************)
(* A headless browser driven over one websocket (app/tools/chromium.py):   *)
(* CdpSession sends commands and reads replies and events in one loop that *)
(* runs only while a call is outstanding; BrowserSession above it shows    *)
(* the model a page with refs and acts on the elements they name.          *)
(*                                                                         *)
(* The browser executes commands in order, at its own time: a call that is *)
(* given up on is executed all the same, and its reply comes to whoever    *)
(* reads next.  The page lives its own life: it moves and hides elements,  *)
(* takes the focus elsewhere, asks for resources.  Its requests are        *)
(* intercepted (a session with a policy or a served directory).  A click   *)
(* is three commands (find the place, press, release), typing is two or    *)
(* three (focus, the Delete key, the text): all but the first go to        *)
(* whatever is in the place, or has the focus, when they are executed.     *)
(***************************************************************************)
EXTENDS Naturals, Sequences, FiniteSets, SequencesExt

CONSTANTS
  Element,     \* what a page may show (by document: <<doc, element>>)
  Request,     \* requests a page makes
  Served,      \* those answered from the session's directory
  Public,      \* those the policy lets out
  MaxCalls,    \* bound: commands sent, decisions about requests included
  MaxBehind,   \* bound: commands given up on the browser has before it at the next call
  MaxChanges,  \* bound: changes the page makes by itself
  MaxAttempts  \* polls of document.readyState (200 in the code)

ASSUME BrowserAssumption ==
  /\ Served \cup Public \subseteq Request /\ IsFiniteSet(Element)
  /\ {MaxCalls, MaxBehind, MaxChanges, MaxAttempts} \subseteq Nat

VARIABLES
  stage,       \* "launching", "open", "closed"
  process,     \* the browser's process runs
  doing,       \* the operation of the session, "idle" for none
  waiting,     \* [id, serial] of the outstanding command, or NoCall
  refs,        \* _refs: how many refs the session knows
  attempts,    \* polls of readyState of this navigation
  next_id,
  outbox,      \* commands on their way to the browser
  inbox,       \* replies and events on their way to the session
  doc, dom,    \* the page's document, and its elements in their places
  focus,       \* the element that was given the focus and has it, or Nothing
  known,       \* window.__agent_refs__: the element of each ref
  going,       \* the navigation under way: [id, serial, request], or NoCall
  paused,      \* requests held for a decision
  asked,       \* requests made so far
  changes,
  sent,        \* history: number of commands sent
  shown,       \* history: the element of each ref the model was last shown
  moved,       \* history: the page moved since a click's place was found
  refocused,   \* history: the focus went elsewhere since it was given
  lost,        \* history: a snapshot given up on may run, unseen by the model
  mixed,       \* history: a call took the reply to another's command
  hit          \* history: the act of the last command: on what, and what had changed

session == <<stage, process, doing, waiting, refs, attempts, next_id>>
wires == <<outbox, inbox>>
page == <<doc, dom, focus, known, going, paused, asked, changes>>
histories == <<sent, shown, moved, refocused, lost, mixed, hit>>
vars == <<session, wires, page, histories>>

Admitted == Served \cup Public
NoCall == [id |-> 0, serial |-> 0]
Nothing == <<0, "nothing">>
NoAct ==
  [by |-> "idle", meant |-> Nothing, element |-> Nothing, moved |-> FALSE, hidden |-> FALSE,
   lost |-> FALSE]
OnRef == {"select", "center", "focus"}   \* commands that name the element by its ref
Mouse == {"press", "release"}            \* ... that go to what is in a place
Keys == {"key", "text"}                  \* ... that go to what has the focus
Calls == {"navigate", "ready", "snapshot"} \cup OnRef \cup Mouse \cup Keys
Places(d) == {<<d, e>> : e \in Element}
Doms(d) == UNION {[1..n -> Places(d)] : n \in 0..Cardinality(Element)}
Layouts(d) == {layout \in Doms(d) : IsInjective(layout)}

Marks == Nat \X (Element \cup {Nothing[2]})
Commands ==
  [kind : Calls \cup {"decide"}, id : Nat, serial : Nat, ref : Nat, meant : Marks,
   request : Request \cup {0}]
Messages ==
  [kind : {"reply", "paused"}, id : Nat, serial : Nat,
   value : {"", "ok", "error", "loading", "complete", "found", "stale"},
   place : Nat, map : Seq(Marks), meant : Marks, request : Request \cup {0}]

Landings ==
  [by : Calls \cup {"idle"}, meant : Marks, element : Marks, moved : BOOLEAN,
   hidden : BOOLEAN, lost : BOOLEAN]

TypeOK ==
  /\ stage \in {"launching", "open", "closed"} /\ process \in BOOLEAN
  /\ doing \in Calls \cup {"idle"} /\ waiting \in [id : Nat, serial : Nat]
  /\ refs \in Nat /\ attempts \in 0..MaxAttempts /\ sent \in 0..MaxCalls /\ next_id \in Nat
  /\ outbox \in Seq(Commands) /\ inbox \in Seq(Messages)
  /\ doc \in Nat /\ dom \in Layouts(doc) /\ focus \in Marks
  /\ known \in Seq(Marks) /\ shown \in Seq(Marks)
  /\ going \in {NoCall} \cup [id : Nat, serial : Nat, request : Request, meant : Marks]
  /\ paused \in SUBSET Request /\ asked \in SUBSET Request /\ changes \in 0..MaxChanges
  /\ moved \in BOOLEAN /\ refocused \in BOOLEAN /\ lost \in BOOLEAN /\ mixed \in BOOLEAN
  /\ hit \in Landings

Init ==
  /\ stage = "launching" /\ process = TRUE /\ doing = "idle" /\ waiting = NoCall
  /\ refs = 0 /\ attempts = 0 /\ next_id = 1 /\ outbox = <<>> /\ inbox = <<>>
  /\ doc = 0 /\ dom = <<>> /\ focus = Nothing /\ known = <<>> /\ going = NoCall
  /\ paused = {} /\ asked = {} /\ changes = 0
  /\ sent = 0 /\ shown = <<>> /\ moved = TRUE /\ refocused = TRUE /\ lost = FALSE
  /\ mixed = FALSE /\ hit = NoAct

----------------------------------------------------------------------------
(* The browser's process: open_page.                                       *)
Ready ==
  /\ stage = "launching" /\ process /\ stage' = "open"
  /\ UNCHANGED <<process, doing, waiting, refs, attempts, next_id, wires, page, histories>>
Exits ==
  /\ process /\ process' = FALSE
  /\ UNCHANGED <<stage, doing, waiting, refs, attempts, next_id, wires, page, histories>>

(* No operation under way, none of its counts left.                        *)
Idle == doing' = "idle" /\ waiting' = NoCall /\ attempts' = 0

Gone ==
  /\ stage # "closed" /\ stage' = "closed" /\ Idle
  /\ outbox' = <<>> /\ inbox' = <<>> /\ paused' = {} /\ going' = NoCall
  /\ UNCHANGED <<refs, next_id, doc, dom, focus, known, asked, changes, histories>>

(* The end of open_page, whatever happened inside: the websocket and the   *)
(* page go with the process.                                               *)
Close == Gone /\ process' = FALSE

----------------------------------------------------------------------------
(* Commands.                                                               *)

Message(kind, ref, meant, request) ==
  [kind |-> kind, id |-> next_id, serial |-> sent + 1, ref |-> ref, meant |-> meant,
   request |-> request]
(* _take_id and the send.                                                  *)
Command(message) ==
  /\ outbox' = Append(outbox, message)
  /\ sent' = sent + 1 /\ next_id' = next_id + 1

(* Mutated: the id is not taken, it is the next call's as well.            *)
NotifyNextId(request) ==
  /\ outbox' = Append(outbox, Message("decide", 0, Nothing, request))
  /\ sent' = sent + 1 /\ next_id' = next_id
(* _notify: sent like any other, and nobody waits for its reply.           *)
Notify(request) == Command(Message("decide", 0, Nothing, request))

Call(kind, ref, meant) ==
  /\ sent < MaxCalls /\ Command(Message(kind, ref, meant, 0))
  /\ doing' = kind /\ waiting' = [id |-> next_id, serial |-> sent + 1]

Begin(kind, ref, meant) ==
  /\ stage = "open" /\ process /\ doing = "idle" /\ Len(outbox) <= MaxBehind
  /\ Call(kind, ref, meant)
  /\ UNCHANGED <<stage, process, refs, inbox, page, shown, moved, refocused, lost, mixed, hit>>

Navigate == Begin("navigate", 0, Nothing) /\ attempts' = 0
TakeSnapshot == Begin("snapshot", 0, Nothing) /\ UNCHANGED attempts
(* select, and the first command of click and of type: a ref the session   *)
(* does not know is refused without a command (_element).                  *)
Act(kind, ref) ==
  /\ kind \in OnRef /\ ref \in 1..refs
  /\ Begin(kind, ref, shown[ref]) /\ UNCHANGED attempts

(* The message that was waited for, and what the operation does with it.   *)
Took(m) ==
  /\ inbox' = Tail(inbox)
  /\ mixed' = (mixed \/ m.serial # waiting.serial) /\ hit' = NoAct
Loading(m) ==
  \/ /\ doing = "navigate" /\ m.value = "ok"
     /\ Call("ready", 0, Nothing) /\ UNCHANGED <<refs, shown, lost, attempts>>
  \/ /\ doing = "ready" /\ m.value = "loading" /\ attempts + 1 < MaxAttempts
     /\ Call("ready", 0, Nothing) /\ attempts' = attempts + 1 /\ UNCHANGED <<refs, shown, lost>>
  \/ /\ doing = "ready" /\ m.value = "loading" /\ attempts + 1 >= MaxAttempts
     /\ Idle /\ UNCHANGED <<outbox, next_id, sent, refs, shown, lost>>
  \/ /\ doing = "ready" /\ m.value = "complete"
     /\ Idle /\ refs' = 0 /\ shown' = <<>> /\ lost' = FALSE
     /\ UNCHANGED <<outbox, next_id, sent>>
(* What click and type send next, by what was answered last; clearing the  *)
(* field first is the caller's choice, and the text may be empty.          *)
Following(done) ==
  CASE done = "center" -> {"press"} [] done = "press" -> {"release"}
    [] done = "focus" -> {"key", "text"} [] done = "key" -> {"text"} [] OTHER -> {}
Ending == {"select", "release", "focus", "key", "text"}
Acting(m) ==
  \/ /\ doing = "snapshot"
     /\ Idle /\ refs' = Len(m.map) /\ shown' = m.map /\ lost' = FALSE
     /\ UNCHANGED <<outbox, next_id, sent>>
  \/ /\ m.value # "stale"
     /\ \E kind \in Following(doing) : Call(kind, m.place, m.meant)
     /\ UNCHANGED <<refs, shown, lost, attempts>>
  \/ /\ doing \in Ending \/ m.value \in {"error", "stale"}
     /\ Idle /\ UNCHANGED <<outbox, next_id, sent, refs, shown, lost>>
Reply ==
  /\ stage = "open" /\ waiting # NoCall /\ inbox # <<>>
  /\ LET m == Head(inbox) IN
       /\ m.kind = "reply" /\ m.id = waiting.id
       /\ Took(m) /\ (Loading(m) \/ Acting(m))
  /\ UNCHANGED <<stage, process, page, moved, refocused>>

(* _event: a paused request is decided; a reply nobody waits for is passed *)
(* over.                                                                   *)
PassOver ==
  /\ waiting # NoCall /\ inbox # <<>>
  /\ Head(inbox).kind = "reply" /\ Head(inbox).id # waiting.id
  /\ inbox' = Tail(inbox) /\ UNCHANGED <<session, outbox, page, histories>>

(* Mutated: what is not served is not answered.                            *)
DecideServed ==
  /\ waiting # NoCall /\ inbox # <<>> /\ Head(inbox).kind = "paused" /\ sent < MaxCalls
  /\ inbox' = Tail(inbox)
  /\ IF Head(inbox).request \in Admitted
     THEN Notify(Head(inbox).request) ELSE UNCHANGED <<outbox, sent, next_id>>
  /\ UNCHANGED <<stage, process, doing, waiting, refs, attempts, page, shown, moved, refocused, lost, mixed, hit>>

Decide ==
  /\ waiting # NoCall /\ inbox # <<>> /\ Head(inbox).kind = "paused" /\ sent < MaxCalls
  /\ inbox' = Tail(inbox)
  /\ Notify(Head(inbox).request)
  /\ UNCHANGED <<stage, process, doing, waiting, refs, attempts, page, shown, moved, refocused, lost, mixed, hit>>

(* Nothing came for the call's timeout, or the websocket closed: the       *)
(* operation fails, and its command is still out there.                    *)
GiveUp ==
  /\ stage = "open" /\ waiting # NoCall /\ (inbox = <<>> \/ ~process)
  /\ Idle /\ lost' = (lost \/ doing = "snapshot")
  /\ UNCHANGED <<stage, process, refs, next_id, wires, page>>
  /\ UNCHANGED <<sent, shown, moved, refocused, mixed, hit>>

----------------------------------------------------------------------------
(* The browser executes a command.                                         *)

Answer(c, value, place, map) ==
  [kind |-> "reply", id |-> c.id, serial |-> c.serial, value |-> value,
   place |-> place, map |-> map, meant |-> c.meant, request |-> 0]
Event(r) ==
  [kind |-> "paused", id |-> 0, serial |-> 0, value |-> "", place |-> 0, map |-> <<>>,
   meant |-> Nothing, request |-> r]
Present(layout, element) == \E i \in DOMAIN layout : layout[i] = element
PlaceOf(element) == CHOOSE i \in DOMAIN dom : dom[i] = element

(* Page.navigate: the document is a request like any other; the reply      *)
(* comes when the new document is there, or will not come.                 *)
ExecNavigate(c) ==
  /\ c.kind = "navigate"
  /\ \E r \in Request \ asked :
       /\ going' = [id |-> c.id, serial |-> c.serial, request |-> r, meant |-> Nothing]
       /\ asked' = asked \cup {r} /\ paused' = paused \cup {r}
       /\ inbox' = Append(inbox, Event(r))
  /\ hit' = NoAct /\ UNCHANGED <<doc, dom, focus, known, changes, moved, refocused>>
(* A decision is acknowledged; one about the document also settles the     *)
(* navigation, and the new document has no refs and no focus.              *)
ExecDecide(c) ==
  /\ c.kind = "decide"
  /\ paused' = paused \ {c.request}
  /\ LET settles == going # NoCall /\ going.request = c.request
         there == settles /\ c.request \in Admitted
         news == IF ~settles THEN <<>>
                 ELSE <<Answer(going, IF there THEN "ok" ELSE "error", 0, <<>>)>>
     IN
       /\ inbox' = inbox \o <<Answer(c, "ok", 0, <<>>)>> \o news
       /\ going' = IF settles THEN NoCall ELSE going
       /\ known' = IF there THEN <<>> ELSE known
       /\ focus' = IF there THEN Nothing ELSE focus
       /\ moved' = (there \/ moved) /\ refocused' = (there \/ refocused)
       /\ doc' = IF there THEN doc + 1 ELSE doc
       /\ dom' \in IF there THEN Layouts(doc + 1) ELSE {dom}
  /\ hit' = NoAct /\ UNCHANGED <<asked, changes>>
ExecReady(c) ==
  /\ c.kind = "ready"
  /\ \E value \in {"loading"} \cup IF paused = {} THEN {"complete"} ELSE {} :
       inbox' = Append(inbox, Answer(c, value, 0, <<>>))
  /\ hit' = NoAct /\ UNCHANGED <<page, moved, refocused>>
ExecSnapshot(c) ==
  /\ c.kind = "snapshot"
  /\ known' = dom /\ inbox' = Append(inbox, Answer(c, "ok", 0, dom))
  /\ hit' = NoAct /\ UNCHANGED <<doc, dom, focus, going, paused, asked, changes, moved, refocused>>

(* The element of a ref: as the page kept it, if it is still there.        *)
Found(ref) == ref \in DOMAIN known /\ Present(dom, known[ref])

Hit(c, element, aside, hidden) ==
  hit' = [by |-> c.kind, meant |-> c.meant, element |-> element, moved |-> aside,
          hidden |-> hidden, lost |-> lost]

(* Not there, without a size, not a select, no such option, or it cannot   *)
(* take the focus.                                                         *)
ExecRefuse(c) ==
  /\ c.kind \in OnRef
  /\ inbox' = Append(inbox, Answer(c, "stale", 0, <<>>))
  /\ hit' = NoAct /\ UNCHANGED <<page, moved, refocused>>
(* select looks the element up and chooses, in one command.                *)
ExecSelect(c) ==
  /\ c.kind = "select" /\ Found(c.ref)
  /\ inbox' = Append(inbox, Answer(c, "found", 0, <<>>))
  /\ Hit(c, known[c.ref], FALSE, FALSE)
  /\ UNCHANGED <<page, moved, refocused>>
(* Mutated: the element is looked up where it stood in the snapshot.       *)
ExecCenterByRef(c) ==
  /\ c.kind = "center" /\ c.ref \in DOMAIN known /\ c.ref \in DOMAIN dom
  /\ inbox' = Append(inbox, Answer(c, "found", c.ref, <<>>))
  /\ moved' = FALSE /\ hit' = NoAct /\ UNCHANGED <<page, refocused>>
(* _center: where the element is, by its own place.                        *)
ExecCenter(c) ==
  /\ c.kind = "center" /\ Found(c.ref)
  /\ inbox' = Append(inbox, Answer(c, "found", PlaceOf(known[c.ref]), <<>>))
  /\ moved' = FALSE /\ hit' = NoAct /\ UNCHANGED <<page, refocused>>
ExecFocus(c) ==
  /\ c.kind = "focus" /\ Found(c.ref)
  /\ inbox' = Append(inbox, Answer(c, "found", 0, <<>>))
  /\ focus' = known[c.ref] /\ refocused' = FALSE /\ hit' = NoAct
  /\ UNCHANGED <<doc, dom, known, going, paused, asked, changes, moved>>

(* The mouse is pressed, and released, over whatever is on top in the place *)
(* by then: the element there, or something that hides it.                 *)
Topmost(place, hidden) ==
  IF place \in DOMAIN dom /\ ~hidden THEN {dom[place]}
  ELSE {Nothing} \cup {dom[i] : i \in DOMAIN dom \ {place}}
ExecMouse(c) ==
  /\ c.kind \in Mouse
  /\ \E hidden \in BOOLEAN : \E element \in Topmost(c.ref, hidden) : Hit(c, element, moved, hidden)
  /\ inbox' = Append(inbox, Answer(c, "ok", c.ref, <<>>))
  /\ UNCHANGED <<page, moved, refocused>>
(* A key (down and up) and a text go to what has the focus by then.        *)
ExecKeys(c) ==
  /\ c.kind \in Keys
  /\ Hit(c, focus, refocused, FALSE)
  /\ inbox' = Append(inbox, Answer(c, "ok", 0, <<>>))
  /\ UNCHANGED <<page, moved, refocused>>

Execute ==
  /\ process /\ outbox # <<>> /\ outbox' = Tail(outbox)
  /\ LET c == Head(outbox) IN
       \/ ExecNavigate(c) \/ ExecDecide(c) \/ ExecReady(c) \/ ExecSnapshot(c)
       \/ ExecRefuse(c) \/ ExecSelect(c) \/ ExecCenter(c) \/ ExecFocus(c)
       \/ ExecMouse(c) \/ ExecKeys(c)
  /\ UNCHANGED <<session, sent, shown, lost, mixed>>

(* The page: a script (a handler of a press or a key among them) moves,    *)
(* adds or removes elements, puts the focus elsewhere, or asks for         *)
(* something.                                                              *)
Changes ==
  /\ process /\ changes < MaxChanges /\ changes' = changes + 1
  /\ dom' \in Layouts(doc) \ {dom} /\ moved' = TRUE
  /\ \/ Present(dom', focus) /\ UNCHANGED <<focus, refocused>>
     \/ ~Present(dom', focus) /\ focus' = Nothing /\ refocused' = TRUE
  /\ UNCHANGED <<session, wires, doc, known, going, paused, asked, sent, shown, lost, mixed, hit>>
Refocuses ==
  /\ process /\ changes < MaxChanges /\ changes' = changes + 1
  /\ focus # Nothing /\ focus' \in ({Nothing} \cup Range(dom)) \ {focus} /\ refocused' = TRUE
  /\ UNCHANGED <<session, wires, doc, dom, known, going, paused, asked>>
  /\ UNCHANGED <<sent, shown, moved, lost, mixed, hit>>
Asks ==
  /\ process /\ stage = "open"
  /\ \E r \in Request \ asked :
       /\ asked' = asked \cup {r} /\ paused' = paused \cup {r}
       /\ inbox' = Append(inbox, Event(r))
  /\ UNCHANGED <<session, outbox, doc, dom, focus, known, going, changes, histories>>

Next ==
  \/ Ready \/ Exits \/ Close \/ Navigate \/ TakeSnapshot
  \/ \E kind \in OnRef, ref \in 1..Cardinality(Element) : Act(kind, ref)
  \/ Reply \/ PassOver \/ Decide \/ GiveUp \/ Execute \/ Changes \/ Refocuses \/ Asks

Spec == Init /\ [][Next]_vars

----------------------------------------------------------------------------
(* Properties                                                              *)

(* A call returns the reply to its own command: the id of a decision sent  *)
(* inside the loop, or of a call given up on, is never another call's.     *)
OwnReply == ~mixed

(* A request the browser holds has exactly one decision on its way: its    *)
(* event unread, or the command that lets it through or fails it unsent to *)
(* the page; and there is no decision about a request not held.            *)
Events(r) == {i \in DOMAIN inbox : inbox[i].kind = "paused" /\ inbox[i].request = r}
Decisions(r) == {i \in DOMAIN outbox : outbox[i].kind = "decide" /\ outbox[i].request = r}
EveryRequestDecided ==
  \A r \in Request :
    Cardinality(Events(r)) + Cardinality(Decisions(r)) = IF r \in paused THEN 1 ELSE 0

(* An act lands on the element the model was shown under the ref.  The     *)
(* exceptions are the code's own, each of its kind: the mouse misses if    *)
(* the page moved since the place was found, or if something lay on top of *)
(* the element there; what is typed misses if the focus went elsewhere     *)
(* since it was given (by the page, or with the element or the document);  *)
(* an option is chosen on the very element, always.  And behind a snapshot *)
(* given up on, which renumbers the refs unseen, any act may miss.         *)
ActsOnShown ==
  hit.element # hit.meant /\ ~hit.lost =>
    \/ hit.by \in Mouse /\ (hit.moved \/ hit.hidden)
    \/ hit.by \in Keys /\ hit.moved
=============================================================================
