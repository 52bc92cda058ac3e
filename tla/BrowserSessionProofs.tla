------------------------- MODULE BrowserSessionProofs -------------------------
(***************************************************************************)
(* Theorems of BrowserSession, for any page, requests, policy and bounds.  *)
(***************************************************************************)
EXTENDS BrowserSession, SequenceTheorems, FiniteSetTheorems, TLAPS

----------------------------------------------------------------------------
(* The inductive invariants.                                               *)

(* Every command has a number of its own, its id, and the reply to it      *)
(* carries the same.                                                       *)
Replies == {i \in DOMAIN inbox : inbox[i].kind = "reply"}
Pressing == {i \in DOMAIN outbox : outbox[i].kind \in Mouse}
Typing == {i \in DOMAIN outbox : outbox[i].kind \in Keys}
Acts == {i \in DOMAIN outbox : outbox[i].kind \in OnRef}
Numbered ==
  /\ next_id = sent + 1
  /\ \A i \in DOMAIN outbox : outbox[i].id = outbox[i].serial /\ outbox[i].serial \in 1..sent
  /\ \A i \in Replies : inbox[i].id = inbox[i].serial /\ inbox[i].serial \in 1..sent
  /\ waiting.id = waiting.serial /\ waiting.serial <= sent
  /\ waiting = NoCall <=> doing = "idle"
  /\ going # NoCall => going.id = going.serial /\ going.serial \in 1..sent

(* Commands are executed in the order of their numbers, and the outstanding *)
(* call's is the newest that is not a decision.                            *)
Ordered ==
  /\ \A i, j \in DOMAIN outbox : i < j => outbox[i].serial < outbox[j].serial
  /\ \A i \in Replies, j \in DOMAIN outbox : inbox[i].serial < outbox[j].serial
  /\ \A j \in DOMAIN outbox : going # NoCall => going.serial < outbox[j].serial
  /\ \A i \in DOMAIN outbox :
       /\ waiting # NoCall /\ outbox[i].kind # "decide" => outbox[i].serial <= waiting.serial
       /\ outbox[i].serial = waiting.serial => outbox[i].kind = doing
  /\ going # NoCall /\ going.serial = waiting.serial => doing = "navigate"

(* A request is held because its event or the decision about it is on its  *)
(* way, once.                                                              *)
IsEvent(i, r) == i \in DOMAIN inbox /\ inbox[i].kind = "paused" /\ inbox[i].request = r
IsDecision(i, r) == i \in DOMAIN outbox /\ outbox[i].kind = "decide" /\ outbox[i].request = r
Decided ==
  /\ paused \subseteq asked
  /\ \A i \in DOMAIN inbox : inbox[i].kind = "paused" => inbox[i].request \in paused
  /\ \A i \in DOMAIN outbox : outbox[i].kind = "decide" => outbox[i].request \in paused
  /\ \A r \in paused : (\E i \in DOMAIN inbox : IsEvent(i, r)) \/ (\E i \in DOMAIN outbox : IsDecision(i, r))
  /\ \A r \in Request : \A i, j \in DOMAIN inbox : IsEvent(i, r) /\ IsEvent(j, r) => i = j
  /\ \A r \in Request : \A i, j \in DOMAIN outbox : IsDecision(i, r) /\ IsDecision(j, r) => i = j
  /\ \A r \in Request : \A i \in DOMAIN inbox, j \in DOMAIN outbox : ~(IsEvent(i, r) /\ IsDecision(j, r))

(* The refs mean in the page what they mean to the session, and a command  *)
(* on its way was meant so, unless a snapshot went by unseen.              *)
Awaited(i) == i \in Replies /\ inbox[i].serial = waiting.serial
Understood ==
  /\ Len(shown) = refs
  /\ stage # "closed" /\ ~lost /\ doing # "snapshot" =>
       \A r \in DOMAIN shown : r \in DOMAIN known => known[r] = shown[r]
  /\ ~lost => \A i \in DOMAIN outbox :
       outbox[i].kind = "snapshot" => waiting # NoCall /\ outbox[i].serial = waiting.serial
  /\ ~lost => \A i \in Acts :
       outbox[i].ref \in DOMAIN known => known[outbox[i].ref] = outbox[i].meant
  /\ \A i \in Replies : Awaited(i) /\ doing = "snapshot" =>
       inbox[i].value = "ok" /\ (known = inbox[i].map \/ known = <<>>)

(* The place a click was found in still has its element, unless the page   *)
(* moved, and the focus given for typing is still there, unless it went    *)
(* elsewhere; nothing but decisions goes before a press or a key.          *)
At(layout, place, element) == place \in DOMAIN layout /\ layout[place] = element
Second(i) == Awaited(i) /\ inbox[i].value # "stale"
InPlace ==
  /\ \A j \in Pressing \cup Typing : \A i \in 1..(j - 1) : outbox[i].kind = "decide"
  /\ ~lost /\ ~moved => \A j \in Pressing : At(dom, outbox[j].ref, outbox[j].meant)
  /\ ~lost /\ ~moved => \A i \in Replies :
       Second(i) /\ doing \in {"center", "press"} => At(dom, inbox[i].place, inbox[i].meant)
  /\ ~lost /\ ~refocused => \A j \in Typing : focus = outbox[j].meant
  /\ ~lost /\ ~refocused => \A i \in Replies :
       Second(i) /\ doing \in {"focus", "key"} => focus = inbox[i].meant

----------------------------------------------------------------------------
(* Sequences that get longer at one end and shorter at the other.          *)

LEMMA Longer ==
  ASSUME NEW S, NEW s \in Seq(S), NEW x \in S
  PROVE  /\ Append(s, x) \in Seq(S)
         /\ DOMAIN s = 1..Len(s) /\ Len(s) \in Nat /\ DOMAIN Append(s, x) = 1..(Len(s) + 1)
         /\ Append(s, x)[Len(s) + 1] = x
         /\ \A i \in DOMAIN s : Append(s, x)[i] = s[i]
  OBVIOUS

LEMMA Shorter ==
  ASSUME NEW S, NEW s \in Seq(S), s # <<>>
  PROVE  /\ Tail(s) \in Seq(S)
         /\ Head(s) = s[1] /\ s[1] \in S
         /\ DOMAIN s = 1..Len(s) /\ Len(s) \in Nat \ {0} /\ DOMAIN Tail(s) = 1..(Len(s) - 1)
         /\ \A i \in DOMAIN Tail(s) : Tail(s)[i] = s[i + 1]
  BY HeadTailProperties, EmptySeq

----------------------------------------------------------------------------
(* Types.                                                                  *)

LEMMA LayoutsAreMarks == \A d \in Nat : Layouts(d) \subseteq Seq(Marks)
<1> SUFFICES ASSUME NEW d \in Nat, NEW n \in 0..Cardinality(Element), NEW s \in [1..n -> Places(d)]
             PROVE  s \in Seq(Marks)
    BY DEF Layouts, Doms
<1>1. n \in Nat
    BY FS_CardinalityType, BrowserAssumption DEF BrowserAssumption
<1>2. Places(d) \subseteq Marks
    BY DEF Places, Marks
<1> QED
    BY <1>1, <1>2

LEMMA DomTyped == TypeOK => dom \in Seq(Marks)
  BY LayoutsAreMarks DEF TypeOK

LEMMA NothingIsAMark == Nothing \in Marks
  BY DEF Nothing, Marks

LEMMA NoAttempts == 0 \in 0..MaxAttempts
  BY BrowserAssumption DEF BrowserAssumption

LEMMA NoActTyped == NoAct \in Landings
  BY NothingIsAMark DEF NoAct, Landings

LEMMA HitTyped ==
  ASSUME NEW c, c.kind \in Calls, c.meant \in Marks, NEW element \in Marks,
         NEW aside \in BOOLEAN, NEW hidden \in BOOLEAN, lost \in BOOLEAN, Hit(c, element, aside, hidden)
  PROVE  hit' \in Landings
  BY DEF Hit, Landings

LEMMA FollowingCalls == \A done : Following(done) \subseteq Calls
  BY DEF Following, Calls, Mouse, Keys

LEMMA MessageTyped ==
  ASSUME TypeOK, NEW kind \in Calls \cup {"decide"}, NEW ref \in Nat, NEW meant \in Marks,
         NEW r \in Request \cup {0}
  PROVE  Message(kind, ref, meant, r) \in Commands
  BY DEF TypeOK, Message, Commands

LEMMA AnswerTyped ==
  ASSUME NEW c, c.id \in Nat, c.serial \in Nat, c.meant \in Marks,
         NEW value \in {"ok", "error", "loading", "complete", "found", "stale"},
         NEW place \in Nat, NEW map \in Seq(Marks)
  PROVE  Answer(c, value, place, map) \in Messages
  BY DEF Answer, Messages

LEMMA EventTyped == \A r \in Request : Event(r) \in Messages
  BY NothingIsAMark, EmptySeq DEF Event, Messages

(* What sending a command leaves behind.                                   *)
LEMMA CallTyped ==
  ASSUME TypeOK, NEW kind \in Calls, NEW ref \in Nat, NEW meant \in Marks, Call(kind, ref, meant)
  PROVE  /\ outbox' \in Seq(Commands) /\ sent' \in 0..MaxCalls /\ next_id' \in Nat
         /\ doing' \in Calls /\ waiting' \in [id : Nat, serial : Nat]
<1>1. Message(kind, ref, meant, 0) \in Commands
    BY MessageTyped
<1>2. outbox' \in Seq(Commands)
    BY <1>1, Longer DEF TypeOK, Call, Command
<1> QED
    BY <1>2, BrowserAssumption, SMTT(30) DEF BrowserAssumption, TypeOK, Call, Command

LEMMA BeginTyped ==
  ASSUME TypeOK, NEW kind \in Calls, NEW ref \in Nat, NEW meant \in Marks, Begin(kind, ref, meant),
         attempts' \in 0..MaxAttempts
  PROVE  TypeOK'
  BY CallTyped DEF Begin, TypeOK, page

LEMMA StepTypes == TypeOK /\ Decided /\ Understood /\ [Next]_vars => TypeOK'
<1> SUFFICES ASSUME TypeOK, Decided, Understood, [Next]_vars PROVE TypeOK'
    OBVIOUS
<1> USE BrowserAssumption DEF BrowserAssumption, session, wires, page, histories
<1>1. ASSUME Ready PROVE TypeOK'
    BY <1>1 DEF Ready, TypeOK
<1>2. ASSUME Exits PROVE TypeOK'
    BY <1>2 DEF Exits, TypeOK
<1>3. ASSUME Close PROVE TypeOK'
    BY <1>3, EmptySeq, NoAttempts DEF Close, Gone, Idle, TypeOK, NoCall
<1>4. ASSUME Navigate PROVE TypeOK'
    <2>1. Begin("navigate", 0, Nothing) /\ attempts' \in 0..MaxAttempts
        BY <1>4 DEF Navigate
    <2> QED
        BY <2>1, BeginTyped, NothingIsAMark DEF Calls
<1>5. ASSUME TakeSnapshot PROVE TypeOK'
    <2>1. Begin("snapshot", 0, Nothing) /\ attempts' \in 0..MaxAttempts
        BY <1>5 DEF TakeSnapshot, TypeOK
    <2> QED
        BY <2>1, BeginTyped, NothingIsAMark DEF Calls
<1>6. ASSUME NEW kind \in OnRef, NEW ref \in 1..Cardinality(Element), Act(kind, ref)
      PROVE TypeOK'
    <2>1. ref \in Nat /\ shown[ref] \in Marks
        BY <1>6, LenProperties, SMTT(30) DEF Act, TypeOK, Understood
    <2>2. Begin(kind, ref, shown[ref]) /\ attempts' \in 0..MaxAttempts
        BY <1>6 DEF Act, TypeOK
    <2> QED
        BY <2>1, <2>2, BeginTyped DEF Calls
<1>7. ASSUME Reply PROVE TypeOK'
    <2> DEFINE m == Head(inbox)
    <2>1. m \in Messages /\ inbox' \in Seq(Messages) /\ mixed' \in BOOLEAN /\ hit' \in Landings
        <3>1. inbox \in Seq(Messages) /\ inbox # <<>> /\ inbox' = Tail(inbox) /\ mixed' \in BOOLEAN /\ hit' = NoAct
            BY <1>7 DEF Reply, Took, TypeOK
        <3>2. m \in Messages /\ inbox' \in Seq(Messages)
            BY <3>1, Shorter
        <3> QED
            BY <3>1, <3>2, NoActTyped
    <2>2. /\ refs' \in Nat /\ attempts' \in 0..MaxAttempts /\ shown' \in Seq(Marks) /\ lost' \in BOOLEAN
          /\ outbox' \in Seq(Commands) /\ sent' \in 0..MaxCalls /\ next_id' \in Nat
          /\ doing' \in Calls \cup {"idle"} /\ waiting' \in [id : Nat, serial : Nat]
        <3>1. CASE Loading(m)
            <4>1. ASSUME Call("ready", 0, Nothing), UNCHANGED <<refs, shown, lost>>, attempts' \in 0..MaxAttempts
                  PROVE  <2>2
                BY <4>1, CallTyped, NothingIsAMark DEF TypeOK, Calls
            <4>2. ASSUME Idle, UNCHANGED <<outbox, next_id, sent>>,
                         refs' \in Nat, shown' \in Seq(Marks), lost' \in BOOLEAN
                  PROVE  <2>2
                BY <4>2, NoAttempts DEF TypeOK, Idle, NoCall
            <4>3. ASSUME refs' = 0, shown' = <<>>, lost' = FALSE
                  PROVE  refs' \in Nat /\ shown' \in Seq(Marks) /\ lost' \in BOOLEAN
                BY <4>3, EmptySeq
            <4>4. ASSUME attempts + 1 < MaxAttempts, attempts' = attempts + 1
                  PROVE  attempts' \in 0..MaxAttempts
                BY <4>4, SMTT(30) DEF TypeOK
            <4>5. refs \in Nat /\ shown \in Seq(Marks) /\ lost \in BOOLEAN /\ attempts \in 0..MaxAttempts
                BY DEF TypeOK
            <4> QED
                BY <3>1, <4>1, <4>2, <4>3, <4>4, <4>5 DEF Loading
        <3>2. CASE Acting(m)
            <4>1. ASSUME doing = "snapshot", Idle, refs' = Len(m.map), shown' = m.map, lost' = FALSE,
                         UNCHANGED <<outbox, next_id, sent>>
                  PROVE  <2>2
                BY <2>1, <4>1, EmptySeq, LenProperties, NoAttempts DEF TypeOK, Idle, NoCall, Messages
            <4>2. ASSUME NEW kind \in Calls, Call(kind, m.place, m.meant), UNCHANGED <<refs, shown, lost, attempts>>
                  PROVE  <2>2
                BY <2>1, <4>2, CallTyped DEF TypeOK, Messages
            <4>3. ASSUME Idle, UNCHANGED <<outbox, next_id, sent, refs, shown, lost>>
                  PROVE  <2>2
                BY <4>3, NoAttempts DEF TypeOK, Idle, NoCall
            <4> QED
                BY <3>2, <4>1, <4>2, <4>3, FollowingCalls DEF Acting
        <3> QED
            BY <1>7, <3>1, <3>2 DEF Reply
    <2> QED
        BY <1>7, <2>1, <2>2 DEF Reply, TypeOK
<1>8. ASSUME PassOver PROVE TypeOK'
    BY <1>8, Shorter DEF PassOver, TypeOK
<1>9. ASSUME Decide PROVE TypeOK'
    <2>0. Head(inbox).request \in Request
        BY <1>9, Shorter, SMTT(30) DEF Decide, Decided, TypeOK
    <2>1. Message("decide", 0, Nothing, Head(inbox).request) \in Commands
        BY <2>0, MessageTyped, NothingIsAMark
    <2>2. outbox' \in Seq(Commands) /\ inbox' \in Seq(Messages)
        BY <1>9, <2>1, Longer, Shorter DEF Decide, Notify, Command, TypeOK
    <2>3. sent' \in 0..MaxCalls /\ next_id' \in Nat
        BY <1>9, SMTT(30) DEF Decide, Notify, Command, TypeOK
    <2> QED
        BY <1>9, <2>2, <2>3 DEF Decide, TypeOK
<1>10. ASSUME GiveUp PROVE TypeOK'
    BY <1>10, NoAttempts DEF GiveUp, Idle, TypeOK, NoCall
<1>11. ASSUME Execute PROVE TypeOK'
    <2> DEFINE c == Head(outbox)
    <2>1. c \in Commands /\ outbox' \in Seq(Commands)
        BY <1>11, Shorter DEF Execute, TypeOK
    <2>2. c.id \in Nat /\ c.serial \in Nat /\ c.meant \in Marks /\ c.ref \in Nat
        BY <2>1 DEF Commands
    <2>no. hit' = NoAct => hit' \in Landings
        BY NoActTyped
    <2>reply. ASSUME NEW value \in {"ok", "error", "loading", "complete", "found", "stale"}, NEW place \in Nat,
                     inbox' = Append(inbox, Answer(c, value, place, <<>>))
              PROVE  inbox' \in Seq(Messages)
        BY <2>reply, <2>2, AnswerTyped, EmptySeq, Longer DEF TypeOK
    <2>known. Found(c.ref) => known[c.ref] \in Marks
        BY LenProperties, SMTT(30) DEF TypeOK, Found
    <2>3. CASE ExecNavigate(c)
        <3>1. inbox' \in Seq(Messages)
            BY <2>3, EventTyped, Longer DEF ExecNavigate, TypeOK
        <3>2. going' \in {NoCall} \cup [id : Nat, serial : Nat, request : Request, meant : Marks]
            BY <2>3, <2>2, NothingIsAMark DEF ExecNavigate, TypeOK
        <3> QED
            BY <1>11, <2>1, <2>3, <2>no, <3>1, <3>2 DEF Execute, ExecNavigate, TypeOK
    <2>4. CASE ExecDecide(c)
        <3>1. Answer(c, "ok", 0, <<>>) \in Messages
            BY <2>2, AnswerTyped, EmptySeq
        <3>2. ASSUME going # NoCall, NEW value \in {"ok", "error"} PROVE Answer(going, value, 0, <<>>) \in Messages
            <4>1. going \in [id : Nat, serial : Nat, request : Request, meant : Marks]
                BY <3>2 DEF TypeOK
            <4> QED
                BY <4>1, AnswerTyped, EmptySeq
        <3>3. inbox' \in Seq(Messages)
            <4>1. <<Answer(c, "ok", 0, <<>>)>> \in Seq(Messages)
                BY <3>1
            <4>2. \/ inbox' = inbox \o <<Answer(c, "ok", 0, <<>>)>> \o <<>>
                  \/ going # NoCall /\ \E value \in {"ok", "error"} :
                       inbox' = inbox \o <<Answer(c, "ok", 0, <<>>)>> \o <<Answer(going, value, 0, <<>>)>>
                BY <2>4 DEF ExecDecide
            <4>3. \A value \in {"ok", "error"} : going # NoCall => <<Answer(going, value, 0, <<>>)>> \in Seq(Messages)
                BY <3>2
            <4>4. inbox \o <<Answer(c, "ok", 0, <<>>)>> \in Seq(Messages)
                BY <4>1, ConcatProperties DEF TypeOK
            <4>5. \A s \in Seq(Messages) : inbox \o <<Answer(c, "ok", 0, <<>>)>> \o s \in Seq(Messages)
                BY <4>4, ConcatProperties
            <4>6. <<>> \in Seq(Messages)
                BY EmptySeq
            <4> QED
                BY <4>2, <4>3, <4>5, <4>6
        <3>4. doc' \in Nat /\ dom' \in Layouts(doc')
            BY <2>4, SMTT(30) DEF ExecDecide, TypeOK
        <3>5. focus' \in Marks /\ moved' \in BOOLEAN /\ refocused' \in BOOLEAN
            BY <2>4, NothingIsAMark DEF ExecDecide, TypeOK
        <3> QED
            BY <1>11, <2>1, <2>4, <2>no, <3>3, <3>4, <3>5, EmptySeq DEF Execute, ExecDecide, TypeOK
    <2>5. CASE ExecReady(c)
        <3>1. PICK value \in {"loading", "complete"} : inbox' = Append(inbox, Answer(c, value, 0, <<>>))
            BY <2>5 DEF ExecReady
        <3> QED
            BY <1>11, <2>1, <2>5, <2>no, <2>reply, <3>1 DEF Execute, ExecReady, TypeOK
    <2>6. CASE ExecSnapshot(c)
        <3>1. inbox' \in Seq(Messages)
            BY <2>6, <2>2, AnswerTyped, DomTyped, Longer DEF ExecSnapshot, TypeOK
        <3> QED
            BY <1>11, <2>1, <2>6, <2>no, <3>1, DomTyped DEF Execute, ExecSnapshot, TypeOK
    <2>7. CASE ExecRefuse(c)
        BY <1>11, <2>1, <2>7, <2>no, <2>reply DEF Execute, ExecRefuse, TypeOK
    <2>8. CASE ExecSelect(c)
        <3>1. hit' \in Landings
            <4>1. c.kind \in Calls /\ Hit(c, known[c.ref], FALSE, FALSE) /\ known[c.ref] \in Marks
                BY <2>8, <2>known DEF ExecSelect, Calls, OnRef
            <4> QED
                BY <2>2, <4>1, HitTyped DEF TypeOK
        <3> QED
            BY <1>11, <2>1, <2>8, <2>reply, <3>1 DEF Execute, ExecSelect, TypeOK
    <2>9. CASE ExecCenter(c)
        <3>1. PlaceOf(known[c.ref]) \in Nat
            BY <2>9, DomTyped, LenProperties DEF ExecCenter, Found, Present, PlaceOf
        <3> QED
            BY <1>11, <2>1, <2>9, <2>no, <2>reply, <3>1 DEF Execute, ExecCenter, TypeOK
    <2>10. CASE ExecFocus(c)
        BY <1>11, <2>1, <2>10, <2>no, <2>known, <2>reply DEF Execute, ExecFocus, TypeOK
    <2>11. CASE ExecMouse(c)
        <3>1. PICK hidden \in BOOLEAN : \E element \in Topmost(c.ref, hidden) : Hit(c, element, moved, hidden)
            BY <2>11 DEF ExecMouse
        <3>0. PICK element \in Topmost(c.ref, hidden) : Hit(c, element, moved, hidden)
            BY <3>1
        <3>2. element \in Marks
            <4>1. \A i \in DOMAIN dom : dom[i] \in Marks
                BY DomTyped, LenProperties
            <4> QED
                BY <3>0, <4>1, NothingIsAMark DEF Topmost
        <3>3. hit' \in Landings
            <4>1. c.kind \in Calls /\ c.meant \in Marks
                BY <2>2, <2>11 DEF ExecMouse, Calls
            <4>2. moved \in BOOLEAN /\ lost \in BOOLEAN /\ hidden \in BOOLEAN
                BY <3>1 DEF TypeOK
            <4> QED
                BY <3>0, <3>2, <4>1, <4>2, HitTyped, Zenon
        <3> QED
            BY <1>11, <2>1, <2>2, <2>11, <2>reply, <3>3 DEF Execute, ExecMouse, TypeOK
    <2>12. CASE ExecKeys(c)
        <3>1. hit' \in Landings
            <4>1. c.kind \in Calls /\ c.meant \in Marks /\ Hit(c, focus, refocused, FALSE)
                BY <2>2, <2>12 DEF ExecKeys, Calls
            <4>2. refocused \in BOOLEAN /\ lost \in BOOLEAN /\ FALSE \in BOOLEAN /\ focus \in Marks
                BY DEF TypeOK
            <4> QED
                BY <4>1, <4>2, HitTyped, Zenon
        <3> QED
            BY <1>11, <2>1, <2>12, <2>reply, <3>1 DEF Execute, ExecKeys, TypeOK
    <2> QED
        BY <1>11, <2>3, <2>4, <2>5, <2>6, <2>7, <2>8, <2>9, <2>10, <2>11, <2>12 DEF Execute
<1>12. ASSUME Changes PROVE TypeOK'
    <2>1. focus' \in Marks /\ refocused' \in BOOLEAN
        BY <1>12, NothingIsAMark DEF Changes, TypeOK
    <2> QED
        BY <1>12, <2>1, SMTT(30) DEF Changes, TypeOK
<1>13. ASSUME Asks PROVE TypeOK'
    <2>1. inbox' \in Seq(Messages)
        BY <1>13, EventTyped, Longer DEF Asks, TypeOK
    <2> QED
        BY <1>13, <2>1 DEF Asks, TypeOK
<1>14. CASE UNCHANGED vars
    BY <1>14 DEF vars, TypeOK
<1>15. ASSUME Refocuses PROVE TypeOK'
    <2>1. \A i \in DOMAIN dom : dom[i] \in Marks
        BY DomTyped, LenProperties
    <2>2. focus' \in Marks
        BY <1>15, <2>1, NothingIsAMark DEF Refocuses, Range
    <2> QED
        BY <1>15, <2>2, SMTT(30) DEF Refocuses, TypeOK
<1> QED
    BY <1>1, <1>2, <1>3, <1>4, <1>5, <1>6, <1>7, <1>8, <1>9, <1>10, <1>11, <1>12, <1>13, <1>14, <1>15 DEF Next

----------------------------------------------------------------------------
(* What the actions do to the wires, by position.                          *)

Grows(s, t, x) ==
  /\ Len(s) \in Nat /\ DOMAIN s = 1..Len(s) /\ DOMAIN t = 1..(Len(s) + 1)
  /\ t[Len(s) + 1] = x /\ \A i \in DOMAIN s : t[i] = s[i]
Shrinks(s, t) ==
  /\ Len(s) \in Nat \ {0} /\ DOMAIN s = 1..Len(s) /\ DOMAIN t = 1..(Len(s) - 1)
  /\ \A i \in DOMAIN t : t[i] = s[i + 1]

LEMMA AppendGrows ==
  ASSUME NEW S, NEW s \in Seq(S), NEW x \in S
  PROVE  Append(s, x) \in Seq(S) /\ Grows(s, Append(s, x), x)
  BY Longer DEF Grows

LEMMA TailShrinks ==
  ASSUME NEW S, NEW s \in Seq(S), s # <<>>
  PROVE  Shrinks(s, Tail(s)) /\ Head(s) = s[1] /\ s[1] \in S /\ 1 \in DOMAIN s
  BY Shorter DEF Shrinks

LEMMA Calling ==
  ASSUME TypeOK, NEW kind \in Calls, NEW ref \in Nat, NEW meant \in Marks, Call(kind, ref, meant)
  PROVE  /\ Grows(outbox, outbox', Message(kind, ref, meant, 0))
         /\ sent' = sent + 1 /\ next_id' = next_id + 1
         /\ doing' = kind /\ waiting' = [id |-> next_id, serial |-> sent + 1]
<1>1. Message(kind, ref, meant, 0) \in Commands
    BY MessageTyped
<1>2. Grows(outbox, outbox', Message(kind, ref, meant, 0))
    BY <1>1, AppendGrows DEF Call, Command, TypeOK
<1> QED
    BY <1>2 DEF Call, Command

(* The operations that send their first command.                           *)
Begins ==
  \E kind \in {"navigate", "snapshot"} \cup OnRef, ref \in Nat, meant \in Marks :
    /\ Begin(kind, ref, meant)
    /\ kind \in OnRef => ref \in 1..refs /\ meant = shown[ref]

LEMMA Beginning ==
  ASSUME TypeOK, Understood,
         \/ Navigate \/ TakeSnapshot
         \/ \E kind \in OnRef, ref \in 1..Cardinality(Element) : Act(kind, ref)
  PROVE  Begins
<1>1. CASE Navigate
    BY <1>1, NothingIsAMark DEF Navigate, Begins, OnRef
<1>2. CASE TakeSnapshot
    BY <1>2, NothingIsAMark DEF TakeSnapshot, Begins, OnRef
<1>3. ASSUME NEW kind \in OnRef, NEW ref \in 1..Cardinality(Element), Act(kind, ref)
      PROVE  Begins
    <2>1. ref \in 1..refs /\ Begin(kind, ref, shown[ref])
        BY <1>3 DEF Act
    <2>2. ref \in Nat /\ shown[ref] \in Marks
        BY <2>1, LenProperties DEF TypeOK, Understood
    <2> QED
        BY <2>1, <2>2 DEF Begins
<1> QED
    BY <1>1, <1>2, <1>3

(* A reply ends the operation or begins its next command.                  *)
Continues ==
  \/ /\ doing \in {"navigate", "ready"} /\ Call("ready", 0, Nothing) /\ UNCHANGED <<refs, shown, lost>>
  \/ /\ inbox[1].value # "stale" /\ \E kind \in Following(doing) : Call(kind, inbox[1].place, inbox[1].meant)
     /\ UNCHANGED <<refs, shown, lost>>
Ends ==
  /\ Idle /\ UNCHANGED <<outbox, next_id, sent>>
  /\ \/ doing = "snapshot" /\ refs' = Len(inbox[1].map) /\ shown' = inbox[1].map /\ lost' = FALSE
     \/ doing # "snapshot" /\ refs' = 0 /\ shown' = <<>> /\ lost' = FALSE
     \/ (doing = "snapshot" => inbox[1].value # "ok") /\ UNCHANGED <<refs, shown, lost>>

LEMMA Replying ==
  ASSUME TypeOK, Reply
  PROVE  /\ waiting # NoCall /\ Shrinks(inbox, inbox') /\ 1 \in Replies /\ inbox[1].id = waiting.id
         /\ inbox[1].place \in Nat /\ inbox[1].meant \in Marks /\ inbox[1].map \in Seq(Marks)
         /\ mixed' = (mixed \/ inbox[1].serial # waiting.serial) /\ hit' = NoAct
         /\ Continues \/ Ends
<1>1. inbox \in Seq(Messages) /\ inbox # <<>> /\ inbox' = Tail(inbox)
    BY DEF Reply, Took, TypeOK
<1>2. Shrinks(inbox, inbox') /\ Head(inbox) = inbox[1] /\ inbox[1] \in Messages
    BY <1>1, TailShrinks
<1>3. Continues \/ Ends
    BY <1>2 DEF Reply, Loading, Acting, Ending, Continues, Ends
<1>4. inbox[1].kind = "reply" /\ inbox[1].id = waiting.id /\ waiting # NoCall /\ 1 \in DOMAIN inbox
    BY <1>1, <1>2, TailShrinks DEF Reply
<1>5. mixed' = (mixed \/ inbox[1].serial # waiting.serial) /\ hit' = NoAct
    BY <1>2 DEF Reply, Took
<1>6. inbox[1].place \in Nat /\ inbox[1].meant \in Marks /\ inbox[1].map \in Seq(Marks)
    BY <1>2 DEF Messages
<1> QED
    BY <1>2, <1>3, <1>4, <1>5, <1>6 DEF Replies

LEMMA Reading ==
  ASSUME TypeOK, PassOver \/ Decide
  PROVE  Shrinks(inbox, inbox') /\ Head(inbox) = inbox[1] /\ inbox[1] \in Messages /\ 1 \in DOMAIN inbox
<1>1. inbox \in Seq(Messages) /\ inbox # <<>> /\ inbox' = Tail(inbox)
    BY DEF PassOver, Decide, TypeOK
<1> QED
    BY <1>1, TailShrinks

LEMMA Deciding ==
  ASSUME TypeOK, Decided, Decide
  PROVE  /\ inbox[1].request \in Request
         /\ Grows(outbox, outbox', Message("decide", 0, Nothing, inbox[1].request))
         /\ sent' = sent + 1 /\ next_id' = next_id + 1
<1>1. inbox[1].request \in Request
    BY Reading DEF Decide, Decided, TypeOK
<1>2. Message("decide", 0, Nothing, inbox[1].request) \in Commands
    BY <1>1, MessageTyped, NothingIsAMark
<1>3. Grows(outbox, outbox', Message("decide", 0, Nothing, inbox[1].request))
    <2>1. outbox' = Append(outbox, Message("decide", 0, Nothing, inbox[1].request)) /\ outbox \in Seq(Commands)
        BY Reading DEF Decide, Notify, Command, TypeOK
    <2> QED
        BY <1>2, <2>1, AppendGrows
<1> QED
    BY <1>1, <1>3 DEF Decide, Notify, Command

(* A message the browser adds is an event, the reply to the command it     *)
(* executes, or, on a decision, the reply to the navigation.               *)
IsReplyTo(m, c) == m.kind = "reply" /\ m.id = c.id /\ m.serial = c.serial /\ m.meant = c.meant
Adds(c) ==
  /\ DOMAIN inbox \subseteq DOMAIN inbox' /\ \A i \in DOMAIN inbox : inbox'[i] = inbox[i]
  /\ \A i \in DOMAIN inbox' \ DOMAIN inbox :
       \/ inbox'[i].kind = "paused" /\ c.kind = "navigate"
       \/ IsReplyTo(inbox'[i], c)
       \/ c.kind = "decide" /\ going # NoCall /\ IsReplyTo(inbox'[i], going)
  /\ \/ going' = going \/ going' = NoCall
     \/ c.kind = "navigate" /\ going'.id = c.id /\ going'.serial = c.serial

LEMMA Executing ==
  ASSUME TypeOK, Execute
  PROVE  /\ Shrinks(outbox, outbox') /\ 1 \in DOMAIN outbox
         /\ outbox[1] = Head(outbox) /\ outbox[1] \in Commands /\ Adds(outbox[1])
<1>1. outbox \in Seq(Commands) /\ outbox # <<>> /\ outbox' = Tail(outbox) /\ inbox \in Seq(Messages)
    BY DEF Execute, TypeOK
<1>2. Shrinks(outbox, outbox') /\ Head(outbox) = outbox[1] /\ outbox[1] \in Commands /\ 1 \in DOMAIN outbox
    BY <1>1, TailShrinks
<1> DEFINE c == outbox[1]
<1>3. ASSUME NEW m, Grows(inbox, inbox', m), going' = going, IsReplyTo(m, c)
      PROVE  Adds(c)
    BY <1>3 DEF Grows, Adds
<1>4. c.id \in Nat /\ c.serial \in Nat /\ c.meant \in Marks
    BY <1>2 DEF Commands
<1>5. ASSUME NEW value \in {"ok", "error", "loading", "complete", "found", "stale"},
             NEW place \in Nat, NEW map \in Seq(Marks),
             inbox' = Append(inbox, Answer(c, value, place, map)), going' = going
      PROVE  Adds(c)
    <2>1. Answer(c, value, place, map) \in Messages
        BY <1>4, AnswerTyped
    <2>2. Grows(inbox, inbox', Answer(c, value, place, map))
        BY <1>1, <1>5, <2>1, AppendGrows
    <2>3. IsReplyTo(Answer(c, value, place, map), c)
        BY DEF Answer, IsReplyTo
    <2> QED
        BY <1>3, <1>5, <2>2, <2>3
<1>6. ASSUME ExecNavigate(c) PROVE Adds(c)
    <2>1. PICK r \in Request : inbox' = Append(inbox, Event(r))
        BY <1>6 DEF ExecNavigate
    <2>2. c.kind = "navigate" /\ going'.id = c.id /\ going'.serial = c.serial
        BY <1>6 DEF ExecNavigate
    <2>3. Event(r) \in Messages /\ Event(r).kind = "paused"
        BY EventTyped DEF Event
    <2>4. Grows(inbox, inbox', Event(r))
        BY <1>1, <2>1, <2>3, AppendGrows
    <2> QED
        BY <2>2, <2>3, <2>4 DEF Grows, Adds
<1>7. ASSUME ExecDecide(c) PROVE Adds(c)
    <2> DEFINE own == Answer(c, "ok", 0, <<>>)
    <2>1. own \in Messages /\ IsReplyTo(own, c)
        BY <1>4, AnswerTyped, EmptySeq DEF Answer, IsReplyTo
    <2>2. c.kind = "decide" /\ (going' = going \/ going' = NoCall)
        BY <1>7 DEF ExecDecide
    <2> HIDE DEF own
    <2>3. inbox \o <<own>> = Append(inbox, own) /\ Append(inbox, own) \in Seq(Messages)
        BY <1>1, <2>1, AppendGrows
    <2>4. Grows(inbox, Append(inbox, own), own)
        BY <1>1, <2>1, AppendGrows
    <2>5. CASE inbox' = inbox \o <<own>> \o <<>>
        <3>1. inbox' = Append(inbox, own)
            BY <2>3, <2>5, ConcatEmptySeq
        <3> QED
            BY <2>1, <2>2, <2>4, <3>1 DEF Grows, Adds
    <2>6. ASSUME going # NoCall, NEW value \in {"ok", "error"},
                 inbox' = inbox \o <<own>> \o <<Answer(going, value, 0, <<>>)>>
          PROVE  Adds(c)
        <3> DEFINE late == Answer(going, value, 0, <<>>)
        <3>1. going \in [id : Nat, serial : Nat, request : Request, meant : Marks]
            BY <2>6 DEF TypeOK
        <3>2. late \in Messages /\ IsReplyTo(late, going)
            BY <3>1, AnswerTyped, EmptySeq DEF Answer, IsReplyTo
        <3> HIDE DEF late
        <3> DEFINE mid == Append(inbox, own)
        <3>3. mid \in Seq(Messages) /\ inbox' = mid \o <<late>> /\ Grows(inbox, mid, own)
            BY <2>3, <2>4, <2>6 DEF late
        <3>4. Len(mid) = Len(inbox) + 1
            BY <1>1, <2>1
        <3> HIDE DEF mid
        <3>5. inbox' = Append(mid, late)
            BY <3>2, <3>3
        <3>6. Grows(mid, inbox', late)
            BY <3>2, <3>3, <3>5, AppendGrows
        <3> QED
            BY <2>1, <2>2, <2>6, <3>2, <3>3, <3>4, <3>6 DEF Grows, Adds
    <2>7. \/ inbox' = inbox \o <<own>> \o <<>>
          \/ going # NoCall /\ \E value \in {"ok", "error"} :
               inbox' = inbox \o <<own>> \o <<Answer(going, value, 0, <<>>)>>
        BY <1>7 DEF ExecDecide, own
    <2> QED
        BY <2>5, <2>6, <2>7
<1>8. ASSUME ExecReady(c) PROVE Adds(c)
    <2>1. PICK value \in {"loading", "complete"} : inbox' = Append(inbox, Answer(c, value, 0, <<>>))
        BY <1>8 DEF ExecReady
    <2>2. going' = going /\ <<>> \in Seq(Marks)
        BY <1>8, EmptySeq DEF ExecReady, page
    <2> QED
        BY <1>5, <2>1, <2>2
<1>9. ASSUME ExecSnapshot(c) PROVE Adds(c)
    <2>1. inbox' = Append(inbox, Answer(c, "ok", 0, dom)) /\ going' = going
        BY <1>9 DEF ExecSnapshot
    <2> QED
        BY <1>5, <2>1, DomTyped
<1>10. ASSUME ExecCenter(c) PROVE Adds(c)
    <2>1. PlaceOf(known[c.ref]) \in Nat
        BY <1>10, DomTyped, LenProperties DEF ExecCenter, Found, Present, PlaceOf
    <2>2. inbox' = Append(inbox, Answer(c, "found", PlaceOf(known[c.ref]), <<>>))
        BY <1>10 DEF ExecCenter
    <2>3. going' = going /\ <<>> \in Seq(Marks)
        BY <1>10, EmptySeq DEF ExecCenter, page
    <2> QED
        BY <1>5, <2>1, <2>2, <2>3
<1>11. ASSUME ExecRefuse(c) \/ ExecSelect(c) \/ ExecFocus(c) PROVE Adds(c)
    <2>1. PICK value \in {"found", "stale"} : inbox' = Append(inbox, Answer(c, value, 0, <<>>))
        BY <1>11 DEF ExecRefuse, ExecSelect, ExecFocus
    <2>2. going' = going /\ <<>> \in Seq(Marks)
        BY <1>11, EmptySeq DEF ExecRefuse, ExecSelect, ExecFocus, page
    <2> QED
        BY <1>5, <2>1, <2>2
<1>12. ASSUME ExecMouse(c) \/ ExecKeys(c) PROVE Adds(c)
    <2>1. PICK place \in Nat : inbox' = Append(inbox, Answer(c, "ok", place, <<>>))
        BY <1>2, <1>12 DEF ExecMouse, ExecKeys, Commands
    <2>2. going' = going /\ <<>> \in Seq(Marks)
        BY <1>12, EmptySeq DEF ExecMouse, ExecKeys, page
    <2> QED
        BY <1>5, <2>1, <2>2
<1> QED
    BY <1>2, <1>6, <1>7, <1>8, <1>9, <1>10, <1>11, <1>12 DEF Execute

----------------------------------------------------------------------------
(* Numbers.                                                                *)

ReadOnly == inbox' = inbox \/ Shrinks(inbox, inbox')

LEMMA RepliesLeft ==
  ASSUME ReadOnly, NEW i \in Replies'
  PROVE  \E j \in Replies : inbox'[i] = inbox[j] /\ (inbox' = inbox => i = j) /\ (inbox' # inbox => j = i + 1)
  BY DEF ReadOnly, Shrinks, Replies

LEMMA Counts == TypeOK => sent \in Nat /\ next_id \in Nat /\ waiting.serial \in Nat
  BY BrowserAssumption DEF BrowserAssumption, TypeOK

LEMMA Sent ==
  ASSUME NEW kind, NEW ref, NEW meant, NEW r, Grows(outbox, outbox', Message(kind, ref, meant, r)),
         NEW i \in DOMAIN outbox'
  PROVE  \/ i \in DOMAIN outbox /\ outbox'[i] = outbox[i] /\ i \in 1..Len(outbox)
         \/ /\ i = Len(outbox) + 1 /\ i \notin DOMAIN outbox
            /\ outbox'[i].kind = kind /\ outbox'[i].id = next_id /\ outbox'[i].serial = sent + 1
            /\ outbox'[i].ref = ref /\ outbox'[i].meant = meant /\ outbox'[i].request = r
<1>1. CASE i \in DOMAIN outbox
    BY <1>1 DEF Grows
<1>2. CASE i \notin DOMAIN outbox
    <2>1. i = Len(outbox) + 1 /\ outbox'[i] = Message(kind, ref, meant, r)
        BY <1>2 DEF Grows
    <2> QED
        BY <1>2, <2>1 DEF Message
<1> QED
    BY <1>1, <1>2

LEMMA Asked ==
  ASSUME NEW r, Grows(inbox, inbox', Event(r)), NEW i \in DOMAIN inbox'
  PROVE  \/ i \in DOMAIN inbox /\ inbox'[i] = inbox[i]
         \/ /\ i = Len(inbox) + 1 /\ i \notin DOMAIN inbox
            /\ inbox'[i].kind = "paused" /\ inbox'[i].request = r
<1>1. CASE i \in DOMAIN inbox
    BY <1>1 DEF Grows
<1>2. CASE i \notin DOMAIN inbox
    <2>1. i = Len(inbox) + 1 /\ inbox'[i] = Event(r)
        BY <1>2 DEF Grows
    <2>2. Event(r).kind = "paused" /\ Event(r).request = r
        BY DEF Event
    <2> QED
        BY <1>2, <2>1, <2>2
<1> QED
    BY <1>1, <1>2

(* A new command has the next number, and whatever waits has an older one. *)
LEMMA CallNumbers ==
  ASSUME TypeOK, Numbered, ReadOnly, UNCHANGED going,
         NEW kind \in Calls, NEW ref \in Nat, NEW meant \in Marks, Call(kind, ref, meant)
  PROVE  Numbered'
<1>1. /\ Grows(outbox, outbox', Message(kind, ref, meant, 0))
      /\ sent' = sent + 1 /\ next_id' = next_id + 1
      /\ doing' = kind /\ waiting' = [id |-> next_id, serial |-> sent + 1]
    BY Calling
<1>2. \A i \in DOMAIN outbox' : outbox'[i].id = outbox'[i].serial /\ outbox'[i].serial \in 1..sent'
    BY <1>1, Sent, Counts DEF Numbered
<1>3. \A i \in Replies' : inbox'[i].id = inbox'[i].serial /\ inbox'[i].serial \in 1..sent'
    BY <1>1, RepliesLeft, Counts DEF Numbered
<1> QED
    BY <1>1, <1>2, <1>3 DEF Numbered, TypeOK, NoCall, Calls, OnRef, Mouse, Keys

LEMMA StepNumbered == TypeOK /\ Decided /\ Understood /\ Numbered /\ [Next]_vars => Numbered'
<1> SUFFICES ASSUME TypeOK, Decided, Understood, Numbered, [Next]_vars PROVE Numbered'
    OBVIOUS
<1>1. CASE Ready \/ Exits \/ Changes \/ Refocuses \/ UNCHANGED vars
    BY <1>1 DEF Ready, Exits, Changes, Refocuses, vars, session, wires, page, histories, Numbered, Replies
<1>2. CASE Close
    BY <1>2, EmptySeq DEF Close, Gone, Idle, histories, Numbered, Replies, TypeOK, NoCall
<1>3. CASE Begins
    BY <1>3, CallNumbers DEF Begins, Begin, page, ReadOnly, Calls, OnRef
<1>4. CASE Reply
    <2>1. Shrinks(inbox, inbox') /\ inbox[1].place \in Nat /\ inbox[1].meant \in Marks /\ (Continues \/ Ends)
        BY <1>4, Replying
    <2>2. UNCHANGED going /\ ReadOnly
        BY <1>4, <2>1 DEF Reply, page, ReadOnly
    <2>3. CASE Continues
        BY <2>1, <2>2, <2>3, CallNumbers, NothingIsAMark, FollowingCalls DEF Continues, Calls
    <2>4. CASE Ends
        <3>1. \A i \in Replies' : inbox'[i].id = inbox'[i].serial /\ inbox'[i].serial \in 1..sent
            BY <2>2, RepliesLeft DEF Numbered
        <3> QED
            BY <2>2, <2>4, <3>1 DEF Ends, Idle, Numbered, NoCall, TypeOK
    <2> QED
        BY <2>1, <2>3, <2>4
<1>5. CASE PassOver
    <2>1. \A i \in Replies' : inbox'[i].id = inbox'[i].serial /\ inbox'[i].serial \in 1..sent
        BY <1>5, Reading, RepliesLeft DEF Numbered, ReadOnly
    <2> QED
        BY <1>5, <2>1 DEF PassOver, session, page, histories, Numbered
<1>6. CASE Decide
    <2>1. /\ Grows(outbox, outbox', Message("decide", 0, Nothing, inbox[1].request))
          /\ sent' = sent + 1 /\ next_id' = next_id + 1
        BY <1>6, Deciding
    <2>2. \A i \in DOMAIN outbox' : outbox'[i].id = outbox'[i].serial /\ outbox'[i].serial \in 1..sent'
        BY <2>1, Sent, Counts DEF Numbered
    <2>3. \A i \in Replies' : inbox'[i].id = inbox'[i].serial /\ inbox'[i].serial \in 1..sent'
        BY <1>6, <2>1, Reading, RepliesLeft, Counts DEF Numbered, ReadOnly
    <2>4. UNCHANGED <<doing, waiting, going>>
        BY <1>6 DEF Decide, page
    <2> QED
        BY <2>1, <2>2, <2>3, <2>4 DEF Numbered, TypeOK
<1>7. CASE GiveUp
    BY <1>7 DEF GiveUp, Idle, wires, page, Numbered, Replies, NoCall, TypeOK
<1>8. CASE Execute
    <2>1. /\ Shrinks(outbox, outbox') /\ 1 \in DOMAIN outbox
          /\ outbox[1] \in Commands /\ Adds(outbox[1])
        BY <1>8, Executing
    <2>2. UNCHANGED <<doing, waiting, sent, next_id>>
        BY <1>8 DEF Execute, session
    <2>3. \A i \in DOMAIN outbox' : outbox'[i].id = outbox'[i].serial /\ outbox'[i].serial \in 1..sent
        BY <2>1 DEF Shrinks, Numbered
    <2>4. \A i \in Replies' : inbox'[i].id = inbox'[i].serial /\ inbox'[i].serial \in 1..sent
        BY <2>1 DEF Adds, IsReplyTo, Numbered, Replies
    <2>5. going' # NoCall => going'.id = going'.serial /\ going'.serial \in 1..sent
        BY <2>1 DEF Adds, Numbered
    <2> QED
        BY <2>2, <2>3, <2>4, <2>5 DEF Numbered
<1>9. CASE Asks
    <2>1. PICK r \in Request : Grows(inbox, inbox', Event(r))
        BY <1>9, EventTyped, AppendGrows DEF Asks, TypeOK
    <2>2. \A i \in Replies' : inbox'[i].id = inbox'[i].serial /\ inbox'[i].serial \in 1..sent
        BY <2>1, Asked DEF Replies, Numbered
    <2> QED
        BY <1>9, <2>2 DEF Asks, session, histories, Numbered
<1> QED
    BY <1>1, <1>2, <1>3, <1>4, <1>5, <1>6, <1>7, <1>8, <1>9, Beginning DEF Next

(* A reply comes only after its command was executed.                      *)
LEMMA CallOrders ==
  ASSUME TypeOK, Numbered, Ordered, ReadOnly, UNCHANGED going,
         NEW kind \in Calls, NEW ref \in Nat, NEW meant \in Marks, Call(kind, ref, meant)
  PROVE  Ordered'
<1>1. /\ Grows(outbox, outbox', Message(kind, ref, meant, 0))
      /\ doing' = kind /\ waiting' = [id |-> next_id, serial |-> sent + 1]
    BY Calling
<1>2. \A i, j \in DOMAIN outbox' : i < j => outbox'[i].serial < outbox'[j].serial
    <2> SUFFICES ASSUME NEW i \in DOMAIN outbox', NEW j \in DOMAIN outbox', i < j
                 PROVE  outbox'[i].serial < outbox'[j].serial
        OBVIOUS
    <2>1. i \in DOMAIN outbox /\ outbox'[i] = outbox[i] /\ outbox[i].serial \in 1..sent
        BY <1>1, Sent DEF Numbered, Grows
    <2> QED
        BY <1>1, <2>1, Sent, Counts DEF Ordered
<1>3. \A i \in Replies', j \in DOMAIN outbox' : inbox'[i].serial < outbox'[j].serial
    BY <1>1, RepliesLeft, Sent, Counts DEF Numbered, Ordered
<1>4. \A j \in DOMAIN outbox' : going' # NoCall => going'.serial < outbox'[j].serial
    BY <1>1, Sent, Counts DEF Numbered, Ordered
<1>5. \A i \in DOMAIN outbox' :
        /\ waiting' # NoCall /\ outbox'[i].kind # "decide" => outbox'[i].serial <= waiting'.serial
        /\ outbox'[i].serial = waiting'.serial => outbox'[i].kind = doing'
    BY <1>1, Sent, Counts DEF Numbered
<1>6. ~(going' # NoCall /\ going'.serial = waiting'.serial)
    BY <1>1 DEF Numbered, TypeOK
<1> QED
    BY <1>2, <1>3, <1>4, <1>5, <1>6 DEF Ordered

LEMMA StepOrdered == TypeOK /\ Decided /\ Understood /\ Numbered /\ Ordered /\ [Next]_vars => Ordered'
<1> SUFFICES ASSUME TypeOK, Decided, Understood, Numbered, Ordered, [Next]_vars PROVE Ordered'
    OBVIOUS
<1>1. CASE Ready \/ Exits \/ Changes \/ Refocuses \/ UNCHANGED vars
    BY <1>1 DEF Ready, Exits, Changes, Refocuses, vars, session, wires, page, histories, Ordered, Replies
<1>2. CASE Close
    BY <1>2, EmptySeq DEF Close, Gone, Idle, histories, Ordered, Replies, NoCall
<1>3. CASE Begins
    BY <1>3, CallOrders DEF Begins, Begin, page, ReadOnly, Calls, OnRef
<1>4. CASE Reply
    <2>1. Shrinks(inbox, inbox') /\ inbox[1].place \in Nat /\ inbox[1].meant \in Marks /\ (Continues \/ Ends)
        BY <1>4, Replying
    <2>2. UNCHANGED going /\ ReadOnly
        BY <1>4, <2>1 DEF Reply, page, ReadOnly
    <2>3. CASE Continues
        BY <2>1, <2>2, <2>3, CallOrders, NothingIsAMark, FollowingCalls DEF Continues, Calls
    <2>4. CASE Ends
        <3>1. \A i \in Replies', j \in DOMAIN outbox : inbox'[i].serial < outbox[j].serial
            BY <2>2, RepliesLeft DEF Ordered
        <3>2. \A i \in DOMAIN outbox : outbox[i].serial # 0
            BY DEF Numbered, TypeOK
        <3>3. going # NoCall => going.serial # 0
            BY DEF Numbered, TypeOK
        <3> QED
            BY <2>2, <2>4, <3>1, <3>2, <3>3 DEF Ends, Idle, Ordered, NoCall
    <2> QED
        BY <2>1, <2>3, <2>4
<1>5. CASE PassOver
    <2>1. \A i \in Replies', j \in DOMAIN outbox : inbox'[i].serial < outbox[j].serial
        BY <1>5, Reading, RepliesLeft DEF Ordered, ReadOnly
    <2> QED
        BY <1>5, <2>1 DEF PassOver, session, page, histories, Ordered
<1>6. CASE Decide
    <2>1. Grows(outbox, outbox', Message("decide", 0, Nothing, inbox[1].request))
        BY <1>6, Deciding
    <2>2. UNCHANGED <<doing, waiting, going>>
        BY <1>6 DEF Decide, page
    <2>3. \A i, j \in DOMAIN outbox' : i < j => outbox'[i].serial < outbox'[j].serial
        <3> SUFFICES ASSUME NEW i \in DOMAIN outbox', NEW j \in DOMAIN outbox', i < j
                     PROVE  outbox'[i].serial < outbox'[j].serial
            OBVIOUS
        <3>1. i \in DOMAIN outbox /\ outbox'[i] = outbox[i] /\ outbox[i].serial \in 1..sent
            BY <2>1, Sent DEF Numbered, Grows
        <3> QED
            BY <2>1, <3>1, Sent, Counts DEF Ordered
    <2>4. \A i \in Replies', j \in DOMAIN outbox' : inbox'[i].serial < outbox'[j].serial
        BY <1>6, <2>1, Reading, RepliesLeft, Sent, Counts DEF Numbered, Ordered, ReadOnly
    <2>5. \A j \in DOMAIN outbox' : going' # NoCall => going'.serial < outbox'[j].serial
        BY <2>1, <2>2, Sent, Counts DEF Numbered, Ordered
    <2>6. \A i \in DOMAIN outbox' :
            /\ waiting' # NoCall /\ outbox'[i].kind # "decide" => outbox'[i].serial <= waiting'.serial
            /\ outbox'[i].serial = waiting'.serial => outbox'[i].kind = doing'
        BY <2>1, <2>2, Sent, Counts DEF Numbered, Ordered
    <2> QED
        BY <2>2, <2>3, <2>4, <2>5, <2>6 DEF Ordered
<1>7. CASE GiveUp
    <2>1. \A i \in DOMAIN outbox : outbox[i].serial # 0
        BY DEF Numbered, TypeOK
    <2>2. going # NoCall => going.serial # 0
        BY DEF Numbered, TypeOK
    <2> QED
        BY <1>7, <2>1, <2>2 DEF GiveUp, Idle, wires, page, Ordered, Replies, NoCall
<1>8. CASE Execute
    <2>1. /\ Shrinks(outbox, outbox') /\ 1 \in DOMAIN outbox
          /\ outbox[1] \in Commands /\ Adds(outbox[1])
        BY <1>8, Executing
    <2>2. UNCHANGED <<doing, waiting, sent, next_id>>
        BY <1>8 DEF Execute, session
    <2>3. \A i \in DOMAIN outbox' : i + 1 \in DOMAIN outbox /\ outbox'[i] = outbox[i + 1] /\ 1 < i + 1
        BY <2>1 DEF Shrinks
    <2>4. \A i, j \in DOMAIN outbox' : i < j => outbox'[i].serial < outbox'[j].serial
        BY <2>1, <2>3 DEF Ordered, Shrinks
    <2>5. \A j \in DOMAIN outbox' : outbox[1].serial < outbox'[j].serial
        BY <2>1, <2>3 DEF Ordered
    <2>6. \A i \in Replies', j \in DOMAIN outbox' : inbox'[i].serial < outbox'[j].serial
        BY <2>1, <2>3, <2>5 DEF Adds, IsReplyTo, Ordered, Replies
    <2>7. \A j \in DOMAIN outbox' : going' # NoCall => going'.serial < outbox'[j].serial
        BY <2>1, <2>3, <2>5 DEF Adds, Ordered
    <2>8. \A i \in DOMAIN outbox' :
            /\ waiting # NoCall /\ outbox'[i].kind # "decide" => outbox'[i].serial <= waiting.serial
            /\ outbox'[i].serial = waiting.serial => outbox'[i].kind = doing
        BY <2>3 DEF Ordered
    <2>9. going' # NoCall /\ going'.serial = waiting.serial => doing = "navigate"
        BY <2>1 DEF Adds, Ordered
    <2> QED
        BY <2>2, <2>4, <2>6, <2>7, <2>8, <2>9 DEF Ordered
<1>9. CASE Asks
    <2>1. PICK r \in Request : Grows(inbox, inbox', Event(r))
        BY <1>9, EventTyped, AppendGrows DEF Asks, TypeOK
    <2>2. \A i \in Replies' : i \in Replies /\ inbox'[i] = inbox[i]
        BY <2>1, Asked DEF Replies
    <2> QED
        BY <1>9, <2>2 DEF Asks, session, histories, Ordered
<1> QED
    BY <1>1, <1>2, <1>3, <1>4, <1>5, <1>6, <1>7, <1>8, <1>9, Beginning DEF Next

----------------------------------------------------------------------------
(* Requests.                                                               *)

Indices == DOMAIN inbox \cup DOMAIN inbox' \cup DOMAIN outbox \cup DOMAIN outbox' \subseteq Int

(* The decisions in the outbox move up by e places, and none is added.     *)
DecisionsStay(e) ==
  /\ \A i \in DOMAIN outbox' : outbox'[i].kind = "decide" => i + e \in DOMAIN outbox /\ outbox'[i] = outbox[i + e]
  /\ \A i \in DOMAIN outbox : outbox[i].kind = "decide" => i - e \in DOMAIN outbox' /\ outbox'[i - e] = outbox[i]
EventsStay(d) ==
  /\ \A i \in DOMAIN inbox' : inbox'[i].kind = "paused" => i + d \in DOMAIN inbox /\ inbox'[i] = inbox[i + d]
  /\ \A i \in DOMAIN inbox : inbox[i].kind = "paused" => i - d \in DOMAIN inbox' /\ inbox'[i - d] = inbox[i]

LEMMA AllIndices == TypeOK /\ TypeOK' => Indices
<1>1. TypeOK => DOMAIN inbox \subseteq Int /\ DOMAIN outbox \subseteq Int
    BY LenProperties DEF TypeOK
<1>2. TypeOK' => DOMAIN inbox' \subseteq Int /\ DOMAIN outbox' \subseteq Int
    BY LenProperties, SMTT(30) DEF TypeOK
<1> QED
    BY <1>1, <1>2 DEF Indices

LEMMA SamePlace == \A i, j \in Int : \A e \in {0, 1} : i + e = j + e => i = j
  OBVIOUS

LEMMA SameRequests ==
  ASSUME TypeOK, Decided, UNCHANGED <<paused, asked>>, Indices,
         NEW d \in {0, 1}, NEW e \in {0, 1}, EventsStay(d), DecisionsStay(e)
  PROVE  Decided'
<1>1. \A r \in Request : \A i \in DOMAIN inbox' : IsEvent(i, r)' => i + d \in DOMAIN inbox /\ IsEvent(i + d, r)
    BY DEF EventsStay, IsEvent
<1>2. \A r \in Request : \A i \in DOMAIN inbox : IsEvent(i, r) => i - d \in DOMAIN inbox' /\ IsEvent(i - d, r)'
    BY DEF EventsStay, IsEvent
<1>3. \A r \in Request : \A i \in DOMAIN outbox' : IsDecision(i, r)' => i + e \in DOMAIN outbox /\ IsDecision(i + e, r)
    BY DEF DecisionsStay, IsDecision
<1>4. \A r \in Request : \A i \in DOMAIN outbox : IsDecision(i, r) => i - e \in DOMAIN outbox' /\ IsDecision(i - e, r)'
    BY DEF DecisionsStay, IsDecision
<1>5. \A i \in DOMAIN inbox' : inbox'[i].kind = "paused" => inbox'[i].request \in paused'
    BY DEF EventsStay, Decided
<1>6. \A i \in DOMAIN outbox' : outbox'[i].kind = "decide" => outbox'[i].request \in paused'
    BY DEF DecisionsStay, Decided
<1>7. \A r \in paused' : (\E i \in DOMAIN inbox' : IsEvent(i, r)') \/ (\E i \in DOMAIN outbox' : IsDecision(i, r)')
    BY <1>2, <1>4 DEF Decided, TypeOK
<1>8. \A r \in Request : \A i, j \in DOMAIN inbox' : IsEvent(i, r)' /\ IsEvent(j, r)' => i = j
    <2> SUFFICES ASSUME NEW r \in Request, NEW i \in DOMAIN inbox', NEW j \in DOMAIN inbox', IsEvent(i, r)', IsEvent(j, r)'
                 PROVE  i = j
        OBVIOUS
    <2>1. i + d = j + d
        BY <1>1 DEF Decided
    <2> QED
        BY <2>1 DEF Indices
<1>9. \A r \in Request : \A i, j \in DOMAIN outbox' : IsDecision(i, r)' /\ IsDecision(j, r)' => i = j
    <2> SUFFICES ASSUME NEW r \in Request, NEW i \in DOMAIN outbox', NEW j \in DOMAIN outbox', IsDecision(i, r)', IsDecision(j, r)'
                 PROVE  i = j
        OBVIOUS
    <2>1. i + e = j + e
        BY <1>3 DEF Decided
    <2>2. i \in Int /\ j \in Int
        BY DEF Indices
    <2> QED
        BY <2>1, <2>2, SamePlace
<1>10. \A r \in Request : \A i \in DOMAIN inbox', j \in DOMAIN outbox' : ~(IsEvent(i, r)' /\ IsDecision(j, r)')
    BY <1>1, <1>3 DEF Decided
<1> QED
    BY <1>5, <1>6, <1>7, <1>8, <1>9, <1>10 DEF Decided

(* A request that is made: its event comes last into the inbox.            *)
LEMMA NewRequest ==
  ASSUME TypeOK, Decided, Indices, NEW r \in Request \ asked,
         asked' = asked \cup {r}, paused' = paused \cup {r}, Grows(inbox, inbox', Event(r)),
         NEW e \in {0, 1}, DecisionsStay(e)
  PROVE  Decided'
<1>0. PICK last \in DOMAIN inbox' : last = Len(inbox) + 1 /\ inbox'[last] = Event(r)
    BY DEF Grows
<1>1. /\ \A i \in DOMAIN inbox' : (i \in DOMAIN inbox /\ inbox'[i] = inbox[i]) \/ i = last
      /\ last \in DOMAIN inbox' /\ inbox'[last].kind = "paused" /\ inbox'[last].request = r
      /\ \A i \in DOMAIN inbox : i \in DOMAIN inbox' /\ inbox'[i] = inbox[i] /\ i # last
    <2>1. Event(r).kind = "paused" /\ Event(r).request = r
        BY DEF Event
    <2>2. \A i \in DOMAIN inbox' : (i \in DOMAIN inbox /\ inbox'[i] = inbox[i]) \/ i = last
        BY <1>0, Asked
    <2>3. \A i \in DOMAIN inbox : i \in DOMAIN inbox' /\ inbox'[i] = inbox[i] /\ i # last
        BY <1>0 DEF Grows
    <2> QED
        BY <1>0, <2>1, <2>2, <2>3
<1>2. r \notin paused /\ paused \subseteq Request
    BY DEF Decided, TypeOK
<1>3. \A q \in Request : \A i \in DOMAIN inbox' : IsEvent(i, q)' => (i \in DOMAIN inbox /\ IsEvent(i, q)) \/ (i = last /\ q = r)
    BY <1>1 DEF IsEvent
<1>4. \A q \in Request : \A i \in DOMAIN inbox : IsEvent(i, q) => i \in DOMAIN inbox' /\ IsEvent(i, q)'
    BY <1>1 DEF IsEvent
<1>5. \A i \in DOMAIN inbox : ~IsEvent(i, r)
    BY <1>2 DEF Decided, IsEvent
<1>6. \A i \in DOMAIN outbox : ~IsDecision(i, r)
    BY <1>2 DEF Decided, IsDecision
<1>7. \A q \in Request : \A i \in DOMAIN outbox' : IsDecision(i, q)' => i + e \in DOMAIN outbox /\ IsDecision(i + e, q) /\ q # r
    BY <1>6 DEF DecisionsStay, IsDecision
<1>8. \A q \in Request : \A i \in DOMAIN outbox : IsDecision(i, q) => i - e \in DOMAIN outbox' /\ IsDecision(i - e, q)'
    BY DEF DecisionsStay, IsDecision
<1>9. \A i \in DOMAIN inbox' : inbox'[i].kind = "paused" => inbox'[i].request \in paused'
    BY <1>1 DEF Decided
<1>10. \A i \in DOMAIN outbox' : outbox'[i].kind = "decide" => outbox'[i].request \in paused'
    BY DEF DecisionsStay, Decided
<1>11. \A q \in paused' : (\E i \in DOMAIN inbox' : IsEvent(i, q)') \/ (\E i \in DOMAIN outbox' : IsDecision(i, q)')
    <2>1. IsEvent(last, r)' /\ last \in DOMAIN inbox'
        BY <1>1 DEF IsEvent
    <2> QED
        BY <1>2, <1>4, <1>8, <2>1 DEF Decided
<1>12. \A q \in Request : \A i, j \in DOMAIN inbox' : IsEvent(i, q)' /\ IsEvent(j, q)' => i = j
    BY <1>3, <1>5 DEF Decided
<1>13. \A q \in Request : \A i, j \in DOMAIN outbox' : IsDecision(i, q)' /\ IsDecision(j, q)' => i = j
    <2> SUFFICES ASSUME NEW q \in Request, NEW i \in DOMAIN outbox', NEW j \in DOMAIN outbox', IsDecision(i, q)', IsDecision(j, q)'
                 PROVE  i = j
        OBVIOUS
    <2>1. i + e = j + e
        BY <1>7 DEF Decided
    <2>2. i \in Int /\ j \in Int
        BY DEF Indices
    <2> QED
        BY <2>1, <2>2, SamePlace
<1>14. \A q \in Request : \A i \in DOMAIN inbox', j \in DOMAIN outbox' : ~(IsEvent(i, q)' /\ IsDecision(j, q)')
    BY <1>3, <1>7 DEF Decided
<1>15. paused' \subseteq asked'
    BY DEF Decided
<1> QED
    BY <1>9, <1>10, <1>11, <1>12, <1>13, <1>14, <1>15 DEF Decided

(* Deciding takes the event out of one wire and puts the decision into the *)
(* other.                                                                  *)
LEMMA DecideDecides ==
  ASSUME TypeOK, Decided, Indices, Decide
  PROVE  Decided'
<1>0. PICK r \in Request : r = inbox[1].request
    BY Deciding
<1>1. /\ Shrinks(inbox, inbox') /\ 1 \in DOMAIN inbox /\ inbox[1].kind = "paused"
      /\ r \in Request /\ Grows(outbox, outbox', Message("decide", 0, Nothing, r))
      /\ UNCHANGED <<paused, asked>>
    BY <1>0, Reading, Deciding DEF Decide, page
<1>last. PICK last \in DOMAIN outbox' : last = Len(outbox) + 1 /\ outbox'[last] = Message("decide", 0, Nothing, r)
    BY <1>1 DEF Grows
<1>2. IsEvent(1, r) /\ r \in paused
    BY <1>0, <1>1 DEF IsEvent, Decided
<1>3. \A q \in Request : \A i \in DOMAIN inbox' : IsEvent(i, q)' => i + 1 \in DOMAIN inbox /\ IsEvent(i + 1, q)
    BY <1>1 DEF Shrinks, IsEvent
<1>4. \A q \in Request \ {r} : \A i \in DOMAIN inbox : IsEvent(i, q) => i - 1 \in DOMAIN inbox' /\ IsEvent(i - 1, q)'
    BY <1>0, <1>1 DEF Shrinks, IsEvent
<1>5. \A i \in DOMAIN inbox' : ~IsEvent(i, r)'
    <2>1. \A i \in DOMAIN inbox' : i + 1 # 1
        BY <1>1 DEF Shrinks
    <2> QED
        BY <1>1, <1>2, <1>3, <2>1 DEF Decided
<1>6. \A i \in DOMAIN outbox : ~IsDecision(i, r)
    BY <1>1, <1>2 DEF Decided
<1>7. \A q \in Request : \A i \in DOMAIN outbox' : IsDecision(i, q)' => (i \in DOMAIN outbox /\ IsDecision(i, q)) \/ (i = last /\ q = r)
    BY <1>1, <1>last, Sent DEF IsDecision
<1>8. \A q \in Request : \A i \in DOMAIN outbox : IsDecision(i, q) => i \in DOMAIN outbox' /\ IsDecision(i, q)'
    BY <1>1 DEF IsDecision, Grows
<1>9. last \in DOMAIN outbox' /\ IsDecision(last, r)'
    <2>1. Message("decide", 0, Nothing, r).kind = "decide" /\ Message("decide", 0, Nothing, r).request = r
        BY DEF Message
    <2> QED
        BY <1>last, <2>1 DEF IsDecision
<1>10. \A i \in DOMAIN inbox' : inbox'[i].kind = "paused" => inbox'[i].request \in paused'
    BY <1>1 DEF Shrinks, Decided
<1>11. \A i \in DOMAIN outbox' : outbox'[i].kind = "decide" => outbox'[i].request \in paused'
    BY <1>1, <1>2, Sent DEF Decided
<1>12. \A q \in paused' : (\E i \in DOMAIN inbox' : IsEvent(i, q)') \/ (\E i \in DOMAIN outbox' : IsDecision(i, q)')
    <2> TAKE q \in paused'
    <2>1. q \in Request /\ q \in paused
        BY <1>1 DEF TypeOK
    <2>2. (\E i \in DOMAIN inbox : IsEvent(i, q)) \/ (\E i \in DOMAIN outbox : IsDecision(i, q))
        BY <2>1 DEF Decided
    <2>3. CASE q = r
        BY <2>3, <1>9
    <2>4. CASE q # r
        BY <2>1, <2>2, <2>4, <1>4, <1>8
    <2> QED
        BY <2>3, <2>4
<1>13. \A q \in Request : \A i, j \in DOMAIN inbox' : IsEvent(i, q)' /\ IsEvent(j, q)' => i = j
    <2> SUFFICES ASSUME NEW q \in Request, NEW i \in DOMAIN inbox', NEW j \in DOMAIN inbox', IsEvent(i, q)', IsEvent(j, q)'
                 PROVE  i = j
        OBVIOUS
    <2>1. i + 1 = j + 1
        BY <1>3 DEF Decided
    <2>2. i \in Int /\ j \in Int
        BY DEF Indices
    <2> QED
        BY <2>1, <2>2
<1>14. \A q \in Request : \A i, j \in DOMAIN outbox' : IsDecision(i, q)' /\ IsDecision(j, q)' => i = j
    BY <1>6, <1>7 DEF Decided
<1>15. \A q \in Request : \A i \in DOMAIN inbox', j \in DOMAIN outbox' : ~(IsEvent(i, q)' /\ IsDecision(j, q)')
    BY <1>3, <1>5, <1>7 DEF Decided
<1> QED
    BY <1>1, <1>10, <1>11, <1>12, <1>13, <1>14, <1>15 DEF Decided

(* A decision the browser has executed is gone from the outbox, and the    *)
(* request is no longer held.                                              *)
LEMMA DecisionExecuted ==
  ASSUME TypeOK, Decided, Indices, Execute, ExecDecide(outbox[1])
  PROVE  Decided'
<1>0. PICK r \in Request : r = outbox[1].request
    BY Executing DEF ExecDecide, Decided, TypeOK
<1>1. /\ Shrinks(outbox, outbox') /\ 1 \in DOMAIN outbox /\ outbox[1].kind = "decide" /\ Adds(outbox[1])
      /\ paused' = paused \ {r} /\ asked' = asked
    BY <1>0, Executing DEF ExecDecide
<1>2. r \in paused /\ IsDecision(1, r)
    BY <1>0, <1>1 DEF Decided, IsDecision
<1>3. \A q \in Request : \A i \in DOMAIN inbox' : IsEvent(i, q)' => i \in DOMAIN inbox /\ IsEvent(i, q)
    BY <1>1 DEF Adds, IsReplyTo, IsEvent
<1>4. \A q \in Request : \A i \in DOMAIN inbox : IsEvent(i, q) => i \in DOMAIN inbox' /\ IsEvent(i, q)'
    BY <1>1 DEF Adds, IsEvent
<1>5. \A i \in DOMAIN inbox : ~IsEvent(i, r)
    BY <1>1, <1>2 DEF Decided
<1>6. \A q \in Request : \A i \in DOMAIN outbox' : IsDecision(i, q)' => i + 1 \in DOMAIN outbox /\ IsDecision(i + 1, q)
    BY <1>1 DEF Shrinks, IsDecision
<1>7. \A q \in Request \ {r} : \A i \in DOMAIN outbox : IsDecision(i, q) => i - 1 \in DOMAIN outbox' /\ IsDecision(i - 1, q)'
    BY <1>0, <1>1 DEF Shrinks, IsDecision
<1>8. \A i \in DOMAIN outbox' : ~IsDecision(i, r)'
    <2>1. \A i \in DOMAIN outbox' : i + 1 # 1
        BY <1>1 DEF Shrinks
    <2> QED
        BY <1>1, <1>2, <1>6, <2>1 DEF Decided
<1>9. \A i \in DOMAIN inbox' : inbox'[i].kind = "paused" => inbox'[i].request \in paused'
    <2> SUFFICES ASSUME NEW i \in DOMAIN inbox', inbox'[i].kind = "paused" PROVE inbox'[i].request \in paused'
        OBVIOUS
    <2>1. i \in DOMAIN inbox /\ inbox'[i] = inbox[i]
        BY <1>1 DEF Adds, IsReplyTo
    <2>2. inbox[i].request \in paused
        BY <2>1 DEF Decided
    <2>3. inbox[i].request # r
        BY <1>5, <2>1 DEF IsEvent
    <2> QED
        BY <1>1, <2>1, <2>2, <2>3
<1>10. \A i \in DOMAIN outbox' : outbox'[i].kind = "decide" => outbox'[i].request \in paused'
    <2> SUFFICES ASSUME NEW i \in DOMAIN outbox', outbox'[i].kind = "decide" PROVE outbox'[i].request \in paused'
        OBVIOUS
    <2>1. i + 1 \in DOMAIN outbox /\ outbox'[i] = outbox[i + 1]
        BY <1>1 DEF Shrinks
    <2>2. outbox'[i].request \in paused
        BY <2>1 DEF Decided
    <2>3. outbox'[i].request # r
        BY <1>8 DEF IsDecision
    <2> QED
        BY <1>1, <2>2, <2>3
<1>11. \A q \in paused' : (\E i \in DOMAIN inbox' : IsEvent(i, q)') \/ (\E i \in DOMAIN outbox' : IsDecision(i, q)')
    BY <1>1, <1>4, <1>7 DEF Decided, TypeOK
<1>12. \A q \in Request : \A i, j \in DOMAIN inbox' : IsEvent(i, q)' /\ IsEvent(j, q)' => i = j
    BY <1>3 DEF Decided
<1>13. \A q \in Request : \A i, j \in DOMAIN outbox' : IsDecision(i, q)' /\ IsDecision(j, q)' => i = j
    <2> SUFFICES ASSUME NEW q \in Request, NEW i \in DOMAIN outbox', NEW j \in DOMAIN outbox', IsDecision(i, q)', IsDecision(j, q)'
                 PROVE  i = j
        OBVIOUS
    <2>1. i + 1 = j + 1
        BY <1>6 DEF Decided
    <2>2. i \in Int /\ j \in Int
        BY DEF Indices
    <2> QED
        BY <2>1, <2>2
<1>14. \A q \in Request : \A i \in DOMAIN inbox', j \in DOMAIN outbox' : ~(IsEvent(i, q)' /\ IsDecision(j, q)')
    BY <1>3, <1>6 DEF Decided
<1> QED
    BY <1>1, <1>9, <1>10, <1>11, <1>12, <1>13, <1>14 DEF Decided

(* Reading a reply takes no event, and a call is no decision.              *)
LEMMA RepliesAreNoEvents ==
  ASSUME TypeOK, inbox' = inbox \/ (Shrinks(inbox, inbox') /\ inbox[1].kind = "reply")
  PROVE  \E d \in {0, 1} : EventsStay(d)
<1>1. CASE inbox' = inbox
    <2>1. \A i \in DOMAIN inbox : i + 0 = i /\ i - 0 = i
        BY LenProperties DEF TypeOK
    <2>2. EventsStay(0)
        BY <1>1, <2>1 DEF EventsStay
    <2> QED
        BY <2>2
<1>2. CASE Shrinks(inbox, inbox') /\ inbox[1].kind = "reply"
    <2>1. EventsStay(1)
        BY <1>2 DEF EventsStay, Shrinks
    <2> QED
        BY <2>1
<1> QED
    BY <1>1, <1>2

LEMMA CallsAreNoDecisions ==
  ASSUME TypeOK,
         \/ outbox' = outbox
         \/ \E kind \in Calls, ref \in Nat, meant \in Marks : Grows(outbox, outbox', Message(kind, ref, meant, 0))
  PROVE  DecisionsStay(0)
<1>1. \A i \in DOMAIN outbox : i + 0 = i /\ i - 0 = i
    BY LenProperties DEF TypeOK
<1>2. CASE outbox' = outbox
    BY <1>1, <1>2 DEF DecisionsStay
<1>3. ASSUME NEW kind \in Calls, NEW ref \in Nat, NEW meant \in Marks, Grows(outbox, outbox', Message(kind, ref, meant, 0))
      PROVE  DecisionsStay(0)
    <2>1. \A i \in DOMAIN outbox' : outbox'[i].kind = "decide" => i \in DOMAIN outbox /\ outbox'[i] = outbox[i]
        BY <1>3, Sent DEF Calls, OnRef, Mouse, Keys
    <2>2. \A i \in DOMAIN outbox : i \in DOMAIN outbox' /\ outbox'[i] = outbox[i]
        BY <1>3 DEF Grows
    <2> QED
        BY <1>1, <2>1, <2>2 DEF DecisionsStay
<1> QED
    BY <1>2, <1>3

LEMMA StepDecided == TypeOK /\ TypeOK' /\ Decided /\ Understood /\ [Next]_vars => Decided'
<1> SUFFICES ASSUME TypeOK, TypeOK', Decided, Understood, [Next]_vars PROVE Decided'
    OBVIOUS
<1>0. Indices
    BY AllIndices
<1>1. ASSUME UNCHANGED <<paused, asked>>,
             inbox' = inbox \/ (Shrinks(inbox, inbox') /\ inbox[1].kind = "reply"),
             \/ outbox' = outbox
             \/ \E kind \in Calls, ref \in Nat, meant \in Marks : Grows(outbox, outbox', Message(kind, ref, meant, 0))
      PROVE  Decided'
    <2>1. PICK d \in {0, 1} : EventsStay(d)
        BY <1>1, RepliesAreNoEvents
    <2>2. DecisionsStay(0)
        BY <1>1, CallsAreNoDecisions
    <2> QED
        BY <1>0, <1>1, <2>1, <2>2, SameRequests
<1>2. CASE Ready \/ Exits \/ Changes \/ Refocuses \/ GiveUp \/ UNCHANGED vars
    BY <1>1, <1>2 DEF Ready, Exits, Changes, Refocuses, GiveUp, vars, session, wires, page
<1>3. CASE Close
    BY <1>3, EmptySeq DEF Close, Gone, Decided
<1>4. CASE Begins
    <2>1. PICK kind \in Calls, ref \in Nat, meant \in Marks : Begin(kind, ref, meant)
        BY <1>4 DEF Begins, Calls, OnRef
    <2> QED
        BY <1>1, <2>1, Calling DEF Begin, page
<1>5. CASE Reply
    <2>1. /\ Shrinks(inbox, inbox') /\ inbox[1].kind = "reply" /\ inbox[1].place \in Nat /\ inbox[1].meant \in Marks
          /\ Continues \/ Ends
        BY <1>5, Replying DEF Replies
    <2>2. \/ outbox' = outbox
          \/ \E kind \in Calls, ref \in Nat, meant \in Marks : Grows(outbox, outbox', Message(kind, ref, meant, 0))
        BY <2>1, Calling, NothingIsAMark, FollowingCalls DEF Continues, Ends, Calls
    <2> QED
        BY <1>1, <1>5, <2>1, <2>2 DEF Reply, page
<1>6. CASE PassOver
    BY <1>1, <1>6, Reading DEF PassOver, page
<1>7. CASE Decide
    BY <1>0, <1>7, DecideDecides
<1>8. CASE Execute
    <2>1. /\ Shrinks(outbox, outbox') /\ 1 \in DOMAIN outbox
          /\ outbox[1] = Head(outbox) /\ Adds(outbox[1])
        BY <1>8, Executing
    <2>2. CASE ExecDecide(outbox[1])
        BY <1>0, <1>8, <2>2, DecisionExecuted
    <2>3. ASSUME outbox[1].kind # "decide" PROVE DecisionsStay(1)
        BY <2>1, <2>3 DEF Shrinks, DecisionsStay
    <2>4. CASE ExecNavigate(outbox[1])
        <3>1. PICK r \in Request \ asked :
                asked' = asked \cup {r} /\ paused' = paused \cup {r} /\ inbox' = Append(inbox, Event(r))
            BY <2>4 DEF ExecNavigate
        <3>2. Grows(inbox, inbox', Event(r))
            BY <3>1, EventTyped, AppendGrows DEF TypeOK
        <3>3. DecisionsStay(1)
            BY <2>3, <2>4 DEF ExecNavigate
        <3> QED
            BY <1>0, <3>1, <3>2, <3>3, NewRequest
    <2>5. CASE \/ ExecReady(outbox[1]) \/ ExecSnapshot(outbox[1]) \/ ExecRefuse(outbox[1]) \/ ExecSelect(outbox[1])
               \/ ExecCenter(outbox[1]) \/ ExecFocus(outbox[1]) \/ ExecMouse(outbox[1]) \/ ExecKeys(outbox[1])
        <3>1. outbox[1].kind \notin {"decide", "navigate"} /\ UNCHANGED <<paused, asked>>
            BY <2>5 DEF ExecReady, ExecSnapshot, ExecRefuse, ExecSelect, ExecCenter, ExecFocus, ExecMouse,
                        ExecKeys, OnRef, Mouse, Keys, page
        <3>2. \A i \in DOMAIN inbox' : inbox'[i].kind = "paused" => i \in DOMAIN inbox /\ inbox'[i] = inbox[i]
            BY <2>1, <3>1 DEF Adds, IsReplyTo
        <3>3. \A i \in DOMAIN inbox : i + 0 = i /\ i - 0 = i
            BY <1>0 DEF Indices
        <3>4. EventsStay(0)
            BY <2>1, <3>2, <3>3 DEF EventsStay, Adds
        <3> QED
            BY <1>0, <2>3, <3>1, <3>4, SameRequests
    <2> QED
        BY <1>8, <2>1, <2>2, <2>4, <2>5 DEF Execute
<1>9. CASE Asks
    <2>1. PICK r \in Request \ asked :
            asked' = asked \cup {r} /\ paused' = paused \cup {r} /\ inbox' = Append(inbox, Event(r))
        BY <1>9 DEF Asks
    <2>2. Grows(inbox, inbox', Event(r))
        BY <2>1, EventTyped, AppendGrows DEF TypeOK
    <2>3. DecisionsStay(0)
        BY <1>9, CallsAreNoDecisions DEF Asks
    <2> QED
        BY <1>0, <2>1, <2>2, <2>3, NewRequest
<1> QED
    BY <1>2, <1>3, <1>4, <1>5, <1>6, <1>7, <1>8, <1>9, Beginning DEF Next

----------------------------------------------------------------------------
(* What commands and replies mean.                                         *)

(* When the reply to the outstanding call is there, the browser has         *)
(* executed everything but decisions.                                      *)
LEMMA OnlyDecisions ==
  ASSUME TypeOK, Numbered, Ordered, NEW i \in Replies, inbox[i].serial = waiting.serial,
         NEW j \in DOMAIN outbox
  PROVE  outbox[j].kind = "decide"
<1>1. waiting # NoCall
    BY DEF Numbered, NoCall
<1>2. inbox[i].serial < outbox[j].serial
    BY DEF Ordered
<1>3. outbox[j].serial \in Nat /\ inbox[i].serial \in Nat
    BY Counts DEF Numbered
<1> QED
    BY <1>1, <1>2, <1>3 DEF Ordered

(* The command executed now answers the outstanding call only if it is it. *)
LEMMA NewReplies ==
  ASSUME TypeOK, Numbered, Ordered, Execute,
         NEW i \in Replies' \ Replies, inbox'[i].serial = waiting.serial
  PROVE  \/ outbox[1].kind = doing /\ IsReplyTo(inbox'[i], outbox[1])
         \/ doing = "navigate"
<1>1. 1 \in DOMAIN outbox /\ Adds(outbox[1])
    BY Executing
<1>2. i \in DOMAIN inbox' \ DOMAIN inbox /\ inbox'[i].kind = "reply"
    BY <1>1 DEF Replies, Adds
<1>3. \/ IsReplyTo(inbox'[i], outbox[1])
      \/ going # NoCall /\ IsReplyTo(inbox'[i], going)
    BY <1>1, <1>2 DEF Adds
<1> QED
    BY <1>1, <1>3 DEF IsReplyTo, Ordered

LEMMA OldReplies ==
  ASSUME TypeOK, Execute, NEW i \in Replies
  PROVE  i \in Replies' /\ inbox'[i] = inbox[i]
  BY Executing DEF Adds, Replies

LEMMA CallUnderstood ==
  ASSUME TypeOK, Numbered, Ordered, Understood, ReadOnly, UNCHANGED <<refs, shown, lost, known, stage>>,
         NEW kind \in Calls, NEW ref \in Nat, NEW meant \in Marks, Call(kind, ref, meant),
         doing # "snapshot",
         ~lost => \A i \in DOMAIN outbox : outbox[i].kind # "snapshot",
         ~lost /\ kind \in OnRef /\ ref \in DOMAIN known => known[ref] = meant
  PROVE  Understood'
<1>1. /\ Grows(outbox, outbox', Message(kind, ref, meant, 0))
      /\ doing' = kind /\ waiting' = [id |-> next_id, serial |-> sent + 1]
    BY Calling
<1>2. waiting' # NoCall /\ waiting'.serial = sent + 1
    BY <1>1, Counts DEF NoCall
<1>3. Len(shown') = refs'
    BY DEF Understood
<1>4. stage' # "closed" /\ ~lost' /\ doing' # "snapshot" =>
        \A r \in DOMAIN shown' : r \in DOMAIN known' => known'[r] = shown'[r]
    BY DEF Understood
<1>5. ~lost' => \A i \in DOMAIN outbox' :
        outbox'[i].kind = "snapshot" => waiting' # NoCall /\ outbox'[i].serial = waiting'.serial
    BY <1>1, <1>2, Sent
<1>6. ~lost' => \A i \in Acts' :
        outbox'[i].ref \in DOMAIN known' => known'[outbox'[i].ref] = outbox'[i].meant
    BY <1>1, Sent DEF Understood, Acts
<1>7. \A i \in Replies' : inbox'[i].serial # waiting'.serial
    BY <1>2, RepliesLeft, Counts DEF Numbered
<1> QED
    BY <1>3, <1>4, <1>5, <1>6, <1>7 DEF Understood, Awaited

LEMMA StepUnderstood ==
  TypeOK /\ Numbered /\ Ordered /\ Decided /\ Understood /\ [Next]_vars => Understood'
<1> SUFFICES ASSUME TypeOK, Numbered, Ordered, Decided, Understood, [Next]_vars PROVE Understood'
    OBVIOUS
<1>1. CASE Ready \/ Exits \/ Changes \/ Refocuses \/ UNCHANGED vars
    BY <1>1 DEF Ready, Exits, Changes, Refocuses, vars, session, wires, page, histories, Understood, Acts, Replies, Awaited
<1>2. CASE Close
    <2>1. outbox' = <<>> /\ inbox' = <<>> /\ stage' = "closed" /\ UNCHANGED <<refs, shown>>
        BY <1>2 DEF Close, Gone, histories
    <2>2. DOMAIN outbox' = {} /\ DOMAIN inbox' = {}
        BY <2>1
    <2> QED
        BY <2>1, <2>2 DEF Understood, Acts, Replies
<1>3. CASE Begins
    <2>1. PICK kind \in {"navigate", "snapshot"} \cup OnRef, ref \in Nat, meant \in Marks :
            Begin(kind, ref, meant) /\ (kind \in OnRef => ref \in 1..refs /\ meant = shown[ref])
        BY <1>3 DEF Begins
    <2>2. /\ Call(kind, ref, meant) /\ doing = "idle" /\ stage = "open" /\ waiting = NoCall
          /\ ReadOnly /\ UNCHANGED <<refs, shown, lost, known, stage>>
        BY <2>1 DEF Begin, page, ReadOnly, Numbered
    <2>3. ~lost => \A i \in DOMAIN outbox : outbox[i].kind # "snapshot"
        BY <2>2 DEF Understood
    <2>4. ~lost /\ kind \in OnRef /\ ref \in DOMAIN known => known[ref] = meant
        <3>1. 1..refs = DOMAIN shown
            BY LenProperties DEF TypeOK, Understood
        <3> QED
            BY <2>1, <2>2, <3>1 DEF Understood
    <2> QED
        BY <2>2, <2>3, <2>4, CallUnderstood DEF Calls, OnRef
<1>4. CASE Reply
    <2>1. /\ Shrinks(inbox, inbox') /\ 1 \in Replies /\ inbox[1].id = waiting.id
          /\ inbox[1].place \in Nat /\ inbox[1].meant \in Marks /\ inbox[1].map \in Seq(Marks)
          /\ Continues \/ Ends
        BY <1>4, Replying
    <2>2. UNCHANGED <<known, stage>> /\ ReadOnly
        BY <1>4, <2>1 DEF Reply, page, ReadOnly
    <2>3. inbox[1].serial = waiting.serial
        BY <2>1 DEF Numbered
    <2>4. \A j \in DOMAIN outbox : outbox[j].kind = "decide"
        BY <2>1, <2>3, OnlyDecisions
    <2>5. CASE Continues
        <3>1. \A kind \in Following(doing) : kind \in Calls /\ kind \notin OnRef /\ doing # "snapshot"
            BY FollowingCalls DEF Following, OnRef
        <3>2. "ready" \in Calls /\ "ready" \notin OnRef
            BY DEF Calls, OnRef
        <3> QED
            BY <2>1, <2>2, <2>4, <2>5, <3>1, <3>2, CallUnderstood, NothingIsAMark DEF Continues
    <2>6. CASE Ends
        <3>1. doing' = "idle" /\ outbox' = outbox
            BY <2>6 DEF Ends, Idle
        <3>2. doing = "snapshot" => inbox[1].value = "ok" /\ (known = inbox[1].map \/ known = <<>>)
            BY <2>1, <2>3 DEF Understood, Awaited
        <3>3. Len(shown') = refs'
            BY <2>6, EmptySeq DEF Ends, Understood
        <3>4. stage' # "closed" /\ ~lost' => \A r \in DOMAIN shown' : r \in DOMAIN known' => known'[r] = shown'[r]
            BY <2>2, <2>6, <3>2 DEF Ends, Understood
        <3> QED
            BY <2>4, <3>1, <3>3, <3>4 DEF Understood, Acts, OnRef
    <2> QED
        BY <2>1, <2>5, <2>6
<1>5. CASE PassOver
    <2>1. ReadOnly /\ UNCHANGED <<session, outbox, page, histories>>
        BY <1>5, Reading DEF PassOver, ReadOnly
    <2>2. \A i \in Replies' : Awaited(i)' /\ doing = "snapshot" =>
            inbox'[i].value = "ok" /\ (known = inbox'[i].map \/ known = <<>>)
        BY <2>1, RepliesLeft DEF Understood, Awaited, session
    <2> QED
        BY <2>1, <2>2 DEF Understood, Acts, session, page, histories
<1>6. CASE Decide
    <2>1. ReadOnly /\ UNCHANGED <<stage, doing, waiting, refs, known, shown, lost>>
        BY <1>6, Reading DEF Decide, ReadOnly, page
    <2>2. Grows(outbox, outbox', Message("decide", 0, Nothing, inbox[1].request))
        BY <1>6, Deciding
    <2>3. \A i \in DOMAIN outbox' : outbox'[i].kind # "decide" => i \in DOMAIN outbox /\ outbox'[i] = outbox[i]
        BY <2>2, Sent
    <2>4. \A i \in Replies' : Awaited(i)' /\ doing = "snapshot" =>
            inbox'[i].value = "ok" /\ (known = inbox'[i].map \/ known = <<>>)
        BY <2>1, RepliesLeft DEF Understood, Awaited
    <2> QED
        BY <2>1, <2>3, <2>4 DEF Understood, Acts, OnRef
<1>7. CASE GiveUp
    <2>1. /\ UNCHANGED <<stage, refs, known, shown, outbox, inbox>>
          /\ doing' = "idle" /\ lost' = (lost \/ doing = "snapshot")
        BY <1>7 DEF GiveUp, Idle, page, wires
    <2>2. ~lost' => \A i \in DOMAIN outbox : outbox[i].kind # "snapshot"
        BY <2>1 DEF Understood, Ordered
    <2> QED
        BY <2>1, <2>2 DEF Understood, Acts
<1>8. CASE Execute
    <2> DEFINE c == outbox[1]
    <2>1. /\ Shrinks(outbox, outbox') /\ 1 \in DOMAIN outbox
          /\ c = Head(outbox) /\ Adds(c)
        BY <1>8, Executing
    <2>2. UNCHANGED <<stage, doing, waiting, refs, shown, lost>>
        BY <1>8 DEF Execute, session
    <2>3. \A i \in DOMAIN outbox' : i + 1 \in DOMAIN outbox /\ outbox'[i] = outbox[i + 1] /\ 1 < i + 1
        BY <2>1 DEF Shrinks
    <2>4. ~lost => \A i \in DOMAIN outbox' :
            outbox'[i].kind = "snapshot" => waiting # NoCall /\ outbox'[i].serial = waiting.serial
        BY <2>3 DEF Understood
    <2>5. \A i \in Replies : Awaited(i) => i \in Replies' /\ inbox'[i] = inbox[i] /\ c.kind = "decide"
        BY <1>8, <2>1, OldReplies, OnlyDecisions DEF Awaited
    <2>6. ASSUME c.kind # "snapshot", known' = known \/ known' = <<>>
          PROVE  Understood'
        <3>1. \A r : r \in DOMAIN known' => r \in DOMAIN known /\ known'[r] = known[r]
            BY <2>6
        <3>2. stage' # "closed" /\ ~lost' /\ doing' # "snapshot" =>
                \A r \in DOMAIN shown' : r \in DOMAIN known' => known'[r] = shown'[r]
            BY <2>2, <3>1 DEF Understood
        <3>3. ~lost' => \A i \in Acts' :
                outbox'[i].ref \in DOMAIN known' => known'[outbox'[i].ref] = outbox'[i].meant
            BY <2>2, <2>3, <3>1 DEF Understood, Acts
        <3>4. \A i \in Replies' : Awaited(i)' /\ doing = "snapshot" =>
                inbox'[i].value = "ok" /\ (known' = inbox'[i].map \/ known' = <<>>)
            <4> SUFFICES ASSUME NEW i \in Replies', inbox'[i].serial = waiting.serial, doing = "snapshot"
                         PROVE  inbox'[i].value = "ok" /\ (known' = inbox'[i].map \/ known' = <<>>)
                BY <2>2 DEF Awaited
            <4>1. i \in Replies
                BY <1>8, <2>6, NewReplies
            <4>2. inbox'[i] = inbox[i]
                BY <1>8, <4>1, OldReplies
            <4> QED
                BY <2>6, <4>1, <4>2 DEF Understood, Awaited
        <3> QED
            BY <2>2, <2>4, <3>2, <3>3, <3>4 DEF Understood
    <2>7. CASE ExecSnapshot(c)
        <3>1. c.kind = "snapshot" /\ known' = dom /\ inbox' = Append(inbox, Answer(c, "ok", 0, dom))
            BY <2>7 DEF ExecSnapshot
        <3>2. ~lost => waiting # NoCall /\ c.serial = waiting.serial /\ doing = "snapshot"
            BY <2>1, <3>1 DEF Understood, Ordered
        <3>3. ~lost => \A i \in DOMAIN outbox' : outbox'[i].kind = "decide"
            <4> SUFFICES ASSUME ~lost, NEW i \in DOMAIN outbox' PROVE outbox'[i].kind = "decide"
                OBVIOUS
            <4>1. c.serial < outbox'[i].serial
                BY <2>1, <2>3 DEF Ordered
            <4>2. c.serial \in Nat /\ outbox'[i].serial \in Nat
                BY <2>1, <2>3, Counts DEF Numbered
            <4>3. outbox'[i].kind # "decide" => outbox'[i].serial <= waiting.serial
                BY <2>3, <3>2 DEF Ordered
            <4> QED
                BY <3>2, <4>1, <4>2, <4>3
        <3>4. \A i \in Replies' : Awaited(i)' => inbox'[i].value = "ok" /\ known' = inbox'[i].map
            <4> SUFFICES ASSUME NEW i \in Replies', inbox'[i].serial = waiting.serial
                         PROVE  inbox'[i].value = "ok" /\ known' = inbox'[i].map
                BY <2>2 DEF Awaited
            <4>1. i \notin Replies
                BY <1>8, <2>5, <3>1, OldReplies DEF Awaited
            <4>2. Answer(c, "ok", 0, dom) \in Messages
                <5>1. c \in Commands
                    BY <1>8, Executing
                <5> QED
                    BY <5>1, AnswerTyped, DomTyped DEF Commands
            <4>3. Grows(inbox, inbox', Answer(c, "ok", 0, dom))
                BY <3>1, <4>2, AppendGrows DEF TypeOK
            <4>4. i = Len(inbox) + 1 /\ inbox'[i] = Answer(c, "ok", 0, dom)
                BY <4>1, <4>3 DEF Grows, Replies
            <4>5. Answer(c, "ok", 0, dom).value = "ok" /\ Answer(c, "ok", 0, dom).map = dom
                BY DEF Answer
            <4> QED
                BY <3>1, <4>4, <4>5
        <3> QED
            BY <2>2, <3>2, <3>3, <3>4 DEF Understood, Acts, OnRef
    <2>8. CASE \/ ExecNavigate(c) \/ ExecDecide(c) \/ ExecReady(c) \/ ExecRefuse(c) \/ ExecSelect(c)
               \/ ExecCenter(c) \/ ExecFocus(c) \/ ExecMouse(c) \/ ExecKeys(c)
        BY <2>6, <2>8 DEF ExecNavigate, ExecDecide, ExecReady, ExecRefuse, ExecSelect, ExecCenter, ExecFocus,
                          ExecMouse, ExecKeys, OnRef, Mouse, Keys, page
    <2> QED
        BY <1>8, <2>1, <2>7, <2>8 DEF Execute
<1>9. CASE Asks
    <2>1. PICK r \in Request : Grows(inbox, inbox', Event(r))
        BY <1>9, EventTyped, AppendGrows DEF Asks, TypeOK
    <2>2. \A i \in Replies' : i \in Replies /\ inbox'[i] = inbox[i]
        BY <2>1, Asked DEF Replies
    <2>3. UNCHANGED <<stage, doing, waiting, refs, known, shown, lost, outbox>>
        BY <1>9 DEF Asks, session, histories
    <2>4. \A i \in Replies' : Awaited(i)' /\ doing = "snapshot" =>
            inbox'[i].value = "ok" /\ (known = inbox'[i].map \/ known = <<>>)
        BY <2>2, <2>3 DEF Understood, Awaited
    <2> QED
        BY <2>3, <2>4 DEF Understood, Acts
<1> QED
    BY <1>1, <1>2, <1>3, <1>4, <1>5, <1>6, <1>7, <1>8, <1>9, Beginning DEF Next

(* A press is sent when its place was just found, a key when the focus was *)
(* just given; both are found again if the page moved.                     *)
LEMMA StepInPlace ==
  TypeOK /\ Numbered /\ Ordered /\ Decided /\ Understood /\ InPlace /\ [Next]_vars => InPlace'
<1> SUFFICES ASSUME TypeOK, Numbered, Ordered, Decided, Understood, InPlace, [Next]_vars PROVE InPlace'
    OBVIOUS
<1> DEFINE Behind == \A j \in Pressing \cup Typing : \A i \in 1..(j - 1) : outbox[i].kind = "decide"
<1>1. CASE Ready \/ Exits \/ UNCHANGED vars
    BY <1>1 DEF Ready, Exits, vars, session, wires, page, histories, InPlace, Pressing, Typing, Replies,
                Awaited, Second, At
<1>2. CASE Changes \/ Refocuses
    <2>1. UNCHANGED <<wires, doing, waiting, lost>>
        BY <1>2 DEF Changes, Refocuses, session
    <2>2. moved' = TRUE \/ UNCHANGED <<dom, moved>>
        BY <1>2 DEF Changes, Refocuses
    <2>3. refocused' = TRUE \/ UNCHANGED <<focus, refocused>>
        BY <1>2 DEF Changes, Refocuses
    <2> QED
        BY <2>1, <2>2, <2>3 DEF InPlace, Pressing, Typing, wires, Replies, Awaited, Second, At
<1>3. CASE Close
    <2>1. DOMAIN outbox' = {} /\ DOMAIN inbox' = {}
        BY <1>3 DEF Close, Gone
    <2> QED
        BY <2>1 DEF InPlace, Pressing, Typing, Replies
<1>4. ASSUME NEW kind, NEW ref, NEW meant, NEW r, Grows(outbox, outbox', Message(kind, ref, meant, r)),
             kind \in Mouse \cup Keys => \A j \in DOMAIN outbox : outbox[j].kind = "decide"
      PROVE  Behind'
    <2> SUFFICES ASSUME NEW j \in (Pressing \cup Typing)', NEW i \in 1..(j - 1) PROVE outbox'[i].kind = "decide"
        OBVIOUS
    <2>1. /\ DOMAIN outbox = 1..Len(outbox) /\ DOMAIN outbox' = 1..(Len(outbox) + 1) /\ Len(outbox) \in Nat
          /\ \A k \in DOMAIN outbox : outbox'[k] = outbox[k]
        BY <1>4 DEF Grows
    <2>2. j \in DOMAIN outbox' /\ outbox'[j].kind \in Mouse \cup Keys
        BY DEF Pressing, Typing
    <2>3. i \in DOMAIN outbox
        BY <2>1, <2>2
    <2>4. CASE j \in DOMAIN outbox
        <3>1. j \in Pressing \cup Typing
            BY <2>1, <2>2, <2>4 DEF Pressing, Typing
        <3> QED
            BY <2>1, <2>3, <3>1 DEF InPlace
    <2>5. CASE j \notin DOMAIN outbox
        BY <1>4, <2>1, <2>2, <2>3, <2>5, Sent
    <2> QED
        BY <2>4, <2>5
<1>5. ASSUME Behind', UNCHANGED <<doing, lost, moved, refocused, dom, focus>>,
             \A j \in (Pressing \cup Typing)' : j \in DOMAIN outbox /\ outbox'[j] = outbox[j],
             \A i \in Replies' : Awaited(i)' => \E k \in Replies : Awaited(k) /\ inbox'[i] = inbox[k]
      PROVE  InPlace'
    <2>1. Pressing' \subseteq Pressing /\ Typing' \subseteq Typing
        BY <1>5 DEF Pressing, Typing
    <2>3. ~lost' /\ ~moved' => \A j \in Pressing' : At(dom', outbox'[j].ref, outbox'[j].meant)
        BY <1>5, <2>1 DEF InPlace, At
    <2>4. ~lost' /\ ~refocused' => \A j \in Typing' : focus' = outbox'[j].meant
        BY <1>5, <2>1 DEF InPlace
    <2>5. ~lost' /\ ~moved' => \A i \in Replies' :
            Second(i)' /\ doing' \in {"center", "press"} => At(dom', inbox'[i].place, inbox'[i].meant)
        BY <1>5 DEF InPlace, At, Second
    <2>6. ~lost' /\ ~refocused' => \A i \in Replies' :
            Second(i)' /\ doing' \in {"focus", "key"} => focus' = inbox'[i].meant
        BY <1>5 DEF InPlace, Second
    <2> QED
        BY <1>5, <2>3, <2>4, <2>5, <2>6 DEF InPlace, At
<1>6. CASE Begins
    <2>1. PICK kind \in {"navigate", "snapshot"} \cup OnRef, ref \in Nat, meant \in Marks : Begin(kind, ref, meant)
        BY <1>6 DEF Begins
    <2>2. kind \in Calls /\ kind \notin Mouse \cup Keys
        BY DEF Calls, OnRef, Mouse, Keys
    <2>3. /\ Grows(outbox, outbox', Message(kind, ref, meant, 0)) /\ waiting'.serial = sent + 1
          /\ UNCHANGED <<inbox, lost, moved, refocused, dom, focus>>
        BY <2>1, <2>2, Calling DEF Begin, page
    <2>4. Behind'
        BY <1>4, <2>2, <2>3
    <2>5. \A j \in (Pressing \cup Typing)' : j \in Pressing \cup Typing /\ outbox'[j] = outbox[j]
        BY <2>2, <2>3, Sent DEF Pressing, Typing
    <2>6. Pressing' \subseteq Pressing /\ Typing' \subseteq Typing
        BY <2>5 DEF Pressing, Typing
    <2>7. \A i \in Replies' : ~Awaited(i)'
        BY <2>3, Counts DEF Awaited, Replies, Numbered
    <2> QED
        BY <2>3, <2>4, <2>5, <2>6, <2>7 DEF InPlace, At, Second
<1>7. CASE Reply
    <2>1. /\ 1 \in Replies /\ inbox[1].id = waiting.id
          /\ inbox[1].place \in Nat /\ inbox[1].meant \in Marks
          /\ Continues \/ Ends
        BY <1>7, Replying
    <2>2. UNCHANGED <<dom, moved, focus, refocused>> /\ inbox[1].serial = waiting.serial
        BY <1>7, <2>1 DEF Reply, page, Numbered
    <2>3. \A j \in DOMAIN outbox : outbox[j].kind = "decide"
        BY <2>1, <2>2, OnlyDecisions
    <2>4. ASSUME Call("ready", 0, Nothing) PROVE InPlace'
        <3>1. Grows(outbox, outbox', Message("ready", 0, Nothing, 0)) /\ doing' = "ready"
            BY <2>4, Calling, NothingIsAMark DEF Calls
        <3>2. Pressing' = {} /\ Typing' = {}
            BY <2>3, <3>1, Sent DEF Pressing, Typing, Mouse, Keys
        <3> QED
            BY <3>1, <3>2 DEF InPlace
    <2>5. ASSUME NEW kind \in Following(doing), inbox[1].value # "stale", UNCHANGED lost,
                 Call(kind, inbox[1].place, inbox[1].meant)
          PROVE  InPlace'
        <3>1. Grows(outbox, outbox', Message(kind, inbox[1].place, inbox[1].meant, 0)) /\ waiting'.serial = sent + 1
            BY <2>1, <2>5, Calling, FollowingCalls
        <3>2. Behind'
            BY <1>4, <2>3, <3>1
        <3>3. \A j \in (Pressing \cup Typing)' : outbox'[j].ref = inbox[1].place /\ outbox'[j].meant = inbox[1].meant
                                               /\ outbox'[j].kind = kind
            BY <2>3, <3>1, Sent DEF Pressing, Typing, Mouse, Keys
        <3>4. Pressing' # {} => doing \in {"center", "press"}
            BY <3>3 DEF Pressing, Mouse, Following
        <3>5. Typing' # {} => doing \in {"focus", "key"}
            BY <3>3 DEF Typing, Keys, Following
        <3>6. Second(1)
            BY <2>1, <2>2, <2>5 DEF Second, Awaited
        <3>7. ~lost /\ ~moved /\ doing \in {"center", "press"} => At(dom, inbox[1].place, inbox[1].meant)
            BY <2>1, <3>6 DEF InPlace
        <3>8. ~lost /\ ~refocused /\ doing \in {"focus", "key"} => focus = inbox[1].meant
            BY <2>1, <3>6 DEF InPlace
        <3>9. \A i \in Replies' : ~Awaited(i)'
            <4>1. ReadOnly
                BY <1>7, Replying DEF ReadOnly
            <4> QED
                BY <3>1, <4>1, RepliesLeft, Counts DEF Awaited, Numbered
        <3>10. ~lost' /\ ~moved' => \A j \in Pressing' : At(dom', outbox'[j].ref, outbox'[j].meant)
            BY <2>2, <2>5, <3>3, <3>4, <3>7 DEF At
        <3>11. ~lost' /\ ~refocused' => \A j \in Typing' : focus' = outbox'[j].meant
            BY <2>2, <2>5, <3>3, <3>5, <3>8
        <3> QED
            BY <3>2, <3>9, <3>10, <3>11 DEF InPlace, Second, At
    <2>6. CASE Ends
        <3>1. outbox' = outbox /\ doing' = "idle"
            BY <2>6 DEF Ends, Idle
        <3>2. Pressing' = {} /\ Typing' = {}
            BY <2>3, <3>1 DEF Pressing, Typing, Mouse, Keys
        <3> QED
            BY <3>1, <3>2 DEF InPlace
    <2> QED
        BY <2>1, <2>4, <2>5, <2>6 DEF Continues
<1>8. CASE PassOver
    <2>1. ReadOnly /\ UNCHANGED <<outbox, doing, waiting, dom, focus, lost, moved, refocused>>
        BY <1>8, Reading DEF PassOver, ReadOnly, session, page, histories
    <2>2. \A i \in Replies' : Awaited(i)' => \E k \in Replies : Awaited(k) /\ inbox'[i] = inbox[k]
        BY <2>1, RepliesLeft DEF Awaited
    <2>3. Behind' /\ \A j \in (Pressing \cup Typing)' : j \in DOMAIN outbox /\ outbox'[j] = outbox[j]
        BY <2>1 DEF InPlace, Pressing, Typing
    <2> QED
        BY <1>5, <2>1, <2>2, <2>3
<1>9. CASE Decide
    <2>1. ReadOnly /\ UNCHANGED <<doing, waiting, dom, focus, lost, moved, refocused>>
        BY <1>9, Reading DEF Decide, ReadOnly, page
    <2>2. Grows(outbox, outbox', Message("decide", 0, Nothing, inbox[1].request)) /\ "decide" \notin Mouse \cup Keys
        BY <1>9, Deciding DEF Mouse, Keys
    <2>3. Behind'
        BY <1>4, <2>2
    <2>4. \A j \in (Pressing \cup Typing)' : j \in DOMAIN outbox /\ outbox'[j] = outbox[j]
        BY <2>2, Sent DEF Pressing, Typing
    <2>5. \A i \in Replies' : Awaited(i)' => \E k \in Replies : Awaited(k) /\ inbox'[i] = inbox[k]
        BY <2>1, RepliesLeft DEF Awaited
    <2> QED
        BY <1>5, <2>1, <2>3, <2>4, <2>5
<1>10. CASE GiveUp
    <2>1. UNCHANGED <<outbox, dom, focus, moved, refocused>> /\ doing' = "idle" /\ (lost => lost')
        BY <1>10 DEF GiveUp, Idle, page, wires
    <2> QED
        BY <2>1 DEF InPlace, Pressing, Typing, At
<1>11. CASE Execute
    <2> DEFINE c == outbox[1]
    <2>1. /\ Shrinks(outbox, outbox') /\ 1 \in DOMAIN outbox
          /\ c = Head(outbox) /\ c \in Commands
        BY <1>11, Executing
    <2>2. UNCHANGED <<doing, waiting, lost>>
        BY <1>11 DEF Execute, session
    <2>3. \A j \in (Pressing \cup Typing)' :
            j + 1 \in Pressing \cup Typing /\ outbox'[j] = outbox[j + 1] /\ j \in Nat \ {0}
        BY <2>1 DEF Shrinks, Pressing, Typing
    <2>4. Behind'
        <3> SUFFICES ASSUME NEW j \in (Pressing \cup Typing)', NEW i \in 1..(j - 1) PROVE outbox'[i].kind = "decide"
            OBVIOUS
        <3>1. i \in DOMAIN outbox' /\ i + 1 \in 1..((j + 1) - 1)
            BY <2>1, <2>3 DEF Shrinks, Pressing, Typing
        <3>2. outbox'[i] = outbox[i + 1]
            BY <2>1, <3>1 DEF Shrinks
        <3> QED
            BY <2>3, <3>1, <3>2 DEF InPlace
    <2>5. (Pressing \cup Typing)' # {} => c.kind = "decide"
        <3> SUFFICES ASSUME NEW j \in (Pressing \cup Typing)' PROVE c.kind = "decide"
            OBVIOUS
        <3>1. j + 1 \in Pressing \cup Typing /\ 1 \in 1..((j + 1) - 1)
            BY <2>3
        <3> QED
            BY <3>1 DEF InPlace
    <2>6. \A i \in Replies : Awaited(i) => c.kind = "decide"
        BY <2>1, OnlyDecisions DEF Awaited
    (* A reply waited for that is there already stays, and what it says    *)
    (* with it; a new one is the answer to c.                              *)
    <2>7. ASSUME NEW i \in Replies', Awaited(i)'
          PROVE  \/ i \in Replies /\ Awaited(i) /\ inbox'[i] = inbox[i]
                 \/ i \notin Replies /\ (doing = c.kind \/ doing = "navigate")
        BY <1>11, <2>2, <2>7, NewReplies, OldReplies DEF Awaited
    <2>8. ASSUME \/ UNCHANGED <<dom, moved>> /\ c.kind \notin {"center", "press"}
                 \/ moved' = TRUE
          PROVE  /\ ~lost' /\ ~moved' => \A j \in Pressing' : At(dom', outbox'[j].ref, outbox'[j].meant)
                 /\ ~lost' /\ ~moved' => \A i \in Replies' :
                      Second(i)' /\ doing' \in {"center", "press"} => At(dom', inbox'[i].place, inbox'[i].meant)
        <3>1. CASE moved' = TRUE
            BY <3>1
        <3>2. CASE UNCHANGED <<dom, moved>> /\ c.kind \notin {"center", "press"}
            <4>1. \A j \in Pressing' : j + 1 \in Pressing
                BY <2>1, <2>3 DEF Shrinks, Pressing
            <4>2. ~lost' /\ ~moved' => \A j \in Pressing' : At(dom', outbox'[j].ref, outbox'[j].meant)
                BY <2>2, <2>3, <3>2, <4>1 DEF InPlace, At
            <4>3. ~lost' /\ ~moved' => \A i \in Replies' :
                    Second(i)' /\ doing' \in {"center", "press"} => At(dom', inbox'[i].place, inbox'[i].meant)
                BY <2>2, <2>7, <3>2 DEF InPlace, At, Second
            <4> QED
                BY <4>2, <4>3
        <3> QED
            BY <2>8, <3>1, <3>2
    <2>9. ASSUME \/ UNCHANGED <<focus, refocused>> /\ c.kind \notin {"focus", "key"}
                 \/ refocused' = TRUE
          PROVE  /\ ~lost' /\ ~refocused' => \A j \in Typing' : focus' = outbox'[j].meant
                 /\ ~lost' /\ ~refocused' => \A i \in Replies' :
                      Second(i)' /\ doing' \in {"focus", "key"} => focus' = inbox'[i].meant
        <3>1. CASE refocused' = TRUE
            BY <3>1
        <3>2. CASE UNCHANGED <<focus, refocused>> /\ c.kind \notin {"focus", "key"}
            <4>1. \A j \in Typing' : j + 1 \in Typing
                BY <2>1, <2>3 DEF Shrinks, Typing
            <4>2. ~lost' /\ ~refocused' => \A j \in Typing' : focus' = outbox'[j].meant
                BY <2>2, <2>3, <3>2, <4>1 DEF InPlace
            <4>3. ~lost' /\ ~refocused' => \A i \in Replies' :
                    Second(i)' /\ doing' \in {"focus", "key"} => focus' = inbox'[i].meant
                BY <2>2, <2>7, <3>2 DEF InPlace, Second
            <4> QED
                BY <4>2, <4>3
        <3> QED
            BY <2>9, <3>1, <3>2
    (* What the answer to a command that is no decision carries.           *)
    <2>10. ASSUME NEW value \in {"ok", "found", "stale"}, NEW place \in Nat,
                  inbox' = Append(inbox, Answer(c, value, place, <<>>)),
                  c.kind # "decide", NEW i \in Replies', Awaited(i)'
           PROVE  inbox'[i].value = value /\ inbox'[i].place = place /\ inbox'[i].meant = c.meant
        <3>1. i \notin Replies
            BY <2>6, <2>7, <2>10
        <3>2. Answer(c, value, place, <<>>) \in Messages
            BY <2>1, AnswerTyped, EmptySeq DEF Commands
        <3>3. Grows(inbox, inbox', Answer(c, value, place, <<>>))
            BY <2>10, <3>2, AppendGrows DEF TypeOK
        <3>4. inbox'[i] = Answer(c, value, place, <<>>)
            BY <3>1, <3>3 DEF Grows, Replies
        <3> QED
            BY <3>4 DEF Answer
    <2>11. ASSUME c.kind # "decide", UNCHANGED <<dom, focus>>,
                  NEW value \in {"ok", "found", "stale"}, NEW place \in Nat,
                  inbox' = Append(inbox, Answer(c, value, place, <<>>)),
                  ~lost /\ ~moved' /\ value # "stale" /\ c.kind \in {"center", "press"} => At(dom, place, c.meant),
                  ~lost /\ ~refocused' /\ value # "stale" /\ c.kind \in {"focus", "key"} => focus' = c.meant
           PROVE  InPlace'
        <3>1. (Pressing \cup Typing)' = {} /\ Pressing' = {} /\ Typing' = {}
            BY <2>5, <2>11
        <3>2. \A i \in Replies' : Awaited(i)' =>
                /\ inbox'[i].value = value /\ inbox'[i].place = place /\ inbox'[i].meant = c.meant
                /\ doing = c.kind \/ doing = "navigate"
            BY <2>6, <2>7, <2>10, <2>11
        <3> QED
            BY <2>2, <2>11, <3>1, <3>2 DEF InPlace, At, Second
    <2>12. CASE ExecRefuse(c)
        BY <2>11, <2>12 DEF ExecRefuse, OnRef, page
    <2>13. CASE ExecSelect(c)
        BY <2>11, <2>13 DEF ExecSelect, page
    <2>14. ASSUME Found(c.ref), c.kind \in OnRef, ~lost PROVE known[c.ref] = c.meant
        BY <2>1, <2>14 DEF Understood, Acts, Found
    <2>15. CASE ExecCenter(c)
        <3>1. Found(c.ref) /\ c.kind = "center" /\ c.kind \in OnRef /\ UNCHANGED <<dom, focus>>
            BY <2>15 DEF ExecCenter, OnRef, page
        <3>2. PlaceOf(known[c.ref]) \in Nat /\ At(dom, PlaceOf(known[c.ref]), known[c.ref])
            BY <3>1, DomTyped, LenProperties DEF Found, Present, PlaceOf, At
        <3>3. inbox' = Append(inbox, Answer(c, "found", PlaceOf(known[c.ref]), <<>>))
            BY <2>15 DEF ExecCenter
        <3>4. ~lost => At(dom, PlaceOf(known[c.ref]), c.meant)
            BY <2>14, <3>1, <3>2
        <3> QED
            BY <2>11, <3>1, <3>2, <3>3, <3>4
    <2>16. CASE ExecFocus(c)
        <3>1. Found(c.ref) /\ c.kind = "focus" /\ c.kind \in OnRef /\ UNCHANGED dom /\ focus' = known[c.ref]
            BY <2>16 DEF ExecFocus, OnRef
        <3>2. inbox' = Append(inbox, Answer(c, "found", 0, <<>>))
            BY <2>16 DEF ExecFocus
        <3>3. ~lost => focus' = c.meant
            BY <2>14, <3>1
        <3>4. Pressing' = {} /\ Typing' = {}
            BY <2>5, <3>1
        <3>5. \A i \in Replies' : Awaited(i)' =>
                inbox'[i].meant = c.meant /\ (doing = c.kind \/ doing = "navigate")
            BY <2>6, <2>7, <2>10, <3>1, <3>2
        <3> QED
            BY <2>2, <3>1, <3>3, <3>4, <3>5 DEF InPlace, Second
    <2>17. CASE ExecMouse(c)
        <3>1. /\ c.kind \in Mouse /\ UNCHANGED <<dom, focus, moved>> /\ c.ref \in Nat
              /\ inbox' = Append(inbox, Answer(c, "ok", c.ref, <<>>))
            BY <2>1, <2>17 DEF ExecMouse, page, Commands
        <3>2. ~lost /\ ~moved => At(dom, c.ref, c.meant)
            BY <2>1, <3>1 DEF InPlace, Pressing
        <3>3. c.kind \notin {"decide", "focus", "key"}
            BY <3>1 DEF Mouse
        <3> QED
            BY <2>11, <3>1, <3>2, <3>3
    <2>18. CASE ExecKeys(c)
        <3>1. /\ c.kind \in Keys /\ UNCHANGED <<dom, focus, refocused>>
              /\ inbox' = Append(inbox, Answer(c, "ok", 0, <<>>))
            BY <2>18 DEF ExecKeys, page
        <3>2. ~lost /\ ~refocused => focus = c.meant
            BY <2>1, <3>1 DEF InPlace, Typing
        <3>3. c.kind \notin {"decide", "center", "press"}
            BY <3>1 DEF Keys
        <3> QED
            BY <2>11, <3>1, <3>2, <3>3
    <2>19. CASE ExecNavigate(c) \/ ExecReady(c) \/ ExecSnapshot(c)
        <3>1. UNCHANGED <<dom, focus, moved, refocused>> /\ c.kind \notin {"center", "press", "focus", "key"}
            BY <2>19 DEF ExecNavigate, ExecReady, ExecSnapshot, page
        <3> QED
            BY <2>4, <2>8, <2>9, <3>1 DEF InPlace, At
    <2>20. CASE ExecDecide(c)
        <3>1. c.kind = "decide"
            BY <2>20 DEF ExecDecide
        <3>2. CASE going # NoCall /\ going.request = c.request /\ c.request \in Admitted
            <4>1. moved' = TRUE /\ refocused' = TRUE
                BY <2>20, <3>2 DEF ExecDecide
            <4> QED
                BY <2>4, <2>8, <2>9, <4>1 DEF InPlace, At
        <3>3. CASE ~(going # NoCall /\ going.request = c.request /\ c.request \in Admitted)
            <4>1. UNCHANGED <<dom, focus, moved, refocused>>
                BY <2>20, <3>3 DEF ExecDecide, TypeOK
            <4> QED
                BY <2>4, <2>8, <2>9, <3>1, <4>1 DEF InPlace, At
        <3> QED
            BY <3>2, <3>3
    <2> QED
        BY <1>11, <2>1, <2>12, <2>13, <2>15, <2>16, <2>17, <2>18, <2>19, <2>20 DEF Execute
<1>12. CASE Asks
    <2>1. PICK r \in Request : Grows(inbox, inbox', Event(r))
        BY <1>12, EventTyped, AppendGrows DEF Asks, TypeOK
    <2>2. \A i \in Replies' : i \in Replies /\ inbox'[i] = inbox[i]
        BY <2>1, Asked DEF Replies
    <2>3. UNCHANGED <<doing, waiting, lost, moved, refocused, dom, focus, outbox>>
        BY <1>12 DEF Asks, session, histories
    <2>4. \A i \in Replies' : Awaited(i)' => \E k \in Replies : Awaited(k) /\ inbox'[i] = inbox[k]
        BY <2>2, <2>3 DEF Awaited
    <2>5. Behind' /\ \A j \in (Pressing \cup Typing)' : j \in DOMAIN outbox /\ outbox'[j] = outbox[j]
        BY <2>3 DEF InPlace, Pressing, Typing
    <2> QED
        BY <1>5, <2>3, <2>4, <2>5
<1> QED
    BY <1>1, <1>2, <1>3, <1>6, <1>7, <1>8, <1>9, <1>10, <1>11, <1>12, Beginning DEF Next

LEMMA StepOwnReply == TypeOK /\ Numbered /\ OwnReply /\ [Next]_vars => OwnReply'
<1> SUFFICES ASSUME TypeOK, Numbered, OwnReply, [Next]_vars PROVE OwnReply'
    OBVIOUS
<1>1. CASE Reply
    <2>1. 1 \in Replies /\ inbox[1].id = waiting.id /\ mixed' = (mixed \/ inbox[1].serial # waiting.serial)
        BY <1>1, Replying
    <2> QED
        BY <2>1 DEF Numbered, OwnReply
<1>2. CASE Close
    BY <1>2 DEF Close, Gone, histories, OwnReply
<1>3. CASE Navigate \/ TakeSnapshot \/ \E kind \in OnRef, ref \in 1..Cardinality(Element) : Act(kind, ref)
    BY <1>3 DEF Navigate, TakeSnapshot, Act, Begin, OwnReply
<1>4. CASE Ready \/ Exits \/ PassOver \/ Decide \/ GiveUp \/ Execute \/ Changes \/ Refocuses \/ Asks
               \/ UNCHANGED vars
    BY <1>4 DEF Ready, Exits, PassOver, Decide, GiveUp, Execute, Changes, Refocuses, Asks, vars, histories, OwnReply
<1> QED
    BY <1>1, <1>2, <1>3, <1>4 DEF Next

LEMMA NoMiss == hit' = NoAct => ActsOnShown'
  BY DEF NoAct, ActsOnShown

LEMMA StepActs == TypeOK /\ Understood /\ InPlace /\ ActsOnShown /\ [Next]_vars => ActsOnShown'
<1> SUFFICES ASSUME TypeOK, Understood, InPlace, ActsOnShown, [Next]_vars PROVE ActsOnShown'
    OBVIOUS
<1>1. CASE Execute
    <2> DEFINE c == outbox[1]
    <2>1. 1 \in DOMAIN outbox /\ c = Head(outbox)
        BY <1>1, Executing
    <2>2. CASE ExecSelect(c)
        <3>1. Found(c.ref) /\ c.kind = "select" /\ Hit(c, known[c.ref], FALSE, FALSE)
            BY <2>2 DEF ExecSelect
        <3>2. ~lost => known[c.ref] = c.meant
            BY <2>1, <3>1 DEF Found, Understood, Acts, OnRef
        <3> QED
            BY <3>1, <3>2 DEF ActsOnShown, Hit
    <2>3. CASE ExecMouse(c)
        <3>1. PICK hidden \in BOOLEAN : \E element \in Topmost(c.ref, hidden) : Hit(c, element, moved, hidden)
            BY <2>3 DEF ExecMouse
        <3>0. PICK element \in Topmost(c.ref, hidden) : Hit(c, element, moved, hidden)
            BY <3>1
        <3>2. ~lost /\ ~moved => At(dom, c.ref, c.meant)
            BY <2>1, <2>3 DEF ExecMouse, InPlace, Pressing
        <3>3. ~lost /\ ~moved /\ ~hidden => element = c.meant
            BY <3>0, <3>2 DEF Topmost, At
        <3>4. c.kind \in Mouse
            BY <2>3 DEF ExecMouse
        <3> QED
            BY <3>0, <3>3, <3>4 DEF ActsOnShown, Hit
    <2>4. CASE ExecKeys(c)
        <3>1. ~lost /\ ~refocused => focus = c.meant
            BY <2>1, <2>4 DEF ExecKeys, InPlace, Typing
        <3>2. c.kind \in Keys /\ Hit(c, focus, refocused, FALSE)
            BY <2>4 DEF ExecKeys
        <3> QED
            BY <3>1, <3>2 DEF ActsOnShown, Hit
    <2>5. CASE \/ ExecNavigate(c) \/ ExecDecide(c) \/ ExecReady(c) \/ ExecSnapshot(c)
               \/ ExecRefuse(c) \/ ExecCenter(c) \/ ExecFocus(c)
        <3>1. hit' = NoAct
            BY <2>5 DEF ExecNavigate, ExecDecide, ExecReady, ExecSnapshot, ExecRefuse, ExecCenter, ExecFocus
        <3> QED
            BY <3>1, NoMiss
    <2> QED
        BY <1>1, <2>1, <2>2, <2>3, <2>4, <2>5 DEF Execute
<1>2. CASE Reply
    BY <1>2, Replying, NoMiss
<1>3. CASE Close
    BY <1>3 DEF Close, Gone, histories, ActsOnShown
<1>4. CASE Navigate \/ TakeSnapshot \/ \E kind \in OnRef, ref \in 1..Cardinality(Element) : Act(kind, ref)
    BY <1>4 DEF Navigate, TakeSnapshot, Act, Begin, ActsOnShown
<1>5. CASE Ready \/ Exits \/ PassOver \/ Decide \/ GiveUp \/ Changes \/ Refocuses \/ Asks \/ UNCHANGED vars
    BY <1>5 DEF Ready, Exits, PassOver, Decide, GiveUp, Changes, Refocuses, Asks, vars, histories, ActsOnShown
<1> QED
    BY <1>1, <1>2, <1>3, <1>4, <1>5 DEF Next

----------------------------------------------------------------------------
(* The theorems.                                                           *)

IInv ==
  /\ TypeOK /\ Numbered /\ Ordered /\ Decided /\ Understood /\ InPlace
  /\ OwnReply /\ ActsOnShown

LEMMA InitIInv == Init => IInv
<1> SUFFICES ASSUME Init PROVE IInv
    OBVIOUS
<1>1. <<>> \in Layouts(0)
    <2>1. 0 \in 0..Cardinality(Element)
        BY FS_CardinalityType, BrowserAssumption DEF BrowserAssumption
    <2>2. <<>> \in [1..0 -> Places(0)]
        OBVIOUS
    <2>3. <<>> \in Doms(0)
        BY <2>1, <2>2 DEF Doms
    <2> QED
        BY <2>3 DEF Layouts, IsInjective
<1>2. TypeOK
    <2>1. focus \in Marks
        BY NothingIsAMark DEF Init
    <2>2. /\ outbox \in Seq(Commands) /\ inbox \in Seq(Messages)
          /\ known \in Seq(Marks) /\ shown \in Seq(Marks)
        BY EmptySeq DEF Init
    <2>3. waiting \in [id : Nat, serial : Nat]
        BY DEF Init, NoCall
    <2>4. dom \in Layouts(doc) /\ doc \in Nat
        BY <1>1 DEF Init
    <2>6. hit \in Landings
        BY NoActTyped DEF Init
    <2>7. attempts \in 0..MaxAttempts /\ sent \in 0..MaxCalls /\ changes \in 0..MaxChanges
        BY BrowserAssumption DEF BrowserAssumption, Init
    <2> QED
        BY <2>1, <2>2, <2>3, <2>4, <2>6, <2>7 DEF Init, TypeOK
<1>3. DOMAIN outbox = {} /\ DOMAIN inbox = {} /\ DOMAIN shown = {}
    BY DEF Init
<1>4. Numbered /\ Ordered
    BY <1>3 DEF Init, Numbered, Ordered, Replies, NoCall
<1>5. Decided
    BY <1>3 DEF Init, Decided
<1>6. Understood
    BY <1>3, EmptySeq DEF Init, Understood, Acts, Replies
<1>7. InPlace
    BY <1>3 DEF InPlace, Pressing, Typing, Replies
<1>8. OwnReply /\ ActsOnShown
    BY DEF Init, OwnReply, ActsOnShown, NoAct
<1> QED
    BY <1>2, <1>4, <1>5, <1>6, <1>7, <1>8 DEF IInv

(* The types, the numbers of commands, what is decided and what commands   *)
(* mean hold in every reachable state.                                     *)
THEOREM Invariance == Spec => []IInv
<1>1. IInv /\ [Next]_vars => IInv'
    BY StepTypes, StepNumbered, StepOrdered, StepDecided, StepUnderstood, StepInPlace,
       StepOwnReply, StepActs DEF IInv
<1> QED
    BY InitIInv, <1>1, PTL DEF Spec

(* Every variable has its type, for any page, requests and policy.         *)
THEOREM TypeCorrect == Spec => []TypeOK
<1>1. IInv => TypeOK
    BY DEF IInv
<1> QED
    BY Invariance, <1>1, PTL

(* A call takes the reply to its own command, however many calls were      *)
(* given up and decisions sent in between (CdpSession.call).               *)
THEOREM RepliesOwned == Spec => []OwnReply
<1>1. IInv => OwnReply
    BY DEF IInv
<1> QED
    BY Invariance, <1>1, PTL

(* A paused request has one decision coming, and one that is not held has   *)
(* none (CdpSession._event, _answer_request).                              *)
THEOREM RequestsDecided == Spec => []EveryRequestDecided
<1>1. ASSUME IInv, NEW r \in Request
      PROVE  Cardinality(Events(r)) + Cardinality(Decisions(r)) = IF r \in paused THEN 1 ELSE 0
    <2>1. /\ Events(r) = {i \in DOMAIN inbox : IsEvent(i, r)}
          /\ Decisions(r) = {i \in DOMAIN outbox : IsDecision(i, r)}
        BY DEF Events, Decisions, IsEvent, IsDecision
    <2>2. Cardinality({}) = 0 /\ \A i : Cardinality({i}) = 1
        BY FS_EmptySet, FS_Singleton
    <2>3. CASE r \notin paused
        <3>1. Events(r) = {} /\ Decisions(r) = {}
            BY <1>1, <2>1, <2>3 DEF IInv, Decided, IsEvent, IsDecision
        <3> QED
            BY <2>2, <2>3, <3>1
    <2>4. ASSUME r \in paused, NEW i \in DOMAIN inbox, IsEvent(i, r)
          PROVE  Cardinality(Events(r)) + Cardinality(Decisions(r)) = 1
        <3>1. Events(r) = {i} /\ Decisions(r) = {}
            BY <1>1, <2>1, <2>4 DEF IInv, Decided
        <3> QED
            BY <2>2, <3>1
    <2>5. ASSUME r \in paused, NEW i \in DOMAIN outbox, IsDecision(i, r)
          PROVE  Cardinality(Events(r)) + Cardinality(Decisions(r)) = 1
        <3>1. Events(r) = {} /\ Decisions(r) = {i}
            BY <1>1, <2>1, <2>5 DEF IInv, Decided
        <3>2. Cardinality(Events(r)) = 0 /\ Cardinality(Decisions(r)) = 1
            BY <2>2, <3>1
        <3> QED
            BY <3>2
    <2> QED
        BY <1>1, <2>3, <2>4, <2>5 DEF IInv, Decided
<1>2. IInv => EveryRequestDecided
    BY <1>1 DEF EveryRequestDecided
<1> QED
    BY Invariance, <1>2, PTL

(* An act lands on what the model was shown under its ref, but for the     *)
(* exceptions ActsOnShown names by the kind of act: the mouse after a move *)
(* of the page or over a hidden element, keys after a move of the focus    *)
(* (BrowserSession.click, type, select; window.__agent_refs__).            *)
THEOREM ActsAsShown == Spec => []ActsOnShown
<1>1. IInv => ActsOnShown
    BY DEF IInv
<1> QED
    BY Invariance, <1>1, PTL
=============================================================================
