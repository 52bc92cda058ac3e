------------------------ MODULE AnswerDeliveryProofs ------------------------
(***************************************************************************)
(* Proofs about the delivery of answers (AnswerDelivery): what a person    *)
(* watches is one attempt of the model, nothing half is left when the      *)
(* handler is done, what has arrived stays, and a turn that ends as        *)
(* answered has put every text in front of the person, whole.              *)
(***************************************************************************)
EXTENDS AnswerDelivery, SequenceTheorems, FiniteSetTheorems, TLAPS

(* Text is let out of one attempt, and after it nothing is sent again.     *)
Streaming ==
  /\ voices \subseteq {attempt}
  /\ voices # {} => received
  /\ request = "open" => voices = {}

(* The worker knows of every status and preview, or it is stuck; and what  *)
(* it knows of is that: its preview became the first piece while more of   *)
(* them are appended.                                                      *)
Pictured ==
  /\ \A m \in DOMAIN chat :
       chat[m].kind \in {"status", "preview"} => m \in stuck \cup {status, preview.msg}
  /\ status # 0 => chat[status].kind = "status"
  /\ preview.msg # 0 =>
       IF phase = "append" THEN chat[preview.msg] = Piece(1) ELSE chat[preview.msg].kind = "preview"
  /\ phase \in {"edit", "append"} => preview.msg # 0
  /\ phase = "send" => preview.msg = 0
  /\ phase \in Resting \cup {"dead", "sorry"} => status = 0 /\ preview.msg = 0

(* A model call is within the budget; the text being sent is the last one  *)
(* committed, and the pieces before the next one are in the chat.          *)
Carrying ==
  /\ phase = "stream" => completions < MaxCompletions
  /\ item.body # None => produced # <<>> /\ produced[Len(produced)] = item.body
  /\ phase \in {"edit", "append", "send"} =>
       /\ item.body # None /\ piece \in 1..PiecesOf[item.body]
       /\ phase = "edit" => piece = 1
       /\ \A k \in 1..(piece - 1) : \E m \in DOMAIN chat : chat[m] = Piece(k)

(* The text the worker has not sent whole yet.                             *)
InHand ==
  IF phase \in {"deliver", "edit", "append", "send"} /\ item.body # None
  THEN {Len(produced)} ELSE {}

(* A text that arrived, and no preview is about to become its first piece. *)
Firm(j) == Arrived(j) /\ (j \in InHand => preview.msg = 0)

(* What a worker has delivered has arrived, at a place nobody works at;    *)
(* and a worker that is done, or dead, remembers nothing.                  *)
Reached(body) == \E j \in DOMAIN produced \ InHand : produced[j] = body /\ Arrived(j)
Remembered ==
  /\ \A body \in delivered : Reached(body)
  /\ phase \in Resting \cup {"dead", "sorry"} => delivered = {}

(* The texts that did not arrive cost a death each, but the one in hand; a *)
(* failed send has one it has not paid for yet.                            *)
Missing ==
  {i \in DOMAIN produced : ~\E j \in DOMAIN produced : produced[j] = produced[i] /\ Firm(j)}
Owed == deaths + (IF phase \in {"raising", "given up"} THEN 1 ELSE 0)
Covered == Cardinality(Missing \ InHand) <= Owed

----------------------------------------------------------------------------
(* What a call does to the chat.                                           *)

(* Messages of S are gone, or stuck; the others are as they were.          *)
Cleared(S) ==
  /\ chat' \in Seq(Messages) /\ Len(chat') = Len(chat)
  /\ stuck \subseteq stuck' /\ stuck' \subseteq 1..Len(chat)
  /\ faults' \in 0..MaxFaults
  /\ \A m \in 1..Len(chat) :
       /\ chat'[m] = chat[m] \/ (m \in S /\ chat'[m] = Other("gone"))
       /\ m \in S => m \in stuck' \/ chat'[m] = Other("gone")

(* A sequence with at most one more message.                               *)
Extends(longer, message) ==
  /\ longer \in Seq(Messages)
  /\ Len(longer) \in {Len(chat), Len(chat) + 1}
  /\ \A m \in 1..Len(chat) : longer[m] = chat[m]
  /\ Len(longer) = Len(chat) + 1 => longer[Len(chat) + 1] = message

LEMMA OtherTyped == \A kind \in {"status", "preview", "media", "gone"} : Other(kind) \in Messages
  BY DEF Other, Messages

LEMMA PieceTyped ==
  ASSUME TypeOK, NEW k \in Nat
  PROVE  Piece(k) \in Messages
  BY LenProperties DEF TypeOK, Piece, Messages

LEMMA Replacing ==
  ASSUME NEW S, NEW s \in Seq(Messages)
  PROVE  /\ Without(S, s) \in Seq(Messages) /\ Len(Without(S, s)) = Len(s)
         /\ \A m \in 1..Len(s) : Without(S, s)[m] = IF m \in S THEN Other("gone") ELSE s[m]
<1>1. DOMAIN s = 1..Len(s) /\ Len(s) \in Nat /\ \A m \in 1..Len(s) : s[m] \in Messages
    BY LenProperties, ElementOfSeq
<1>2. Without(S, s) \in [1..Len(s) -> Messages]
    BY <1>1, OtherTyped DEF Without
<1>3. Without(S, s) \in Seq(Messages)
    BY <1>1, <1>2, SeqDef
<1> QED
    BY <1>1, <1>2, <1>3, LenProperties DEF Without

LEMMA FaultTyped ==
  ASSUME TypeOK, NEW n \in Nat, Fault(n)
  PROVE  faults' \in 0..MaxFaults
  BY DeliveryAssumption DEF DeliveryAssumption, TypeOK, Fault

LEMMA Deleting ==
  ASSUME TypeOK, NEW S \in SUBSET (0..Len(chat)), IsFiniteSet(S), Delete(S)
  PROVE  Cleared(S)
<1>1. PICK kept \in SUBSET (S \ {0}) :
        Fault(Cardinality(kept)) /\ chat' = Without(S \ kept, chat) /\ stuck' = stuck \cup kept
    BY DEF Delete
<1>2. Cardinality(kept) \in Nat
    <2>1. kept \subseteq S
        BY <1>1
    <2> QED
        BY <2>1, FS_Subset, FS_CardinalityType
<1>3. faults' \in 0..MaxFaults
    BY <1>1, <1>2, FaultTyped
<1>4. /\ chat' \in Seq(Messages) /\ Len(chat') = Len(chat)
      /\ \A m \in 1..Len(chat) : chat'[m] = IF m \in S \ kept THEN Other("gone") ELSE chat[m]
    BY <1>1, Replacing DEF TypeOK
<1>5. stuck \subseteq stuck' /\ stuck' \subseteq 1..Len(chat)
    BY <1>1, LenProperties DEF TypeOK
<1>6. \A m \in 1..Len(chat) : m \in S => m \in stuck' \/ chat'[m] = Other("gone")
    BY <1>1, <1>4
<1> QED
    BY <1>3, <1>4, <1>5, <1>6 DEF Cleared

LEMMA Sending ==
  ASSUME TypeOK, NEW message \in Messages, NEW outcome
  PROVE  /\ Extends(Sent(message, outcome), message)
         /\ Done(outcome) => Len(Sent(message, outcome)) = Len(chat) + 1
         /\ ~Done(outcome) => Len(Sent(message, outcome)) = Len(chat)
<1>1. chat \in Seq(Messages) /\ Len(chat) \in Nat
    BY LenProperties DEF TypeOK
<1>2. /\ Append(chat, message) \in Seq(Messages) /\ Len(Append(chat, message)) = Len(chat) + 1
      /\ Append(chat, message)[Len(chat) + 1] = message
      /\ \A m \in 1..Len(chat) : Append(chat, message)[m] = chat[m]
    BY <1>1, AppendProperties
<1> QED
    BY <1>1, <1>2 DEF Sent, Extends

----------------------------------------------------------------------------
(* Types.                                                                  *)

LEMMA Counters ==
  ASSUME TypeOK
  PROVE  /\ Len(chat) \in Nat /\ DOMAIN chat = 1..Len(chat)
         /\ Len(produced) \in Nat /\ DOMAIN produced = 1..Len(produced)
         /\ \A m \in DOMAIN chat : chat[m] \in Messages
         /\ \A i \in DOMAIN produced : produced[i] \in Body
  BY LenProperties, ElementOfSeq DEF TypeOK

LEMMA Within ==
  ASSUME NEW n \in Nat, NEW k \in Nat, n <= k, NEW S \in SUBSET (1..n), NEW T \in SUBSET (1..k)
  PROVE  S \cup T \subseteq 1..k
  OBVIOUS

LEMMA PairFinite == \A a, b : IsFiniteSet({a, b}) /\ IsFiniteSet({a}) /\ IsFiniteSet({})
<1> TAKE a, b
<1>1. IsFiniteSet({}) /\ IsFiniteSet({a}) /\ IsFiniteSet({b})
    BY FS_EmptySet, FS_Singleton
<1>2. IsFiniteSet({a} \cup {b})
    BY <1>1, FS_Union
<1>3. {a, b} = {a} \cup {b}
    OBVIOUS
<1> QED
    BY <1>1, <1>2, <1>3

(* A deletion of what the worker knows of.                                 *)
LEMMA ClearingOne ==
  ASSUME TypeOK, NEW s \in 0..Len(chat), Delete({s})
  PROVE  Cleared({s})
<1>1. {s} \in SUBSET (0..Len(chat)) /\ IsFiniteSet({s})
    BY PairFinite
<1> QED
    BY <1>1, Deleting

LEMMA ClearingTwo ==
  ASSUME TypeOK, NEW s \in 0..Len(chat), NEW t \in 0..Len(chat), Delete({s, t})
  PROVE  Cleared({s, t})
<1>1. {s, t} \in SUBSET (0..Len(chat)) /\ IsFiniteSet({s, t})
    BY PairFinite
<1> QED
    BY <1>1, Deleting

(* What a deletion leaves typed, when the worker knows no more than before.*)
LEMMA ClearedTyped ==
  ASSUME TypeOK, NEW S, Cleared(S)
  PROVE  /\ chat' \in Seq(Messages) /\ stuck' \subseteq 1..Len(chat')
         /\ faults' \in 0..MaxFaults
         /\ status \in 0..Len(chat') /\ 0 \in 0..Len(chat')
         /\ preview \in [msg : 0..Len(chat'), held : BOOLEAN, aside : BOOLEAN]
         /\ NoPreview \in [msg : 0..Len(chat'), held : BOOLEAN, aside : BOOLEAN]
  BY Counters DEF Cleared, TypeOK, NoPreview

LEMMA ExtendedTyped ==
  ASSUME TypeOK, NEW message, Extends(chat', message)
  PROVE  /\ chat' \in Seq(Messages) /\ stuck \subseteq 1..Len(chat')
         /\ status \in 0..Len(chat') /\ 0 \in 0..Len(chat')
         /\ preview \in [msg : 0..Len(chat'), held : BOOLEAN, aside : BOOLEAN]
         /\ NoPreview \in [msg : 0..Len(chat'), held : BOOLEAN, aside : BOOLEAN]
  BY Counters DEF Extends, TypeOK, NoPreview

LEMMA StreamTypes ==
  ASSUME StreamTypeOK, Ask \/ Later \/ Fails \/ Responds \/ Speaks \/ Over \/ UNCHANGED stream
  PROVE  StreamTypeOK'
<1>1. request' \in {"idle", "open", "reading", "broken"}
    BY DEF StreamTypeOK, Ask, Later, Fails, Responds, Speaks, Over, stream
<1>2. attempt' \in 0..Retries
    BY RetriesAssumption
       DEF RetriesAssumption, StreamTypeOK, Ask, Later, Fails, Responds, Speaks, Over, stream
<1>3. received' \in BOOLEAN
    BY Zenon DEF StreamTypeOK, Ask, Later, Fails, Responds, Speaks, Over, stream
<1>4. voices' \subseteq 0..Retries
    BY DEF StreamTypeOK, Ask, Later, Fails, Responds, Speaks, Over, stream
<1> QED
    BY <1>1, <1>2, <1>3, <1>4 DEF StreamTypeOK

(* What a new piece of the model's text does to the screen.                *)
LEMMA AddTyped ==
  ASSUME TypeOK, heard' \in 0..2, AddNothing \/ AddSend \/ AddFails \/ AddEdit
  PROVE  /\ chat' \in Seq(Messages) /\ stuck' \subseteq 1..Len(chat')
         /\ faults' \in 0..MaxFaults /\ status' \in 0..Len(chat')
         /\ preview' \in [msg : 0..Len(chat'), held : BOOLEAN, aside : BOOLEAN]
<1> USE Counters
<1>1. CASE AddNothing
    BY <1>1 DEF AddNothing, TypeOK
<1>2. CASE AddSend
    <2>1. PICK kept \in SUBSET ({status} \ {0}) :
            /\ Fault(Cardinality(kept))
            /\ chat' = Append(Without({status} \ kept, chat), Other("preview"))
            /\ stuck' = stuck \cup kept
        BY <1>2 DEF AddSend
    <2>2. Cardinality(kept) \in Nat
        <3>1. kept \subseteq {status}
            BY <2>1
        <3> QED
            BY <3>1, PairFinite, FS_Subset, FS_CardinalityType
    <2>3. chat' \in Seq(Messages) /\ Len(chat') = Len(chat) + 1
        BY <2>1, Replacing, OtherTyped, AppendProperties DEF TypeOK
    <2>4. faults' \in 0..MaxFaults
        BY <2>1, <2>2, FaultTyped
    <2>5. preview' = [preview EXCEPT !.msg = Len(chat) + 1] /\ status' = 0
        BY <1>2 DEF AddSend
    <2>6. stuck' \subseteq 1..(Len(chat) + 1)
        BY <2>1 DEF TypeOK
    <2>7. preview' \in [msg : 0..(Len(chat) + 1), held : BOOLEAN, aside : BOOLEAN]
        BY <2>5 DEF TypeOK
    <2> QED
        BY <2>3, <2>4, <2>5, <2>6, <2>7
<1>3. CASE AddFails
    <2>1. PICK outcome \in Failures :
            Fault(1) /\ chat' = Sent(Other("preview"), outcome) /\ stuck' = stuck \cup Untraced(outcome)
        BY <1>3 DEF AddFails
    <2>2. Extends(chat', Other("preview")) /\ (Done(outcome) => Len(chat') = Len(chat) + 1)
        BY <2>1, Sending, OtherTyped
    <2>3. stuck' \subseteq 1..Len(chat')
        <3>1. stuck \subseteq 1..Len(chat')
            BY <2>2, ExtendedTyped
        <3>2. CASE outcome = "lost"
            <4>1. Len(chat') = Len(chat) + 1 /\ Untraced(outcome) = {Len(chat) + 1}
                BY <2>2, <3>2 DEF Done, Untraced
            <4>2. {Len(chat) + 1} \in SUBSET (1..Len(chat')) /\ Len(chat') \in Nat
                BY <4>1
            <4> QED
                BY <2>1, <3>1, <4>1, <4>2
        <3>3. CASE outcome # "lost"
            BY <2>1, <3>1, <3>3 DEF Untraced
        <3> QED
            BY <3>2, <3>3
    <2>4. faults' \in 0..MaxFaults
        BY <2>1, FaultTyped
    <2>5. preview' = [preview EXCEPT !.aside = TRUE] /\ status' = status
        BY <1>3 DEF AddFails
    <2> QED
        BY <2>2, <2>3, <2>4, <2>5, ExtendedTyped DEF TypeOK
<1>4. CASE AddEdit
    BY <1>4, FaultTyped DEF AddEdit, TypeOK
<1> QED
    BY <1>1, <1>2, <1>3, <1>4

(* Sending the whole text instead of the preview.                          *)
LEMMA Instead ==
  ASSUME TypeOK, preview.msg # 0, NEW outcome, NEW after \in Seq(Messages),
         Len(chat) <= Len(after), SendInstead(outcome, after)
  PROVE  /\ chat' \in Seq(Messages) /\ Len(chat') = Len(after)
         /\ stuck \subseteq stuck' /\ stuck' \subseteq 1..Len(chat') /\ faults' \in 0..MaxFaults
         /\ preview' = NoPreview /\ phase' = "send" /\ piece' = 1 /\ delivered' = delivered
         /\ \A m \in 1..Len(after) :
              /\ chat'[m] = after[m] \/ (m = preview.msg /\ chat'[m] = Other("gone"))
              /\ m = preview.msg => m \in stuck' \/ chat'[m] = Other("gone")
<1>1. PICK kept \in SUBSET {preview.msg} :
        /\ Fault(1 + Cardinality(kept))
        /\ chat' = Without({preview.msg} \ kept, after) /\ stuck' = stuck \cup kept
    BY DEF SendInstead
<1>2. Cardinality(kept) \in Nat
    <2>1. kept \subseteq {preview.msg}
        BY <1>1
    <2> QED
        BY <2>1, PairFinite, FS_Subset, FS_CardinalityType
<1>3. faults' \in 0..MaxFaults
    BY <1>1, <1>2, FaultTyped
<1>4. /\ chat' \in Seq(Messages) /\ Len(chat') = Len(after)
      /\ \A m \in 1..Len(after) :
           chat'[m] = IF m \in {preview.msg} \ kept THEN Other("gone") ELSE after[m]
    BY <1>1, Replacing
<1>5. stuck \subseteq stuck' /\ stuck' \subseteq 1..Len(chat')
    <2>1. Len(after) \in Nat /\ preview.msg \in 1..Len(chat) /\ stuck \subseteq 1..Len(chat)
        BY Counters, LenProperties DEF TypeOK
    <2>2. Len(chat) \in Nat
        BY Counters
    <2>3. kept \in SUBSET (1..Len(after))
        BY <1>1, <2>1, <2>2
    <2>4. stuck \cup kept \subseteq 1..Len(after)
        BY <2>1, <2>2, <2>3, Within
    <2> QED
        BY <1>1, <1>4, <2>4
<1> QED
    BY <1>1, <1>3, <1>4, <1>5 DEF SendInstead

LEMMA MoreTyped ==
  ASSUME TypeOK, item.body # None, NEW next \in {"append", "send"}, More(next), NEW n \in Nat,
         Len(chat) <= n
  PROVE  /\ piece' \in Nat \ {0} /\ phase' \in {"after", next} /\ delivered' \subseteq Body
         /\ preview' \in [msg : 0..n, held : BOOLEAN, aside : BOOLEAN]
<1>1. preview \in [msg : 0..n, held : BOOLEAN, aside : BOOLEAN] /\ NoPreview \in [msg : 0..n, held : BOOLEAN, aside : BOOLEAN]
    BY Counters DEF TypeOK, NoPreview
<1> QED
    BY <1>1 DEF More, Finished, TypeOK, Items

LEMMA PuttingBack ==
  ASSUME TypeOK, PutBack
  PROVE  phase' \in Phases /\ deaths' \in 0..MaxDeaths
<1>1. deaths \in 0..MaxDeaths /\ MaxDeaths \in Nat
    BY DeliveryAssumption DEF DeliveryAssumption, TypeOK
<1>2. CASE deaths < MaxDeaths
    <2>1. phase' = "dead" /\ deaths' = deaths + 1
        BY <1>2 DEF PutBack
    <2> QED
        BY <1>1, <1>2, <2>1 DEF Phases
<1>3. CASE ~(deaths < MaxDeaths)
    <2>1. phase' = "given up" /\ deaths' = deaths
        BY <1>3 DEF PutBack
    <2> QED
        BY <1>1, <2>1 DEF Phases, Resting
<1> QED
    BY <1>2, <1>3

LEMMA StepTypes == TypeOK /\ Pictured /\ Carrying /\ [Next]_vars => TypeOK'
<1> SUFFICES ASSUME TypeOK, Pictured, Carrying, [Next]_vars PROVE TypeOK'
    OBVIOUS
<1> USE Counters, DeliveryAssumption DEF DeliveryAssumption, turn, screen, talk, bounds
<1>s. StreamTypeOK
    BY DEF TypeOK
<1>1. ASSUME BeginCompletion PROVE TypeOK'
    BY <1>1, <1>s, StreamTypes DEF BeginCompletion, TypeOK, Phases
<1>2. ASSUME Wire PROVE TypeOK'
    BY <1>2, <1>s, StreamTypes DEF Wire, TypeOK
<1>3. ASSUME AnswerBegins PROVE TypeOK'
    BY <1>3, <1>s, StreamTypes DEF AnswerBegins, TypeOK
<1>4. ASSUME Delta PROVE TypeOK'
    <2>1. heard' \in 0..2
        BY <1>4 DEF Delta, TypeOK, Length
    <2>2. StreamTypeOK'
        BY <1>4, <1>s, StreamTypes DEF Delta
    <2>3. /\ chat' \in Seq(Messages) /\ stuck' \subseteq 1..Len(chat')
          /\ faults' \in 0..MaxFaults /\ status' \in 0..Len(chat')
          /\ preview' \in [msg : 0..Len(chat'), held : BOOLEAN, aside : BOOLEAN]
        BY <1>4, <2>1, AddTyped DEF Delta
    <2> QED
        BY <1>4, <2>1, <2>2, <2>3 DEF Delta, TypeOK
<1>5. ASSUME NEW body \in Body \cup {None}, NEW then \in {"tools", "end"},
             Whole, Produce(body, then), Step, draft' = None, UNCHANGED steerings
      PROVE TypeOK'
    <2>1. StreamTypeOK'
        BY <1>5, <1>s, StreamTypes DEF Whole, Ends
    <2>2. produced' \in Seq(Body) /\ item' \in Items
        BY <1>5, AppendProperties DEF Produce, TypeOK, Items
    <2>3. completions' \in 0..MaxCompletions
        BY <1>5 DEF Whole, Step, Carrying, TypeOK
    <2> QED
        BY <1>5, <2>1, <2>2, <2>3 DEF Produce, Step, Silence, TypeOK, Phases
<1>6. ASSUME Acts \/ Concludes PROVE TypeOK'
    <2>1. writing \in Body \cup {None}
        BY DEF TypeOK
    <2>2. /\ Whole /\ Step /\ draft' = None /\ UNCHANGED steerings
          /\ Produce(writing, "tools") \/ Produce(writing, "end")
        BY <1>6 DEF Acts, Concludes
    <2> QED
        BY <1>5, <2>1, <2>2
<1>7. ASSUME AddsNothing PROVE TypeOK'
    <2>1. draft \in Body \cup {None}
        BY DEF TypeOK
    <2>2. Whole /\ Step /\ draft' = None /\ UNCHANGED steerings /\ Produce(draft, "end")
        BY <1>7 DEF AddsNothing
    <2> QED
        BY <1>5, <2>1, <2>2
<1>8. ASSUME Steered PROVE TypeOK'
    <2>1. StreamTypeOK'
        BY <1>8, <1>s, StreamTypes DEF Steered, Whole, Ends
    <2>2. completions' \in 0..MaxCompletions /\ steerings' \in 0..SteeringLimit
        BY <1>8 DEF Steered, Last, Whole, Carrying, TypeOK
    <2>3. draft' \in Body \cup {None} /\ item' \in Items
        BY <1>8 DEF Steered, NoItem, Items, TypeOK
    <2>4. /\ chat' \in Seq(Messages) /\ stuck' \subseteq 1..Len(chat')
          /\ faults' \in 0..MaxFaults /\ status \in 0..Len(chat')
          /\ preview' \in [msg : 0..Len(chat'), held : BOOLEAN, aside : BOOLEAN]
        <3>1. CASE entry = "_answer"
            BY <1>8, <3>1 DEF Steered, Withdraw, TypeOK
        <3>2. CASE entry # "_answer"
            <4>1. Delete({preview.msg}) /\ preview' = NoPreview /\ preview.msg \in 0..Len(chat)
                BY <1>8, <3>2 DEF Steered, Withdraw, TypeOK
            <4> QED
                BY <4>1, ClearingOne, ClearedTyped
        <3> QED
            BY <3>1, <3>2
    <2> QED
        BY <1>8, <2>1, <2>2, <2>3, <2>4 DEF Steered, Silence, TypeOK, Phases
<1>9. ASSUME RequestFails \/ TurnEnds PROVE TypeOK'
    BY <1>9 DEF RequestFails, TurnEnds, TypeOK, Phases, stream, StreamTypeOK
<1>10. ASSUME DeliverText PROVE TypeOK'
    <2>1. Delete({status}) /\ status \in 0..Len(chat)
        BY <1>10 DEF DeliverText, TypeOK
    <2>2. Cleared({status})
        BY <2>1, ClearingOne
    <2>3. StreamTypeOK'
        BY <1>10, <1>s, StreamTypes DEF DeliverText
    <2> QED
        BY <1>10, <2>2, <2>3, ClearedTyped DEF DeliverText, TypeOK, Phases
<1>11. ASSUME DeliverNothing PROVE TypeOK'
    <2>3. StreamTypeOK'
        BY <1>11, <1>s, StreamTypes DEF DeliverNothing
    <2>1. CASE UNCHANGED <<preview, chat, faults, stuck>>
        BY <1>11, <2>1, <2>3 DEF DeliverNothing, TypeOK, Phases
    <2>2. CASE preview' = NoPreview /\ Delete({preview.msg})
        <3>1. Cleared({preview.msg})
            BY <2>2, ClearingOne DEF TypeOK
        <3> QED
            BY <1>11, <2>2, <2>3, <3>1, ClearedTyped DEF DeliverNothing, TypeOK, Phases
    <2> QED
        BY <1>11, <2>1, <2>2 DEF DeliverNothing
<1>12. ASSUME EditFirst PROVE TypeOK'
    <2>1. StreamTypeOK'
        BY <1>12, <1>s, StreamTypes DEF EditFirst
    <2>2. preview.msg # 0 /\ preview.msg \in 1..Len(chat) /\ item.body # None
        BY <1>12 DEF EditFirst, Pictured, Carrying, TypeOK
    <2>3. [chat EXCEPT ![preview.msg] = Piece(1)] \in Seq(Messages)
          /\ Len([chat EXCEPT ![preview.msg] = Piece(1)]) = Len(chat)
        <3>1. Piece(1) \in Messages
            BY PieceTyped
        <3>2. chat \in Seq(Messages)
            BY DEF TypeOK
        <3> QED
            BY <2>2, <3>1, <3>2, ExceptSeq
    <2>4. PICK outcome \in Outcome :
            LET edited == IF Done(outcome) THEN [chat EXCEPT ![preview.msg] = Piece(1)] ELSE chat IN
            IF outcome = "ok" THEN More("append") /\ chat' = edited /\ UNCHANGED <<faults, stuck>>
            ELSE SendInstead(outcome, edited)
        BY <1>12 DEF EditFirst
    <2>5. CASE outcome = "ok"
        <3>1. chat' \in Seq(Messages) /\ Len(chat') = Len(chat) /\ UNCHANGED <<faults, stuck>> /\ More("append")
            BY <2>3, <2>4, <2>5 DEF Done
        <3>2. /\ piece' \in Nat \ {0} /\ phase' \in {"after", "append"} /\ delivered' \subseteq Body
              /\ preview' \in [msg : 0..Len(chat), held : BOOLEAN, aside : BOOLEAN]
            BY <2>2, <3>1, MoreTyped
        <3> QED
            BY <1>12, <2>1, <3>1, <3>2 DEF EditFirst, TypeOK, Phases
    <2>6. CASE outcome # "ok"
        <3> DEFINE edited == IF Done(outcome) THEN [chat EXCEPT ![preview.msg] = Piece(1)] ELSE chat
        <3>1. edited \in Seq(Messages) /\ Len(edited) = Len(chat)
            BY <2>3 DEF TypeOK
        <3>2. SendInstead(outcome, edited)
            BY <2>4, <2>6
        <3> HIDE DEF edited
        <3>3. /\ chat' \in Seq(Messages) /\ Len(chat') = Len(chat)
              /\ stuck' \subseteq 1..Len(chat') /\ faults' \in 0..MaxFaults
              /\ preview' = NoPreview /\ phase' = "send" /\ piece' = 1 /\ delivered' = delivered
            BY <2>2, <3>1, <3>2, Instead
        <3> QED
            BY <1>12, <2>1, <3>3 DEF EditFirst, TypeOK, Phases, NoPreview
    <2> QED
        BY <2>5, <2>6
<1>13. ASSUME AppendPiece PROVE TypeOK'
    <2>1. StreamTypeOK'
        BY <1>13, <1>s, StreamTypes DEF AppendPiece
    <2>2. preview.msg # 0 /\ item.body # None /\ piece \in Nat
        BY <1>13 DEF AppendPiece, Pictured, Carrying, TypeOK
    <2>3. PICK outcome \in Outcome :
            LET longer == Sent(Piece(piece), outcome) IN
            IF outcome = "ok" THEN More("append") /\ chat' = longer /\ UNCHANGED <<faults, stuck>>
            ELSE SendInstead(outcome, longer)
        BY <1>13 DEF AppendPiece
    <2>4. /\ Extends(Sent(Piece(piece), outcome), Piece(piece))
          /\ Len(Sent(Piece(piece), outcome)) \in {Len(chat), Len(chat) + 1}
        BY <2>2, PieceTyped, Sending
    <2>5. CASE outcome = "ok"
        <3>1. Extends(chat', Piece(piece)) /\ UNCHANGED <<faults, stuck>> /\ More("append")
            BY <2>3, <2>4, <2>5
        <3>2. chat' \in Seq(Messages) /\ Len(chat') \in Nat /\ Len(chat) <= Len(chat') /\ stuck \subseteq 1..Len(chat')
              /\ status \in 0..Len(chat')
            <4>1. chat' \in Seq(Messages) /\ Len(chat') \in {Len(chat), Len(chat) + 1}
                BY <3>1 DEF Extends
            <4>2. stuck \subseteq 1..Len(chat') /\ status \in 0..Len(chat')
                BY <3>1, ExtendedTyped
            <4> QED
                BY <4>1, <4>2
        <3>3. /\ piece' \in Nat \ {0} /\ phase' \in {"after", "append"} /\ delivered' \subseteq Body
              /\ preview' \in [msg : 0..Len(chat'), held : BOOLEAN, aside : BOOLEAN]
            BY <2>2, <3>1, <3>2, MoreTyped
        <3> QED
            BY <1>13, <2>1, <3>1, <3>2, <3>3 DEF AppendPiece, TypeOK, Phases
    <2>6. CASE outcome # "ok"
        <3>1. SendInstead(outcome, Sent(Piece(piece), outcome))
            BY <2>3, <2>6
        <3>2. Sent(Piece(piece), outcome) \in Seq(Messages) /\ Len(chat) <= Len(Sent(Piece(piece), outcome))
            BY <2>4 DEF Extends
        <3>3. /\ chat' \in Seq(Messages) /\ Len(chat') = Len(Sent(Piece(piece), outcome))
              /\ stuck' \subseteq 1..Len(chat') /\ faults' \in 0..MaxFaults
              /\ preview' = NoPreview /\ phase' = "send" /\ piece' = 1 /\ delivered' = delivered
            BY <2>2, <3>1, <3>2, Instead
        <3>4. status \in 0..Len(chat') /\ 0 \in 0..Len(chat')
            BY <3>2, <3>3, LenProperties DEF TypeOK
        <3> QED
            BY <1>13, <2>1, <3>3, <3>4 DEF AppendPiece, TypeOK, Phases, NoPreview
    <2> QED
        BY <2>5, <2>6
<1>14. ASSUME SendPiece PROVE TypeOK'
    <2>1. StreamTypeOK'
        BY <1>14, <1>s, StreamTypes DEF SendPiece
    <2>2. item.body # None /\ piece \in Nat
        BY <1>14 DEF SendPiece, Carrying, TypeOK
    <2>3. PICK outcome \in Outcome :
            /\ Call(outcome) /\ chat' = Sent(Piece(piece), outcome)
            /\ IF outcome = "ok" THEN More("send")
               ELSE phase' = "raising" /\ UNCHANGED <<piece, preview, delivered>>
        BY <1>14 DEF SendPiece
    <2>4. Extends(chat', Piece(piece)) /\ Len(chat') \in Nat /\ Len(chat) <= Len(chat')
        <3>1. Piece(piece) \in Messages
            BY <2>2, PieceTyped
        <3>2. Extends(chat', Piece(piece))
            BY <2>3, <3>1, Sending
        <3> QED
            BY <3>2 DEF Extends
    <2>5. faults' \in 0..MaxFaults
        BY <2>3, FaultTyped DEF Call
    <2>6. /\ piece' \in Nat \ {0} /\ phase' \in Phases /\ delivered' \subseteq Body
          /\ preview' \in [msg : 0..Len(chat'), held : BOOLEAN, aside : BOOLEAN]
        <3>1. CASE outcome = "ok"
            BY <2>2, <2>3, <2>4, <3>1, MoreTyped DEF Phases
        <3>2. CASE outcome # "ok"
            BY <2>3, <2>4, <3>2, ExtendedTyped DEF Phases, TypeOK
        <3> QED
            BY <3>1, <3>2
    <2> QED
        BY <1>14, <2>1, <2>4, <2>5, <2>6, ExtendedTyped DEF SendPiece, TypeOK
<1>15. ASSUME ShowCalls PROVE TypeOK'
    <2>1. StreamTypeOK'
        BY <1>15, <1>s, StreamTypes DEF ShowCalls
    <2>2. CASE UNCHANGED <<status, chat, faults, stuck>>
        BY <1>15, <2>1, <2>2 DEF ShowCalls, TypeOK, Phases
    <2>3. CASE ~UNCHANGED <<status, chat, faults, stuck>>
        <3>1. PICK outcome \in Outcome :
                /\ Call(outcome)
                /\ chat' = Sent(Other("status"), outcome)
                /\ status' = IF outcome = "ok" THEN Len(chat) + 1 ELSE 0
                /\ stuck' = stuck \cup Untraced(outcome)
            BY <1>15, <2>3 DEF ShowCalls
        <3>2. Extends(chat', Other("status")) /\ (Done(outcome) => Len(chat') = Len(chat) + 1)
            BY <3>1, Sending, OtherTyped
        <3>3. faults' \in 0..MaxFaults
            BY <3>1, FaultTyped DEF Call
        <3>4. status' \in 0..Len(chat') /\ stuck' \subseteq 1..Len(chat')
            <4>1. stuck \subseteq 1..Len(chat') /\ 0 \in 0..Len(chat')
                BY <3>2, ExtendedTyped
            <4>2. CASE outcome \in {"ok", "lost"}
                <5>1. Len(chat') = Len(chat) + 1
                    BY <3>2, <4>2 DEF Done
                <5>2. {Len(chat) + 1} \in SUBSET (1..Len(chat')) /\ Len(chat') \in Nat
                    BY <5>1
                <5>3. Untraced(outcome) \subseteq 1..Len(chat')
                    BY <5>2 DEF Untraced
                <5>4. status' \in 0..Len(chat')
                    BY <3>1, <5>1
                <5> QED
                    BY <3>1, <4>1, <5>3, <5>4
            <4>3. CASE outcome \notin {"ok", "lost"}
                BY <3>1, <4>1, <4>3 DEF Untraced
            <4> QED
                BY <4>2, <4>3
        <3> QED
            BY <1>15, <2>1, <3>2, <3>3, <3>4, ExtendedTyped DEF ShowCalls, TypeOK, Phases
    <2> QED
        BY <2>2, <2>3
<1>16. ASSUME ToolsRan PROVE TypeOK'
    BY <1>16, <1>s, StreamTypes DEF ToolsRan, NextStep, NoItem, TypeOK, Phases, Items
<1>17. ASSUME ToolsSend PROVE TypeOK'
    <2>1. Cleared({status})
        BY <1>17, ClearingOne DEF ToolsSend, TypeOK
    <2>2. StreamTypeOK'
        BY <1>17, <1>s, StreamTypes DEF ToolsSend
    <2> QED
        BY <1>17, <2>1, <2>2, ClearedTyped DEF ToolsSend, TypeOK, Phases
<1>18. ASSUME SendMedia PROVE TypeOK'
    <2>1. StreamTypeOK'
        BY <1>18, <1>s, StreamTypes DEF SendMedia
    <2>2. PICK outcome \in Outcome :
            /\ Call(outcome) /\ chat' = Sent(Other("media"), outcome)
            /\ IF outcome = "ok" THEN NextStep
               ELSE phase' = (IF phase = "media" THEN "single" ELSE "raising") /\ UNCHANGED item
        BY <1>18 DEF SendMedia
    <2>3. Extends(chat', Other("media"))
        BY <2>2, Sending, OtherTyped
    <2>4. faults' \in 0..MaxFaults
        BY <2>2, FaultTyped DEF Call
    <2>5. phase' \in Phases /\ item' \in Items
        BY <2>2 DEF NextStep, NoItem, Items, Phases, TypeOK
    <2> QED
        BY <1>18, <2>1, <2>3, <2>4, <2>5, ExtendedTyped DEF SendMedia, TypeOK
<1>19. ASSUME Finally PROVE TypeOK'
    <2>1. Delete({status, preview.msg}) /\ status \in 0..Len(chat) /\ preview.msg \in 0..Len(chat)
        BY <1>19 DEF Finally, TypeOK
    <2>2. Cleared({status, preview.msg})
        BY <2>1, ClearingTwo
    <2>3. StreamTypeOK'
        BY <1>19, <1>s, StreamTypes DEF Finally, Fresh
    <2>4. phase' \in Phases /\ deaths' \in 0..MaxDeaths
        <3>1. CASE phase = "ending"
            BY <1>19, <3>1 DEF Finally, Phases, Resting, TypeOK
        <3>2. CASE phase = "failing"
            BY <1>19, <3>2 DEF Finally, Phases, Resting, TypeOK
        <3>3. CASE phase = "raising"
            BY <1>19, <3>3, PuttingBack DEF Finally
        <3> QED
            BY <1>19, <3>1, <3>2, <3>3 DEF Finally
    <2> QED
        BY <1>19, <2>2, <2>3, <2>4, ClearedTyped DEF Finally, Fresh, TypeOK
<1>20. ASSUME Apologise PROVE TypeOK'
    <2>1. StreamTypeOK'
        BY <1>20, <1>s, StreamTypes DEF Apologise
    <2>2. PICK outcome \in Outcome :
            /\ Call(outcome) /\ chat' = Sent(Other("media"), outcome)
            /\ IF outcome = "ok" THEN phase' = "apologised" /\ UNCHANGED deaths ELSE PutBack
        BY <1>20 DEF Apologise
    <2>3. Extends(chat', Other("media"))
        BY <2>2, Sending, OtherTyped
    <2>4. faults' \in 0..MaxFaults
        BY <2>2, FaultTyped DEF Call
    <2>5. phase' \in Phases /\ deaths' \in 0..MaxDeaths
        <3>1. CASE outcome = "ok"
            BY <2>2, <3>1 DEF Phases, Resting, TypeOK
        <3>2. CASE outcome # "ok"
            BY <2>2, <3>2, PuttingBack
        <3> QED
            BY <3>1, <3>2
    <2> QED
        BY <1>20, <2>1, <2>3, <2>4, <2>5, ExtendedTyped DEF Apologise, TypeOK
<1>21. ASSUME Die PROVE TypeOK'
    <2>1. StreamTypeOK'
        BY <1>21, <1>s, StreamTypes DEF Die, Fresh
    <2>2. stuck' \subseteq 1..Len(chat) /\ deaths' \in 0..MaxDeaths
        <3>1. status \in 0..Len(chat) /\ preview.msg \in 0..Len(chat) /\ stuck \subseteq 1..Len(chat)
            BY DEF TypeOK
        <3>2. {status, preview.msg} \ {0} \subseteq 1..Len(chat)
            BY <3>1
        <3>3. stuck' \subseteq 1..Len(chat)
            BY <1>21, <3>1, <3>2 DEF Die
        <3>4. deaths \in 0..MaxDeaths /\ deaths < MaxDeaths /\ deaths' = deaths + 1
            BY <1>21 DEF Die, TypeOK
        <3> QED
            BY <3>3, <3>4
    <2> QED
        BY <1>21, <2>1, <2>2 DEF Die, Fresh, TypeOK, Phases, NoPreview
<1>22. ASSUME Resume PROVE TypeOK'
    <2>1. StreamTypeOK'
        BY <1>22, <1>s, StreamTypes DEF Resume
    <2>2. /\ item' \in Items /\ phase' \in Phases
          /\ UNCHANGED <<completions, steerings, draft, produced>>
        <3>1. item \in Items /\ NoItem \in Items
            BY DEF TypeOK, NoItem, Items
        <3>2. phase' \in Phases
            BY <1>22 DEF Resume, NextStep, Phases, Resting
        <3> QED
            BY <1>22, <3>1, <3>2 DEF Resume, NextStep
    <2> QED
        BY <1>22, <2>1, <2>2 DEF Resume, TypeOK
<1>23. ASSUME UNCHANGED vars PROVE TypeOK'
    BY <1>23, <1>s, StreamTypes DEF vars, TypeOK
<1> QED
    BY <1>1, <1>2, <1>3, <1>4, <1>6, <1>7, <1>8, <1>9, <1>10, <1>11, <1>12, <1>13, <1>14, <1>15,
       <1>16, <1>17, <1>18, <1>19, <1>20, <1>21, <1>22, <1>23 DEF Next, Rest

----------------------------------------------------------------------------
(* What is let out is of one attempt.                                      *)

LEMMA StepStreaming == TypeOK /\ Streaming /\ [Next]_vars => Streaming'
<1> SUFFICES ASSUME TypeOK, Streaming, [Next]_vars PROVE Streaming'
    OBVIOUS
<1>1. ASSUME Ask \/ Over PROVE Streaming'
    BY <1>1 DEF Ask, Over, Streaming
<1>2. ASSUME Later PROVE Streaming'
    BY <1>2 DEF Later, Streaming
<1>3. ASSUME Fails PROVE Streaming'
    BY <1>3 DEF Fails, Streaming
<1>4. ASSUME Responds PROVE Streaming'
    BY <1>4 DEF Responds, Streaming
<1>5. ASSUME Speaks PROVE Streaming'
    BY <1>5 DEF Speaks, Streaming
<1>6. ASSUME UNCHANGED stream PROVE Streaming'
    BY <1>6 DEF stream, Streaming
<1>7. Ask \/ Over \/ Later \/ Fails \/ Responds \/ Speaks \/ UNCHANGED stream
    <2>1. CASE BeginCompletion \/ Wire \/ AnswerBegins \/ Delta
        BY <2>1 DEF BeginCompletion, Wire, AnswerBegins, Delta
    <2>2. CASE Acts \/ Concludes \/ Steered \/ AddsNothing
        BY <2>2 DEF Acts, Concludes, Steered, AddsNothing, Whole, Ends
    <2>3. CASE Finally \/ Die
        BY <2>3 DEF Finally, Die, Fresh
    <2>4. CASE RequestFails \/ DeliverText \/ DeliverNothing \/ EditFirst \/ AppendPiece \/ SendPiece
        BY <2>4 DEF RequestFails, DeliverText, DeliverNothing, EditFirst, AppendPiece, SendPiece
    <2>5. CASE ShowCalls \/ TurnEnds \/ ToolsRan \/ ToolsSend \/ SendMedia \/ Apologise \/ Resume
        BY <2>5 DEF ShowCalls, TurnEnds, ToolsRan, ToolsSend, SendMedia, Apologise, Resume
    <2>6. CASE UNCHANGED vars
        BY <2>6 DEF vars
    <2> QED
        BY <2>1, <2>2, <2>3, <2>4, <2>5, <2>6 DEF Next, Rest
<1> QED
    BY <1>1, <1>2, <1>3, <1>4, <1>5, <1>6, <1>7

----------------------------------------------------------------------------
(* What the worker knows of the chat, and what stays in it.                *)

(* A piece stays, but the first one of the text being appended.            *)
Stays ==
  /\ Len(chat) <= Len(chat')
  /\ \A m \in 1..Len(chat) :
       chat[m].kind = "piece" => chat'[m] = chat[m] \/ (phase = "append" /\ m = preview.msg)

(* Nothing changes that the worker or the person sees.                     *)
LEMMA QuietPicture ==
  ASSUME TypeOK, Pictured, UNCHANGED <<chat, stuck, status>>, preview'.msg = preview.msg,
         phase \notin {"append", "edit", "send"}, phase' \notin {"append", "edit", "send"},
         phase' \in Resting \cup {"dead", "sorry"} => status = 0 /\ preview.msg = 0
  PROVE  Pictured' /\ Stays
  BY Counters DEF Pictured, Stays

LEMMA ClearedPicture ==
  ASSUME TypeOK, Pictured, NEW S \in SUBSET {status, preview.msg}, Cleared(S),
         status' = (IF status \in S THEN 0 ELSE status),
         preview'.msg = (IF preview.msg \in S THEN 0 ELSE preview.msg),
         phase # "append", phase' # "append",
         phase' = "edit" => preview'.msg # 0, phase' = "send" => preview'.msg = 0,
         phase' \in Resting \cup {"dead", "sorry"} => status' = 0 /\ preview'.msg = 0
  PROVE  Pictured' /\ Stays
<1>1. /\ DOMAIN chat = 1..Len(chat) /\ Len(chat) \in Nat /\ DOMAIN chat' = 1..Len(chat)
      /\ status \in 0..Len(chat) /\ preview.msg \in 0..Len(chat)
    BY Counters, LenProperties DEF Cleared, TypeOK
<1>2. \A m \in 1..Len(chat) : m \in S => chat[m].kind \in {"status", "preview"}
    BY <1>1 DEF Pictured
<1>3. Stays
    BY <1>1, <1>2 DEF Stays, Cleared
<1>4. Other("gone").kind = "gone"
    BY DEF Other
<1>5. \A m \in DOMAIN chat' :
        chat'[m].kind \in {"status", "preview"} => m \in stuck' \cup {status', preview'.msg}
    <2> SUFFICES ASSUME NEW m \in 1..Len(chat), chat'[m].kind \in {"status", "preview"}
                 PROVE  m \in stuck' \cup {status', preview'.msg}
        BY <1>1
    <2>1. chat'[m] = chat[m] /\ (m \in S => m \in stuck')
        BY <1>4 DEF Cleared
    <2>2. m \in stuck \cup {status, preview.msg} /\ stuck \subseteq stuck'
        BY <1>1, <2>1 DEF Pictured, Cleared
    <2> QED
        BY <2>1, <2>2
<1>6. status' # 0 => chat'[status'].kind = "status"
    BY <1>1, <1>2 DEF Pictured, Cleared
<1>7. preview'.msg # 0 => chat'[preview'.msg].kind = "preview"
    BY <1>1, <1>2 DEF Pictured, Cleared
<1> QED
    BY <1>3, <1>5, <1>6, <1>7 DEF Pictured

(* A new message is no status or preview, or is known, or stuck.           *)
Accounted(message) ==
  message.kind \in {"status", "preview"} /\ Len(chat') = Len(chat) + 1 =>
    Len(chat) + 1 \in stuck' \cup {status'}
Posted(message) ==
  status = 0 /\ status' = Len(chat) + 1 /\ Len(chat') = Len(chat) + 1 /\ message.kind = "status"

LEMMA ExtendedStays ==
  ASSUME TypeOK, NEW message, Extends(chat', message)
  PROVE  /\ DOMAIN chat = 1..Len(chat) /\ Len(chat) \in Nat /\ DOMAIN chat' = 1..Len(chat')
         /\ status \in 0..Len(chat) /\ preview.msg \in 0..Len(chat)
         /\ Len(chat') \in {Len(chat), Len(chat) + 1}
         /\ Len(chat') = Len(chat) + 1 => chat'[Len(chat) + 1] = message
         /\ \A m \in 1..Len(chat) : chat'[m] = chat[m]
         /\ Stays
  BY Counters, LenProperties DEF Extends, TypeOK, Stays

LEMMA ExtendedPicture ==
  ASSUME TypeOK, Pictured, NEW message, Extends(chat', message), stuck \subseteq stuck',
         preview'.msg = preview.msg, phase \notin {"append", "edit"}, phase' \notin {"append", "edit"},
         status' = status \/ Posted(message), Accounted(message),
         phase' = "send" => preview.msg = 0,
         phase' \in Resting \cup {"dead", "sorry"} => status' = 0 /\ preview.msg = 0
  PROVE  Pictured' /\ Stays
<1>3. \A m \in DOMAIN chat' :
        chat'[m].kind \in {"status", "preview"} => m \in stuck' \cup {status', preview'.msg}
    <2> SUFFICES ASSUME NEW m \in 1..Len(chat'), chat'[m].kind \in {"status", "preview"}
                 PROVE  m \in stuck' \cup {status', preview'.msg}
        BY ExtendedStays
    <2>1. CASE m \in 1..Len(chat)
        <3>1. m \in stuck \cup {status, preview.msg}
            BY <2>1, ExtendedStays DEF Pictured
        <3>2. status # 0 => status' = status
            BY DEF Posted
        <3>3. m # 0
            BY <2>1
        <3> QED
            BY <3>1, <3>2, <3>3
    <2>2. CASE m \notin 1..Len(chat)
        <3>1. m = Len(chat) + 1 /\ Len(chat') = Len(chat) + 1
            <4>1. Len(chat) \in Nat /\ Len(chat') \in {Len(chat), Len(chat) + 1}
                BY ExtendedStays
            <4> QED
                BY <2>2, <4>1
        <3>2. chat'[Len(chat) + 1] = message
            BY <3>1, ExtendedStays
        <3> QED
            BY <3>1, <3>2 DEF Accounted
    <2> QED
        BY <2>1, <2>2
<1>4. status' # 0 => chat'[status'].kind = "status"
    <2>1. CASE status' = status
        <3>1. status # 0 => status \in 1..Len(chat) /\ chat[status].kind = "status"
            BY ExtendedStays DEF Pictured
        <3> QED
            BY <2>1, <3>1, ExtendedStays
    <2>2. CASE Posted(message)
        BY <2>2, ExtendedStays DEF Posted
    <2> QED
        BY <2>1, <2>2
<1>5. preview'.msg # 0 => chat'[preview'.msg].kind = "preview"
    <2>1. preview.msg # 0 => preview.msg \in 1..Len(chat) /\ chat[preview.msg].kind = "preview"
        BY ExtendedStays DEF Pictured
    <2> QED
        BY <2>1, ExtendedStays
<1> QED
    BY <1>3, <1>4, <1>5, ExtendedStays DEF Pictured

(* The text goes out in new messages, and the preview's message is gone.   *)
LEMMA InsteadPicture ==
  ASSUME TypeOK, Pictured, phase \in {"edit", "append"}, UNCHANGED <<status, produced>>,
         NEW outcome, NEW after \in Seq(Messages), SendInstead(outcome, after),
         Len(after) \in {Len(chat), Len(chat) + 1},
         \A m \in 1..Len(chat) : after[m] = chat[m] \/ (m = preview.msg /\ phase = "edit"),
         Len(after) = Len(chat) + 1 => after[Len(chat) + 1].kind = "piece"
  PROVE  Pictured' /\ Stays
<1>1. /\ DOMAIN chat = 1..Len(chat) /\ Len(chat) \in Nat
      /\ preview.msg \in 1..Len(chat) /\ status \in 0..Len(chat)
    BY Counters DEF Pictured, TypeOK
<1>2. /\ chat' \in Seq(Messages) /\ Len(chat') = Len(after) /\ stuck \subseteq stuck'
      /\ preview' = NoPreview /\ phase' = "send"
      /\ \A m \in 1..Len(after) :
           /\ chat'[m] = after[m] \/ (m = preview.msg /\ chat'[m] = Other("gone"))
           /\ m = preview.msg => m \in stuck' \/ chat'[m] = Other("gone")
    BY <1>1, Instead
<1>3. chat[preview.msg].kind = (IF phase = "append" THEN "piece" ELSE "preview")
    BY <1>1 DEF Pictured, Piece
<1>4. DOMAIN chat' = 1..Len(after)
    BY <1>2, LenProperties
<1>5. Stays
    BY <1>1, <1>2, <1>3 DEF Stays
<1>6. Other("gone").kind = "gone"
    BY DEF Other
<1>7. \A m \in DOMAIN chat' : chat'[m].kind \in {"status", "preview"} => m \in stuck' \cup {status'}
    <2> SUFFICES ASSUME NEW m \in 1..Len(after), chat'[m].kind \in {"status", "preview"}
                 PROVE  m \in stuck' \cup {status'}
        BY <1>4
    <2>1. CASE m = preview.msg
        BY <1>2, <1>6, <2>1
    <2>2. CASE m # preview.msg /\ m \in 1..Len(chat)
        <3>1. chat'[m] = chat[m]
            BY <1>2, <2>2
        <3> QED
            BY <1>1, <1>2, <2>2, <3>1 DEF Pictured
    <2>3. CASE m \notin 1..Len(chat)
        <3>1. m = Len(chat) + 1 /\ Len(after) = Len(chat) + 1 /\ m # preview.msg
            BY <1>1, <2>3
        <3> QED
            BY <1>2, <3>1
    <2> QED
        BY <2>1, <2>2, <2>3
<1>8. status' # 0 => chat'[status'].kind = "status"
    <2> SUFFICES ASSUME status # 0 PROVE chat'[status].kind = "status"
        BY DEF Pictured
    <2>1. status \in 1..Len(chat) /\ chat[status].kind = "status" /\ status # preview.msg
        BY <1>1, <1>3 DEF Pictured
    <2> QED
        BY <1>1, <1>2, <2>1
<1> QED
    BY <1>2, <1>5, <1>7, <1>8 DEF Pictured, NoPreview, Resting

LEMMA AddPicture ==
  ASSUME TypeOK, Pictured, AddNothing \/ AddSend \/ AddFails \/ AddEdit, phase = "stream", phase' = "stream"
  PROVE  Pictured' /\ Stays
<1>1. CASE AddNothing
    BY <1>1, QuietPicture DEF AddNothing, Resting
<1>2. CASE AddSend
    <2>1. PICK kept \in SUBSET ({status} \ {0}) :
            /\ chat' = Append(Without({status} \ kept, chat), Other("preview"))
            /\ stuck' = stuck \cup kept
        BY <1>2 DEF AddSend
    <2>2. preview' = [preview EXCEPT !.msg = Len(chat) + 1] /\ status' = 0 /\ preview.msg = 0
        BY <1>2 DEF AddSend
    <2>3. /\ DOMAIN chat = 1..Len(chat) /\ Len(chat) \in Nat /\ status \in 0..Len(chat)
          /\ chat \in Seq(Messages)
        BY Counters DEF TypeOK
    <2>4. /\ DOMAIN chat' = 1..(Len(chat) + 1) /\ Len(chat') = Len(chat) + 1
          /\ chat'[Len(chat) + 1] = Other("preview")
          /\ \A m \in 1..Len(chat) :
               chat'[m] = IF m \in {status} \ kept THEN Other("gone") ELSE chat[m]
        <3>1. /\ Without({status} \ kept, chat) \in Seq(Messages)
              /\ Len(Without({status} \ kept, chat)) = Len(chat)
              /\ \A m \in 1..Len(chat) : Without({status} \ kept, chat)[m]
                    = IF m \in {status} \ kept THEN Other("gone") ELSE chat[m]
            BY <2>3, Replacing
        <3>2. Other("preview") \in Messages
            BY OtherTyped
        <3> DEFINE w == Without({status} \ kept, chat)
        <3>3. chat' = Append(w, Other("preview"))
            BY <2>1
        <3>4. w \in Seq(Messages) /\ Len(w) = Len(chat)
            BY <3>1
        <3> HIDE DEF w
        <3>5. /\ chat' \in Seq(Messages) /\ Len(chat') = Len(chat) + 1
              /\ chat'[Len(chat) + 1] = Other("preview")
              /\ \A m \in 1..Len(chat) : chat'[m] = w[m]
            BY <3>2, <3>3, <3>4, AppendProperties
        <3>6. DOMAIN chat' = 1..(Len(chat) + 1)
            BY <3>5, LenProperties
        <3> QED
            BY <3>1, <3>5, <3>6 DEF w
    <2>5. Other("gone").kind = "gone" /\ Other("preview").kind = "preview"
        BY DEF Other
    <2>6. status # 0 => chat[status].kind = "status"
        BY DEF Pictured
    <2>7. Stays
        BY <2>3, <2>4, <2>6 DEF Stays
    <2>8. \A m \in DOMAIN chat' :
            chat'[m].kind \in {"status", "preview"} => m \in stuck' \cup {status', preview'.msg}
        <3> SUFFICES ASSUME NEW m \in 1..(Len(chat) + 1), chat'[m].kind \in {"status", "preview"}
                     PROVE  m \in stuck' \cup {status', preview'.msg}
            BY <2>4
        <3>1. CASE m \in 1..Len(chat)
            <4>1. chat'[m] = chat[m] /\ m \notin {status} \ kept
                BY <2>4, <2>5, <3>1
            <4>2. m \in stuck \cup {status}
                BY <2>2, <2>3, <3>1, <4>1 DEF Pictured
            <4> QED
                BY <2>1, <4>1, <4>2
        <3>2. CASE m = Len(chat) + 1
            BY <2>2, <3>2 DEF TypeOK
        <3> QED
            BY <2>3, <3>1, <3>2
    <2>9. preview'.msg = Len(chat) + 1
        BY <2>2 DEF TypeOK
    <2> QED
        BY <2>2, <2>4, <2>5, <2>7, <2>8, <2>9 DEF Pictured, Resting
<1>3. CASE AddFails
    <2>1. PICK outcome \in Failures :
            chat' = Sent(Other("preview"), outcome) /\ stuck' = stuck \cup Untraced(outcome)
        BY <1>3 DEF AddFails
    <2>2. Extends(chat', Other("preview")) /\ (~Done(outcome) => Len(chat') = Len(chat))
        BY <2>1, Sending, OtherTyped
    <2>3. Accounted(Other("preview"))
        <3>1. outcome \in {"refused", "lost"}
            BY DeliveryAssumption DEF DeliveryAssumption
        <3>2. Len(chat) \in Nat
            BY Counters
        <3> QED
            BY <2>1, <2>2, <3>1, <3>2 DEF Accounted, Untraced, Done
    <2>4. preview'.msg = preview.msg /\ status' = status
        BY <1>3 DEF AddFails, TypeOK
    <2> QED
        BY <2>1, <2>2, <2>3, <2>4, ExtendedPicture DEF Resting
<1>4. CASE AddEdit
    <2>1. UNCHANGED <<chat, stuck, status>> /\ preview'.msg = preview.msg
        BY <1>4 DEF AddEdit, TypeOK
    <2> QED
        BY <2>1, QuietPicture DEF Resting
<1> QED
    BY <1>1, <1>2, <1>3, <1>4

LEMMA MoreKeeps ==
  ASSUME NEW next, More(next)
  PROVE  \/ phase' = "after" /\ preview' = NoPreview /\ NoPreview.msg = 0
         \/ phase' = next /\ preview' = preview
  BY DEF More, Finished, NoPreview

LEMMA StepPictured == TypeOK /\ Pictured /\ [Next]_vars => Pictured' /\ Stays
<1> SUFFICES ASSUME TypeOK, Pictured, [Next]_vars PROVE Pictured' /\ Stays
    OBVIOUS
<1> USE DEF turn, screen, talk, bounds
<1>n. NoPreview.msg = 0
    BY DEF NoPreview
<1>1. ASSUME BeginCompletion \/ Wire \/ AnswerBegins \/ RequestFails \/ TurnEnds \/ ToolsRan
      PROVE Pictured' /\ Stays
    <2>1. /\ UNCHANGED <<chat, stuck, status>> /\ preview' = preview
          /\ phase \in {"model", "stream", "after", "tools"}
          /\ phase' \in {"stream", "failing", "ending", "model"}
        BY <1>1 DEF BeginCompletion, Wire, AnswerBegins, RequestFails, TurnEnds, ToolsRan, NextStep
    <2> QED
        BY <2>1, QuietPicture DEF Resting
<1>2. ASSUME Delta PROVE Pictured' /\ Stays
    BY <1>2, AddPicture DEF Delta
<1>3. ASSUME Acts \/ Concludes \/ AddsNothing PROVE Pictured' /\ Stays
    <2>1. /\ UNCHANGED <<chat, stuck, status>> /\ preview' = preview
          /\ phase = "stream" /\ phase' = "deliver"
        BY <1>3 DEF Acts, Concludes, AddsNothing, Whole, Produce, Step
    <2> QED
        BY <2>1, QuietPicture DEF Resting
<1>4. ASSUME Steered PROVE Pictured' /\ Stays
    <2>1. phase = "stream" /\ phase' = "model" /\ status' = status
        BY <1>4 DEF Steered, Whole
    <2>2. CASE entry = "_answer"
        <3>1. UNCHANGED <<chat, stuck, status>> /\ preview'.msg = preview.msg
            BY <1>4, <2>2 DEF Steered, Withdraw, TypeOK
        <3> QED
            BY <2>1, <3>1, QuietPicture DEF Resting
    <2>3. CASE entry # "_answer"
        <3>1. preview' = NoPreview /\ Delete({preview.msg})
            BY <1>4, <2>3 DEF Steered, Withdraw
        <3>2. Cleared({preview.msg})
            BY <3>1, ClearingOne DEF TypeOK
        <3>3. status # preview.msg \/ status = 0
            BY <2>1 DEF Pictured
        <3>4. status' = IF status \in {preview.msg} THEN 0 ELSE status
            BY <2>1, <3>3
        <3> QED
            BY <1>n, <2>1, <3>1, <3>2, <3>4, ClearedPicture DEF Resting
    <2> QED
        BY <2>2, <2>3
<1>5. ASSUME DeliverText PROVE Pictured' /\ Stays
    <2>1. /\ phase = "deliver" /\ phase' \in {"edit", "send"} /\ status' = 0
          /\ phase' = "edit" => preview.msg # 0 /\ preview' = preview
          /\ phase' = "send" => preview.msg = 0 /\ preview' = NoPreview
        BY <1>5 DEF DeliverText
    <2>2. Cleared({status})
        BY <1>5, ClearingOne DEF DeliverText, TypeOK
    <2>3. status # preview.msg \/ status = 0
        BY <2>1 DEF Pictured
    <2>4. preview'.msg = IF preview.msg \in {status} THEN 0 ELSE preview.msg
        BY <1>n, <2>1, <2>3
    <2>5. status' = IF status \in {status} THEN 0 ELSE status
        BY <2>1
    <2> QED
        BY <1>n, <2>1, <2>2, <2>4, <2>5, ClearedPicture DEF Resting
<1>6. ASSUME DeliverNothing PROVE Pictured' /\ Stays
    <2>1. phase = "deliver" /\ phase' = "after" /\ status' = status
        BY <1>6 DEF DeliverNothing
    <2>2. CASE UNCHANGED <<preview, chat, faults, stuck>>
        BY <2>1, <2>2, QuietPicture DEF Resting
    <2>3. CASE preview' = NoPreview /\ Delete({preview.msg})
        <3>1. Cleared({preview.msg})
            BY <2>3, ClearingOne DEF TypeOK
        <3>2. status # preview.msg \/ status = 0
            BY <2>1 DEF Pictured
        <3>3. status' = IF status \in {preview.msg} THEN 0 ELSE status
            BY <2>1, <3>2
        <3> QED
            BY <1>n, <2>1, <2>3, <3>1, <3>3, ClearedPicture DEF Resting
    <2> QED
        BY <1>6, <2>2, <2>3 DEF DeliverNothing
<1>7. ASSUME EditFirst PROVE Pictured' /\ Stays
    <2>1. /\ phase = "edit" /\ status' = status /\ produced' = produced
          /\ preview.msg \in 1..Len(chat) /\ chat[preview.msg].kind = "preview"
        BY <1>7 DEF EditFirst, Pictured, TypeOK
    <2>2. PICK outcome \in Outcome :
            LET edited == IF Done(outcome) THEN [chat EXCEPT ![preview.msg] = Piece(1)] ELSE chat IN
            IF outcome = "ok" THEN More("append") /\ chat' = edited /\ UNCHANGED <<faults, stuck>>
            ELSE SendInstead(outcome, edited)
        BY <1>7 DEF EditFirst
    <2>3. /\ [chat EXCEPT ![preview.msg] = Piece(1)] \in Seq(Messages)
          /\ Len([chat EXCEPT ![preview.msg] = Piece(1)]) = Len(chat)
          /\ \A m \in 1..Len(chat) : [chat EXCEPT ![preview.msg] = Piece(1)][m]
                                       = IF m = preview.msg THEN Piece(1) ELSE chat[m]
        <3>1. Piece(1) \in Messages
            BY PieceTyped
        <3>2. chat \in Seq(Messages)
            BY DEF TypeOK
        <3> QED
            BY <2>1, <3>1, <3>2, ExceptSeq
    <2>4. CASE outcome = "ok"
        <3>1. chat' = [chat EXCEPT ![preview.msg] = Piece(1)] /\ stuck' = stuck /\ More("append")
            BY <2>2, <2>4 DEF Done
        <3>2. /\ chat' \in Seq(Messages) /\ Len(chat') = Len(chat)
              /\ \A m \in 1..Len(chat) : chat'[m] = IF m = preview.msg THEN Piece(1) ELSE chat[m]
            BY <2>3, <3>1
        <3>3. DOMAIN chat' = 1..Len(chat) /\ DOMAIN chat = 1..Len(chat) /\ Len(chat) \in Nat
            BY <3>2, LenProperties, Counters
        <3>4. Piece(1).kind = "piece" /\ Piece(1)' = Piece(1)
            BY <2>1 DEF Piece
        <3>5. Stays
            BY <2>1, <3>2, <3>3 DEF Stays
        <3>6. \A m \in DOMAIN chat' : chat'[m].kind \in {"status", "preview"} => m \in stuck' \cup {status'}
            BY <2>1, <3>1, <3>2, <3>3, <3>4 DEF Pictured
        <3>7. status' # 0 => chat'[status'].kind = "status"
            <4>1. status # 0 => status \in 1..Len(chat) /\ chat[status].kind = "status"
                BY DEF Pictured, TypeOK
            <4> QED
                BY <2>1, <3>2, <4>1
        <3>8. CASE phase' = "after" /\ preview' = NoPreview
            BY <1>n, <3>5, <3>6, <3>7, <3>8 DEF Pictured, Resting
        <3>9. CASE phase' = "append" /\ preview' = preview
            <4>1. preview'.msg # 0 /\ chat'[preview'.msg] = Piece(1)'
                BY <2>1, <3>2, <3>4, <3>9
            <4> QED
                BY <3>5, <3>6, <3>7, <3>9, <4>1 DEF Pictured, Resting
        <3> QED
            BY <3>1, <3>8, <3>9, MoreKeeps
    <2>5. CASE outcome # "ok"
        <3> DEFINE edited == IF Done(outcome) THEN [chat EXCEPT ![preview.msg] = Piece(1)] ELSE chat
        <3>1. SendInstead(outcome, edited)
            BY <2>2, <2>5
        <3>2. /\ edited \in Seq(Messages) /\ Len(edited) = Len(chat)
              /\ \A m \in 1..Len(chat) : edited[m] = chat[m] \/ m = preview.msg
            BY <2>3 DEF TypeOK
        <3> HIDE DEF edited
        <3>3. Len(edited) # Len(chat) + 1
            BY <3>2, Counters
        <3> QED
            BY <2>1, <3>1, <3>2, <3>3, InsteadPicture
    <2> QED
        BY <2>4, <2>5
<1>8. ASSUME AppendPiece PROVE Pictured' /\ Stays
    <2>1. /\ phase = "append" /\ status' = status /\ produced' = produced /\ piece \in Nat
          /\ preview.msg \in 1..Len(chat) /\ preview.msg # 0 /\ chat[preview.msg] = Piece(1)
        BY <1>8 DEF AppendPiece, Pictured, TypeOK
    <2>2. PICK outcome \in Outcome :
            LET longer == Sent(Piece(piece), outcome) IN
            IF outcome = "ok" THEN More("append") /\ chat' = longer /\ UNCHANGED <<faults, stuck>>
            ELSE SendInstead(outcome, longer)
        BY <1>8 DEF AppendPiece
    <2>3. Piece(piece) \in Messages /\ Piece(piece).kind = "piece" /\ Piece(1).kind = "piece"
          /\ Piece(1)' = Piece(1)
        BY <2>1, PieceTyped DEF Piece
    <2>4. Extends(Sent(Piece(piece), outcome), Piece(piece))
        BY <2>3, Sending
    <2>5. CASE outcome = "ok"
        <3>1. Extends(chat', Piece(piece)) /\ stuck' = stuck /\ More("append")
            BY <2>2, <2>4, <2>5
        <3>2. /\ DOMAIN chat = 1..Len(chat) /\ Len(chat) \in Nat /\ DOMAIN chat' = 1..Len(chat')
              /\ Len(chat') \in {Len(chat), Len(chat) + 1}
              /\ Len(chat') = Len(chat) + 1 => chat'[Len(chat) + 1] = Piece(piece)
              /\ \A m \in 1..Len(chat) : chat'[m] = chat[m]
              /\ Stays
            BY <3>1, ExtendedStays
        <3>3. \A m \in DOMAIN chat' : chat'[m].kind \in {"status", "preview"} => m \in stuck' \cup {status'}
            <4> SUFFICES ASSUME NEW m \in 1..Len(chat'), chat'[m].kind \in {"status", "preview"}
                         PROVE  m \in stuck \cup {status}
                BY <2>1, <3>1, <3>2
            <4>1. m \in 1..Len(chat)
                <5>1. m # Len(chat) + 1 \/ Len(chat') # Len(chat) + 1
                    <6> SUFFICES ASSUME m = Len(chat) + 1, Len(chat') = Len(chat) + 1 PROVE FALSE
                        OBVIOUS
                    <6>1. chat'[m] = Piece(piece)
                        BY <3>2
                    <6> QED
                        BY <2>3, <6>1
                <5>2. Len(chat) \in Nat /\ Len(chat') \in {Len(chat), Len(chat) + 1}
                    BY <3>2
                <5> QED
                    BY <5>1, <5>2
            <4>2. chat'[m] = chat[m]
                BY <3>2, <4>1
            <4>3. m # preview.msg
                BY <2>1, <2>3, <4>2
            <4> QED
                BY <3>2, <4>1, <4>2, <4>3 DEF Pictured
        <3>4. status' # 0 => chat'[status'].kind = "status"
            <4>1. status # 0 => status \in 1..Len(chat) /\ chat[status].kind = "status"
                BY DEF Pictured, TypeOK
            <4> QED
                BY <2>1, <3>2, <4>1
        <3>5. CASE phase' = "after" /\ preview' = NoPreview
            BY <1>n, <3>2, <3>3, <3>4, <3>5 DEF Pictured, Resting
        <3>6. CASE phase' = "append" /\ preview' = preview
            <4>1. preview'.msg # 0 /\ preview'.msg = preview.msg
                BY <2>1, <3>6
            <4>2. chat'[preview.msg] = chat[preview.msg]
                BY <2>1, <3>2
            <4>3. chat'[preview'.msg] = Piece(1)'
                BY <2>1, <2>3, <4>1, <4>2
            <4> QED
                BY <3>2, <3>3, <3>4, <3>6, <4>1, <4>3 DEF Pictured, Resting
        <3> QED
            BY <3>1, <3>5, <3>6, MoreKeeps
    <2>6. CASE outcome # "ok"
        <3>1. SendInstead(outcome, Sent(Piece(piece), outcome))
            BY <2>2, <2>6
        <3>2. /\ Sent(Piece(piece), outcome) \in Seq(Messages)
              /\ Len(Sent(Piece(piece), outcome)) \in {Len(chat), Len(chat) + 1}
              /\ \A m \in 1..Len(chat) : Sent(Piece(piece), outcome)[m] = chat[m]
              /\ Len(Sent(Piece(piece), outcome)) = Len(chat) + 1 =>
                   Sent(Piece(piece), outcome)[Len(chat) + 1].kind = "piece"
            BY <2>3, <2>4 DEF Extends
        <3> QED
            BY <2>1, <3>1, <3>2, InsteadPicture
    <2> QED
        BY <2>5, <2>6
<1>9. ASSUME SendPiece PROVE Pictured' /\ Stays
    <2>1. phase = "send" /\ status' = status /\ stuck' = stuck /\ preview.msg = 0 /\ piece \in Nat
        BY <1>9 DEF SendPiece, Pictured, TypeOK
    <2>2. PICK outcome \in Outcome :
            /\ chat' = Sent(Piece(piece), outcome)
            /\ IF outcome = "ok" THEN More("send")
               ELSE phase' = "raising" /\ UNCHANGED <<piece, preview, delivered>>
        BY <1>9 DEF SendPiece
    <2>3. Piece(piece) \in Messages /\ Piece(piece).kind = "piece"
        BY <2>1, PieceTyped DEF Piece
    <2>4. Extends(chat', Piece(piece)) /\ Accounted(Piece(piece))
        BY <2>2, <2>3, Sending DEF Accounted
    <2>5. phase' \in {"send", "after", "raising"} /\ preview'.msg = preview.msg
        BY <1>n, <2>1, <2>2, MoreKeeps
    <2> QED
        BY <2>1, <2>4, <2>5, ExtendedPicture DEF Resting
<1>10. ASSUME ShowCalls PROVE Pictured' /\ Stays
    <2>1. phase = "after" /\ phase' = "tools" /\ preview' = preview
        BY <1>10 DEF ShowCalls
    <2>2. CASE UNCHANGED <<status, chat, faults, stuck>>
        BY <2>1, <2>2, QuietPicture DEF Resting
    <2>3. CASE ~UNCHANGED <<status, chat, faults, stuck>>
        <3>1. PICK outcome \in Outcome :
                /\ chat' = Sent(Other("status"), outcome)
                /\ status' = IF outcome = "ok" THEN Len(chat) + 1 ELSE 0
                /\ stuck' = stuck \cup Untraced(outcome)
            BY <1>10, <2>3 DEF ShowCalls
        <3>2. status = 0
            BY <1>10, <2>3 DEF ShowCalls
        <3>3. /\ Extends(chat', Other("status"))
              /\ Done(outcome) => Len(chat') = Len(chat) + 1
              /\ ~Done(outcome) => Len(chat') = Len(chat)
            BY <3>1, Sending, OtherTyped
        <3>4. Len(chat) \in Nat /\ Other("status").kind = "status" /\ outcome \in {"ok", "refused", "lost"}
            BY Counters, DeliveryAssumption DEF DeliveryAssumption, Other, Outcome
        <3>5. status' = status \/ Posted(Other("status"))
            BY <3>1, <3>2, <3>3, <3>4 DEF Posted, Done
        <3>6. Accounted(Other("status"))
            BY <3>1, <3>3, <3>4 DEF Accounted, Untraced, Done
        <3> QED
            BY <2>1, <3>1, <3>3, <3>5, <3>6, ExtendedPicture DEF Resting
    <2> QED
        BY <2>2, <2>3
<1>11. ASSUME ToolsSend PROVE Pictured' /\ Stays
    <2>1. phase = "tools" /\ phase' \in {"media", "single"} /\ preview' = preview /\ status' = 0
        BY <1>11 DEF ToolsSend
    <2>2. Cleared({status})
        BY <1>11, ClearingOne DEF ToolsSend, TypeOK
    <2>3. status # preview.msg \/ status = 0
        BY <2>1 DEF Pictured
    <2>4. preview'.msg = IF preview.msg \in {status} THEN 0 ELSE preview.msg
        BY <2>1, <2>3
    <2>5. status' = IF status \in {status} THEN 0 ELSE status
        BY <2>1
    <2> QED
        BY <2>1, <2>2, <2>4, <2>5, ClearedPicture DEF Resting
<1>12. ASSUME SendMedia \/ Apologise PROVE Pictured' /\ Stays
    <2>1. PICK outcome \in Outcome : chat' = Sent(Other("media"), outcome)
        BY <1>12 DEF SendMedia, Apologise
    <2>2. Extends(chat', Other("media")) /\ Accounted(Other("media"))
        BY <2>1, Sending, OtherTyped DEF Accounted, Other
    <2>3. UNCHANGED <<status, preview, stuck>>
        BY <1>12 DEF SendMedia, Apologise
    <2>4. /\ phase \notin {"append", "edit"} /\ phase' \notin {"append", "edit", "send"}
          /\ phase' \in Resting \cup {"dead", "sorry"} => phase = "sorry"
        BY <1>12 DEF SendMedia, Apologise, NextStep, PutBack, Resting
    <2>5. phase = "sorry" => status = 0 /\ preview.msg = 0
        BY DEF Pictured
    <2> QED
        BY <2>2, <2>3, <2>4, <2>5, ExtendedPicture
<1>13. ASSUME Finally PROVE Pictured' /\ Stays
    <2>1. Cleared({status, preview.msg})
        BY <1>13, ClearingTwo DEF Finally, TypeOK
    <2>2. status' = 0 /\ preview'.msg = 0
        BY <1>n, <1>13 DEF Finally, Fresh
    <2>3. phase \in {"ending", "raising", "failing"} /\ phase' \in {"answered", "sorry", "dead", "given up"}
        BY <1>13 DEF Finally, PutBack
    <2> QED
        BY <2>1, <2>2, <2>3, ClearedPicture
<1>14. ASSUME Die PROVE Pictured' /\ Stays
    <2>1. /\ chat' = chat /\ stuck' = stuck \cup ({status, preview.msg} \ {0})
          /\ status' = 0 /\ preview'.msg = 0 /\ phase' = "dead"
        BY <1>n, <1>14 DEF Die, Fresh
    <2>2. Stays
        BY <2>1, Counters DEF Stays
    <2>3. \A m \in DOMAIN chat' : chat'[m].kind \in {"status", "preview"} => m \in stuck'
        BY <2>1, Counters DEF Pictured
    <2> QED
        BY <2>1, <2>2, <2>3 DEF Pictured
<1>15. ASSUME Resume PROVE Pictured' /\ Stays
    <2>1. /\ UNCHANGED <<chat, stuck, status, preview>> /\ phase = "dead"
          /\ phase' \in {"model", "deliver", "ending", "begun anew"}
        BY <1>15 DEF Resume, NextStep
    <2>2. status = 0 /\ preview.msg = 0
        BY <2>1 DEF Pictured
    <2> QED
        BY <2>1, <2>2, QuietPicture DEF Resting
<1>16. ASSUME UNCHANGED vars PROVE Pictured' /\ Stays
    BY <1>16, Counters DEF vars, Pictured, Stays, Piece
<1> QED
    BY <1>1, <1>2, <1>3, <1>4, <1>5, <1>6, <1>7, <1>8, <1>9, <1>10, <1>11, <1>12, <1>13, <1>14,
       <1>15, <1>16 DEF Next, Rest

----------------------------------------------------------------------------
(* How far the text being sent has come.                                   *)

(* The pieces up to this one are in the chat.                              *)
Out == \A k \in 1..piece : \E m \in DOMAIN chat' : chat'[m] = Piece(k)

LEMMA PieceOut ==
  ASSUME TypeOK, Carrying, phase \in {"edit", "append", "send"}, NEW message,
         message = Piece(piece), Extends(chat', message), Len(chat') = Len(chat) + 1
  PROVE  Out
<1> SUFFICES ASSUME NEW k \in 1..piece PROVE \E m \in DOMAIN chat' : chat'[m] = Piece(k)
    BY DEF Out
<1>1. /\ DOMAIN chat' = 1..(Len(chat) + 1) /\ Len(chat) \in Nat /\ DOMAIN chat = 1..Len(chat)
      /\ chat'[Len(chat) + 1] = Piece(piece)
      /\ \A m \in 1..Len(chat) : chat'[m] = chat[m]
    BY ExtendedStays
<1>2. CASE k = piece
    <2>1. Len(chat) + 1 \in DOMAIN chat' /\ chat'[Len(chat) + 1] = Piece(k)
        BY <1>1, <1>2
    <2> QED
        BY <2>1
<1>3. CASE k # piece
    <2>1. k \in 1..(piece - 1)
        BY <1>3 DEF TypeOK
    <2>2. PICK m \in DOMAIN chat : chat[m] = Piece(k)
        BY <2>1 DEF Carrying
    <2>3. m \in DOMAIN chat' /\ chat'[m] = Piece(k)
        BY <1>1, <2>2
    <2> QED
        BY <2>3
<1> QED
    BY <1>2, <1>3

(* Sending a piece: it is out, or the text begins anew, or the send fails. *)
LEMMA SendingOn ==
  ASSUME TypeOK, Pictured, Carrying, EditFirst \/ AppendPiece \/ SendPiece
  PROVE  \/ Out /\ (More("append") \/ More("send"))
         \/ phase' = "send" /\ piece' = 1 /\ delivered' = delivered /\ preview' = NoPreview
         \/ phase = "send" /\ phase' = "raising" /\ UNCHANGED <<delivered, preview>>
<1>1. ASSUME EditFirst
      PROVE  \/ Out /\ More("append")
             \/ phase' = "send" /\ piece' = 1 /\ delivered' = delivered /\ preview' = NoPreview
    <2>1. /\ phase = "edit" /\ preview.msg \in 1..Len(chat) /\ piece = 1
          /\ chat \in Seq(Messages)
        BY <1>1 DEF EditFirst, Pictured, Carrying, TypeOK
    <2>2. PICK outcome \in Outcome :
            LET edited == IF Done(outcome) THEN [chat EXCEPT ![preview.msg] = Piece(1)] ELSE chat IN
            IF outcome = "ok" THEN More("append") /\ chat' = edited /\ UNCHANGED <<faults, stuck>>
            ELSE SendInstead(outcome, edited)
        BY <1>1 DEF EditFirst
    <2>3. CASE outcome = "ok"
        <3>1. chat' = [chat EXCEPT ![preview.msg] = Piece(1)] /\ More("append")
            BY <2>2, <2>3 DEF Done
        <3>2. preview.msg \in DOMAIN chat' /\ chat'[preview.msg] = Piece(1)
            BY <2>1, <3>1, LenProperties
        <3>3. \A k \in 1..piece : k = 1
            BY <2>1
        <3> QED
            BY <3>1, <3>2, <3>3 DEF Out
    <2>4. CASE outcome # "ok"
        BY <2>2, <2>4 DEF SendInstead
    <2> QED
        BY <2>3, <2>4
<1>2. ASSUME AppendPiece
      PROVE  \/ Out /\ More("append")
             \/ phase' = "send" /\ piece' = 1 /\ delivered' = delivered /\ preview' = NoPreview
    <2>1. phase = "append" /\ piece \in Nat
        BY <1>2 DEF AppendPiece, TypeOK
    <2>2. PICK outcome \in Outcome :
            LET longer == Sent(Piece(piece), outcome) IN
            IF outcome = "ok" THEN More("append") /\ chat' = longer /\ UNCHANGED <<faults, stuck>>
            ELSE SendInstead(outcome, longer)
        BY <1>2 DEF AppendPiece
    <2>3. CASE outcome = "ok"
        <3>1. More("append") /\ chat' = Sent(Piece(piece), outcome) /\ Done(outcome)
            BY <2>2, <2>3 DEF Done
        <3>2. Extends(chat', Piece(piece)) /\ Len(chat') = Len(chat) + 1
            BY <2>1, <3>1, PieceTyped, Sending
        <3> QED
            BY <2>1, <3>1, <3>2, PieceOut
    <2>4. CASE outcome # "ok"
        BY <2>2, <2>4 DEF SendInstead
    <2> QED
        BY <2>3, <2>4
<1>3. ASSUME SendPiece
      PROVE  \/ Out /\ More("send")
             \/ phase = "send" /\ phase' = "raising" /\ UNCHANGED <<delivered, preview>>
    <2>1. phase = "send" /\ piece \in Nat
        BY <1>3 DEF SendPiece, TypeOK
    <2>2. PICK outcome \in Outcome :
            /\ chat' = Sent(Piece(piece), outcome)
            /\ IF outcome = "ok" THEN More("send")
               ELSE phase' = "raising" /\ UNCHANGED <<piece, preview, delivered>>
        BY <1>3 DEF SendPiece
    <2>3. CASE outcome = "ok"
        <3>1. More("send") /\ chat' = Sent(Piece(piece), outcome) /\ Done(outcome)
            BY <2>2, <2>3 DEF Done
        <3>2. Extends(chat', Piece(piece)) /\ Len(chat') = Len(chat) + 1
            BY <2>1, <3>1, PieceTyped, Sending
        <3> QED
            BY <2>1, <3>1, <3>2, PieceOut
    <2>4. CASE outcome # "ok"
        BY <2>1, <2>2, <2>4
    <2> QED
        BY <2>3, <2>4
<1> QED
    BY <1>1, <1>2, <1>3

(* A step that keeps the texts, and neither asks the model nor sends.      *)
LEMMA CarriedOn ==
  ASSUME Carrying, produced' = produced, item' = item \/ item'.body = None,
         phase' \notin {"stream", "edit", "append", "send"}
  PROVE  Carrying'
  BY DEF Carrying

LEMMA StepCarrying == TypeOK /\ Pictured /\ Carrying /\ [Next]_vars => Carrying'
<1> SUFFICES ASSUME TypeOK, Pictured, Carrying, [Next]_vars PROVE Carrying'
    OBVIOUS
<1> USE DEF turn, screen, talk, bounds
<1>n. NoItem.body = None
    BY DEF NoItem
<1>1. ASSUME BeginCompletion \/ Wire \/ AnswerBegins \/ Delta PROVE Carrying'
    <2>1. phase' = "stream" /\ completions' = completions /\ produced' = produced /\ item' = item
        BY <1>1 DEF BeginCompletion, Wire, AnswerBegins, Delta
    <2>2. completions < MaxCompletions
        BY <1>1 DEF BeginCompletion, Wire, AnswerBegins, Delta, Carrying
    <2> QED
        BY <2>1, <2>2 DEF Carrying
<1>2. ASSUME NEW body \in Body \cup {None}, NEW then, Produce(body, then) PROVE Carrying'
    <2>1. phase' = "deliver" /\ item'.body = body
        BY <1>2 DEF Produce
    <2>2. ASSUME body # None PROVE produced' # <<>> /\ produced'[Len(produced')] = body
        <3>1. produced' = Append(produced, body) /\ body \in Body /\ produced \in Seq(Body)
            BY <1>2, <2>2 DEF Produce, TypeOK
        <3>2. Len(produced') = Len(produced) + 1 /\ produced'[Len(produced) + 1] = body /\ Len(produced) \in Nat
            BY <3>1, AppendProperties, LenProperties
        <3>3. produced' # <<>>
            BY <3>2, EmptySeq
        <3> QED
            BY <3>2, <3>3
    <2> QED
        BY <2>1, <2>2 DEF Carrying
<1>3. ASSUME Acts \/ Concludes \/ AddsNothing PROVE Carrying'
    <2>1. writing \in Body \cup {None} /\ draft \in Body \cup {None}
        BY DEF TypeOK
    <2>2. Produce(writing, "tools") \/ Produce(writing, "end") \/ Produce(draft, "end")
        BY <1>3 DEF Acts, Concludes, AddsNothing
    <2> QED
        BY <1>2, <2>1, <2>2
<1>4. ASSUME Steered PROVE Carrying'
    BY <1>4, <1>n, CarriedOn DEF Steered
<1>5. ASSUME RequestFails \/ TurnEnds \/ DeliverNothing \/ ShowCalls \/ ToolsSend PROVE Carrying'
    BY <1>5, CarriedOn DEF RequestFails, TurnEnds, DeliverNothing, ShowCalls, ToolsSend
<1>6. ASSUME DeliverText PROVE Carrying'
    <2>1. /\ item' = item /\ item.body # None /\ produced' = produced /\ piece' = 1
          /\ phase' \in {"edit", "send"}
        BY <1>6 DEF DeliverText
    <2>2. PiecesOf[item.body] \in Nat \ {0}
        BY <2>1, DeliveryAssumption DEF DeliveryAssumption, TypeOK, Items
    <2>3. 1 \in 1..PiecesOf[item.body] /\ 1..(1 - 1) = {}
        BY <2>2
    <2>4. piece' \in 1..PiecesOf[item'.body] /\ 1..(piece' - 1) = {}
        BY <2>1, <2>3
    <2> QED
        BY <2>1, <2>4 DEF Carrying
<1>7. ASSUME EditFirst \/ AppendPiece \/ SendPiece PROVE Carrying'
    <2>1. /\ item' = item /\ produced' = produced /\ phase \in {"edit", "append", "send"}
        BY <1>7 DEF EditFirst, AppendPiece, SendPiece
    <2>2. item.body # None /\ piece \in 1..PiecesOf[item.body] /\ PiecesOf[item.body] \in Nat \ {0}
        BY <2>1, DeliveryAssumption DEF Carrying, DeliveryAssumption, TypeOK, Items
    <2>3. \A k : Piece(k)' = Piece(k)
        BY <2>1 DEF Piece
    <2>4. CASE Out /\ (More("append") \/ More("send"))
        <3>1. CASE piece = PiecesOf[item.body]
            <4>1. phase' = "after"
                BY <2>4, <3>1 DEF More, Finished
            <4> QED
                BY <2>1, <4>1, CarriedOn
        <3>2. CASE piece # PiecesOf[item.body]
            <4>1. piece' = piece + 1 /\ phase' \in {"append", "send"}
                BY <2>4, <3>2 DEF More
            <4>2. piece' \in 1..PiecesOf[item.body] /\ 1..(piece' - 1) = 1..piece
                BY <2>2, <3>2, <4>1
            <4>3. \A k \in 1..(piece' - 1) : \E m \in DOMAIN chat' : chat'[m] = Piece(k)'
                BY <2>3, <2>4, <4>2 DEF Out
            <4>4. item'.body # None => produced' # <<>> /\ produced'[Len(produced')] = item'.body
                BY <2>1 DEF Carrying
            <4>5. item'.body # None /\ piece' \in 1..PiecesOf[item'.body]
                BY <2>1, <2>2, <4>2
            <4> QED
                BY <4>1, <4>3, <4>4, <4>5 DEF Carrying
        <3> QED
            BY <3>1, <3>2
    <2>5. CASE phase' = "send" /\ piece' = 1
        <3>1. piece' \in 1..PiecesOf[item'.body] /\ 1..(piece' - 1) = {} /\ item'.body # None
            BY <2>1, <2>2, <2>5
        <3> QED
            BY <2>1, <2>5, <3>1 DEF Carrying
    <2>6. CASE phase' = "raising"
        BY <2>1, <2>6, CarriedOn
    <2> QED
        BY <1>7, <2>4, <2>5, <2>6, SendingOn
<1>8. ASSUME ToolsRan \/ SendMedia PROVE Carrying'
    <2>1. produced' = produced /\ (item' = item \/ item' = NoItem) /\ phase' \in {"model", "single", "raising"}
        BY <1>8 DEF ToolsRan, SendMedia, NextStep
    <2> QED
        BY <1>n, <2>1, CarriedOn
<1>9. ASSUME Finally \/ Apologise \/ Die PROVE Carrying'
    <2>1. /\ produced' = produced /\ item' = item
          /\ phase' \in {"answered", "sorry", "dead", "given up", "apologised"}
        BY <1>9 DEF Finally, Apologise, Die, PutBack
    <2> QED
        BY <2>1, CarriedOn
<1>10. ASSUME Resume PROVE Carrying'
    <2>1. /\ produced' = produced /\ (item' = item \/ item' = NoItem)
          /\ phase' \in {"model", "deliver", "ending", "begun anew"}
        BY <1>10 DEF Resume, NextStep
    <2> QED
        BY <1>n, <2>1, CarriedOn
<1>11. ASSUME UNCHANGED vars PROVE Carrying'
    BY <1>11 DEF vars, Carrying, Piece
<1> QED
    BY <1>1, <1>3, <1>4, <1>5, <1>6, <1>7, <1>8, <1>9, <1>10, <1>11 DEF Next, Rest

----------------------------------------------------------------------------
(* What a step does to the texts: one is committed, the one in hand has    *)
(* arrived, is a repetition, or is lost, or nothing of the kind.           *)

Commits ==
  /\ \E body \in Body : produced' = Append(produced, body)
  /\ InHand = {} /\ InHand' = {Len(produced')}
  /\ UNCHANGED delivered /\ Owed' = Owed
Delivers ==
  /\ UNCHANGED produced /\ produced # <<>>
  /\ InHand = {Len(produced)} /\ InHand' = {} /\ Arrived(Len(produced))'
  /\ delivered' = delivered \cup {produced[Len(produced)]} /\ Owed' = Owed
Repeats ==
  /\ UNCHANGED <<produced, delivered>>
  /\ InHand' = {} /\ \A i \in InHand : produced[i] \in delivered
  /\ Owed' = Owed
Loses ==
  /\ UNCHANGED produced /\ delivered' \in {{}, delivered}
  /\ InHand' = {} /\ Owed' = Owed + 1
Settles ==
  /\ UNCHANGED produced /\ Owed' \in {Owed, Owed + 1}
  /\ InHand \subseteq InHand' /\ (delivered' = {} \/ (delivered' = delivered /\ InHand' = InHand))
  /\ preview'.msg # 0 /\ InHand' # {} => InHand # {} /\ preview.msg # 0
Moves == Commits \/ Delivers \/ Repeats \/ Loses \/ Settles

LEMMA HandKinds ==
  /\ InHand = {} \/ InHand = {Len(produced)}
  /\ InHand # {} => phase \in {"deliver", "edit", "append", "send"} /\ item.body # None
  /\ item.body = None \/ phase \notin {"deliver", "edit", "append", "send"} => InHand = {}
  BY DEF InHand

LEMMA HandKindsNext ==
  /\ phase' \notin {"deliver", "edit", "append", "send"} => InHand' = {}
  /\ item'.body = None => InHand' = {}
  /\ phase' \in {"deliver", "edit", "append", "send"} /\ item'.body # None => InHand' = {Len(produced')}
  BY DEF InHand

LEMMA OwedValues ==
  ASSUME TypeOK
  PROVE  /\ Owed \in Nat
         /\ phase \in {"raising", "given up"} => Owed = deaths + 1
         /\ phase \notin {"raising", "given up"} => Owed = deaths
<1>1. deaths \in Nat /\ deaths + 1 \in Nat /\ deaths + 0 = deaths
    BY DEF TypeOK
<1>2. ASSUME phase \in {"raising", "given up"} PROVE Owed = deaths + 1
    BY <1>2 DEF Owed
<1>3. ASSUME phase \notin {"raising", "given up"} PROVE Owed = deaths
    <2>1. Owed = deaths + 0
        BY <1>3 DEF Owed
    <2> QED
        BY <1>1, <2>1
<1> QED
    BY <1>1, <1>2, <1>3

LEMMA OwedNext ==
  ASSUME TypeOK'
  PROVE  /\ phase' \in {"raising", "given up"} => Owed' = deaths' + 1
         /\ phase' \notin {"raising", "given up"} => Owed' = deaths'
<1>1. deaths' + 0 = deaths'
    <2>1. deaths' \in 0..MaxDeaths
        BY Zenon DEF TypeOK
    <2>2. MaxDeaths \in Nat
        BY DeliveryAssumption DEF DeliveryAssumption
    <2>3. deaths' \in Int
        BY <2>1, <2>2
    <2>4. \A n \in Int : n + 0 = n
        OBVIOUS
    <2> QED
        BY <2>3, <2>4
<1>2. ASSUME phase' \in {"raising", "given up"} PROVE Owed' = deaths' + 1
    BY <1>2 DEF Owed
<1>3. ASSUME phase' \notin {"raising", "given up"} PROVE Owed' = deaths'
    <2>1. Owed' = deaths' + 0
        BY <1>3 DEF Owed
    <2> QED
        BY <1>1, <2>1
<1> QED
    BY <1>2, <1>3

(* A step away from the delivery, with the same deaths.                    *)
LEMMA Elsewhere ==
  ASSUME TypeOK, InHand = {}, phase' \notin {"deliver", "edit", "append", "send"},
         phase \notin {"raising", "given up"}, phase' \notin {"raising", "given up"},
         UNCHANGED <<produced, deaths, delivered>>
  PROVE  Moves
<1>1. InHand' = {}
    BY HandKindsNext
<1>2. Owed' = Owed
    BY DEF Owed
<1> QED
    BY <1>1, <1>2 DEF Moves, Settles

LEMMA StepMoves == TypeOK /\ Pictured /\ Carrying /\ Remembered /\ [Next]_vars => Moves
<1> SUFFICES ASSUME TypeOK, Pictured, Carrying, Remembered, [Next]_vars PROVE Moves
    OBVIOUS
<1>d. deaths \in Nat /\ TypeOK'
  <2>1. deaths \in Nat
      BY DEF TypeOK
  <2> QED
      BY <2>1, StepTypes
<1> USE DEF turn, screen, talk, bounds
<1>1. ASSUME \/ BeginCompletion \/ Wire \/ AnswerBegins \/ Delta \/ RequestFails \/ TurnEnds
             \/ ToolsRan \/ ToolsSend \/ ShowCalls \/ Steered
      PROVE  Moves
    <2>1. /\ phase \in {"model", "stream", "after", "tools"}
          /\ phase' \in {"stream", "failing", "ending", "model", "media", "single", "tools"}
          /\ UNCHANGED <<produced, deaths, delivered>>
        BY <1>1 DEF BeginCompletion, Wire, AnswerBegins, Delta, RequestFails, TurnEnds, ToolsRan,
                    ToolsSend, ShowCalls, Steered, Whole, NextStep
    <2> QED
        BY <2>1, HandKinds, Elsewhere
<1>2. ASSUME NEW body \in Body \cup {None}, NEW then, Produce(body, then), Step, Whole PROVE Moves
    <2>1. /\ phase = "stream" /\ phase' = "deliver" /\ item'.body = body
          /\ UNCHANGED <<deaths, delivered>>
        BY <1>2 DEF Produce, Step, Whole
    <2>2. InHand = {} /\ Owed' = Owed
        BY <2>1, HandKinds DEF Owed
    <2>3. CASE body = None
        <3>1. produced' = produced /\ InHand' = {}
            BY <1>2, <2>1, <2>3, HandKindsNext DEF Produce
        <3> QED
            BY <2>1, <2>2, <3>1 DEF Moves, Settles
    <2>4. CASE body # None
        <3>1. produced' = Append(produced, body) /\ body \in Body /\ InHand' = {Len(produced')}
            BY <1>2, <2>1, <2>4, HandKindsNext DEF Produce
        <3> QED
            BY <2>1, <2>2, <3>1 DEF Moves, Commits
    <2> QED
        BY <2>3, <2>4
<1>3. ASSUME Acts \/ Concludes \/ AddsNothing PROVE Moves
    <2>1. writing \in Body \cup {None} /\ draft \in Body \cup {None}
        BY DEF TypeOK
    <2>2. /\ Produce(writing, "tools") \/ Produce(writing, "end") \/ Produce(draft, "end")
          /\ Step /\ Whole
        BY <1>3 DEF Acts, Concludes, AddsNothing
    <2> QED
        BY <1>2, <2>1, <2>2
<1>4. ASSUME DeliverText PROVE Moves
    <2>1. /\ phase = "deliver" /\ phase' \in {"edit", "send"} /\ item.body # None
          /\ UNCHANGED <<produced, item, deaths, delivered>>
          /\ preview'.msg # 0 => preview.msg # 0
        BY <1>4 DEF DeliverText, NoPreview
    <2>2. InHand = {Len(produced)} /\ InHand' = {Len(produced)} /\ Owed' = Owed
        BY <2>1 DEF InHand, Owed
    <2> QED
        BY <2>1, <2>2 DEF Moves, Settles
<1>5. ASSUME DeliverNothing PROVE Moves
    <2>1. /\ phase = "deliver" /\ phase' = "after" /\ UNCHANGED <<produced, deaths, delivered>>
          /\ item.body = None \/ item.body \in delivered
        BY <1>5 DEF DeliverNothing, Repeat
    <2>2. InHand' = {} /\ Owed' = Owed
        BY <2>1 DEF InHand, Owed
    <2>3. \A i \in InHand : produced[i] \in delivered
        BY <2>1 DEF InHand, Carrying
    <2> QED
        BY <2>1, <2>2, <2>3 DEF Moves, Repeats
<1>6. ASSUME EditFirst \/ AppendPiece \/ SendPiece PROVE Moves
    <2>1. /\ phase \in {"edit", "append", "send"} /\ UNCHANGED <<produced, item, deaths>>
        BY <1>6 DEF EditFirst, AppendPiece, SendPiece
    <2>2. /\ item.body # None /\ produced # <<>> /\ produced[Len(produced)] = item.body
          /\ InHand = {Len(produced)}
        BY <2>1 DEF Carrying, InHand
    <2>3. CASE Out /\ (More("append") \/ More("send"))
        <3>1. CASE piece = PiecesOf[item.body]
            <4>1. phase' = "after" /\ delivered' = delivered \cup {item.body}
                BY <2>3, <3>1 DEF More, Finished
            <4>2. Arrived(Len(produced))'
                <5>1. \A k \in 1..PiecesOf[produced[Len(produced)]] : \E m \in DOMAIN chat' : chat'[m] = Piece(k)
                    BY <2>2, <2>3, <3>1 DEF Out
                <5>2. \A k : Piece(k).kind = "piece" /\ Piece(k).part = k /\ Piece(k).of = Len(produced)
                    BY DEF Piece
                <5>3. \A k \in 1..PiecesOf[produced[Len(produced)]] : \E m \in DOMAIN chat' :
                        chat'[m].kind = "piece" /\ chat'[m].part = k /\ chat'[m].of = Len(produced)
                    BY <5>1, <5>2
                <5> QED
                    BY <2>1, <5>3 DEF Arrived
            <4>3. InHand' = {} /\ Owed' = Owed
                BY <2>1, <4>1 DEF InHand, Owed
            <4> QED
                BY <2>1, <2>2, <4>1, <4>2, <4>3 DEF Moves, Delivers
        <3>2. CASE piece # PiecesOf[item.body]
            <4>1. phase' \in {"append", "send"} /\ preview' = preview /\ delivered' = delivered
                BY <2>3, <3>2 DEF More
            <4>2. InHand' = InHand /\ Owed' = Owed
                BY <2>1, <2>2, <4>1 DEF InHand, Owed
            <4> QED
                BY <2>1, <2>2, <4>1, <4>2 DEF Moves, Settles
        <3> QED
            BY <3>1, <3>2
    <2>4. CASE phase' = "send" /\ delivered' = delivered /\ preview' = NoPreview
        <3>1. InHand' = InHand /\ Owed' = Owed /\ preview'.msg = 0
            BY <2>1, <2>2, <2>4 DEF InHand, Owed, NoPreview
        <3> QED
            BY <2>1, <2>4, <3>1 DEF Moves, Settles
    <2>5. CASE phase = "send" /\ phase' = "raising" /\ delivered' = delivered
        <3>1. InHand' = {} /\ Owed' = Owed + 1
            BY <1>d, <2>1, <2>5 DEF InHand, Owed
        <3> QED
            BY <2>1, <2>5, <3>1 DEF Moves, Loses
    <2> QED
        BY <1>6, <2>3, <2>4, <2>5, SendingOn
<1>7. ASSUME SendMedia PROVE Moves
    <2>1. /\ phase \in {"media", "single"} /\ phase' \in {"model", "single", "raising"}
          /\ UNCHANGED <<produced, deaths, delivered>>
        BY <1>7 DEF SendMedia, NextStep
    <2>2. InHand = {} /\ InHand' = {}
        BY <2>1 DEF InHand
    <2>3. Owed' \in {Owed, Owed + 1}
        BY <1>d, <2>1, OwedValues, OwedNext
    <2> QED
        BY <2>1, <2>2, <2>3 DEF Moves, Settles
<1>8. ASSUME Finally \/ Apologise PROVE Moves
    <2>1. /\ produced' = produced /\ (delivered' = {} \/ delivered' = delivered)
          /\ phase \in {"ending", "raising", "failing", "sorry"}
          /\ phase' \in {"answered", "sorry", "dead", "given up", "apologised"}
        BY <1>8 DEF Finally, Apologise, Fresh, PutBack
    <2>2. InHand = {} /\ InHand' = {}
        BY <2>1 DEF InHand
    <2>3. /\ phase = "raising" => PutBack
          /\ phase # "raising" => PutBack \/ (deaths' = deaths /\ phase' \in {"answered", "sorry", "apologised"})
        BY <1>8 DEF Finally, Apologise
    <2>4. Owed' \in {Owed, Owed + 1}
        <3>1. CASE phase = "raising"
            BY <1>d, <2>3, <3>1, OwedValues, OwedNext DEF PutBack
        <3>2. CASE phase # "raising"
            <4>1. Owed = deaths
                BY <1>d, <2>1, <3>2, OwedValues
            <4>2. CASE PutBack
                BY <1>d, <4>1, <4>2, OwedValues, OwedNext DEF PutBack
            <4>3. CASE deaths' = deaths /\ phase' \in {"answered", "sorry", "apologised"}
                BY <1>d, <4>1, <4>3, OwedValues, OwedNext
            <4> QED
                BY <2>3, <3>2, <4>2, <4>3
        <3> QED
            BY <3>1, <3>2
    <2> QED
        BY <2>1, <2>2, <2>4 DEF Moves, Settles
<1>9. ASSUME Die PROVE Moves
    <2>1. /\ produced' = produced /\ delivered' = {} /\ phase' = "dead" /\ deaths' = deaths + 1
          /\ phase # "given up"
        BY <1>9 DEF Die, Fresh, Resting
    <2>2. InHand' = {}
        BY <2>1 DEF InHand
    <2>3. CASE phase = "raising"
        <3>1. InHand = {} /\ Owed' = Owed
            BY <1>d, <2>1, <2>3 DEF InHand, Owed
        <3> QED
            BY <2>1, <2>2, <3>1 DEF Moves, Settles
    <2>4. CASE phase # "raising"
        <3>1. Owed' = Owed + 1
            BY <1>d, <2>1, <2>4, OwedValues, OwedNext
        <3> QED
            BY <2>1, <2>2, <3>1 DEF Moves, Loses
    <2> QED
        BY <2>3, <2>4
<1>10. ASSUME Resume PROVE Moves
    <2>1. /\ phase = "dead" /\ phase' \in {"model", "deliver", "ending", "begun anew"}
          /\ UNCHANGED <<produced, deaths, delivered, preview>>
        BY <1>10 DEF Resume, NextStep
    <2>2. preview.msg = 0 /\ delivered = {}
        BY <2>1 DEF Pictured, Remembered
    <2>3. InHand = {} /\ Owed' = Owed
        BY <2>1 DEF InHand, Owed
    <2> QED
        BY <2>1, <2>2, <2>3 DEF Moves, Settles
<1>11. ASSUME UNCHANGED vars PROVE Moves
    <2>1. UNCHANGED <<produced, delivered, preview>> /\ InHand' = InHand /\ Owed' = Owed
        BY <1>11 DEF vars, InHand, Owed
    <2> QED
        BY <2>1 DEF Moves, Settles
<1> QED
    BY <1>1, <1>3, <1>4, <1>5, <1>6, <1>7, <1>8, <1>9, <1>10, <1>11 DEF Next, Rest

----------------------------------------------------------------------------
(* What has arrived stays, and what is missing is paid for.                *)

LEMMA ArrivedStays ==
  ASSUME TypeOK, TypeOK', Pictured, Stays, NEW i \in DOMAIN produced, Arrived(i),
         produced'[i] = produced[i], phase = "append" => i # Len(produced)
  PROVE  Arrived(i)'
<1>1. /\ DOMAIN chat = 1..Len(chat) /\ DOMAIN chat' = 1..Len(chat') /\ Len(chat) \in Nat
      /\ Len(chat') \in Nat /\ Len(chat) <= Len(chat')
    BY Counters, LenProperties DEF Stays, TypeOK
<1> SUFFICES ASSUME NEW k \in 1..PiecesOf[produced'[i]]
             PROVE  \E m \in DOMAIN chat' :
                      chat'[m].kind = "piece" /\ chat'[m].part = k /\ chat'[m].of = i
    BY DEF Arrived
<1>2. PICK m \in DOMAIN chat : chat[m].kind = "piece" /\ chat[m].part = k /\ chat[m].of = i
    BY DEF Arrived
<1>3. ~(phase = "append" /\ m = preview.msg)
    <2> SUFFICES ASSUME phase = "append", m = preview.msg PROVE FALSE
        OBVIOUS
    <2>1. m # 0
        BY <1>1, <1>2
    <2>2. chat[m] = Piece(1)
        BY <2>1 DEF Pictured
    <2>3. chat[m].of = Len(produced)
        BY <2>2 DEF Piece
    <2> QED
        BY <1>2, <2>3
<1>4. chat'[m] = chat[m]
    BY <1>1, <1>2, <1>3 DEF Stays
<1>5. m \in DOMAIN chat'
    BY <1>1, <1>2
<1> QED
    BY <1>2, <1>4, <1>5

LEMMA ProducedStays ==
  ASSUME TypeOK, Moves
  PROVE  /\ \A i \in DOMAIN produced : i \in DOMAIN produced' /\ produced'[i] = produced[i]
         /\ Commits => DOMAIN produced' = DOMAIN produced \cup {Len(produced')} /\ Len(produced') \notin DOMAIN produced
         /\ ~Commits => produced' = produced
<1>1. produced \in Seq(Body) /\ Len(produced) \in Nat /\ DOMAIN produced = 1..Len(produced)
    BY Counters DEF TypeOK
<1>2. CASE Commits
    <2>1. PICK body \in Body : produced' = Append(produced, body)
        BY <1>2 DEF Commits
    <2>2. /\ produced' \in Seq(Body) /\ Len(produced') = Len(produced) + 1
          /\ \A i \in 1..Len(produced) : produced'[i] = produced[i]
        BY <1>1, <2>1, AppendProperties
    <2>3. DOMAIN produced' = 1..(Len(produced) + 1)
        BY <2>2, LenProperties
    <2> QED
        BY <1>1, <1>2, <2>2, <2>3
<1>3. CASE ~Commits
    <2>1. produced' = produced
        BY <1>3 DEF Moves, Delivers, Repeats, Loses, Settles
    <2> QED
        BY <1>3, <2>1
<1> QED
    BY <1>2, <1>3

(* While more pieces are appended, the last text is in hand, in front of   *)
(* its preview.                                                            *)
LEMMA Appending ==
  ASSUME Pictured, Carrying, phase = "append"
  PROVE  InHand = {Len(produced)} /\ preview.msg # 0
  BY DEF Pictured, Carrying, InHand

LEMMA FirmStays ==
  ASSUME TypeOK, TypeOK', Pictured, Carrying, Stays, Moves, NEW j \in DOMAIN produced, Firm(j)
  PROVE  Firm(j)'
<1>1. j \in DOMAIN produced' /\ produced'[j] = produced[j]
    BY ProducedStays
<1>2. phase = "append" => j # Len(produced)
    BY Appending DEF Firm
<1>3. Arrived(j)'
    BY <1>1, <1>2, ArrivedStays DEF Firm
<1>4. j \in InHand' => preview'.msg = 0
    <2>1. CASE Commits
        BY <2>1, ProducedStays DEF Commits
    <2>2. CASE Delivers \/ Repeats \/ Loses
        BY <2>2 DEF Delivers, Repeats, Loses
    <2>3. CASE Settles
        <3> SUFFICES ASSUME j \in InHand', preview'.msg # 0 PROVE FALSE
            OBVIOUS
        <3>1. InHand # {} /\ preview.msg # 0 /\ InHand \subseteq InHand' /\ produced' = produced
            BY <2>3 DEF Settles
        <3>2. j = Len(produced)
            BY <3>1 DEF InHand
        <3>3. j \in InHand
            BY <3>1, <3>2, HandKinds
        <3> QED
            BY <3>1, <3>3 DEF Firm
    <2> QED
        BY <2>1, <2>2, <2>3 DEF Moves
<1> QED
    BY <1>3, <1>4 DEF Firm

LEMMA ReachedStays ==
  ASSUME TypeOK, TypeOK', Pictured, Carrying, Stays, Moves, NEW body, Reached(body),
         \A j \in DOMAIN produced \ InHand : j \notin InHand'
  PROVE  Reached(body)'
<1>1. PICK j \in DOMAIN produced \ InHand : produced[j] = body /\ Arrived(j)
    BY DEF Reached
<1>2. j \in DOMAIN produced' /\ produced'[j] = produced[j]
    BY <1>1, ProducedStays
<1>3. phase = "append" => j # Len(produced)
    BY <1>1, Appending
<1>4. Arrived(j)'
    BY <1>1, <1>2, <1>3, ArrivedStays
<1> QED
    BY <1>1, <1>2, <1>4 DEF Reached

LEMMA RestsForgetful ==
  ASSUME Remembered, [Next]_vars
  PROVE  phase' \in Resting \cup {"dead", "sorry"} => delivered' = {}
<1> USE DEF turn, screen, talk, bounds, Resting
<1>1. CASE BeginCompletion \/ Wire \/ AnswerBegins \/ Delta \/ RequestFails \/ TurnEnds \/ ToolsRan
    BY <1>1 DEF BeginCompletion, Wire, AnswerBegins, Delta, RequestFails, TurnEnds, ToolsRan, NextStep
<1>2. CASE Acts \/ Concludes \/ AddsNothing \/ Steered
    BY <1>2 DEF Acts, Concludes, AddsNothing, Steered, Produce
<1>3. CASE DeliverText \/ DeliverNothing \/ ShowCalls \/ ToolsSend \/ SendMedia
    BY <1>3 DEF DeliverText, DeliverNothing, ShowCalls, ToolsSend, SendMedia, NextStep
<1>4. CASE EditFirst
    BY <1>4 DEF EditFirst, More, Finished, SendInstead
<1>5. CASE AppendPiece
    BY <1>5 DEF AppendPiece, More, Finished, SendInstead
<1>6. CASE SendPiece
    BY <1>6 DEF SendPiece, More, Finished
<1>7. CASE Finally \/ Die
    BY <1>7 DEF Finally, Die, Fresh
<1>8. CASE Apologise
    BY <1>8 DEF Apologise, Remembered
<1>9. CASE Resume
    BY <1>9 DEF Resume, NextStep, Remembered
<1>10. CASE UNCHANGED vars
    BY <1>10 DEF vars, Remembered
<1> QED
    BY <1>1, <1>2, <1>3, <1>4, <1>5, <1>6, <1>7, <1>8, <1>9, <1>10 DEF Next, Rest

LEMMA StepRemembered ==
  ASSUME TypeOK, TypeOK', Pictured, Carrying, Remembered, Stays, Moves, [Next]_vars
  PROVE  Remembered'
<1> SUFFICES ASSUME NEW body \in delivered' PROVE Reached(body)'
    BY RestsForgetful DEF Remembered
<1>1. CASE Commits
    <2>1. body \in delivered /\ \A j \in DOMAIN produced \ InHand : j \notin InHand'
        BY <1>1, ProducedStays DEF Commits
    <2> QED
        BY <2>1, ReachedStays DEF Remembered
<1>2. CASE Delivers
    <2>1. CASE body \in delivered
        <3>1. \A j \in DOMAIN produced \ InHand : j \notin InHand'
            BY <1>2 DEF Delivers
        <3> QED
            BY <2>1, <3>1, ReachedStays DEF Remembered
    <2>2. CASE body \notin delivered
        <3>1. body = produced[Len(produced)] /\ InHand' = {} /\ Arrived(Len(produced))' /\ produced' = produced
            BY <1>2, <2>2 DEF Delivers
        <3>2. Len(produced) \in DOMAIN produced
            <4>1. produced # <<>> /\ produced \in Seq(Body)
                BY <1>2 DEF Delivers, TypeOK
            <4>2. Len(produced) # 0
                BY <4>1, EmptySeq
            <4> QED
                BY <4>2, Counters
        <3> QED
            BY <3>1, <3>2 DEF Reached
    <2> QED
        BY <2>1, <2>2
<1>3. CASE Repeats \/ Loses
    <2>1. body \in delivered /\ \A j \in DOMAIN produced \ InHand : j \notin InHand'
        BY <1>3 DEF Repeats, Loses
    <2> QED
        BY <2>1, ReachedStays DEF Remembered
<1>4. CASE Settles
    <2>1. delivered' = delivered /\ InHand' = InHand
        BY <1>4 DEF Settles
    <2>2. \A j \in DOMAIN produced \ InHand : j \notin InHand'
        BY <2>1
    <2> QED
        BY <2>1, <2>2, ReachedStays DEF Remembered
<1> QED
    BY <1>1, <1>2, <1>3, <1>4 DEF Moves

(* A text with a firm place has one after the step.                        *)
LEMMA MissingShrinks ==
  ASSUME TypeOK, TypeOK', Pictured, Carrying, Stays, Moves, NEW i \in DOMAIN produced, i \in Missing'
  PROVE  i \in Missing
<1> SUFFICES ASSUME NEW j \in DOMAIN produced, produced[j] = produced[i], Firm(j) PROVE FALSE
    BY DEF Missing
<1>1. j \in DOMAIN produced' /\ produced'[j] = produced'[i] /\ Firm(j)'
    BY ProducedStays, FirmStays
<1> QED
    BY <1>1 DEF Missing

(* Losing the text in hand adds at most that one.                          *)
LEMMA OneMore ==
  ASSUME NEW S, NEW T, NEW n \in Nat, NEW k, IsFiniteSet(S), Cardinality(S) <= n, T \subseteq S \cup {k}
  PROVE  Cardinality(T) <= n + 1
<1>1. IsFiniteSet(S \cup {k}) /\ Cardinality(S \cup {k}) <= Cardinality(S) + 1 /\ Cardinality(S) \in Nat
    <2>1. Cardinality(S) \in Nat
        BY FS_CardinalityType
    <2>2. /\ IsFiniteSet(S \cup {k})
          /\ Cardinality(S \cup {k}) = IF k \in S THEN Cardinality(S) ELSE Cardinality(S) + 1
        BY FS_AddElement
    <2> QED
        BY <2>1, <2>2
<1>2. Cardinality(T) <= Cardinality(S \cup {k}) /\ Cardinality(T) \in Nat /\ Cardinality(S \cup {k}) \in Nat
    BY <1>1, FS_Subset, FS_CardinalityType
<1> QED
    BY <1>1, <1>2

LEMMA NoMore ==
  ASSUME NEW S, NEW T, NEW n \in Nat, NEW k \in Nat, IsFiniteSet(S), Cardinality(S) <= n, T \subseteq S, n <= k
  PROVE  Cardinality(T) <= k
<1>1. Cardinality(T) <= Cardinality(S) /\ Cardinality(T) \in Nat /\ Cardinality(S) \in Nat
    BY FS_Subset, FS_CardinalityType
<1> QED
    BY <1>1

LEMMA StepCovered ==
  ASSUME TypeOK, TypeOK', Pictured, Carrying, Remembered, Covered, Stays, Moves
  PROVE  Covered'
<1>1. Missing \subseteq DOMAIN produced /\ Missing' \subseteq DOMAIN produced'
    BY DEF Missing
<1>2. IsFiniteSet(Missing \ InHand)
    <2>1. IsFiniteSet(1..Len(produced))
        BY Counters, FS_Interval
    <2>2. Missing \ InHand \subseteq 1..Len(produced)
        BY <1>1, Counters
    <2> QED
        BY <2>1, <2>2, FS_Subset
<1>3. Owed \in Nat /\ Cardinality(Missing \ InHand) <= Owed
    BY OwedValues DEF Covered
<1>4. ASSUME Missing' \ InHand' \subseteq Missing \ InHand, Owed' \in {Owed, Owed + 1} PROVE Covered'
    <2>1. Owed' \in Nat /\ Owed <= Owed'
        BY <1>3, <1>4
    <2>2. Cardinality(Missing' \ InHand') <= Owed'
        BY <1>2, <1>3, <1>4, <2>1, NoMore
    <2> QED
        BY <2>2 DEF Covered
<1>5. CASE Commits
    <2>1. Missing' \ InHand' \subseteq DOMAIN produced
        BY <1>1, <1>5, ProducedStays DEF Commits
    <2>2. Missing' \ InHand' \subseteq Missing \ InHand
        BY <1>5, <2>1, MissingShrinks DEF Commits
    <2>3. Owed' = Owed
        BY <1>5 DEF Commits
    <2> QED
        BY <1>4, <2>2, <2>3
<1>6. ASSUME ~Commits PROVE Missing' \subseteq Missing
    <2>1. produced' = produced
        BY <1>6, ProducedStays
    <2> QED
        BY <1>1, <2>1, MissingShrinks
<1>7. ASSUME produced' = produced, NEW i \in InHand, NEW j \in DOMAIN produced, produced[j] = produced[i], Firm(j)'
      PROVE  i \notin Missing'
    BY <1>7 DEF Missing
<1>8. CASE Delivers
    <2>1. /\ produced' = produced /\ InHand = {Len(produced)} /\ InHand' = {} /\ Arrived(Len(produced))'
          /\ Owed' = Owed
        BY <1>8 DEF Delivers
    <2>2. Firm(Len(produced))'
        BY <2>1 DEF Firm
    <2>3. Len(produced) \notin Missing'
        <3>1. Missing' \subseteq DOMAIN produced
            BY <1>1, <2>1
        <3> QED
            BY <1>7, <2>1, <2>2, <3>1
    <2>4. ~Commits
        BY <2>1 DEF Commits
    <2> QED
        BY <1>4, <1>6, <2>1, <2>3, <2>4
<1>9. CASE Repeats
    <2>1. /\ produced' = produced /\ InHand' = {} /\ Owed' = Owed
          /\ \A i \in InHand : produced[i] \in delivered
        BY <1>9 DEF Repeats
    <2>2. ASSUME NEW i \in InHand PROVE i \notin Missing'
        <3>1. PICK j \in DOMAIN produced \ InHand : produced[j] = produced[i] /\ Arrived(j)
            BY <2>1 DEF Remembered, Reached
        <3>2. Firm(j)
            BY <3>1 DEF Firm
        <3>3. Firm(j)'
            BY <3>2, FirmStays
        <3> QED
            BY <1>7, <2>1, <3>1, <3>3
    <2>3. ~Commits
        BY <2>1 DEF Commits
    <2> QED
        BY <1>4, <1>6, <2>1, <2>2, <2>3
<1>10. CASE Loses
    <2>1. InHand' = {} /\ Owed' = Owed + 1 /\ ~Commits
        BY <1>10 DEF Loses, Commits
    <2>2. Missing' \ InHand' \subseteq (Missing \ InHand) \cup {Len(produced)}
        BY <1>6, <2>1, HandKinds
    <2>3. Cardinality(Missing' \ InHand') <= Owed + 1
        BY <1>2, <1>3, <2>2, OneMore
    <2> QED
        BY <2>1, <2>3 DEF Covered
<1>11. CASE Settles
    <2>1. CASE ~Commits
        <3>1. InHand \subseteq InHand' /\ Owed' \in {Owed, Owed + 1}
            BY <1>11 DEF Settles
        <3> QED
            BY <1>4, <1>6, <2>1, <3>1
    <2> QED
        BY <1>5, <2>1
<1> QED
    BY <1>5, <1>8, <1>9, <1>10, <1>11 DEF Moves

----------------------------------------------------------------------------
(* The inductive invariant.                                                *)

IInv == TypeOK /\ Streaming /\ Pictured /\ Carrying /\ Remembered /\ Covered

LEMMA Starts == Init => IInv
<1> SUFFICES ASSUME Init PROVE IInv
    OBVIOUS
<1> USE DeliveryAssumption DEF DeliveryAssumption
<1>1. chat = <<>> /\ produced = <<>> /\ Len(chat) = 0 /\ DOMAIN chat = {} /\ DOMAIN produced = {}
    BY EmptySeq, LenProperties DEF Init
<1>2. TypeOK
    <2>1. StreamTypeOK
        <3>1. Retries \in Nat
            BY RetriesAssumption DEF RetriesAssumption
        <3>2. request = "idle" /\ attempt = 0 /\ received = FALSE /\ voices = {}
            BY DEF Init, StreamInit
        <3>3. attempt \in 0..Retries /\ voices \subseteq 0..Retries
            BY <3>1, <3>2
        <3>4. received \in BOOLEAN
            BY <3>2, Zenon
        <3> QED
            BY <3>2, <3>3, <3>4 DEF StreamTypeOK
    <2>2. item \in Items /\ preview \in [msg : 0..Len(chat), held : BOOLEAN, aside : BOOLEAN]
        BY <1>1 DEF Init, NoItem, NoPreview, Items
    <2>3. chat \in Seq(Messages) /\ produced \in Seq(Body)
        BY <1>1, EmptySeq
    <2> QED
        BY <1>1, <2>1, <2>2, <2>3 DEF Init, TypeOK, Phases
<1>3. Streaming
    BY DEF Init, StreamInit, Streaming
<1>4. Pictured
    BY <1>1 DEF Init, Pictured, NoPreview, Resting
<1>5. Carrying
    BY DEF Init, Carrying, NoItem
<1>6. Remembered
    BY DEF Init, Remembered
<1>7. Covered
    <2>1. Missing \ InHand = {}
        BY <1>1 DEF Missing
    <2>2. Cardinality(Missing \ InHand) = 0
        BY <2>1, FS_EmptySet
    <2>3. Owed \in Nat
        BY <1>2, OwedValues
    <2> QED
        BY <2>2, <2>3 DEF Covered
<1> QED
    BY <1>2, <1>3, <1>4, <1>5, <1>6, <1>7 DEF IInv

LEMMA Preserved == IInv /\ [Next]_vars => IInv' /\ Stays /\ Moves
<1> SUFFICES ASSUME IInv, [Next]_vars PROVE IInv' /\ Stays /\ Moves
    OBVIOUS
<1> USE DEF IInv
<1>1. TypeOK'
    BY StepTypes
<1>2. Streaming'
    BY StepStreaming
<1>3. Pictured' /\ Stays
    BY StepPictured
<1>4. Carrying'
    BY StepCarrying
<1>5. Moves
    BY StepMoves
<1>6. Remembered'
    BY <1>1, <1>3, <1>5, StepRemembered
<1>7. Covered'
    BY <1>1, <1>3, <1>5, StepCovered
<1> QED
    BY <1>1, <1>2, <1>3, <1>4, <1>5, <1>6, <1>7

(* In every reachable state the worker knows every status and preview that *)
(* is not stuck, has sent the pieces before the one it is at, remembers    *)
(* only what arrived, and owes a death for each text that did not.         *)
THEOREM Invariance == Spec => []IInv
<1> USE Starts, Preserved
<1> QED
    BY PTL DEF Spec

(* The variables keep their types: message ids and stuck messages are      *)
(* messages of the chat.                                                   *)
THEOREM TypeCorrect == Spec => []TypeOK
<1>1. IInv => TypeOK
    BY DEF IInv
<1> QED
    BY <1>1, Invariance, PTL

(* No half of an answer. When the handler is done or dead, every status    *)
(* and preview left in the chat is one Telegram would not delete or never  *)
(* named, or a dead worker's (the finally of _answer,                      *)
(* AnswerPreview.discard); and what the person watched being written is    *)
(* one attempt of the model (model/client.py: a request that let text out  *)
(* is not sent again).                                                     *)
THEOREM LeavesNothingHalf == Spec => []NothingHalfLeft
<1>1. IInv => OneVoice
    <2> SUFFICES ASSUME IInv PROVE Cardinality(voices) <= 1
        BY DEF OneVoice
    <2>1. voices \subseteq {attempt} /\ IsFiniteSet({attempt}) /\ Cardinality({attempt}) = 1
        BY FS_Singleton DEF IInv, Streaming
    <2>2. Cardinality(voices) <= Cardinality({attempt}) /\ Cardinality(voices) \in Nat
        BY <2>1, FS_Subset, FS_CardinalityType
    <2> QED
        BY <2>1, <2>2
<1>2. IInv => NothingLeftOver
    <2> SUFFICES ASSUME IInv, phase \in Resting \cup {"dead"}, NEW m \in DOMAIN chat,
                        chat[m].kind \in {"status", "preview"}
                 PROVE  m \in stuck
        BY DEF NothingLeftOver
    <2>1. m \in stuck \cup {status, preview.msg} /\ status = 0 /\ preview.msg = 0
        BY DEF IInv, Pictured
    <2>2. m # 0
        BY Counters DEF IInv
    <2> QED
        BY <2>1, <2>2
<1>3. IInv => NothingHalfLeft
    BY <1>1, <1>2 DEF NothingHalfLeft
<1> QED
    BY <1>3, Invariance, PTL

(* No later preview, status, deletion or edit touches the messages of a    *)
(* text that has arrived (_deliver, AnswerPreview.finish).                 *)
THEOREM ArrivedTextsStay == Spec => AnswersStay
<1>1. IInv /\ [Next]_vars =>
        [\A i \in DOMAIN produced :
           /\ Arrived(i)
           /\ i < Len(produced) \/ phase \notin {"edit", "append", "send"}
           => Arrived(i)']_vars
    <2> SUFFICES ASSUME IInv, [Next]_vars, NEW i \in DOMAIN produced, Arrived(i),
                        i < Len(produced) \/ phase \notin {"edit", "append", "send"}
                 PROVE  Arrived(i)'
        OBVIOUS
    <2>1. TypeOK' /\ Stays /\ Moves
        BY Preserved DEF IInv
    <2>2. produced'[i] = produced[i]
        BY <2>1, ProducedStays DEF IInv
    <2>3. phase = "append" => i # Len(produced)
        BY Counters DEF IInv
    <2> QED
        BY <2>1, <2>2, <2>3, ArrivedStays DEF IInv
<1> QED
    BY <1>1, Invariance, PTL DEF Spec, AnswersStay

(* A turn that ends as answered has put every text it committed in front   *)
(* of the person, whole, but for one text per dead worker, whatever        *)
(* Telegram refused and whichever texts were previewed, withdrawn or       *)
(* repetitions (_answer, _deliver).                                        *)
THEOREM DeliversWhole == Spec => []DeliveredWhole
<1>1. IInv => DeliveredWhole
    <2> SUFFICES ASSUME IInv, phase = "answered"
                 PROVE  Cardinality({i \in DOMAIN produced : ~\E j \in DOMAIN produced :
                                       produced[j] = produced[i] /\ Arrived(j)}) <= deaths
        BY DEF DeliveredWhole
    <2>1. InHand = {}
        BY DEF InHand
    <2>2. Missing \ InHand = {i \in DOMAIN produced : ~\E j \in DOMAIN produced :
                                produced[j] = produced[i] /\ Arrived(j)}
        BY <2>1 DEF Missing, Firm
    <2>3. Owed = deaths
        BY OwedValues DEF IInv
    <2> QED
        BY <2>2, <2>3 DEF IInv, Covered
<1> QED
    BY <1>1, Invariance, PTL

=============================================================================
