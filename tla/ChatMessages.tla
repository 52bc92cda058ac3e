---------------------------- MODULE ChatMessages ----------------------------
(* How the application's messages become the provider's list (app/models/   *)
(* openai_compatible.py, build_messages). A message is a record of its      *)
(* role, its parts, the calls it makes and the call it answers; a part is a *)
(* record of its kind, what it holds and whether it only goes out to the    *)
(* person. A joined system text is the sequence of the texts joined.        *)
EXTENDS Naturals, SequencesExt

CONSTANTS OpenAIAudio,  \* audio sent as input_audio: wav and mp3
          OtherAudio    \* audio the server decodes itself: flac, ogg

\* What the constants must satisfy.
AudioAssumption == OpenAIAudio \cap OtherAudio = {}

NoCall == <<0, 0>>
NoCarry == <<>>

\* One wire part; an audio type nobody decodes is an error before anything is sent.
Supported(part) == part.kind # "audio" \/ part.holds \in OpenAIAudio \cup OtherAudio
ContentPart(part) ==
    [type |-> CASE part.kind = "text" -> "text"
                [] part.kind = "image" -> "image_url"
                [] part.kind = "audio" ->
                      IF part.holds \in OpenAIAudio THEN "input_audio" ELSE "audio_url",
     holds |-> <<part.holds>>]

TextPart(texts) == [type |-> "text", holds |-> texts]
TextItem(role, texts) ==
    [role |-> role, content |-> <<TextPart(texts)>>, calls |-> <<>>, answers |-> NoCall]

\* An outbound part is a delivery already chosen; a tool message left with no
\* part says so. No content at all is null on the wire.
Receipt == TextPart(<<"prepared for delivery">>)
Kept(message) ==
    FlattenSeq([k \in DOMAIN message.parts |->
        IF message.parts[k].outbound THEN <<>> ELSE <<message.parts[k]>>])
PayloadItem(message) ==
    LET kept == Kept(message)
    IN  [role |-> message.role,
         content |-> IF message.role = "tool" /\ kept = <<>> THEN <<Receipt>>
                     ELSE [k \in DOMAIN kept |-> ContentPart(kept[k])],
         calls |-> message.calls, answers |-> message.answers]

SystemText(message) ==
    FlattenSeq([k \in DOMAIN message.parts |->
        IF message.parts[k].kind = "text" THEN <<message.parts[k].holds>> ELSE <<>>])

\* The texts of system messages waiting for the next user message, and the
\* list so far.
Carry(state, message) == [state EXCEPT !.carried = @ \o SystemText(message)]

\* Mutated: what is carried waits for the next user message in any case.
PlaceWaiting(state, message) ==
    LET item == PayloadItem(message)
        given == state.carried # NoCarry /\ message.role = "user"
    IN  [carried |-> IF given THEN NoCarry ELSE state.carried,
         payload |-> Append(state.payload,
             IF given THEN [item EXCEPT !.content = <<TextPart(state.carried)>> \o @]
             ELSE item)]

Place(state, message) ==
    LET item == PayloadItem(message)
        alone == state.carried # NoCarry /\ message.role # "user"
        given == state.carried # NoCarry /\ message.role = "user"
    IN  [carried |-> NoCarry,
         payload |->
            (IF alone THEN Append(state.payload, TextItem("user", state.carried))
             ELSE state.payload)
            \o <<IF given
                 THEN [item EXCEPT !.content = <<TextPart(state.carried)>> \o @]
                 ELSE item>>]

Leading(messages) ==
    Min({k \in DOMAIN messages : messages[k].role # "system"} \cup {Len(messages) + 1}) - 1

Readable(messages) ==
    \A k \in DOMAIN messages : messages[k].role # "system" =>
        \A part \in ToSet(Kept(messages[k])) : Supported(part)

BuildMessages(messages) ==
    LET n == Leading(messages)
        system == FlattenSeq([k \in 1..n |-> SystemText(messages[k])])
        first == [carried |-> NoCarry,
                  payload |-> IF n = 0 THEN <<>> ELSE <<TextItem("system", system)>>]
        built[k \in n..Len(messages)] ==
            IF k = n THEN first
            ELSE IF messages[k].role = "system" THEN Carry(built[k - 1], messages[k])
            ELSE Place(built[k - 1], messages[k])
        last == built[Len(messages)]
    IN  IF ~Readable(messages) THEN [ok |-> FALSE, list |-> <<>>]
        ELSE [ok |-> TRUE,
              list |-> IF last.carried = NoCarry THEN last.payload
                       ELSE Append(last.payload, TextItem("user", last.carried))]
=============================================================================
