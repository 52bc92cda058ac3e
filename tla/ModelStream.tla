---------------------------- MODULE ModelStream ----------------------------
(***************************************************************************)
(* One streamed request of the model client                                *)
(* (app/models/openai_compatible.py, OpenAICompatibleBackend.stream): the  *)
(* attempts it may make and what it lets out of them.                      *)
(*                                                                         *)
(* A chunk either carries text, which is yielded at once, or does not (a   *)
(* role, a fragment of a tool call, the usage).  The endpoint is outside:  *)
(* it may refuse, sleep, be cut off by a proxy, and stop in the middle of  *)
(* an answer.                                                              *)
(***************************************************************************)
EXTENDS Naturals, FiniteSets

CONSTANT Retries    \* ModelSettings.retries

ASSUME RetriesAssumption == Retries \in Nat

VARIABLES
  request,    \* "idle", "open", "reading", or "broken"
  attempt,    \* how often this request was sent again
  received,   \* a chunk of this attempt has arrived
  voices      \* history: attempts whose text was yielded

stream == <<request, attempt, received, voices>>

StreamTypeOK ==
  /\ request \in {"idle", "open", "reading", "broken"}
  /\ attempt \in 0..Retries
  /\ received \in BOOLEAN
  /\ voices \subseteq 0..Retries

StreamInit == request = "idle" /\ attempt = 0 /\ received = FALSE /\ voices = {}

(* stream() is entered: the body is built once and sent as attempt 0.      *)
Ask ==
  /\ request' = "open" /\ attempt' = 0 /\ received' = FALSE /\ voices' = {}

(* An httpx error that is no timeout, or a status that means "later": sent *)
(* again while attempts are left and nothing has been received.            *)
Later ==
  /\ request \in {"open", "reading"}
  /\ IF received \/ attempt >= Retries
     THEN request' = "broken" /\ UNCHANGED <<attempt, received>>
     ELSE request' = "open" /\ attempt' = attempt + 1 /\ received' = FALSE
  /\ UNCHANGED voices

(* A timeout ends the call, wherever it is: the request may be queued, and *)
(* would be queued twice.  So does a status about the request itself.      *)
Fails ==
  /\ request \in {"open", "reading"}
  /\ request' = "broken"
  /\ UNCHANGED <<attempt, received, voices>>

(* The first line of the answer, with or without a chunk that has no text. *)
Responds ==
  /\ request = "open"
  /\ request' = "reading" /\ received' \in BOOLEAN
  /\ UNCHANGED <<attempt, voices>>

(* A chunk with text.                                                      *)
Speaks ==
  /\ request = "reading"
  /\ received' = TRUE /\ voices' = voices \cup {attempt}
  /\ UNCHANGED <<request, attempt>>

(* The lines are over: CompletionDone is yielded and the generator ends.   *)
Over == request' = "idle" /\ attempt' = 0 /\ received' = FALSE /\ voices' = {}
Ends == request = "reading" /\ Over
=============================================================================
