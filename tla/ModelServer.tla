----------------------------- MODULE ModelServer -----------------------------
(* A model container that scales to zero (deploy/modal/model_app.py, Server *)
(* and its hooks) and one call of the client that waits for it              *)
(* (OpenAICompatibleBackend._completion). Time is in seconds and counted    *)
(* where the code waits. A wait ends, with an answer or without, at once or *)
(* at its own limit; what a hook does besides (a commit of the compile      *)
(* cache, starting a process) takes no time here.                          *)
EXTENDS Naturals, FiniteSets

CONSTANTS StartupTimeout, StartReadyTimeout, WakeReadyTimeout,
          SleepTimeout, WarmupTimeout, WarmupRequests, PollInterval,
          HealthTimeout,    \* the timeout of one GET /health
          Retries,          \* ModelSettings.retries
          RedirectHops,     \* REDIRECT_HOPS
          MaxBoots          \* bound: containers started

\* The most that each hook can wait: its last poll may come a pause after the
\* deadline was last looked at, and take its own timeout.
LastPoll == PollInterval + HealthTimeout
StartWaits == StartReadyTimeout + LastPoll + WarmupTimeout * WarmupRequests + SleepTimeout
ResumeWaits == SleepTimeout + WakeReadyTimeout + LastPoll

\* What the constants must satisfy: what model_app.py asserts of them, with room
\* for the last poll, which its values leave and its asserts forget.
ModelServerAssumption ==
    /\ {StartupTimeout, StartReadyTimeout, WakeReadyTimeout, SleepTimeout, WarmupTimeout,
        HealthTimeout, Retries, RedirectHops, MaxBoots} \subseteq Nat
    /\ {WarmupRequests, PollInterval} \subseteq Nat \ {0}
    /\ StartWaits < StartupTimeout /\ ResumeWaits < StartupTimeout

VARIABLES box,      \* the container: its phase, vLLM, the hook's clocks
          snapshot, \* what a container may be restored from: vLLM as it was, or "none"
          boots,
          ask,      \* the client's call
          queued,   \* copies of its request the endpoint holds
          served    \* history: how vLLM was when it answered the call

server == <<box, snapshot, boots, ask, queued, served>>

\* spent is counted from the beginning of a hook, since from that of a wait for
\* readiness; before is what the first hook took where one container runs both.
NoBox == [phase |-> "down", vllm |-> "none", before |-> 0, spent |-> 0, since |-> 0,
          warmed |-> 0]
NoAsk == [phase |-> "idle", attempt |-> 0, hops |-> 0, nudged |-> FALSE]

Init == /\ box = NoBox /\ snapshot = "none" /\ boots = 0
        /\ ask = NoAsk /\ queued = 0 /\ served = {}

-----------------------------------------------------------------------------
(* The container. *)

\* A container comes up for whoever asks: from the snapshot when there is one.
Boot ==
    /\ box.phase = "down" /\ boots < MaxBoots /\ (queued > 0 \/ ask.nudged)
    /\ boots' = boots + 1 /\ ask' = [ask EXCEPT !.nudged = FALSE]
    /\ box' = IF snapshot = "none"
              THEN [NoBox EXCEPT !.phase = "start", !.vllm = "loading"]
              ELSE [NoBox EXCEPT !.phase = "wake", !.vllm = snapshot]
    /\ UNCHANGED <<snapshot, queued, served>>

\* vLLM by itself: it loads, and it may die.
Vllm ==
    /\ \/ box.vllm = "loading" /\ box' = [box EXCEPT !.vllm = "healthy"]
       \/ box.vllm \in {"loading", "healthy"} /\ box' = [box EXCEPT !.vllm = "exited"]
    /\ UNCHANGED <<snapshot, boots, ask, queued, served>>

Waiting == IF box.phase = "start" THEN StartReadyTimeout ELSE WakeReadyTimeout

\* A hook that raises has waited all the same: stop terminates vLLM, and then the
\* container is gone.
Raised(took) == box' = [box EXCEPT !.phase = "failed", !.vllm = "none", !.spent = @ + took]
Gone ==
    /\ box.phase = "failed" /\ box' = NoBox
    /\ UNCHANGED <<snapshot, boots, ask, queued, served>>

\* Mutated: any answer counts, also the one of a vLLM that is still loading.
PollHealthOpen ==
    /\ box.phase \in {"start", "resume"}
    /\ \E took \in {0, HealthTimeout} :
        \/ box.vllm = "exited" /\ Raised(0)
        \/ /\ box.vllm # "exited"
           /\ box' = [box EXCEPT !.phase = IF @ = "start" THEN "warm" ELSE "serving",
                                 !.spent = @ + took]
        \/ /\ box.vllm # "exited" /\ box.since + took > Waiting
           /\ Raised(took)
        \/ /\ box.vllm # "exited" /\ box.since + took <= Waiting
           /\ box' = [box EXCEPT !.spent = @ + took + PollInterval,
                                 !.since = @ + took + PollInterval]
    /\ UNCHANGED <<snapshot, boots, ask, queued, served>>

\* One round of _wait_ready: the process, then /health, then the deadline. A
\* healthy vLLM answers at once or only just in time, or too late to be heard.
PollHealth ==
    /\ box.phase \in {"start", "resume"}
    /\ \E took \in {0, HealthTimeout} :
        \/ box.vllm = "exited" /\ Raised(0)
        \/ /\ box.vllm = "healthy"
           /\ box' = [box EXCEPT !.phase = IF @ = "start" THEN "warm" ELSE "serving",
                                 !.spent = @ + took]
        \/ /\ box.vllm # "exited" /\ box.since + took > Waiting
           /\ Raised(took)
        \/ /\ box.vllm # "exited" /\ box.since + took <= Waiting
           /\ box' = [box EXCEPT !.spent = @ + took + PollInterval,
                                 !.since = @ + took + PollInterval]
    /\ UNCHANGED <<snapshot, boots, ask, queued, served>>

\* One of _warmup's requests, answered within its timeout or not.
Warm ==
    /\ box.phase = "warm"
    /\ \E took \in {0, WarmupTimeout} :
          \/ Raised(took)
          \/ /\ box.vllm # "exited"
             /\ box' = [box EXCEPT !.spent = @ + took, !.warmed = @ + 1,
                           !.phase = IF box.warmed + 1 = WarmupRequests THEN "sleep" ELSE @]
    /\ UNCHANGED <<snapshot, boots, ask, queued, served>>

\* vLLM is put to sleep, and the container is captured as it is then.
Sleep ==
    /\ box.phase = "sleep"
    /\ \E took \in {0, SleepTimeout} :
          \/ Raised(took) /\ UNCHANGED snapshot
          \/ /\ box.vllm # "exited"
             /\ box' = [box EXCEPT !.phase = "captured", !.vllm = "asleep", !.spent = @ + took]
             /\ snapshot' = "asleep"
    /\ UNCHANGED <<boots, ask, queued, served>>

\* The container itself goes on to the next hook.
Captured ==
    /\ box.phase = "captured"
    /\ box' = [NoBox EXCEPT !.phase = "wake", !.vllm = box.vllm, !.before = box.spent]
    /\ UNCHANGED <<snapshot, boots, ask, queued, served>>

\* resume: wake, then wait until it is healthy. Woken, vLLM may still load.
Wake ==
    /\ box.phase = "wake"
    /\ \E took \in {0, SleepTimeout} :
          \/ Raised(took)
          \/ \E now \in {"loading", "healthy"} :
                box' = [box EXCEPT !.phase = "resume", !.vllm = now,
                                   !.spent = @ + took, !.since = 0]
    /\ UNCHANGED <<snapshot, boots, ask, queued, served>>

\* Idle for the scaledown window.
ScaleDown ==
    /\ box.phase = "serving" /\ (queued = 0 \/ box.vllm = "exited")
    /\ box' = NoBox
    /\ UNCHANGED <<snapshot, boots, ask, queued, served>>

-----------------------------------------------------------------------------
(* The client. The edge holds a request until the container serves. *)

\* warm(): a request is written and its answer not waited for.
Nudge ==
    /\ ask.phase = "idle" /\ ~ask.nudged /\ box.phase = "down"
    /\ ask' = [ask EXCEPT !.nudged = TRUE]
    /\ UNCHANGED <<box, snapshot, boots, queued, served>>

\* A call: a new one when nothing of the last is left at the endpoint.
Ask ==
    /\ ask.phase = "idle" /\ queued = 0
    /\ ask' = [ask EXCEPT !.phase = "sent", !.attempt = 0, !.hops = 0]
    /\ queued' = 1
    /\ UNCHANGED <<box, snapshot, boots, served>>

\* A failure that looks transient is tried again, after a pause; any other
\* one, or one too many, ends the call.
Failed(transient) ==
    ask' = [ask EXCEPT !.phase = IF transient /\ ask.attempt < Retries
                                 THEN "pause" ELSE "idle"]

\* The request is still with the edge, which redirects to where it is held.
Redirect ==
    /\ ask.phase = "sent" /\ queued > 0 /\ box.phase # "serving"
    /\ IF ask.hops < RedirectHops THEN ask' = [ask EXCEPT !.hops = @ + 1]
       ELSE Failed(TRUE)
    /\ UNCHANGED <<box, snapshot, boots, queued, served>>

\* Any other transport error, before the request arrived or after.
Broken ==
    /\ ask.phase = "sent"
    /\ Failed(TRUE)
    /\ queued' \in {queued, queued - 1} /\ queued' >= 0
    /\ UNCHANGED <<box, snapshot, boots, served>>

\* The read timeout: the request is still queued, and not sent again.
TimesOut ==
    /\ ask.phase = "sent"
    /\ Failed(FALSE)
    /\ UNCHANGED <<box, snapshot, boots, queued, served>>

\* A status: one that means "later", or one about the request itself.
Status(transient) ==
    /\ ask.phase = "sent" /\ queued > 0
    /\ Failed(transient) /\ queued' = queued - 1
    /\ UNCHANGED <<box, snapshot, boots, served>>

Again ==
    /\ ask.phase = "pause"
    /\ ask' = [ask EXCEPT !.phase = "sent", !.attempt = @ + 1, !.hops = 0]
    /\ queued' = queued + 1
    /\ UNCHANGED <<box, snapshot, boots, served>>

\* The container answers a request it holds: the client's last, or a copy
\* nobody waits for.
Answer ==
    /\ queued > 0 /\ box.phase = "serving" /\ box.vllm # "exited"
    /\ queued' = queued - 1
    /\ \/ /\ ask.phase = "sent"
          /\ ask' = [ask EXCEPT !.phase = "idle"] /\ served' = {box.vllm}
       \/ /\ queued > 1 \/ ask.phase # "sent"
          /\ UNCHANGED <<ask, served>>
    /\ UNCHANGED <<box, snapshot, boots>>

Next ==
    \/ Boot \/ Gone \/ Vllm \/ PollHealth \/ Warm \/ Sleep \/ Captured \/ Wake \/ ScaleDown
    \/ Nudge \/ Ask \/ Redirect \/ Broken \/ TimesOut \/ Again \/ Answer
    \/ \E transient \in BOOLEAN : Status(transient)

Spec == Init /\ [][Next]_server
=============================================================================
