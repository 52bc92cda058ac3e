--------------------------- MODULE ServicesProofs ---------------------------
(***************************************************************************)
(* Proofs about the parts around a turn (MCServices): the connection of the *)
(* store, the model servers, the agent graphs, the polling loop, the       *)
(* telemetry, the calls of an answer, the public web, the stored words and *)
(* the list sent to the provider. Each part has an inductive invariant of  *)
(* its own, that its own steps keep and the others leave alone.            *)
(***************************************************************************)
EXTENDS MCServices, SequenceTheorems, FiniteSetTheorems, WellFoundedInduction, TLAPS

----------------------------------------------------------------------------
(* The store's connection (StoreConnection).                               *)

Steps == {"none", "search_path", "settle", "autocommit", "statement", "second", "third",
          "fourth", "end"}

CallTypeOK ==
  /\ call.kind \in D!Operation \cup {"none"} /\ call.step \in Steps
  /\ call = [kind |-> call.kind, step |-> call.step, fresh |-> call.fresh]

LinkTypeOK == link \in {"none", "idle", "open", "aborted"}

HangupsTypeOK == hangups \in Nat /\ since.hangups \in Nat /\ since.hangups <= hangups

\* What a call's step says of its kind, and history of the call under way.
Stepped ==
  /\ call.step # "none" => since.kind = call.kind
  /\ call.step \in {"settle", "autocommit"} => call.kind = "context"
  /\ call.step # "none" /\ call.kind \in {"read", "write", "delete"} =>
       call.step \in {"search_path", "statement", "second", "third", "fourth", "end"}
  /\ call.step = "search_path" => call.kind \in {"read", "write", "delete"}

(* What a call finds of a transaction is what one that raised left; where  *)
(* autocommit is set there is none.                                        *)
Closed ==
  /\ call.step \in {"none", "search_path", "settle"} =>
       /\ link = "open" => result = "raised"
       /\ link = "aborted" => result \in {"refused", "raised"}
  /\ call.step \in {"autocommit", "statement", "end"} /\ call.kind = "context" => link = "idle"
  /\ result # "in_transaction"

(* The writes of a delete in an open transaction are those of the one that *)
(* runs; those of one that failed stand in an aborted transaction.         *)
Unmixed ==
  /\ wrote \in Nat /\ ~torn
  /\ link \in {"none", "idle"} => wrote = 0
  /\ call.step \in {"second", "third", "fourth"} => link = "open" /\ call.kind = "delete"
  /\ link = "open" =>
       /\ call.step = "third" => wrote = 1
       /\ call.step = "fourth" => wrote = 2
       /\ call.step = "end" => wrote \in {0, 3}
       /\ call.step \notin {"third", "fourth", "end"} => wrote = 0

(* A call past its search path, or that opened its own connection, meets   *)
(* a hang-up of its own time only.                                         *)
Noticed ==
  /\ call.step # "none" /\ call.kind \in {"read", "write", "delete"}
       /\ gone /\ (call.fresh \/ call.step # "search_path") => hangups > since.hangups
  /\ call.step = "none" /\ result = "hung_up" /\ since.kind \in {"read", "write", "delete"} =>
       hangups > since.hangups

StoreInv == CallTypeOK /\ LinkTypeOK /\ HangupsTypeOK /\ Stepped /\ Closed /\ Noticed
            /\ Unmixed

LEMMA StoreStarts == D!Init => StoreInv
<1> SUFFICES ASSUME D!Init PROVE StoreInv
    OBVIOUS
<1>1. CallTypeOK
    BY DEF D!Init, D!NoCall, CallTypeOK, Steps
<1>2. LinkTypeOK /\ HangupsTypeOK /\ Stepped /\ Closed /\ Noticed /\ Unmixed
    BY DEF D!Init, D!NoCall, LinkTypeOK, HangupsTypeOK, Stepped, Closed, Noticed, Unmixed
<1> QED
    BY <1>1, <1>2 DEF StoreInv

LEMMA CallTyped == CallTypeOK /\ [D!Next]_store => CallTypeOK'
<1> SUFFICES ASSUME CallTypeOK, [D!Next]_store PROVE CallTypeOK'
    OBVIOUS
<1> USE DEF CallTypeOK, Steps, D!Operation, D!NoCall, D!Return, D!Dropped
<1>2. CASE D!SearchPath
    BY <1>2 DEF D!SearchPath
<1>3. CASE D!Settle
    BY <1>3 DEF D!Settle
<1>4. CASE D!Autocommit
    BY <1>4 DEF D!Autocommit
<1>5. CASE D!Statement
    BY <1>5 DEF D!Statement, D!AfterStatement
<1>6. CASE D!End \/ D!Unsendable
    BY <1>6 DEF D!End, D!Unsendable
<1>7. ASSUME NEW kind \in D!Operation, D!Call(kind) PROVE CallTypeOK'
    BY <1>7 DEF D!Call, D!FirstStep
<1>8. CASE UNCHANGED store \/ D!HangUp
    BY <1>8 DEF store, D!HangUp
<1> QED
    BY <1>2, <1>3, <1>4, <1>5, <1>6, <1>7, <1>8 DEF D!Next

\* A commit keeps no part of a delete where all or none of it was written.
LEMMA CommitWhole ==
  ASSUME D!Committed, ~torn, link = "open" => wrote \in {0, 3}
  PROVE  wrote' = 0 /\ ~torn'
<1>1. ~(link = "open" /\ wrote \notin {0, D!Writes})
    BY DEF D!Writes
<1>2. torn' = (torn \/ (link = "open" /\ wrote \notin {0, D!Writes})) /\ wrote' = 0
    BY DEF D!Committed
<1> QED
    BY <1>1, <1>2, Zenon

\* What a step that only moves a call on has to keep, by where the call stands.
LEMMA CallMoves ==
  ASSUME StoreInv, NEW step \in Steps, call' = [call EXCEPT !.step = step],
         step # "none"
  PROVE  call'.step = step /\ call'.kind = call.kind /\ call'.fresh = call.fresh
  BY DEF StoreInv, CallTypeOK

LEMMA StoreStep == StoreInv /\ [D!Next]_store => StoreInv'
<1> SUFFICES ASSUME StoreInv, [D!Next]_store PROVE StoreInv'
    OBVIOUS
<1> DEFINE I == LinkTypeOK /\ HangupsTypeOK /\ Stepped /\ Closed /\ Noticed /\ Unmixed
<1> USE DEF StoreInv, LinkTypeOK, HangupsTypeOK, Stepped, Closed, Noticed, Unmixed
<1>1. ASSUME D!HangUp PROVE I'
    BY <1>1 DEF D!HangUp
<1>2. ASSUME D!SearchPath PROVE I'
  <2>1. call.step = "search_path" /\ UNCHANGED <<spent, since>>
      BY <1>2 DEF D!SearchPath
  <2>2. CASE /\ call' = [call EXCEPT !.fresh = TRUE] /\ gone' = FALSE
             /\ link' = "idle" /\ D!Undone /\ UNCHANGED <<result, hangups>>
    <3>1. call'.step = "search_path" /\ call'.kind = call.kind
        BY <2>1, <2>2 DEF CallTypeOK
    <3> QED
        BY <2>1, <2>2, <3>1 DEF D!Undone
  <2>3. CASE /\ call' = [call EXCEPT !.step = "statement"] /\ ~gone /\ link # "aborted"
             /\ link' = "open" /\ UNCHANGED <<gone, result, hangups, wrote, torn>>
    <3>1. call'.step = "statement" /\ call'.kind = call.kind
        BY <2>3, CallMoves DEF Steps
    <3>2. wrote' = 0
        BY <2>1, <2>3
    <3> QED
        BY <2>1, <2>3, <3>1, <3>2
  <2>4. CASE D!Dropped("hung_up") /\ gone /\ call.fresh /\ UNCHANGED hangups
      BY <2>1, <2>4 DEF D!Dropped, D!Return, D!NoCall, D!Undone
  <2>5. CASE link' = "none" /\ gone' = FALSE /\ hangups' = hangups + 1 /\ D!Return("unreachable")
             /\ D!Undone
      BY <2>1, <2>5 DEF D!Return, D!NoCall, D!Undone
  <2>6. CASE link = "aborted" /\ D!Return("refused")
             /\ UNCHANGED <<link, gone, hangups, wrote, torn>>
      BY <2>1, <2>6 DEF D!Return, D!NoCall
  <2> QED
      BY <1>2, <2>2, <2>3, <2>4, <2>5, <2>6 DEF D!SearchPath
<1>3. ASSUME D!Settle PROVE I'
  <2>1. call.step = "settle" /\ call.kind = "context" /\ UNCHANGED <<spent, hangups, since>>
      BY <1>3 DEF D!Settle
  <2>2. CASE D!Dropped("hung_up")
      BY <2>1, <2>2 DEF D!Dropped, D!Return, D!NoCall, D!Undone
  <2>3. CASE link' = "idle" /\ call' = [call EXCEPT !.step = "autocommit"] /\ D!Committed
             /\ UNCHANGED <<gone, result>>
    <3>1. call'.step = "autocommit" /\ call'.kind = "context"
        BY <2>1, <2>3, CallMoves DEF Steps
    <3>2. wrote' = 0 /\ ~torn'
        BY <2>1, <2>3, CommitWhole
    <3> QED
        BY <2>1, <2>3, <3>1, <3>2
  <2> QED
      BY <1>3, <2>2, <2>3 DEF D!Settle
<1>4. ASSUME D!Autocommit PROVE I'
  <2>1. /\ call.step = "autocommit" /\ call.kind = "context" /\ link = "idle"
        /\ call' = [call EXCEPT !.step = "statement"]
        /\ UNCHANGED <<result, link, gone, spent, hangups, since, wrote, torn>>
      BY <1>4 DEF D!Autocommit
  <2>2. call'.step = "statement" /\ call'.kind = "context"
      BY <2>1, CallMoves DEF Steps
  <2> QED
      BY <2>1, <2>2
<1>5. ASSUME D!Statement PROVE I'
  <2>1. /\ call.step \in {"statement", "second", "third", "fourth"}
        /\ UNCHANGED <<spent, hangups, since>>
      BY <1>5 DEF D!Statement
  <2>2. CASE \/ gone /\ D!Dropped("hung_up")
             \/ D!Dropped("refused")
      BY <2>1, <2>2 DEF D!Dropped, D!Return, D!NoCall, D!Undone
  <2>3. CASE D!Within("aborted") /\ D!Return("refused") /\ UNCHANGED <<gone, wrote, torn>>
      BY <2>1, <2>3 DEF D!Within, D!Return, D!NoCall
  <2>4. ASSUME ~gone, link # "aborted", D!Within("open"), UNCHANGED <<gone, result, torn>>,
               NEW step \in D!AfterStatement, call' = [call EXCEPT !.step = step],
               wrote' = IF call.step = "statement" THEN wrote ELSE wrote + 1
        PROVE  I'
    <3>1. step = "end" \/ (call.kind = "delete" /\ step \in {"second", "third", "fourth"})
        BY <2>1, <2>4 DEF D!AfterStatement
    <3>2. call'.step = step /\ call'.kind = call.kind
        BY <2>4, <3>1, CallMoves DEF Steps
    <3>3. link' = IF call.kind = "context" THEN "idle" ELSE "open"
        BY <2>1, <2>4 DEF D!Within
    <3>4. call.step = "statement" => wrote = 0
      <4>1. CASE link \in {"none", "idle"}
          BY <4>1
      <4>2. CASE link = "open"
          BY <4>2
      <4> QED
          BY <2>4, <4>1, <4>2
    <3>5. CASE step = "end"
      <4>1. call.step \in {"statement", "fourth"}
          BY <2>1, <2>4, <3>5 DEF D!AfterStatement
      <4>2. wrote' \in {0, 3} /\ (call.kind = "context" => wrote' = 0)
          BY <2>4, <3>4, <4>1
      <4> QED
          BY <2>1, <2>4, <3>2, <3>3, <3>5, <4>2
    <3>6. CASE call.kind = "delete" /\ step \in {"second", "third", "fourth"}
      <4>1. \/ step = "second" /\ wrote' = 0
            \/ step = "third" /\ wrote' = 1
            \/ step = "fourth" /\ wrote' = 2
          BY <2>1, <2>4, <3>4, <3>6 DEF D!AfterStatement
      <4> QED
          BY <2>1, <2>4, <3>2, <3>3, <3>6, <4>1
    <3> QED
        BY <3>1, <3>5, <3>6
  <2> QED
      BY <1>5, <2>2, <2>3, <2>4 DEF D!Statement
<1>6. ASSUME D!Unsendable PROVE I'
    BY <1>6 DEF D!Unsendable, D!Within, D!Return, D!NoCall
<1>7. ASSUME D!End PROVE I'
  <2>1. call.step = "end" /\ UNCHANGED <<spent, hangups, since>>
      BY <1>7 DEF D!End
  <2>2. CASE gone /\ call.kind # "context" /\ D!Dropped("hung_up")
      BY <2>1, <2>2 DEF D!Dropped, D!Return, D!NoCall, D!Undone
  <2>3. CASE link' = "idle" /\ UNCHANGED gone /\ D!Return("ok") /\ D!Committed
    <3>1. wrote' = 0 /\ ~torn'
        BY <2>1, <2>3, CommitWhole
    <3> QED
        BY <2>1, <2>3, <3>1 DEF D!Return, D!NoCall
  <2>4. CASE link' = "idle" /\ UNCHANGED gone /\ D!Return("raised") /\ D!Undone
      BY <2>1, <2>4 DEF D!Return, D!NoCall, D!Undone
  <2> QED
      BY <1>7, <2>2, <2>3, <2>4 DEF D!End
<1>8. ASSUME NEW kind \in D!Operation, D!Call(kind) PROVE I'
  <2>1. /\ since' = [kind |-> kind, hangups |-> hangups] /\ UNCHANGED <<wrote, torn>>
        /\ call.step = "none"
      BY <1>8 DEF D!Call, D!NoCall
  <2>2. CASE call' = D!FirstStep(kind) /\ UNCHANGED <<hangups, result>>
    <3>1. /\ call'.kind = kind /\ call'.step \in {"search_path", "settle", "statement"}
          /\ kind \in {"read", "write", "delete"} <=> call'.step = "search_path"
          /\ kind = "context" <=> call'.step = "settle"
          /\ call'.fresh = FALSE
        BY <2>2 DEF D!FirstStep, D!Operation
    <3>2. (UNCHANGED link) \/ (link = "none" /\ link' = "idle")
        BY <1>8, <2>2 DEF D!Call
    <3> QED
        BY <2>1, <2>2, <3>1, <3>2
  <2>3. CASE link = "none" /\ hangups' = hangups + 1 /\ D!Return("unreachable")
             /\ UNCHANGED <<link, gone>>
      BY <2>1, <2>3 DEF D!Return, D!NoCall
  <2> QED
      BY <1>8, <2>2, <2>3 DEF D!Call
<1>9. ASSUME UNCHANGED store PROVE I'
    BY <1>9 DEF store
<1>10. CallTypeOK'
    BY CallTyped
<1> QED
    BY <1>1, <1>2, <1>3, <1>4, <1>5, <1>6, <1>7, <1>8, <1>9, <1>10 DEF D!Next

LEMMA StoreMoves == [ServicesNext]_<<family, services, vars>> => [D!Next]_store
  BY DEF ServicesNext, Poll, Store, Trace, Serve, Graph, Browse, Remember, Talk, services

\* A transaction is left behind by a call that was refused or that raised on its
\* own and by no other, turn_context is never refused its autocommit, a call that
\* sends the search path first fails on no older hang-up, and no part of a failed
\* delete is kept (PostgresStore._live_connection, _cursor, _settle).
THEOREM SettlesUnlessFailed == ServicesSpec => []SettledUnlessFailed
<1>1. StoreInv => SettledUnlessFailed
    BY DEF StoreInv, Stepped, Closed, Noticed, Unmixed, SettledUnlessFailed, D!NoCall
<1>2. ServicesInit => StoreInv
    BY StoreStarts DEF ServicesInit
<1>3. StoreInv /\ [ServicesNext]_<<family, services, vars>> => StoreInv'
    BY StoreStep, StoreMoves
<1> QED
    BY <1>1, <1>2, <1>3, PTL DEF ServicesSpec

----------------------------------------------------------------------------
(* The model's container (ModelServer).                                    *)

BoxPhases == {"down", "start", "warm", "sleep", "captured", "wake", "resume", "serving", "failed"}
Vllms == {"none", "loading", "healthy", "asleep", "exited"}
Boxes == [phase : BoxPhases, vllm : Vllms, before : Nat, spent : Nat, since : Nat, warmed : Nat]
Box(phase, vllm, b, s, t, n) ==
  [phase |-> phase, vllm |-> vllm, before |-> b, spent |-> s, since |-> t, warmed |-> n]
BoxTypeOK == box \in Boxes /\ snapshot \in {"none", "asleep"}

(* How long requests that warm vLLM up can take, and how long a hook can have   *)
(* waited at each of its points: a container in phase p whose first hook   *)
(* took b, that has waited s in this one, t of it for readiness.           *)
Warming(n) == WarmupTimeout * n
Polled == StartReadyTimeout + S!LastPoll

Fits(p, b, s, t, n) ==
  /\ b <= S!StartWaits /\ (p \in {"down", "start", "warm", "sleep", "captured"} => b = 0)
  /\ p \in {"down", "wake"} => s = 0
  /\ p = "start" => /\ s = t /\ t <= StartReadyTimeout + PollInterval
                    /\ n = 0 /\ 0 < WarmupRequests
  /\ p = "warm" => s <= Polled + Warming(n) /\ n < WarmupRequests
  /\ p = "sleep" => s <= Polled + Warming(WarmupRequests)
  /\ p = "captured" => s <= S!StartWaits
  /\ p = "resume" => s <= SleepTimeout + t /\ t <= WakeReadyTimeout + PollInterval
  /\ p = "serving" => s <= S!ResumeWaits
  /\ p = "failed" => s <= S!ResumeWaits \/ (b = 0 /\ s <= S!StartWaits)
Timed == Fits(box.phase, box.before, box.spent, box.since, box.warmed)

Serving ==
  /\ box.phase = "serving" => box.vllm \in {"healthy", "exited"}
  /\ served \subseteq {"healthy"}

BoxInv == BoxTypeOK /\ Timed /\ Serving

LEMMA Limits ==
  /\ StartReadyTimeout \in Nat /\ WakeReadyTimeout \in Nat /\ SleepTimeout \in Nat
  /\ WarmupTimeout \in Nat /\ WarmupRequests \in Nat /\ 0 < WarmupRequests
  /\ PollInterval \in Nat /\ HealthTimeout \in Nat /\ StartupTimeout \in Nat
  /\ S!StartWaits < StartupTimeout /\ S!ResumeWaits < StartupTimeout
  BY PartsAssumption DEF S!ModelServerAssumption

LEMMA Waits ==
  /\ S!LastPoll \in Nat /\ Polled \in Nat /\ S!StartWaits \in Nat /\ S!ResumeWaits \in Nat
  /\ S!LastPoll = PollInterval + HealthTimeout
  /\ S!StartWaits = Polled + Warming(WarmupRequests) + SleepTimeout
  /\ S!ResumeWaits = SleepTimeout + WakeReadyTimeout + S!LastPoll
  /\ Polled = StartReadyTimeout + S!LastPoll
<1>1. Warming(WarmupRequests) \in Nat
    BY Limits DEF Warming
<1>2. S!LastPoll \in Nat /\ S!LastPoll = PollInterval + HealthTimeout
    BY Limits DEF S!LastPoll
<1>3. S!StartWaits = StartReadyTimeout + S!LastPoll + Warming(WarmupRequests) + SleepTimeout
    BY DEF S!StartWaits, Warming
<1>4. S!ResumeWaits = SleepTimeout + WakeReadyTimeout + S!LastPoll
    BY DEF S!ResumeWaits
<1> QED
    BY <1>1, <1>2, <1>3, <1>4, Limits DEF Polled

LEMMA WarmingGrows ==
  ASSUME NEW b \in Nat, NEW c \in Nat, b < c
  PROVE  /\ Warming(b) \in Nat /\ Warming(b + 1) = Warming(b) + WarmupTimeout
         /\ Warming(b) <= Warming(c)
<1>1. WarmupTimeout \in Nat
    BY Limits
<1>2. Warming(b) \in Nat /\ Warming(b + 1) = Warming(b) + WarmupTimeout
    BY <1>1, SMT DEF Warming
<1>3. c = b + (c - b) /\ c - b \in Nat
    OBVIOUS
<1>4. WarmupTimeout * (c - b) \in Nat /\ Warming(b + (c - b)) = Warming(b) + WarmupTimeout * (c - b)
    BY <1>1, <1>3, SMT DEF Warming
<1>5. Warming(b) <= Warming(c)
    BY <1>2, <1>3, <1>4
<1> QED
    BY <1>2, <1>5

LEMMA BoxFields ==
  ASSUME NEW b \in Boxes
  PROVE  /\ b.phase \in BoxPhases /\ b.vllm \in Vllms /\ b.before \in Nat
         /\ b.spent \in Nat /\ b.since \in Nat /\ b.warmed \in Nat
         /\ b = Box(b.phase, b.vllm, b.before, b.spent, b.since, b.warmed)
  BY DEF Boxes, Box

LEMMA BoxMade ==
  ASSUME NEW p \in BoxPhases, NEW v \in Vllms, NEW b \in Nat, NEW s \in Nat, NEW t \in Nat,
         NEW n \in Nat, box' = Box(p, v, b, s, t, n), Fits(p, b, s, t, n),
         snapshot' \in {"none", "asleep"}, served' \subseteq {"healthy"},
         p = "serving" => v \in {"healthy", "exited"}
  PROVE  BoxInv'
<1>1. box' \in Boxes
    BY Zenon DEF Box, Boxes
<1>2. /\ box'.phase = p /\ box'.vllm = v /\ box'.before = b
      /\ box'.spent = s /\ box'.since = t /\ box'.warmed = n
    BY DEF Box
<1>3. Timed'
    BY <1>2, Zenon DEF Timed, Fits, Polled, Warming, S!StartWaits, S!ResumeWaits, S!LastPoll
<1> QED
    BY <1>1, <1>2, <1>3 DEF BoxInv, BoxTypeOK, Serving

LEMMA BoxStarts == S!Init => BoxInv
<1> SUFFICES ASSUME S!Init PROVE BoxInv
    OBVIOUS
<1>1. box = Box("down", "none", 0, 0, 0, 0)
    BY DEF S!Init, S!NoBox, Box
<1>2. box \in Boxes
    BY <1>1, Zenon DEF Box, Boxes, BoxPhases, Vllms
<1>3. /\ box.phase = "down" /\ box.before = 0 /\ box.spent = 0 /\ box.since = 0 /\ box.warmed = 0
    BY <1>1 DEF Box
<1> QED
    BY <1>2, <1>3, Waits DEF S!Init, BoxInv, BoxTypeOK, Timed, Fits, Serving

LEMMA BoxStep == BoxInv /\ [S!Next]_server => BoxInv'
<1> SUFFICES ASSUME BoxInv, [S!Next]_server PROVE BoxInv'
    OBVIOUS
<1> DEFINE p == box.phase  v == box.vllm  b == box.before  s == box.spent  t == box.since
           n == box.warmed
<1>1. /\ p \in BoxPhases /\ v \in Vllms /\ b \in Nat /\ s \in Nat /\ t \in Nat /\ n \in Nat
      /\ box = Box(p, v, b, s, t, n)
    BY BoxFields DEF BoxInv, BoxTypeOK
<1>2. Fits(p, b, s, t, n) /\ served \subseteq {"healthy"} /\ snapshot \in {"none", "asleep"}
      /\ (p = "serving" => v \in {"healthy", "exited"})
    BY DEF BoxInv, BoxTypeOK, Timed, Serving
<1>3. /\ Warming(n) \in Nat /\ Warming(WarmupRequests) \in Nat /\ Warming(0) = 0
      /\ Warming(n + 1) = Warming(n) + WarmupTimeout
      /\ n < WarmupRequests => Warming(n) <= Warming(WarmupRequests)
  <2>1. n < n + 1 /\ n + 1 \in Nat
      BY <1>1
  <2>2. Warming(n) \in Nat /\ Warming(n + 1) = Warming(n) + WarmupTimeout
      BY <2>1, <1>1, WarmingGrows
  <2>3. n < WarmupRequests => Warming(n) <= Warming(WarmupRequests)
      BY <1>1, Limits, WarmingGrows
  <2>4. Warming(0) = 0 /\ Warming(WarmupRequests) \in Nat
      BY Limits DEF Warming
  <2> QED
      BY <2>2, <2>3, <2>4
<1> HIDE DEF p, v, b, s, t, n
<1>4. ASSUME UNCHANGED <<snapshot, served>>, box' = S!NoBox PROVE BoxInv'
  <2>1. box' = Box("down", "none", 0, 0, 0, 0)
      BY <1>4 DEF S!NoBox, Box
  <2>2. Fits("down", 0, 0, 0, 0)
      BY Waits DEF Fits
  <2>3. "down" \in BoxPhases /\ "none" \in Vllms
      BY DEF BoxPhases, Vllms
  <2> QED
      BY <1>4, <2>1, <2>2, <2>3, <1>2, BoxMade
<1>5. ASSUME NEW took \in Nat, S!Raised(took), Fits("failed", b, s + took, t, n),
             UNCHANGED <<snapshot, served>>
      PROVE  BoxInv'
  <2>1. box' = Box("failed", "none", b, s + took, t, n)
      BY <1>5, <1>1 DEF S!Raised, Box
  <2>2. s + took \in Nat /\ "failed" \in BoxPhases /\ "none" \in Vllms
      BY <1>1 DEF BoxPhases, Vllms
  <2> QED
      BY <1>5, <2>1, <2>2, <1>1, <1>2, BoxMade
<1>6. CASE S!Boot
  <2>1. UNCHANGED <<snapshot, served>>
      BY <1>6 DEF S!Boot
  <2>2. CASE snapshot = "none"
    <3>1. box' = [S!NoBox EXCEPT !.phase = "start", !.vllm = "loading"]
        BY <1>6, <2>2, Zenon DEF S!Boot
    <3>2. box' = Box("start", "loading", 0, 0, 0, 0)
        BY <3>1 DEF S!NoBox, Box
    <3>3. Fits("start", 0, 0, 0, 0) /\ "start" \in BoxPhases /\ "loading" \in Vllms
        BY Waits, Limits DEF Fits, BoxPhases, Vllms
    <3> QED
        BY <1>2, <2>1, <3>2, <3>3, BoxMade
  <2>3. CASE snapshot # "none"
    <3>1. box' = [S!NoBox EXCEPT !.phase = "wake", !.vllm = snapshot]
        BY <1>6, <2>3, Zenon DEF S!Boot
    <3>2. box' = Box("wake", "asleep", 0, 0, 0, 0)
        BY <1>2, <2>3, <3>1 DEF S!NoBox, Box
    <3>3. Fits("wake", 0, 0, 0, 0) /\ "wake" \in BoxPhases /\ "asleep" \in Vllms
        BY Waits DEF Fits, BoxPhases, Vllms
    <3> QED
        BY <1>2, <2>1, <3>2, <3>3, BoxMade
  <2> QED
      BY <2>2, <2>3
<1>7. CASE S!Vllm
  <2>1. PICK now \in {"healthy", "exited"} :
          /\ box' = [box EXCEPT !.vllm = now] /\ (now = "exited" \/ v = "loading")
      BY <1>7 DEF S!Vllm, v
  <2>2. UNCHANGED <<snapshot, served>>
      BY <1>7 DEF S!Vllm
  <2>3. box' = Box(p, now, b, s, t, n)
      BY <2>1, <1>1 DEF Box
  <2>4. now \in Vllms
      BY DEF Vllms
  <2>5. p = "serving" => now \in {"healthy", "exited"}
      BY <2>1
  <2> QED
      BY <2>2, <2>3, <2>4, <2>5, <1>1, <1>2, BoxMade
<1>8. CASE S!PollHealth
  <2>1. p \in {"start", "resume"} /\ UNCHANGED <<snapshot, served>>
      BY <1>8 DEF S!PollHealth, p
  <2>2. PICK took \in {0, HealthTimeout} :
        \/ S!Raised(0)
        \/ /\ v = "healthy"
           /\ box' = [box EXCEPT !.phase = IF @ = "start" THEN "warm" ELSE "serving",
                                 !.spent = @ + took]
        \/ S!Raised(took)
        \/ /\ t + took <= S!Waiting
           /\ box' = [box EXCEPT !.spent = @ + took + PollInterval,
                                 !.since = @ + took + PollInterval]
      BY <1>8, Zenon DEF S!PollHealth, v, t
  <2>3. took \in Nat /\ took <= HealthTimeout /\ HealthTimeout \in Nat /\ 0 \in Nat
      BY Limits
  <2>4. ASSUME NEW wait \in Nat, wait <= HealthTimeout, S!Raised(wait) PROVE BoxInv'
    <3>1. Fits("failed", b, s + wait, t, n)
        BY <2>1, <2>3, <2>4, <1>1, <1>2, <1>3, Limits, Waits DEF Fits
    <3> QED
        BY <2>1, <2>4, <3>1, <1>5
  <2>5. ASSUME v = "healthy",
               box' = [box EXCEPT !.phase = IF @ = "start" THEN "warm" ELSE "serving",
                                  !.spent = @ + took]
        PROVE  BoxInv'
    <3> DEFINE next == IF p = "start" THEN "warm" ELSE "serving"
    <3>1. box' = Box(next, v, b, s + took, t, n)
        BY <2>5, <1>1 DEF Box
    <3>2. next \in BoxPhases /\ s + took \in Nat
        BY <1>1, <2>3 DEF BoxPhases
    <3>3. Fits(next, b, s + took, t, n)
        BY <2>1, <2>3, <1>1, <1>2, <1>3, Limits, Waits DEF Fits
    <3> HIDE DEF next
    <3> QED
        BY <2>1, <2>5, <3>1, <3>2, <3>3, <1>1, <1>2, BoxMade
  <2>6. ASSUME t + took <= S!Waiting,
               box' = [box EXCEPT !.spent = @ + took + PollInterval,
                                  !.since = @ + took + PollInterval]
        PROVE  BoxInv'
    <3>1. box' = Box(p, v, b, s + took + PollInterval, t + took + PollInterval, n)
        BY <2>6, <1>1 DEF Box
    <3>2. s + took + PollInterval \in Nat /\ t + took + PollInterval \in Nat
        BY <1>1, <2>3, Limits
    <3>3. Fits(p, b, s + took + PollInterval, t + took + PollInterval, n)
      <4>1. p = "start" => S!Waiting = StartReadyTimeout
          BY DEF S!Waiting, p
      <4>2. p = "resume" => S!Waiting = WakeReadyTimeout
          BY DEF S!Waiting, p
      <4>3. CASE p = "start"
          BY <2>1, <2>3, <2>6, <4>1, <4>3, <1>1, <1>2, Limits DEF Fits
      <4>4. CASE p = "resume"
          BY <2>1, <2>3, <2>6, <4>2, <4>4, <1>1, <1>2, Limits DEF Fits
      <4> QED
          BY <2>1, <4>3, <4>4
    <3> QED
        BY <2>1, <3>1, <3>2, <3>3, <1>1, <1>2, BoxMade
  <2> QED
      BY <2>2, <2>3, <2>4, <2>5, <2>6
<1>9. CASE S!Warm
  <2>1. p = "warm" /\ UNCHANGED <<snapshot, served>>
      BY <1>9 DEF S!Warm, p
  <2>2. PICK took \in {0, WarmupTimeout} :
          \/ S!Raised(took)
          \/ box' = [box EXCEPT !.spent = @ + took, !.warmed = @ + 1,
                        !.phase = IF n + 1 = WarmupRequests THEN "sleep" ELSE @]
      BY <1>9, Zenon DEF S!Warm, n
  <2>3. took \in Nat /\ took <= WarmupTimeout /\ WarmupTimeout \in Nat
      BY Limits
  <2>4. /\ s <= Polled + Warming(n) /\ n < WarmupRequests /\ b = 0
        /\ Warming(n + 1) <= Warming(WarmupRequests)
    <3>1. s <= Polled + Warming(n) /\ n < WarmupRequests /\ b = 0
        BY <2>1, <1>2 DEF Fits
    <3>2. n + 1 \in Nat /\ (n + 1 = WarmupRequests \/ n + 1 < WarmupRequests)
        BY <3>1, <1>1, Limits
    <3>3. CASE n + 1 = WarmupRequests
        BY <3>1, <3>3, <1>3
    <3>4. CASE n + 1 < WarmupRequests
        BY <3>1, <3>2, <3>4, Limits, WarmingGrows
    <3> QED
        BY <3>1, <3>2, <3>3, <3>4
  <2>5. ASSUME S!Raised(took) PROVE BoxInv'
    <3>1. Fits("failed", b, s + took, t, n)
        BY <2>3, <2>4, <1>1, <1>3, Limits, Waits DEF Fits
    <3> QED
        BY <2>1, <2>3, <2>5, <3>1, <1>5
  <2>6. ASSUME box' = [box EXCEPT !.spent = @ + took, !.warmed = @ + 1,
                         !.phase = IF n + 1 = WarmupRequests THEN "sleep" ELSE @]
        PROVE  BoxInv'
    <3> DEFINE next == IF n + 1 = WarmupRequests THEN "sleep" ELSE "warm"
    <3>1. box' = Box(next, v, b, s + took, t, n + 1)
        BY <2>1, <2>6, <1>1 DEF Box
    <3>2. next \in BoxPhases /\ s + took \in Nat /\ n + 1 \in Nat /\ next # "serving"
        BY <1>1, <2>3 DEF BoxPhases
    <3>3. n + 1 # WarmupRequests => n + 1 < WarmupRequests
        BY <2>4, <1>1, Limits
    <3>4. s + took <= Polled + Warming(n + 1) /\ s + took <= Polled + Warming(WarmupRequests)
        BY <2>3, <2>4, <1>1, <1>3, Waits
    <3>5. Fits(next, b, s + took, t, n + 1)
        BY <2>4, <3>3, <3>4, Waits DEF Fits
    <3> HIDE DEF next
    <3> QED
        BY <2>1, <3>1, <3>2, <3>5, <1>1, <1>2, BoxMade
  <2> QED
      BY <2>2, <2>5, <2>6
<1>10. CASE S!Sleep
  <2>1. p = "sleep" /\ UNCHANGED served
      BY <1>10 DEF S!Sleep, p
  <2>2. PICK took \in {0, SleepTimeout} :
          \/ S!Raised(took) /\ UNCHANGED snapshot
          \/ /\ box' = [box EXCEPT !.phase = "captured", !.vllm = "asleep", !.spent = @ + took]
             /\ snapshot' = "asleep"
      BY <1>10, Zenon DEF S!Sleep
  <2>3. /\ took \in Nat /\ s + took \in Nat /\ s + took <= S!StartWaits /\ b = 0
    <3>1. s <= Polled + Warming(WarmupRequests) /\ b = 0
        BY <2>1, <1>2 DEF Fits
    <3>2. took \in Nat /\ took <= SleepTimeout /\ SleepTimeout \in Nat
        BY Limits
    <3> QED
        BY <3>1, <3>2, <1>1, <1>3, Waits
  <2>4. ASSUME S!Raised(took), UNCHANGED snapshot PROVE BoxInv'
    <3>1. Fits("failed", b, s + took, t, n)
        BY <2>3, Waits DEF Fits
    <3> QED
        BY <2>1, <2>3, <2>4, <3>1, <1>5
  <2>5. ASSUME box' = [box EXCEPT !.phase = "captured", !.vllm = "asleep", !.spent = @ + took],
               snapshot' = "asleep"
        PROVE  BoxInv'
    <3>1. box' = Box("captured", "asleep", b, s + took, t, n)
        BY <2>5, <1>1 DEF Box
    <3>2. Fits("captured", b, s + took, t, n) /\ "captured" \in BoxPhases /\ "asleep" \in Vllms
        BY <2>3, Waits DEF Fits, BoxPhases, Vllms
    <3> QED
        BY <2>1, <2>3, <2>5, <3>1, <3>2, <1>1, <1>2, BoxMade
  <2> QED
      BY <2>2, <2>4, <2>5
<1>11. CASE S!Captured
  <2>1. /\ UNCHANGED <<snapshot, served>> /\ p = "captured"
        /\ box' = [S!NoBox EXCEPT !.phase = "wake", !.vllm = v, !.before = s]
      BY <1>11 DEF S!Captured, p, v, s
  <2>2. box' = Box("wake", v, s, 0, 0, 0)
      BY <2>1 DEF S!NoBox, Box
  <2>3. Fits("wake", s, 0, 0, 0) /\ "wake" \in BoxPhases
      BY <2>1, <1>2 DEF Fits, BoxPhases
  <2> QED
      BY <2>1, <2>2, <2>3, <1>1, <1>2, BoxMade
<1>12. CASE S!Wake
  <2>1. p = "wake" /\ UNCHANGED <<snapshot, served>>
      BY <1>12 DEF S!Wake, p
  <2>2. PICK took \in {0, SleepTimeout} :
          \/ S!Raised(took)
          \/ \E now \in {"loading", "healthy"} :
                box' = [box EXCEPT !.phase = "resume", !.vllm = now, !.spent = @ + took, !.since = 0]
      BY <1>12, Zenon DEF S!Wake
  <2>3. /\ took \in Nat /\ took <= SleepTimeout /\ s = 0 /\ s + took = took
        /\ b <= S!StartWaits
      BY <2>1, <1>2, Limits DEF Fits
  <2>4. ASSUME S!Raised(took) PROVE BoxInv'
    <3>1. Fits("failed", b, s + took, t, n)
        BY <2>3, Limits, Waits DEF Fits
    <3> QED
        BY <2>1, <2>3, <2>4, <3>1, <1>5
  <2>5. ASSUME NEW now \in {"loading", "healthy"},
               box' = [box EXCEPT !.phase = "resume", !.vllm = now, !.spent = @ + took, !.since = 0]
        PROVE  BoxInv'
    <3>1. box' = Box("resume", now, b, s + took, 0, n)
        BY <2>5, <1>1 DEF Box
    <3>2. Fits("resume", b, s + took, 0, n)
        BY <2>3, Limits DEF Fits
    <3>3. "resume" \in BoxPhases /\ now \in Vllms /\ s + took \in Nat
        BY <2>3 DEF BoxPhases, Vllms
    <3> QED
        BY <2>1, <3>1, <3>2, <3>3, <1>1, <1>2, BoxMade
  <2> QED
      BY <2>2, <2>4, <2>5
<1>13. CASE S!ScaleDown \/ S!Gone
    BY <1>13, <1>4 DEF S!ScaleDown, S!Gone
<1>14. CASE S!Answer
    BY <1>14 DEF S!Answer, BoxInv, BoxTypeOK, Timed, Serving
<1>15. CASE UNCHANGED <<box, snapshot, served>>
    BY <1>15 DEF BoxInv, BoxTypeOK, Timed, Serving
<1> QED
    BY <1>6, <1>7, <1>8, <1>9, <1>10, <1>11, <1>12, <1>13, <1>14, <1>15
    DEF S!Next, S!Nudge, S!Ask, S!Redirect, S!Broken, S!TimesOut, S!Again, S!Status, server

LEMMA BoxMoves == [ServicesNext]_<<family, services, vars>> => [S!Next]_server
  BY DEF ServicesNext, Poll, Store, Trace, Serve, Graph, Browse, Remember, Talk, services

\* Each hook of a container ends within what Modal gives it to come up, also one
\* that raises, and both hooks of a first boot within what each may take; and a
\* client is answered by a vLLM that had loaded (model_app.py, Server).
THEOREM HooksAlwaysFit == ServicesSpec => []HooksFit
<1>1. BoxInv => HooksFit
  <2> SUFFICES ASSUME BoxInv PROVE HooksFit
      OBVIOUS
  <2> DEFINE p == box.phase  b == box.before  s == box.spent  t == box.since  n == box.warmed
  <2>1. /\ p \in BoxPhases /\ b \in Nat /\ s \in Nat /\ t \in Nat /\ n \in Nat
      BY BoxFields DEF BoxInv, BoxTypeOK
  <2>2. Fits(p, b, s, t, n) /\ served \subseteq {"healthy"}
      BY DEF BoxInv, Timed, Serving
  <2> HIDE DEF p, b, s, t, n
  <2>3. n < WarmupRequests => Warming(n) <= Warming(WarmupRequests) /\ Warming(n) \in Nat
      BY <2>1, Limits, WarmingGrows
  <2>4. Warming(WarmupRequests) \in Nat
      BY Limits DEF Warming
  <2>5. s <= S!ResumeWaits \/ (b = 0 /\ s <= S!StartWaits)
    <3>1. CASE p \in {"start", "warm", "sleep"}
        BY <3>1, <2>1, <2>2, <2>3, <2>4, Limits, Waits DEF Fits
    <3>2. CASE p \in {"down", "wake", "resume"}
        BY <3>2, <2>1, <2>2, Limits, Waits DEF Fits
    <3>3. CASE p \in {"captured", "serving", "failed"}
        BY <3>3, <2>2 DEF Fits
    <3> QED
        BY <3>1, <3>2, <3>3, <2>1 DEF BoxPhases
  <2>6. b <= S!StartWaits
      BY <2>2 DEF Fits
  <2> QED
      BY <2>1, <2>2, <2>5, <2>6, Limits, Waits DEF HooksFit, b, s
<1>2. ServicesInit => BoxInv
    BY BoxStarts DEF ServicesInit
<1>3. BoxInv /\ [ServicesNext]_<<family, services, vars>> => BoxInv'
    BY BoxStep, BoxMoves
<1> QED
    BY <1>1, <1>2, <1>3, PTL DEF ServicesSpec

----------------------------------------------------------------------------
(* The compiled graphs (AgentGraphs).                                      *)

Compilations == [tools : SUBSET {"careful", "plan"}, budget : Nat, saver : Nat]
Settings == [careful : BOOLEAN, plan : BOOLEAN, size : A!Sizes]
GraphsTypeOK ==
  /\ markers.size \in A!Sizes
  /\ limit \in {0, Ceiling} /\ handle.saver \in Nat /\ handle.opened \in Nat
  /\ cache \in [Thread -> Compilations]
  /\ \A thread \in Thread : task[thread].graph \in Compilations
  /\ task = [thread \in Thread |-> [at |-> task[thread].at, graph |-> task[thread].graph]]

Compiling == {"asking", "connecting", "normalizing"}

(* What a turn compiles with is what the workspace says now, unless the    *)
(* settings changed since it began to.                                     *)
Current(graph) == graph.tools = A!Tools
Sized(graph) == graph.budget \in {0, A!Budget(Ceiling)}
Fresh ==
  \A thread \in Thread : thread \notin across =>
     /\ task[thread].at \in Compiling => Current(task[thread].graph)
     /\ task[thread].at \in {"connecting", "normalizing"} => Sized(task[thread].graph)
     /\ cache[thread] # A!NoGraph => Current(cache[thread]) /\ Sized(cache[thread])

GraphInv == GraphsTypeOK /\ Fresh

LEMMA CeilingIsNat == Ceiling \in Nat /\ Chosen \in Nat
  BY PartsAssumption DEF A!GraphsAssumption

LEMMA BudgetIsNat ==
  ASSUME NEW known \in Nat, markers.size \in A!Sizes
  PROVE  A!Budget(known) \in Nat
<1>1. A!Share(markers.size) \in {25, 80, 95}
    BY DEF A!Share, A!Sizes
<1>2. (known * 25) \div 100 \in Nat /\ (known * 80) \div 100 \in Nat /\ (known * 95) \div 100 \in Nat
    OBVIOUS
<1>3. (known * A!Share(markers.size)) \div 100 \in Nat
    BY <1>1, <1>2
<1> QED
    BY <1>3, CeilingIsNat DEF A!Budget, A!Lesser

LEMMA GraphStarts == A!Init => GraphInv
<1> SUFFICES ASSUME A!Init PROVE GraphInv
    OBVIOUS
<1>1. A!NoGraph \in Compilations
    BY DEF A!NoGraph, Compilations
<1>2. GraphsTypeOK
    BY <1>1 DEF A!Init, A!NoTask, A!NoSaver, A!Sizes, GraphsTypeOK
<1>3. Fresh
    BY DEF A!Init, A!NoTask, Fresh, Compiling
<1> QED
    BY <1>2, <1>3 DEF GraphInv

LEMMA GraphMoves == [ServicesNext]_<<family, services, vars>> => [A!Next]_graphs
  BY DEF ServicesNext, Poll, Store, Trace, Serve, Graph, Browse, Remember, Talk, services

\* A compilation that read the settings ends in the cache with them: what
\* _graph does once the budget is known, with or without a connection to await.
LEMMA OpeningFits ==
  ASSUME GraphInv, NEW thread \in Thread, NEW graph \in Compilations,
         A!Opening(thread, graph) \/ A!Compiled(thread, graph, handle.saver),
         thread \notin across' => Current(graph) /\ Sized(graph),
         \A t \in Thread \ {thread} : t \in across' <=> t \in across,
         cache[thread] = A!NoGraph \/ UNCHANGED across,
         UNCHANGED markers
  PROVE  /\ cache' \in [Thread -> Compilations]
         /\ \A t \in Thread : task'[t].graph \in Compilations
         /\ task' = [t \in Thread |-> [at |-> task'[t].at, graph |-> task'[t].graph]]
         /\ Fresh'
<1> DEFINE with == [graph EXCEPT !.saver = handle.saver]
<1>1. /\ with \in Compilations /\ with.tools = graph.tools /\ with.budget = graph.budget
    BY DEF Compilations, GraphInv, GraphsTypeOK
<1>2. \/ /\ cache' = [cache EXCEPT ![thread] = with]
         /\ task' = [task EXCEPT ![thread] = [at |-> "using", graph |-> with]]
      \/ /\ cache' = cache
         /\ task' = [task EXCEPT ![thread] = [at |-> "connecting", graph |-> graph]]
    BY DEF A!Opening, A!Compiled
<1> HIDE DEF with
<1>3. CASE /\ cache' = [cache EXCEPT ![thread] = with]
           /\ task' = [task EXCEPT ![thread] = [at |-> "using", graph |-> with]]
  <2>1. cache' \in [Thread -> Compilations]
      BY <1>1, <1>3 DEF GraphInv, GraphsTypeOK
  <2>2. \A t \in Thread : task'[t] = IF t = thread THEN [at |-> "using", graph |-> with] ELSE task[t]
      BY <1>3 DEF GraphInv, GraphsTypeOK
  <2>3. \A t \in Thread : cache'[t] = IF t = thread THEN with ELSE cache[t]
      BY <1>3 DEF GraphInv, GraphsTypeOK
  <2>4. \A t \in Thread : task'[t].graph \in Compilations
    <3>1. \A t \in Thread : task[t].graph \in Compilations
        BY DEF GraphInv, GraphsTypeOK
    <3> QED
        BY <2>2, <1>1, <3>1
  <2>5. task' = [t \in Thread |-> [at |-> task'[t].at, graph |-> task'[t].graph]]
      BY <2>2, <1>3 DEF GraphInv, GraphsTypeOK
  <2>6. Fresh'
      BY <2>2, <2>3, <1>1 DEF GraphInv, Fresh, Compiling, Current, Sized, A!Tools, A!Budget
  <2> QED
      BY <2>1, <2>4, <2>5, <2>6
<1>4. CASE /\ cache' = cache
           /\ task' = [task EXCEPT ![thread] = [at |-> "connecting", graph |-> graph]]
  <2>2. \A t \in Thread : task'[t] = IF t = thread THEN [at |-> "connecting", graph |-> graph] ELSE task[t]
      BY <1>4 DEF GraphInv, GraphsTypeOK
  <2>4. \A t \in Thread : task'[t].graph \in Compilations
    <3>1. \A t \in Thread : task[t].graph \in Compilations
        BY DEF GraphInv, GraphsTypeOK
    <3> QED
        BY <2>2, <3>1
  <2>5. task' = [t \in Thread |-> [at |-> task'[t].at, graph |-> task'[t].graph]]
      BY <2>2, <1>4 DEF GraphInv, GraphsTypeOK
  <2>6. Fresh'
    <3>1. A!Tools' = A!Tools /\ A!Budget(Ceiling)' = A!Budget(Ceiling)
        BY DEF A!Tools, A!Budget
    <3>2. ASSUME NEW t \in Thread, t \notin across'
          PROVE  /\ task'[t].at \in Compiling => Current(task[t].graph)' 
                 /\ task'[t].at \in {"connecting", "normalizing"} => Sized(task[t].graph)'
                 /\ cache'[t] # A!NoGraph => Current(cache[t])' /\ Sized(cache[t])'
      <4>1. CASE t = thread
        <5>1. /\ task'[t].at = "connecting" /\ task'[t].graph = graph
            BY <2>2, <4>1
        <5>2. Current(graph) /\ Sized(graph)
            BY <3>2, <4>1
        <5>3. cache'[t] = A!NoGraph \/ t \notin across
            BY <1>4, <3>2, <4>1
        <5> QED
            BY <3>1, <1>4, <5>1, <5>2, <5>3 DEF GraphInv, Fresh, Current, Sized
      <4>2. CASE t # thread
          BY <3>1, <3>2, <2>2, <1>4, <4>2 DEF GraphInv, Fresh, Current, Sized
      <4> QED
          BY <4>1, <4>2
    <3> QED
        BY <3>2 DEF Fresh, A!NoGraph
  <2> QED
      BY <1>4, <2>4, <2>5, <2>6 DEF GraphInv, GraphsTypeOK
<1> QED
    BY <1>2, <1>3, <1>4

LEMMA GraphStep == GraphInv /\ [A!Next]_graphs => GraphInv'
<1> SUFFICES ASSUME GraphInv, [A!Next]_graphs PROVE GraphInv'
    OBVIOUS
<1>1. \A t \in Thread : task[t].graph \in Compilations
    BY DEF GraphInv, GraphsTypeOK
<1>2. A!NoGraph \in Compilations
    BY DEF A!NoGraph, Compilations
<1>3. ASSUME NEW thread \in Thread, task' = [task EXCEPT ![thread] = A!NoTask],
             UNCHANGED <<markers, asked, limit, handle, cache, across>>
      PROVE  GraphInv'
  <2>1. \A t \in Thread : task'[t] = IF t = thread THEN A!NoTask ELSE task[t]
      BY <1>3 DEF GraphInv, GraphsTypeOK
  <2>2. \A t \in Thread : task'[t].graph \in Compilations
      BY <2>1, <1>1, <1>2 DEF A!NoTask
  <2>3. task' = [t \in Thread |-> [at |-> task'[t].at, graph |-> task'[t].graph]]
      BY <2>1, <1>3 DEF GraphInv, GraphsTypeOK, A!NoTask
  <2>4. Fresh'
      BY <2>1, <1>3 DEF GraphInv, Fresh, Compiling, Current, Sized, A!Tools, A!Budget, A!NoTask
  <2> QED
      BY <2>2, <2>3, <2>4, <1>3 DEF GraphInv, GraphsTypeOK
<1>4. ASSUME NEW changed \in Settings, A!Switch(changed) PROVE GraphInv'
  <2>1. /\ cache' = [thread \in Thread |-> A!NoGraph]
        /\ across' = across \cup {thread \in Thread : task[thread].at \in Compiling}
        /\ UNCHANGED <<limit, handle, task>> /\ markers' = changed
      BY <1>4 DEF A!Switch, A!Rewire, Compiling
  <2>2. Fresh'
      BY <2>1 DEF Fresh, Compiling
  <2>3. changed.size \in A!Sizes
      BY DEF Settings
  <2>4. GraphsTypeOK'
      BY <2>1, <2>3, <1>2 DEF GraphInv, GraphsTypeOK, A!Sizes
  <2> QED
      BY <2>2, <2>4 DEF GraphInv
<1>5. ASSUME NEW thread \in Thread, A!Lookup(thread) PROVE GraphInv'
  <2>1. UNCHANGED <<markers, asked, limit, handle, switches>>
      BY <1>5 DEF A!Lookup
  <2>2. CASE cache[thread] # A!NoGraph
    <3>1. /\ task' = [task EXCEPT ![thread] = [at |-> "using", graph |-> cache[thread]]]
          /\ UNCHANGED <<cache, across>>
        BY <1>5, <2>2 DEF A!Lookup
    <3>2. \A t \in Thread : task'[t] =
             IF t = thread THEN [at |-> "using", graph |-> cache[thread]] ELSE task[t]
        BY <3>1 DEF GraphInv, GraphsTypeOK
    <3>3. \A t \in Thread : task'[t].graph \in Compilations
      <4>1. cache[thread] \in Compilations
          BY DEF GraphInv, GraphsTypeOK
      <4> QED
          BY <3>2, <1>1, <4>1
    <3>4. task' = [t \in Thread |-> [at |-> task'[t].at, graph |-> task'[t].graph]]
        BY <3>1, <3>2 DEF GraphInv, GraphsTypeOK
    <3>5. Fresh'
        BY <3>1, <3>2, <2>1 DEF GraphInv, Fresh, Compiling, Current, Sized, A!Tools, A!Budget
    <3> QED
        BY <2>1, <3>1, <3>3, <3>4, <3>5 DEF GraphInv, GraphsTypeOK, A!Sizes
  <2>3. CASE cache[thread] = A!NoGraph
    <3> DEFINE read == [A!NoGraph EXCEPT !.tools = A!Tools]
               sized == [read EXCEPT !.budget = A!Budget(limit)]
    <3>1. /\ across' = across \ {thread}
          /\ IF asked THEN A!Opening(thread, sized)
             ELSE /\ task' = [task EXCEPT ![thread] = [at |-> "asking", graph |-> read]]
                  /\ UNCHANGED cache
        BY <1>5, <2>3 DEF A!Lookup
    <3>2. read \in Compilations /\ Current(read)
        BY DEF A!NoGraph, Compilations, A!Tools, Current
    <3>3. \A t \in Thread \ {thread} : t \in across' <=> t \in across
        BY <3>1
    <3>4. CASE asked
      <4>1. A!Budget(limit) \in Nat /\ A!Budget(limit) \in {0, A!Budget(Ceiling)}
        <5>1. A!Budget(0) = 0
            BY DEF A!Budget
        <5> QED
            BY <5>1, CeilingIsNat, BudgetIsNat DEF GraphInv, GraphsTypeOK
      <4>2. sized \in Compilations /\ sized.tools = read.tools /\ sized.budget = A!Budget(limit)
          BY <3>2, <4>1, Zenon DEF Compilations
      <4> QED
        <5>1. Current(sized) /\ Sized(sized)
            BY <3>2, <4>1, <4>2 DEF Current, Sized
        <5>2. A!Opening(thread, sized)
            BY <3>1, <3>4
        <5> HIDE DEF sized
        <5>3. /\ cache' \in [Thread -> Compilations]
              /\ \A t \in Thread : task'[t].graph \in Compilations
              /\ task' = [t \in Thread |-> [at |-> task'[t].at, graph |-> task'[t].graph]]
              /\ Fresh'
            BY <2>1, <2>3, <3>3, <4>2, <5>1, <5>2, OpeningFits
        <5> QED
            BY <2>1, <5>3 DEF GraphInv, GraphsTypeOK, A!Sizes
    <3>5. CASE ~asked
      <4> HIDE DEF read
      <4>1. task' = [task EXCEPT ![thread] = [at |-> "asking", graph |-> read]] /\ UNCHANGED cache
          BY <3>1, <3>5
      <4>2. \A t \in Thread : task'[t] = IF t = thread THEN [at |-> "asking", graph |-> read] ELSE task[t]
          BY <4>1 DEF GraphInv, GraphsTypeOK
      <4>3. \A t \in Thread : task'[t].graph \in Compilations
          BY <4>2, <1>1, <3>2
      <4>4. task' = [t \in Thread |-> [at |-> task'[t].at, graph |-> task'[t].graph]]
          BY <4>1, <4>2 DEF GraphInv, GraphsTypeOK
      <4>5. Fresh'
          BY <2>1, <2>3, <3>2, <3>3, <4>1, <4>2
          DEF GraphInv, Fresh, Compiling, Current, Sized, A!Tools, A!Budget
      <4> QED
          BY <2>1, <4>1, <4>3, <4>4, <4>5 DEF GraphInv, GraphsTypeOK, A!Sizes
    <3> QED
        BY <3>4, <3>5
  <2> QED
      BY <2>2, <2>3
<1>6. ASSUME NEW thread \in Thread, A!Answered(thread) PROVE GraphInv'
  <2>1. PICK known \in {0, Ceiling} :
           /\ limit' = known
           /\ A!Opening(thread, [task[thread].graph EXCEPT !.budget = A!Budget(known)])
      BY <1>6 DEF A!Answered
  <2>2. task[thread].at = "asking" /\ UNCHANGED <<markers, handle, across>>
      BY <1>6 DEF A!Answered, A!At
  <2> DEFINE sized == [task[thread].graph EXCEPT !.budget = A!Budget(known)]
  <2>3. A!Budget(known) \in Nat /\ A!Budget(known) \in {0, A!Budget(Ceiling)}
    <3>1. A!Budget(0) = 0
        BY DEF A!Budget
    <3> QED
        BY <3>1, CeilingIsNat, BudgetIsNat DEF GraphInv, GraphsTypeOK
  <2>4. /\ sized \in Compilations /\ sized.tools = task[thread].graph.tools
        /\ sized.budget = A!Budget(known)
      BY <1>1, <2>3, Zenon DEF Compilations
  <2>5. thread \notin across' => Current(sized) /\ Sized(sized)
      BY <2>2, <2>3, <2>4 DEF GraphInv, Fresh, Compiling, Current, Sized
  <2>6. A!Opening(thread, sized)
      BY <2>1
  <2> HIDE DEF sized
  <2>7. /\ cache' \in [Thread -> Compilations]
        /\ \A t \in Thread : task'[t].graph \in Compilations
        /\ task' = [t \in Thread |-> [at |-> task'[t].at, graph |-> task'[t].graph]]
        /\ Fresh'
      BY <2>2, <2>4, <2>5, <2>6, OpeningFits
  <2> QED
      BY <2>1, <2>2, <2>7 DEF GraphInv, GraphsTypeOK, A!Sizes
<1>7. ASSUME NEW thread \in Thread, A!Connected(thread) PROVE GraphInv'
  <2>1. /\ task' = [task EXCEPT ![thread].at = "normalizing"] /\ task[thread].at = "connecting"
        /\ handle' = [saver |-> handle.opened + 1, opened |-> handle.opened + 1]
        /\ UNCHANGED <<markers, limit, cache, across>>
      BY <1>7 DEF A!Connected, A!Go, A!At
  <2>2. \A t \in Thread : /\ task'[t].graph = task[t].graph
                          /\ task'[t] = [at |-> task'[t].at, graph |-> task'[t].graph]
                          /\ task'[t].at = IF t = thread THEN "normalizing" ELSE task[t].at
      BY <2>1 DEF GraphInv, GraphsTypeOK
  <2>3. Fresh'
      BY <2>1, <2>2 DEF GraphInv, Fresh, Compiling, Current, Sized, A!Tools, A!Budget
  <2>4. task' = [t \in Thread |-> [at |-> task'[t].at, graph |-> task'[t].graph]]
      BY <2>1, <2>2 DEF GraphInv, GraphsTypeOK
  <2>5. handle'.saver \in Nat /\ handle'.opened \in Nat
      BY <2>1 DEF GraphInv, GraphsTypeOK
  <2>6. \A t \in Thread : task'[t].graph \in Compilations
      BY <2>2, <1>1
  <2> QED
      BY <2>1, <2>3, <2>4, <2>5, <2>6 DEF GraphInv, GraphsTypeOK, A!Sizes
<1>8. ASSUME NEW thread \in Thread, A!Normalized(thread) PROVE GraphInv'
  <2> DEFINE graph == task[thread].graph
  <2>1. /\ task[thread].at = "normalizing" /\ A!Compiled(thread, graph, handle.saver)
        /\ UNCHANGED <<markers, limit, handle, across>>
      BY <1>8 DEF A!Normalized, A!At
  <2>2. graph \in Compilations
      BY <1>1
  <2>3. thread \notin across' => Current(graph) /\ Sized(graph)
      BY <2>1 DEF GraphInv, Fresh, Compiling
  <2> HIDE DEF graph
  <2>4. /\ cache' \in [Thread -> Compilations]
        /\ \A t \in Thread : task'[t].graph \in Compilations
        /\ task' = [t \in Thread |-> [at |-> task'[t].at, graph |-> task'[t].graph]]
        /\ Fresh'
      BY <2>1, <2>2, <2>3, OpeningFits
  <2> QED
      BY <2>1, <2>4 DEF GraphInv, GraphsTypeOK, A!Sizes
<1>9. ASSUME NEW thread \in Thread, A!OpenFails(thread) \/ A!Used(thread) PROVE GraphInv'
    BY <1>3, <1>9 DEF A!OpenFails, A!Used
<1>10. CASE UNCHANGED graphs
    BY <1>10 DEF graphs, GraphInv, GraphsTypeOK, Fresh, Current, Sized, A!Sizes, A!Tools, A!Budget
<1> QED
    BY <1>4, <1>5, <1>6, <1>7, <1>8, <1>9, <1>10 DEF A!Next, Settings

\* A compiled graph asks, plans and budgets as the workspace says, unless a
\* setting changed while it was being compiled (runtime.py, rewire).
THEOREM OnlyRacesDisagree == ServicesSpec => []OnlyRacesDiffer
<1>1. GraphInv => OnlyRacesDiffer
    BY DEF GraphInv, Fresh, Current, Sized, OnlyRacesDiffer
<1>2. ServicesInit => GraphInv
    BY GraphStarts DEF ServicesInit
<1>3. GraphInv /\ [ServicesNext]_<<family, services, vars>> => GraphInv'
    BY GraphStep, GraphMoves
<1> QED
    BY <1>1, <1>2, <1>3, PTL DEF ServicesSpec

----------------------------------------------------------------------------
(* The polling loop (PollingBot).                                          *)

FeedTypeOK ==
  /\ feed \in Seq([chat : Chat, control : BOOLEAN]) /\ confirmed \in 0..Len(feed)
BotTypeOK ==
  /\ bot = [up |-> bot.up, life |-> bot.life, offset |-> bot.offset, created |-> bot.created,
            handling |-> bot.handling, line |-> bot.line]
  /\ bot.life \in Nat /\ bot.offset \in 0..Len(feed) + 1 /\ bot.created \in Seq(Nat)
  /\ bot.line \in [Chat -> Seq(Nat)]
BegunTypeOK == begun \in Seq([update : Nat, life : Nat])

(* The tasks that have not run are the last updates taken, in order; all   *)
(* others of this life came before them.                                   *)
First == bot.offset - Len(bot.created)
Numbered ==
  /\ bot.offset = 0 => bot.created = <<>>
  /\ bot.offset > 0 => Len(bot.created) < bot.offset
  /\ \A k \in 1..Len(bot.created) : bot.created[k] = First + k - 1
Taken(u) == u \in Nat /\ 1 <= u /\ u < First

(* A chat's line is in order, and the update that holds its lock alone is  *)
(* handled of those that stand in it.                                      *)
Lined ==
  \A chat \in Chat : \A i \in 1..Len(bot.line[chat]) :
     LET u == bot.line[chat][i] IN
     /\ Taken(u) /\ Ordinary(u) /\ feed[u].chat = chat
     /\ \A j \in 1..Len(bot.line[chat]) : i < j => u < bot.line[chat][j]
Holding ==
  \A u \in bot.handling :
     /\ Taken(u)
     /\ Ordinary(u) => /\ Len(bot.line[feed[u].chat]) > 0
                       /\ u = bot.line[feed[u].chat][1]

(* What was begun in this life: nothing that has not run, and nothing of   *)
(* those that wait behind the holder of their chat's lock.                 *)
BegunBefore ==
  \A i \in 1..Len(begun) :
     LET u == begun[i].update IN
     /\ begun[i].life <= bot.life /\ 1 <= u /\ u <= Len(feed)
     /\ bot.up /\ begun[i].life = bot.life =>
          /\ u < First
          /\ Ordinary(u) /\ Len(bot.line[feed[u].chat]) > 0 => u <= bot.line[feed[u].chat][1]
InOrder ==
  \A i, j \in 1..Len(begun) : i < j /\ begun[i].life = begun[j].life =>
     /\ begun[i].update # begun[j].update
     /\ Ordinary(begun[i].update) /\ Ordinary(begun[j].update)
          /\ feed[begun[i].update].chat = feed[begun[j].update].chat
             => begun[i].update < begun[j].update

(* An update past which the loop has asked has ended or is in its hands.   *)
Task(u) ==
  \/ \E k \in 1..Len(bot.created) : bot.created[k] = u
  \/ u \in bot.handling
  \/ \E chat \in Chat : \E k \in 1..Len(bot.line[chat]) : bot.line[chat][k] = u
Accounted ==
  /\ bot.offset > 0 => /\ confirmed < bot.offset /\ bot.up
                       /\ \A u \in 1..bot.offset - 1 : u \in ended \/ Task(u)
  /\ bot.offset = 0 => \A u \in 1..confirmed : u \in ended

PollInv == /\ FeedTypeOK /\ BotTypeOK /\ BegunTypeOK /\ Numbered /\ Lined /\ Holding
           /\ BegunBefore /\ InOrder /\ Accounted

LEMMA LastOrBefore == \A n \in Nat : \A j \in 1..n + 1 : j \in 1..n \/ j = n + 1
    OBVIOUS

LEMMA AppendNat ==
  ASSUME NEW s \in Seq(Nat), NEW x \in Nat
  PROVE  /\ Append(s, x) \in Seq(Nat) /\ Len(Append(s, x)) = Len(s) + 1
         /\ Append(s, x)[Len(s) + 1] = x
         /\ \A i \in 1..Len(s) : Append(s, x)[i] = s[i]
  OBVIOUS

LEMMA TailNat ==
  ASSUME NEW s \in Seq(Nat), s # <<>>
  PROVE  /\ Tail(s) \in Seq(Nat) /\ Len(s) > 0 /\ Len(s) \in Nat /\ Len(Tail(s)) = Len(s) - 1
         /\ Head(s) = s[1] /\ s[1] \in Nat
         /\ \A i \in 1..Len(s) - 1 : Tail(s)[i] = s[i + 1]
<1>1. Len(s) \in Nat /\ Len(s) # 0
    BY EmptySeq, LenProperties
<1> QED
    BY <1>1, HeadTailProperties, ElementOfSeq

LEMMA Numbers ==
  ASSUME PollInv
  PROVE  /\ Len(feed) \in Nat /\ Len(bot.created) \in Nat /\ Len(begun) \in Nat
         /\ bot.offset \in Nat /\ confirmed \in Nat
         /\ First \in Nat /\ First <= Len(feed) + 1
         /\ \A chat \in Chat : Len(bot.line[chat]) \in Nat
         /\ \A u \in 1..Len(feed) : feed[u].chat \in Chat
         /\ \A i \in 1..Len(begun) : begun[i].update \in Nat /\ begun[i].life \in Nat
<1>1. Len(feed) \in Nat /\ Len(bot.created) \in Nat /\ Len(begun) \in Nat
    BY LenProperties DEF PollInv, FeedTypeOK, BotTypeOK, BegunTypeOK
<1>2. bot.offset \in Nat /\ bot.offset <= Len(feed) + 1 /\ confirmed \in Nat
    BY <1>1 DEF PollInv, FeedTypeOK, BotTypeOK
<1>3. bot.offset = 0 => Len(bot.created) = 0
    BY EmptySeq DEF PollInv, Numbered
<1>4. First \in Nat /\ First <= Len(feed) + 1
    BY <1>1, <1>2, <1>3 DEF PollInv, Numbered, First
<1>5. \A chat \in Chat : Len(bot.line[chat]) \in Nat
    BY LenProperties DEF PollInv, BotTypeOK
<1>6. \A u \in 1..Len(feed) : feed[u].chat \in Chat
  <2> TAKE u \in 1..Len(feed)
  <2>1. feed[u] \in [chat : Chat, control : BOOLEAN]
      BY ElementOfSeq DEF PollInv, FeedTypeOK
  <2> QED
      BY <2>1
<1>7. \A i \in 1..Len(begun) : begun[i].update \in Nat /\ begun[i].life \in Nat
  <2> TAKE i \in 1..Len(begun)
  <2>1. begun[i] \in [update : Nat, life : Nat]
      BY ElementOfSeq DEF PollInv, BegunTypeOK
  <2> QED
      BY <2>1
<1> QED
    BY <1>1, <1>2, <1>4, <1>5, <1>6, <1>7

\* What is said of the updates already taken holds while the feed grows and
\* more are taken.
LEMMA TakenStays ==
  ASSUME PollInv, First' \in Nat, First <= First', Len(feed') \in Nat, Len(feed) <= Len(feed'),
         \A u \in 1..Len(feed) : feed'[u] = feed[u],
         UNCHANGED begun,
         bot'.line = bot.line, bot'.handling \subseteq bot.handling, bot'.life = bot.life, bot'.up = bot.up
  PROVE  Lined' /\ Holding' /\ BegunBefore' /\ InOrder'
<1>0. /\ Len(feed) \in Nat /\ First \in Nat /\ First <= Len(feed) + 1
      /\ \A u \in 1..Len(feed) : feed[u].chat \in Chat
    BY Numbers
<1>1. \A u : Taken(u) => Taken(u)' /\ u \in 1..Len(feed)
    BY <1>0 DEF Taken
<1>2. \A u \in 1..Len(feed) : /\ Ordinary(u)' <=> Ordinary(u)
                              /\ feed'[u].chat = feed[u].chat /\ feed[u].chat \in Chat
    BY <1>0 DEF Ordinary
<1> HIDE DEF Taken, Ordinary
<1>3. Lined'
  <2> SUFFICES ASSUME NEW chat \in Chat, NEW i \in 1..Len(bot.line[chat])
               PROVE  LET u == bot.line[chat][i] IN
                      /\ Taken(u)' /\ Ordinary(u)' /\ feed'[u].chat = chat
                      /\ \A j \in 1..Len(bot.line[chat]) : i < j => u < bot.line[chat][j]
      BY DEF Lined
  <2>1. LET u == bot.line[chat][i] IN
        /\ Taken(u) /\ Ordinary(u) /\ feed[u].chat = chat
        /\ \A j \in 1..Len(bot.line[chat]) : i < j => u < bot.line[chat][j]
      BY DEF PollInv, Lined
  <2> QED
      BY <2>1, <1>1, <1>2
<1>4. Holding'
    BY <1>1, <1>2 DEF PollInv, Holding
<1>5. BegunBefore'
  <2> SUFFICES ASSUME NEW i \in 1..Len(begun)
               PROVE  LET u == begun[i].update IN
                      /\ begun[i].life <= bot.life /\ 1 <= u /\ u <= Len(feed')
                      /\ bot.up /\ begun[i].life = bot.life =>
                           /\ u < First'
                           /\ Ordinary(u)' /\ Len(bot.line[feed'[u].chat]) > 0
                                => u <= bot.line[feed'[u].chat][1]
      BY DEF BegunBefore
  <2> DEFINE u == begun[i].update
  <2>1. /\ begun[i].life <= bot.life /\ 1 <= u /\ u <= Len(feed)
        /\ bot.up /\ begun[i].life = bot.life =>
             /\ u < First
             /\ Ordinary(u) /\ Len(bot.line[feed[u].chat]) > 0 => u <= bot.line[feed[u].chat][1]
      BY DEF PollInv, BegunBefore
  <2>2. u \in Nat
      BY Numbers
  <2>3. u \in 1..Len(feed)
      BY <1>0, <2>1, <2>2
  <2>4. (Ordinary(u)' <=> Ordinary(u)) /\ feed'[u].chat = feed[u].chat
      BY <1>2, <2>3
  <2> HIDE DEF u
  <2>5. u < First => u < First'
      BY <1>0, <2>2
  <2>6. u <= Len(feed')
      BY <1>0, <2>1, <2>2
  <2> QED
      BY <2>1, <2>4, <2>5, <2>6 DEF u
<1>6. InOrder'
  <2> SUFFICES ASSUME NEW i \in 1..Len(begun), NEW j \in 1..Len(begun),
                      i < j, begun[i].life = begun[j].life
               PROVE  /\ begun[i].update # begun[j].update
                      /\ Ordinary(begun[i].update)' /\ Ordinary(begun[j].update)'
                           /\ feed'[begun[i].update].chat = feed'[begun[j].update].chat
                              => begun[i].update < begun[j].update
      BY DEF InOrder
  <2>1. /\ begun[i].update # begun[j].update
        /\ Ordinary(begun[i].update) /\ Ordinary(begun[j].update)
             /\ feed[begun[i].update].chat = feed[begun[j].update].chat
                => begun[i].update < begun[j].update
      BY DEF PollInv, InOrder
  <2>2. begun[i].update \in 1..Len(feed) /\ begun[j].update \in 1..Len(feed)
      BY <1>0, Numbers, SMTT(30) DEF PollInv, BegunBefore
  <2> QED
      BY <2>1, <2>2, <1>2
<1> QED
    BY <1>3, <1>4, <1>5, <1>6

LEMMA PollStarts == P!Init => PollInv
<1> SUFFICES ASSUME P!Init PROVE PollInv
    OBVIOUS
<1>1. /\ feed = <<>> /\ begun = <<>> /\ confirmed = 0 /\ ended = {}
      /\ bot = [up |-> TRUE, life |-> 1, offset |-> 0, created |-> <<>>, handling |-> {},
                line |-> [chat \in Chat |-> <<>>]]
    BY DEF P!Init, P!Fresh, P!NoOffset
<1>2. /\ bot.life = 1 /\ bot.offset = 0 /\ bot.created = <<>> /\ bot.handling = {}
      /\ \A chat \in Chat : bot.line[chat] = <<>>
      /\ bot.line \in [Chat -> Seq(Nat)]
    BY <1>1
<1>3. Len(feed) = 0 /\ Len(begun) = 0 /\ Len(bot.created) = 0
    BY <1>1, <1>2
<1>4. \A chat \in Chat : Len(bot.line[chat]) = 0
    BY <1>2
<1>5. FeedTypeOK /\ BegunTypeOK
    BY <1>1, <1>3 DEF FeedTypeOK, BegunTypeOK
<1>6. BotTypeOK
  <2>1. bot = [up |-> bot.up, life |-> bot.life, offset |-> bot.offset, created |-> bot.created,
            handling |-> bot.handling, line |-> bot.line]
      BY <1>1
  <2> QED
      BY <2>1, <1>2, <1>3 DEF BotTypeOK
<1>7. Numbered /\ Lined /\ Holding /\ BegunBefore /\ InOrder /\ Accounted
    BY <1>1, <1>2, <1>3, <1>4 DEF Numbered, Lined, Holding, BegunBefore, InOrder, Accounted
<1> QED
    BY <1>5, <1>6, <1>7 DEF PollInv

LEMMA ArriveKeeps ==
  ASSUME PollInv, NEW chat \in Chat, NEW control \in BOOLEAN, P!Arrive(chat, control)
  PROVE  PollInv'
<1> USE Numbers
<1> DEFINE one == [chat |-> chat, control |-> control]
<1>1. feed' = Append(feed, one) /\ UNCHANGED <<confirmed, bot, begun, ended>>
    BY DEF P!Arrive
<1>2. one \in [chat : Chat, control : BOOLEAN]
    OBVIOUS
<1> HIDE DEF one
<1>3. /\ feed' \in Seq([chat : Chat, control : BOOLEAN]) /\ Len(feed') = Len(feed) + 1
      /\ \A u \in 1..Len(feed) : feed'[u] = feed[u]
    BY <1>1, <1>2 DEF PollInv, FeedTypeOK
<1>4. FeedTypeOK' /\ BotTypeOK' /\ BegunTypeOK'
    BY <1>1, <1>3 DEF PollInv, FeedTypeOK, BotTypeOK, BegunTypeOK
<1>5. First' = First
    BY <1>1 DEF First
<1>6. Numbered' /\ Accounted'
    BY <1>1, <1>5 DEF PollInv, Numbered, Accounted, Task
<1>7. Lined' /\ Holding' /\ BegunBefore' /\ InOrder'
    BY <1>1, <1>3, <1>5, TakenStays
<1> QED
    BY <1>4, <1>6, <1>7 DEF PollInv

LEMMA PollOnceKeeps == ASSUME PollInv, P!PollOnce PROVE PollInv'
<1> DEFINE c == P!Confirming  news == P!News(c)  N == Len(feed)  L == Len(bot.created)
<1>0. N \in Nat /\ L \in Nat /\ bot.offset \in Nat /\ confirmed \in Nat
    BY Numbers
<1>1. /\ bot' = [bot EXCEPT !.created = @ \o news, !.offset = N + 1]
      /\ c < N /\ confirmed' = c /\ UNCHANGED <<feed, begun, ended>> /\ bot.up
    BY DEF P!PollOnce
<1>2. c \in 0..N /\ (bot.offset = 0 => c = confirmed) /\ (bot.offset > 0 => c = bot.offset - 1)
    BY <1>0 DEF P!Confirming, P!NoOffset, PollInv, FeedTypeOK, BotTypeOK
<1>3. /\ bot'.created = bot.created \o news /\ bot'.offset = N + 1
      /\ bot'.up = bot.up /\ bot'.life = bot.life /\ bot'.line = bot.line
      /\ bot'.handling = bot.handling
      /\ bot' = [up |-> bot'.up, life |-> bot'.life, offset |-> bot'.offset,
                 created |-> bot'.created, handling |-> bot'.handling, line |-> bot'.line]
    BY <1>1 DEF PollInv, BotTypeOK
<1>4. news \in Seq(Nat) /\ Len(news) = N - c /\ \A k \in 1..N - c : news[k] = c + k
  <2>1. N - c \in Nat /\ c \in Nat
      BY <1>0, <1>2
  <2>2. news = [k \in 1..N - c |-> c + k]
      BY DEF P!News
  <2> HIDE DEF news, c, N
  <2>3. \A k \in 1..N - c : c + k \in Nat
      BY <2>1
  <2> QED
      BY <2>1, <2>2, <2>3
<1> HIDE DEF news, c, N, L
<1>5. /\ bot'.created \in Seq(Nat) /\ Len(bot'.created) = L + (N - c)
      /\ \A k \in 1..L + (N - c) :
            bot'.created[k] = IF k <= L THEN bot.created[k] ELSE news[k - L]
  <2>1. bot.created \in Seq(Nat)
      BY DEF PollInv, BotTypeOK
  <2>2. /\ bot.created \o news \in Seq(Nat)
        /\ Len(bot.created \o news) = Len(bot.created) + Len(news)
        /\ \A i \in 1..Len(bot.created) + Len(news) : (bot.created \o news)[i] =
              IF i <= Len(bot.created) THEN bot.created[i] ELSE news[i - Len(bot.created)]
      BY <1>4, <2>1, ConcatProperties
  <2> QED
      BY <1>3, <1>4, <2>2 DEF L
<1>6. First' = c + 1 - L /\ (bot.offset > 0 => First' = First) /\ (bot.offset = 0 => L = 0)
  <2>1. bot.offset = 0 => L = 0
      BY EmptySeq DEF PollInv, Numbered, L
  <2>2. First = bot.offset - L
      BY DEF First, L
  <2>3. First' = N + 1 - (L + (N - c))
    <3>1. First' = bot'.offset - Len(bot'.created)
        BY DEF First
    <3>2. bot'.offset = N + 1 /\ Len(bot'.created) = L + (N - c)
        BY <1>3, <1>5
    <3> QED
        BY <3>1, <3>2, <1>0, <1>2, SMT
  <2> QED
      BY <1>0, <1>2, <2>1, <2>2, <2>3
<1>7. FeedTypeOK' /\ BotTypeOK' /\ BegunTypeOK'
    BY <1>1, <1>2, <1>3, <1>5 DEF PollInv, FeedTypeOK, BotTypeOK, BegunTypeOK, N
<1>8. Numbered'
  <2>1. \A k \in 1..L + (N - c) : bot'.created[k] = First' + k - 1
    <3> TAKE k \in 1..L + (N - c)
    <3>1. CASE k <= L
      <4>1. k \in 1..L /\ bot.offset > 0
          BY <3>1, <1>0, <1>2, <1>6
      <4>2. bot.created[k] = First + k - 1
          BY <4>1 DEF PollInv, Numbered, L
      <4> QED
          BY <3>1, <4>1, <4>2, <1>5, <1>6
    <3>2. CASE ~(k <= L)
      <4>1. k - L \in 1..N - c
          BY <3>2, <1>0, <1>2
      <4>2. bot'.created[k] = c + (k - L)
          BY <3>2, <4>1, <1>4, <1>5
      <4> QED
          BY <4>2, <1>0, <1>2, <1>6
    <3> QED
        BY <3>1, <3>2
  <2>2. L + (N - c) < N + 1
    <3>1. bot.offset > 0 => L < bot.offset
        BY DEF PollInv, Numbered, L
    <3> QED
        BY <3>1, <1>0, <1>2, <1>6
  <2> QED
      BY <1>3, <1>5, <2>1, <2>2 DEF Numbered
<1>9. First' \in Nat /\ First <= First'
  <2>1. bot.offset > 0 => L < bot.offset
      BY DEF PollInv, Numbered, L
  <2>2. First = bot.offset - L
      BY DEF First, L
  <2> QED
      BY <2>1, <2>2, <1>0, <1>2, <1>6
<1>10. Lined' /\ Holding' /\ BegunBefore' /\ InOrder'
    BY <1>1, <1>3, <1>9, Numbers, TakenStays
<1>11. Accounted'
  <2>1. ASSUME NEW u \in 1..N PROVE u \in ended \/ Task(u)'
    <3>1. CASE u > c
      <4>1. L + (u - c) \in 1..L + (N - c) /\ bot'.created[L + (u - c)] = u
          BY <3>1, <1>0, <1>2, <1>4, <1>5
      <4> QED
          BY <4>1, <1>5 DEF Task
    <3>2. CASE u <= c
      <4>1. u \in ended \/ Task(u)
        <5>1. CASE bot.offset > 0
          <6>1. u \in 1..bot.offset - 1
              BY <5>1, <3>2, <1>0, <1>2
          <6> QED
              BY <5>1, <6>1 DEF PollInv, Accounted
        <5>2. CASE bot.offset = 0
          <6>1. u \in 1..confirmed
              BY <5>2, <3>2, <1>0, <1>2
          <6> QED
              BY <5>2, <6>1 DEF PollInv, Accounted
        <5> QED
            BY <5>1, <5>2, <1>0
      <4>2. Task(u) => Task(u)'
        <5>1. \A k \in 1..L : k \in 1..L + (N - c) /\ bot'.created[k] = bot.created[k]
            BY <1>0, <1>2, <1>5
        <5> QED
            BY <5>1, <1>3, <1>5 DEF Task, L
      <4> QED
          BY <4>1, <4>2
    <3> QED
        BY <3>1, <3>2, <1>0, <1>2
  <2> QED
    <3>1. bot'.offset = N + 1 /\ confirmed' < bot'.offset /\ bot'.up /\ ended' = ended
        BY <1>0, <1>1, <1>2, <1>3
    <3>2. bot'.offset > 0 /\ bot'.offset # 0 /\ bot'.offset - 1 = N
        BY <3>1, <1>0
    <3> QED
        BY <2>1, <3>1, <3>2 DEF Accounted
<1> QED
    BY <1>7, <1>8, <1>10, <1>11 DEF PollInv

LEMMA PollFailsKeeps == ASSUME PollInv, P!PollFails PROVE PollInv'
<1> USE Numbers
<1>1. /\ confirmed' = P!Confirming /\ UNCHANGED <<feed, bot, begun, ended>>
    BY DEF P!PollFails
<1>2. /\ confirmed' \in 0..Len(feed)
      /\ bot.offset = 0 => confirmed' = confirmed
      /\ bot.offset > 0 => confirmed' = bot.offset - 1
    BY <1>1 DEF P!Confirming, P!NoOffset, PollInv, FeedTypeOK, BotTypeOK
<1>3. First' = First
    BY <1>1 DEF First
<1>4. Lined' /\ Holding' /\ BegunBefore' /\ InOrder'
    BY <1>1, <1>3, TakenStays
<1>5. FeedTypeOK' /\ BotTypeOK' /\ BegunTypeOK' /\ Numbered'
    BY <1>1, <1>2, <1>3 DEF PollInv, FeedTypeOK, BotTypeOK, BegunTypeOK, Numbered
<1>6. Accounted'
  <2>1. \A u : Task(u)' <=> Task(u)
      BY <1>1 DEF Task
  <2>2. bot.offset > 0 => confirmed' < bot.offset
      BY <1>2 DEF PollInv, BotTypeOK
  <2>3. Accounted
      BY DEF PollInv
  <2> HIDE DEF Task
  <2> QED
      BY <1>1, <1>2, <2>1, <2>2, <2>3 DEF Accounted
<1> QED
    BY <1>4, <1>5, <1>6 DEF PollInv

\* A handler is called for an update: it is the last of its conversation, and
\* none of this life was called for it before.
LEMMA BeginsInOrder ==
  ASSUME PollInv, NEW u \in 1..Len(feed), UNCHANGED feed,
         begun' = Append(begun, [update |-> u, life |-> bot.life]),
         \A i \in 1..Len(begun) : begun[i].life = bot.life =>
            /\ begun[i].update # u
            /\ Ordinary(begun[i].update) /\ Ordinary(u) /\ feed[begun[i].update].chat = feed[u].chat
                 => begun[i].update < u
  PROVE  /\ BegunTypeOK' /\ InOrder' /\ Len(begun') = Len(begun) + 1
         /\ begun'[Len(begun) + 1] = [update |-> u, life |-> bot.life]
         /\ \A i \in 1..Len(begun) : begun'[i] = begun[i]
<1> DEFINE one == [update |-> u, life |-> bot.life]  n == Len(begun)
<1>1. n \in Nat /\ Len(feed) \in Nat
    BY Numbers
<1>2. one \in [update : Nat, life : Nat] /\ one.update = u /\ one.life = bot.life
    BY <1>1 DEF PollInv, BotTypeOK
<1>3. begun' = Append(begun, one) /\ begun \in Seq([update : Nat, life : Nat])
    BY DEF PollInv, BegunTypeOK
<1> HIDE DEF one, n
<1>4. /\ begun' \in Seq([update : Nat, life : Nat]) /\ Len(begun') = n + 1 /\ begun'[n + 1] = one
      /\ \A i \in 1..n : begun'[i] = begun[i]
    BY <1>2, <1>3 DEF n
<1>5. InOrder'
  <2> SUFFICES ASSUME NEW i \in 1..n + 1, NEW j \in 1..n + 1, i < j, begun'[i].life = begun'[j].life
               PROVE  /\ begun'[i].update # begun'[j].update
                      /\ Ordinary(begun'[i].update) /\ Ordinary(begun'[j].update)
                           /\ feed[begun'[i].update].chat = feed[begun'[j].update].chat
                              => begun'[i].update < begun'[j].update
      BY <1>4, ZenonT(60) DEF InOrder, Ordinary
  <2>1. i \in 1..n /\ begun'[i] = begun[i]
      BY <1>1, <1>4
  <2>2. CASE j \in 1..n
    <3>1. begun'[j] = begun[j]
        BY <1>4, <2>2
    <3> QED
        BY <2>1, <2>2, <3>1 DEF PollInv, InOrder, Ordinary, n
  <2>3. CASE j = n + 1
    <3>1. begun'[j].update = u /\ begun[i].life = bot.life
        BY <1>2, <1>4, <2>1, <2>3
    <3> QED
        BY <2>1, <3>1 DEF Ordinary, n
  <2>4. j \in 1..n \/ j = n + 1
      BY <1>1, LastOrBefore, Zenon
  <2> QED
      BY <2>2, <2>3, <2>4
<1> QED
    BY <1>4, <1>5 DEF BegunTypeOK, n, one

\* A handler called for nothing else but one of its chat's updates.
LEMMA FirstOfChat ==
  ASSUME PollInv, bot.up, NEW u \in 1..Len(feed), Ordinary(u),
         \/ u = First /\ Len(bot.line[feed[u].chat]) = 0
         \/ /\ Len(bot.line[feed[u].chat]) > 0 /\ u > bot.line[feed[u].chat][1]
  PROVE  \A i \in 1..Len(begun) : begun[i].life = bot.life =>
            /\ begun[i].update # u
            /\ Ordinary(begun[i].update) /\ Ordinary(u) /\ feed[begun[i].update].chat = feed[u].chat
                 => begun[i].update < u
<1> TAKE i \in 1..Len(begun)
<1> HAVE begun[i].life = bot.life
<1> DEFINE v == begun[i].update  line == bot.line[feed[u].chat]
<1>1. /\ v < First
      /\ Ordinary(v) /\ Len(bot.line[feed[v].chat]) > 0 => v <= bot.line[feed[v].chat][1]
    BY DEF PollInv, BegunBefore
<1>2. v \in Nat /\ u \in Nat /\ First \in Nat /\ feed[u].chat \in Chat /\ Len(line) \in Nat
    BY Numbers
<1>3. CASE u = First /\ Len(line) = 0
    BY <1>1, <1>2, <1>3
<1>4. CASE Len(line) > 0 /\ u > line[1]
  <2>1. line[1] \in Nat
    <3>1. line \in Seq(Nat) /\ 1 \in 1..Len(line)
        BY <1>2, <1>4 DEF PollInv, BotTypeOK
    <3> QED
        BY <3>1, ElementOfSeq
  <2>2. Ordinary(v) /\ feed[v].chat = feed[u].chat => v <= line[1]
      BY <1>1, <1>4
  <2> HIDE DEF v, line
  <2>3. Ordinary(v) /\ feed[v].chat = feed[u].chat => v < u
      BY <2>1, <2>2, <1>2, <1>4
  <2>4. v # u
    <3> SUFFICES ASSUME v = u PROVE FALSE
        OBVIOUS
    <3>1. v < u
        BY <2>3
    <3> QED
        BY <3>1, <1>2
  <2> QED
      BY <2>3, <2>4 DEF v
<1> QED
    BY <1>3, <1>4

LEMMA GuardedKeeps == ASSUME PollInv, P!Guarded PROVE PollInv'
<1> DEFINE u == Head(bot.created)  c == feed[u].chat  N == Len(feed)  L == Len(bot.created)
           rest == [bot EXCEPT !.created = Tail(@)]
<1>1. /\ bot.up /\ bot.created # <<>> /\ UNCHANGED <<feed, confirmed, ended>>
      /\ IF feed[u].control
         THEN /\ bot' = [rest EXCEPT !.handling = @ \cup {u}]
              /\ begun' = Append(begun, [update |-> u, life |-> bot.life])
         ELSE /\ bot' = [rest EXCEPT !.line[c] = Append(@, u),
                            !.handling = IF bot.line[c] # <<>> THEN @ ELSE @ \cup {u}]
              /\ IF bot.line[c] # <<>> THEN UNCHANGED begun
                 ELSE begun' = Append(begun, [update |-> u, life |-> bot.life])
    BY DEF P!Guarded, P!Begins
<1>2. /\ N \in Nat /\ L \in Nat /\ First \in Nat /\ First <= N + 1 /\ bot.offset \in Nat
      /\ Len(begun) \in Nat /\ bot.offset <= N + 1
    BY Numbers DEF PollInv, BotTypeOK
<1>3. /\ bot.created \in Seq(Nat) /\ L > 0 /\ u = bot.created[1]
      /\ Tail(bot.created) \in Seq(Nat) /\ Len(Tail(bot.created)) = L - 1
      /\ \A k \in 1..L - 1 : Tail(bot.created)[k] = bot.created[k + 1]
    BY <1>1, TailNat DEF PollInv, BotTypeOK
<1>4. u = First /\ u \in 1..N /\ c \in Chat /\ bot.offset > 0
  <2>1. 1 \in 1..L /\ L < bot.offset /\ bot.offset > 0
    <3>1. bot.offset > 0
        BY <1>1, <1>2 DEF PollInv, Numbered
    <3> QED
        BY <3>1, <1>2, <1>3 DEF PollInv, Numbered
  <2>2. u = First + 1 - 1 /\ First = bot.offset - L
      BY <2>1, <1>3 DEF PollInv, Numbered, First
  <2>3. u = First /\ u \in 1..N
      BY <2>1, <2>2, <1>2, <1>3
  <2> QED
      BY <2>1, <2>3, Numbers
<1>5. /\ bot'.created = Tail(bot.created) /\ bot'.up = bot.up /\ bot'.life = bot.life
      /\ bot'.offset = bot.offset
      /\ bot' = [up |-> bot'.up, life |-> bot'.life, offset |-> bot'.offset,
                 created |-> bot'.created, handling |-> bot'.handling, line |-> bot'.line]
  <2>1. /\ rest.created = Tail(bot.created) /\ rest.up = bot.up /\ rest.life = bot.life
        /\ rest.offset = bot.offset /\ rest.line = bot.line /\ rest.handling = bot.handling
        /\ rest = [up |-> rest.up, life |-> rest.life, offset |-> rest.offset,
                   created |-> rest.created, handling |-> rest.handling, line |-> rest.line]
    <3>1. PICK one : one = rest
        OBVIOUS
    <3>2. one = [bot EXCEPT !.created = Tail(bot.created)]
        BY <3>1
    <3> HIDE DEF rest
    <3>3. /\ one.created = Tail(bot.created) /\ one.up = bot.up /\ one.life = bot.life
          /\ one.offset = bot.offset /\ one.line = bot.line /\ one.handling = bot.handling
          /\ one = [up |-> one.up, life |-> one.life, offset |-> one.offset,
                    created |-> one.created, handling |-> one.handling, line |-> one.line]
        BY <3>2 DEF PollInv, BotTypeOK
    <3> QED
        BY <3>1, <3>3
  <2> HIDE DEF rest
  <2>2. CASE feed[u].control
      BY <1>1, <2>1, <2>2, ZenonT(60)
  <2>3. CASE ~feed[u].control
      BY <1>1, <2>1, <2>3
  <2> QED
      BY <2>2, <2>3
<1>6. bot'.created \in Seq(Nat) /\ Len(bot'.created) = L - 1 /\ First' = First + 1
  <2>1. bot'.created \in Seq(Nat) /\ Len(bot'.created) = L - 1
      BY <1>3, <1>5
  <2>2. First = bot.offset - L
      BY DEF First
  <2>3. First' = bot'.offset - Len(bot'.created)
      BY DEF First
  <2> QED
      BY <2>1, <2>2, <2>3, <1>2, <1>5, SMTT(30)
<1>7. Numbered'
  <2>1. \A k \in 1..L - 1 : bot'.created[k] = First' + k - 1
    <3> TAKE k \in 1..L - 1
    <3>1. k + 1 \in 1..L /\ bot'.created[k] = bot.created[k + 1]
      <4>1. k + 1 \in 1..L
          BY <1>2
      <4>2. Tail(bot.created)[k] = bot.created[k + 1]
          BY <1>3
      <4> QED
          BY <4>1, <4>2, <1>5
    <3>2. bot.created[k + 1] = First + (k + 1) - 1
        BY <3>1 DEF PollInv, Numbered
    <3> QED
        BY <3>1, <3>2, <1>2, <1>6
  <2>2. L < bot.offset
      BY <1>4 DEF PollInv, Numbered
  <2> QED
      BY <2>1, <2>2, <1>2, <1>4, <1>5, <1>6 DEF Numbered
<1>8. \A x : (\E k \in 1..L : bot.created[k] = x) =>
             x = u \/ \E k \in 1..Len(bot'.created) : bot'.created[k] = x
  <2> TAKE x
  <2> HAVE \E k \in 1..L : bot.created[k] = x
  <2>1. PICK k \in 1..L : bot.created[k] = x
      OBVIOUS
  <2>2. CASE k = 1
      BY <2>1, <2>2, <1>3
  <2>3. CASE k # 1
    <3>1. k - 1 \in 1..L - 1 /\ k = (k - 1) + 1
        BY <2>3, <1>2
    <3>2. bot'.created[k - 1] = x
        BY <3>1, <2>1, <1>3, <1>5
    <3> QED
        BY <3>1, <3>2, <1>6
  <2> QED
      BY <2>2, <2>3
<1>9. FeedTypeOK'
    BY <1>1 DEF PollInv, FeedTypeOK
<1> HIDE DEF u, c, N, L
<1>10. \A x : Taken(x) => Taken(x)' /\ x < u /\ x \in 1..N
    BY <1>2, <1>4, <1>6 DEF Taken
<1>11. u \in Nat /\ 1 <= u /\ u < First'
    BY <1>2, <1>4, <1>6
<1>12. \A x : Ordinary(x)' <=> Ordinary(x)
    BY <1>1 DEF Ordinary
<1>13. \A i \in 1..Len(begun) :
          /\ begun[i].life <= bot'.life /\ 1 <= begun[i].update /\ begun[i].update <= N
          /\ bot'.up /\ begun[i].life = bot'.life => begun[i].update < u
  <2> TAKE i \in 1..Len(begun)
  <2>1. /\ begun[i].life <= bot.life /\ 1 <= begun[i].update /\ begun[i].update <= N
        /\ bot.up /\ begun[i].life = bot.life => begun[i].update < First
      BY DEF PollInv, BegunBefore, N
  <2> QED
      BY <2>1, <1>4, <1>5
<1>14. CASE feed[u].control
  <2>1. bot'.line = bot.line /\ bot'.handling = bot.handling \cup {u}
    <3>1. bot' = [rest EXCEPT !.handling = @ \cup {u}]
        BY <1>1, <1>14 DEF u
    <3>2. /\ rest.line = bot.line /\ rest.handling = bot.handling
          /\ rest = [up |-> rest.up, life |-> rest.life, offset |-> rest.offset,
                     created |-> rest.created, handling |-> rest.handling, line |-> rest.line]
      <4>1. PICK one : one = rest
          OBVIOUS
      <4>2. one = [bot EXCEPT !.created = Tail(bot.created)]
          BY <4>1
      <4> HIDE DEF rest
      <4>3. /\ one.line = bot.line /\ one.handling = bot.handling
            /\ one = [up |-> one.up, life |-> one.life, offset |-> one.offset,
                      created |-> one.created, handling |-> one.handling, line |-> one.line]
          BY <4>2 DEF PollInv, BotTypeOK
      <4> QED
          BY <4>1, <4>3
    <3> HIDE DEF rest
    <3> QED
        BY <3>1, <3>2
  <2>2. begun' = Append(begun, [update |-> u, life |-> bot.life])
      BY <1>1, <1>14 DEF u
  <2>3. BotTypeOK'
      BY <1>1, <1>5, <1>6, <2>1 DEF PollInv, BotTypeOK
  <2>4. Lined'
    <3> SUFFICES ASSUME NEW chat \in Chat, NEW i \in 1..Len(bot.line[chat])
                 PROVE  LET x == bot.line[chat][i] IN
                        /\ Taken(x)' /\ Ordinary(x)' /\ feed'[x].chat = chat
                        /\ \A j \in 1..Len(bot.line[chat]) : i < j => x < bot.line[chat][j]
        BY <2>1 DEF Lined
    <3>1. LET x == bot.line[chat][i] IN
          /\ Taken(x) /\ Ordinary(x) /\ feed[x].chat = chat
          /\ \A j \in 1..Len(bot.line[chat]) : i < j => x < bot.line[chat][j]
        BY DEF PollInv, Lined
    <3> QED
        BY <3>1, <1>1, <1>10, <1>12, <2>1
  <2>5. Holding'
    <3> SUFFICES ASSUME NEW x \in bot'.handling
                 PROVE  /\ Taken(x)'
                        /\ Ordinary(x)' => /\ Len(bot.line[feed[x].chat]) > 0
                                           /\ x = bot.line[feed[x].chat][1]
        BY <1>1, <2>1 DEF Holding
    <3>1. CASE x = u
        BY <3>1, <1>1, <1>11, <1>12, <1>14 DEF Ordinary, Taken
    <3>2. CASE x \in bot.handling
        BY <3>2, <1>10, <1>12 DEF PollInv, Holding
    <3> QED
        BY <3>1, <3>2, <2>1
  <2>6. \A i \in 1..Len(begun) : begun[i].life = bot.life =>
            /\ begun[i].update # u
            /\ Ordinary(begun[i].update) /\ Ordinary(u) /\ feed[begun[i].update].chat = feed[u].chat
                 => begun[i].update < u
    <3>1. \A i \in 1..Len(begun) : begun[i].update \in Nat
        BY Numbers
    <3> QED
        BY <3>1, <1>1, <1>4, <1>5, <1>13
  <2>7. /\ BegunTypeOK' /\ InOrder' /\ Len(begun') = Len(begun) + 1
        /\ begun'[Len(begun) + 1] = [update |-> u, life |-> bot.life]
        /\ \A i \in 1..Len(begun) : begun'[i] = begun[i]
      BY <1>1, <1>4, <2>2, <2>6, BeginsInOrder DEF N
  <2>8. BegunBefore'
    <3> SUFFICES ASSUME NEW i \in 1..Len(begun) + 1
                 PROVE  LET x == begun'[i].update IN
                        /\ begun'[i].life <= bot'.life /\ 1 <= x /\ x <= N
                        /\ bot'.up /\ begun'[i].life = bot'.life =>
                             /\ x < First'
                             /\ Ordinary(x) /\ Len(bot.line[feed[x].chat]) > 0
                                  => x <= bot.line[feed[x].chat][1]
        BY <1>1, <1>12, <2>1, <2>7 DEF BegunBefore, N
    <3>1. CASE i \in 1..Len(begun)
      <4>1. begun'[i] = begun[i] /\ begun[i].update \in Nat
          BY <3>1, <2>7, Numbers
      <4>2. begun[i].update < u => begun[i].update < First'
          BY <4>1, <1>2, <1>4, <1>6
      <4> QED
          BY <3>1, <4>1, <4>2, <1>5, <1>13 DEF PollInv, BegunBefore
    <3>2. CASE i = Len(begun) + 1
      <4>1. begun'[i].update = u /\ begun'[i].life = bot.life /\ bot.life \in Nat
          BY <3>2, <2>7 DEF PollInv, BotTypeOK
      <4>2. ~Ordinary(u)
          BY <1>14 DEF Ordinary
      <4> QED
          BY <4>1, <4>2, <1>2, <1>4, <1>5, <1>6, SMTT(30)
    <3> QED
        BY <3>1, <3>2, <1>2
  <2>9. \A x : Task(x) => Task(x)'
      BY <1>8, <2>1 DEF Task, L
  <2>10. Accounted'
      BY <2>9, <1>1, <1>4, <1>5 DEF PollInv, Accounted
  <2> QED
      BY <1>7, <1>9, <2>3, <2>4, <2>5, <2>7, <2>8, <2>10 DEF PollInv
<1>15. CASE ~feed[u].control
  <2>1. PICK w \in 1..N, d \in Chat : w = u /\ d = c /\ d = feed[w].chat /\ w = First /\ ~feed[w].control
      BY <1>4, <1>15 DEF c
  <2> DEFINE m == Len(bot.line[d])
  <2>2. bot.line[d] \in Seq(Nat) /\ m \in Nat /\ w \in Nat /\ (bot.line[d] = <<>> <=> m = 0)
      BY <2>1, <1>2, Numbers, EmptySeq DEF PollInv, BotTypeOK
  <2>3. /\ bot'.line = [bot.line EXCEPT ![d] = Append(bot.line[d], w)]
        /\ bot'.handling = IF m # 0 THEN bot.handling ELSE bot.handling \cup {w}
    <3>1. bot' = [rest EXCEPT !.line[d] = Append(@, w),
                              !.handling = IF bot.line[d] # <<>> THEN @ ELSE @ \cup {w}]
        BY <1>1, <1>15, <2>1 DEF u, c
    <3>2. /\ rest.line = bot.line /\ rest.handling = bot.handling
          /\ rest = [up |-> rest.up, life |-> rest.life, offset |-> rest.offset,
                     created |-> rest.created, handling |-> rest.handling, line |-> rest.line]
      <4>1. PICK one : one = rest
          OBVIOUS
      <4>2. one = [bot EXCEPT !.created = Tail(bot.created)]
          BY <4>1
      <4> HIDE DEF rest
      <4>3. /\ one.line = bot.line /\ one.handling = bot.handling
            /\ one = [up |-> one.up, life |-> one.life, offset |-> one.offset,
                      created |-> one.created, handling |-> one.handling, line |-> one.line]
          BY <4>2, ZenonT(60) DEF PollInv, BotTypeOK
      <4> QED
          BY <4>1, <4>3
    <3> HIDE DEF rest, m
    <3>3. /\ bot'.line = [bot.line EXCEPT ![d] = Append(bot.line[d], w)]
          /\ bot'.handling = IF bot.line[d] # <<>> THEN bot.handling ELSE bot.handling \cup {w}
        BY <3>1, <3>2
    <3> QED
        BY <3>3, <2>2
  <2>4. begun' = IF m # 0 THEN begun ELSE Append(begun, [update |-> w, life |-> bot.life])
      BY <1>1, <1>15, <2>1, <2>2 DEF u, c
  <2>5. /\ bot'.line \in [Chat -> Seq(Nat)]
        /\ Len(bot'.line[d]) = m + 1 /\ bot'.line[d][m + 1] = w
        /\ \A i \in 1..m : bot'.line[d][i] = bot.line[d][i]
        /\ \A e \in Chat : e # d => bot'.line[e] = bot.line[e]
    <3>1. /\ Append(bot.line[d], w) \in Seq(Nat) /\ Len(Append(bot.line[d], w)) = m + 1
          /\ Append(bot.line[d], w)[m + 1] = w
          /\ \A i \in 1..m : Append(bot.line[d], w)[i] = bot.line[d][i]
        BY <2>2, AppendNat
    <3>2. bot.line \in [Chat -> Seq(Nat)]
        BY DEF PollInv, BotTypeOK
    <3> HIDE DEF m
    <3> QED
        BY <3>1, <3>2, <2>1, <2>3
  <2> HIDE DEF m
  <2>6. BotTypeOK'
      BY <1>1, <1>5, <1>6, <2>5 DEF PollInv, BotTypeOK
  <2>7. \A e \in Chat : \A i \in 1..Len(bot.line[e]) :
           /\ Taken(bot.line[e][i]) /\ Ordinary(bot.line[e][i]) /\ feed[bot.line[e][i]].chat = e
           /\ \A j \in 1..Len(bot.line[e]) : i < j => bot.line[e][i] < bot.line[e][j]
      BY DEF PollInv, Lined
  <2>8. /\ Taken(w)' /\ Ordinary(w) /\ Ordinary(w)'
      BY <1>1, <1>11, <2>1 DEF Taken, Ordinary
  <2>9. Lined'
    <3> SUFFICES ASSUME NEW e \in Chat, NEW i \in 1..Len(bot'.line[e]), NEW x, x = bot'.line[e][i]
                 PROVE  /\ Taken(x)' /\ Ordinary(x)' /\ feed'[x].chat = e
                        /\ \A j \in 1..Len(bot'.line[e]) : i < j => x < bot'.line[e][j]
        BY DEF Lined
    <3>1. CASE e # d
      <4>1. bot'.line[e] = bot.line[e]
          BY <2>5, <3>1
      <4>2. /\ Taken(x) /\ Ordinary(x) /\ feed[x].chat = e
            /\ \A j \in 1..Len(bot.line[e]) : i < j => x < bot.line[e][j]
          BY <2>7, <4>1
      <4> QED
          BY <4>1, <4>2, <1>1, <1>10, <1>12
    <3>2. CASE e = d /\ i \in 1..m
      <4>1. x = bot.line[d][i] /\ i \in 1..Len(bot.line[d])
          BY <2>5, <3>2 DEF m
      <4>2. /\ Taken(x) /\ Ordinary(x) /\ feed[x].chat = d
            /\ \A j \in 1..m : i < j => x < bot.line[d][j]
          BY <2>7, <4>1 DEF m
      <4>3. \A j \in 1..m + 1 : i < j => x < bot'.line[d][j]
        <5> TAKE j \in 1..m + 1
        <5>1. CASE j \in 1..m
            BY <5>1, <4>2, <2>5
        <5>2. CASE j = m + 1
          <6>1. x < u
              BY <4>2, <1>10
          <6> QED
              BY <6>1, <5>2, <2>5, <2>1
        <5>3. j \in 1..m \/ j = m + 1
            BY <2>2
        <5> QED
            BY <5>1, <5>2, <5>3
      <4> QED
          BY <4>2, <4>3, <3>2, <2>5, <1>1, <1>10, <1>12
    <3>3. CASE e = d /\ i = m + 1
      <4>1. x = w /\ \A j \in 1..m + 1 : ~(i < j)
          BY <2>2, <2>5, <3>3
      <4> QED
          BY <4>1, <3>3, <1>1, <2>1, <2>5, <2>8
    <3>4. e # d \/ (e = d /\ i \in 1..m) \/ (e = d /\ i = m + 1)
      <4>1. e = d => i \in 1..m + 1
          BY <2>5
      <4> QED
          BY <4>1, <2>2
    <3> QED
        BY <3>1, <3>2, <3>3, <3>4
  <2>10. Holding'
    <3> SUFFICES ASSUME NEW x \in bot'.handling
                 PROVE  /\ Taken(x)'
                        /\ Ordinary(x)' => /\ Len(bot'.line[feed[x].chat]) > 0
                                           /\ x = bot'.line[feed[x].chat][1]
        BY <1>1 DEF Holding
    <3>1. CASE x \in bot.handling
      <4>1. /\ Taken(x)
            /\ Ordinary(x) => /\ Len(bot.line[feed[x].chat]) > 0
                              /\ x = bot.line[feed[x].chat][1]
          BY <3>1 DEF PollInv, Holding
      <4>2. x \in 1..N /\ feed[x].chat \in Chat /\ Taken(x)' /\ (Ordinary(x)' <=> Ordinary(x))
          BY <4>1, <1>10, <1>12, Numbers DEF N
      <4>3. CASE feed[x].chat # d
          BY <4>1, <4>2, <4>3, <2>5
      <4>4. CASE feed[x].chat = d
        <5>1. Ordinary(x) => m > 0 /\ x = bot.line[d][1]
            BY <4>1, <4>4 DEF m
        <5>2. m > 0 => 1 \in 1..m /\ m + 1 > 0
            BY <2>2
        <5> QED
            BY <5>1, <5>2, <4>2, <4>4, <2>5
      <4> QED
          BY <4>3, <4>4
    <3>2. CASE m = 0 /\ x = w
        BY <3>2, <2>1, <2>2, <2>5, <2>8
    <3> QED
        BY <3>1, <3>2, <2>3
  <2>11. ASSUME m # 0 PROVE BegunTypeOK' /\ InOrder' /\ BegunBefore'
    <3>1. BegunTypeOK' /\ InOrder'
        BY <1>1, <1>12, <2>4, <2>11, SMTT(30), ZenonT(60) DEF PollInv, BegunTypeOK, InOrder
    <3>2. BegunBefore'
      <4> SUFFICES ASSUME NEW i \in 1..Len(begun), NEW x, x = begun[i].update
                   PROVE  /\ begun[i].life <= bot'.life /\ 1 <= x /\ x <= N
                          /\ bot'.up /\ begun[i].life = bot'.life =>
                               /\ x < First'
                               /\ Ordinary(x) /\ Len(bot'.line[feed[x].chat]) > 0
                                    => x <= bot'.line[feed[x].chat][1]
          BY <1>1, <1>12, <2>4, <2>11 DEF BegunBefore, N
      <4>1. /\ begun[i].life <= bot'.life /\ 1 <= x /\ x <= N /\ x \in Nat
            /\ bot'.up /\ begun[i].life = bot'.life => x < u
          BY <1>13, Numbers
      <4>2. bot'.up /\ begun[i].life = bot'.life /\ Ordinary(x)
                 /\ Len(bot.line[feed[x].chat]) > 0 => x <= bot.line[feed[x].chat][1]
          BY <1>5 DEF PollInv, BegunBefore
      <4>3. x \in 1..N /\ feed[x].chat \in Chat
          BY <4>1, <1>2, Numbers DEF N
      <4>4. x < u => x < First'
          BY <4>1, <1>2, <1>4, <1>6
      <4>5. CASE feed[x].chat # d
          BY <4>1, <4>2, <4>3, <4>4, <4>5, <2>5
      <4>6. CASE feed[x].chat = d
        <5>1. m > 0 /\ 1 \in 1..m
            BY <2>2, <2>11
        <5> QED
            BY <5>1, <4>1, <4>2, <4>4, <4>6, <2>5 DEF m
      <4> QED
          BY <4>5, <4>6
    <3> QED
        BY <3>1, <3>2
  <2>12. ASSUME m = 0 PROVE BegunTypeOK' /\ InOrder' /\ BegunBefore'
    <3>1. begun' = Append(begun, [update |-> w, life |-> bot.life])
        BY <2>4, <2>12
    <3>2. \A i \in 1..Len(begun) : begun[i].life = bot.life =>
            /\ begun[i].update # w
            /\ Ordinary(begun[i].update) /\ Ordinary(w) /\ feed[begun[i].update].chat = feed[w].chat
                 => begun[i].update < w
        BY <1>1, <2>1, <2>8, <2>12, FirstOfChat DEF N, m
    <3>3. /\ BegunTypeOK' /\ InOrder' /\ Len(begun') = Len(begun) + 1
          /\ begun'[Len(begun) + 1] = [update |-> w, life |-> bot.life]
          /\ \A i \in 1..Len(begun) : begun'[i] = begun[i]
        BY <1>1, <2>1, <3>1, <3>2, BeginsInOrder DEF N
    <3>4. BegunBefore'
      <4> SUFFICES ASSUME NEW i \in 1..Len(begun) + 1, NEW x, x = begun'[i].update
                   PROVE  /\ begun'[i].life <= bot'.life /\ 1 <= x /\ x <= N
                          /\ bot'.up /\ begun'[i].life = bot'.life =>
                               /\ x < First'
                               /\ Ordinary(x) /\ Len(bot'.line[feed[x].chat]) > 0
                                    => x <= bot'.line[feed[x].chat][1]
          BY <1>1, <1>12, <3>3 DEF BegunBefore, N
      <4>1. CASE i \in 1..Len(begun)
        <5>1. /\ begun'[i] = begun[i] /\ x = begun[i].update /\ x \in Nat
            BY <4>1, <3>3, Numbers
        <5>2. /\ begun[i].life <= bot'.life /\ 1 <= x /\ x <= N
              /\ bot'.up /\ begun[i].life = bot'.life => x < u
            BY <4>1, <5>1, <1>13
        <5>3. bot'.up /\ begun[i].life = bot'.life /\ Ordinary(x)
                   /\ Len(bot.line[feed[x].chat]) > 0 => x <= bot.line[feed[x].chat][1]
            BY <4>1, <5>1, <1>5 DEF PollInv, BegunBefore
        <5>4. x \in 1..N /\ feed[x].chat \in Chat
            BY <5>1, <5>2, <1>2, Numbers DEF N
        <5>5. x < u => x < First' /\ x <= w
            BY <5>1, <1>2, <1>4, <1>6, <2>1
        <5>6. CASE feed[x].chat # d
            BY <5>1, <5>2, <5>3, <5>4, <5>5, <5>6, <2>5
        <5>7. CASE feed[x].chat = d
          <6>1. bot'.line[d][1] = w
              BY <2>5, <2>12
          <6> QED
              BY <6>1, <5>1, <5>2, <5>5, <5>7
        <5> QED
            BY <5>6, <5>7
      <4>2. CASE i = Len(begun) + 1
        <5>1. x = w /\ begun'[i].life = bot.life /\ bot.life \in Nat
            BY <4>2, <3>3 DEF PollInv, BotTypeOK
        <5>2. bot'.line[feed[x].chat][1] = w
            BY <5>1, <2>1, <2>5, <2>12
        <5>3. w <= w /\ 1 <= w /\ w <= N /\ w < First' /\ bot.life <= bot.life
            BY <5>1, <2>1, <2>2, <1>2, <1>11
        <5> QED
            BY <5>1, <5>2, <5>3, <1>5
      <4>3. i \in 1..Len(begun) \/ i = Len(begun) + 1
          BY <1>2
      <4> QED
          BY <4>1, <4>2, <4>3
    <3> QED
        BY <3>3, <3>4
  <2>13. \A x : Task(x) => Task(x)'
    <3> TAKE x
    <3>1. (\E k \in 1..L : bot.created[k] = x) => Task(x)'
      <4>1. Task(w)'
        <5>1. m + 1 \in 1..Len(bot'.line[d])
            BY <2>2, <2>5
        <5> QED
            BY <5>1, <2>5 DEF Task
      <4> QED
          BY <4>1, <1>8, <2>1 DEF Task
    <3>2. x \in bot.handling => Task(x)'
        BY <2>3 DEF Task
    <3>3. ASSUME NEW e \in Chat, NEW k \in 1..Len(bot.line[e]), bot.line[e][k] = x PROVE Task(x)'
      <4>1. CASE e # d
          BY <3>3, <4>1, <2>5 DEF Task
      <4>2. CASE e = d
        <5>1. k \in 1..m /\ k \in 1..m + 1
            BY <3>3, <4>2, <2>2 DEF m
        <5>2. bot'.line[d][k] = x /\ k \in 1..Len(bot'.line[d])
            BY <5>1, <3>3, <4>2, <2>5
        <5> QED
            BY <5>2 DEF Task
      <4> QED
          BY <4>1, <4>2
    <3> QED
        BY <3>1, <3>2, <3>3 DEF Task, L
  <2>14. Accounted'
      BY <2>13, <1>1, <1>4, <1>5 DEF PollInv, Accounted
  <2> QED
      BY <1>7, <1>9, <2>2, <2>6, <2>9, <2>10, <2>11, <2>12, <2>14 DEF PollInv
<1> QED
    BY <1>14, <1>15


LEMMA HandledKeeps == ASSUME PollInv, NEW w \in DOMAIN feed, P!Handled(w) PROVE PollInv'
<1> DEFINE c == feed[w].chat  N == Len(feed)  L == Len(bot.created)
           after == Tail(bot.line[c])  others == bot.handling \ {w}
<1>1. /\ bot.up /\ w \in bot.handling /\ ended' = ended \cup {w} /\ UNCHANGED <<feed, confirmed>>
      /\ IF feed[w].control
         THEN bot' = [bot EXCEPT !.handling = others] /\ UNCHANGED begun
         ELSE /\ bot' = [bot EXCEPT
                   !.line[c] = after,
                   !.handling = IF after = <<>> THEN others ELSE others \cup {Head(after)}]
              /\ IF after = <<>> THEN UNCHANGED begun
                 ELSE begun' = Append(begun, [update |-> Head(after), life |-> bot.life])
    BY DEF P!Handled, P!Begins
<1>2. /\ N \in Nat /\ L \in Nat /\ First \in Nat /\ First <= N + 1 /\ Len(begun) \in Nat
    BY Numbers
<1>3. Taken(w) /\ w \in 1..N /\ c \in Chat /\ w \in Nat
  <2>1. Taken(w)
      BY <1>1 DEF PollInv, Holding
  <2>2. w \in 1..N /\ w \in Nat
      BY <2>1, <1>2 DEF Taken
  <2> QED
      BY <2>1, <2>2, Numbers
<1>4. /\ bot'.up = bot.up /\ bot'.life = bot.life /\ bot'.offset = bot.offset
      /\ bot'.created = bot.created
      /\ bot' = [up |-> bot'.up, life |-> bot'.life, offset |-> bot'.offset,
                 created |-> bot'.created, handling |-> bot'.handling, line |-> bot'.line]
      /\ feed[w].control => bot'.line = bot.line /\ bot'.handling = others
      /\ ~feed[w].control => /\ bot'.line = [bot.line EXCEPT ![c] = after]
                             /\ bot'.handling = IF after = <<>> THEN others
                                                ELSE others \cup {Head(after)}
  <2> HIDE DEF c, after, others
  <2>1. CASE feed[w].control
      BY <1>1, <2>1 DEF PollInv, BotTypeOK
  <2>2. CASE ~feed[w].control
      BY <1>1, <2>2 DEF PollInv, BotTypeOK
  <2> QED
      BY <2>1, <2>2
<1>5. First' = First /\ Numbered' /\ FeedTypeOK'
    BY <1>1, <1>4 DEF PollInv, Numbered, First, FeedTypeOK
<1>6. \A x : (Ordinary(x)' <=> Ordinary(x)) /\ (Taken(x)' <=> Taken(x)) /\ (Taken(x) => x \in 1..N)
    BY <1>1, <1>2, <1>5 DEF Ordinary, Taken
<1>7. ASSUME \A x : Task(x) => x = w \/ Task(x)' PROVE Accounted'
    BY <1>1, <1>4, <1>7 DEF PollInv, Accounted
<1>8. CASE feed[w].control
  <2>1. UNCHANGED begun /\ bot'.handling \subseteq bot.handling /\ bot'.line = bot.line
      BY <1>1, <1>4, <1>8
  <2>2. Lined' /\ Holding' /\ BegunBefore' /\ InOrder'
      BY <1>1, <1>2, <1>4, <1>5, <2>1, TakenStays DEF N
  <2>3. \A x : Task(x) => x = w \/ Task(x)'
      BY <1>4, <1>8 DEF Task
  <2>4. BotTypeOK' /\ BegunTypeOK'
      BY <1>1, <1>4, <2>1 DEF PollInv, BotTypeOK, BegunTypeOK
  <2> QED
      BY <1>5, <1>7, <2>2, <2>3, <2>4 DEF PollInv
<1>9. CASE ~feed[w].control
  <2>1. PICK d \in Chat : d = c
      BY <1>3
  <2> DEFINE line == bot.line[d]  m == Len(bot.line[d])
  <2>2. /\ line \in Seq(Nat) /\ m \in Nat /\ m > 0 /\ line[1] = w /\ Ordinary(w) /\ line # <<>>
        /\ feed[w].chat = d
    <3>1. Ordinary(w)
        BY <1>9 DEF Ordinary
    <3>2. m > 0 /\ line[1] = w
        BY <1>1, <3>1, <2>1 DEF PollInv, Holding
    <3>3. line \in Seq(Nat) /\ m \in Nat
        BY Numbers DEF PollInv, BotTypeOK
    <3> QED
        BY <3>1, <3>2, <3>3, <2>1, EmptySeq
  <2>3. /\ after = Tail(line) /\ after \in Seq(Nat) /\ Len(after) = m - 1
        /\ \A i \in 1..m - 1 : after[i] = line[i + 1]
        /\ after = <<>> <=> m = 1
    <3>1. /\ Tail(line) \in Seq(Nat) /\ Len(Tail(line)) = m - 1
          /\ \A i \in 1..m - 1 : Tail(line)[i] = line[i + 1]
        BY <2>2, TailNat
    <3>2. Tail(line) = <<>> <=> Len(Tail(line)) = 0
        BY <3>1, EmptySeq
    <3>3. after = Tail(line)
        BY <2>1
    <3> QED
        BY <3>1, <3>2, <3>3, <2>2
  <2>4. PICK h : h = Head(after)
      OBVIOUS
  <2> HIDE DEF after, m, line, others
  <2>5. /\ m > 1 => h = line[2] /\ h = after[1] /\ 2 \in 1..m
    <3> SUFFICES ASSUME m > 1 PROVE h = line[2] /\ h = after[1] /\ 2 \in 1..m
        OBVIOUS
    <3>1. after # <<>> /\ 1 \in 1..m - 1 /\ 2 \in 1..m /\ 1 + 1 = 2
        BY <2>2, <2>3
    <3>2. Head(after) = after[1]
        BY <3>1, <2>3, TailNat
    <3> QED
        BY <3>1, <3>2, <2>3, <2>4
  <2>6. /\ bot'.line \in [Chat -> Seq(Nat)] /\ bot'.line[d] = after
        /\ \A e \in Chat : e # d => bot'.line[e] = bot.line[e]
    <3>1. bot'.line = [bot.line EXCEPT ![d] = after] /\ bot.line \in [Chat -> Seq(Nat)]
        BY <1>4, <1>9, <2>1 DEF PollInv, BotTypeOK
    <3> QED
        BY <3>1, <2>3
  <2>7. bot'.handling = IF m = 1 THEN others ELSE others \cup {h}
      BY <1>4, <1>9, <2>3, <2>4
  <2>8. begun' = IF m = 1 THEN begun ELSE Append(begun, [update |-> h, life |-> bot.life])
      BY <1>1, <1>9, <2>3, <2>4
  <2>9. BotTypeOK'
      BY <1>1, <1>4, <2>6 DEF PollInv, BotTypeOK
  <2>10. \A e \in Chat : \A i \in 1..Len(bot.line[e]) :
           /\ Taken(bot.line[e][i]) /\ Ordinary(bot.line[e][i]) /\ feed[bot.line[e][i]].chat = e
           /\ \A j \in 1..Len(bot.line[e]) : i < j => bot.line[e][i] < bot.line[e][j]
      BY DEF PollInv, Lined
  <2>11. \A i \in 1..m : /\ Taken(line[i]) /\ Ordinary(line[i]) /\ feed[line[i]].chat = d
                         /\ \A j \in 1..m : i < j => line[i] < line[j]
      BY <2>10 DEF line, m
  <2>12. m > 1 => /\ Taken(h) /\ Ordinary(h) /\ feed[h].chat = d /\ w < h /\ h \in 1..N /\ h \in Nat
    <3> SUFFICES ASSUME m > 1
                 PROVE  /\ Taken(h) /\ Ordinary(h) /\ feed[h].chat = d /\ w < h
                        /\ h \in 1..N /\ h \in Nat
        OBVIOUS
    <3>1. 1 \in 1..m /\ 2 \in 1..m /\ 1 < 2
        BY <2>2
    <3>2. Taken(h) /\ Ordinary(h) /\ feed[h].chat = d /\ w < h
        BY <3>1, <2>2, <2>5, <2>11
    <3> QED
        BY <3>2, <1>6 DEF Taken
  <2>13. Lined'
    <3> SUFFICES ASSUME NEW e \in Chat, NEW i \in 1..Len(bot'.line[e]), NEW x, x = bot'.line[e][i]
                 PROVE  /\ Taken(x)' /\ Ordinary(x)' /\ feed'[x].chat = e
                        /\ \A j \in 1..Len(bot'.line[e]) : i < j => x < bot'.line[e][j]
        BY DEF Lined
    <3>1. CASE e # d
      <4>1. bot'.line[e] = bot.line[e]
          BY <2>6, <3>1
      <4> QED
          BY <4>1, <1>1, <1>6, <2>10
    <3>2. CASE e = d
      <4>1. i \in 1..m - 1 /\ i + 1 \in 1..m /\ x = line[i + 1] /\ Len(bot'.line[d]) = m - 1
          BY <3>2, <2>2, <2>3, <2>6
      <4>2. \A j \in 1..m - 1 : i < j => x < after[j]
        <5> TAKE j \in 1..m - 1
        <5> HAVE i < j
        <5>1. j + 1 \in 1..m /\ i + 1 < j + 1 /\ after[j] = line[j + 1]
            BY <4>1, <2>2, <2>3
        <5> QED
            BY <5>1, <4>1, <2>11
      <4> QED
          BY <3>2, <4>1, <4>2, <1>1, <1>6, <2>6, <2>11
    <3> QED
        BY <3>1, <3>2
  <2>14. Holding'
    <3> SUFFICES ASSUME NEW x \in bot'.handling
                 PROVE  /\ Taken(x)'
                        /\ Ordinary(x)' => /\ Len(bot'.line[feed[x].chat]) > 0
                                           /\ x = bot'.line[feed[x].chat][1]
        BY <1>1 DEF Holding
    <3>1. CASE x \in others
      <4>1. /\ Taken(x) /\ x # w /\ x \in 1..N /\ feed[x].chat \in Chat
            /\ Ordinary(x) => /\ Len(bot.line[feed[x].chat]) > 0
                              /\ x = bot.line[feed[x].chat][1]
          BY <3>1, <1>6, Numbers DEF PollInv, Holding, others, N
      <4>2. Ordinary(x) => feed[x].chat # d
          BY <4>1, <2>2 DEF line
      <4> QED
          BY <4>1, <4>2, <1>6, <2>6
    <3>2. CASE m > 1 /\ x = h
      <4>1. Len(bot'.line[d]) > 0 /\ bot'.line[d][1] = h
          BY <3>2, <2>2, <2>3, <2>5, <2>6
      <4> QED
          BY <3>2, <4>1, <1>6, <2>12
    <3>3. x \in others \/ (m > 1 /\ x = h)
        BY <2>2, <2>7
    <3> QED
        BY <3>1, <3>2, <3>3
  <2>15. ASSUME NEW i \in 1..Len(begun), NEW x, x = begun[i].update
         PROVE  /\ begun[i].life <= bot'.life /\ 1 <= x /\ x <= N
                /\ bot'.up /\ begun[i].life = bot'.life =>
                     /\ x < First'
                     /\ Ordinary(x) /\ Len(bot'.line[feed[x].chat]) > 0
                          => x <= bot'.line[feed[x].chat][1]
    <3>1. /\ begun[i].life <= bot.life /\ 1 <= x /\ x <= N
          /\ bot.up /\ begun[i].life = bot.life =>
               /\ x < First
               /\ Ordinary(x) /\ Len(bot.line[feed[x].chat]) > 0 => x <= bot.line[feed[x].chat][1]
        BY <2>15 DEF PollInv, BegunBefore, N
    <3>2. x \in Nat /\ x \in 1..N /\ feed[x].chat \in Chat
        BY <3>1, <2>15, <1>2, Numbers DEF N
    <3>3. CASE feed[x].chat # d
        BY <3>1, <3>2, <3>3, <1>4, <1>5, <2>6
    <3>4. CASE feed[x].chat = d /\ m = 1
      <4>1. Len(bot'.line[d]) = 0
          BY <3>4, <2>3, <2>6
      <4> QED
          BY <3>1, <3>4, <4>1, <1>4, <1>5
    <3>5. CASE feed[x].chat = d /\ m > 1
      <4>1. bot'.line[d][1] = h
          BY <3>5, <2>5, <2>6
      <4>2. x <= w => x <= h
          BY <3>2, <3>5, <1>3, <2>12
      <4>3. bot.up /\ begun[i].life = bot.life /\ Ordinary(x) => x <= w
          BY <3>1, <3>5, <2>2 DEF line, m
      <4> QED
          BY <3>1, <3>5, <4>1, <4>2, <4>3, <1>4, <1>5
    <3>6. m = 1 \/ m > 1
        BY <2>2
    <3> QED
        BY <3>3, <3>4, <3>5, <3>6
  <2>16. ASSUME m = 1 PROVE BegunTypeOK' /\ InOrder' /\ BegunBefore'
    <3>1. begun' = begun
        BY <2>8, <2>16
    <3>2. BegunTypeOK' /\ InOrder'
        BY <3>1, <1>1, <1>6 DEF PollInv, BegunTypeOK, InOrder, Ordinary
    <3>3. BegunBefore'
        BY <3>1, <2>15, <1>1, <1>6 DEF BegunBefore, N, Ordinary
    <3> QED
        BY <3>2, <3>3
  <2>17. ASSUME m > 1 PROVE BegunTypeOK' /\ InOrder' /\ BegunBefore'
    <3>1. begun' = Append(begun, [update |-> h, life |-> bot.life])
        BY <2>8, <2>17
    <3>2. \A i \in 1..Len(begun) : begun[i].life = bot.life =>
            /\ begun[i].update # h
            /\ Ordinary(begun[i].update) /\ Ordinary(h) /\ feed[begun[i].update].chat = feed[h].chat
                 => begun[i].update < h
      <4>1. h > w /\ Len(bot.line[feed[h].chat]) > 0 /\ bot.line[feed[h].chat][1] = w
            /\ h \in 1..N /\ Ordinary(h)
          BY <2>2, <2>12, <2>17, <1>3 DEF line, m
      <4> QED
          BY <1>1, <4>1, FirstOfChat DEF N
    <3>3. /\ BegunTypeOK' /\ InOrder' /\ Len(begun') = Len(begun) + 1
          /\ begun'[Len(begun) + 1] = [update |-> h, life |-> bot.life]
          /\ \A i \in 1..Len(begun) : begun'[i] = begun[i]
        BY <1>1, <2>12, <2>17, <3>1, <3>2, BeginsInOrder DEF N
    <3>4. BegunBefore'
      <4> SUFFICES ASSUME NEW i \in 1..Len(begun) + 1, NEW x, x = begun'[i].update
                   PROVE  /\ begun'[i].life <= bot'.life /\ 1 <= x /\ x <= N
                          /\ bot'.up /\ begun'[i].life = bot'.life =>
                               /\ x < First'
                               /\ Ordinary(x) /\ Len(bot'.line[feed[x].chat]) > 0
                                    => x <= bot'.line[feed[x].chat][1]
          BY <1>1, <1>6, <3>3 DEF BegunBefore, N
      <4>1. CASE i \in 1..Len(begun)
        <5>1. begun'[i] = begun[i] /\ x = begun[i].update
            BY <4>1, <3>3
        <5> QED
            BY <4>1, <5>1, <2>15
      <4>2. CASE i = Len(begun) + 1
        <5>1. x = h /\ begun'[i].life = bot.life /\ bot.life \in Nat
            BY <4>2, <3>3 DEF PollInv, BotTypeOK
        <5>2. bot'.line[feed[x].chat][1] = h
            BY <5>1, <2>5, <2>6, <2>12, <2>17
        <5>3. h <= h /\ 1 <= h /\ h <= N /\ h < First' /\ bot.life <= bot.life
            BY <5>1, <1>2, <1>5, <2>12, <2>17 DEF Taken
        <5> QED
            BY <5>1, <5>2, <5>3, <1>4
      <4>3. i \in 1..Len(begun) \/ i = Len(begun) + 1
          BY <1>2
      <4> QED
          BY <4>1, <4>2, <4>3
    <3> QED
        BY <3>3, <3>4
  <2>18. \A x : Task(x) => x = w \/ Task(x)'
    <3> TAKE x
    <3>1. (\E k \in 1..L : bot.created[k] = x) => Task(x)'
        BY <1>4 DEF Task, L
    <3>2. x \in bot.handling => x = w \/ Task(x)'
        BY <2>7 DEF Task, others
    <3>3. ASSUME NEW e \in Chat, NEW k \in 1..Len(bot.line[e]), bot.line[e][k] = x
          PROVE x = w \/ Task(x)'
      <4>1. CASE e # d
          BY <3>3, <4>1, <2>6 DEF Task
      <4>2. CASE e = d /\ k = 1
          BY <3>3, <4>2, <2>2 DEF line
      <4>3. CASE e = d /\ k # 1
        <5>1. k - 1 \in 1..m - 1 /\ k = (k - 1) + 1
            BY <3>3, <4>3, <2>2 DEF m
        <5>2. bot'.line[d][k - 1] = x /\ k - 1 \in 1..Len(bot'.line[d])
            BY <5>1, <3>3, <4>3, <2>3, <2>6 DEF line
        <5> QED
            BY <5>2 DEF Task
      <4> QED
          BY <4>1, <4>2, <4>3
    <3> QED
        BY <3>1, <3>2, <3>3 DEF Task, L
  <2>19. m = 1 \/ m > 1
      BY <2>2
  <2> QED
      BY <1>5, <1>7, <2>9, <2>13, <2>14, <2>16, <2>17, <2>18, <2>19 DEF PollInv
<1> QED
    BY <1>8, <1>9

LEMMA TasksAre == ASSUME PollInv PROVE \A u : Task(u) <=> u \in P!Tasks
<1> TAKE u
<1>1. bot.created \in Seq(Nat) /\ \A chat \in Chat : bot.line[chat] \in Seq(Nat)
    BY DEF PollInv, BotTypeOK
<1>2. \A s \in Seq(Nat) : (\E k \in 1..Len(s) : s[k] = u) <=> u \in ToSet(s)
    BY LenProperties DEF ToSet
<1>3. (\E k \in 1..Len(bot.created) : bot.created[k] = u) <=> u \in ToSet(bot.created)
    BY <1>1, <1>2
<1>4. \A chat \in Chat : (\E k \in 1..Len(bot.line[chat]) : bot.line[chat][k] = u)
                         <=> u \in ToSet(bot.line[chat])
    BY <1>1, <1>2
<1> QED
    BY <1>3, <1>4 DEF Task, P!Tasks, ToSet

LEMMA EndsKeeps == ASSUME PollInv, P!Ends PROVE PollInv'
<1>1. /\ bot.up /\ bot' = [P!Fresh(bot.life) EXCEPT !.up = FALSE] /\ ended' = ended \cup P!Tasks
      /\ UNCHANGED <<feed, confirmed, begun>>
    BY DEF P!Ends
<1>2. /\ bot'.up = FALSE /\ bot'.life = bot.life /\ bot'.offset = 0 /\ bot'.created = <<>>
      /\ bot'.handling = {} /\ bot'.line = [chat \in Chat |-> <<>>]
      /\ bot' = [up |-> bot'.up, life |-> bot'.life, offset |-> bot'.offset,
                 created |-> bot'.created, handling |-> bot'.handling, line |-> bot'.line]
    BY <1>1 DEF P!Fresh, P!NoOffset
<1>3. bot'.line \in [Chat -> Seq(Nat)] /\ \A chat \in Chat : Len(bot'.line[chat]) = 0
    BY <1>2
<1>4. FeedTypeOK' /\ BotTypeOK' /\ BegunTypeOK' /\ InOrder'
  <2>1. FeedTypeOK' /\ BegunTypeOK'
      BY <1>1 DEF PollInv, FeedTypeOK, BegunTypeOK
  <2>2. InOrder'
      BY <1>1 DEF PollInv, InOrder, Ordinary
  <2>3. BotTypeOK'
    <3>1. bot'.life \in Nat /\ bot'.offset \in 0..Len(feed') + 1
        BY <1>1, <1>2, Numbers DEF PollInv, BotTypeOK
    <3>2. bot'.created \in Seq(Nat)
        BY <1>2
    <3> QED
        BY <3>1, <3>2, <1>2, <1>3 DEF BotTypeOK
  <2> QED
      BY <2>1, <2>2, <2>3
<1>5. Numbered' /\ Lined' /\ Holding'
    BY <1>2, <1>3 DEF Numbered, Lined, Holding
<1>6. BegunBefore'
    BY <1>1, <1>2 DEF PollInv, BegunBefore
<1>7. Accounted'
  <2>1. ASSUME NEW u \in 1..confirmed PROVE u \in ended'
    <3>1. CASE bot.offset > 0
      <4>1. u \in 1..bot.offset - 1
          BY <3>1, Numbers DEF PollInv, Accounted
      <4>2. u \in ended \/ Task(u)
          BY <3>1, <4>1 DEF PollInv, Accounted
      <4> QED
          BY <4>2, <1>1, TasksAre
    <3>2. CASE bot.offset = 0
        BY <3>2, <1>1 DEF PollInv, Accounted
    <3>3. bot.offset > 0 \/ bot.offset = 0
        BY Numbers
    <3> QED
        BY <3>1, <3>2, <3>3
  <2> QED
      BY <2>1, <1>1, <1>2 DEF Accounted
<1> QED
    BY <1>4, <1>5, <1>6, <1>7 DEF PollInv

LEMMA StartsKeeps == ASSUME PollInv, P!Starts PROVE PollInv'
<1>1. /\ ~bot.up /\ bot' = P!Fresh(bot.life + 1) /\ UNCHANGED <<feed, confirmed, begun, ended>>
    BY DEF P!Starts
<1>2. /\ bot'.life = bot.life + 1 /\ bot'.offset = 0 /\ bot'.created = <<>>
      /\ bot'.handling = {} /\ bot'.line = [chat \in Chat |-> <<>>]
      /\ bot' = [up |-> bot'.up, life |-> bot'.life, offset |-> bot'.offset,
                 created |-> bot'.created, handling |-> bot'.handling, line |-> bot'.line]
    BY <1>1 DEF P!Fresh, P!NoOffset
<1>3. bot'.line \in [Chat -> Seq(Nat)] /\ \A chat \in Chat : Len(bot'.line[chat]) = 0
    BY <1>2
<1>4. bot.life \in Nat
    BY DEF PollInv, BotTypeOK
<1>5. FeedTypeOK' /\ BotTypeOK' /\ BegunTypeOK' /\ InOrder'
  <2>1. FeedTypeOK' /\ BegunTypeOK'
      BY <1>1 DEF PollInv, FeedTypeOK, BegunTypeOK
  <2>2. InOrder'
      BY <1>1 DEF PollInv, InOrder, Ordinary
  <2>3. BotTypeOK'
    <3>1. bot'.life \in Nat /\ bot'.offset \in 0..Len(feed') + 1
        BY <1>1, <1>2, <1>4, Numbers
    <3>2. bot'.created \in Seq(Nat)
        BY <1>2
    <3> QED
        BY <3>1, <3>2, <1>2, <1>3 DEF BotTypeOK
  <2> QED
      BY <2>1, <2>2, <2>3
<1>6. Numbered' /\ Lined' /\ Holding'
    BY <1>2, <1>3 DEF Numbered, Lined, Holding
<1>7. BegunBefore'
  <2> SUFFICES ASSUME NEW i \in 1..Len(begun)
               PROVE  /\ begun[i].life <= bot'.life /\ begun[i].life # bot'.life
                      /\ 1 <= begun[i].update /\ begun[i].update <= Len(feed)
      BY <1>1 DEF BegunBefore
  <2>1. begun[i].life <= bot.life /\ 1 <= begun[i].update /\ begun[i].update <= Len(feed)
      BY DEF PollInv, BegunBefore
  <2>2. begun[i].life \in Nat
      BY Numbers
  <2> QED
      BY <2>1, <2>2, <1>2, <1>4
<1>8. Accounted'
  <2>1. bot.offset = 0
      BY <1>1, Numbers DEF PollInv, Accounted
  <2> QED
      BY <2>1, <1>1, <1>2 DEF PollInv, Accounted
<1> QED
    BY <1>5, <1>6, <1>7, <1>8 DEF PollInv

LEMMA PollStep == PollInv /\ [P!Next]_poll => PollInv'
<1> SUFFICES ASSUME PollInv, [P!Next]_poll PROVE PollInv'
    OBVIOUS
<1>1. CASE UNCHANGED poll
  <2>1. UNCHANGED <<feed, confirmed, bot, begun, ended>>
      BY <1>1 DEF poll
  <2>2. First' = First
      BY <2>1 DEF First
  <2>3. Lined' /\ Holding' /\ BegunBefore' /\ InOrder'
      BY <2>1, <2>2, Numbers, TakenStays
  <2> QED
      BY <2>1, <2>2, <2>3 DEF PollInv, FeedTypeOK, BotTypeOK, BegunTypeOK, Numbered, Accounted, Task
<1> QED
    BY <1>1, ArriveKeeps, PollOnceKeeps, PollFailsKeeps, GuardedKeeps, HandledKeeps, EndsKeeps,
       StartsKeeps DEF P!Next

LEMMA PollMoves == [ServicesNext]_<<family, services, vars>> => [P!Next]_poll
  BY DEF ServicesNext, Poll, Store, Trace, Serve, Graph, Browse, Remember, Talk, services

\* In the life of a process no update is begun twice, a chat's ordinary updates
\* are begun in the order they were sent and one at a time, and one that Telegram
\* has forgotten has ended or is in the hands of the process that lives
\* (run.py, TelegramPollingBot and _Dispatch).
THEOREM PollsInOrder == ServicesSpec => []PolledInOrder
<1>1. PollInv => PolledInOrder
  <2> SUFFICES ASSUME PollInv PROVE PolledInOrder
      OBVIOUS
  <2>1. DOMAIN begun = 1..Len(begun)
      BY LenProperties DEF PollInv, BegunTypeOK
  <2>2. \A i, j \in DOMAIN begun : i < j /\ begun[i].life = begun[j].life =>
          LET earlier == begun[i].update  later == begun[j].update
          IN  /\ earlier # later
              /\ Ordinary(earlier) /\ Ordinary(later) /\ feed[earlier].chat = feed[later].chat
                    => earlier < later
      BY <2>1 DEF PollInv, InOrder
  <2>3. \A one, other \in bot.handling :
          Ordinary(one) /\ Ordinary(other) /\ feed[one].chat = feed[other].chat => one = other
      BY DEF PollInv, Holding
  <2>4. ASSUME NEW u \in 1..confirmed PROVE u \in ended \cup (IF bot.up THEN P!Tasks ELSE {})
    <3>1. CASE bot.offset > 0
      <4>1. u \in 1..bot.offset - 1
          BY <3>1, Numbers DEF PollInv, Accounted
      <4>2. bot.up /\ (u \in ended \/ Task(u))
          BY <3>1, <4>1 DEF PollInv, Accounted
      <4> QED
          BY <4>2, TasksAre
    <3>2. CASE bot.offset = 0
        BY <3>2 DEF PollInv, Accounted
    <3>3. bot.offset > 0 \/ bot.offset = 0
        BY Numbers
    <3> QED
        BY <3>1, <3>2, <3>3
  <2> QED
      BY <2>2, <2>3, <2>4 DEF PolledInOrder
<1>2. ServicesInit => PollInv
    BY PollStarts DEF ServicesInit
<1>3. PollInv /\ [ServicesNext]_<<family, services, vars>> => PollInv'
    BY PollStep, PollMoves
<1> QED
    BY <1>1, <1>2, <1>3, PTL DEF ServicesSpec

----------------------------------------------------------------------------
(* The telemetry of turns (TurnTraces).                                    *)

Outcomes == {"none", "answer_delivered", "failed"}
Statuses == {"none", "running", "completed", "failed"}
Rows == [status : Statuses, outcome : Outcomes, counts : [Kind -> Nat]]
Hows == {"finished", "failed", "cancelled", "first_token"}
Ends == {"finished", "failed"}
Events == [seq : Nat, type : Hows \cup {"started", "turn_started", "turn_finished", "turn_failed"},
           kind : Kind \cup {"none"}, index : Nat]
Bracket == Kind \X Nat

Recording(recorder) ==
  /\ recorder = [seq |-> recorder.seq, pending |-> recorder.pending, finished |-> recorder.finished,
                 open |-> recorder.open, row |-> recorder.row]
  /\ recorder.seq \in Nat /\ recorder.pending \in Seq(Events)
  /\ recorder.open \subseteq Bracket /\ recorder.row \in Rows
ActiveTypeOK ==
  /\ active = [run \in Run |-> active[run]]
  /\ \A run \in Run : Recording(active[run])
Stored(state) ==
  /\ state = [rows |-> state.rows, events |-> state.events, conn |-> state.conn,
              failures |-> state.failures, lost |-> state.lost]
  /\ state.rows \in [Run -> Rows] /\ state.events \in [Run -> SUBSET Events]
ToldTypeOK ==
  told \in [Run -> [attempts : Nat, ended : Outcomes \cup {"died"}, brackets : Nat,
                    made : SUBSET (Bracket \X Hows)]]

(* An attempt is under way until it has ended, and its row says so.        *)
Attempted(run) ==
  /\ T!Working(run) <=> told[run].attempts > 0 /\ told[run].ended = "none"
  /\ told[run].attempts = 0 => db.events[run] = {} /\ told[run].made = {}
  /\ ~T!Working(run) => active[run].pending = <<>> /\ active[run].open = {}
RowKept(run) ==
  run \notin db.lost =>
     /\ T!Working(run) \/ told[run].ended = "died" => db.rows[run].status = "running"
     /\ told[run].attempts = 1 /\ told[run].ended \notin {"none", "died"} =>
          db.rows[run].outcome = told[run].ended

(* What was written of a turn, or is about to be.                          *)
Log(run) == db.events[run] \cup ToSet(active[run].pending)
Counts(run) == IF T!Working(run) THEN active[run].row.counts ELSE db.rows[run].counts
Traced(run) == told[run].attempts = 1 /\ told[run].ended # "died" /\ run \notin db.lost

(* What is written next has a number of its own.                           *)
Apart(recorder, table) ==
  /\ \A e \in table \cup ToSet(recorder.pending) : e.seq <= recorder.seq
  /\ \A e \in table, f \in ToSet(recorder.pending) : e.seq # f.seq

(* The calls of a kind are numbered from one; each is in the log, and under *)
(* way or left.                                                            *)
Calling == Kind \ {"step"}
Enumerated(log, counts, open, made) ==
  /\ \A e \in log : e.kind \in Calling => e.index \in 1..counts[e.kind]
  /\ \A kind \in Calling : \A k \in 1..counts[kind] :
       /\ \E e \in log : e.kind = kind /\ e.index = k
       /\ <<kind, k>> \in open \/ \E m \in made : m[1] = <<kind, k>>
  /\ \A c \in open : c[1] \in Calling => c[2] \in 1..counts[c[1]]
  /\ \A m \in made : m[1][1] \in Calling => m[1][2] \in 1..counts[m[1][1]]

(* An ending in the log is how the call ended; one under way has none.     *)
Concluded(log, open, made) ==
  /\ \A e \in log : e.kind \in Calling /\ e.type \in Ends =>
       /\ <<<<e.kind, e.index>>, e.type>> \in made
       /\ \A f \in log : f.kind = e.kind /\ f.index = e.index /\ f.type \in Ends => e = f
  /\ \A m \in made : m[1][1] \in Calling /\ m[2] \in Ends =>
       /\ m[1] \notin open
       /\ \E e \in log : <<e.kind, e.index>> = m[1] /\ e.type = m[2]

LogTrue(run) ==
  /\ Enumerated(Log(run), Counts(run), active[run].open, told[run].made)
  /\ Concluded(Log(run), active[run].open, told[run].made)
RunTraced(run) ==
  /\ Attempted(run) /\ RowKept(run)
  /\ Traced(run) => /\ T!Working(run) => Apart(active[run], db.events[run])
                    /\ LogTrue(run)
TraceInv == /\ ActiveTypeOK /\ Stored(db) /\ ToldTypeOK
            /\ \A run \in Run : RunTraced(run)

LEMMA KindsKnown == "none" \notin Kind /\ Calling \subseteq {"model", "tool"} /\ FlushAt \in Nat \ {0}
    BY PartsAssumption DEF PartsAssumption, T!TelemetryAssumption, Calling

(* What a failure leaves: the tables as they were, and the turn among the  *)
(* lost.                                                                   *)
LEMMA FailsLost ==
  ASSUME NEW run \in Run, NEW state, Stored(state), NEW conns, NEW after \in T!Failures(state, run, conns)
  PROVE  /\ Stored(after) /\ after.rows = state.rows /\ after.events = state.events
         /\ after.lost = state.lost \cup {run}
<1>1. CASE after = [state EXCEPT !.lost = @ \cup {run}]
    BY <1>1 DEF Stored
<1>2. CASE \E conn \in conns :
              after = [state EXCEPT !.conn = conn, !.failures = @ + 1, !.lost = @ \cup {run}]
  <2> PICK conn \in conns :
        after = [state EXCEPT !.conn = conn, !.failures = @ + 1, !.lost = @ \cup {run}]
      BY <1>2
  <2> QED
      BY DEF Stored
<1> QED
    BY <1>1, <1>2, Zenon DEF T!Failures

LEMMA RowWritten ==
  ASSUME NEW run \in Run, NEW state, Stored(state), NEW row \in Rows, NEW after \in T!WriteRow(state, run, row)
  PROVE  /\ Stored(after) /\ after.events = state.events
         /\ after.lost = state.lost \/ after.lost = state.lost \cup {run}
         /\ \A other \in Run \ {run} : after.rows[other] = state.rows[other]
         /\ run \notin after.lost => after.rows[run] = row
<1>1. CASE after \in T!Failures(state, run, {"none"})
  <2>1. /\ Stored(after) /\ after.rows = state.rows /\ after.events = state.events
        /\ after.lost = state.lost \cup {run}
      BY <1>1, FailsLost
  <2> QED
      BY <2>1
<1>2. CASE after = [state EXCEPT !.conn = "open", !.rows[run] = row]
    BY <1>2 DEF Stored
<1> QED
    BY <1>1, <1>2, Zenon DEF T!WriteRow

LEMMA EventsRecorded ==
  ASSUME NEW run \in Run, NEW state, Stored(state), NEW batch \in Seq(Events),
         NEW after \in T!RecordEvents(state, run, batch)
  PROVE  /\ Stored(after) /\ after.rows = state.rows
         /\ after.lost = state.lost \/ after.lost = state.lost \cup {run}
         /\ \A other \in Run \ {run} : after.events[other] = state.events[other]
         /\ run \notin after.lost => after.events[run] = T!Inserted(state.events[run], batch)
<1>1. CASE batch = <<>>
  <2>1. after = state /\ DOMAIN batch = {}
      BY <1>1 DEF T!RecordEvents
  <2>2. ToSet(batch) = {}
      BY <2>1 DEF ToSet
  <2>3. T!Inserted(state.events[run], batch) = state.events[run]
      BY <2>2 DEF T!Inserted, ToSet
  <2> QED
      BY <2>1, <2>3
<1>2. CASE batch # <<>> /\ after \in T!Failures(state, run, {"none", "aborted"})
  <2>1. /\ Stored(after) /\ after.rows = state.rows /\ after.events = state.events
        /\ after.lost = state.lost \cup {run}
      BY <1>2, FailsLost
  <2> QED
      BY <2>1
<1>3. CASE after = [state EXCEPT !.conn = "open", !.events[run] = T!Inserted(@, batch)]
  <2>1. ToSet(batch) \subseteq Events
      BY ElementOfSeq DEF ToSet
  <2>2. T!Inserted(state.events[run], batch) \in SUBSET Events
      BY <2>1 DEF T!Inserted, ToSet, Stored
  <2>3. /\ after.rows = state.rows /\ after.lost = state.lost
        /\ after = [rows |-> after.rows, events |-> after.events, conn |-> after.conn,
                    failures |-> after.failures, lost |-> after.lost]
        /\ after.events = [state.events EXCEPT ![run] = T!Inserted(state.events[run], batch)]
      BY <1>3 DEF Stored
  <2> QED
      BY <2>2, <2>3 DEF Stored
<1> QED
    BY <1>1, <1>2, <1>3, Zenon DEF T!RecordEvents

(* An event is in the log once it is emitted, written or not, or the turn  *)
(* is lost.                                                                *)
Emits(run, recorder, event) ==
  /\ active' = [active EXCEPT ![run] = active'[run]]
  /\ Recording(active'[run]) /\ active'[run].finished = recorder.finished
  /\ active'[run].open = recorder.open /\ active'[run].row = recorder.row
  /\ Stored(db') /\ db'.rows = db.rows
  /\ db'.lost = db.lost \/ db'.lost = db.lost \cup {run}
  /\ \A other \in Run \ {run} : db'.events[other] = db.events[other]
  /\ run \notin db'.lost /\ Apart(recorder, db.events[run]) =>
        /\ db'.events[run] \cup ToSet(active'[run].pending)
             = db.events[run] \cup ToSet(recorder.pending) \cup {event}
        /\ Apart(active'[run], db'.events[run])

LEMMA Emitting ==
  ASSUME ActiveTypeOK, Stored(db), NEW run \in Run, NEW recorder, Recording(recorder),
         NEW event \in Events, event.seq = recorder.seq + 1, T!Emit(run, recorder, event)
  PROVE  Emits(run, recorder, event)
<1> DEFINE with == T!With(recorder, event)
<1>1. /\ Recording(with) /\ with.seq = event.seq /\ with.pending = Append(recorder.pending, event)
      /\ with.finished = recorder.finished /\ with.open = recorder.open /\ with.row = recorder.row
  <2>1. Append(recorder.pending, event) \in Seq(Events)
      BY AppendProperties DEF Recording
  <2>2. with = [recorder EXCEPT !.seq = event.seq, !.pending = Append(recorder.pending, event)]
      BY DEF T!With
  <2> HIDE DEF with
  <2> QED
      BY <2>1, <2>2 DEF Recording, Events
<1>2. ToSet(with.pending) = ToSet(recorder.pending) \cup {event}
  <2> DEFINE old == recorder.pending  new == Append(old, event)
  <2>1. old \in Seq(Events) /\ new \in Seq(Events)
      BY AppendProperties DEF Recording
  <2>2. /\ Len(new) = Len(old) + 1 /\ DOMAIN old = 1..Len(old) /\ DOMAIN new = 1..Len(new)
        /\ Len(old) \in Nat
        /\ \A i \in 1..Len(old) : new[i] = old[i]
        /\ new[Len(old) + 1] = event
      BY <2>1, AppendProperties, LenProperties
  <2> HIDE DEF old, new
  <2>3. {new[i] : i \in DOMAIN new} = {old[i] : i \in DOMAIN old} \cup {event}
      BY <2>2
  <2> QED
      BY <1>1, <2>3 DEF ToSet, old, new
<1>3. \A e \in ToSet(recorder.pending) : e \in Events
    BY ElementOfSeq DEF ToSet, Recording
<1>4. \A e \in db.events[run] : e \in Events
    BY DEF Stored
<1>5. /\ event.seq \in Nat /\ recorder.seq \in Nat
      /\ \A e \in db.events[run] \cup ToSet(recorder.pending) : e.seq \in Nat
    BY <1>3, <1>4 DEF Events, Recording
<1>6. Apart(recorder, db.events[run]) =>
        /\ Apart(with, db.events[run])
        /\ T!Inserted(db.events[run], with.pending) = db.events[run] \cup ToSet(with.pending)
  <2> HIDE DEF with
  <2> SUFFICES ASSUME Apart(recorder, db.events[run])
               PROVE  /\ Apart(with, db.events[run])
                      /\ T!Inserted(db.events[run], with.pending)
                           = db.events[run] \cup ToSet(with.pending)
      OBVIOUS
  <2>1. Apart(with, db.events[run])
      BY <1>1, <1>2, <1>5 DEF Apart
  <2> QED
      BY <2>1 DEF Apart, T!Inserted, ToSet
<1>7. ASSUME active' = [active EXCEPT ![run] = T!Flushed(with)],
             db' \in T!RecordEvents(db, run, with.pending)
      PROVE  Emits(run, recorder, event)
  <2>1. /\ Stored(db') /\ db'.rows = db.rows
        /\ db'.lost = db.lost \/ db'.lost = db.lost \cup {run}
        /\ \A other \in Run \ {run} : db'.events[other] = db.events[other]
        /\ run \notin db'.lost => db'.events[run] = T!Inserted(db.events[run], with.pending)
    <3>1. with.pending \in Seq(Events)
        BY <1>1 DEF Recording
    <3> HIDE DEF with
    <3> QED
        BY <1>7, <3>1, EventsRecorded
  <2> HIDE DEF with
  <2>2. active'[run] = T!Flushed(with)
      BY <1>7 DEF ActiveTypeOK
  <2>3. /\ Recording(active'[run]) /\ active'[run].finished = with.finished
        /\ active'[run].open = with.open /\ active'[run].row = with.row
        /\ active'[run].seq = with.seq /\ active'[run].pending = <<>>
    <3>1. <<>> \in Seq(Events)
        BY EmptySeq
    <3> QED
        BY <1>1, <2>2, <3>1 DEF T!Flushed, Recording
  <2>4. ToSet(active'[run].pending) = {}
    <3>1. DOMAIN <<>> = {}
        BY EmptySeq
    <3> QED
        BY <2>3, <3>1 DEF ToSet
  <2>5. run \notin db'.lost /\ Apart(recorder, db.events[run]) =>
          /\ db'.events[run] = db.events[run] \cup ToSet(recorder.pending) \cup {event}
          /\ Apart(active'[run], db'.events[run])
    <3> SUFFICES ASSUME run \notin db'.lost, Apart(recorder, db.events[run])
                 PROVE  /\ db'.events[run] = db.events[run] \cup ToSet(recorder.pending) \cup {event}
                        /\ Apart(active'[run], db'.events[run])
        OBVIOUS
    <3>1. db'.events[run] = db.events[run] \cup ToSet(with.pending)
        BY <1>6, <2>1
    <3>2. Apart(with, db.events[run])
        BY <1>6
    <3> QED
        BY <1>2, <2>3, <2>4, <3>1, <3>2 DEF Apart
  <2> QED
      BY <1>1, <1>7, <2>1, <2>2, <2>3, <2>4, <2>5 DEF Emits
<1>8. ASSUME active' = [active EXCEPT ![run] = with], UNCHANGED db
      PROVE  Emits(run, recorder, event)
  <2> HIDE DEF with
  <2>1. active'[run] = with
      BY <1>8 DEF ActiveTypeOK
  <2>2. db'.events[run] \cup ToSet(active'[run].pending)
             = db.events[run] \cup ToSet(recorder.pending) \cup {event}
      BY <1>2, <1>8, <2>1
  <2> QED
      BY <1>1, <1>6, <1>8, <2>1, <2>2 DEF Emits
<1> QED
    BY <1>7, <1>8 DEF T!Emit

(* A step of one turn leaves the others alone.                             *)
LEMMA OneTurn ==
  ASSUME TraceInv, NEW run \in Run,
         active' = [active EXCEPT ![run] = active'[run]], Recording(active'[run]),
         Stored(db'), db'.lost = db.lost \/ db'.lost = db.lost \cup {run},
         \A other \in Run \ {run} :
           db'.rows[other] = db.rows[other] /\ db'.events[other] = db.events[other],
         ToldTypeOK', \A other \in Run \ {run} : told'[other] = told[other],
         RunTraced(run)'
  PROVE  TraceInv'
<1>1. ActiveTypeOK'
    BY DEF TraceInv, ActiveTypeOK
<1>2. ASSUME NEW other \in Run \ {run} PROVE RunTraced(other)'
  <2>1. /\ active'[other] = active[other] /\ told'[other] = told[other]
        /\ db'.rows[other] = db.rows[other] /\ db'.events[other] = db.events[other]
        /\ other \in db'.lost <=> other \in db.lost
      BY DEF TraceInv, ActiveTypeOK
  <2>2. RunTraced(other)
      BY DEF TraceInv
  <2>3. Log(other)' = Log(other) /\ Counts(other)' = Counts(other)
      BY <2>1 DEF Log, Counts, T!Working
  <2>4. Attempted(other)' /\ RowKept(other)'
      BY <2>1, <2>2 DEF RunTraced, Attempted, RowKept, T!Working
  <2>5. Traced(other)' => Traced(other)
      BY <2>1 DEF Traced
  <2>6. LogTrue(other)' <=> LogTrue(other)
      BY <2>1, <2>3 DEF LogTrue
  <2>8. Apart(active'[other], db'.events[other]) <=> Apart(active[other], db.events[other])
      BY <2>1
  <2>9. T!Working(other)' <=> T!Working(other)
      BY <2>1 DEF T!Working
  <2> QED
      BY <2>2, <2>4, <2>5, <2>6, <2>8, <2>9 DEF RunTraced
<1> QED
    BY <1>1, <1>2 DEF TraceInv

LEMMA ToldTyped ==
  ASSUME ToldTypeOK, NEW run \in Run, NEW one, told' = [told EXCEPT ![run] = one],
         one = [attempts |-> one.attempts, ended |-> one.ended, brackets |-> one.brackets,
                made |-> one.made],
         one.attempts \in Nat, one.ended \in Outcomes \cup {"died"}, one.brackets \in Nat,
         one.made \subseteq Bracket \X Hows
  PROVE  ToldTypeOK' /\ told'[run] = one /\ \A other \in Run \ {run} : told'[other] = told[other]
    BY DEF ToldTypeOK

LEMMA Nobody ==
  /\ Recording(T!NoRecorder) /\ T!NoRecorder.finished = TRUE /\ T!NoRecorder.open = {}
  /\ T!NoRecorder.pending = <<>>
<1>1. <<>> \in Seq(Events)
    BY EmptySeq
<1>2. T!NoRow \in Rows
    BY DEF T!NoRow, T!NoOutcome, T!NoCount, Rows, Statuses, Outcomes
<1>3. PICK some, row : some = T!Recorder /\ row = T!NoRow
    OBVIOUS
<1>4. PICK other : other = [row EXCEPT !.status = "running"]
    OBVIOUS
<1>5. some = [seq |-> 0, pending |-> <<>>, finished |-> FALSE, open |-> {}, row |-> other]
    BY <1>3, <1>4, Zenon DEF T!Recorder
<1>6. T!NoRecorder = [some EXCEPT !.finished = TRUE, !.row = T!NoRow]
    BY <1>3, Zenon DEF T!NoRecorder
<1>7. T!NoRecorder = [seq |-> 0, pending |-> <<>>, finished |-> TRUE, open |-> {}, row |-> T!NoRow]
    BY <1>5, <1>6
<1> QED
    BY <1>1, <1>2, <1>7 DEF Recording

LEMMA TracesStart == T!Init => TraceInv
<1> SUFFICES ASSUME T!Init PROVE TraceInv
    OBVIOUS
<1>1. Recording(T!NoRecorder) /\ T!NoRecorder.finished = TRUE /\ T!NoRecorder.open = {}
      /\ T!NoRecorder.pending = <<>>
    BY Nobody
<1>2. ActiveTypeOK /\ \A run \in Run : active[run] = T!NoRecorder
    BY <1>1 DEF T!Init, ActiveTypeOK
<1>3. Stored(db) /\ \A run \in Run : db.events[run] = {}
  <2>1. T!NoRow \in Rows
      BY DEF T!NoRow, T!NoOutcome, T!NoCount, Rows, Statuses, Outcomes
  <2> QED
      BY <2>1 DEF T!Init, Stored
<1>4. ToldTypeOK /\ \A run \in Run : told[run].attempts = 0 /\ told[run].ended = "none"
                                     /\ told[run].made = {}
    BY DEF T!Init, T!NoAttempt, T!NoOutcome, ToldTypeOK, Outcomes
<1>5. ASSUME NEW run \in Run PROVE RunTraced(run)
    BY <1>1, <1>2, <1>3, <1>4 DEF RunTraced, Attempted, RowKept, Traced, T!Working
<1> QED
    BY <1>2, <1>3, <1>4, <1>5 DEF TraceInv

LEMMA TurnStarts == ASSUME TraceInv, NEW run \in Run, T!Start(run) PROVE TraceInv'
<1> DEFINE event == T!Event(T!Recorder, "turn_started", T!NoOutcome, 0)
           begun_ == T!With(T!Recorder, event)
           one == [told[run] EXCEPT !.attempts = @ + 1, !.ended = "none", !.made = {}]
<1>1. event = [seq |-> 1, type |-> "turn_started", kind |-> "none", index |-> 0]
    BY DEF T!Event, T!Recorder, T!NoOutcome
<1>2. event \in Events
    BY <1>1 DEF Events
<1>3. T!Recorder.row \in Rows /\ T!Recorder.row.status = "running"
      /\ \A kind \in Kind : T!Recorder.row.counts[kind] = 0
    BY DEF T!Recorder, T!NoRow, T!NoOutcome, T!NoCount, Rows, Statuses, Outcomes
<1>4. /\ Recording(begun_) /\ begun_.finished = FALSE /\ begun_.open = {} /\ begun_.seq = 1
      /\ begun_.row = T!Recorder.row /\ begun_.pending = <<event>>
  <2>1. <<event>> \in Seq(Events) /\ Append(<<>>, event) = <<event>>
      BY <1>2
  <2>2. PICK row : row = T!Recorder.row
      OBVIOUS
  <2>3. T!Recorder = [seq |-> 0, pending |-> <<>>, finished |-> FALSE, open |-> {}, row |-> row]
      BY <2>2 DEF T!Recorder
  <2>4. event.seq = 1
      BY <1>1
  <2>5. PICK some : some = T!Recorder
      OBVIOUS
  <2>6. begun_ = [some EXCEPT !.seq = event.seq, !.pending = Append(some.pending, event)]
      BY <2>5, Zenon DEF T!With
  <2> HIDE DEF begun_, event
  <2>7. begun_ = [seq |-> 1, pending |-> <<event>>, finished |-> FALSE, open |-> {}, row |-> row]
      BY <2>1, <2>3, <2>4, <2>5, <2>6
  <2> QED
      BY <1>3, <2>1, <2>2, <2>7 DEF Recording
<1>5. /\ active' = [active EXCEPT ![run] = begun_]
      /\ db' \in T!WriteRow(db, run, T!Recorder.row)
      /\ told' = [told EXCEPT ![run] = one]
    BY DEF T!Start, T!NoOutcome, TraceInv, ToldTypeOK
<1>6. one = [attempts |-> told[run].attempts + 1, ended |-> "none", brackets |-> told[run].brackets,
             made |-> {}]
  <2>1. PICK was : was = told[run]
      OBVIOUS
  <2>2. was = [attempts |-> was.attempts, ended |-> was.ended, brackets |-> was.brackets,
               made |-> was.made]
      BY <2>1 DEF TraceInv, ToldTypeOK
  <2>3. one = [was EXCEPT !.attempts = was.attempts + 1, !.ended = "none", !.made = {}]
      BY <2>1, Zenon
  <2> HIDE DEF one
  <2> QED
      BY <2>1, <2>2, <2>3
<1> HIDE DEF begun_, event, one
<1>7. ToldTypeOK' /\ told'[run] = one /\ \A other \in Run \ {run} : told'[other] = told[other]
    BY <1>5, <1>6, ToldTyped DEF TraceInv, ToldTypeOK, Outcomes
<1>8. /\ Stored(db') /\ db'.events = db.events
      /\ db'.lost = db.lost \/ db'.lost = db.lost \cup {run}
      /\ \A other \in Run \ {run} : db'.rows[other] = db.rows[other]
      /\ run \notin db'.lost => db'.rows[run] = T!Recorder.row
    BY <1>3, <1>5, RowWritten DEF TraceInv
<1>9. active'[run] = begun_
    BY <1>5 DEF TraceInv, ActiveTypeOK
<1>10. told[run].attempts \in Nat
    BY DEF TraceInv, ToldTypeOK
<1>11. Attempted(run)' /\ RowKept(run)'
    BY <1>3, <1>4, <1>6, <1>7, <1>8, <1>9, <1>10 DEF Attempted, RowKept, T!Working
<1>12. ASSUME Traced(run)'
       PROVE  Apart(active'[run], db'.events[run]) /\ LogTrue(run)'
  <2>1. told[run].attempts = 0
      BY <1>6, <1>7, <1>10, <1>12 DEF Traced
  <2>2. db'.events[run] = {} /\ told'[run].made = {}
      BY <1>6, <1>7, <1>8, <2>1 DEF TraceInv, RunTraced, Attempted
  <2>3. ToSet(active'[run].pending) = {event}
      BY <1>4, <1>9 DEF ToSet
  <2>4. Log(run)' = {event}
      BY <2>2, <2>3 DEF Log
  <2>5. \A kind \in Kind : Counts(run)'[kind] = 0
      BY <1>3, <1>4, <1>9 DEF Counts, T!Working
  <2>6. event.kind \notin Calling /\ event.seq = 1
      BY <1>1, KindsKnown DEF Calling
  <2>7. Apart(active'[run], db'.events[run])
      BY <1>4, <1>9, <2>2, <2>3, <2>6 DEF Apart
  <2>8. active'[run].open = {}
      BY <1>4, <1>9
  <2>9. Enumerated({event}, Counts(run)', {}, {})
      BY <2>5, <2>6 DEF Enumerated, Calling
  <2>10. Concluded({event}, {}, {})
      BY <2>6 DEF Concluded
  <2> QED
      BY <2>2, <2>4, <2>7, <2>8, <2>9, <2>10 DEF LogTrue
<1>13. RunTraced(run)'
    BY <1>11, <1>12 DEF RunTraced
<1> QED
    BY <1>4, <1>5, <1>7, <1>8, <1>9, <1>13, OneTurn

(* What an event, a bracket opened and a bracket left do to these.         *)
LEMMA CallOpened ==
  ASSUME NEW log, NEW counts \in [Kind -> Nat], NEW open, NEW made,
         Enumerated(log, counts, open, made), Concluded(log, open, made),
         NEW kind \in Calling, NEW event, event.kind = kind, event.index = counts[kind] + 1,
         event.type \notin Ends, NEW after, after = [counts EXCEPT ![kind] = counts[kind] + 1]
  PROVE  /\ Enumerated(log \cup {event}, after, open \cup {<<kind, counts[kind] + 1>>}, made)
         /\ Concluded(log \cup {event}, open \cup {<<kind, counts[kind] + 1>>}, made)
<1> DEFINE n == counts[kind]  call_ == <<kind, n + 1>>
<1>1. n \in Nat /\ kind \in Kind
    BY DEF Calling
<1>2. /\ after[kind] = n + 1 /\ \A k \in Calling \ {kind} : after[k] = counts[k]
      /\ \A k \in Calling : counts[k] \in Nat
    BY DEF Calling
<1>3. \A k \in Calling : 1..counts[k] \subseteq 1..after[k]
    BY <1>1, <1>2
<1>4. Enumerated(log \cup {event}, after, open \cup {call_}, made)
  <2>1. \A e \in log \cup {event} : e.kind \in Calling => e.index \in 1..after[e.kind]
      BY <1>1, <1>2, <1>3 DEF Enumerated
  <2>2. ASSUME NEW k \in Calling, NEW i \in 1..after[k]
        PROVE  /\ \E e \in log \cup {event} : e.kind = k /\ e.index = i
               /\ <<k, i>> \in open \cup {call_} \/ \E m \in made : m[1] = <<k, i>>
    <3>1. i \in 1..counts[k] \/ (k = kind /\ i = n + 1)
        BY <1>1, <1>2
    <3>2. CASE i \in 1..counts[k]
      <4>1. \E e \in log : e.kind = k /\ e.index = i
          BY <3>2, ZenonT(60) DEF Enumerated
      <4>2. <<k, i>> \in open \/ \E m \in made : m[1] = <<k, i>>
          BY <3>2 DEF Enumerated
      <4> QED
          BY <4>1, <4>2
    <3>3. CASE k = kind /\ i = n + 1
        BY <3>3
    <3> QED
        BY <3>1, <3>2, <3>3
  <2>3. \A c \in open \cup {call_} : c[1] \in Calling => c[2] \in 1..after[c[1]]
      BY <1>1, <1>2, <1>3 DEF Enumerated
  <2>4. \A m \in made : m[1][1] \in Calling => m[1][2] \in 1..after[m[1][1]]
      BY <1>3 DEF Enumerated
  <2> HIDE DEF call_
  <2> QED
      BY <2>1, <2>2, <2>3, <2>4 DEF Enumerated
<1>5. \A m \in made : m[1] # call_
  <2> SUFFICES ASSUME NEW m \in made, m[1] = call_ PROVE FALSE
      OBVIOUS
  <2>1. m[1][1] = kind /\ m[1][2] = n + 1
      OBVIOUS
  <2> QED
      BY <1>1, <2>1 DEF Enumerated
<1>6. Concluded(log \cup {event}, open \cup {call_}, made)
  <2> HIDE DEF call_
  <2> QED
      BY <1>5 DEF Concluded
<1> QED
    BY <1>4, <1>6

LEMMA Noted ==
  ASSUME NEW log, NEW counts, NEW open, NEW made,
         Enumerated(log, counts, open, made), Concluded(log, open, made),
         NEW event, event.kind \in Calling => event.index \in 1..counts[event.kind] /\ event.type \notin Ends,
         NEW longer, longer = log \/ longer = log \cup {event},
         NEW after, \A kind \in Calling : after[kind] = counts[kind],
         NEW now, \A c \in open \cup now : c[1] \in Calling => (c \in open <=> c \in now),
         NEW done, made \subseteq done,
         \A m \in done \ made : m[1][1] \in Calling => m[2] \notin Ends /\ m[1] \in open
  PROVE  /\ Enumerated(longer, after, now, done)
         /\ Concluded(longer, now, done)
<1>1. \A e \in longer : e.kind \in Calling => e.index \in 1..after[e.kind]
    BY DEF Enumerated
<1>2. ASSUME NEW kind \in Calling, NEW k \in 1..after[kind]
      PROVE  /\ \E e \in longer : e.kind = kind /\ e.index = k
             /\ <<kind, k>> \in now \/ \E m \in done : m[1] = <<kind, k>>
  <2>1. k \in 1..counts[kind]
      OBVIOUS
  <2>2. \E e \in log : e.kind = kind /\ e.index = k
      BY <2>1, ZenonT(60) DEF Enumerated
  <2>3. <<kind, k>> \in open \/ \E m \in made : m[1] = <<kind, k>>
      BY <2>1 DEF Enumerated
  <2> QED
      BY <2>2, <2>3
<1>3. \A c \in now : c[1] \in Calling => c[2] \in 1..after[c[1]]
    BY DEF Enumerated
<1>4. \A m \in done : m[1][1] \in Calling => m[1][2] \in 1..after[m[1][1]]
    BY DEF Enumerated
<1>5. Enumerated(longer, after, now, done)
    BY <1>1, <1>2, <1>3, <1>4 DEF Enumerated
<1>6. Concluded(longer, now, done)
    BY DEF Concluded
<1> QED
    BY <1>5, <1>6

LEMMA CallLeft ==
  ASSUME NEW log, NEW counts, NEW open, NEW made,
         Enumerated(log, counts, open, made), Concluded(log, open, made),
         NEW kind \in Calling, NEW index, <<kind, index>> \in open, NEW how,
         NEW after, NEW event, event.kind = kind, event.index = index, event.type = how,
         \/ how \in Ends /\ after = log \cup {event}
         \/ how \notin Ends /\ after = log
  PROVE  /\ Enumerated(after, counts, open \ {<<kind, index>>}, made \cup {<<<<kind, index>>, how>>})
         /\ Concluded(after, open \ {<<kind, index>>}, made \cup {<<<<kind, index>>, how>>})
<1>1. PICK call_ : call_ = <<kind, index>>
    OBVIOUS
<1>2. PICK mark : mark = <<call_, how>>
    OBVIOUS
<1>3. PICK now, done : now = open \ {call_} /\ done = made \cup {mark}
    OBVIOUS
<1>4. call_[1] = kind /\ call_[2] = index /\ mark[1] = call_ /\ mark[2] = how /\ call_ \in open
    BY <1>1, <1>2
<1>5. index \in 1..counts[kind]
    BY <1>4 DEF Enumerated
<1>6. Enumerated(after, counts, now, done)
  <2>1. \A e \in after : e.kind \in Calling => e.index \in 1..counts[e.kind]
      BY <1>5 DEF Enumerated
  <2>2. ASSUME NEW k \in Calling, NEW i \in 1..counts[k]
        PROVE  /\ \E e \in after : e.kind = k /\ e.index = i
               /\ <<k, i>> \in now \/ \E m \in done : m[1] = <<k, i>>
    <3>1. \E e \in log : e.kind = k /\ e.index = i
        BY ZenonT(60) DEF Enumerated
    <3>2. <<k, i>> \in open \/ \E m \in made : m[1] = <<k, i>>
        BY DEF Enumerated
    <3> QED
        BY <1>3, <1>4, <3>1, <3>2
  <2>3. \A c \in now : c[1] \in Calling => c[2] \in 1..counts[c[1]]
      BY <1>3 DEF Enumerated
  <2>4. \A m \in done : m[1][1] \in Calling => m[1][2] \in 1..counts[m[1][1]]
      BY <1>3, <1>4, <1>5 DEF Enumerated
  <2> QED
      BY <2>1, <2>2, <2>3, <2>4 DEF Enumerated
<1>7. \A e \in log : e.kind = kind /\ e.index = index => e.type \notin Ends
  <2> SUFFICES ASSUME NEW e \in log, e.kind = kind, e.index = index, e.type \in Ends PROVE FALSE
      OBVIOUS
  <2>1. <<<<e.kind, e.index>>, e.type>> \in made
      BY DEF Concluded
  <2>2. PICK m \in made : m = <<<<e.kind, e.index>>, e.type>>
      BY <2>1
  <2>3. m[1] = call_ /\ m[1][1] \in Calling /\ m[2] \in Ends
      BY <1>1, <1>4, <2>2
  <2> QED
      BY <1>4, <2>3 DEF Concluded
<1>8. Concluded(after, now, done)
  <2>1. ASSUME NEW e \in after, e.kind \in Calling, e.type \in Ends
        PROVE  /\ <<<<e.kind, e.index>>, e.type>> \in done
               /\ \A f \in after : f.kind = e.kind /\ f.index = e.index /\ f.type \in Ends => e = f
    <3>1. CASE e \in log
      <4>1. <<<<e.kind, e.index>>, e.type>> \in made
          BY <2>1, <3>1 DEF Concluded
      <4>2. \A f \in log : f.kind = e.kind /\ f.index = e.index /\ f.type \in Ends => e = f
          BY <2>1, <3>1 DEF Concluded
      <4> QED
          BY <1>3, <1>7, <2>1, <3>1, <4>1, <4>2
    <3>2. CASE e = event /\ how \in Ends
      <4>1. <<<<e.kind, e.index>>, e.type>> = mark
          BY <1>1, <1>2, <3>2
      <4> QED
          BY <1>3, <1>7, <3>2, <4>1
    <3> QED
        BY <3>1, <3>2
  <2>2. ASSUME NEW m \in done, m[1][1] \in Calling, m[2] \in Ends
        PROVE  /\ m[1] \notin now
               /\ \E e \in after : <<e.kind, e.index>> = m[1] /\ e.type = m[2]
    <3>1. CASE m \in made
      <4>1. m[1] \notin open
          BY <2>2, <3>1 DEF Concluded
      <4>2. \E e \in log : <<e.kind, e.index>> = m[1] /\ e.type = m[2]
          BY <2>2, <3>1 DEF Concluded
      <4> QED
          BY <1>3, <4>1, <4>2
    <3>2. CASE m = mark
        BY <1>1, <1>3, <1>4, <2>2, <3>2
    <3> QED
        BY <1>3, <3>1, <3>2
  <2> QED
      BY <2>1, <2>2 DEF Concluded
<1> QED
    BY <1>1, <1>2, <1>3, <1>6, <1>8

(* One event of a turn under way.                                          *)
LEMMA EventStep ==
  ASSUME TraceInv, NEW run \in Run, T!Working(run),
         NEW recorder, Recording(recorder), recorder.finished = active[run].finished,
         recorder.seq = active[run].seq, recorder.pending = active[run].pending,
         NEW event \in Events, event.seq = recorder.seq + 1, T!Emit(run, recorder, event),
         NEW one, told' = [told EXCEPT ![run] = one],
         one = [attempts |-> told[run].attempts, ended |-> told[run].ended,
                brackets |-> one.brackets, made |-> one.made],
         one.brackets \in Nat, one.made \subseteq Bracket \X Hows,
         Enumerated(Log(run), active[run].row.counts, active[run].open, told[run].made)
         /\ Concluded(Log(run), active[run].open, told[run].made) =>
            /\ Enumerated(Log(run) \cup {event}, recorder.row.counts, recorder.open, one.made)
            /\ Concluded(Log(run) \cup {event}, recorder.open, one.made)
  PROVE  TraceInv'
<1>1. Emits(run, recorder, event)
    BY Emitting DEF TraceInv
<1>2. ToldTypeOK' /\ told'[run] = one /\ \A other \in Run \ {run} : told'[other] = told[other]
  <2>1. told[run].attempts \in Nat /\ told[run].ended \in Outcomes \cup {"died"}
      BY DEF TraceInv, ToldTypeOK
  <2> QED
      BY <2>1, ToldTyped DEF TraceInv
<1>3. told'[run].attempts = told[run].attempts /\ told'[run].ended = told[run].ended
    BY <1>2
<1>4. RunTraced(run) /\ (T!Working(run))'
    BY <1>1 DEF TraceInv, T!Working, Emits
<1>5. Attempted(run)' /\ RowKept(run)'
  <2>1. told[run].attempts > 0 /\ told[run].ended = "none" /\ told[run].attempts \in Nat
      BY <1>4 DEF RunTraced, Attempted, TraceInv, ToldTypeOK
  <2>2. Attempted(run)'
      BY <1>3, <1>4, <2>1 DEF Attempted
  <2>3. db'.rows = db.rows /\ (run \notin db'.lost => run \notin db.lost)
      BY <1>1 DEF Emits
  <2>4. RowKept(run)'
      BY <1>3, <1>4, <2>1, <2>3 DEF RunTraced, RowKept
  <2> QED
      BY <2>2, <2>4
<1>6. ASSUME Traced(run)' PROVE Apart(active'[run], db'.events[run]) /\ LogTrue(run)'
  <2>1. Traced(run) /\ run \notin db'.lost
      BY <1>1, <1>3, <1>6 DEF Traced, Emits
  <2>2. Apart(active[run], db.events[run]) /\ LogTrue(run)
      BY <1>4, <2>1 DEF RunTraced
  <2>3. Apart(recorder, db.events[run])
      BY <2>2 DEF Apart
  <2>4. /\ db'.events[run] \cup ToSet(active'[run].pending)
             = db.events[run] \cup ToSet(recorder.pending) \cup {event}
        /\ Apart(active'[run], db'.events[run])
      BY <1>1, <2>1, <2>3 DEF Emits
  <2>5. Log(run)' = Log(run) \cup {event}
      BY <2>4 DEF Log
  <2>6. Counts(run)' = recorder.row.counts /\ Counts(run) = active[run].row.counts
      BY <1>1, <1>4 DEF Counts, Emits
  <2>7. active'[run].open = recorder.open /\ told'[run].made = one.made
      BY <1>1, <1>2 DEF Emits
  <2> QED
      BY <2>2, <2>4, <2>5, <2>6, <2>7 DEF LogTrue
<1>7. RunTraced(run)'
    BY <1>5, <1>6 DEF RunTraced
<1> QED
    BY <1>1, <1>2, <1>7, OneTurn DEF Emits

LEMMA ToldIs ==
  ASSUME ToldTypeOK, NEW run \in Run
  PROVE  /\ told[run] = [attempts |-> told[run].attempts, ended |-> told[run].ended,
                         brackets |-> told[run].brackets, made |-> told[run].made]
         /\ told[run].attempts \in Nat /\ told[run].ended \in Outcomes \cup {"died"}
         /\ told[run].brackets \in Nat /\ told[run].made \subseteq Bracket \X Hows
    BY DEF ToldTypeOK

LEMMA BracketOpens ==
  ASSUME TraceInv, NEW run \in Run, NEW kind \in Kind, T!Open(run, kind) PROVE TraceInv'
<1>1. PICK was : was = told[run]
    OBVIOUS
<1>2. PICK old : old = active[run]
    OBVIOUS
<1>3. PICK counts : counts = old.row.counts
    OBVIOUS
<1>4. PICK index : index = IF kind = "step" THEN 0 ELSE counts[kind] + 1
    OBVIOUS
<1>5. PICK counted : counted = [old EXCEPT !.row.counts[kind] = index, !.open = @ \cup {<<kind, index>>}]
    OBVIOUS
<1>6. PICK event : event = T!Event(counted, "started", kind, index)
    OBVIOUS
<1>7. PICK one : one = [was EXCEPT !.brackets = was.brackets + 1]
    OBVIOUS
<1>8. T!Working(run) /\ T!Emit(run, counted, event) /\ told' = [told EXCEPT ![run] = one]
    BY <1>1, <1>2, <1>3, <1>4, <1>5, <1>6, <1>7, Zenon DEF T!Open
<1>9. /\ Recording(old) /\ counts \in [Kind -> Nat]
      /\ old.row = [status |-> old.row.status, outcome |-> old.row.outcome, counts |-> counts]
    BY <1>2, <1>3 DEF TraceInv, ActiveTypeOK, Recording, Rows
<1>10. index \in Nat
    BY <1>4, <1>9
<1>11. PICK after : after = [counts EXCEPT ![kind] = index]
    OBVIOUS
<1>12. after \in [Kind -> Nat]
    BY <1>9, <1>10, <1>11
<1>13. PICK row : row = [old.row EXCEPT !.counts = after]
    OBVIOUS
<1>14. row \in Rows /\ row.counts = after
    BY <1>9, <1>12, <1>13 DEF Recording, Rows
<1>15. counted = [seq |-> old.seq, pending |-> old.pending, finished |-> old.finished,
                  open |-> old.open \cup {<<kind, index>>}, row |-> row]
    BY <1>3, <1>5, <1>9, <1>11, <1>13 DEF Recording
<1>16. Recording(counted)
    BY <1>9, <1>10, <1>14, <1>15 DEF Recording, Bracket
<1>17. /\ event = [seq |-> old.seq + 1, type |-> "started", kind |-> kind, index |-> index]
       /\ event \in Events
    BY <1>6, <1>9, <1>10, <1>15 DEF T!Event, Events, Recording
<1>18. /\ one = [attempts |-> was.attempts, ended |-> was.ended, brackets |-> was.brackets + 1,
                 made |-> was.made]
       /\ was.brackets + 1 \in Nat /\ was.made \subseteq Bracket \X Hows
  <2>1. /\ was = [attempts |-> was.attempts, ended |-> was.ended, brackets |-> was.brackets,
                  made |-> was.made]
        /\ was.brackets \in Nat /\ was.made \subseteq Bracket \X Hows
      BY <1>1, ToldIs DEF TraceInv
  <2> QED
      BY <1>7, <2>1
<1>19. ASSUME Enumerated(Log(run), counts, old.open, was.made), Concluded(Log(run), old.open, was.made)
       PROVE  /\ Enumerated(Log(run) \cup {event}, after, counted.open, was.made)
              /\ Concluded(Log(run) \cup {event}, counted.open, was.made)
  <2>1. counted.open = old.open \cup {<<kind, index>>}
      BY <1>15
  <2>2. event.kind = kind /\ event.index = index /\ event.type \notin Ends
      BY <1>17 DEF Ends
  <2>3. CASE kind \in Calling
    <3>1. index = counts[kind] + 1
        BY <1>4, <2>3 DEF Calling
    <3>2. counts \in [Kind -> Nat] /\ after = [counts EXCEPT ![kind] = counts[kind] + 1]
        BY <1>9, <1>11, <3>1
    <3>3. /\ Enumerated(Log(run) \cup {event}, after, old.open \cup {<<kind, counts[kind] + 1>>}, was.made)
          /\ Concluded(Log(run) \cup {event}, old.open \cup {<<kind, counts[kind] + 1>>}, was.made)
      <4>1. event.index = counts[kind] + 1
          BY <2>2, <3>1
      <4> HIDE DEF Calling
      <4> QED
          BY <1>19, <2>2, <2>3, <3>2, <4>1, CallOpened
    <3> QED
        BY <2>1, <3>1, <3>3
  <2>4. CASE kind \notin Calling
    <3>1. \A k \in Calling : after[k] = counts[k]
        BY <1>9, <1>11, <2>4 DEF Calling
    <3>2. \A c \in old.open \cup counted.open : c[1] \in Calling => (c \in old.open <=> c \in counted.open)
        BY <2>1, <2>4
    <3>3. PICK longer : longer = Log(run) \cup {event}
        OBVIOUS
    <3>4. event.kind \notin Calling
        BY <2>2, <2>4
    <3> QED
        BY <1>19, <3>1, <3>2, <3>3, <3>4, Noted
  <2> QED
      BY <2>3, <2>4
<1>20. /\ counted.finished = active[run].finished /\ counted.seq = active[run].seq
       /\ counted.pending = active[run].pending /\ event.seq = counted.seq + 1
       /\ counted.row.counts = after /\ one.made = was.made /\ one.brackets = was.brackets + 1
    BY <1>2, <1>14, <1>15, <1>17, <1>18
<1> QED
  <2>1. one = [attempts |-> told[run].attempts, ended |-> told[run].ended,
                brackets |-> one.brackets, made |-> one.made]
      BY <1>1, <1>18, <1>20
  <2>2. one.brackets \in Nat /\ one.made \subseteq Bracket \X Hows
      BY <1>18, <1>20
  <2> QED
      BY <1>1, <1>2, <1>3, <1>8, <1>16, <1>17, <1>19, <1>20, <2>1, <2>2, EventStep

LEMMA TokenComes ==
  ASSUME TraceInv, NEW run \in Run, NEW call_ \in Kind \X (0..MaxBrackets), T!FirstToken(run, call_)
  PROVE  TraceInv'
<1>1. PICK was, old : was = told[run] /\ old = active[run]
    OBVIOUS
<1>2. PICK event : event = T!Event(old, "first_token", call_[1], call_[2])
    OBVIOUS
<1>3. PICK one : one = [was EXCEPT !.made = was.made \cup {<<call_, "first_token">>}]
    OBVIOUS
<1>4. T!Working(run) /\ T!Emit(run, old, event) /\ told' = [told EXCEPT ![run] = one]
    BY <1>1, <1>2, <1>3, Zenon DEF T!FirstToken, T!Streamed
<1>5. call_ \in old.open /\ call_[1] = "model" /\ call_[1] \in Kind /\ call_ \in Bracket
    BY <1>1 DEF T!FirstToken, T!Streamed, TraceInv, ActiveTypeOK, Recording, Bracket
<1>6. Recording(old)
    BY <1>1 DEF TraceInv, ActiveTypeOK
<1>7. /\ event = [seq |-> old.seq + 1, type |-> "first_token", kind |-> call_[1], index |-> call_[2]]
      /\ event \in Events
    BY <1>2, <1>5, <1>6 DEF T!Event, Events, Recording, Bracket, Hows
<1>8. /\ one = [attempts |-> was.attempts, ended |-> was.ended, brackets |-> was.brackets,
                made |-> was.made \cup {<<call_, "first_token">>}]
      /\ was.brackets \in Nat /\ was.made \subseteq Bracket \X Hows
  <2>1. /\ was = [attempts |-> was.attempts, ended |-> was.ended, brackets |-> was.brackets,
                  made |-> was.made]
        /\ was.brackets \in Nat /\ was.made \subseteq Bracket \X Hows
      BY <1>1, ToldIs DEF TraceInv
  <2> QED
      BY <1>3, <2>1
<1>9. one.made \subseteq Bracket \X Hows
    BY <1>5, <1>8 DEF Hows
<1>10. ASSUME Enumerated(Log(run), old.row.counts, old.open, was.made),
              Concluded(Log(run), old.open, was.made)
       PROVE  /\ Enumerated(Log(run) \cup {event}, old.row.counts, old.open, one.made)
              /\ Concluded(Log(run) \cup {event}, old.open, one.made)
  <2>1. event.kind = call_[1] /\ event.index = call_[2] /\ event.type \notin Ends
      BY <1>7 DEF Ends
  <2>2. call_[1] \in Calling => call_[2] \in 1..old.row.counts[call_[1]]
      BY <1>5, <1>10 DEF Enumerated
  <2>3. was.made \subseteq one.made
        /\ \A m \in one.made \ was.made : m[1] = call_ /\ m[2] = "first_token"
      BY <1>8
  <2>4. \A m \in one.made \ was.made : m[1][1] \in Calling => m[2] \notin Ends /\ m[1] \in old.open
      BY <1>5, <2>3 DEF Ends
  <2>5. PICK longer : longer = Log(run) \cup {event}
      OBVIOUS
  <2>6. event.kind \in Calling => event.index \in 1..old.row.counts[event.kind] /\ event.type \notin Ends
      BY <2>1, <2>2
  <2> QED
      BY <1>10, <2>3, <2>4, <2>5, <2>6, Noted
<1> QED
  <2>1. /\ one = [attempts |-> told[run].attempts, ended |-> told[run].ended,
                  brackets |-> one.brackets, made |-> one.made]
        /\ one.brackets \in Nat
      BY <1>1, <1>8
  <2>2. event.seq = old.seq + 1
      BY <1>7
  <2> QED
      BY <1>1, <1>4, <1>6, <1>7, <1>9, <1>10, <2>1, <2>2, EventStep

LEMMA BracketLeft ==
  ASSUME TraceInv, NEW run \in Run, NEW call_ \in Kind \X (0..MaxBrackets),
         NEW how \in {"finished", "failed", "cancelled"}, T!Leave(run, call_, how)
  PROVE  TraceInv'
<1>1. PICK was, old : was = told[run] /\ old = active[run]
    OBVIOUS
<1>2. PICK left : left = [old EXCEPT !.open = @ \ {call_}]
    OBVIOUS
<1>3. PICK event : event = T!Event(left, how, call_[1], call_[2])
    OBVIOUS
<1>4. PICK one : one = [was EXCEPT !.made = was.made \cup {<<call_, how>>}]
    OBVIOUS
<1>5. T!Working(run) /\ call_ \in old.open /\ told' = [told EXCEPT ![run] = one]
    BY <1>1, <1>4, Zenon DEF T!Leave
<1>6. call_[1] \in Kind /\ call_ \in Bracket /\ call_ = <<call_[1], call_[2]>>
    BY <1>1, <1>5 DEF TraceInv, ActiveTypeOK, Recording, Bracket
<1>7. Recording(old)
    BY <1>1 DEF TraceInv, ActiveTypeOK
<1>8. /\ left = [seq |-> old.seq, pending |-> old.pending, finished |-> old.finished,
                 open |-> old.open \ {call_}, row |-> old.row]
      /\ Recording(left)
  <2>1. left = [seq |-> old.seq, pending |-> old.pending, finished |-> old.finished,
                 open |-> old.open \ {call_}, row |-> old.row]
      BY <1>2, <1>7 DEF Recording
  <2> QED
      BY <1>7, <2>1 DEF Recording
<1>9. /\ event = [seq |-> old.seq + 1, type |-> how, kind |-> call_[1], index |-> call_[2]]
      /\ event \in Events
    BY <1>3, <1>6, <1>7, <1>8 DEF T!Event, Events, Recording, Bracket, Hows
<1>10. /\ one = [attempts |-> was.attempts, ended |-> was.ended, brackets |-> was.brackets,
                 made |-> was.made \cup {<<call_, how>>}]
       /\ was.brackets \in Nat /\ was.made \subseteq Bracket \X Hows
  <2>1. /\ was = [attempts |-> was.attempts, ended |-> was.ended, brackets |-> was.brackets,
                  made |-> was.made]
        /\ was.brackets \in Nat /\ was.made \subseteq Bracket \X Hows
      BY <1>1, ToldIs DEF TraceInv
  <2> QED
      BY <1>4, <2>1
<1>11. one.made \subseteq Bracket \X Hows
    BY <1>6, <1>10 DEF Hows
<1>12. ASSUME NEW log, \/ how \in Ends /\ log = Log(run) \cup {event}
                       \/ how \notin Ends /\ (log = Log(run) 
                                            \/ (call_[1] \notin Calling /\ log = Log(run) \cup {event})),
              Enumerated(Log(run), old.row.counts, old.open, was.made),
              Concluded(Log(run), old.open, was.made)
       PROVE  /\ Enumerated(log, old.row.counts, left.open, one.made)
              /\ Concluded(log, left.open, one.made)
  <2>1. event.kind = call_[1] /\ event.index = call_[2] /\ event.type = how
      BY <1>9
  <2>2. left.open = old.open \ {call_} /\ one.made = was.made \cup {<<call_, how>>}
      BY <1>8, <1>10
  <2>3. CASE call_[1] \in Calling
    <3>1. PICK kind, index : kind = call_[1] /\ index = call_[2]
        OBVIOUS
    <3>2. call_ = <<kind, index>>
        BY <1>6, <3>1
    <3>3. /\ Enumerated(log, old.row.counts, old.open \ {<<kind, index>>}, was.made \cup {<<<<kind, index>>, how>>})
          /\ Concluded(log, old.open \ {<<kind, index>>}, was.made \cup {<<<<kind, index>>, how>>})
      <4>1. (how \in Ends /\ log = Log(run) \cup {event}) \/ (how \notin Ends /\ log = Log(run))
          BY <1>12, <2>3
      <4>2. kind \in Calling /\ <<kind, index>> \in old.open
          BY <1>5, <2>3, <3>1, <3>2
      <4>3. event.kind = kind /\ event.index = index /\ event.type = how
          BY <2>1, <3>1
      <4> HIDE DEF Calling
      <4> QED
          BY <1>12, <4>1, <4>2, <4>3, CallLeft
    <3> QED
        BY <2>2, <3>2, <3>3
  <2>4. CASE call_[1] \notin Calling
    <3>1. \A c \in old.open \cup left.open : c[1] \in Calling => (c \in old.open <=> c \in left.open)
        BY <2>2, <2>4
    <3>2. was.made \subseteq one.made /\ \A m \in one.made \ was.made : m[1][1] \notin Calling
        BY <2>2, <2>4
    <3> QED
        BY <1>12, <2>1, <2>4, <3>1, <3>2, Noted
  <2> QED
      BY <2>3, <2>4
<1>13. /\ one = [attempts |-> told[run].attempts, ended |-> told[run].ended,
                 brackets |-> one.brackets, made |-> one.made]
       /\ one.brackets \in Nat
    BY <1>1, <1>10
<1>14. /\ left.finished = active[run].finished /\ left.seq = active[run].seq
       /\ left.pending = active[run].pending /\ left.row = active[run].row
       /\ event.seq = left.seq + 1
    BY <1>1, <1>8, <1>9
<1>15. CASE how # "cancelled"
  <2>1. T!Emit(run, left, event)
      BY <1>1, <1>2, <1>3, <1>15, Zenon DEF T!Leave
  <2>2. how \in Ends
      BY <1>15 DEF Ends
  <2>3. Enumerated(Log(run), active[run].row.counts, active[run].open, told[run].made)
         /\ Concluded(Log(run), active[run].open, told[run].made) =>
            /\ Enumerated(Log(run) \cup {event}, left.row.counts, left.open, one.made)
            /\ Concluded(Log(run) \cup {event}, left.open, one.made)
      BY <1>1, <1>12, <1>14, <2>2
  <2> QED
      BY <1>5, <1>8, <1>9, <1>11, <1>13, <1>14, <2>1, <2>3, EventStep
<1>16. CASE how = "cancelled"
  <2>1. active' = [active EXCEPT ![run] = left] /\ UNCHANGED db
      BY <1>1, <1>2, <1>16, Zenon DEF T!Leave
  <2>2. active'[run] = left
      BY <2>1 DEF TraceInv, ActiveTypeOK
  <2>3. ToldTypeOK' /\ told'[run] = one /\ \A other \in Run \ {run} : told'[other] = told[other]
    <3>1. told[run].attempts \in Nat /\ told[run].ended \in Outcomes \cup {"died"}
        BY DEF TraceInv, ToldTypeOK
    <3> QED
        BY <1>5, <1>11, <1>13, <3>1, ToldTyped DEF TraceInv
  <2>4. told'[run].attempts = told[run].attempts /\ told'[run].ended = told[run].ended
        /\ told'[run].made = one.made
      BY <1>13, <2>3
  <2>5. (T!Working(run))' /\ RunTraced(run) /\ active'[run].row = active[run].row
        /\ active'[run].pending = active[run].pending /\ active'[run].seq = active[run].seq
        /\ active'[run].open = left.open
      BY <1>5, <1>14, <2>2 DEF TraceInv, T!Working
  <2>6. Attempted(run)' /\ RowKept(run)'
    <3>1. told[run].attempts > 0
        BY <1>5, <2>5 DEF RunTraced, Attempted
    <3>2. told[run].attempts \in Nat
        BY DEF TraceInv, ToldTypeOK
    <3>3. Attempted(run)'
        BY <1>5, <2>4, <2>5, <3>1, <3>2 DEF RunTraced, Attempted
    <3>4. RowKept(run)'
        BY <1>5, <2>1, <2>4, <2>5 DEF RunTraced, RowKept
    <3> QED
        BY <3>3, <3>4
  <2>7. ASSUME Traced(run)' PROVE Apart(active'[run], db'.events[run]) /\ LogTrue(run)'
    <3>1. Apart(active[run], db.events[run]) /\ LogTrue(run)
        BY <1>5, <2>1, <2>4, <2>5, <2>7 DEF RunTraced, Traced
    <3>2. Apart(active'[run], db'.events[run])
        BY <2>1, <2>5, <3>1 DEF Apart
    <3>3. Log(run)' = Log(run)
        BY <2>1, <2>5 DEF Log
    <3>4. Counts(run)' = old.row.counts /\ Counts(run) = old.row.counts
        BY <1>1, <1>5, <2>5 DEF Counts
    <3>5. "cancelled" \notin Ends
        BY DEF Ends
    <3>6. /\ Enumerated(Log(run), old.row.counts, left.open, one.made)
          /\ Concluded(Log(run), left.open, one.made)
      <4>1. /\ Enumerated(Log(run), old.row.counts, old.open, was.made)
            /\ Concluded(Log(run), old.open, was.made)
          BY <1>1, <3>1, <3>4 DEF LogTrue
      <4> QED
          BY <1>12, <1>16, <3>5, <4>1
    <3> QED
        BY <2>4, <2>5, <3>2, <3>3, <3>4, <3>6 DEF LogTrue
  <2>8. RunTraced(run)'
      BY <2>6, <2>7 DEF RunTraced
  <2> QED
      BY <1>8, <2>1, <2>2, <2>3, <2>8, OneTurn DEF TraceInv
<1> QED
    BY <1>15, <1>16

LEMMA TurnFinishes ==
  ASSUME TraceInv, NEW run \in Run, NEW outcome \in {"answer_delivered", "failed"}, T!Finish(run, outcome)
  PROVE  TraceInv'
<1>1. PICK old : old = active[run]
    OBVIOUS
<1>2. PICK type : type = IF outcome = "failed" THEN "turn_failed" ELSE "turn_finished"
    OBVIOUS
<1>3. PICK event : event = T!Event(old, type, "none", 0)
    OBVIOUS
<1>4. PICK row : row = [old.row EXCEPT !.outcome = outcome,
                          !.status = IF outcome = "failed" THEN "failed" ELSE "completed"]
    OBVIOUS
<1>5. PICK with : with = T!With(old, event)
    OBVIOUS
<1>6. PICK closed : closed = [with EXCEPT !.row = row, !.finished = TRUE]
    OBVIOUS
<1>7. closed = T!Closed(old, outcome)
    BY <1>2, <1>3, <1>4, <1>5, <1>6, Zenon DEF T!Closed, T!NoOutcome
<1>8. PICK one : one = [told[run] EXCEPT !.ended = outcome]
    OBVIOUS
<1>9. /\ T!Working(run) /\ old.open = {}
      /\ active' = [active EXCEPT ![run] = T!Flushed(closed)]
      /\ \E state \in T!RecordEvents(db, run, closed.pending) : db' \in T!WriteRow(state, run, closed.row)
      /\ told' = [told EXCEPT ![run] = one]
    BY <1>1, <1>7, <1>8, Zenon DEF T!Finish
<1>10. Recording(old)
    BY <1>1 DEF TraceInv, ActiveTypeOK
<1>11. row \in Rows /\ row.counts = old.row.counts /\ row.outcome = outcome
  <2>1. old.row = [status |-> old.row.status, outcome |-> old.row.outcome, counts |-> old.row.counts]
        /\ old.row.counts \in [Kind -> Nat]
      BY <1>10 DEF Recording, Rows
  <2>2. row = [status |-> IF outcome = "failed" THEN "failed" ELSE "completed", outcome |-> outcome,
               counts |-> old.row.counts]
      BY <1>4, <2>1
  <2> QED
      BY <2>1, <2>2 DEF Rows, Statuses, Outcomes
<1>12. /\ event = [seq |-> old.seq + 1, type |-> type, kind |-> "none", index |-> 0]
       /\ event \in Events
    BY <1>2, <1>3, <1>10 DEF T!Event, Events, Recording
<1>13. /\ with = [seq |-> event.seq, pending |-> Append(old.pending, event), finished |-> old.finished,
                  open |-> old.open, row |-> old.row]
       /\ closed = [seq |-> event.seq, pending |-> Append(old.pending, event), finished |-> TRUE,
                    open |-> {}, row |-> row]
  <2>1. with = [old EXCEPT !.seq = event.seq, !.pending = Append(old.pending, event)]
      BY <1>5, Zenon DEF T!With
  <2>2. with = [seq |-> event.seq, pending |-> Append(old.pending, event), finished |-> old.finished,
                open |-> old.open, row |-> old.row]
      BY <1>10, <2>1 DEF Recording
  <2> QED
      BY <1>6, <1>9, <2>2
<1>14. Append(old.pending, event) \in Seq(Events)
    BY <1>10, <1>12, AppendProperties DEF Recording
<1>15. ToSet(closed.pending) = ToSet(old.pending) \cup {event}
  <2> DEFINE past == old.pending  new == Append(past, event)
  <2>1. past \in Seq(Events) /\ new \in Seq(Events) /\ closed.pending = new
      BY <1>10, <1>13, <1>14 DEF Recording
  <2>2. /\ Len(new) = Len(past) + 1 /\ DOMAIN past = 1..Len(past) /\ DOMAIN new = 1..Len(new)
        /\ Len(past) \in Nat
        /\ \A i \in 1..Len(past) : new[i] = past[i]
        /\ new[Len(past) + 1] = event
      BY <1>12, <2>1, AppendProperties, LenProperties
  <2> HIDE DEF past, new
  <2>3. {new[i] : i \in DOMAIN new} = {past[i] : i \in DOMAIN past} \cup {event}
      BY <2>2
  <2> QED
      BY <2>1, <2>3 DEF ToSet, past
<1>16. PICK flushed : flushed = T!Flushed(closed)
    OBVIOUS
<1>17. /\ flushed = [seq |-> event.seq, pending |-> <<>>, finished |-> TRUE, open |-> {}, row |-> row]
       /\ Recording(flushed)
  <2>1. flushed = [seq |-> event.seq, pending |-> <<>>, finished |-> TRUE, open |-> {}, row |-> row]
      BY <1>13, <1>16 DEF T!Flushed
  <2>2. <<>> \in Seq(Events)
      BY EmptySeq
  <2> QED
      BY <1>11, <1>12, <2>1, <2>2 DEF Recording, Events
<1>18. active'[run] = flushed /\ active' = [active EXCEPT ![run] = flushed]
    BY <1>9, <1>16 DEF TraceInv, ActiveTypeOK
<1>19. PICK state \in T!RecordEvents(db, run, closed.pending) : db' \in T!WriteRow(state, run, closed.row)
    BY <1>9
<1>20. /\ Stored(state) /\ state.rows = db.rows
       /\ state.lost = db.lost \/ state.lost = db.lost \cup {run}
       /\ \A other \in Run \ {run} : state.events[other] = db.events[other]
       /\ run \notin state.lost => state.events[run] = T!Inserted(db.events[run], closed.pending)
  <2>1. closed.pending \in Seq(Events)
      BY <1>13, <1>14
  <2> QED
      BY <1>19, <2>1, EventsRecorded DEF TraceInv
<1>21. /\ Stored(db') /\ db'.events = state.events
       /\ db'.lost = state.lost \/ db'.lost = state.lost \cup {run}
       /\ \A other \in Run \ {run} : db'.rows[other] = state.rows[other]
       /\ run \notin db'.lost => db'.rows[run] = row
  <2>1. closed.row = row
      BY <1>13
  <2> QED
      BY <1>11, <1>19, <1>20, <2>1, RowWritten
<1>22. /\ one = [attempts |-> told[run].attempts, ended |-> outcome, brackets |-> told[run].brackets,
                 made |-> told[run].made]
       /\ ToldTypeOK' /\ told'[run] = one /\ \A other \in Run \ {run} : told'[other] = told[other]
  <2>1. PICK was : was = told[run]
      OBVIOUS
  <2>2. was = [attempts |-> was.attempts, ended |-> was.ended, brackets |-> was.brackets,
               made |-> was.made]
      BY <2>1, ToldIs DEF TraceInv
  <2>3. one = [attempts |-> was.attempts, ended |-> outcome, brackets |-> was.brackets, made |-> was.made]
      BY <1>8, <2>1, <2>2
  <2>4. /\ was.attempts \in Nat /\ outcome \in Outcomes \cup {"died"} /\ was.brackets \in Nat
        /\ was.made \subseteq Bracket \X Hows
      BY <2>1, ToldIs DEF TraceInv, Outcomes
  <2>5. /\ one = [attempts |-> one.attempts, ended |-> one.ended, brackets |-> one.brackets,
                   made |-> one.made]
        /\ one.attempts \in Nat /\ one.ended \in Outcomes \cup {"died"} /\ one.brackets \in Nat
        /\ one.made \subseteq Bracket \X Hows
      BY <2>3, <2>4
  <2> QED
      BY <1>9, <2>1, <2>3, <2>5, ToldTyped, ZenonT(60) DEF TraceInv
<1>23. RunTraced(run) /\ ~(T!Working(run))' /\ told[run].attempts > 0 /\ told[run].attempts \in Nat
  <2>1. RunTraced(run) /\ told[run].attempts \in Nat
      BY DEF TraceInv, ToldTypeOK
  <2> QED
      BY <1>9, <1>17, <1>18, <2>1 DEF T!Working, RunTraced, Attempted
<1>24. Attempted(run)' /\ RowKept(run)'
  <2>1. told'[run].attempts = told[run].attempts /\ told'[run].ended = outcome
      BY <1>22
  <2>2. Attempted(run)'
      BY <1>17, <1>18, <1>23, <2>1 DEF Attempted
  <2>3. RowKept(run)'
      BY <1>11, <1>21, <1>23, <2>1 DEF RowKept
  <2> QED
      BY <2>2, <2>3
<1>25. ASSUME Traced(run)' PROVE LogTrue(run)'
  <2>1. told[run].attempts = 1 /\ run \notin db'.lost /\ run \notin state.lost /\ run \notin db.lost
      BY <1>20, <1>21, <1>22, <1>25 DEF Traced
  <2>2. told[run].ended = "none"
      BY <1>9, <1>23 DEF RunTraced, Attempted
  <2>3. Apart(old, db.events[run]) /\ LogTrue(run)
      BY <1>1, <1>9, <1>23, <2>1, <2>2 DEF RunTraced, Traced
  <2>4. \A e \in db.events[run], f \in ToSet(closed.pending) : e.seq # f.seq
    <3>1. \A e \in db.events[run] : e.seq \in Nat /\ e.seq <= old.seq
        BY <2>3 DEF TraceInv, Stored, Events, Apart
    <3>2. event.seq = old.seq + 1 /\ old.seq \in Nat
        BY <1>10, <1>12 DEF Recording
    <3> QED
        BY <1>15, <2>3, <3>1, <3>2 DEF Apart
  <2>5. db'.events[run] = db.events[run] \cup ToSet(closed.pending)
      BY <1>20, <1>21, <2>1, <2>4 DEF T!Inserted, ToSet
  <2>6. ToSet(<<>>) = {}
    <3>1. DOMAIN <<>> = {}
        BY EmptySeq
    <3> QED
        BY <3>1 DEF ToSet
  <2>7. Log(run)' = Log(run) \cup {event}
      BY <1>1, <1>15, <1>17, <1>18, <2>5, <2>6 DEF Log
  <2>8. Counts(run)' = old.row.counts /\ Counts(run) = old.row.counts
      BY <1>1, <1>9, <1>11, <1>21, <1>23, <2>1 DEF Counts
  <2>9. active'[run].open = {} /\ active[run].open = {} /\ told'[run].made = told[run].made
      BY <1>1, <1>9, <1>17, <1>18, <1>22
  <2>10. event.kind \notin Calling
      BY <1>12, KindsKnown DEF Calling
  <2>11. PICK longer, made : longer = Log(run) \cup {event} /\ made = told[run].made
      OBVIOUS
  <2>12. Enumerated(Log(run), old.row.counts, {}, made) /\ Concluded(Log(run), {}, made)
      BY <2>3, <2>8, <2>9, <2>11 DEF LogTrue
  <2>13. Enumerated(longer, old.row.counts, {}, made) /\ Concluded(longer, {}, made)
    <3>1. /\ \A e \in longer : e.kind \in Calling => e \in Log(run)
          /\ Log(run) \subseteq longer
        BY <2>10, <2>11
    <3>2. \A kind \in Calling : \A k \in 1..old.row.counts[kind] :
             /\ \E e \in longer : e.kind = kind /\ e.index = k
             /\ \E m \in made : m[1] = <<kind, k>>
      <4> SUFFICES ASSUME NEW kind \in Calling, NEW k \in 1..old.row.counts[kind]
                   PROVE  /\ \E e \in longer : e.kind = kind /\ e.index = k
                          /\ \E m \in made : m[1] = <<kind, k>>
          OBVIOUS
      <4>1. \E e \in Log(run) : e.kind = kind /\ e.index = k
          BY <2>12 DEF Enumerated
      <4>2. \E m \in made : m[1] = <<kind, k>>
          BY <2>12 DEF Enumerated
      <4> QED
          BY <3>1, <4>1, <4>2
    <3>3. Enumerated(longer, old.row.counts, {}, made)
      <4>1. \A e \in longer : e.kind \in Calling => e.index \in 1..old.row.counts[e.kind]
          BY <2>12, <3>1 DEF Enumerated
      <4>2. \A m \in made : m[1][1] \in Calling => m[1][2] \in 1..old.row.counts[m[1][1]]
          BY <2>12 DEF Enumerated
      <4> QED
          BY <3>2, <4>1, <4>2 DEF Enumerated
    <3>4. Concluded(longer, {}, made)
        BY <2>12, <3>1 DEF Concluded
    <3> QED
        BY <3>3, <3>4
  <2> QED
      BY <2>7, <2>8, <2>9, <2>11, <2>13 DEF LogTrue
<1>26. RunTraced(run)'
    BY <1>23, <1>24, <1>25 DEF RunTraced
<1>27. db'.lost = db.lost \/ db'.lost = db.lost \cup {run}
    BY <1>20, <1>21
<1> QED
    BY <1>17, <1>18, <1>20, <1>21, <1>22, <1>26, <1>27, OneTurn

LEMMA TurnReleased == ASSUME TraceInv, NEW run \in Run, T!Release(run) PROVE TraceInv'
<1>1. /\ active' = [active EXCEPT ![run] = T!NoRecorder] /\ UNCHANGED <<db, told>>
      /\ ~T!Working(run)
    BY DEF T!Release, T!Working
<1>2. active'[run] = T!NoRecorder
    BY <1>1 DEF TraceInv, ActiveTypeOK
<1>3. ~(T!Working(run))' /\ active'[run].open = {} /\ active'[run].pending = <<>>
    BY <1>2, Nobody DEF T!Working
<1>4. RunTraced(run) /\ active[run].open = {} /\ active[run].pending = <<>>
    BY <1>1 DEF TraceInv, RunTraced, Attempted
<1>5. Attempted(run)' /\ RowKept(run)'
    BY <1>1, <1>3, <1>4 DEF RunTraced, Attempted, RowKept
<1>6. Log(run)' = Log(run) /\ Counts(run)' = Counts(run) /\ (Traced(run)' <=> Traced(run))
    BY <1>1, <1>3, <1>4 DEF Log, Counts, Traced
<1>7. LogTrue(run)' <=> LogTrue(run)
    BY <1>1, <1>3, <1>4, <1>6 DEF LogTrue
<1>8. RunTraced(run)'
    BY <1>3, <1>4, <1>5, <1>6, <1>7 DEF RunTraced
<1>9. /\ active' = [active EXCEPT ![run] = active'[run]] /\ Recording(active'[run])
      /\ Stored(db') /\ db' = db /\ ToldTypeOK' /\ told' = told
    BY <1>1, <1>2, Nobody DEF TraceInv, ToldTypeOK
<1> QED
    BY <1>8, <1>9, OneTurn

(* A death ends every turn under way, and leaves the tables as they are.   *)
LEMMA ProcessDies == ASSUME TraceInv, T!Die PROVE TraceInv'
<1>1. /\ active' = [run \in Run |-> T!NoRecorder]
      /\ db' = [db EXCEPT !.conn = "none"]
      /\ told' = [run \in Run |-> IF T!Working(run) THEN [told[run] EXCEPT !.ended = "died"] ELSE told[run]]
    BY DEF T!Die
<1>2. ActiveTypeOK' /\ \A run \in Run : active'[run] = T!NoRecorder
    BY <1>1, Nobody DEF ActiveTypeOK
<1>3. Stored(db') /\ db'.rows = db.rows /\ db'.events = db.events /\ db'.lost = db.lost
    BY <1>1 DEF TraceInv, Stored
<1>4. ASSUME NEW run \in Run
      PROVE  /\ told'[run] = [attempts |-> told[run].attempts,
                              ended |-> IF T!Working(run) THEN "died" ELSE told[run].ended,
                              brackets |-> told[run].brackets, made |-> told[run].made]
             /\ told[run].attempts \in Nat /\ told[run].ended \in Outcomes \cup {"died"}
             /\ told[run].brackets \in Nat /\ told[run].made \subseteq Bracket \X Hows
  <2>1. PICK was : was = told[run]
      OBVIOUS
  <2>2. was = [attempts |-> was.attempts, ended |-> was.ended, brackets |-> was.brackets,
               made |-> was.made]
      BY <2>1, ToldIs DEF TraceInv
  <2>3. told'[run] = IF T!Working(run) THEN [was EXCEPT !.ended = "died"] ELSE was
      BY <1>1, <2>1
  <2>4. told'[run] = [attempts |-> was.attempts, ended |-> IF T!Working(run) THEN "died" ELSE was.ended,
                      brackets |-> was.brackets, made |-> was.made]
      BY <2>2, <2>3
  <2> QED
      BY <2>1, <2>4, ToldIs DEF TraceInv
<1>5. ToldTypeOK'
  <2>1. told' = [run \in Run |-> told'[run]]
      BY <1>1
  <2>2. ASSUME NEW run \in Run
        PROVE  told'[run] \in [attempts : Nat, ended : Outcomes \cup {"died"}, brackets : Nat,
                               made : SUBSET (Bracket \X Hows)]
    <3>1. PICK one, ended_ : one = told'[run] /\ ended_ = IF T!Working(run) THEN "died" ELSE told[run].ended
        OBVIOUS
    <3>2. ended_ \in Outcomes \cup {"died"}
        BY <1>4, <3>1
    <3>3. one = [attempts |-> told[run].attempts, ended |-> ended_, brackets |-> told[run].brackets,
                 made |-> told[run].made]
        BY <1>4, <3>1
    <3> QED
        BY <1>4, <3>1, <3>2, <3>3
  <2> QED
      BY <2>1, <2>2 DEF ToldTypeOK
<1>6. ASSUME NEW run \in Run PROVE RunTraced(run)'
  <2>1. /\ told'[run].attempts = told[run].attempts /\ told'[run].made = told[run].made
        /\ told'[run].ended = IF T!Working(run) THEN "died" ELSE told[run].ended
    <3>1. PICK one, ended_ : one = told'[run] /\ ended_ = IF T!Working(run) THEN "died" ELSE told[run].ended
        OBVIOUS
    <3>2. one = [attempts |-> told[run].attempts, ended |-> ended_, brackets |-> told[run].brackets,
                 made |-> told[run].made]
        BY <1>4, <3>1
    <3>3. one.attempts = told[run].attempts /\ one.made = told[run].made /\ one.ended = ended_
        BY <3>2
    <3> QED
        BY <3>1, <3>3
  <2>2. ~(T!Working(run))' /\ active'[run].open = {} /\ active'[run].pending = <<>>
      BY <1>2, Nobody DEF T!Working
  <2>3. RunTraced(run) /\ told[run].attempts \in Nat
      BY <1>4 DEF TraceInv
  <2>4. Attempted(run)'
      BY <1>3, <2>1, <2>2, <2>3 DEF RunTraced, Attempted
  <2>5. RowKept(run)'
      BY <1>3, <2>1, <2>2, <2>3 DEF RunTraced, RowKept
  <2>6. ASSUME Traced(run)' PROVE LogTrue(run)'
    <3>1. ~T!Working(run) /\ Traced(run)
        BY <1>3, <2>1, <2>6 DEF Traced
    <3>2. active[run].open = {} /\ active[run].pending = <<>>
        BY <2>3, <3>1 DEF RunTraced, Attempted
    <3>3. Log(run)' = Log(run) /\ Counts(run)' = Counts(run)
        BY <1>3, <2>2, <3>1, <3>2 DEF Log, Counts
    <3> QED
        BY <2>1, <2>2, <2>3, <3>1, <3>2, <3>3 DEF RunTraced, LogTrue
  <2> QED
      BY <2>2, <2>4, <2>5, <2>6 DEF RunTraced
<1> QED
    BY <1>2, <1>3, <1>5, <1>6 DEF TraceInv

LEMMA TraceStep == TraceInv /\ [T!Next]_traced => TraceInv'
<1> SUFFICES ASSUME TraceInv, [T!Next]_traced PROVE TraceInv'
    OBVIOUS
<1>1. CASE T!Die
    BY <1>1, ProcessDies
<1>2. ASSUME NEW run \in Run, T!Start(run) \/ T!Release(run) PROVE TraceInv'
    BY <1>2, TurnStarts, TurnReleased
<1>3. ASSUME NEW run \in Run, NEW kind \in Kind, T!Open(run, kind) PROVE TraceInv'
    BY <1>3, BracketOpens
<1>4. ASSUME NEW run \in Run, NEW outcome \in {"answer_delivered", "failed"}, T!Finish(run, outcome)
      PROVE  TraceInv'
    BY <1>4, TurnFinishes
<1>5. ASSUME NEW run \in Run, NEW call_ \in Kind \X (0..MaxBrackets), T!FirstToken(run, call_)
      PROVE  TraceInv'
    BY <1>5, TokenComes
<1>6. ASSUME NEW run \in Run, NEW call_ \in Kind \X (0..MaxBrackets),
             NEW how \in {"finished", "failed", "cancelled"}, T!Leave(run, call_, how)
      PROVE  TraceInv'
    BY <1>6, BracketLeft
<1>7. CASE UNCHANGED traced
    BY <1>7 DEF traced, TraceInv, ActiveTypeOK, ToldTypeOK, RunTraced, Attempted, RowKept, Traced,
                LogTrue, Log, Counts, T!Working
<1> QED
    BY <1>1, <1>2, <1>3, <1>4, <1>5, <1>6, <1>7, Zenon DEF T!Next

LEMMA TraceMoves == [ServicesNext]_<<family, services, vars>> => [T!Next]_traced
    BY DEF ServicesNext, Poll, Store, Trace, Serve, Graph, Browse, Remember, Talk, services

LEMMA TracesHold == ServicesSpec => []TraceInv
<1>1. ServicesInit => TraceInv
    BY TracesStart DEF ServicesInit
<1>2. TraceInv /\ [ServicesNext]_<<family, services, vars>> => TraceInv'
    BY TraceStep, TraceMoves
<1> QED
    BY <1>1, <1>2, PTL DEF ServicesSpec

(* How one call is read back: its ending, if there is one.                 *)
EndsIn(log, kind, index) ==
  {event \in {e \in log : e.kind = kind /\ e.index = index} : event.type \in {"finished", "failed"}}
ReadBack(log, kind, index) ==
  IF EndsIn(log, kind, index) = {} THEN "none"
  ELSE (CHOOSE last \in EndsIn(log, kind, index) :
           \A other \in EndsIn(log, kind, index) : other.seq <= last.seq).type
HowsOf(made, call_) == {m[2] : m \in {n \in made : n[1] = call_}} \cap {"finished", "failed"}

LEMMA ReadAsMade ==
  ASSUME NEW log \in SUBSET Events, NEW made, NEW kind \in Calling, NEW index,
         Concluded(log, {}, made)
  PROVE  ReadBack(log, kind, index) =
           IF HowsOf(made, <<kind, index>>) = {} THEN "none"
           ELSE CHOOSE how \in HowsOf(made, <<kind, index>>) : TRUE
<1>1. PICK ends, hows : ends = EndsIn(log, kind, index) /\ hows = HowsOf(made, <<kind, index>>)
    OBVIOUS
<1>2. \A e \in ends : e \in log /\ e.kind = kind /\ e.index = index /\ e.type \in Ends /\ e.seq \in Nat
    BY <1>1 DEF EndsIn, Ends, Events
<1>3. ASSUME NEW how \in hows PROVE \E e \in ends : e.type = how
  <2>1. PICK m \in made : m[1] = <<kind, index>> /\ m[2] = how /\ how \in Ends
      BY <1>1, <1>3 DEF HowsOf, Ends
  <2>2. m[1][1] = kind
      BY <2>1
  <2>3. PICK e \in log : <<e.kind, e.index>> = m[1] /\ e.type = m[2]
      BY <2>1, <2>2 DEF Concluded
  <2>4. e.kind = kind /\ e.index = index
      BY <2>1, <2>3
  <2> QED
      BY <1>1, <2>1, <2>3, <2>4 DEF EndsIn, Ends
<1>4. ASSUME NEW e \in ends PROVE e.type \in hows /\ \A f \in ends : f = e
  <2>1. <<<<e.kind, e.index>>, e.type>> \in made
      BY <1>2 DEF Concluded
  <2>2. PICK m \in made : m = <<<<kind, index>>, e.type>>
      BY <1>2, <2>1
  <2>3. m[1] = <<kind, index>> /\ m[2] = e.type
      BY <2>2
  <2>4. e.type \in hows
      BY <1>1, <1>2, <2>3 DEF HowsOf, Ends
  <2>5. \A f \in ends : f = e
      BY <1>2 DEF Concluded
  <2> QED
      BY <2>4, <2>5
<1>5. CASE ends = {}
  <2>1. hows = {}
      BY <1>3, <1>5
  <2> QED
      BY <1>1, <1>5, <2>1 DEF ReadBack
<1>6. CASE ends # {}
  <2>1. PICK e \in ends : TRUE
      BY <1>6
  <2>2. (CHOOSE last \in ends : \A other \in ends : other.seq <= last.seq) = e
    <3>1. \A other \in ends : other.seq <= e.seq
        BY <1>2, <1>4
    <3>2. PICK end : end = CHOOSE last \in ends : \A other \in ends : other.seq <= last.seq
        OBVIOUS
    <3>3. end \in ends
        BY <3>1, <3>2
    <3> QED
        BY <1>4, <3>2, <3>3
  <2>3. hows = {e.type}
      BY <1>3, <1>4
  <2>4. (CHOOSE how \in hows : TRUE) = e.type
      BY <2>3
  <2> QED
      BY <1>1, <1>6, <2>2, <2>3, <2>4 DEF ReadBack
<1> QED
    BY <1>5, <1>6

\* A turn that ended, and none of whose writes failed, reads back as it went,
\* whatever ran beside it and however its events were batched; and one that died
\* is found (trace.py, inspect.py, base.py).
THEOREM ReadsAsItWent == ServicesSpec => []TracesAreTrue
<1>1. TraceInv => TracesAreTrue
  <2> SUFFICES ASSUME TraceInv, NEW run \in Run
               PROVE  /\ Whole(run) =>
                          /\ db.rows[run].outcome = told[run].ended
                          /\ \A kind \in Kind \ {"step"} :
                               /\ db.rows[run].counts[kind] = Cardinality(Calls(run, kind))
                               /\ T!CallsRead(kind, db.events[run]) =
                                     {<<index, Ending(run, <<kind, index>>)>> : index \in Calls(run, kind)}
                      /\ told[run].ended = "died" /\ run \notin db.lost => T!Unsuccessful(db.rows[run])
      BY Zenon DEF TracesAreTrue, TraceReadsBack, CrashIsFound
  <2>1. RunTraced(run)
      BY DEF TraceInv
  <2>2. told[run].ended = "died" /\ run \notin db.lost => T!Unsuccessful(db.rows[run])
    <3>1. T!NoRow.status = "none"
        BY DEF T!NoRow, T!NoOutcome
    <3> QED
        BY <2>1, <3>1 DEF RunTraced, RowKept, T!Unsuccessful
  <2>3. ASSUME Whole(run)
        PROVE  /\ db.rows[run].outcome = told[run].ended
               /\ \A kind \in Kind \ {"step"} :
                    /\ db.rows[run].counts[kind] = Cardinality(Calls(run, kind))
                    /\ T!CallsRead(kind, db.events[run]) =
                          {<<index, Ending(run, <<kind, index>>)>> : index \in Calls(run, kind)}
    <3>1. /\ told[run].attempts = 1 /\ told[run].ended \notin {"none", "died"} /\ run \notin db.lost
          /\ Traced(run)
        BY <2>3 DEF Whole, T!NoOutcome, Traced
    <3>2. db.rows[run].outcome = told[run].ended
        BY <2>1, <3>1 DEF RunTraced, RowKept
    <3>3. ~T!Working(run) /\ active[run].pending = <<>> /\ active[run].open = {}
        BY <2>1, <3>1 DEF RunTraced, Attempted
    <3>4. PICK log, counts, made : log = db.events[run] /\ counts = db.rows[run].counts /\ made = told[run].made
        OBVIOUS
    <3>5. log \in SUBSET Events /\ counts \in [Kind -> Nat]
        BY <3>4 DEF TraceInv, Stored, Rows
    <3>6. ToSet(<<>>) = {}
      <4>1. DOMAIN <<>> = {}
          BY EmptySeq
      <4> QED
          BY <4>1 DEF ToSet
    <3>7. Enumerated(log, counts, {}, made) /\ Concluded(log, {}, made)
      <4>1. Log(run) = log /\ Counts(run) = counts
          BY <3>3, <3>4, <3>6 DEF Log, Counts
      <4> QED
          BY <2>1, <3>1, <3>3, <3>4, <4>1 DEF RunTraced, LogTrue
    <3>8. ASSUME NEW kind \in Calling
          PROVE  /\ counts[kind] = Cardinality(Calls(run, kind))
                 /\ T!CallsRead(kind, log) =
                       {<<index, Ending(run, <<kind, index>>)>> : index \in Calls(run, kind)}
      <4>1. counts[kind] \in Nat
          BY <3>5 DEF Calling
      <4>2. Calls(run, kind) = 1..counts[kind]
        <5>1. \A m \in made : m[1][1] = kind => m[1][2] \in 1..counts[kind]
            BY <3>7 DEF Enumerated
        <5>2. \A k \in 1..counts[kind] : \E m \in made : m[1] = <<kind, k>>
            BY <3>7 DEF Enumerated
        <5>3. \A k \in 1..counts[kind] : \E m \in made : m[1][1] = kind /\ m[1][2] = k
            BY <5>2
        <5> QED
            BY <3>4, <5>1, <5>3 DEF Calls
      <4>3. Cardinality(1..counts[kind]) = counts[kind]
          BY <4>1, FS_Interval
      <4>4. {event.index : event \in {e \in log : e.kind = kind}} = 1..counts[kind]
        <5>1. \A e \in log : e.kind = kind => e.index \in 1..counts[kind]
            BY <3>7 DEF Enumerated
        <5>2. \A k \in 1..counts[kind] : \E e \in log : e.kind = kind /\ e.index = k
            BY <3>7 DEF Enumerated
        <5> QED
            BY <5>1, <5>2
      <4>5. T!CallsRead(kind, log) = {<<index, ReadBack(log, kind, index)>> : index \in 1..counts[kind]}
          BY <4>4 DEF T!CallsRead, ReadBack, EndsIn, T!NoOutcome
      <4>6. ASSUME NEW index \in 1..counts[kind]
            PROVE  Ending(run, <<kind, index>>) = ReadBack(log, kind, index)
        <5>1. PICK hows : hows = HowsOf(made, <<kind, index>>)
            OBVIOUS
        <5>2. hows = {m[2] : m \in {n \in told[run].made : n[1] = <<kind, index>>}} \cap {"finished", "failed"}
            BY <3>4, <5>1 DEF HowsOf
        <5>3. Ending(run, <<kind, index>>) = IF hows = {} THEN "none" ELSE CHOOSE how \in hows : TRUE
            BY <5>2 DEF Ending, T!NoOutcome
        <5>4. ReadBack(log, kind, index) = IF hows = {} THEN "none" ELSE CHOOSE how \in hows : TRUE
          <6> HIDE DEF Calling
          <6> QED
              BY <3>5, <3>7, <5>1, ReadAsMade
        <5> QED
            BY <5>3, <5>4
      <4>7. {<<index, ReadBack(log, kind, index)>> : index \in 1..counts[kind]}
              = {<<index, Ending(run, <<kind, index>>)>> : index \in 1..counts[kind]}
          BY <4>6
      <4> QED
          BY <4>2, <4>3, <4>5, <4>7, Zenon
    <3> QED
        BY <3>2, <3>4, <3>8 DEF Calling
  <2> QED
      BY <2>2, <2>3
<1> QED
    BY <1>1, TracesHold, PTL

----------------------------------------------------------------------------
(* The calls of an answer (ToolCalls).                                     *)

Meant ==
  /\ meant \in Answers /\ shape \in Shapes
  /\ \A i \in Places : damage[i] \in Damages(meant[i]) /\ Sane(damage[i])

Partial == [id : Nat, name : {meant[i].name : i \in Places} \cup {None}, slices : Seq(Nat \X Nat)]
StreamTypeOK == sent \in [Places -> 0..2] /\ partials \in Seq(Partial)

(* What is held of call k at place k: all that was sent of it so far, and  *)
(* nothing of another.                                                     *)
Owned(k) ==
  /\ k \in Places /\ sent[k] > 0
  /\ partials[k].id = Id(k) /\ partials[k].name = meant[k].name
  /\ partials[k].slices = [j \in 1..sent[k] |-> <<k, j>>]

(* Calls are opened in order.  A server that gives every call the same     *)
(* index leaves the fragments of all but the first alone.                  *)
InTurn ==
  \A i, j \in Places : j < i /\ sent[i] > 0 => sent[j] >= (IF shape.index = "given" THEN 1 ELSE 2)
Gathered ==
  IF shape.index = "same"
  THEN /\ 1 \in Places /\ sent[1] > 0 => Len(partials) > 0
       /\ Len(partials) > 0 => Owned(1)
       /\ \A k \in 2..Len(partials) : Len(partials[k].slices) = 1
  ELSE /\ \A i \in Places : sent[i] > 0 <=> i <= Len(partials)
       /\ \A k \in 1..Len(partials) : Owned(k)

(* A call that was read is the one that was meant, or less of it.          *)
Faithful(i, args) ==
  \A a \in DOMAIN args :
     /\ a \in DOMAIN meant[i].args
     /\ args[a] = [word |-> args[a].word, tail |-> args[a].tail, form |-> args[a].form]
     /\ args[a].word = meant[i].args[a].word
     /\ args[a].tail \in {None, meant[i].args[a].tail}
CallsMeant ==
  \A i \in DOMAIN calls :
     \/ calls[i].raw
     \/ /\ i \in Places /\ calls[i].name = meant[i].name
        /\ Faithful(i, calls[i].args)
Judged ==
  /\ stage \in {"stream", "judge"} => prepared = <<>> /\ allowed = {}
  /\ prepared # <<>> => DOMAIN prepared = DOMAIN calls
  /\ allowed \subseteq DOMAIN prepared
  /\ \A i \in DOMAIN prepared :
        /\ prepared[i].refusal \in Refusals \cup {None}
        /\ prepared[i].refusal = None =>
              /\ ~calls[i].raw /\ prepared[i].tool = Resolve(calls[i].name)
              /\ prepared[i].args = Coerced(calls[i].args)
              /\ ~Invalid(prepared[i].tool, prepared[i].args)

Ran == (IF running THEN {At} ELSE {}) \cup landed \cup adrift
ResultsTold ==
  /\ results \in Seq(Codes)
  /\ running \in BOOLEAN /\ (running => stage = "run")
  /\ stage \in {"stream", "judge", "ask"} => results = <<>> /\ ~running
  /\ landed \cup adrift \subseteq 1..Len(results)
  /\ \A i \in 1..Len(results) :
       /\ results[i] = "ok" => i \in landed
       /\ i \in landed => results[i] \in {"ok", "failed", "timeout"}
       /\ i \in adrift => results[i] = "timeout"
  /\ \A i \in Ran : i \in allowed /\ prepared[i].refusal = None

CallsInv == /\ Meant /\ StreamTypeOK /\ InTurn /\ Gathered /\ CallsMeant /\ Judged /\ ResultsTold

LEMMA ServedFaithfully ==
  ASSUME CallsAssumption, Meant, NEW i \in Places, damage[i].kind # "unreadable"
  PROVE  /\ \A a \in DOMAIN Served(i) : Served(i)[a] = [word |-> Served(i)[a].word,
                                          tail |-> Served(i)[a].tail, form |-> Served(i)[a].form]
         /\ \A a \in DOMAIN Served(i) \ {Junk} : a \in DOMAIN meant[i].args
                                                 /\ Served(i)[a].word = meant[i].args[a].word
         /\ ~(Junk \in DOMAIN Served(i) \/ \E a \in DOMAIN Served(i) :
                Served(i)[a].tail \notin DOMAIN Served(i) \cup {None})
            => Faithful(i, Served(i))
<1> DEFINE args == meant[i].args  d == damage[i]
<1>1. /\ {None, Junk} \cap DOMAIN args = {}
      /\ \A a \in DOMAIN args : args[a] = [word |-> args[a].word, tail |-> args[a].tail,
                                           form |-> args[a].form]
  <2>1. meant \in Answers /\ i \in 1..Len(meant)
      BY DEF Meant, Places
  <2>2. i \in DOMAIN meant
      BY <2>1 DEF CallsAssumption
  <2> QED
      BY <2>1, <2>2 DEF CallsAssumption
<1>2. d \in Damages(meant[i]) /\ Sane(d)
    BY DEF Meant
<1>3. CASE d.kind # "swallowed"
  <2>1. Served(i) = args
      BY <1>3 DEF Served
  <2> QED
      BY <2>1, <1>1 DEF Faithful
<1>4. CASE d.kind = "swallowed"
  <2>1. d.into \in DOMAIN args /\ d.lost \in DOMAIN args /\ d.into # d.lost
      BY <1>2, <1>4 DEF Damages, Sane
  <2> DEFINE left == DOMAIN args \ {d.lost}
             all == left \cup (IF d.junk THEN {Junk} ELSE {})
  <2>2. Served(i) = [a \in all |->
           IF a = Junk THEN [word |-> Junk, tail |-> None, form |-> "typed"]
           ELSE IF a = d.into THEN [args[a] EXCEPT !.tail = d.lost] ELSE args[a]]
      BY <1>4 DEF Served
  <2>3. PICK s : s = Served(i)
      OBVIOUS
  <2>4. /\ DOMAIN s = all /\ d.into \in all /\ d.into # Junk /\ d.lost \notin all /\ d.lost # None
      BY <2>1, <2>2, <2>3, <1>1
  <2> HIDE DEF args, d
  <2>5. ASSUME NEW a \in left
        PROVE  /\ a # Junk /\ a \in DOMAIN args /\ s[a].word = args[a].word
               /\ s[a].tail = IF a = d.into THEN d.lost ELSE args[a].tail
               /\ s[a] = [word |-> s[a].word, tail |-> s[a].tail, form |-> s[a].form]
    <3>1. a # Junk /\ a \in DOMAIN args /\ args[a] = [word |-> args[a].word, tail |-> args[a].tail,
                                                      form |-> args[a].form]
        BY <1>1
    <3>2. s[a] = IF a = d.into THEN [args[a] EXCEPT !.tail = d.lost] ELSE args[a]
        BY <3>1, <2>2, <2>3
    <3> QED
        BY <3>1, <3>2
  <2>6. Junk \in all => s[Junk] = [word |-> Junk, tail |-> None, form |-> "typed"]
      BY <2>2, <2>3
  <2>7. s[d.into].tail \notin DOMAIN s \cup {None}
      BY <2>4, <2>5
  <2>8. \A a \in all : s[a] = [word |-> s[a].word, tail |-> s[a].tail, form |-> s[a].form]
      BY <2>5, <2>6
  <2>9. \A a \in all \ {Junk} : a \in DOMAIN args /\ s[a].word = args[a].word
      BY <2>5
  <2> QED
      BY <2>3, <2>4, <2>7, <2>8, <2>9 DEF args
<1> QED
    BY <1>3, <1>4

LEMMA CallsStart == CallsAssumption /\ Init => CallsInv
<1> SUFFICES ASSUME CallsAssumption, Init PROVE CallsInv
    OBVIOUS
<1>1. /\ meant \in Answers /\ shape \in Shapes
      /\ \A i \in Places : damage[i] \in Damages(meant[i]) /\ Sane(damage[i])
      /\ sent = [i \in Places |-> 0] /\ partials = <<>> /\ stage = "stream" /\ calls = <<>>
      /\ prepared = <<>> /\ allowed = {} /\ results = <<>> /\ running = FALSE
      /\ landed = {} /\ adrift = {}
    BY DEF Init
<1>2. Len(meant) \in Nat /\ Len(partials) = 0 /\ Len(results) = 0
    BY <1>1 DEF CallsAssumption
<1>3. Meant /\ StreamTypeOK /\ InTurn
    BY <1>1 DEF Meant, StreamTypeOK, InTurn
<1>4. Gathered
    BY <1>1, <1>2 DEF Gathered, Places
<1>5. CallsMeant /\ Judged
    BY <1>1 DEF CallsMeant, Judged
<1>6. ResultsTold
  <2>1. Ran = {}
      BY <1>1 DEF Ran
  <2>2. results \in Seq(Codes)
      BY <1>1
  <2>3. \A i \in 1..Len(results) : FALSE
      BY <1>2
  <2>4. running \in BOOLEAN /\ landed \cup adrift \subseteq 1..Len(results)
      BY <1>1
  <2> QED
      BY <2>1, <2>2, <2>3, <2>4, <1>1, Zenon DEF ResultsTold
<1> QED
    BY <1>3, <1>4, <1>5, <1>6 DEF CallsInv

LEMMA SendKeeps ==
  ASSUME CallsAssumption, CallsInv, NEW i \in Places, Send(i)
  PROVE  StreamTypeOK' /\ InTurn' /\ Gathered'
<1> DEFINE f == Fragment(i)  n == Len(partials)
           new == f.key > n \/ OpensAnother(partials[f.key], f)
           fresh == [id |-> f.id, name |-> f.name, slices |-> <<f.slice>>]
<1>1. /\ stage = "stream" /\ Sendable(i) /\ partials' = Add(f) /\ sent' = [sent EXCEPT ![i] = @ + 1]
      /\ UNCHANGED source
    BY DEF Send
<1>2. /\ meant' = meant /\ shape' = shape /\ Places' = Places /\ \A k : Id(k)' = Id(k)
    BY <1>1 DEF source, Places, Id
<1>3. /\ Len(meant) \in Nat /\ i \in 1..Len(meant) /\ i \in Nat /\ n \in Nat
      /\ \A k \in Places : sent[k] \in 0..2 /\ meant[k].name # None /\ k \in Nat /\ k > 0
      /\ partials \in Seq(Partial)
  <2>1. meant \in Answers
      BY DEF CallsInv, Meant
  <2>2. Len(meant) \in Nat /\ DOMAIN meant = 1..Len(meant) /\ \A k \in DOMAIN meant : meant[k].name # None
      BY <2>1 DEF CallsAssumption
  <2> QED
      BY <2>2, LenProperties DEF Places, CallsInv, StreamTypeOK
<1>4. /\ shape.index = "given" \/ (shape.index = "omitted" /\ shape.ids)
         \/ (shape.index = "same" /\ shape.ids /\ shape.echo)
    BY DEF CallsInv, Meant, CallsAssumption
<1>5. sent[i] \in {0, 1} /\ sent'[i] = sent[i] + 1 /\ sent' \in [Places -> 0..2]
      /\ \A k \in Places : k # i => sent'[k] = sent[k]
  <2>1. sent[i] < 2 /\ sent[i] \in 0..2
      BY <1>1, <1>3 DEF Sendable
  <2> QED
      BY <2>1, <1>1 DEF CallsInv, StreamTypeOK
<1>6. \A j \in Places : j < i => sent[j] >= (IF shape.index = "given" THEN 1 ELSE 2)
    BY <1>1, <1>3 DEF Sendable, Places
<1>7. InTurn'
  <2> SUFFICES ASSUME NEW p \in Places, NEW q \in Places, q < p, sent'[p] > 0
               PROVE  sent'[q] >= (IF shape.index = "given" THEN 1 ELSE 2)
      BY <1>2 DEF InTurn
  <2>1. sent[q] >= (IF shape.index = "given" THEN 1 ELSE 2)
      BY <1>5, <1>6 DEF CallsInv, InTurn
  <2> QED
      BY <2>1, <1>3, <1>5
<1>8. /\ f = [key |-> f.key, id |-> f.id, name |-> f.name, slice |-> f.slice]
      /\ f.slice = <<i, sent[i] + 1>> /\ f.id \in {0, Id(i)} /\ f.name \in {None, meant[i].name}
      /\ sent[i] = 0 \/ shape.echo => f.id = Id(i) /\ f.name = meant[i].name
      /\ f.key = CASE shape.index = "given" -> i [] shape.index = "same" -> 1
                   [] shape.index = "omitted" -> IF partials = <<>> THEN 1 ELSE Len(partials)
  <2>1. f = [key |-> CASE shape.index = "given" -> i [] shape.index = "same" -> 1
                       [] shape.index = "omitted" -> IF partials = <<>> THEN 1 ELSE Len(partials),
             id |-> IF sent[i] = 0 \/ shape.echo THEN Id(i) ELSE 0,
             name |-> IF sent[i] = 0 \/ shape.echo THEN meant[i].name ELSE None,
             slice |-> <<i, sent[i] + 1>>]
      BY DEF Fragment
  <2> HIDE DEF f
  <2>2. /\ f.slice = <<i, sent[i] + 1>>
        /\ f.id = IF sent[i] = 0 \/ shape.echo THEN Id(i) ELSE 0
        /\ f.name = IF sent[i] = 0 \/ shape.echo THEN meant[i].name ELSE None
        /\ f = [key |-> f.key, id |-> f.id, name |-> f.name, slice |-> f.slice]
      BY <2>1
  <2>3. f.key = CASE shape.index = "given" -> i [] shape.index = "same" -> 1
                  [] shape.index = "omitted" -> IF partials = <<>> THEN 1 ELSE Len(partials)
      BY <2>1
  <2> QED
      BY <2>2, <2>3
<1> HIDE DEF f
<1>9. f.id \in Nat /\ f.slice \in Nat \X Nat /\ f.name \in {meant[k].name : k \in Places} \cup {None}
  <2>1. Id(i) \in Nat
      BY <1>3 DEF Id
  <2>2. sent[i] + 1 \in Nat
      BY <1>5
  <2> QED
      BY <2>1, <2>2, <1>3, <1>8
<1>10. \A k \in 1..n : /\ partials[k] = [id |-> partials[k].id, name |-> partials[k].name,
                                         slices |-> partials[k].slices]
                       /\ partials[k].id \in Nat /\ partials[k].slices \in Seq(Nat \X Nat)
                       /\ partials[k].name \in {meant[j].name : j \in Places} \cup {None}
  <2> TAKE k \in 1..n
  <2>1. partials[k] \in Partial
      BY <1>3, ElementOfSeq
  <2> QED
      BY <2>1 DEF Partial
<1>11. ASSUME new
       PROVE  /\ partials' \in Seq(Partial) /\ Len(partials') = n + 1 /\ partials'[n + 1] = fresh
              /\ \A k \in 1..n : partials'[k] = partials[k]
  <2>1. partials' = Append(partials, [id |-> IF f.id # 0 THEN f.id ELSE 0,
                                      name |-> IF f.name # None THEN f.name ELSE None,
                                      slices |-> Append(<<>>, f.slice)])
      BY <1>1, <1>11 DEF Add
  <2>2. Append(<<>>, f.slice) = <<f.slice>>
      BY <1>9
  <2>3. partials' = Append(partials, fresh)
      BY <2>1, <2>2
  <2>4. fresh \in Partial
    <3>1. <<f.slice>> \in Seq(Nat \X Nat)
        BY <1>9
    <3> QED
        BY <3>1, <1>9 DEF Partial
  <2> HIDE DEF fresh, n
  <2> QED
      BY <2>3, <2>4, <1>3, AppendProperties DEF n
<1>12. ASSUME ~new, f.key \in 1..n, f.id \in {0, partials[f.key].id},
              f.name \in {None, partials[f.key].name}
       PROVE  /\ partials' \in Seq(Partial) /\ Len(partials') = n
              /\ partials'[f.key].id = partials[f.key].id
              /\ partials'[f.key].name = partials[f.key].name
              /\ partials'[f.key].slices = Append(partials[f.key].slices, f.slice)
              /\ \A k \in 1..n : k # f.key => partials'[k] = partials[k]
  <2> DEFINE old == partials[f.key]
             grown == [id |-> old.id, name |-> old.name, slices |-> Append(old.slices, f.slice)]
  <2>1. partials' = [partials EXCEPT ![f.key] =
                       [id |-> IF f.id # 0 THEN f.id ELSE old.id,
                        name |-> IF f.name # None THEN f.name ELSE old.name,
                        slices |-> Append(old.slices, f.slice)]]
      BY <1>1, <1>12 DEF Add
  <2>2. (IF f.id # 0 THEN f.id ELSE old.id) = old.id /\ (IF f.name # None THEN f.name ELSE old.name) = old.name
      BY <1>12
  <2>3. partials' = [partials EXCEPT ![f.key] = grown]
      BY <2>1, <2>2
  <2>4. grown \in Partial
    <3>1. Append(old.slices, f.slice) \in Seq(Nat \X Nat)
        BY <1>9, <1>10, <1>12, AppendProperties
    <3> QED
        BY <3>1, <1>10, <1>12 DEF Partial
  <2>5. partials' \in Seq(Partial) /\ Len(partials') = Len(partials) /\ partials'[f.key] = grown
        /\ \A k \in 1..Len(partials) : k # f.key => partials'[k] = partials[k]
    <3> HIDE DEF grown
    <3> QED
        BY <2>3, <2>4, <1>3, <1>12, ExceptSeq
  <2> QED
      BY <2>5
<1>13. ASSUME new \/ (~new /\ f.key \in 1..n /\ f.id \in {0, partials[f.key].id}
                              /\ f.name \in {None, partials[f.key].name})
       PROVE  StreamTypeOK'
  <2>1. Partial' = Partial
      BY <1>2 DEF Partial
  <2> QED
      BY <2>1, <1>2, <1>5, <1>11, <1>12, <1>13 DEF StreamTypeOK
<1> HIDE DEF n, new, fresh
<1>14. \A k \in 1..n : Owned(k) /\ k # i /\ partials'[k] = partials[k] => Owned(k)'
    BY <1>2, <1>5 DEF Owned
<1>15. ASSUME sent[i] = 0, partials'[i] = fresh PROVE Owned(i)'
  <2>1. fresh.id = Id(i) /\ fresh.name = meant[i].name /\ fresh.slices = <<<<i, 1>>>>
      BY <1>8, <1>15 DEF fresh
  <2>2. [j \in 1..1 |-> <<i, j>>] = <<<<i, 1>>>>
      OBVIOUS
  <2> QED
      BY <2>1, <2>2, <1>2, <1>5, <1>15 DEF Owned
<1>16. ASSUME sent[i] = 1, Owned(i), f.key = i, i \in 1..n, ~new,
              partials'[i].slices = Append(partials[i].slices, f.slice),
              partials'[i].id = partials[i].id, partials'[i].name = partials[i].name
       PROVE  Owned(i)'
  <2>1. partials[i].slices = [j \in 1..1 |-> <<i, j>>]
      BY <1>16 DEF Owned
  <2>2. [j \in 1..1 |-> <<i, j>>] = <<<<i, 1>>>>
      OBVIOUS
  <2>3. Append(<<<<i, 1>>>>, <<i, 2>>) = [j \in 1..2 |-> <<i, j>>]
      OBVIOUS
  <2>4. f.slice = <<i, 2>> /\ sent'[i] = 2
      BY <1>5, <1>8, <1>16
  <2> QED
      BY <2>1, <2>2, <2>3, <2>4, <1>2, <1>16 DEF Owned
<1>17. CASE shape.index = "same"
  <2>1. /\ 1 \in Places /\ sent[1] > 0 => n > 0
        /\ n > 0 => Owned(1)
        /\ \A k \in 2..n : Len(partials[k].slices) = 1
      BY <1>17 DEF CallsInv, Gathered, n
  <2>2. f.key = 1 /\ shape.ids /\ shape.echo /\ Id(i) = i /\ f.id = i /\ f.name = meant[i].name
      BY <1>4, <1>8, <1>17 DEF Id
  <2>3. CASE i = 1 /\ sent[i] = 0
    <3>1. n = 0
        BY <2>1, <2>3, <1>3 DEF Owned
    <3>2. new
        BY <3>1, <2>2 DEF new
    <3>3. Len(partials') = 1 /\ partials'[1] = fresh
        BY <3>1, <3>2, <1>11
    <3>4. Owned(1)'
        BY <3>3, <2>3, <1>15
    <3> QED
        BY <3>2, <3>3, <3>4, <1>2, <1>7, <1>13, <1>17 DEF Gathered
  <2>4. CASE i = 1 /\ sent[i] = 1
    <3>1. n > 0 /\ Owned(1) /\ 1 \in 1..n
        BY <2>1, <2>4, <1>3
    <3>2. ~new /\ f.id = partials[1].id /\ f.name = partials[1].name
        BY <3>1, <2>2, <2>4, <1>3 DEF new, OpensAnother, Owned
    <3>3. /\ Len(partials') = n /\ partials'[1].id = partials[1].id
          /\ partials'[1].name = partials[1].name
          /\ partials'[1].slices = Append(partials[1].slices, f.slice)
          /\ \A k \in 1..n : k # 1 => partials'[k] = partials[k]
        BY <3>1, <3>2, <2>2, <1>12
    <3>4. Owned(1)'
        BY <3>1, <3>2, <3>3, <2>2, <2>4, <1>16
    <3>5. \A k \in 2..n : Len(partials'[k].slices) = 1
        BY <3>3, <2>1, <1>3
    <3> QED
        BY <3>1, <3>2, <3>3, <3>4, <3>5, <2>2, <1>2, <1>7, <1>13, <1>17 DEF Gathered
  <2>5. CASE i # 1
    <3>1. 1 \in Places /\ 1 < i /\ sent[1] >= 2
        BY <2>5, <1>3, <1>6, <1>17 DEF Places
    <3>2. n > 0 /\ Owned(1) /\ 1 \in 1..n
        BY <3>1, <2>1, <1>3
    <3>3. new
      <4>1. partials[1].id = 1
          BY <3>2, <2>2 DEF Owned, Id
      <4> QED
          BY <4>1, <2>2, <2>5, <1>3 DEF new, OpensAnother
    <3>4. /\ Len(partials') = n + 1 /\ partials'[n + 1] = fresh
          /\ \A k \in 1..n : partials'[k] = partials[k]
        BY <3>3, <1>11
    <3>5. Owned(1)'
        BY <3>2, <3>4, <2>5, <1>14
    <3>6. Len(fresh.slices) = 1
        BY <1>9 DEF fresh
    <3>7. \A k \in 2..n + 1 : Len(partials'[k].slices) = 1
      <4> TAKE k \in 2..n + 1
      <4>1. k \in 2..n \/ k = n + 1
          BY <1>3
      <4>2. k \in 2..n => k \in 1..n
          BY <1>3
      <4> QED
          BY <4>1, <4>2, <3>4, <3>6, <2>1
    <3>8. n + 1 > 0
        BY <1>3
    <3> QED
        BY <3>3, <3>4, <3>5, <3>7, <3>8, <1>2, <1>7, <1>13, <1>17 DEF Gathered
  <2> QED
      BY <2>3, <2>4, <2>5, <1>5
<1>18. CASE shape.index # "same"
  <2>1. /\ \A k \in Places : sent[k] > 0 <=> k <= n
        /\ \A k \in 1..n : Owned(k)
      BY <1>18 DEF CallsInv, Gathered, n
  <2>2. CASE sent[i] = 0
    <3>1. n = i - 1
      <4>1. ~(i <= n)
          BY <2>1, <2>2
      <4>2. CASE i = 1
          BY <4>1, <4>2, <1>3
      <4>3. CASE i # 1
        <5>1. i - 1 \in Places /\ i - 1 < i
            BY <4>3, <1>3 DEF Places
        <5>2. sent[i - 1] > 0
            BY <5>1, <1>3, <1>6
        <5>3. i - 1 <= n
            BY <5>1, <5>2, <2>1
        <5> QED
            BY <4>1, <5>3, <1>3
      <4> QED
          BY <4>2, <4>3
    <3>2. new
      <4>1. CASE shape.index = "given"
        <5>1. f.key = i
            BY <4>1, <1>8
        <5> QED
            BY <5>1, <3>1, <1>3 DEF new
      <4>2. CASE shape.index = "omitted" /\ n = 0
        <5>1. partials = <<>>
            BY <4>2, <1>3, EmptySeq DEF n
        <5>2. f.key = 1
            BY <5>1, <4>2, <1>8
        <5> QED
            BY <5>2, <4>2 DEF new
      <4>3. CASE shape.index = "omitted" /\ n # 0
        <5>1. partials # <<>>
            BY <4>3, EmptySeq DEF n
        <5>2. f.key = n
            BY <5>1, <4>3, <1>8 DEF n
        <5>3. n \in 1..n /\ Owned(n)
            BY <4>3, <2>1, <1>3
        <5>4. partials[n].id = n /\ f.id = i
            BY <5>3, <4>3, <2>2, <1>4, <1>8 DEF Owned, Id
        <5> QED
            BY <5>2, <5>4, <3>1, <4>3, <1>3 DEF new, OpensAnother
      <4> QED
          BY <4>1, <4>2, <4>3, <1>4, <1>18
    <3>3. /\ Len(partials') = i /\ partials'[i] = fresh
          /\ \A k \in 1..n : partials'[k] = partials[k]
      <4>1. n + 1 = i
          BY <3>1, <1>3
      <4> QED
          BY <4>1, <3>2, <1>11
    <3>4. \A k \in 1..i : Owned(k)'
      <4> TAKE k \in 1..i
      <4>1. CASE k = i
          BY <4>1, <3>3, <2>2, <1>15
      <4>2. CASE k # i
        <5>1. k \in 1..n
            BY <4>2, <3>1, <1>3
        <5> QED
            BY <5>1, <4>2, <3>3, <2>1, <1>14
      <4> QED
          BY <4>1, <4>2
    <3>5. \A k \in Places : sent'[k] > 0 <=> k <= i
      <4> TAKE k \in Places
      <4>1. CASE k = i
          BY <4>1, <2>2, <1>3, <1>5
      <4>2. CASE k # i
        <5>1. sent'[k] = sent[k] /\ (sent[k] > 0 <=> k <= n)
            BY <4>2, <1>5, <2>1
        <5> QED
            BY <5>1, <4>2, <3>1, <1>3
      <4> QED
          BY <4>1, <4>2
    <3> QED
        BY <3>2, <3>3, <3>4, <3>5, <1>2, <1>7, <1>13, <1>18 DEF Gathered
  <2>3. CASE sent[i] = 1
    <3>1. i \in 1..n /\ Owned(i)
        BY <2>1, <2>3, <1>3
    <3>2. f.key = i
      <4>1. CASE shape.index = "given"
          BY <4>1, <1>8
      <4>2. CASE shape.index # "given"
        <5>1. partials # <<>>
            BY <3>1, EmptySeq DEF n
        <5>2. f.key = n
            BY <5>1, <4>2, <1>4, <1>8, <1>18 DEF n
        <5>3. ~(i < n)
          <6> SUFFICES ASSUME i < n PROVE FALSE
              OBVIOUS
          <6>1. n \in 1..n
              BY <3>1, <1>3
          <6>2. n \in Places /\ sent[n] > 0
              BY <6>1, <2>1 DEF Owned
          <6>3. sent[i] >= 2
              BY <6>2, <4>2 DEF CallsInv, InTurn
          <6> QED
              BY <6>3, <2>3
        <5> QED
            BY <5>2, <5>3, <3>1, <1>3
      <4> QED
          BY <4>1, <4>2
    <3>3. ~new /\ f.id \in {0, partials[i].id} /\ f.name \in {None, partials[i].name}
      <4>1. partials[i].id = Id(i) /\ partials[i].name = meant[i].name
          BY <3>1 DEF Owned
      <4>2. ~(i > n)
          BY <3>1, <1>3
      <4>3. f.id \in {0, partials[i].id} /\ f.name \in {None, partials[i].name}
          BY <4>1, <1>8
      <4> QED
          BY <4>2, <4>3, <3>2 DEF new, OpensAnother
    <3>4. /\ Len(partials') = n /\ partials'[i].id = partials[i].id
          /\ partials'[i].name = partials[i].name
          /\ partials'[i].slices = Append(partials[i].slices, f.slice)
          /\ \A k \in 1..n : k # i => partials'[k] = partials[k]
        BY <3>1, <3>2, <3>3, <1>12
    <3>5. \A k \in 1..n : Owned(k)'
      <4> TAKE k \in 1..n
      <4>1. CASE k = i
          BY <4>1, <3>1, <3>2, <3>3, <3>4, <2>3, <1>16
      <4>2. CASE k # i
          BY <4>2, <3>4, <2>1, <1>14
      <4> QED
          BY <4>1, <4>2
    <3>6. \A k \in Places : sent'[k] > 0 <=> k <= n
      <4> TAKE k \in Places
      <4>1. CASE k = i
          BY <4>1, <3>1, <2>3, <1>3, <1>5
      <4>2. CASE k # i
          BY <4>2, <1>5, <2>1
      <4> QED
          BY <4>1, <4>2
    <3> QED
        BY <3>1, <3>2, <3>3, <3>4, <3>5, <3>6, <1>2, <1>7, <1>13, <1>18 DEF Gathered
  <2> QED
      BY <2>2, <2>3, <1>5
<1> QED
    BY <1>17, <1>18

LEMMA FinishKeeps ==
  ASSUME CallsAssumption, CallsInv, Finish
  PROVE  CallsMeant'
<1> DEFINE n == Len(partials)
           whole == [k \in DOMAIN partials |-> ToolCall(partials[k])]
<1>1. /\ calls' = IF \E k \in DOMAIN whole : Unreadable(whole[k])
                  THEN [k \in DOMAIN whole |-> Repaired(whole[k])] ELSE whole
      /\ UNCHANGED source
    BY DEF Finish
<1>2. /\ meant' = meant /\ Places' = Places /\ Len(meant) \in Nat /\ Meant
      /\ n \in Nat /\ DOMAIN partials = 1..n /\ sent \in [Places -> 0..2]
      /\ \A k \in Places : {None, Junk} \cap DOMAIN meant[k].args = {}
  <2>1. meant \in Answers
      BY DEF CallsInv, Meant
  <2>2. Len(meant) \in Nat /\ DOMAIN meant = 1..Len(meant)
        /\ \A k \in DOMAIN meant : {None, Junk} \cap DOMAIN meant[k].args = {}
      BY <2>1 DEF CallsAssumption
  <2> QED
      BY <2>2, <1>1, LenProperties DEF source, Places, CallsInv, StreamTypeOK
\* A call is read whole, and alone, or not at all.
<1>3. ASSUME NEW k \in 1..n
      PROVE  ToolCall(partials[k]).raw
             \/ /\ Owned(k) /\ damage[k].kind # "unreadable"
                /\ ToolCall(partials[k]) = [id |-> partials[k].id, name |-> meant[k].name,
                                            args |-> Served(k), raw |-> FALSE]
  <2> DEFINE slices == partials[k].slices
  <2>1. CASE Len(slices) = 1
    <3>1. slices \in Seq(Nat \X Nat)
      <4>1. partials[k] \in Partial
          BY ElementOfSeq DEF CallsInv, StreamTypeOK
      <4> QED
          BY <4>1 DEF Partial
    <3>2. DOMAIN slices = {1}
        BY <2>1, <3>1, LenProperties
    <3>3. Owners(slices) = {slices[1][1]}
        BY <3>2 DEF Owners
    <3>4. Cardinality(Owners(slices)) = 1
        BY <3>3, FS_Singleton
    <3>5. ~Legible(slices)
        BY <2>1, <3>4 DEF Legible
    <3> QED
        BY <3>5 DEF ToolCall
  <2>2. CASE Owned(k)
    <3>1. /\ k \in Places /\ sent[k] > 0 /\ sent[k] \in 0..2
          /\ slices = [j \in 1..sent[k] |-> <<k, j>>] /\ partials[k].name = meant[k].name
        BY <2>2, <1>2 DEF Owned
    <3>2. 1 \in 1..sent[k] /\ DOMAIN slices = 1..sent[k]
        BY <3>1
    <3>3. Owners(slices) = {k}
      <4> HIDE DEF slices
      <4>1. \A j \in 1..sent[k] : slices[j][1] = k
          BY <3>1
      <4> QED
          BY <4>1, <3>2 DEF Owners
    <3>4. Cardinality(Owners(slices)) = 1
        BY <3>3, FS_Singleton
    <3>5. CASE Legible(slices)
      <4>1. damage[k].kind # "unreadable"
          BY <3>3, <3>5 DEF Legible
      <4>2. Read(slices) = Served(k)
          BY <3>3, <3>4 DEF Read
      <4> QED
          BY <2>2, <3>1, <3>5, <4>1, <4>2 DEF ToolCall
    <3>6. CASE ~Legible(slices)
        BY <3>6 DEF ToolCall
    <3> QED
        BY <3>5, <3>6
  <2>3. Len(slices) = 1 \/ Owned(k)
    <3>1. k = 1 \/ k \in 2..n
        BY <1>2
    <3>2. n > 0
        BY <1>2
    <3> QED
        BY <3>1, <3>2 DEF CallsInv, Gathered
  <2> QED
      BY <2>1, <2>2, <2>3
<1>4. \A k \in 1..n : /\ ToolCall(partials[k]).raw \in BOOLEAN
                      /\ ToolCall(partials[k]) = [id |-> partials[k].id, name |-> partials[k].name,
                            args |-> ToolCall(partials[k]).args, raw |-> ToolCall(partials[k]).raw]
    BY DEF ToolCall
<1>5. ASSUME NEW k \in 1..n, ~ToolCall(partials[k]).raw
      PROVE  /\ k \in Places /\ ToolCall(partials[k]).name = meant[k].name
             /\ ToolCall(partials[k]).args = Served(k) /\ damage[k].kind # "unreadable"
  <2>1. /\ Owned(k) /\ damage[k].kind # "unreadable"
        /\ ToolCall(partials[k]) = [id |-> partials[k].id, name |-> meant[k].name,
                                    args |-> Served(k), raw |-> FALSE]
      BY <1>3, <1>5
  <2> HIDE DEF n
  <2> QED
      BY <2>1 DEF Owned
<1>6. DOMAIN whole = 1..n /\ \A k \in 1..n : whole[k] = ToolCall(partials[k])
    BY <1>2
<1> HIDE DEF whole, n
<1>7. CASE \E k \in DOMAIN whole : Unreadable(whole[k])
  <2>1. calls' = [k \in 1..n |-> Repaired(whole[k])]
      BY <1>1, <1>6, <1>7
  <2>0. DOMAIN calls' = 1..n
      BY <2>1
  <2> SUFFICES ASSUME NEW k \in 1..n, ~calls'[k].raw
               PROVE  /\ k \in Places /\ calls'[k].name = meant[k].name
                      /\ Faithful(k, calls'[k].args)
      BY <2>0, <1>2 DEF CallsMeant, Faithful
  <2>2. PICK c : c = whole[k]
      OBVIOUS
  <2>3. /\ c = [id |-> c.id, name |-> c.name, args |-> c.args, raw |-> c.raw]
        /\ c = ToolCall(partials[k])
      BY <2>2, <1>4, <1>6
  <2>4. calls'[k] = [c EXCEPT !.args =
                       [a \in DOMAIN c.args \ {Junk} |-> [c.args[a] EXCEPT !.tail = None]]]
      BY <2>1, <2>2 DEF Repaired
  <2>5. /\ calls'[k].name = c.name /\ calls'[k].raw = c.raw
        /\ calls'[k].args = [a \in DOMAIN c.args \ {Junk} |-> [c.args[a] EXCEPT !.tail = None]]
      BY <2>3, <2>4
  <2>6. /\ k \in Places /\ c.name = meant[k].name /\ c.args = Served(k)
        /\ damage[k].kind # "unreadable"
      BY <2>3, <2>5, <1>5
  <2>7. /\ \A a \in DOMAIN c.args : c.args[a] = [word |-> c.args[a].word,
                                          tail |-> c.args[a].tail, form |-> c.args[a].form]
        /\ \A a \in DOMAIN c.args \ {Junk} : a \in DOMAIN meant[k].args
                                             /\ c.args[a].word = meant[k].args[a].word
      BY <2>6, <1>2, ServedFaithfully
  <2>8. PICK args : args = calls'[k].args
      OBVIOUS
  <2>9. ASSUME NEW a \in DOMAIN args
        PROVE  /\ a \in DOMAIN meant[k].args
               /\ args[a] = [word |-> args[a].word, tail |-> args[a].tail, form |-> args[a].form]
               /\ args[a].word = meant[k].args[a].word
               /\ args[a].tail \in {None, meant[k].args[a].tail}
    <3>1. a \in DOMAIN c.args \ {Junk} /\ args[a] = [c.args[a] EXCEPT !.tail = None]
        BY <2>5, <2>8
    <3>2. PICK v : v = c.args[a]
        OBVIOUS
    <3>3. v = [word |-> v.word, tail |-> v.tail, form |-> v.form] /\ v.word = meant[k].args[a].word
          /\ a \in DOMAIN meant[k].args
        BY <3>1, <3>2, <2>7
    <3>4. args[a] = [v EXCEPT !.tail = None]
        BY <3>1, <3>2
    <3> QED
        BY <3>3, <3>4
  <2>10. Faithful(k, args)
      BY <2>9 DEF Faithful
  <2> QED
      BY <2>5, <2>6, <2>8, <2>10
<1>8. CASE ~\E k \in DOMAIN whole : Unreadable(whole[k])
  <2>1. calls' = whole
      BY <1>1, <1>8
  <2> SUFFICES ASSUME NEW k \in 1..n, ~calls'[k].raw
               PROVE  /\ k \in Places /\ calls'[k].name = meant[k].name
                      /\ Faithful(k, calls'[k].args)
      BY <2>1, <1>2, <1>6 DEF CallsMeant, Faithful
  <2>2. PICK c : c = ToolCall(partials[k])
      OBVIOUS
  <2>3. calls'[k] = c /\ whole[k] = c /\ ~c.raw
      BY <2>1, <2>2, <1>6
  <2>4. /\ k \in Places /\ c.name = meant[k].name /\ c.args = Served(k)
        /\ damage[k].kind # "unreadable"
      BY <2>2, <2>3, <1>5
  <2>5. ~Unreadable(c)
      BY <2>3, <1>6, <1>8
  <2>6. ~(Junk \in DOMAIN Served(k) \/ \E a \in DOMAIN Served(k) :
            Served(k)[a].tail \notin DOMAIN Served(k) \cup {None})
      BY <2>4, <2>5 DEF Unreadable
  <2>7. Faithful(k, Served(k))
      BY <2>4, <2>6, <1>2, ServedFaithfully
  <2> QED
      BY <2>3, <2>4, <2>7
<1> QED
    BY <1>7, <1>8

LEMMA JudgeKeeps == ASSUME CallsAssumption, CallsInv, Judge PROVE Judged' /\ ResultsTold'
<1>1. /\ stage = "judge" /\ prepared' = [i \in DOMAIN calls |-> PreExecute(calls[i])]
      /\ stage' \in {"ask", "done", "run"}
      /\ allowed' = {i \in DOMAIN calls : ~prepared'[i].asks}
      /\ UNCHANGED <<source, calls, results, running, landed, adrift>>
    BY DEF Judge
<1>2. DOMAIN prepared' = DOMAIN calls' /\ DOMAIN calls' = DOMAIN calls
    BY <1>1
<1>3. \A i \in DOMAIN calls :
        prepared'[i].refusal = None =>
           /\ ~calls[i].raw /\ prepared'[i].tool = Resolve(calls[i].name)
           /\ prepared'[i].args = Coerced(calls[i].args)
           /\ ~Invalid(prepared'[i].tool, prepared'[i].args)
  <2> SUFFICES ASSUME NEW i \in DOMAIN calls, prepared'[i].refusal = None
               PROVE  /\ ~calls[i].raw /\ prepared'[i].tool = Resolve(calls[i].name)
                      /\ prepared'[i].args = Coerced(calls[i].args)
                      /\ ~Invalid(prepared'[i].tool, prepared'[i].args)
      OBVIOUS
  <2> DEFINE tool == Resolve(calls[i].name)  args == Coerced(calls[i].args)
             refusal == IF tool = None THEN "unknown_tool"
                        ELSE IF calls[i].raw /\ finish = "length" THEN "output_cut"
                        ELSE IF calls[i].raw \/ Invalid(tool, args) THEN "bad_arguments"
                        ELSE None
  <2>1. prepared'[i] = [id |-> calls[i].id, tool |-> tool, args |-> args, refusal |-> refusal,
                        asks |-> refusal = None /\ tool \in Asks]
      BY <1>1 DEF PreExecute
  <2>2. prepared'[i].tool = tool /\ prepared'[i].args = args /\ refusal = None
    <3> HIDE DEF tool, args, refusal
    <3> QED
        BY <2>1
  <2>3. None \notin {"unknown_tool", "output_cut", "bad_arguments"}
      BY DEF CallsAssumption, Refusals
  <2> HIDE DEF tool, args
  <2>4. ~calls[i].raw /\ ~Invalid(tool, args)
      BY <2>2, <2>3, Zenon
  <2> QED
      BY <2>2, <2>4 DEF tool, args
<1>9. \A i \in DOMAIN calls : prepared'[i].refusal \in Refusals \cup {None}
  <2> TAKE i \in DOMAIN calls
  <2>1. prepared'[i] = PreExecute(calls[i])
      BY <1>1
  <2> QED
      BY <2>1 DEF PreExecute, Refusals
<1>4. Judged'
    BY <1>1, <1>2, <1>3, <1>9 DEF Judged, Resolve, Coerced, Invalid
<1>5. results = <<>> /\ ~running /\ landed = {} /\ adrift = {} /\ Ran' = {}
  <2>1. results = <<>> /\ ~running /\ landed \cup adrift \subseteq 1..Len(results)
      BY <1>1 DEF CallsInv, ResultsTold
  <2>2. 1..Len(results) = {}
      BY <2>1
  <2> QED
      BY <2>1, <2>2, <1>1 DEF Ran
<1>6. ResultsTold'
  <2>1. results' \in Seq(Codes) /\ running' \in BOOLEAN /\ (running' => stage' = "run")
      BY <1>1, <1>5 DEF CallsInv, ResultsTold
  <2>2. \A i \in 1..Len(results') : FALSE
      BY <1>1, <1>5
  <2>3. landed' \cup adrift' \subseteq 1..Len(results')
      BY <1>1, <1>5
  <2> QED
      BY <2>1, <2>2, <2>3, <1>1, <1>5, Zenon DEF ResultsTold
<1> QED
    BY <1>4, <1>6

LEMMA AnswerKeeps == ASSUME CallsInv, Answer PROVE Judged' /\ ResultsTold'
<1>1. /\ stage = "ask" /\ stage' = "run" /\ allowed' \subseteq DOMAIN prepared
      /\ UNCHANGED <<source, calls, prepared, results, running, landed, adrift>>
    BY DEF Answer
<1>2. Judged'
    BY <1>1 DEF CallsInv, Judged, Resolve, Coerced, Invalid
<1>3. results = <<>> /\ ~running /\ landed = {} /\ adrift = {} /\ Ran' = {}
  <2>1. results = <<>> /\ ~running /\ landed \cup adrift \subseteq 1..Len(results)
      BY <1>1 DEF CallsInv, ResultsTold
  <2>2. 1..Len(results) = {}
      BY <2>1
  <2> QED
      BY <2>1, <2>2, <1>1 DEF Ran
<1>4. ResultsTold'
  <2>1. results' \in Seq(Codes) /\ running' \in BOOLEAN /\ (running' => stage' = "run")
      BY <1>1, <1>3 DEF CallsInv, ResultsTold
  <2>2. \A i \in 1..Len(results') : FALSE
      BY <1>1, <1>3
  <2>3. landed' \cup adrift' \subseteq 1..Len(results')
      BY <1>1, <1>3
  <2> QED
      BY <2>1, <2>2, <2>3, <1>1, <1>3, Zenon DEF ResultsTold
<1> QED
    BY <1>2, <1>4

\* A result settles the call that runs or is refused: it is told of no other.
LEMMA SettleKeeps ==
  ASSUME CallsInv, NEW code \in Codes, Settle(code), stage = "run",
         \/ running /\ (\/ code = "ok" /\ landed' = landed \cup {At} /\ adrift' = adrift
                        \/ code \in {"failed", "timeout"} /\ landed' \in Perhaps(At)
                             /\ (adrift' = adrift \/ (code = "timeout" /\ adrift' = adrift \cup {At})))
         \/ code # "ok" /\ UNCHANGED <<landed, adrift>>
  PROVE  ResultsTold'
<1> DEFINE n == Len(results)  a == n + 1
<1>1. /\ results' = Append(results, code) /\ stage' \in {"done", "run"} /\ running' = FALSE
      /\ UNCHANGED <<prepared, allowed>> /\ At = a
    BY DEF Settle, At
<1>2. /\ results \in Seq(Codes) /\ n \in Nat /\ landed \cup adrift \subseteq 1..n
      /\ \A i \in 1..n : /\ results[i] = "ok" => i \in landed
                         /\ i \in landed => results[i] \in {"ok", "failed", "timeout"}
                         /\ i \in adrift => results[i] = "timeout"
      /\ \A i \in landed \cup adrift : i \in allowed /\ prepared[i].refusal = None
      /\ running => a \in allowed /\ prepared[a].refusal = None
    BY <1>1, LenProperties DEF CallsInv, ResultsTold, Ran
<1>3. /\ results' \in Seq(Codes) /\ Len(results') = a /\ results'[a] = code
      /\ \A i \in 1..n : results'[i] = results[i]
    BY <1>1, <1>2, AppendProperties
<1>4. /\ landed \subseteq landed' /\ landed' \subseteq landed \cup {a}
      /\ adrift \subseteq adrift' /\ adrift' \subseteq adrift \cup {a}
      /\ a \in landed' => running /\ code \in {"ok", "failed", "timeout"}
      /\ a \in adrift' => running /\ code = "timeout"
      /\ code = "ok" => a \in landed'
  <2>1. a \notin landed /\ a \notin adrift
      BY <1>2
  <2> HIDE DEF a
  <2> QED
      BY <2>1, <1>1 DEF Perhaps
<1> HIDE DEF a, n
<1>5. landed' \cup adrift' \subseteq 1..a /\ a \in 1..a
    BY <1>2, <1>4 DEF a
<1>6. ASSUME NEW i \in 1..a
      PROVE  /\ results'[i] = "ok" => i \in landed'
             /\ i \in landed' => results'[i] \in {"ok", "failed", "timeout"}
             /\ i \in adrift' => results'[i] = "timeout"
  <2>1. CASE i = a
      BY <2>1, <1>3, <1>4
  <2>2. CASE i \in 1..n
    <3>1. i # a
        BY <2>2, <1>2 DEF a
    <3> QED
        BY <2>2, <3>1, <1>2, <1>3, <1>4
  <2>3. i = a \/ i \in 1..n
      BY <1>2 DEF a
  <2> QED
      BY <2>1, <2>2, <2>3
<1>7. \A i \in Ran' : i \in allowed' /\ prepared'[i].refusal = None
  <2> TAKE i \in Ran'
  <2>1. i \in landed' \cup adrift'
      BY <1>1 DEF Ran
  <2>2. CASE i = a
    <3>1. running
        BY <2>1, <2>2, <1>4
    <3> QED
        BY <3>1, <2>2, <1>1, <1>2
  <2>3. CASE i # a
    <3>1. i \in landed \cup adrift
        BY <2>1, <2>3, <1>4
    <3> QED
        BY <3>1, <1>1, <1>2
  <2> QED
      BY <2>2, <2>3
<1>8. running' \in BOOLEAN /\ (running' => stage' = "run")
      /\ (stage' \in {"stream", "judge", "ask"} => results' = <<>> /\ ~running')
    BY <1>1
<1> QED
    BY <1>3, <1>5, <1>6, <1>7, <1>8 DEF ResultsTold

LEMMA CallsStep == CallsAssumption /\ CallsInv /\ [Next]_vars => CallsInv'
<1> SUFFICES ASSUME CallsAssumption, CallsInv, [Next]_vars PROVE CallsInv'
    OBVIOUS
<1> DEFINE Answering == StreamTypeOK' /\ InTurn' /\ Gathered'
           Settling == \E code \in Codes : Settle(code)
<1>1. UNCHANGED source
    BY DEF Next, Send, Finish, Judge, Answer, Decline, Refuse, Start, Return, Raise, GiveUp, Land,
           Settle, vars
<1>2. /\ meant' = meant /\ shape' = shape /\ Places' = Places /\ \A k : Id(k)' = Id(k)
      /\ \A i, args : Faithful(i, args)' <=> Faithful(i, args)
    BY <1>1 DEF source, Places, Id, Faithful
<1>3. Meant'
    BY <1>1, <1>2 DEF source, CallsInv, Meant
<1>4. ASSUME UNCHANGED <<sent, partials>> PROVE Answering
    BY <1>2, <1>4 DEF CallsInv, StreamTypeOK, Partial, InTurn, Gathered, Owned
<1>5. ASSUME UNCHANGED calls PROVE CallsMeant'
    BY <1>2, <1>5 DEF CallsInv, CallsMeant
<1>6. ASSUME UNCHANGED <<calls, prepared, allowed>>,
             stage' \in {"stream", "judge"} => stage \in {"stream", "judge"}
      PROVE  Judged'
    BY <1>6 DEF CallsInv, Judged, Resolve, Coerced, Invalid
<1>7. ASSUME UNCHANGED <<prepared, allowed, results, running, landed, adrift>>,
             running => stage' = stage,
             stage' \in {"stream", "judge", "ask"} => stage \in {"stream", "judge", "ask"}
      PROVE  ResultsTold'
  <2>1. Ran' = Ran
      BY <1>7 DEF Ran, At
  <2> QED
      BY <2>1, <1>7 DEF CallsInv, ResultsTold
<1>8. ASSUME NEW i \in Places, Send(i) PROVE CallsInv'
  <2>1. Answering
      BY <1>8, SendKeeps
  <2>2. UNCHANGED <<stage, calls, prepared, allowed, results, running, landed, adrift>>
      BY <1>8 DEF Send
  <2> QED
      BY <2>1, <2>2, <1>3, <1>5, <1>6, <1>7 DEF CallsInv
<1>9. CASE Finish
  <2>1. /\ UNCHANGED <<sent, partials, prepared, allowed, results, running, landed, adrift>>
        /\ stage = "stream" /\ stage' = "judge"
      BY <1>9 DEF Finish
  <2>2. prepared = <<>> /\ allowed = {} /\ ~running
      BY <2>1 DEF CallsInv, Judged, ResultsTold
  <2>3. Judged'
      BY <2>1, <2>2 DEF Judged
  <2> QED
      BY <2>1, <2>2, <2>3, <1>3, <1>4, <1>7, <1>9, FinishKeeps DEF CallsInv
<1>10. CASE Judge
  <2>1. UNCHANGED <<sent, partials, calls>>
      BY <1>10 DEF Judge
  <2> QED
      BY <2>1, <1>3, <1>4, <1>5, <1>10, JudgeKeeps DEF CallsInv
<1>11. CASE Answer
  <2>1. UNCHANGED <<sent, partials, calls>>
      BY <1>11 DEF Answer
  <2> QED
      BY <2>1, <1>3, <1>4, <1>5, <1>11, AnswerKeeps DEF CallsInv
<1>12. ASSUME NEW code \in Codes, Settle(code), stage = "run", ResultsTold' PROVE CallsInv'
  <2>1. UNCHANGED <<sent, partials, calls, prepared, allowed>> /\ stage' \in {"done", "run"}
      BY <1>12 DEF Settle
  <2> QED
      BY <2>1, <1>3, <1>4, <1>5, <1>6, <1>12 DEF CallsInv
<1>13. ASSUME Decline \/ Refuse PROVE CallsInv'
  <2>1. PICK code \in Codes : Settle(code) /\ code # "ok" /\ UNCHANGED <<landed, adrift>> /\ stage = "run"
    <3>1. CASE Decline
        BY <3>1 DEF Decline, Codes
    <3>2. CASE Refuse
      <4>1. At \in DOMAIN prepared
          BY <3>2 DEF Refuse, CallsInv, Judged
      <4>2. prepared[At].refusal \in Codes /\ prepared[At].refusal # "ok"
          BY <3>2, <4>1 DEF Refuse, CallsInv, Judged, Codes, Refusals
      <4> QED
          BY <3>2, <4>2 DEF Refuse
    <3> QED
        BY <1>13, <3>1, <3>2
  <2> QED
      BY <2>1, <1>12, SettleKeeps
<1>14. ASSUME Return \/ Raise \/ GiveUp PROVE CallsInv'
  <2>1. running /\ stage = "run"
      BY <1>14 DEF Return, Raise, GiveUp, CallsInv, ResultsTold
  <2>2. PICK code \in Codes :
          /\ Settle(code)
          /\ \/ code = "ok" /\ landed' = landed \cup {At} /\ adrift' = adrift
             \/ code \in {"failed", "timeout"} /\ landed' \in Perhaps(At)
                  /\ (adrift' = adrift \/ (code = "timeout" /\ adrift' = adrift \cup {At}))
      BY <1>14 DEF Return, Raise, GiveUp, Codes
  <2> QED
      BY <2>1, <2>2, <1>12, SettleKeeps
<1>15. CASE Start
  <2>1. /\ stage = "run" /\ ~running /\ At \in allowed /\ prepared[At].refusal = None
        /\ running' = TRUE
        /\ UNCHANGED <<sent, partials, stage, calls, prepared, allowed, results, landed, adrift>>
      BY <1>15 DEF Start
  <2>2. Ran' = {At} \cup landed \cup adrift
      BY <2>1 DEF Ran, At
  <2>3. ResultsTold'
      BY <2>1, <2>2 DEF CallsInv, ResultsTold, Ran
  <2> QED
      BY <2>1, <2>3, <1>3, <1>4, <1>5, <1>6 DEF CallsInv
<1>16. ASSUME NEW i \in adrift, Land(i) PROVE CallsInv'
  <2>1. /\ adrift' = adrift \ {i} /\ landed' \in Perhaps(i)
        /\ UNCHANGED <<sent, partials, stage, calls, prepared, allowed, results, running>>
      BY <1>16 DEF Land
  <2>2. Ran' \subseteq Ran /\ landed \subseteq landed' /\ landed' \subseteq landed \cup adrift
      BY <2>1 DEF Ran, At, Perhaps
  <2>3. ResultsTold'
      BY <2>1, <2>2 DEF CallsInv, ResultsTold
  <2> QED
      BY <2>1, <2>3, <1>3, <1>4, <1>5, <1>6 DEF CallsInv
<1>17. CASE UNCHANGED vars
    BY <1>3, <1>4, <1>5, <1>6, <1>7, <1>17 DEF vars, CallsInv
<1> QED
    BY <1>8, <1>9, <1>10, <1>11, <1>13, <1>14, <1>15, <1>16, <1>17 DEF Next

LEMMA CallsMove == [ServicesNext]_<<family, services, vars>> => [Next]_vars
  BY DEF ServicesNext, Poll, Store, Trace, Serve, Graph, Browse, Remember, Talk, services

LEMMA CallsHold == ServicesSpec => []CallsInv
<1>1. ServicesInit => CallsInv
    BY CallsAssumption, CallsStart DEF ServicesInit
<1>2. CallsInv /\ [ServicesNext]_<<family, services, vars>> => CallsInv'
    BY CallsAssumption, CallsStep, CallsMove
<1> QED
    BY <1>1, <1>2, PTL DEF ServicesSpec

\* Whatever a server does to fragments and to one call, what runs is a call the
\* model meant: its tool, and arguments it wrote for that very call
\* (StreamedCompletion and repaired, openai_compatible.py).
THEOREM RunsWhatWasMeant == ServicesSpec => []OwnArguments
<1>1. CallsInv => OwnArguments
  <2> SUFFICES ASSUME CallsInv, NEW i \in (IF running THEN {At} ELSE {}) \cup landed
               PROVE  /\ i \in Places /\ prepared[i].tool = Resolve(meant[i].name)
                      /\ \A a \in DOMAIN prepared[i].args :
                           /\ a \in DOMAIN meant[i].args
                           /\ prepared[i].args[a].word = meant[i].args[a].word
                           /\ prepared[i].args[a].tail \in {None, meant[i].args[a].tail}
      BY DEF OwnArguments
  <2>1. i \in Ran
      BY DEF Ran
  <2>2. i \in allowed /\ prepared[i].refusal = None
      BY <2>1 DEF CallsInv, ResultsTold
  <2>3. i \in DOMAIN prepared /\ DOMAIN prepared = DOMAIN calls
      BY <2>2 DEF CallsInv, Judged
  <2>4. /\ ~calls[i].raw /\ prepared[i].tool = Resolve(calls[i].name)
        /\ prepared[i].args = Coerced(calls[i].args)
      BY <2>2, <2>3 DEF CallsInv, Judged
  <2>5. i \in Places /\ calls[i].name = meant[i].name /\ Faithful(i, calls[i].args)
      BY <2>3, <2>4 DEF CallsInv, CallsMeant
  <2>6. PICK args : args = calls[i].args
      OBVIOUS
  <2>7. prepared[i].args = [a \in DOMAIN args |->
           IF args[a].form = "coercible" THEN [args[a] EXCEPT !.form = "typed"] ELSE args[a]]
      BY <2>4, <2>6 DEF Coerced
  <2>8. ASSUME NEW a \in DOMAIN args
        PROVE  /\ a \in DOMAIN meant[i].args
               /\ prepared[i].args[a].word = meant[i].args[a].word
               /\ prepared[i].args[a].tail \in {None, meant[i].args[a].tail}
    <3>1. PICK v : v = args[a]
        OBVIOUS
    <3>2. /\ a \in DOMAIN meant[i].args /\ v = [word |-> v.word, tail |-> v.tail, form |-> v.form]
          /\ v.word = meant[i].args[a].word /\ v.tail \in {None, meant[i].args[a].tail}
        BY <3>1, <2>5, <2>6 DEF Faithful
    <3>3. prepared[i].args[a] = IF v.form = "coercible" THEN [v EXCEPT !.form = "typed"] ELSE v
        BY <3>1, <2>7
    <3>4. prepared[i].args[a].word = v.word /\ prepared[i].args[a].tail = v.tail
        BY <3>2, <3>3
    <3> QED
        BY <3>2, <3>4
  <2>9. DOMAIN prepared[i].args = DOMAIN args
      BY <2>7
  <2> QED
      BY <2>4, <2>5, <2>8, <2>9
<1> QED
    BY <1>1, CallsHold, PTL

\* A refusal or a no is said of a call that did nothing, "ok" of one that did
\* its work, only a call out of time may still change something, and what acted
\* had its yes and its required arguments (run_tools and _started, execution.py).
THEOREM ResultsBound == ServicesSpec => []ResultsBoundEffects
<1>1. CallsInv => ResultsBoundEffects
  <2> SUFFICES ASSUME CallsInv PROVE ResultsBoundEffects
      OBVIOUS
  <2>1. DOMAIN results = 1..Len(results)
      BY LenProperties DEF CallsInv, ResultsTold
  <2>2. \A i \in landed \cup adrift :
          ~Invalid(prepared[i].tool, prepared[i].args) /\ i \in allowed
      BY DEF CallsInv, ResultsTold, Ran, Judged
  <2>3. \A code \in {"ok", "failed", "timeout"} : code \notin Refusals \cup {"declined"}
      BY DEF Refusals
  <2> QED
      BY <2>1, <2>2, <2>3 DEF CallsInv, ResultsTold, ResultsBoundEffects
<1> QED
    BY <1>1, CallsHold, PTL

----------------------------------------------------------------------------
(* The public web (WebPages).                                              *)

Fetch(phase, url, address, redirects, checked, agent, named) ==
  [phase |-> phase, url |-> url, address |-> address, redirects |-> redirects,
   checked |-> checked, agent |-> agent, named |-> named]

FetchIs == fetch = Fetch(fetch.phase, fetch.url, fetch.address, fetch.redirects,
                         fetch.checked, fetch.agent, fetch.named)

(* A request that rests on the check of its own name.                      *)
Checks == [url : Url, answers : Seq(Public)]
Requests ==
  {r \in [url : Url, address : Public, checked : Checks] :
     r.checked.url = r.url /\ r.address \in ToSet(r.checked.answers)}

Renamed == IF fetch.named THEN 1 ELSE 0

(* How many requests a fetch can have made where it stands.                *)
Counted ==
  /\ fetch.redirects \in 0..MaxRedirects
  /\ fetch.phase = "going" => Len(requests) <= fetch.redirects + Renamed
  /\ fetch.phase = "asking" => Len(requests) <= fetch.redirects + Renamed + 1
  /\ Len(requests) <= MaxRedirects + 2

(* Where a fetch under way goes, it was checked for; what has answered it  *)
(* is what it asked last.                                                  *)
Bound ==
  /\ fetch.phase \in {"going", "asking"} =>
       /\ fetch.url \in Url /\ fetch.address \in Public /\ fetch.checked \in Checks
       /\ fetch.checked.url = fetch.url /\ fetch.address \in ToSet(fetch.checked.answers)
  /\ fetch.phase \in {"asking", "fetched"} =>
       requests # <<>> /\ requests[Len(requests)].url = fetch.url

FetchInv == FetchIs /\ requests \in Seq(Requests) /\ Counted /\ Bound

LEMMA AnswersChecked ==
  ASSUME NEW answers \in W!Lookups, answers # <<>>,
         \A k \in DOMAIN answers : answers[k] \in Public
  PROVE  answers \in Seq(Public) /\ answers[1] \in Public /\ answers[1] \in ToSet(answers)
<1>1. CASE answers \in {<<a>> : a \in W!Address}
  <2>1. PICK a \in W!Address : answers = <<a>>
      BY <1>1
  <2>2. DOMAIN answers = {1} /\ answers[1] = a
      BY <2>1
  <2>3. a \in Public
      BY <2>2
  <2> QED
      BY <2>1, <2>2, <2>3 DEF ToSet
<1>2. CASE answers \in W!Address \X W!Address
  <2>1. PICK a \in W!Address, b \in W!Address : answers = <<a, b>>
      BY <1>2
  <2>2. DOMAIN answers = {1, 2} /\ answers[1] = a /\ answers[2] = b
      BY <2>1
  <2>3. a \in Public /\ b \in Public
      BY <2>2
  <2> QED
      BY <2>1, <2>2, <2>3 DEF ToSet
<1> QED
    BY <1>1, <1>2 DEF W!Lookups

(* What comes of a check: the fetch goes on as checked, or has ended.      *)
LEMMA CheckDone ==
  ASSUME NEW f, NEW url \in Url, NEW phase, NEW from, NEW address, NEW redirects, NEW checked,
         NEW agent, NEW named, f = Fetch(phase, from, address, redirects, checked, agent, named),
         NEW g \in W!CheckDestination(f, url)
  PROVE  \/ \E why \in {"refused", "unreachable"} :
                 g = Fetch(why, from, address, redirects, checked, agent, named)
         \/ \E to \in Public, c \in Checks :
                 /\ g = Fetch("going", url, to, redirects, c, agent, named)
                 /\ c.url = url /\ to \in ToSet(c.answers)
<1>1. CASE g = W!Failed(f, "refused")
    BY <1>1 DEF W!Failed, Fetch
<1>2. ASSUME NEW answers \in W!Lookups, g = W!Checked(f, url, answers)
      PROVE  \/ \E why \in {"refused", "unreachable"} :
                 g = Fetch(why, from, address, redirects, checked, agent, named)
             \/ \E to \in Public, c \in Checks :
                 /\ g = Fetch("going", url, to, redirects, c, agent, named)
                 /\ c.url = url /\ to \in ToSet(c.answers)
  <2>1. CASE answers = <<>>
      BY <1>2, <2>1 DEF W!Checked, W!Failed, Fetch
  <2>2. CASE answers # <<>> /\ \E k \in DOMAIN answers : answers[k] \notin Public
      BY <1>2, <2>2 DEF W!Checked, W!Failed, Fetch
  <2>3. CASE answers # <<>> /\ \A k \in DOMAIN answers : answers[k] \in Public
    <3>1. answers \in Seq(Public) /\ answers[1] \in Public /\ answers[1] \in ToSet(answers)
        BY <2>3, AnswersChecked
    <3>2. PICK c : c = [url |-> url, answers |-> answers]
        OBVIOUS
    <3>3. c \in Checks /\ c.url = url /\ c.answers = answers
        BY <3>1, <3>2 DEF Checks
    <3>4. g = Fetch("going", url, answers[1], redirects, c, agent, named)
        BY <1>2, <2>3, <3>2 DEF W!Checked, Fetch
    <3> QED
        BY <3>1, <3>3, <3>4
  <2> QED
      BY <2>1, <2>2, <2>3
<1> QED
    BY <1>1, <1>2 DEF W!CheckDestination

LEMMA FetchStarts == W!WebAssumption /\ W!Init => FetchInv
<1> SUFFICES ASSUME W!WebAssumption, W!Init PROVE FetchInv
    OBVIOUS
<1>1. /\ fetch.phase = "none" /\ fetch.redirects = 0 /\ ~fetch.named /\ requests = <<>>
      /\ FetchIs
    BY DEF W!Init, W!NoFetch, FetchIs, Fetch
<1>2. requests \in Seq(Requests) /\ Len(requests) = 0
    BY <1>1, EmptySeq
<1> QED
    BY <1>1, <1>2 DEF FetchInv, Counted, Bound, W!WebAssumption

LEMMA NoneAsked ==
  ASSUME W!WebAssumption, FetchInv, requests' \in {requests, <<>>}
  PROVE  requests' \in Seq(Requests) /\ Len(requests') <= MaxRedirects + 2
<1>1. CASE requests' = requests
    BY <1>1 DEF FetchInv, Counted
<1>2. CASE requests' = <<>>
  <2>1. requests' \in Seq(Requests) /\ Len(requests') = 0
      BY <1>2, EmptySeq
  <2>2. MaxRedirects \in Nat
      BY DEF W!WebAssumption
  <2> QED
      BY <2>1, <2>2
<1> QED
    BY <1>1, <1>2

(* A fetch that ends, and one that goes on where its check lets it.        *)
LEMMA FetchEnds ==
  ASSUME W!WebAssumption, FetchInv, requests' \in {requests, <<>>},
         NEW why \in {"refused", "unreachable"}, NEW url, NEW address, NEW redirects \in 0..MaxRedirects,
         NEW checked, NEW agent, NEW named,
         fetch' = Fetch(why, url, address, redirects, checked, agent, named)
  PROVE  FetchInv'
<1>1. FetchIs' /\ fetch'.phase = why /\ fetch'.redirects = redirects
    BY DEF FetchIs, Fetch
<1>2. requests' \in Seq(Requests) /\ Len(requests') <= MaxRedirects + 2
    BY NoneAsked
<1> QED
    BY <1>1, <1>2 DEF FetchInv, Counted, Bound

LEMMA FetchGoes ==
  ASSUME W!WebAssumption, FetchInv, requests' \in {requests, <<>>},
         NEW url \in Url, NEW to \in Public, NEW redirects \in 0..MaxRedirects,
         NEW c \in Checks, NEW agent, NEW named,
         c.url = url, to \in ToSet(c.answers),
         fetch' = Fetch("going", url, to, redirects, c, agent, named),
         Len(requests') <= redirects + IF named THEN 1 ELSE 0
  PROVE  FetchInv'
<1>1. /\ FetchIs' /\ fetch'.phase = "going" /\ fetch'.redirects = redirects
      /\ fetch'.url = url /\ fetch'.address = to /\ fetch'.checked = c
      /\ fetch'.named = named
    BY DEF FetchIs, Fetch
<1>2. Renamed' = IF named THEN 1 ELSE 0
    BY <1>1 DEF Renamed
<1>3. requests' \in Seq(Requests) /\ Len(requests') <= MaxRedirects + 2
    BY NoneAsked
<1>4. Counted'
    BY <1>1, <1>2, <1>3 DEF FetchInv, Counted
<1>5. Bound'
    BY <1>1 DEF Bound
<1> QED
    BY <1>1, <1>3, <1>4, <1>5 DEF FetchInv

LEMMA FetchStep == W!WebAssumption /\ FetchInv /\ [W!Next]_web => FetchInv'
<1> SUFFICES ASSUME W!WebAssumption, FetchInv, [W!Next]_web PROVE FetchInv'
    OBVIOUS
<1> DEFINE Here(phase) == Fetch(phase, fetch.url, fetch.address, fetch.redirects,
                                fetch.checked, fetch.agent, fetch.named)
<1>a. fetch = Here(fetch.phase) /\ fetch.redirects \in 0..MaxRedirects
    BY DEF FetchInv, FetchIs, Counted
<1>b. Renamed = IF fetch.named THEN 1 ELSE 0
    BY DEF Renamed
<1>c. requests \in Seq(Requests) /\ Len(requests) \in Nat
    BY LenProperties DEF FetchInv
<1>1. ASSUME NEW url \in Url, W!FetchPage(url) PROVE FetchInv'
  <2>1. fetch' \in W!CheckDestination(W!NoFetch, url) /\ requests' = <<>> /\ Len(requests') = 0
      BY <1>1, EmptySeq DEF W!FetchPage
  <2>2. PICK none, where, redirects, agent, named :
               /\ none = [url |-> W!NoUrl, answers |-> <<>>] /\ where = W!NoUrl
               /\ redirects = 0 /\ agent = "browser" /\ named = FALSE
      OBVIOUS
  <2>3. W!NoFetch = Fetch("none", where, where, redirects, none, agent, named)
      BY <2>2 DEF W!NoFetch, Fetch
  <2>4. redirects \in 0..MaxRedirects /\ Len(requests') <= redirects + IF named THEN 1 ELSE 0
      BY <2>1, <2>2 DEF W!WebAssumption
  <2>5. CASE \E why \in {"refused", "unreachable"} :
               fetch' = Fetch(why, where, where, redirects, none, agent, named)
      BY <2>1, <2>4, <2>5, FetchEnds
  <2>6. CASE \E to \in Public, c \in Checks :
               /\ fetch' = Fetch("going", url, to, redirects, c, agent, named)
               /\ c.url = url /\ to \in ToSet(c.answers)
      BY <2>1, <2>4, <2>6, FetchGoes
  <2>7. PICK f : f = W!NoFetch
      OBVIOUS
  <2>8. /\ f = Fetch("none", where, where, redirects, none, agent, named)
        /\ fetch' \in W!CheckDestination(f, url)
      BY <2>1, <2>3, <2>7
  <2> QED
      BY <2>5, <2>6, <2>8, CheckDone
<1>2. ASSUME W!Request PROVE FetchInv'
  <2>1. fetch.phase = "going" /\ fetch' = Here("asking")
      BY <1>2, <1>a DEF W!Request, Fetch
  <2>2. PICK r : r = [url |-> fetch.url, address |-> fetch.address, checked |-> fetch.checked]
      OBVIOUS
  <2>3. r \in Requests /\ r.url = fetch.url
      BY <2>1, <2>2 DEF FetchInv, Bound, Requests
  <2>4. /\ requests' = Append(requests, r) /\ requests' \in Seq(Requests)
        /\ Len(requests') = Len(requests) + 1 /\ requests'[Len(requests')] = r
        /\ requests' # <<>>
      BY <1>2, <1>c, <2>2, <2>3, AppendProperties, EmptySeq DEF W!Request
  <2>5. /\ FetchIs' /\ fetch'.phase = "asking" /\ fetch'.redirects = fetch.redirects
        /\ fetch'.url = fetch.url /\ fetch'.address = fetch.address
        /\ fetch'.checked = fetch.checked /\ fetch'.named = fetch.named
      BY <2>1 DEF FetchIs, Fetch
  <2>6. Counted'
    <3>1. Renamed' = Renamed /\ Renamed \in {0, 1}
        BY <2>5 DEF Renamed
    <3> QED
        BY <1>c, <2>1, <2>4, <2>5, <3>1 DEF FetchInv, Counted, W!WebAssumption
  <2>7. Bound'
      BY <2>1, <2>3, <2>4, <2>5 DEF FetchInv, Bound
  <2> QED
      BY <2>4, <2>5, <2>6, <2>7 DEF FetchInv
<1>3. ASSUME W!Redirected PROVE FetchInv'
  <2>1. fetch.phase = "asking" /\ UNCHANGED requests
      BY <1>3 DEF W!Redirected
  <2>2. CASE fetch' = W!Failed(fetch, "unreachable")
    <3>1. fetch' = Here("unreachable")
        BY <1>a, <2>2 DEF W!Failed, Fetch
    <3> QED
        BY <1>a, <2>1, <3>1, FetchEnds
  <2>3. ASSUME fetch.redirects < MaxRedirects, NEW url \in Url,
               fetch' \in W!CheckDestination([fetch EXCEPT !.redirects = @ + 1], url)
        PROVE  FetchInv'
    <3>1. PICK n : n = fetch.redirects + 1
        OBVIOUS
    <3>2. n \in 0..MaxRedirects
        BY <1>a, <2>3, <3>1 DEF W!WebAssumption
    <3>3. PICK f : f = [fetch EXCEPT !.redirects = @ + 1]
        OBVIOUS
    <3>4. f = Fetch(fetch.phase, fetch.url, fetch.address, n,
                    fetch.checked, fetch.agent, fetch.named)
        BY <1>a, <3>1, <3>3 DEF Fetch
    <3>5. fetch' \in W!CheckDestination(f, url)
        BY <2>3, <3>3
    <3>6. Len(requests') <= n + IF fetch.named THEN 1 ELSE 0
        BY <1>a, <1>b, <1>c, <2>1, <3>1 DEF FetchInv, Counted
    <3>7. CASE \E why \in {"refused", "unreachable"} :
                 fetch' = Fetch(why, fetch.url, fetch.address, n,
                                fetch.checked, fetch.agent, fetch.named)
        BY <2>1, <3>2, <3>7, FetchEnds
    <3>8. CASE \E to \in Public, c \in Checks :
                 /\ fetch' = Fetch("going", url, to, n, c, fetch.agent, fetch.named)
                 /\ c.url = url /\ to \in ToSet(c.answers)
        BY <2>1, <3>2, <3>6, <3>8, FetchGoes
    <3> QED
        BY <3>4, <3>5, <3>7, <3>8, CheckDone
  <2> QED
      BY <1>3, <2>2, <2>3 DEF W!Redirected
<1>4. ASSUME W!Forbidden PROVE FetchInv'
  <2>1. fetch.phase = "asking" /\ UNCHANGED requests
      BY <1>4 DEF W!Forbidden
  <2>2. CASE FallbackAgent /\ ~fetch.named
    <3>1. fetch' = Fetch("going", fetch.url, fetch.address, fetch.redirects,
                         fetch.checked, "named", TRUE)
        BY <1>4, <1>a, <2>2 DEF W!Forbidden, Fetch
    <3>2. Len(requests') <= fetch.redirects + IF TRUE THEN 1 ELSE 0
        BY <1>b, <1>c, <2>1, <2>2 DEF FetchInv, Counted
    <3>3. /\ fetch.url \in Url /\ fetch.address \in Public /\ fetch.checked \in Checks
          /\ fetch.checked.url = fetch.url /\ fetch.address \in ToSet(fetch.checked.answers)
        BY <2>1 DEF FetchInv, Bound
    <3> QED
        BY <1>a, <2>1, <3>1, <3>2, <3>3, FetchGoes
  <2>3. CASE ~(FallbackAgent /\ ~fetch.named)
    <3>1. fetch' = Here("unreachable")
        BY <1>4, <1>a, <2>3 DEF W!Forbidden, W!Failed, Fetch
    <3> QED
        BY <1>a, <2>1, <3>1, FetchEnds
  <2> QED
      BY <2>2, <2>3
<1>5. ASSUME NEW why \in {"refused", "unreachable"}, W!Fail(why) PROVE FetchInv'
  <2>1. fetch' = Here(why) /\ UNCHANGED requests
      BY <1>5, <1>a DEF W!Fail, W!Failed, Fetch
  <2> QED
      BY <1>a, <2>1, FetchEnds
<1>6. ASSUME NEW n \in 0..MaxText, NEW cut \in BOOLEAN, NEW other \in BOOLEAN,
             W!Fetched(n, cut, other)
      PROVE  FetchInv'
  <2>1. fetch.phase = "asking" /\ fetch' = Here("fetched") /\ UNCHANGED requests
      BY <1>6, <1>a DEF W!Fetched, Fetch
  <2>2. /\ FetchIs' /\ fetch'.phase = "fetched" /\ fetch'.redirects = fetch.redirects
        /\ fetch'.url = fetch.url
      BY <2>1 DEF FetchIs, Fetch
  <2> QED
      BY <1>a, <1>c, <2>1, <2>2 DEF FetchInv, Counted, Bound
<1>7. CASE UNCHANGED <<fetch, requests>>
  <2>1. FetchIs' = FetchIs /\ Counted' = Counted /\ Bound' = Bound
      BY <1>7 DEF FetchIs, Counted, Bound, Renamed
  <2> QED
      BY <1>7, <2>1 DEF FetchInv
<1> QED
    BY <1>1, <1>2, <1>3, <1>4, <1>5, <1>6, <1>7 DEF W!Next, web

LEMMA WebMoves == [ServicesNext]_<<family, services, vars>> => [W!Next]_web
  BY DEF ServicesNext, Poll, Store, Trace, Serve, Graph, Browse, Remember, Talk, services

\* Every request goes to a public address that its own name answered with when
\* that hop was checked, the requests of one fetch are bounded, and what was
\* read is what was asked for last (web.py, fetch and check_destination).
THEOREM AsksWhatWasChecked == ServicesSpec => []RequestsAreChecked
<1>1. W!WebAssumption /\ FetchInv => RequestsAreChecked
  <2> SUFFICES ASSUME W!WebAssumption, FetchInv PROVE RequestsAreChecked
      OBVIOUS
  <2>1. requests \in Seq(Requests) /\ DOMAIN requests = 1..Len(requests)
      BY LenProperties DEF FetchInv
  <2>2. ASSUME NEW k \in DOMAIN requests
        PROVE  /\ requests[k].checked.url = requests[k].url
               /\ requests[k].address \in ToSet(requests[k].checked.answers)
               /\ ToSet(requests[k].checked.answers) \subseteq Public
    <3>1. requests[k] \in Requests
        BY <2>1, <2>2, ElementOfSeq
    <3>2. requests[k].checked.answers \in Seq(Public)
        BY <3>1 DEF Requests, Checks
    <3>3. ToSet(requests[k].checked.answers) \subseteq Public
        BY <3>2, LenProperties, ElementOfSeq DEF ToSet
    <3> QED
        BY <3>1, <3>3 DEF Requests
  <2> QED
      BY <2>2 DEF RequestsAreChecked, FetchInv, Counted, Bound, Last
<1>2. W!WebAssumption /\ ServicesInit => FetchInv
    BY FetchStarts DEF ServicesInit
<1>3. W!WebAssumption /\ FetchInv /\ [ServicesNext]_<<family, services, vars>> => FetchInv'
    BY FetchStep, WebMoves
<1>4. W!WebAssumption
    BY PartsAssumption
<1> QED
    BY <1>1, <1>2, <1>3, <1>4, PTL DEF ServicesSpec

(* How far the reader of a page is.                                        *)
Paging(url, text, cut, same, seen, offset, what) ==
  [url |-> url, text |-> text, cut |-> cut, same |-> same, seen |-> seen, offset |-> offset,
   told |-> what]

PagingTypeOK ==
  /\ paging = Paging(paging.url, paging.text, paging.cut, paging.same, paging.seen,
                     paging.offset, paging.told)
  /\ paging.text \in Nat /\ paging.offset \in 0..paging.text
  /\ paging.cut \in BOOLEAN /\ paging.same \in BOOLEAN
  /\ paging.seen \in Seq(Nat \X Nat)

(* No part begins behind the end of the one before it, and reading has     *)
(* come to the end of the last.                                            *)
Joined ==
  /\ \A k \in 1..Len(paging.seen) :
        paging.seen[k][1] <= (IF k = 1 THEN 0 ELSE paging.seen[k - 1][2])
  /\ paging.offset = IF paging.seen = <<>> THEN 0 ELSE paging.seen[Len(paging.seen)][2]

Finishing == paging.seen # <<>> /\ paging.told # "more" => paging.offset = paging.text

(* That the download was cut is said at the end of the text, and there     *)
(* only.                                                                   *)
CutTold == paging.seen # <<>> /\ paging.told # "more" => (paging.told = "cut") = paging.cut

(* Of a page that stays as it was, a part ends where reading has come to   *)
(* or before, and each character up to there is in one part.               *)
Holds(part, c) == part[1] < c /\ c <= part[2]
Once ==
  paging.same =>
    /\ \A k \in 1..Len(paging.seen) : paging.seen[k][2] <= paging.offset
    /\ \A c \in 1..paging.offset : \E k \in 1..Len(paging.seen) :
          /\ Holds(paging.seen[k], c)
          /\ \A j \in 1..Len(paging.seen) : Holds(paging.seen[j], c) => j = k

PagingInv == PagingTypeOK /\ Joined /\ Finishing /\ CutTold /\ Once

LEMMA PagingStarts == W!Init => PagingInv
<1> SUFFICES ASSUME W!Init PROVE PagingInv
    OBVIOUS
<1>1. paging = Paging(W!NoUrl, 0, FALSE, TRUE, <<>>, 0, "nothing")
    BY DEF W!Init, W!NotReading, Paging
<1>2. /\ paging.text = 0 /\ paging.offset = 0 /\ paging.seen = <<>> /\ paging.told = "nothing"
      /\ paging.cut = FALSE /\ paging.same = TRUE /\ paging.url = W!NoUrl
    BY <1>1 DEF Paging
<1>3. paging.seen \in Seq(Nat \X Nat) /\ Len(paging.seen) = 0
    BY <1>2, EmptySeq
<1>4. paging = Paging(paging.url, paging.text, paging.cut, paging.same, paging.seen,
                      paging.offset, paging.told)
    BY <1>1, <1>2
<1>5. PagingTypeOK
  <2>1. paging.text \in Nat /\ paging.offset \in 0..paging.text
      BY <1>2
  <2>2. paging.cut \in BOOLEAN /\ paging.same \in BOOLEAN
      BY <1>2
  <2> QED
      BY <1>3, <1>4, <2>1, <2>2, Zenon DEF PagingTypeOK
<1>6. Joined /\ Finishing /\ CutTold
    BY <1>2, <1>3 DEF Joined, Finishing, CutTold
<1>7. Once
    BY <1>2, <1>3 DEF Once
<1> QED
    BY <1>5, <1>6, <1>7 DEF PagingInv

(* One part more: it is shown from where the last one said, or from the    *)
(* end of a text that has become shorter.                                  *)
LEMMA PartShown ==
  ASSUME W!WebAssumption, PagingInv, NEW n \in 0..MaxText, NEW cut \in BOOLEAN,
         NEW other \in BOOLEAN, W!Fetched(n, cut, other)
  PROVE  PagingInv'
<1>a. /\ paging.text \in Nat /\ paging.offset \in 0..paging.text
      /\ paging.cut \in BOOLEAN /\ paging.same \in BOOLEAN
      /\ paging.seen \in Seq(Nat \X Nat) /\ Len(paging.seen) \in Nat
      /\ n \in Nat /\ TextLimit \in Nat \ {0}
    BY LenProperties DEF PagingInv, PagingTypeOK, W!WebAssumption
<1>1. PICK from : from = IF paging.offset > n THEN n ELSE paging.offset
    OBVIOUS
<1>2. PICK to : to = IF from + TextLimit > n THEN n ELSE from + TextLimit
    OBVIOUS
<1>3. PICK next : next = IF to < n THEN "more" ELSE IF cut THEN "cut" ELSE "nothing"
    OBVIOUS
<1>4. from \in 0..n /\ to \in 0..n /\ from <= to /\ from <= paging.offset
    BY <1>a, <1>1, <1>2
<1>5. W!AsText(n, cut, paging.offset) = [from |-> from, to |-> to, next |-> next]
    BY <1>1, <1>2, <1>3 DEF W!AsText
<1>6. PICK seen : seen = Append(paging.seen, <<from, to>>)
    OBVIOUS
<1>7. PICK same : same = (paging.same /\ (\/ n = paging.text /\ cut = paging.cut /\ ~other
                                          \/ paging.seen = <<>>))
    OBVIOUS
<1>8. paging' = Paging(paging.url, n, cut, same, seen, to, next)
  <2>1. paging' = [paging EXCEPT !.text = n, !.cut = cut, !.same = same, !.seen = seen,
                                 !.offset = to, !.told = next]
      BY <1>5, <1>6, <1>7 DEF W!Fetched
  <2> QED
      BY <2>1 DEF Paging, PagingInv, PagingTypeOK
<1>9. /\ paging'.text = n /\ paging'.offset = to /\ paging'.seen = seen
      /\ paging'.told = next /\ paging'.cut = cut /\ paging'.same = same
      /\ paging'.url = paging.url
    BY <1>8 DEF Paging
<1>10. /\ seen \in Seq(Nat \X Nat) /\ Len(seen) = Len(paging.seen) + 1
       /\ \A k \in 1..Len(paging.seen) : seen[k] = paging.seen[k]
       /\ seen[Len(seen)] = <<from, to>> /\ seen # <<>>
  <2>1. <<from, to>> \in Nat \X Nat
      BY <1>a, <1>4
  <2> QED
      BY <1>6, <1>a, <2>1, AppendProperties, EmptySeq, SMTT(30)
<1>11. seen[Len(seen)][1] = from /\ seen[Len(seen)][2] = to
    BY <1>10
<1>12. PagingTypeOK'
    BY <1>a, <1>4, <1>7, <1>8, <1>9, <1>10 DEF PagingTypeOK
<1>13. Joined'
  <2>1. ASSUME NEW k \in 1..Len(seen)
        PROVE  seen[k][1] <= (IF k = 1 THEN 0 ELSE seen[k - 1][2])
    <3>1. CASE k \in 1..Len(paging.seen)
      <4>1. seen[k] = paging.seen[k] /\ k \in Nat
          BY <1>10, <3>1
      <4>2. k # 1 => seen[k - 1] = paging.seen[k - 1]
        <5>1. Len(paging.seen) \in Nat
            BY <1>a
        <5>2. k # 1 => k - 1 \in 1..Len(paging.seen)
            BY <5>1, <3>1
        <5>3. \A j \in 1..Len(paging.seen) : seen[j] = paging.seen[j]
            BY <1>10
        <5> QED
            BY <5>2, <5>3, Zenon
      <4> QED
          BY <3>1, <4>1, <4>2 DEF PagingInv, Joined
    <3>2. CASE k = Len(seen)
      <4>1. CASE k = 1
        <5>1. paging.seen = <<>>
            BY <1>a, <1>10, <3>2, <4>1, EmptySeq
        <5>2. paging.offset = 0
            BY <5>1 DEF PagingInv, Joined
        <5> QED
            BY <1>4, <1>11, <3>2, <4>1, <5>2
      <4>2. CASE k # 1
        <5>1. k - 1 = Len(paging.seen) /\ k - 1 \in 1..Len(paging.seen)
            BY <1>a, <1>10, <3>2, <4>2
        <5>2. paging.seen # <<>>
            BY <5>1, EmptySeq
        <5>3. seen[k - 1][2] = paging.offset
            BY <1>10, <5>1, <5>2 DEF PagingInv, Joined
        <5> QED
            BY <1>4, <1>11, <3>2, <4>2, <5>3
      <4> QED
          BY <4>1, <4>2
    <3> QED
        BY <1>a, <1>10, <3>1, <3>2, SMTT(30)
  <2> QED
      BY <1>9, <1>10, <1>11, <2>1 DEF Joined
<1>14. Finishing'
  <2>1. next # "more" => to = n
      BY <1>a, <1>3, <1>4
  <2> QED
      BY <1>9, <2>1 DEF Finishing
<1>15. CutTold'
  <2>1. next # "more" => (next = "cut") = cut
      BY <1>3
  <2> QED
      BY <1>9, <2>1, Zenon DEF CutTold
<1>16. Once'
  <2> SUFFICES ASSUME same
               PROVE  /\ \A k \in 1..Len(seen) : seen[k][2] <= to
                      /\ \A c \in 1..to : \E k \in 1..Len(seen) :
                            Holds(seen[k], c) /\ \A j \in 1..Len(seen) : Holds(seen[j], c) => j = k
      BY <1>9 DEF Once
  <2>1. from = paging.offset
    <3>1. CASE paging.seen = <<>>
        BY <1>a, <1>1, <3>1 DEF PagingInv, Joined
    <3>2. CASE paging.seen # <<>>
      <4>1. n = paging.text
          BY <1>7, <3>2, Zenon
      <4>2. n \in Nat /\ paging.offset \in 0..n
          BY <1>a, <4>1
      <4> QED
          BY <1>1, <4>2
    <3> QED
        BY <3>1, <3>2
  <2>2. paging.same
      BY <1>7
  <2>3. \A k \in 1..Len(seen) : k \in 1..Len(paging.seen) \/ k = Len(seen)
      BY <1>a, <1>10
  <2>4. \A k \in 1..Len(paging.seen) :
           /\ seen[k] = paging.seen[k] /\ k \in 1..Len(seen)
           /\ seen[k][1] \in Nat /\ seen[k][2] \in Nat /\ seen[k][2] <= from
    <3>1. ASSUME NEW k \in 1..Len(paging.seen)
          PROVE  paging.seen[k][1] \in Nat /\ paging.seen[k][2] \in Nat
      <4>1. paging.seen[k] \in Nat \X Nat
          BY <1>a, ElementOfSeq
      <4> QED
          BY <4>1
    <3>2. \A k \in 1..Len(paging.seen) : k \in 1..Len(seen)
        BY <1>a, <1>10
    <3> QED
        BY <1>10, <2>1, <2>2, <3>1, <3>2 DEF PagingInv, Once
  <2>5. \A k \in 1..Len(seen) : seen[k][2] <= to
      BY <1>4, <1>11, <2>3, <2>4
  <2>6. ASSUME NEW c \in 1..to
        PROVE  \E k \in 1..Len(seen) :
                  Holds(seen[k], c) /\ \A j \in 1..Len(seen) : Holds(seen[j], c) => j = k
    <3>1. CASE c <= from
      <4>1. c \in 1..paging.offset
          BY <1>4, <2>1, <3>1
      <4>2. PICK k \in 1..Len(paging.seen) :
                 /\ Holds(paging.seen[k], c)
                 /\ \A j \in 1..Len(paging.seen) : Holds(paging.seen[j], c) => j = k
          BY <2>2, <4>1 DEF PagingInv, Once
      <4>3. ~Holds(seen[Len(seen)], c)
          BY <1>4, <1>11, <3>1 DEF Holds
      <4>4. Holds(seen[k], c) /\ k \in 1..Len(seen)
          BY <2>4, <4>2
      <4>5. \A j \in 1..Len(seen) : Holds(seen[j], c) => j = k
          BY <2>3, <2>4, <4>2, <4>3
      <4> QED
          BY <4>4, <4>5
    <3>2. CASE from < c
      <4>1. Holds(seen[Len(seen)], c) /\ Len(seen) \in 1..Len(seen)
          BY <1>a, <1>4, <1>10, <1>11, <3>2 DEF Holds
      <4>2. \A k \in 1..Len(paging.seen) : ~Holds(seen[k], c)
          BY <1>4, <2>4, <3>2 DEF Holds
      <4> QED
          BY <2>3, <4>1, <4>2
    <3> QED
        BY <1>4, <3>1, <3>2
  <2> QED
      BY <2>5, <2>6
<1> QED
    BY <1>12, <1>13, <1>14, <1>15, <1>16 DEF PagingInv

LEMMA PagingStep == W!WebAssumption /\ PagingInv /\ [W!Next]_web => PagingInv'
<1> SUFFICES ASSUME W!WebAssumption, PagingInv, [W!Next]_web PROVE PagingInv'
    OBVIOUS
<1>1. ASSUME NEW url \in Url, W!FetchPage(url) PROVE PagingInv'
  <2>1. paging' = Paging(url, paging.text, paging.cut, paging.same, paging.seen, paging.offset,
                         paging.told)
      BY <1>1 DEF W!FetchPage, Paging, PagingInv, PagingTypeOK
  <2>2. /\ paging'.text = paging.text /\ paging'.offset = paging.offset
        /\ paging'.seen = paging.seen /\ paging'.told = paging.told
        /\ paging'.cut = paging.cut /\ paging'.same = paging.same /\ paging'.url = url
      BY <2>1 DEF Paging
  <2>3. PagingTypeOK'
      BY <2>1, <2>2 DEF PagingInv, PagingTypeOK
  <2>4. Joined' /\ Finishing' /\ CutTold' /\ Once'
      BY <2>2 DEF PagingInv, Joined, Finishing, CutTold, Once
  <2> QED
      BY <2>3, <2>4 DEF PagingInv
<1>2. ASSUME NEW n \in 0..MaxText, NEW cut \in BOOLEAN, NEW other \in BOOLEAN,
             W!Fetched(n, cut, other)
      PROVE  PagingInv'
    BY <1>2, PartShown
<1>3. CASE UNCHANGED paging
    BY <1>3 DEF PagingInv, PagingTypeOK, Joined, Finishing, CutTold, Once
<1> QED
    BY <1>1, <1>2, <1>3 DEF W!Next, web, W!Request, W!Redirected, W!Forbidden, W!Fail

(* A page is read without a gap, and whole and once as long as it stays    *)
(* as it was.                                                              *)
LEMMA PagesArrive == PagingInv => PageArrives
<1> SUFFICES ASSUME PagingInv PROVE PageArrives
    OBVIOUS
<1>1. DOMAIN paging.seen = 1..Len(paging.seen)
    BY LenProperties DEF PagingInv, PagingTypeOK
<1>2. paging.seen # <<>> /\ paging.told # "more" => Last(paging.seen)[2] = paging.text
    BY DEF PagingInv, Joined, Finishing, Last
<1>3. paging.seen # <<>> /\ paging.told # "more" => (paging.told = "cut") = paging.cut
    BY DEF PagingInv, CutTold
<1>4. \A k \in DOMAIN paging.seen :
         paging.seen[k][1] <= (IF k = 1 THEN 0 ELSE paging.seen[k - 1][2])
    BY <1>1 DEF PagingInv, Joined
<1>5. paging.same => \A c \in 1..paging.offset :
         \E k \in DOMAIN paging.seen :
            /\ paging.seen[k][1] < c /\ c <= paging.seen[k][2]
            /\ \A j \in DOMAIN paging.seen :
                  paging.seen[j][1] < c /\ c <= paging.seen[j][2] => j = k
    BY <1>1 DEF PagingInv, Once, Holds
<1> QED
    BY <1>2, <1>3, <1>4, <1>5, Zenon DEF PageArrives

----------------------------------------------------------------------------
(* The stored words (HistoryReading).  What a text is joined of: a         *)
(* statement about every length is proved of the least at which it would   *)
(* fail.                                                                   *)

LEMMA HasLeast ==
  ASSUME NEW K \in SUBSET Nat, K # {}
  PROVE  \E m \in K : \A j \in K : m <= j
<1>1. PICK m \in K : \A j \in K : ~(<<j, m>> \in OpToRel(<, Nat))
  <2> HIDE DEF OpToRel
  <2> QED
      BY NatLessThanWellFounded, WFMin
<1>2. ASSUME NEW j \in K PROVE m <= j
  <2>1. <<j, m>> \in Nat \X Nat /\ ~(<<j, m>> \in OpToRel(<, Nat))
      BY <1>1
  <2>2. ~(j < m)
      BY <2>1 DEF OpToRel
  <2> QED
      BY <2>2
<1> QED
    BY <1>2

(* f joins the pieces of s one after another, its n-th value the first n.  *)
Joins(s, K, f) ==
  /\ f \in [1..Len(s) -> Seq(K)]
  /\ \A i \in 1..Len(s) : f[i] = IF i = 1 THEN s[i] ELSE f[i - 1] \o s[i]

Begins(u, w) == Len(u) <= Len(w) /\ \A i \in 1..Len(u) : u[i] = w[i]

LEMMA JoinsExist ==
  ASSUME NEW K, NEW s \in Seq(Seq(K))
  PROVE  \E f : Joins(s, K, f)
<1> DEFINE Upto(m, f) == /\ f \in [1..m -> Seq(K)]
                         /\ \A i \in 1..m : f[i] = IF i = 1 THEN s[i] ELSE f[i - 1] \o s[i]
<1> DEFINE Bad == {m \in 0..Len(s) : ~\E f : Upto(m, f)}
<1>a. Len(s) \in Nat
    BY LenProperties
<1>b. \A i \in 1..Len(s) : s[i] \in Seq(K)
    BY ElementOfSeq
<1> SUFFICES ASSUME Bad # {} PROVE FALSE
  <2>1. Len(s) \in 0..Len(s)
      BY <1>a
  <2>2. PICK f : Upto(Len(s), f)
      BY <2>1
  <2> QED
      BY <2>2 DEF Joins
<1>1. PICK m \in Bad : \A j \in Bad : m <= j
  <2>1. Bad \in SUBSET Nat
      BY <1>a
  <2> HIDE DEF Bad
  <2> QED
      BY <2>1, HasLeast
<1>2. CASE m = 0
  <2>1. Upto(0, [i \in 1..0 |-> <<>>])
      OBVIOUS
  <2> QED
      BY <1>1, <1>2, <2>1
<1>3. CASE m # 0
  <2>1. m - 1 \in 0..Len(s) /\ m \in 1..Len(s) /\ m - 1 \notin Bad
    <3>1. m \in 0..Len(s)
        BY <1>1
    <3>2. m - 1 \in Nat /\ ~(m <= m - 1) /\ m - 1 \in 0..Len(s) /\ m \in 1..Len(s)
        BY <1>3, <1>a, <3>1
    <3> HIDE DEF Bad
    <3> QED
        BY <1>1, <3>2
  <2>2. PICK f : Upto(m - 1, f)
      BY <2>1
  <2> DEFINE g == [i \in 1..m |-> IF i = m THEN IF m = 1 THEN s[m] ELSE f[m - 1] \o s[m]
                                  ELSE f[i]]
  <2>3. \A i \in 1..(m - 1) : f[i] \in Seq(K)
      BY <2>2
  <2>4. (IF m = 1 THEN s[m] ELSE f[m - 1] \o s[m]) \in Seq(K)
    <3>1. CASE m = 1
        BY <1>b, <2>1, <3>1
    <3>2. CASE m # 1
      <4>1. m - 1 \in 1..(m - 1)
          BY <2>1, <3>2
      <4> QED
          BY <1>b, <2>1, <2>3, <3>2, <4>1, ConcatProperties
    <3> QED
        BY <3>1, <3>2
  <2>5. g \in [1..m -> Seq(K)]
      BY <2>1, <2>3, <2>4
  <2>6. ASSUME NEW i \in 1..m PROVE g[i] = IF i = 1 THEN s[i] ELSE g[i - 1] \o s[i]
    <3>1. CASE i = m
        BY <2>1, <3>1
    <3>2. CASE i # m
      <4>1. i \in 1..(m - 1) /\ g[i] = f[i]
          BY <2>1, <3>2
      <4>2. i # 1 => i - 1 \in 1..m /\ i - 1 # m /\ g[i - 1] = f[i - 1]
          BY <2>1, <4>1
      <4>3. f[i] = IF i = 1 THEN s[i] ELSE f[i - 1] \o s[i]
          BY <2>2, <4>1
      <4> HIDE DEF g
      <4> QED
          BY <4>1, <4>2, <4>3
    <3> QED
        BY <3>1, <3>2
  <2>7. Upto(m, g)
    <3> HIDE DEF g
    <3> QED
        BY <2>5, <2>6
  <2> QED
      BY <1>1, <2>7
<1> QED
    BY <1>2, <1>3

(* Pieces joined alike are joined to the same.                             *)
LEMMA JoinsAgree ==
  ASSUME NEW K, NEW s \in Seq(Seq(K)), NEW t \in Seq(Seq(K)), Begins(s, t),
         NEW f, Joins(s, K, f), NEW g, Joins(t, K, g)
  PROVE  \A i \in 1..Len(s) : f[i] = g[i]
<1> DEFINE Bad == {i \in 1..Len(s) : f[i] # g[i]}
<1>a. Len(s) \in Nat /\ Len(t) \in Nat /\ Len(s) <= Len(t)
    BY LenProperties DEF Begins
<1> SUFFICES ASSUME Bad # {} PROVE FALSE
    OBVIOUS
<1>1. PICK i \in Bad : \A j \in Bad : i <= j
  <2>1. Bad \in SUBSET Nat
      BY <1>a
  <2> HIDE DEF Bad
  <2> QED
      BY <2>1, HasLeast
<1>2. i \in 1..Len(s) /\ i \in 1..Len(t) /\ s[i] = t[i]
    BY <1>a, <1>1 DEF Begins
<1>3. /\ f[i] = IF i = 1 THEN s[i] ELSE f[i - 1] \o s[i]
      /\ g[i] = IF i = 1 THEN t[i] ELSE g[i - 1] \o t[i]
    BY <1>2 DEF Joins
<1>4. i # 1 => i - 1 \in 1..Len(s) /\ i - 1 \notin Bad
    BY <1>a, <1>1, <1>2
<1> QED
    BY <1>1, <1>2, <1>3, <1>4

(* FlattenSeq joins its pieces.                                            *)
LEMMA FlattenJoins ==
  ASSUME NEW K, NEW s \in Seq(Seq(K)), s # <<>>
  PROVE  \E f : Joins(s, K, f) /\ FlattenSeq(s) = f[Len(s)] /\ Len(s) \in 1..Len(s)
<1> DEFINE Is(f) == f = [i \in 1..Len(s) |-> IF i = 1 THEN s[i] ELSE f[i - 1] \o s[i]]
           flatten == CHOOSE f : Is(f)
<1>a. Len(s) \in Nat /\ Len(s) \in 1..Len(s)
    BY LenProperties, EmptySeq
<1>1. PICK g : Joins(s, K, g)
    BY JoinsExist
<1>2. Is(g)
  <2>1. g = [i \in 1..Len(s) |-> g[i]]
      BY <1>1 DEF Joins
  <2>2. [i \in 1..Len(s) |-> g[i]] =
          [i \in 1..Len(s) |-> IF i = 1 THEN s[i] ELSE g[i - 1] \o s[i]]
      BY <1>1, ZenonT(60) DEF Joins
  <2> QED
      BY <2>1, <2>2
<1>3. Is(flatten)
    BY <1>2
<1>4. FlattenSeq(s) = flatten[Len(s)]
    BY <1>a DEF FlattenSeq
<1> HIDE DEF flatten
<1>5. \A i \in 1..Len(s) : flatten[i] = g[i]
  <2> DEFINE Bad == {i \in 1..Len(s) : flatten[i] # g[i]}
  <2> SUFFICES ASSUME Bad # {} PROVE FALSE
      OBVIOUS
  <2>1. PICK i \in Bad : \A j \in Bad : i <= j
    <3>1. Bad \in SUBSET Nat
        BY <1>a
    <3> HIDE DEF Bad
    <3> QED
        BY <3>1, HasLeast
  <2>2. /\ flatten[i] = IF i = 1 THEN s[i] ELSE flatten[i - 1] \o s[i]
        /\ g[i] = IF i = 1 THEN s[i] ELSE g[i - 1] \o s[i]
      BY <1>1, <1>3, <2>1 DEF Joins
  <2>3. i # 1 => i - 1 \in 1..Len(s) /\ i - 1 \notin Bad
      BY <1>a, <2>1
  <2> QED
      BY <2>1, <2>2, <2>3
<1> QED
    BY <1>1, <1>4, <1>5, <1>a

LEMMA ConcatBegins ==
  ASSUME NEW K, NEW u \in Seq(K), NEW w \in Seq(K)
  PROVE  /\ Begins(u, u \o w) /\ ToSet(u) \subseteq ToSet(u \o w)
         /\ ToSet(w) \subseteq ToSet(u \o w)
<1>1. /\ Len(u) \in Nat /\ Len(w) \in Nat /\ Len(u \o w) = Len(u) + Len(w)
      /\ DOMAIN u = 1..Len(u) /\ DOMAIN w = 1..Len(w) /\ DOMAIN (u \o w) = 1..(Len(u) + Len(w))
      /\ \A i \in 1..(Len(u) + Len(w)) :
           (u \o w)[i] = IF i <= Len(u) THEN u[i] ELSE w[i - Len(u)]
    BY ConcatProperties, LenProperties
<1>2. \A i \in 1..Len(u) : i \in 1..(Len(u) + Len(w)) /\ (u \o w)[i] = u[i]
    BY <1>1
<1>3. Begins(u, u \o w)
    BY <1>1, <1>2 DEF Begins
<1>4. ToSet(u) \subseteq ToSet(u \o w)
    BY <1>1, <1>2 DEF ToSet
<1>5. ASSUME NEW i \in 1..Len(w)
      PROVE  Len(u) + i \in 1..(Len(u) + Len(w)) /\ (u \o w)[Len(u) + i] = w[i]
    BY <1>1
<1>6. ASSUME NEW x \in ToSet(w) PROVE x \in ToSet(u \o w)
  <2>1. PICK i \in 1..Len(w) : x = w[i]
      BY <1>1, <1>6 DEF ToSet
  <2>2. PICK j \in DOMAIN (u \o w) : (u \o w)[j] = x
      BY <1>1, <1>5, <2>1
  <2> QED
      BY <2>2 DEF ToSet
<1> QED
    BY <1>3, <1>4, <1>6

LEMMA BeginsMore ==
  ASSUME NEW K, NEW u \in Seq(K), NEW w \in Seq(K), NEW x \in Seq(K), Begins(u, w), Begins(w, x)
  PROVE  Begins(u, x)
<1>1. Len(u) \in Nat /\ Len(w) \in Nat /\ Len(x) \in Nat
    BY LenProperties
<1> QED
    BY <1>1 DEF Begins

(* What is joined begins with what was joined before, and holds each piece. *)
LEMMA JoinsHold ==
  ASSUME NEW K, NEW s \in Seq(Seq(K)), NEW f, Joins(s, K, f)
  PROVE  \A j \in 1..Len(s) : \A i \in 1..j :
            Begins(f[i], f[j]) /\ ToSet(s[i]) \subseteq ToSet(f[j])
<1> DEFINE Bad == {j \in 1..Len(s) : ~\A i \in 1..j :
                     Begins(f[i], f[j]) /\ ToSet(s[i]) \subseteq ToSet(f[j])}
<1>a. Len(s) \in Nat
    BY LenProperties
<1>b. \A i \in 1..Len(s) : s[i] \in Seq(K) /\ f[i] \in Seq(K)
    BY ElementOfSeq DEF Joins
<1>c. \A i \in 1..Len(s) : Begins(f[i], f[i])
    BY <1>b, LenProperties DEF Begins
<1> SUFFICES ASSUME Bad # {} PROVE FALSE
    OBVIOUS
<1>1. PICK j \in Bad : \A k \in Bad : j <= k
  <2>1. Bad \in SUBSET Nat
      BY <1>a
  <2> HIDE DEF Bad
  <2> QED
      BY <2>1, HasLeast
<1>2. j \in 1..Len(s)
    BY <1>1
<1>3. f[j] = IF j = 1 THEN s[j] ELSE f[j - 1] \o s[j]
    BY <1>2 DEF Joins
<1>4. CASE j = 1
  <2>1. \A i \in 1..j : Begins(f[i], f[j]) /\ ToSet(s[i]) \subseteq ToSet(f[j])
      BY <1>2, <1>3, <1>4, <1>c
  <2> QED
      BY <1>1, <2>1
<1>5. CASE j # 1
  <2>1. j - 1 \in 1..Len(s) /\ ~(j <= j - 1)
      BY <1>a, <1>2, <1>5
  <2>2. \A i \in 1..(j - 1) :
           Begins(f[i], f[j - 1]) /\ ToSet(s[i]) \subseteq ToSet(f[j - 1])
    <3>1. j - 1 \notin Bad
      <4> HIDE DEF Bad
      <4> QED
          BY <1>1, <2>1
    <3> QED
        BY <2>1, <3>1
  <2>3. /\ Begins(f[j - 1], f[j]) /\ ToSet(f[j - 1]) \subseteq ToSet(f[j])
        /\ ToSet(s[j]) \subseteq ToSet(f[j])
    <3>1. f[j - 1] \in Seq(K) /\ s[j] \in Seq(K) /\ f[j] = f[j - 1] \o s[j]
        BY <1>2, <1>3, <1>5, <1>b, <2>1
    <3> QED
        BY <3>1, ConcatBegins
  <2>4. ASSUME NEW i \in 1..j PROVE Begins(f[i], f[j]) /\ ToSet(s[i]) \subseteq ToSet(f[j])
    <3>1. CASE i = j
        BY <1>2, <1>c, <2>3, <3>1
    <3>2. CASE i # j
      <4>1. i \in 1..(j - 1) /\ i \in 1..Len(s)
          BY <1>a, <1>2, <3>2
      <4>2. f[i] \in Seq(K) /\ f[j - 1] \in Seq(K) /\ f[j] \in Seq(K)
          BY <1>b, <1>2, <2>1, <4>1
      <4>3. Begins(f[i], f[j - 1])
          BY <2>2, <4>1
      <4>4. Begins(f[i], f[j])
          BY <2>3, <4>2, <4>3, BeginsMore
      <4> QED
          BY <2>2, <2>3, <4>1, <4>4
    <3> QED
        BY <3>1, <3>2
  <2> QED
      BY <1>1, <2>4
<1> QED
    BY <1>4, <1>5

LEMMA FlattenHolds ==
  ASSUME NEW K, NEW s \in Seq(Seq(K)), s # <<>>
  PROVE  /\ FlattenSeq(s) \in Seq(K)
         /\ \A i \in 1..Len(s) : ToSet(s[i]) \subseteq ToSet(FlattenSeq(s))
<1>1. PICK f : Joins(s, K, f) /\ FlattenSeq(s) = f[Len(s)] /\ Len(s) \in 1..Len(s)
    BY FlattenJoins
<1>2. f[Len(s)] \in Seq(K)
    BY <1>1 DEF Joins
<1>3. \A i \in 1..Len(s) : ToSet(s[i]) \subseteq ToSet(f[Len(s)])
    BY <1>1, JoinsHold
<1> QED
    BY <1>1, <1>2, <1>3

LEMMA FlattenGrows ==
  ASSUME NEW K, NEW s \in Seq(Seq(K)), NEW t \in Seq(Seq(K)), s # <<>>, t # <<>>, Begins(s, t)
  PROVE  Begins(FlattenSeq(s), FlattenSeq(t))
<1>1. PICK f : Joins(s, K, f) /\ FlattenSeq(s) = f[Len(s)] /\ Len(s) \in 1..Len(s)
    BY FlattenJoins
<1>2. PICK g : Joins(t, K, g) /\ FlattenSeq(t) = g[Len(t)] /\ Len(t) \in 1..Len(t)
    BY FlattenJoins
<1>3. f[Len(s)] = g[Len(s)]
  <2>1. \A i \in 1..Len(s) : f[i] = g[i]
      BY <1>1, <1>2, JoinsAgree
  <2> QED
      BY <1>1, <2>1
<1>4. Len(s) \in 1..Len(t)
    BY <1>1, <1>2 DEF Begins
<1>5. Begins(g[Len(s)], g[Len(t)])
  <2>1. \A j \in 1..Len(t) : \A i \in 1..j :
            Begins(g[i], g[j]) /\ ToSet(t[i]) \subseteq ToSet(g[j])
      BY <1>2, JoinsHold
  <2>2. Len(s) \in 1..Len(t) /\ Len(t) \in 1..Len(t)
      BY <1>2, <1>4
  <2> QED
      BY <2>1, <2>2
<1> QED
    BY <1>1, <1>2, <1>3, <1>5

(* The stored messages: the results of a message's calls stand behind it,  *)
(* each where its call says.                                               *)
Char == Nat \X Nat
StoredMessage == [text : Seq(Char), calls : SUBSET Nat, answers : Nat]

Turned(s) ==
  /\ s \in Seq(StoredMessage)
  /\ \A k \in 1..Len(s) :
        /\ s[k].answers \in {0, k}
        /\ \E m \in 0..(Len(s) - k) :
              /\ s[k].calls = (k + 1)..(k + m)
              /\ \A j \in (k + 1)..(k + m) : s[j].answers = j

(* What H!Text reads, of any messages: the last of those asked for, the    *)
(* last read, and the pieces of the text.                                  *)
MessagesOf(s, from, many) ==
  SubSeq(s, from, IF from + many - 1 < Len(s) THEN from + many - 1 ELSE Len(s))
ResultsOf(s, position, messages) ==
  LET wanted == Last(messages).calls
      after == MessagesOf(s, position + Len(messages), Cardinality(wanted))
  IN  IF wanted = {} THEN messages
      ELSE messages \o SubSeq(after, 1, Cardinality({k \in DOMAIN after :
               \A i \in 1..k : after[i].answers \in wanted}))
Own(position, messages, k) == <<<<position + k - 1, 0>>>> \o messages[k].text
WordsOf(position, messages) ==
  LET words[k \in DOMAIN messages] ==
        IF k = 1 THEN Own(position, messages, k)
        ELSE words[k - 1] \o Own(position, messages, k)
  IN  words[Len(messages)]
TextOf(s, position, many) ==
  WordsOf(position, ResultsOf(s, position, MessagesOf(s, position, many)))

LastAsked(s, position, many) ==
  IF position + many - 1 < Len(s) THEN position + many - 1 ELSE Len(s)
LastRead(s, position, many) ==
  LET last == LastAsked(s, position, many)
  IN  last + Cardinality(s[last].calls)
Pieces(s, position, until) ==
  [k \in 1..(until - position + 1) |-> <<<<position + k - 1, 0>>>> \o s[position + k - 1].text]

LEMMA RangeRead ==
  ASSUME NEW s, Turned(s), NEW position \in 1..Len(s), NEW many \in Nat \ {0}
  PROVE  LET messages == MessagesOf(s, position, many)
             last == LastAsked(s, position, many)
         IN  /\ last \in position..Len(s) /\ messages \in Seq(StoredMessage)
             /\ Len(messages) = last - position + 1 /\ Last(messages) = s[last]
             /\ \A k \in 1..Len(messages) : messages[k] = s[position + k - 1]
<1> DEFINE messages == MessagesOf(s, position, many)
           last == LastAsked(s, position, many)
<1>1. s \in Seq(StoredMessage) /\ Len(s) \in Nat
    BY LenProperties DEF Turned
<1>2. last \in position..Len(s)
    BY <1>1 DEF LastAsked
<1>3. messages = SubSeq(s, position, last)
    BY DEF MessagesOf, LastAsked
<1> HIDE DEF messages, last
<1>4. position \in 1..(Len(s) + 1) /\ last \in (position - 1)..Len(s)
    BY <1>1, <1>2
<1>5. /\ messages \in Seq(StoredMessage) /\ Len(messages) = last - position + 1
      /\ \A k \in 1..(last - position + 1) : messages[k] = s[position + k - 1]
    BY <1>1, <1>3, <1>4, SubSeqProperties
<1>6. last - position + 1 \in 1..(last - position + 1) /\ position + (last - position + 1) - 1 = last
    BY <1>2
<1> QED
    BY <1>2, <1>5, <1>6 DEF Last, messages, last

LEMMA CallsStand ==
  ASSUME NEW s, Turned(s), NEW last \in 1..Len(s)
  PROVE  \E m \in 0..(Len(s) - last) :
            /\ s[last].calls = (last + 1)..(last + m) /\ Cardinality(s[last].calls) = m
            /\ s[last].calls = {} <=> m = 0
            /\ \A j \in (last + 1)..(last + m) : s[j].answers = j
<1>a. Len(s) \in Nat /\ last \in Nat
    BY LenProperties DEF Turned
<1>1. PICK m \in 0..(Len(s) - last) :
           /\ s[last].calls = (last + 1)..(last + m)
           /\ \A j \in (last + 1)..(last + m) : s[j].answers = j
    BY DEF Turned
<1>2. last + 1 \in Int /\ last + m \in Int /\ m \in Nat
    BY <1>a
<1>3. Cardinality((last + 1)..(last + m)) =
         IF last + 1 > last + m THEN 0 ELSE (last + m) - (last + 1) + 1
    BY <1>2, FS_Interval
<1>4. Cardinality(s[last].calls) = m
    BY <1>a, <1>1, <1>2, <1>3
<1>5. s[last].calls = {} <=> m = 0
  <2>1. m # 0 => last + 1 \in (last + 1)..(last + m)
      BY <1>a, <1>2
  <2>2. m = 0 => (last + 1)..(last + m) = {}
      BY <1>a
  <2> QED
      BY <1>1, <2>1, <2>2
<1> QED
    BY <1>1, <1>4, <1>5

LEMMA RunOf ==
  ASSUME NEW K, NEW s \in Seq(K), NEW a \in 1..Len(s), NEW m \in Nat \ {0}, a + m - 1 <= Len(s)
  PROVE  LET run == SubSeq(s, a, a + m - 1)
         IN  /\ run \in Seq(K) /\ Len(run) = m /\ DOMAIN run = 1..m
             /\ \A i \in 1..m : run[i] = s[a + i - 1]
<1>1. PICK b : b = a + m - 1
    OBVIOUS
<1>2. Len(s) \in Nat /\ a \in Int /\ b \in Int
    BY <1>1, LenProperties
<1>3. \A i \in a..b : s[i] \in K
  <2>1. \A i \in a..b : i \in 1..Len(s)
      BY <1>1, <1>2
  <2> QED
      BY <2>1, ElementOfSeq
<1>4. PICK run : run = SubSeq(s, a, b)
    OBVIOUS
<1>5. /\ run \in Seq(K) /\ Len(run) = IF a <= b THEN b - a + 1 ELSE 0
      /\ \A i \in 1..(b - a + 1) : run[i] = s[a + i - 1]
    BY <1>2, <1>3, <1>4, SubSeqProperties
<1>6. a <= b /\ b - a + 1 = m
    BY <1>1, <1>2
<1>7. Len(run) = m /\ \A i \in 1..m : run[i] = s[a + i - 1]
    BY <1>5, <1>6
<1>8. DOMAIN run = 1..m
    BY <1>5, <1>7, LenProperties
<1> QED
    BY <1>1, <1>4, <1>5, <1>7, <1>8

LEMMA ResultsRead ==
  ASSUME NEW s, Turned(s), NEW position \in 1..Len(s), NEW many \in Nat \ {0}
  PROVE  LET messages == ResultsOf(s, position, MessagesOf(s, position, many))
             until == LastRead(s, position, many)
         IN  /\ until \in position..Len(s) /\ LastAsked(s, position, many) <= until
             /\ DOMAIN messages = 1..(until - position + 1)
             /\ Len(messages) = until - position + 1
             /\ \A k \in DOMAIN messages : messages[k] = s[position + k - 1]
<1>a. s \in Seq(StoredMessage) /\ Len(s) \in Nat
    BY LenProperties DEF Turned
<1>1. PICK messages : messages = MessagesOf(s, position, many)
    OBVIOUS
<1>2. PICK last : last = LastAsked(s, position, many)
    OBVIOUS
<1>3. /\ last \in position..Len(s) /\ messages \in Seq(StoredMessage)
      /\ Len(messages) = last - position + 1 /\ Last(messages) = s[last]
      /\ \A k \in 1..Len(messages) : messages[k] = s[position + k - 1]
    BY <1>1, <1>2, RangeRead
<1>4. /\ DOMAIN messages = 1..(last - position + 1)
      /\ \A k \in DOMAIN messages : messages[k] = s[position + k - 1]
    BY <1>3, LenProperties
<1>5. last \in 1..Len(s) /\ last \in Nat
    BY <1>3, <1>a
<1>c. PICK m \in 0..(Len(s) - last) :
           /\ s[last].calls = (last + 1)..(last + m) /\ Cardinality(s[last].calls) = m
           /\ s[last].calls = {} <=> m = 0
           /\ \A j \in (last + 1)..(last + m) : s[j].answers = j
    BY <1>5, CallsStand
<1>d. LastRead(s, position, many) = last + m /\ m \in Nat
    BY <1>2, <1>a, <1>5, <1>c DEF LastRead
<1>6. CASE m = 0
  <2>1. ResultsOf(s, position, messages) = messages
      BY <1>3, <1>6, <1>c DEF ResultsOf
  <2>2. LastRead(s, position, many) = last
      BY <1>d, <1>5, <1>6
  <2> QED
      BY <1>1, <1>2, <1>3, <1>4, <1>5, <2>1, <2>2
<1>7. CASE m # 0
  <2>1. PICK a : a = last + 1
      OBVIOUS
  <2>2. a \in 1..Len(s) /\ m \in Nat \ {0} /\ a + m - 1 <= Len(s) /\ a + m - 1 = last + m
      BY <1>a, <1>5, <1>7, <1>d, <2>1
  <2>3. PICK after : after = SubSeq(s, a, a + m - 1)
      OBVIOUS
  <2>4. /\ after \in Seq(StoredMessage) /\ Len(after) = m /\ DOMAIN after = 1..m
        /\ \A i \in 1..m : after[i] = s[a + i - 1]
      BY <1>a, <2>2, <2>3, RunOf
  <2>5. MessagesOf(s, position + Len(messages), m) = after
    <3>1. position + Len(messages) = a
        BY <1>3, <1>5, <2>1
    <3>2. (IF a + m - 1 < Len(s) THEN a + m - 1 ELSE Len(s)) = a + m - 1
        BY <1>a, <2>2
    <3> QED
        BY <2>3, <3>1, <3>2 DEF MessagesOf
  <2>6. PICK wanted : wanted = s[last].calls
      OBVIOUS
  <2>7. wanted # {} /\ Cardinality(wanted) = m /\ Last(messages).calls = wanted
      BY <1>3, <1>7, <1>c, <2>6
  <2>8. {k \in DOMAIN after : \A i \in 1..k : after[i].answers \in wanted} = 1..m
    <3>1. ASSUME NEW i \in 1..m PROVE after[i].answers \in wanted
      <4>1. PICK j : j = a + i - 1
          OBVIOUS
      <4>2. j \in (last + 1)..(last + m)
          BY <1>5, <1>d, <2>1, <4>1
      <4>3. after[i] = s[j] /\ s[j].answers = j
          BY <1>c, <2>4, <4>1, <4>2
      <4> QED
          BY <1>c, <2>6, <4>2, <4>3
    <3>2. \A k \in 1..m : \A i \in 1..k : i \in 1..m
        BY <1>d
    <3> QED
        BY <2>4, <3>1, <3>2
  <2>9. Cardinality(1..m) = m
    <3>1. 1 \in Int /\ m \in Int
        BY <1>d
    <3>2. Cardinality(1..m) = IF 1 > m THEN 0 ELSE m - 1 + 1
        BY <3>1, FS_Interval
    <3> QED
        BY <2>2, <3>2
  <2>10. SubSeq(after, 1, m) = after
      BY <2>4, SubSeqFull
  <2>11. PICK whole : whole = messages \o after
      OBVIOUS
  <2>12. ResultsOf(s, position, messages) = whole
    <3>1. MessagesOf(s, position + Len(messages), Cardinality(Last(messages).calls)) = after
        BY <2>5, <2>7
    <3>2. {k \in DOMAIN after : \A i \in 1..k : after[i].answers \in Last(messages).calls} = 1..m
        BY <2>7, <2>8
    <3>3. Last(messages).calls # {}
        BY <2>7
    <3> QED
        BY <2>9, <2>10, <2>11, <3>1, <3>2, <3>3, ZenonT(60) DEF ResultsOf
  <2>13. PICK until : until = last + m
      OBVIOUS
  <2>14. until \in position..Len(s) /\ last <= until
      BY <1>a, <1>3, <1>5, <1>d, <2>13
  <2>15. /\ whole \in Seq(StoredMessage) /\ Len(whole) = Len(messages) + m
         /\ \A k \in 1..(Len(messages) + m) :
               whole[k] = IF k <= Len(messages) THEN messages[k] ELSE after[k - Len(messages)]
    <3>1. /\ messages \o after \in Seq(StoredMessage)
          /\ Len(messages \o after) = Len(messages) + Len(after)
          /\ \A k \in 1..(Len(messages) + Len(after)) : (messages \o after)[k] =
                IF k <= Len(messages) THEN messages[k] ELSE after[k - Len(messages)]
        BY <1>3, <2>4, ConcatProperties
    <3> QED
        BY <2>4, <2>11, <3>1
  <2>16. Len(messages) \in Nat /\ Len(messages) + m = until - position + 1
      BY <1>3, <1>5, <1>d, <2>13
  <2>17. Len(whole) = until - position + 1 /\ DOMAIN whole = 1..(until - position + 1)
      BY <2>15, <2>16, LenProperties
  <2>18. ASSUME NEW k \in DOMAIN whole PROVE whole[k] = s[position + k - 1]
    <3>0. k \in 1..(Len(messages) + m) /\ k \in Nat
        BY <2>16, <2>17, <2>18
    <3>1. CASE k <= Len(messages)
      <4>1. whole[k] = messages[k]
          BY <2>15, <3>0, <3>1
      <4>2. k \in 1..Len(messages)
          BY <2>16, <3>0, <3>1
      <4> QED
          BY <1>3, <4>1, <4>2
    <3>2. CASE ~(k <= Len(messages))
      <4>1. PICK i : i = k - Len(messages)
          OBVIOUS
      <4>a. a = position + Len(messages) /\ position \in Nat /\ m \in Nat
          BY <1>a, <1>3, <1>5, <1>d, <2>1, <2>16
      <4>2. i \in 1..m /\ a + i - 1 = position + k - 1
          BY <2>16, <3>0, <3>2, <4>1, <4>a
      <4>3. whole[k] = after[i]
          BY <2>15, <3>0, <3>2, <4>1
      <4> QED
          BY <2>4, <4>2, <4>3
    <3> QED
        BY <3>1, <3>2
  <2> QED
      BY <1>1, <1>2, <1>d, <2>12, <2>13, <2>14, <2>17, <2>18
<1> QED
    BY <1>6, <1>7

LEMMA PiecesTyped ==
  ASSUME NEW s, Turned(s), NEW position \in 1..Len(s), NEW until \in position..Len(s)
  PROVE  LET pieces == Pieces(s, position, until)
         IN  /\ pieces \in Seq(Seq(Char)) /\ pieces # <<>> /\ Len(pieces) = until - position + 1
             /\ \A k \in 1..(until - position + 1) :
                   /\ pieces[k] = <<<<position + k - 1, 0>>>> \o s[position + k - 1].text
                   /\ ToSet(s[position + k - 1].text) \subseteq ToSet(pieces[k])
<1>a. s \in Seq(StoredMessage) /\ Len(s) \in Nat
    BY LenProperties DEF Turned
<1>1. PICK n : n = until - position + 1
    OBVIOUS
<1>2. n \in Nat \ {0}
    BY <1>1, <1>a
<1>3. PICK pieces : pieces = Pieces(s, position, until)
    OBVIOUS
<1>4. pieces = [k \in 1..n |-> <<<<position + k - 1, 0>>>> \o s[position + k - 1].text]
    BY <1>1, <1>3 DEF Pieces
<1>5. ASSUME NEW k \in 1..n
      PROVE  /\ pieces[k] = <<<<position + k - 1, 0>>>> \o s[position + k - 1].text
             /\ pieces[k] \in Seq(Char)
             /\ ToSet(s[position + k - 1].text) \subseteq ToSet(pieces[k])
  <2>1. pieces[k] = <<<<position + k - 1, 0>>>> \o s[position + k - 1].text
      BY <1>4
  <2>2. position + k - 1 \in 1..Len(s) /\ position + k - 1 \in Nat
      BY <1>1, <1>a
  <2>3. <<position + k - 1, 0>> \in Char
      BY <2>2 DEF Char
  <2>4. <<<<position + k - 1, 0>>>> \in Seq(Char)
      BY <2>3
  <2>5. s[position + k - 1].text \in Seq(Char)
    <3>1. s[position + k - 1] \in StoredMessage
        BY <1>a, <2>2, ElementOfSeq
    <3> QED
        BY <3>1 DEF StoredMessage
  <2> QED
      BY <2>1, <2>4, <2>5, ConcatBegins, ConcatProperties
<1>6. pieces \in [1..n -> Seq(Char)]
    BY <1>4, <1>5
<1>7. pieces \in Seq(Seq(Char))
    BY <1>2, <1>6, SeqDef
<1>8. Len(pieces) = n
    BY <1>2, <1>6, <1>7, LenProperties
<1>9. pieces # <<>>
    BY <1>2, <1>8, EmptySeq
<1> QED
    BY <1>1, <1>3, <1>5, <1>7, <1>8, <1>9

(* A text read holds the words of every message from the place asked for   *)
(* to the last read.                                                       *)
(* Messages joined are their own words joined.                             *)
LEMMA WordsJoined ==
  ASSUME NEW K, NEW pieces \in Seq(Seq(K)), pieces # <<>>, NEW position, NEW messages,
         Len(messages) = Len(pieces), DOMAIN messages = 1..Len(pieces),
         \A k \in DOMAIN messages : Own(position, messages, k) = pieces[k]
  PROVE  WordsOf(position, messages) = FlattenSeq(pieces)
<1> DEFINE words[k \in DOMAIN messages] ==
              IF k = 1 THEN Own(position, messages, k)
              ELSE words[k - 1] \o Own(position, messages, k)
<1>1. PICK g : Joins(pieces, K, g) /\ FlattenSeq(pieces) = g[Len(pieces)] /\ Len(pieces) \in 1..Len(pieces)
    BY FlattenJoins
<1>2. g = [k \in DOMAIN messages |-> IF k = 1 THEN Own(position, messages, k)
                                     ELSE g[k - 1] \o Own(position, messages, k)]
  <2>1. g = [k \in DOMAIN messages |-> g[k]]
      BY <1>1 DEF Joins
  <2>2. [k \in DOMAIN messages |-> g[k]] =
          [k \in DOMAIN messages |-> IF k = 1 THEN Own(position, messages, k)
                                     ELSE g[k - 1] \o Own(position, messages, k)]
      BY <1>1, ZenonT(60) DEF Joins
  <2> QED
      BY <2>1, <2>2
<1>3. words = [k \in DOMAIN messages |-> IF k = 1 THEN Own(position, messages, k)
                                         ELSE words[k - 1] \o Own(position, messages, k)]
    BY <1>2
<1>4. WordsOf(position, messages) = words[Len(messages)]
    BY DEF WordsOf
<1> HIDE DEF words
<1>5. \A i \in 1..Len(pieces) : words[i] = g[i]
  <2> DEFINE Bad == {i \in 1..Len(pieces) : words[i] # g[i]}
  <2> SUFFICES ASSUME Bad # {} PROVE FALSE
      OBVIOUS
  <2>1. PICK i \in Bad : \A j \in Bad : i <= j
    <3>1. Bad \in SUBSET Nat
        BY <1>1
    <3> HIDE DEF Bad
    <3> QED
        BY <3>1, HasLeast
  <2>2. i \in DOMAIN messages /\ Own(position, messages, i) = pieces[i]
      BY <2>1
  <2>3. words[i] = IF i = 1 THEN pieces[i] ELSE words[i - 1] \o pieces[i]
    <3>1. words[i] = IF i = 1 THEN Own(position, messages, i)
                     ELSE words[i - 1] \o Own(position, messages, i)
      <4> HIDE DEF Bad
      <4> QED
          BY <1>3, <2>2, Zenon
    <3> QED
        BY <2>2, <3>1
  <2>4. g[i] = IF i = 1 THEN pieces[i] ELSE g[i - 1] \o pieces[i]
      BY <1>1, <2>1 DEF Joins
  <2>5. i # 1 => i - 1 \in 1..Len(pieces) /\ i - 1 \notin Bad
      BY <1>1, <2>1, SMTT(30)
  <2> QED
      BY <2>1, <2>3, <2>4, <2>5
<1> QED
    BY <1>1, <1>4, <1>5

LEMMA TextHolds ==
  ASSUME NEW s, Turned(s), NEW position \in 1..Len(s), NEW many \in Nat \ {0}
  PROVE  LET until == LastRead(s, position, many)
             text == TextOf(s, position, many)
         IN  /\ until \in position..Len(s) /\ LastAsked(s, position, many) <= until
             /\ text = FlattenSeq(Pieces(s, position, until)) /\ text \in Seq(Char)
             /\ \A k \in position..until : ToSet(s[k].text) \subseteq ToSet(text)
<1>a. Len(s) \in Nat
    BY LenProperties DEF Turned
<1>1. PICK until : until = LastRead(s, position, many)
    OBVIOUS
<1>2. PICK messages : messages = ResultsOf(s, position, MessagesOf(s, position, many))
    OBVIOUS
<1>3. /\ until \in position..Len(s) /\ LastAsked(s, position, many) <= until
      /\ DOMAIN messages = 1..(until - position + 1)
      /\ Len(messages) = until - position + 1
      /\ \A k \in DOMAIN messages : messages[k] = s[position + k - 1]
    BY <1>1, <1>2, ResultsRead, ZenonT(60)
<1>4. PICK pieces : pieces = Pieces(s, position, until)
    OBVIOUS
<1>8. /\ pieces \in Seq(Seq(Char)) /\ pieces # <<>> /\ Len(pieces) = until - position + 1
      /\ \A k \in 1..(until - position + 1) :
            ToSet(s[position + k - 1].text) \subseteq ToSet(pieces[k])
    BY <1>3, <1>4, PiecesTyped
<1>5. DOMAIN messages = 1..Len(pieces) /\ \A k \in DOMAIN messages : Own(position, messages, k) = pieces[k]
    BY <1>3, <1>4, <1>8 DEF Pieces, Own
<1>6. PICK text : text = TextOf(s, position, many)
    OBVIOUS
<1>7. text = FlattenSeq(pieces)
  <2>1. text = WordsOf(position, messages)
      BY <1>2, <1>6 DEF TextOf
  <2> QED
      BY <1>3, <1>5, <1>8, <2>1, WordsJoined
<1>9. text \in Seq(Char) /\ \A k \in 1..Len(pieces) : ToSet(pieces[k]) \subseteq ToSet(text)
    BY <1>7, <1>8, FlattenHolds
<1>10. ASSUME NEW k \in position..until PROVE ToSet(s[k].text) \subseteq ToSet(text)
  <2>1. PICK j : j = k - position + 1
      OBVIOUS
  <2>2. j \in 1..(until - position + 1) /\ position + j - 1 = k /\ j \in 1..Len(pieces)
      BY <1>3, <1>8, <1>a, <2>1
  <2> QED
      BY <1>8, <1>9, <2>2
<1> QED
    BY <1>1, <1>3, <1>4, <1>6, <1>7, <1>9, <1>10

(* A text only grows as the conversation does.                             *)
LEMMA TextGrows ==
  ASSUME NEW s, Turned(s), NEW t, Turned(t), Begins(s, t),
         NEW position \in 1..Len(s), NEW many \in Nat \ {0}
  PROVE  Begins(TextOf(s, position, many), TextOf(t, position, many))
<1>a. Len(s) \in Nat /\ Len(t) \in Nat /\ Len(s) <= Len(t) /\ position \in 1..Len(t)
    BY LenProperties DEF Turned, Begins
<1>1. PICK u : u = LastRead(s, position, many)
    OBVIOUS
<1>2. PICK v : v = LastRead(t, position, many)
    OBVIOUS
<1>3. /\ u \in position..Len(s) /\ TextOf(s, position, many) = FlattenSeq(Pieces(s, position, u))
    BY <1>1, TextHolds
<1>4. /\ v \in position..Len(t) /\ LastAsked(t, position, many) <= v
      /\ TextOf(t, position, many) = FlattenSeq(Pieces(t, position, v))
    BY <1>2, <1>a, TextHolds
<1>5. u <= v
  <2>1. PICK last : last = LastAsked(s, position, many)
      OBVIOUS
  <2>2. last \in 1..Len(s) /\ last <= Len(s) /\ last = IF position + many - 1 < Len(s)
                                                       THEN position + many - 1 ELSE Len(s)
      BY <1>a, <2>1 DEF LastAsked
  <2>3. u = last + Cardinality(s[last].calls)
      BY <1>1, <2>1 DEF LastRead
  <2>4. CASE LastAsked(t, position, many) = last
    <3>1. t[last] = s[last]
        BY <2>2 DEF Begins
    <3>2. v = u
        BY <1>2, <2>3, <2>4, <3>1 DEF LastRead
    <3> QED
        BY <1>3, <1>4, <3>2
  <2>5. CASE LastAsked(t, position, many) # last
    <3>1. last = Len(s) /\ last + 1 <= LastAsked(t, position, many)
        BY <1>a, <2>2, <2>5 DEF LastAsked
    <3>2. Cardinality(s[last].calls) = 0
      <4>1. PICK m \in 0..(Len(s) - last) : Cardinality(s[last].calls) = m
          BY <2>2, CallsStand
      <4> QED
          BY <1>a, <3>1, <4>1
    <3> QED
        BY <1>a, <1>4, <2>2, <2>3, <3>1, <3>2 DEF LastAsked
  <2> QED
      BY <2>4, <2>5
<1>6. PICK p : p = Pieces(s, position, u)
    OBVIOUS
<1>7. PICK q : q = Pieces(t, position, v)
    OBVIOUS
<1>8. /\ p \in Seq(Seq(Char)) /\ p # <<>> /\ Len(p) = u - position + 1
      /\ \A k \in 1..(u - position + 1) :
            p[k] = <<<<position + k - 1, 0>>>> \o s[position + k - 1].text
    BY <1>3, <1>6, PiecesTyped
<1>9. /\ q \in Seq(Seq(Char)) /\ q # <<>> /\ Len(q) = v - position + 1
      /\ \A k \in 1..(v - position + 1) :
            q[k] = <<<<position + k - 1, 0>>>> \o t[position + k - 1].text
    BY <1>4, <1>7, <1>a, PiecesTyped
<1>10. Begins(p, q)
  <2>1. ASSUME NEW k \in 1..Len(p) PROVE p[k] = q[k]
    <3>1. k \in 1..(u - position + 1) /\ k \in 1..(v - position + 1)
          /\ position + k - 1 \in 1..Len(s)
        BY <1>3, <1>4, <1>5, <1>8, <1>a, <2>1
    <3>2. s[position + k - 1] = t[position + k - 1]
        BY <3>1 DEF Begins
    <3> QED
        BY <1>8, <1>9, <3>1, <3>2
  <2>2. Len(p) <= Len(q)
      BY <1>3, <1>4, <1>5, <1>8, <1>9, <1>a
  <2> QED
      BY <2>1, <2>2 DEF Begins
<1> QED
    BY <1>3, <1>4, <1>6, <1>7, <1>8, <1>9, <1>10, FlattenGrows

(* What a reader has got is what stands there from the beginning; what is  *)
(* left, that there is more.                                               *)
Readings == [at : Nat, count : Nat, offset : Nat, got : Seq(Char), told : {"nothing", "all", "more"},
             of : Nat]
Words == TextOf(said, reading.at, reading.count)

Reached ==
  reading.at # 0 =>
    /\ reading.at \in 1..Len(said) /\ reading.count \in {1, 2} /\ reading.of <= Len(said)
    /\ reading.told \in {"all", "more"}
    /\ reading.offset = Len(reading.got) /\ Begins(reading.got, Words)
    /\ reading.told = "more" => reading.offset < Len(Words)
    /\ reading.told = "all" /\ reading.of = Len(said) => reading.offset = Len(Words)

ReadInv ==
  /\ Turned(said) /\ reading \in Readings /\ Reached
  /\ reading.at = 0 => reading.told = "nothing"

LEMMA ReadStarts == H!Init => ReadInv
<1> SUFFICES ASSUME H!Init PROVE ReadInv
    OBVIOUS
<1>1. said = <<>> /\ Len(said) = 0
    BY DEF H!Init
<1>2. said \in Seq(StoredMessage) /\ <<>> \in Seq(Char)
    BY <1>1, EmptySeq
<1>3. reading = [at |-> 0, count |-> 0, offset |-> 0, got |-> <<>>, told |-> "nothing", of |-> 0]
    BY DEF H!Init, H!NotReading
<1>4. reading \in Readings
    BY <1>2, <1>3 DEF Readings
<1> QED
    BY <1>1, <1>2, <1>3, <1>4 DEF ReadInv, Turned, Reached

(* One page more.                                                          *)
LEMMA PageRead ==
  ASSUME H!HistoryAssumption, NEW text \in Seq(Char), NEW got \in Seq(Char), Begins(got, text),
         NEW offset, offset = Len(got), offset = 0 \/ offset < Len(text)
  PROVE  LET page == H!Page(text, offset, PageChars)
             more == got \o page.body
         IN  /\ page.told \in {"all", "more"} /\ more \in Seq(Char)
             /\ Len(more) = offset + Len(page.body) /\ Begins(more, text)
             /\ page.told = "more" => Len(more) < Len(text)
             /\ page.told = "all" => Len(more) = Len(text)
<1>a. Len(text) \in Nat /\ Len(got) \in Nat /\ PageChars \in Nat \ {0} /\ Len(got) <= Len(text)
    BY LenProperties DEF H!HistoryAssumption, Begins
<1>1. PICK to : to = IF offset + PageChars < Len(text) THEN offset + PageChars ELSE Len(text)
    OBVIOUS
<1>2. to \in Nat /\ offset <= to /\ to <= Len(text)
    BY <1>1, <1>a
<1>3. PICK body : body = SubSeq(text, offset + 1, to)
    OBVIOUS
<1>4. PICK page : page = H!Page(text, offset, PageChars)
    OBVIOUS
<1>5. page = [body |-> body, told |-> IF offset + Len(body) >= Len(text) THEN "all" ELSE "more"]
  <2>1. ~(offset > 0 /\ offset >= Len(text))
      BY <1>a
  <2>2. page = LET b == SubSeq(text, offset + 1, IF offset + PageChars < Len(text)
                                                 THEN offset + PageChars ELSE Len(text))
               IN  [body |-> b, told |-> IF offset + Len(b) >= Len(text) THEN "all" ELSE "more"]
      BY <1>4, <2>1 DEF H!Page
  <2> QED
      BY <1>1, <1>3, <2>2
<1>6. /\ body \in Seq(Char) /\ Len(body) = to - offset
      /\ \A i \in 1..(to - offset) : body[i] = text[offset + i]
  <2>1. PICK m : m = offset + 1
      OBVIOUS
  <2>2. m \in Int /\ to \in Int /\ \A i \in m..to : text[i] \in Char
    <3>1. \A i \in m..to : i \in 1..Len(text)
        BY <1>2, <1>a, <2>1
    <3> QED
        BY <1>2, <1>a, <2>1, <3>1, ElementOfSeq
  <2>3. /\ SubSeq(text, m, to) \in Seq(Char)
        /\ Len(SubSeq(text, m, to)) = IF m <= to THEN to - m + 1 ELSE 0
        /\ \A i \in 1..(to - m + 1) : SubSeq(text, m, to)[i] = text[m + i - 1]
      BY <2>2, SubSeqProperties
  <2>4. /\ (IF m <= to THEN to - m + 1 ELSE 0) = to - offset /\ to - m + 1 = to - offset
        /\ \A i \in 1..(to - offset) : m + i - 1 = offset + i
      BY <1>2, <1>a, <2>1
  <2>5. body = SubSeq(text, m, to)
      BY <1>3, <2>1
  <2> QED
      BY <2>3, <2>4, <2>5
<1>7. PICK more : more = got \o body
    OBVIOUS
<1>8. /\ more \in Seq(Char) /\ Len(more) = Len(got) + Len(body)
      /\ \A i \in 1..(Len(got) + Len(body)) :
            more[i] = IF i <= Len(got) THEN got[i] ELSE body[i - Len(got)]
    BY <1>6, <1>7, ConcatProperties
<1>9. Len(more) = to
    BY <1>2, <1>6, <1>8, <1>a
<1>10. ASSUME NEW i \in 1..Len(more) PROVE more[i] = text[i]
  <2>1. CASE i \in 1..Len(got)
    <3>1. more[i] = got[i]
        BY <1>2, <1>6, <1>8, <1>9, <1>a, <2>1
    <3> QED
        BY <2>1, <3>1 DEF Begins
  <2>2. CASE i \notin 1..Len(got)
    <3>1. i - Len(got) \in 1..(to - offset) /\ i \in 1..(Len(got) + Len(body))
          /\ ~(i <= Len(got)) /\ offset + (i - Len(got)) = i
        BY <1>2, <1>6, <1>9, <1>a, <2>2
    <3>2. more[i] = body[i - Len(got)]
        BY <1>8, <3>1
    <3> QED
        BY <1>6, <3>1, <3>2
  <2> QED
      BY <2>1, <2>2
<1>11. Begins(more, text)
    BY <1>2, <1>9, <1>10 DEF Begins
<1>12. page.body = body /\ offset + Len(body) = to
    BY <1>2, <1>5, <1>6, <1>a
<1>13. /\ page.told \in {"all", "more"}
       /\ page.told = "more" => to < Len(text)
       /\ page.told = "all" => to = Len(text)
    BY <1>2, <1>5, <1>12, <1>a
<1> QED
    BY <1>4, <1>7, <1>8, <1>9, <1>11, <1>12, <1>13

LEMMA TextIs == \A position, many : H!Text(position, many) = TextOf(said, position, many)
<1>1. \A K : H!Cardinality(K) = Cardinality(K)
    BY DEF H!Cardinality, Cardinality
<1>2. \A position, messages : H!Headed(position, messages) = WordsOf(position, messages)
    BY DEF H!Headed, WordsOf, Own
<1>4. \A from, many : H!Messages(from, many) = MessagesOf(said, from, many)
    BY DEF H!Messages, MessagesOf
<1>5. \A position, messages :
         H!WithResults(position, messages) = ResultsOf(said, position, messages)
    BY <1>1, <1>4, ZenonT(60) DEF H!WithResults, ResultsOf, Last
<1> QED
    BY <1>2, <1>4, <1>5 DEF H!Text, TextOf

LEMMA ShownKeeps ==
  ASSUME H!HistoryAssumption, Turned(said), UNCHANGED said,
         NEW position \in 1..Len(said), NEW many \in {1, 2}, NEW offset \in Nat, NEW got \in Seq(Char),
         H!Shown(position, many, offset, got),
         offset = Len(got), Begins(got, TextOf(said, position, many)),
         offset = 0 \/ offset < Len(TextOf(said, position, many))
  PROVE  ReadInv'
<1>1. PICK text : text = TextOf(said, position, many)
    OBVIOUS
<1>2. text \in Seq(Char)
  <2>1. many \in Nat \ {0}
      OBVIOUS
  <2> QED
      BY <1>1, <2>1, TextHolds
<1>3. PICK page : page = H!Page(text, offset, PageChars)
    OBVIOUS
<1>4. PICK more : more = got \o page.body
    OBVIOUS
<1>5. /\ page.told \in {"all", "more"} /\ more \in Seq(Char)
      /\ Len(more) = offset + Len(page.body) /\ Begins(more, text)
      /\ page.told = "more" => Len(more) < Len(text)
      /\ page.told = "all" => Len(more) = Len(text)
    BY <1>1, <1>2, <1>3, <1>4, PageRead
<1>6. reading' = [at |-> position, count |-> many, offset |-> Len(more), got |-> more,
                  told |-> page.told, of |-> Len(said)]
    BY <1>1, <1>3, <1>4, <1>5, TextIs DEF H!Shown
<1>7. Len(said) \in Nat /\ Len(more) \in Nat
    BY <1>5, LenProperties DEF Turned
<1>8. reading' \in Readings
    BY <1>5, <1>6, <1>7 DEF Readings
<1>9. Words' = text /\ Len(said') = Len(said) /\ said' = said
    BY <1>1, <1>6 DEF Words
<1>10. Reached'
    BY <1>5, <1>6, <1>7, <1>9 DEF Reached
<1> QED
    BY <1>6, <1>8, <1>9, <1>10 DEF ReadInv

(* A turn is stored whole, after all that was stored before it.            *)
LEMMA TurnStored ==
  ASSUME H!HistoryAssumption, Turned(said), NEW size \in 1..MaxText, NEW many \in 0..MaxTogether,
         H!Grow(size, many)
  PROVE  /\ Turned(said') /\ Begins(said, said') /\ Len(said) < Len(said')
         /\ UNCHANGED reading
<1>a. said \in Seq(StoredMessage) /\ Len(said) \in Nat /\ size \in Nat /\ many \in Nat
    BY LenProperties DEF Turned, H!HistoryAssumption
<1>1. PICK n : n = Len(said)
    OBVIOUS
<1>2. PICK made : made = (n + 3)..(n + 2 + many)
    OBVIOUS
<1>3. PICK long : long = IF many = 0 THEN 2 ELSE 3 + many
    OBVIOUS
<1> DEFINE text(k) == [i \in 1..size |-> <<n + k, i>>]
           One(k) == [text |-> text(k), calls |-> IF k = 2 THEN made ELSE {},
                      answers |-> IF n + k \in made THEN n + k ELSE 0]
<1>4. PICK turn : turn = [k \in 1..long |-> One(k)]
    OBVIOUS
<1>5. said' = said \o turn /\ UNCHANGED reading
    BY <1>1, <1>2, <1>3, <1>4 DEF H!Grow, H!Said
<1>b. \A k \in Nat : text(k) \in Seq(Char)
  <2>1. \A k \in Nat : text(k) \in [1..size -> Char]
      BY <1>1, <1>a DEF Char
  <2> HIDE DEF text
  <2> QED
      BY <1>a, <2>1, SeqDef
<1>c. n \in Nat /\ long \in Nat \ {0} /\ 2 <= long /\ made \subseteq Nat
    BY <1>1, <1>2, <1>3, <1>a
<1> HIDE DEF text
<1>d. \A k \in 1..long : turn[k] \in StoredMessage
  <2>1. ASSUME NEW k \in 1..long PROVE One(k) \in StoredMessage
    <3>1. text(k) \in Seq(Char)
        BY <1>b
    <3>2. (IF k = 2 THEN made ELSE {}) \in SUBSET Nat
        BY <1>c
    <3>3. (IF n + k \in made THEN n + k ELSE 0) \in Nat
        BY <1>c
    <3> QED
        BY <3>1, <3>2, <3>3 DEF StoredMessage
  <2> QED
      BY <1>4, <2>1
<1>e. turn \in Seq(StoredMessage) /\ Len(turn) = long
  <2>1. turn \in [1..long -> StoredMessage]
      BY <1>4, <1>d
  <2>2. turn \in Seq(StoredMessage)
      BY <1>c, <2>1, SeqDef
  <2> QED
      BY <1>c, <2>1, <2>2, LenProperties
<1>f. \A j \in 1..long :
         /\ turn[j].calls = IF j = 2 THEN made ELSE {}
         /\ turn[j].answers = IF n + j \in made THEN n + j ELSE 0
    BY <1>4
<1>6. \A j \in 1..Len(turn) :
         /\ turn[j].answers \in {0, n + j}
         /\ \E m \in 0..(Len(turn) - j) :
               /\ turn[j].calls = (n + j + 1)..(n + j + m)
               /\ \A i \in (j + 1)..(j + m) : turn[i].answers = n + i
  <2>1. ASSUME NEW j \in 1..long
        PROVE  /\ turn[j].answers \in {0, n + j}
               /\ \E m \in 0..(long - j) :
                     /\ turn[j].calls = (n + j + 1)..(n + j + m)
                     /\ \A i \in (j + 1)..(j + m) : turn[i].answers = n + i
    <3>1. turn[j].answers \in {0, n + j}
        BY <1>f
    <3>2. CASE j = 2
      <4>1. many \in 0..(long - j) /\ made = (n + j + 1)..(n + j + many)
          BY <1>2, <1>3, <1>a, <1>c, <3>2
      <4>2. ASSUME NEW i \in (j + 1)..(j + many) PROVE turn[i].answers = n + i
        <5>1. i \in 1..long /\ n + i \in made
            BY <1>2, <1>3, <1>a, <1>c, <3>2, <4>1
        <5> QED
            BY <1>f, <5>1
      <4> QED
          BY <1>f, <3>1, <3>2, <4>1, <4>2
    <3>3. CASE j # 2
      <4>1. 0 \in 0..(long - j) /\ (n + j + 1)..(n + j + 0) = {} /\ (j + 1)..(j + 0) = {}
          BY <1>c
      <4> QED
          BY <1>f, <3>1, <3>3, <4>1
    <3> QED
        BY <3>2, <3>3
  <2> QED
      BY <1>e, <2>1
<1>7. PICK longer : longer = said'
    OBVIOUS
<1>8. /\ longer \in Seq(StoredMessage) /\ Len(longer) = n + Len(turn)
      /\ \A k \in 1..(n + Len(turn)) : longer[k] = IF k <= n THEN said[k] ELSE turn[k - n]
    BY <1>1, <1>5, <1>7, <1>a, <1>e, ConcatProperties
<1>9. \A k \in 1..n : longer[k] = said[k]
    BY <1>8, <1>c, <1>e
<1>10. \A j \in 1..Len(turn) : longer[n + j] = turn[j]
  <2>1. ASSUME NEW j \in 1..Len(turn) PROVE longer[n + j] = turn[j]
    <3>1. PICK k : k = n + j
        OBVIOUS
    <3>2. k \in 1..(n + Len(turn)) /\ ~(k <= n) /\ k - n = j
        BY <1>c, <1>e, <3>1
    <3> QED
        BY <1>8, <3>1, <3>2
  <2> QED
      BY <2>1
<1>11. Turned(longer)
  <2>1. ASSUME NEW k \in 1..Len(longer)
        PROVE  /\ longer[k].answers \in {0, k}
               /\ \E m \in 0..(Len(longer) - k) :
                     /\ longer[k].calls = (k + 1)..(k + m)
                     /\ \A j \in (k + 1)..(k + m) : longer[j].answers = j
    <3>1. CASE k \in 1..n
      <4>1. longer[k] = said[k] /\ said[k].answers \in {0, k}
          BY <1>1, <1>9, <3>1 DEF Turned
      <4>2. PICK m \in 0..(n - k) :
                 /\ said[k].calls = (k + 1)..(k + m)
                 /\ \A j \in (k + 1)..(k + m) : said[j].answers = j
          BY <1>1, <3>1 DEF Turned
      <4>3. m \in 0..(Len(longer) - k) /\ \A j \in (k + 1)..(k + m) : j \in 1..n
          BY <1>8, <1>c, <1>e, <3>1
      <4> QED
          BY <1>9, <4>1, <4>2, <4>3
    <3>2. CASE k \notin 1..n
      <4>1. PICK j \in 1..Len(turn) : k = n + j
        <5>1. k - n \in 1..Len(turn) /\ k = n + (k - n)
            BY <1>8, <1>c, <1>e, <3>2
        <5> QED
            BY <5>1
      <4>2. longer[k] = turn[j] /\ turn[j].answers \in {0, k}
          BY <1>6, <1>10, <4>1
      <4>3. PICK m \in 0..(Len(turn) - j) :
                 /\ turn[j].calls = (n + j + 1)..(n + j + m)
                 /\ \A i \in (j + 1)..(j + m) : turn[i].answers = n + i
          BY <1>6, <4>1
      <4>4. m \in 0..(Len(longer) - k) /\ turn[j].calls = (k + 1)..(k + m)
          BY <1>8, <1>c, <1>e, <4>1, <4>3
      <4>5. ASSUME NEW i \in (k + 1)..(k + m) PROVE longer[i].answers = i
        <5>1. PICK h : h = i - n
            OBVIOUS
        <5>2. h \in (j + 1)..(j + m) /\ h \in 1..Len(turn) /\ n + h = i
            BY <1>c, <1>e, <4>1, <4>3, <5>1
        <5> QED
            BY <1>10, <4>3, <5>2
      <4> QED
          BY <4>2, <4>4, <4>5
    <3> QED
        BY <3>1, <3>2
  <2> QED
      BY <1>8, <2>1 DEF Turned
<1>12. Begins(said, longer) /\ Len(said) < Len(longer)
  <2>1. \A i \in 1..Len(said) : said[i] = longer[i]
      BY <1>1, <1>9
  <2>2. Len(said) < Len(longer) /\ Len(said) <= Len(longer)
      BY <1>1, <1>8, <1>c, <1>e
  <2> QED
      BY <2>1, <2>2 DEF Begins
<1> QED
    BY <1>5, <1>7, <1>11, <1>12

LEMMA ReadStep == H!HistoryAssumption /\ ReadInv /\ [H!Next]_stored => ReadInv'
<1> SUFFICES ASSUME H!HistoryAssumption, ReadInv, [H!Next]_stored PROVE ReadInv'
    OBVIOUS
<1>a. Turned(said) /\ reading \in Readings /\ Reached /\ Len(said) \in Nat
    BY LenProperties DEF ReadInv, Turned
<1>1. ASSUME NEW size \in 1..MaxText, NEW many \in 0..MaxTogether, H!Grow(size, many)
      PROVE  ReadInv'
  <2>1. /\ Turned(said') /\ Begins(said, said') /\ Len(said) < Len(said')
        /\ UNCHANGED reading
      BY <1>1, <1>a, TurnStored
  <2>2. Len(said') \in Nat
      BY <2>1, LenProperties DEF Turned
  <2>3. ASSUME reading.at # 0
        PROVE  /\ reading.at \in 1..Len(said') /\ reading.of < Len(said')
               /\ Begins(reading.got, Words') /\ Len(Words) <= Len(Words')
    <3>1. /\ reading.at \in 1..Len(said) /\ reading.count \in Nat \ {0} /\ reading.of \in Nat
          /\ reading.of <= Len(said) /\ Begins(reading.got, Words)
        BY <1>a, <2>3 DEF Reached, Readings
    <3>2. reading.at \in 1..Len(said')
        BY <1>a, <2>1, <2>2, <3>1
    <3>3. PICK words : words = TextOf(said', reading.at, reading.count)
        OBVIOUS
    <3>4. Words' = words
        BY <2>1, <3>3 DEF Words
    <3>5. Begins(Words, words)
        BY <1>a, <2>1, <3>1, <3>3, TextGrows DEF Words
    <3>6. words \in Seq(Char) /\ Words \in Seq(Char) /\ reading.got \in Seq(Char)
        BY <1>a, <2>1, <3>1, <3>2, <3>3, TextHolds DEF Words, Readings
    <3>7. Begins(reading.got, words)
        BY <3>1, <3>5, <3>6, BeginsMore
    <3> QED
        BY <1>a, <2>1, <2>2, <3>1, <3>2, <3>4, <3>5, <3>7 DEF Begins
  <2>4. Reached'
    <3>1. CASE reading.at = 0
        BY <2>1, <3>1 DEF Reached
    <3>2. CASE reading.at # 0
      <4>1. /\ reading.count \in {1, 2} /\ reading.told \in {"all", "more"}
            /\ reading.offset = Len(reading.got) /\ reading.offset \in Nat /\ reading.of \in Nat
            /\ reading.told = "more" => reading.offset < Len(Words)
            /\ reading.at \in 1..Len(said) /\ reading.count \in Nat \ {0}
          BY <1>a, <3>2 DEF Reached, Readings
      <4>2. Words \in Seq(Char)
          BY <1>a, <4>1, TextHolds DEF Words
      <4>3. PICK words : words = Words'
          OBVIOUS
      <4>4. /\ reading.at \in 1..Len(said') /\ reading.of < Len(said')
            /\ Begins(reading.got, words) /\ Len(Words) <= Len(words)
          BY <2>3, <3>2, <4>3
      <4>5. words \in Seq(Char)
        <5>1. words = TextOf(said', reading.at, reading.count)
            BY <2>1, <4>3 DEF Words
        <5> QED
            BY <2>1, <4>1, <4>4, <5>1, TextHolds
      <4>6. Len(Words) \in Nat /\ Len(words) \in Nat
          BY <4>2, <4>5, LenProperties
      <4>7. reading.told = "more" => reading.offset < Len(words)
          BY <4>1, <4>4, <4>6
      <4>8. reading.of <= Len(said') /\ reading.of # Len(said')
          BY <2>2, <4>1, <4>4
      <4> QED
          BY <2>1, <4>1, <4>3, <4>4, <4>7, <4>8 DEF Reached
    <3> QED
        BY <3>1, <3>2
  <2> QED
      BY <2>1, <2>4, <1>a DEF ReadInv
<1>2. ASSUME NEW position \in 1..MaxStored, NEW many \in 1..2, H!Read(position, many)
      PROVE  ReadInv'
  <2>1. /\ position \in 1..Len(said) /\ many \in {1, 2} /\ many \in Nat \ {0}
        /\ H!Shown(position, many, 0, <<>>) /\ UNCHANGED said
      BY <1>2, <1>a DEF H!Read
  <2>2. <<>> \in Seq(Char) /\ Len(<<>>) = 0
      BY EmptySeq
  <2>3. Begins(<<>>, TextOf(said, position, many))
    <3>1. Len(TextOf(said, position, many)) \in Nat
        BY <1>a, <2>1, TextHolds, LenProperties
    <3> QED
        BY <2>2, <3>1 DEF Begins
  <2> QED
      BY <1>a, <2>1, <2>2, <2>3, ShownKeeps
<1>3. ASSUME H!ReadOn PROVE ReadInv'
  <2>1. /\ reading.told = "more" /\ UNCHANGED said
        /\ H!Shown(reading.at, reading.count, reading.offset, reading.got)
      BY <1>3 DEF H!ReadOn
  <2>2. reading.at # 0
      BY <2>1 DEF ReadInv
  <2>3. /\ reading.at \in 1..Len(said) /\ reading.count \in {1, 2}
        /\ reading.offset = Len(reading.got) /\ Begins(reading.got, Words)
        /\ reading.offset < Len(Words) /\ reading.offset \in Nat /\ reading.got \in Seq(Char)
      BY <1>a, <2>1, <2>2 DEF Reached, Readings
  <2> QED
      BY <1>a, <2>1, <2>3, ShownKeeps DEF Words
<1>4. CASE UNCHANGED stored
  <2>1. UNCHANGED <<said, reading>>
      BY <1>4 DEF stored
  <2>2. Words' = Words
      BY <2>1 DEF Words
  <2>3. Reached' = Reached
      BY <2>1, <2>2 DEF Reached
  <2> QED
      BY <2>1, <2>3 DEF ReadInv
<1> QED
    BY <1>1, <1>2, <1>3, <1>4 DEF H!Next

LEMMA HistoryMoves == [ServicesNext]_<<family, services, vars>> => [H!Next]_stored
  BY DEF ServicesNext, Poll, Store, Trace, Serve, Graph, Browse, Remember, Talk, services

LEMMA WordsArrive == ReadInv => HistoryArrives
<1> SUFFICES ASSUME ReadInv, reading.at # 0 PROVE HistoryArrives
    BY DEF HistoryArrives
<1>a. /\ Turned(said) /\ reading \in Readings /\ said \in Seq(StoredMessage)
      /\ DOMAIN said = 1..Len(said) /\ Len(said) \in Nat
    BY LenProperties DEF ReadInv, Turned
<1>1. /\ reading.at \in 1..Len(said) /\ reading.count \in Nat \ {0}
      /\ reading.told \in {"all", "more"} /\ reading.got \in Seq(Char)
      /\ reading.offset = Len(reading.got) /\ Begins(reading.got, Words)
      /\ reading.told = "all" /\ reading.of = Len(said) => reading.offset = Len(Words)
    BY <1>a DEF ReadInv, Reached, Readings
<1>2. Words = H!Text(reading.at, reading.count)
    BY TextIs DEF Words
<1>3. PICK until : until = LastRead(said, reading.at, reading.count)
    OBVIOUS
<1>4. /\ until \in reading.at..Len(said) /\ LastAsked(said, reading.at, reading.count) <= until
      /\ Words \in Seq(Char)
      /\ \A k \in reading.at..until : ToSet(said[k].text) \subseteq ToSet(Words)
    BY <1>1, <1>3, <1>a, TextHolds DEF Words
<1>5. Len(Words) \in Nat /\ Len(reading.got) \in Nat
    BY <1>1, <1>4, LenProperties
<1>6. IsPrefix(reading.got, Words)
  <2>1. PICK n : n = Len(reading.got)
      OBVIOUS
  <2>2. n \in Int /\ n <= Len(Words) /\ \A i \in 1..n : reading.got[i] = Words[i]
      BY <1>1, <1>5, <2>1 DEF Begins
  <2>3. \A i \in 1..n : i \in 1..Len(Words) /\ i \in 1..Len(reading.got)
      BY <1>5, <2>1, <2>2
  <2>4. /\ \A i \in 1..n : Words[i] \in Char
        /\ \A i \in 1..n : reading.got[i] \in Char
      BY <1>1, <1>4, <2>3, ElementOfSeq
  <2>5. /\ SubSeq(Words, 1, n) \in Seq(Char)
        /\ Len(SubSeq(Words, 1, n)) = IF 1 <= n THEN n - 1 + 1 ELSE 0
        /\ \A i \in 1..(n - 1 + 1) : SubSeq(Words, 1, n)[i] = Words[1 + i - 1]
      BY <2>2, <2>4, SubSeqProperties
  <2>6. SubSeq(reading.got, 1, n) = reading.got
      BY <1>1, <2>1, SubSeqFull
  <2>7. Len(SubSeq(Words, 1, n)) = n
      BY <1>5, <2>1, <2>5
  <2>8. \A i \in 1..n : SubSeq(Words, 1, n)[i] = reading.got[i]
      BY <1>5, <2>1, <2>2, <2>5
  <2>9. SubSeq(Words, 1, n) = reading.got
      BY <1>1, <2>1, <2>5, <2>7, <2>8, SeqEqual
  <2> QED
      BY <2>1, <2>2, <2>6, <2>9 DEF IsPrefix
<1>7. ASSUME reading.told = "all", reading.of = Len(said)
      PROVE  /\ reading.got = Words
             /\ \A k \in DOMAIN said :
                   \/ k \in reading.at..(reading.at + reading.count - 1)
                   \/ /\ reading.at + reading.count - 1 \in DOMAIN said
                      /\ said[k].answers \in said[reading.at + reading.count - 1].calls
                => ToSet(said[k].text) \subseteq ToSet(reading.got)
  <2>1. Len(reading.got) = Len(Words)
      BY <1>1, <1>7
  <2>2. \A i \in 1..Len(reading.got) : reading.got[i] = Words[i]
      BY <1>1 DEF Begins
  <2>3. reading.got = Words
      BY <1>1, <1>4, <2>1, <2>2, SeqEqual
  <2>4. PICK final : final = reading.at + reading.count - 1
      OBVIOUS
  <2>5. ASSUME NEW k \in DOMAIN said,
               \/ k \in reading.at..final
               \/ final \in DOMAIN said /\ said[k].answers \in said[final].calls
        PROVE  k \in reading.at..until
    <3>1. CASE k \in reading.at..final
      <4>1. k <= LastAsked(said, reading.at, reading.count)
          BY <1>1, <1>a, <2>4, <3>1 DEF LastAsked
      <4>2. LastAsked(said, reading.at, reading.count) \in Nat
          BY <1>1, <1>a DEF LastAsked
      <4> QED
          BY <1>1, <1>4, <1>a, <3>1, <4>1, <4>2
    <3>2. CASE final \in DOMAIN said /\ said[k].answers \in said[final].calls
      <4>1. final \in 1..Len(said) /\ LastAsked(said, reading.at, reading.count) = final
          BY <1>1, <1>a, <2>4, <3>2 DEF LastAsked
      <4>2. PICK m \in 0..(Len(said) - final) :
                 said[final].calls = (final + 1)..(final + m) /\ Cardinality(said[final].calls) = m
          BY <1>a, <4>1, CallsStand
      <4>3. until = final + m
          BY <1>3, <4>1, <4>2 DEF LastRead
      <4>4. k \in (final + 1)..(final + m)
        <5>1. said[k].answers \in {0, k} /\ k \in 1..Len(said)
            BY <1>a DEF Turned
        <5>2. said[k].answers # 0
            BY <1>a, <3>2, <4>1, <4>2
        <5> QED
            BY <3>2, <4>2, <5>1, <5>2
      <4>5. reading.at <= final /\ reading.at \in Nat
          BY <1>1, <1>a, <2>4, <4>1
      <4> QED
          BY <1>a, <4>1, <4>3, <4>4, <4>5
    <3> QED
        BY <2>5, <3>1, <3>2
  <2> QED
      BY <1>4, <2>3, <2>4, <2>5
<1> QED
    BY <1>1, <1>2, <1>6, <1>7 DEF HistoryArrives

\* A page of the web, downloaded anew for every part, is read without a gap and to
\* the end it then has, whole and once as long as it stays as it was (web.py,
\* as_text; tools/web.py, _fetch); the stored words are read whole though the
\* conversation grows, with every result of the calls of the last message asked
\* for (history.py, with_results; paging.py).
THEOREM ReadsOnToTheEnd == ServicesSpec => []ReadsOnWhole
<1>1. PagingInv /\ ReadInv => ReadsOnWhole
    BY PagesArrive, WordsArrive DEF ReadsOnWhole
<1>2. ServicesInit => PagingInv /\ ReadInv
    BY PagingStarts, ReadStarts DEF ServicesInit
<1>3. W!WebAssumption /\ H!HistoryAssumption
    BY PartsAssumption
<1>4. PagingInv /\ ReadInv /\ [ServicesNext]_<<family, services, vars>> => PagingInv' /\ ReadInv'
    BY <1>3, PagingStep, WebMoves, ReadStep, HistoryMoves
<1> QED
    BY <1>1, <1>2, <1>4, PTL DEF ServicesSpec

----------------------------------------------------------------------------
(* What the model is given (ChatMessages).  A sequence joined of pieces is *)
(* known by its growth: each piece in turn continues what was joined.      *)

LEMMA FlattenIs ==
  ASSUME NEW K, NEW s \in Seq(Seq(K)), s # <<>>, NEW f, Joins(s, K, f)
  PROVE  FlattenSeq(s) = f[Len(s)] /\ FlattenSeq(s) \in Seq(K)
<1>1. PICK g : Joins(s, K, g) /\ FlattenSeq(s) = g[Len(s)] /\ Len(s) \in 1..Len(s)
    BY FlattenJoins
<1>2. Begins(s, s)
    BY LenProperties DEF Begins
<1>3. \A i \in 1..Len(s) : f[i] = g[i]
    BY <1>1, <1>2, JoinsAgree
<1> QED
    BY <1>1, <1>3, SMTT(30) DEF Joins

LEMMA FlattenNone == FlattenSeq(<<>>) = <<>>
    BY DEF FlattenSeq

LEMMA FlattenOne ==
  ASSUME NEW K, NEW x \in Seq(K)
  PROVE  FlattenSeq(<<x>>) = x
<1>1. <<x>> \in Seq(Seq(K)) /\ <<x>> # <<>> /\ Len(<<x>>) = 1 /\ <<x>>[1] = x
    OBVIOUS
<1> DEFINE f == [i \in 1..1 |-> x]
<1>2. Joins(<<x>>, K, f)
    BY <1>1 DEF Joins
<1>3. FlattenSeq(<<x>>) = f[1]
  <2> HIDE DEF f
  <2> QED
      BY <1>1, <1>2, FlattenIs
<1> QED
    BY <1>3

LEMMA FlattenTyped ==
  ASSUME NEW K, NEW s \in Seq(Seq(K))
  PROVE  FlattenSeq(s) \in Seq(K)
<1>1. CASE s = <<>>
  <2>1. <<>> \in Seq(K)
      OBVIOUS
  <2> QED
      BY <1>1, <2>1, FlattenNone
<1>2. CASE s # <<>>
  <2>1. PICK f : Joins(s, K, f) /\ FlattenSeq(s) = f[Len(s)] /\ Len(s) \in 1..Len(s)
      BY <1>2, FlattenJoins
  <2> QED
      BY <2>1 DEF Joins
<1> QED
    BY <1>1, <1>2

LEMMA FlattenAppend ==
  ASSUME NEW K, NEW s \in Seq(Seq(K)), NEW x \in Seq(K)
  PROVE  FlattenSeq(Append(s, x)) = FlattenSeq(s) \o x
<1> DEFINE t == Append(s, x)
<1>1. CASE s = <<>>
  <2>1. Append(<<>>, x) = <<x>> /\ <<>> \o x = x
      OBVIOUS
  <2> QED
      BY <1>1, <2>1, FlattenNone, FlattenOne
<1>2. CASE s # <<>>
  <2>1. /\ t \in Seq(Seq(K)) /\ t # <<>> /\ Len(t) = Len(s) + 1 /\ Len(s) \in Nat \ {0}
        /\ t[Len(s) + 1] = x /\ \A i \in 1..Len(s) : t[i] = s[i]
      BY <1>2, AppendProperties, LenProperties, EmptySeq
  <2>2. PICK f : Joins(s, K, f) /\ FlattenSeq(s) = f[Len(s)] /\ Len(s) \in 1..Len(s)
      BY <1>2, FlattenJoins
  <2>3. PICK g : Joins(t, K, g) /\ FlattenSeq(t) = g[Len(t)] /\ Len(t) \in 1..Len(t)
    <3> HIDE DEF t
    <3> QED
        BY <2>1, FlattenJoins
  <2> HIDE DEF t
  <2>4. Begins(s, t)
      BY <2>1 DEF Begins
  <2>5. f[Len(s)] = g[Len(s)]
      BY <2>1, <2>2, <2>3, <2>4, JoinsAgree
  <2>6. g[Len(t)] = g[Len(s)] \o x
    <3>1. Len(t) # 1 /\ Len(t) - 1 = Len(s)
        BY <2>1
    <3> QED
        BY <2>1, <2>3, <3>1 DEF Joins
  <2> QED
      BY <2>2, <2>3, <2>5, <2>6 DEF t
<1> QED
    BY <1>1, <1>2

\* One piece before the others.
LEMMA FlattenAfter ==
  ASSUME NEW K, NEW s \in Seq(Seq(K)), NEW x \in Seq(K)
  PROVE  FlattenSeq(<<x>> \o s) = x \o FlattenSeq(s)
<1>1. CASE s = <<>>
  <2>1. <<x>> \o <<>> = <<x>> /\ x \o <<>> = x
      OBVIOUS
  <2> QED
      BY <1>1, <2>1, FlattenNone, FlattenOne
<1>2. CASE s # <<>>
  <2>1. PICK f : Joins(s, K, f) /\ FlattenSeq(s) = f[Len(s)] /\ Len(s) \in 1..Len(s)
      BY <1>2, FlattenJoins
  <2> DEFINE t == <<x>> \o s
             g == [i \in 1..(Len(s) + 1) |-> IF i = 1 THEN x ELSE x \o f[i - 1]]
  <2>2. /\ t \in Seq(Seq(K)) /\ t # <<>> /\ Len(t) = Len(s) + 1 /\ Len(s) \in Nat \ {0}
        /\ t[1] = x /\ \A i \in 2..(Len(s) + 1) : t[i] = s[i - 1]
    <3>1. <<x>> \in Seq(Seq(K)) /\ Len(<<x>>) = 1 /\ <<x>>[1] = x
        OBVIOUS
    <3>2. Len(s) \in Nat \ {0}
        BY <1>2, LenProperties, EmptySeq
    <3>3. t \in Seq(Seq(K)) /\ Len(t) = 1 + Len(s)
        BY <3>1, ConcatProperties
    <3>4. \A i \in 1..(1 + Len(s)) : t[i] = IF i <= 1 THEN <<x>>[i] ELSE s[i - 1]
        BY <3>1, ConcatProperties
    <3> HIDE DEF t
    <3>5. Len(<<>>) = 0
        OBVIOUS
    <3> QED
        BY <3>1, <3>2, <3>3, <3>4, <3>5
  <2>3. \A i \in 1..Len(s) : f[i] \in Seq(K) /\ s[i] \in Seq(K)
      BY <2>1, ElementOfSeq DEF Joins
  <2>4. g \in [1..(Len(s) + 1) -> Seq(K)]
    <3>1. ASSUME NEW i \in 1..(Len(s) + 1)
          PROVE  (IF i = 1 THEN x ELSE x \o f[i - 1]) \in Seq(K)
      <4>1. CASE i # 1
        <5>1. i - 1 \in 1..Len(s)
            BY <2>2, <4>1
        <5> QED
            BY <4>1, <5>1, <2>3, ConcatProperties
      <4> QED
          BY <4>1
    <3> QED
        BY <3>1
  <2>5. ASSUME NEW i \in 1..(Len(s) + 1)
        PROVE  g[i] = IF i = 1 THEN t[i] ELSE g[i - 1] \o t[i]
    <3>1. CASE i = 1
        BY <2>2, <3>1
    <3>2. CASE i = 2
      <4>1. f[1] = s[1] /\ 1 \in 1..Len(s) /\ t[2] = s[1] /\ g[2] = x \o f[1] /\ g[1] = x
        <5>1. 1 \in 1..Len(s) /\ 2 \in 1..(Len(s) + 1) /\ 2 \in 2..(Len(s) + 1) /\ 2 - 1 = 1
            BY <2>2
        <5>2. t[2] = s[1]
          <6> HIDE DEF t
          <6> QED
              BY <2>2, <5>1
        <5>3. f[1] = s[1]
            BY <2>1, <5>1 DEF Joins
        <5>4. g[2] = x \o f[1] /\ g[1] = x
            BY <2>2, <5>1
        <5> QED
            BY <5>1, <5>2, <5>3, <5>4
      <4>2. i # 1 /\ i - 1 = 1 /\ g[i] = g[2] /\ t[i] = t[2] /\ g[i - 1] = g[1]
          BY <3>2
      <4> HIDE DEF g, t
      <4> QED
          BY <4>1, <4>2
    <3>3. CASE i > 2
      <4>1. /\ i - 1 \in 1..Len(s) /\ i - 2 \in 1..Len(s) /\ i - 1 \in 1..(Len(s) + 1)
            /\ i \in 2..(Len(s) + 1) /\ i - 1 # 1 /\ i # 1 /\ (i - 1) - 1 = i - 2
          BY <2>2, <3>3
      <4>2. f[i - 1] = f[i - 2] \o s[i - 1]
          BY <2>1, <4>1 DEF Joins
      <4>3. g[i] = x \o f[i - 1] /\ g[i - 1] = x \o f[i - 2]
          BY <4>1
      <4>4. t[i] = s[i - 1]
        <5> HIDE DEF t
        <5> QED
            BY <2>2, <4>1
      <4>5. x \o (f[i - 2] \o s[i - 1]) = (x \o f[i - 2]) \o s[i - 1]
        <5>1. f[i - 2] \in Seq(K) /\ s[i - 1] \in Seq(K)
            BY <2>3, <4>1
        <5>2. \A u \in Seq(K), v \in Seq(K) : x \o (u \o v) = (x \o u) \o v
            BY ConcatAssociative, SMTT(30)
        <5> QED
            BY <5>1, <5>2
      <4> HIDE DEF g, t
      <4> QED
          BY <4>1, <4>2, <4>3, <4>4, <4>5
    <3> QED
        BY <2>2, <3>1, <3>2, <3>3
  <2>6. Joins(t, K, g)
    <3> HIDE DEF g, t
    <3> QED
        BY <2>2, <2>4, <2>5 DEF Joins
  <2>7. FlattenSeq(t) = g[Len(t)]
    <3> HIDE DEF g, t
    <3> QED
        BY <2>2, <2>6, FlattenIs
  <2>8. g[Len(s) + 1] = x \o f[Len(s)]
      BY <2>2
  <2> HIDE DEF g
  <2> QED
      BY <2>1, <2>2, <2>7, <2>8
<1> QED
    BY <1>1, <1>2

\* Pieces of one element each.
LEMMA FlattenSingles ==
  ASSUME NEW K, NEW s \in Seq(K)
  PROVE  FlattenSeq([i \in 1..Len(s) |-> <<s[i]>>]) = s
<1> DEFINE t == [i \in 1..Len(s) |-> <<s[i]>>]
           f == [i \in 1..Len(s) |-> SubSeq(s, 1, i)]
<1>1. Len(s) \in Nat /\ \A i \in 1..Len(s) : s[i] \in K
    BY LenProperties, ElementOfSeq
<1>2. t \in Seq(Seq(K)) /\ Len(t) = Len(s)
    BY <1>1
<1>3. CASE Len(s) = 0
  <2>1. s = <<>> /\ t = <<>>
      BY <1>3, <1>2, EmptySeq
  <2> QED
      BY <2>1, FlattenNone
<1>4. CASE Len(s) # 0
  <2>1. t # <<>>
      BY <1>2, <1>4
  <2>2. \A i \in 1..Len(s) : SubSeq(s, 1, i) \in Seq(K)
      BY <1>1, SubSeqProperties
  <2>3. ASSUME NEW i \in 1..Len(s)
        PROVE  SubSeq(s, 1, i) = IF i = 1 THEN <<s[i]>> ELSE SubSeq(s, 1, i - 1) \o <<s[i]>>
    <3>1. CASE i = 1
      <4>1. Len(SubSeq(s, 1, 1)) = 1 /\ SubSeq(s, 1, 1)[1] = s[1] /\ SubSeq(s, 1, 1) \in Seq(K)
          BY <1>1, <3>1, SubSeqProperties
      <4>2. <<s[1]>> \in Seq(K) /\ Len(<<s[1]>>) = 1 /\ <<s[1]>>[1] = s[1]
          BY <1>1, <3>1
      <4>3. SubSeq(s, 1, 1) = <<s[1]>>
        <5>1. \A j \in 1..Len(SubSeq(s, 1, 1)) : SubSeq(s, 1, 1)[j] = <<s[1]>>[j]
            BY <4>1, <4>2
        <5> QED
            BY <4>1, <4>2, <5>1, SeqEqual
      <4> QED
          BY <3>1, <4>3
    <3>2. CASE i # 1
        BY <1>1, <3>2
    <3> QED
        BY <3>1, <3>2
  <2>4. Joins(t, K, f)
    <3>1. f \in [1..Len(s) -> Seq(K)]
        BY <2>2
    <3>2. ASSUME NEW i \in 1..Len(s) PROVE f[i] = IF i = 1 THEN t[i] ELSE f[i - 1] \o t[i]
      <4>1. i # 1 => i - 1 \in 1..Len(s)
          BY <1>1
      <4> QED
          BY <2>3, <4>1
    <3> HIDE DEF f, t
    <3> QED
        BY <1>2, <3>1, <3>2 DEF Joins
  <2>5. FlattenSeq(t) = f[Len(s)]
    <3> HIDE DEF f, t
    <3> QED
        BY <1>2, <2>1, <2>4, FlattenIs
  <2>6. f[Len(s)] = s
      BY <1>1, <1>4
  <2> HIDE DEF f
  <2> QED
      BY <2>5, <2>6
<1> QED
    BY <1>3, <1>4

(* What is held in what a message keeps.                                   *)

Formats == OpenAIAudio \cup OtherAudio
Spoken == Nat \cup Formats \cup {"prepared for delivery"}

\* What is assumed of a message: the parts of one of the system are texts.
Sayable(m) ==
  /\ m.parts = [k \in 1..Len(m.parts) |-> m.parts[k]] /\ Len(m.parts) \in Nat
  /\ \A k \in 1..Len(m.parts) : m.parts[k].holds \in Spoken /\ Supported(m.parts[k])
  /\ m.role = "system" =>
       /\ m.calls = <<>>
       /\ \A k \in 1..Len(m.parts) : m.parts[k].kind = "text" /\ ~m.parts[k].outbound

LEMMA KeptIs ==
  ASSUME NEW m, Sayable(m)
  PROVE  LET X == {m.parts[k] : k \in 1..Len(m.parts)}
         IN  /\ Kept(m) \in Seq(X)
             /\ DOMAIN Kept(m) = 1..Len(Kept(m)) /\ Len(Kept(m)) \in Nat
             /\ \A k \in 1..Len(Kept(m)) : Kept(m)[k].holds \in Spoken /\ Supported(Kept(m)[k])
<1> DEFINE X == {m.parts[k] : k \in 1..Len(m.parts)}
           t == [k \in DOMAIN m.parts |-> IF m.parts[k].outbound THEN <<>> ELSE <<m.parts[k]>>]
<1>1. DOMAIN m.parts = 1..Len(m.parts) /\ Len(m.parts) \in Nat
    BY DEF Sayable
<1>2. t \in Seq(Seq(X))
  <2>1. \A k \in 1..Len(m.parts) : m.parts[k] \in X
      OBVIOUS
  <2>2. \A k \in 1..Len(m.parts) :
           (IF m.parts[k].outbound THEN <<>> ELSE <<m.parts[k]>>) \in Seq(X)
    <3> HIDE DEF X
    <3> QED
        BY <2>1
  <2>3. t = [k \in 1..Len(m.parts) |-> IF m.parts[k].outbound THEN <<>> ELSE <<m.parts[k]>>]
      BY <1>1
  <2> HIDE DEF X, t
  <2> QED
      BY <1>1, <2>2, <2>3
<1>3. Kept(m) \in Seq(X)
  <2>1. Kept(m) = FlattenSeq(t)
      BY DEF Kept
  <2> HIDE DEF X, t
  <2> QED
      BY <1>2, <2>1, FlattenTyped
<1>4. \A x \in X : x.holds \in Spoken /\ Supported(x)
    BY DEF Sayable
<1>5. /\ DOMAIN Kept(m) = 1..Len(Kept(m)) /\ Len(Kept(m)) \in Nat
      /\ \A k \in 1..Len(Kept(m)) : Kept(m)[k] \in X
  <2> HIDE DEF X
  <2> QED
      BY <1>3, LenProperties, ElementOfSeq
<1> QED
    BY <1>3, <1>4, <1>5

LEMMA HoldingTyped == ASSUME NEW m, Sayable(m) PROVE Contents(m) \in Seq(Spoken)
<1>1. /\ DOMAIN Kept(m) = 1..Len(Kept(m)) /\ Len(Kept(m)) \in Nat
      /\ \A k \in 1..Len(Kept(m)) : Kept(m)[k].holds \in Spoken
    BY KeptIs
<1>2. [p \in DOMAIN Kept(m) |-> Kept(m)[p].holds] \in Seq(Spoken)
    BY <1>1
<1>3. Receipt.holds \in Seq(Spoken)
    BY DEF Receipt, TextPart, Spoken
<1> QED
    BY <1>2, <1>3 DEF Contents

\* All of a system message's parts are its text.
LEMMA SystemHolds == ASSUME NEW m, Sayable(m), m.role = "system" PROVE SystemText(m) = Contents(m)
<1> DEFINE n == Len(m.parts)
           g == [k \in 1..n |-> m.parts[k].holds]
           X == {m.parts[k] : k \in 1..n}
<1>1. /\ DOMAIN m.parts = 1..n /\ n \in Nat /\ m.parts = [k \in 1..n |-> m.parts[k]]
      /\ \A k \in 1..n : m.parts[k].kind = "text" /\ ~m.parts[k].outbound
      /\ \A k \in 1..n : m.parts[k].holds \in Spoken
    BY DEF Sayable
<1>2. SystemText(m) = g
  <2>1. SystemText(m) = FlattenSeq([k \in 1..n |-> <<g[k]>>])
    <3>1. [k \in DOMAIN m.parts |->
             IF m.parts[k].kind = "text" THEN <<m.parts[k].holds>> ELSE <<>>]
            = [k \in 1..n |-> <<g[k]>>]
        BY <1>1
    <3> QED
        BY <3>1 DEF SystemText
  <2>2. g \in Seq(Spoken) /\ Len(g) = n
      BY <1>1
  <2> HIDE DEF g, n
  <2> QED
      BY <2>1, <2>2, FlattenSingles
<1>3. Kept(m) = m.parts
  <2>1. Kept(m) = FlattenSeq([k \in 1..n |-> <<m.parts[k]>>])
    <3>1. [k \in DOMAIN m.parts |-> IF m.parts[k].outbound THEN <<>> ELSE <<m.parts[k]>>]
            = [k \in 1..n |-> <<m.parts[k]>>]
        BY <1>1
    <3> QED
        BY <3>1 DEF Kept
  <2>2. m.parts \in Seq(X)
    <3>1. \A k \in 1..n : m.parts[k] \in X
        OBVIOUS
    <3> HIDE DEF X, n
    <3> QED
        BY <1>1, <3>1
  <2> HIDE DEF X
  <2> QED
      BY <2>1, <2>2, FlattenSingles
<1>4. m.role # "tool"
    OBVIOUS
<1> QED
    BY <1>1, <1>2, <1>3, <1>4 DEF Contents

\* The content of an item, and what is held in it.
Typed(content) ==
  /\ content = [p \in 1..Len(content) |-> content[p]] /\ Len(content) \in Nat
  /\ \A p \in 1..Len(content) : content[p].holds \in Seq(Spoken)

LEMMA HeldTyped ==
  ASSUME NEW content, Typed(content)
  PROVE  /\ Held(content) \in Seq(Spoken)
         /\ [p \in DOMAIN content |-> content[p].holds] \in Seq(Seq(Spoken))
<1>1. [p \in DOMAIN content |-> content[p].holds] \in Seq(Seq(Spoken))
    BY DEF Typed
<1> QED
    BY <1>1, FlattenTyped DEF Held

LEMMA TextHeld ==
  ASSUME NEW texts \in Seq(Spoken)
  PROVE  Typed(<<TextPart(texts)>>) /\ Held(<<TextPart(texts)>>) = texts
<1> DEFINE c == <<TextPart(texts)>>
<1>1. DOMAIN c = 1..1 /\ Len(c) = 1 /\ c[1].holds = texts
    BY DEF TextPart
<1>2. [p \in DOMAIN c |-> c[p].holds] = <<texts>>
    BY <1>1
<1>3. Typed(c)
    BY <1>1 DEF Typed
<1>4. Held(c) = texts
    BY <1>2, FlattenOne DEF Held
<1> QED
    BY <1>3, <1>4

LEMMA ItemHolds ==
  ASSUME NEW m, Sayable(m)
  PROVE  Typed(PayloadItem(m).content) /\ Held(PayloadItem(m).content) = Contents(m)
<1> DEFINE kept == Kept(m)
           g == [p \in 1..Len(kept) |-> kept[p].holds]
<1>1. /\ DOMAIN kept = 1..Len(kept) /\ Len(kept) \in Nat
      /\ \A k \in 1..Len(kept) : kept[k].holds \in Spoken
    BY KeptIs
<1>2. CASE m.role = "tool" /\ kept = <<>>
  <2>1. PayloadItem(m).content = <<TextPart(<<"prepared for delivery">>)>>
      BY <1>2 DEF PayloadItem, Receipt
  <2>2. <<"prepared for delivery">> \in Seq(Spoken)
      BY DEF Spoken
  <2>3. Contents(m) = <<"prepared for delivery">>
      BY <1>2 DEF Contents, Receipt, TextPart
  <2> QED
      BY <2>1, <2>2, <2>3, TextHeld
<1>3. CASE ~(m.role = "tool" /\ kept = <<>>)
  <2> DEFINE c == [k \in DOMAIN kept |-> ContentPart(kept[k])]
  <2>1. PayloadItem(m).content = c
      BY <1>3 DEF PayloadItem
  <2>2. \A x : ContentPart(x).holds = <<x.holds>>
      BY DEF ContentPart
  <2>3. [p \in DOMAIN c |-> c[p].holds] = [p \in 1..Len(kept) |-> <<g[p]>>]
    <3> HIDE DEF kept
    <3> QED
        BY <1>1, <2>2
  <2>4. g \in Seq(Spoken) /\ Len(g) = Len(kept)
    <3> HIDE DEF kept
    <3> QED
        BY <1>1
  <2>5. Contents(m) = g
      BY <1>1, <1>3 DEF Contents
  <2>6. Held(c) = g
    <3>1. FlattenSeq([p \in 1..Len(g) |-> <<g[p]>>]) = g
      <4> HIDE DEF g
      <4> QED
          BY <2>4, FlattenSingles
    <3> QED
        BY <2>3, <2>4, <3>1 DEF Held
  <2>7. Typed(c)
    <3> HIDE DEF kept
    <3>1. Len(c) = Len(kept) /\ DOMAIN c = 1..Len(kept)
        BY <1>1
    <3>2. \A p \in 1..Len(kept) : c[p].holds = <<kept[p].holds>> /\ <<kept[p].holds>> \in Seq(Spoken)
        BY <1>1, <2>2
    <3> QED
        BY <1>1, <3>1, <3>2 DEF Typed
  <2> QED
      BY <2>1, <2>5, <2>6, <2>7
<1> QED
    BY <1>2, <1>3

\* What is carried is held before the rest.
LEMMA CarriedHolds ==
  ASSUME NEW texts \in Seq(Spoken), NEW content, Typed(content)
  PROVE  /\ Typed(<<TextPart(texts)>> \o content)
         /\ Held(<<TextPart(texts)>> \o content) = texts \o Held(content)
<1> DEFINE c == <<TextPart(texts)>> \o content
           s == [p \in DOMAIN content |-> content[p].holds]
<1>1. /\ DOMAIN content = 1..Len(content) /\ Len(content) \in Nat
      /\ \A p \in 1..Len(content) : content[p].holds \in Seq(Spoken)
    BY DEF Typed
<1>2. /\ Len(c) = 1 + Len(content) /\ DOMAIN c = 1..(1 + Len(content))
      /\ c = [p \in 1..Len(c) |-> c[p]]
      /\ c[1].holds = texts
      /\ \A p \in 2..(1 + Len(content)) : c[p] = content[p - 1]
  <2> DEFINE X == {TextPart(texts)} \cup {content[p] : p \in 1..Len(content)}
  <2>1. <<TextPart(texts)>> \in Seq(X) /\ content \in Seq(X)
    <3>1. content = [p \in 1..Len(content) |-> content[p]]
        BY DEF Typed
    <3>2. \A p \in 1..Len(content) : content[p] \in X
        OBVIOUS
    <3>3. TextPart(texts) \in X
        OBVIOUS
    <3> HIDE DEF X
    <3>4. <<TextPart(texts)>> \in Seq(X)
        BY <3>3
    <3>5. [p \in 1..Len(content) |-> content[p]] \in Seq(X)
        BY <1>1, <3>2
    <3> QED
        BY <3>1, <3>4, <3>5
  <2>2. /\ Len(c) = 1 + Len(content)
        /\ DOMAIN c = 1..(1 + Len(content)) /\ c = [p \in 1..Len(c) |-> c[p]]
        /\ \A p \in 1..(1 + Len(content)) :
             c[p] = IF p <= 1 THEN <<TextPart(texts)>>[p] ELSE content[p - 1]
    <3> HIDE DEF X
    <3>1. Len(<<TextPart(texts)>>) = 1
        OBVIOUS
    <3>2. c \in Seq(X)
        BY <2>1, ConcatProperties
    <3>3. DOMAIN c = 1..Len(c) /\ c = [p \in 1..Len(c) |-> c[p]]
      <4> HIDE DEF c
      <4> QED
          BY <3>2, LenProperties
    <3> QED
        BY <2>1, <3>1, <3>3, ConcatProperties
  <2>3. c[1] = TextPart(texts)
      BY <2>2
  <2> QED
      BY <1>1, <2>2, <2>3 DEF TextPart
<1>3. s \in Seq(Seq(Spoken)) /\ Len(s) = Len(content)
    BY <1>1
<1>4. [p \in DOMAIN c |-> c[p].holds] = <<texts>> \o s
  <2> DEFINE h == [p \in DOMAIN c |-> c[p].holds]
  <2>1. h \in Seq(Seq(Spoken)) /\ Len(h) = 1 + Len(content)
    <3> HIDE DEF c
    <3> QED
        BY <1>1, <1>2
  <2>2. <<texts>> \in Seq(Seq(Spoken)) /\ Len(<<texts>>) = 1 /\ <<texts>>[1] = texts
      OBVIOUS
  <2>3. /\ <<texts>> \o s \in Seq(Seq(Spoken)) /\ Len(<<texts>> \o s) = 1 + Len(content)
        /\ \A p \in 1..(1 + Len(content)) :
             (<<texts>> \o s)[p] = IF p <= 1 THEN <<texts>>[p] ELSE s[p - 1]
    <3> HIDE DEF s
    <3> QED
        BY <1>3, <2>2, ConcatProperties
  <2>4. \A p \in 1..(1 + Len(content)) : h[p] = (<<texts>> \o s)[p]
    <3> HIDE DEF c
    <3> QED
        BY <1>1, <1>2, <2>2, <2>3
  <2> HIDE DEF h, s
  <2> QED
      BY <2>1, <2>3, <2>4, SeqEqual DEF h
<1>5. Held(c) = texts \o FlattenSeq(s)
  <2> HIDE DEF c, s
  <2> QED
      BY <1>3, <1>4, FlattenAfter DEF Held
<1>6. Typed(c)
  <2> HIDE DEF c
  <2> QED
      BY <1>1, <1>2 DEF Typed
<1> QED
    BY <1>5, <1>6 DEF Held

(* The provider's list, as far as it is built.                             *)

Listed(s) == s = [p \in 1..Len(s) |-> s[p]] /\ Len(s) \in Nat

HeldIn(items) == FlattenSeq([p \in DOMAIN items |-> Held(items[p].content)])
Itemized(items) ==
  /\ Listed(items)
  /\ \A p \in 1..Len(items) : Typed(items[p].content) /\ Listed(items[p].calls)

LEMMA Appended ==
  ASSUME NEW s, Listed(s), NEW x
  PROVE  LET t == Append(s, x)
         IN  /\ Listed(t) /\ Len(t) = Len(s) + 1 /\ t[Len(s) + 1] = x
             /\ \A p \in 1..Len(s) : t[p] = s[p]
             /\ s \o <<x>> = t
<1> DEFINE X == {s[p] : p \in 1..Len(s)} \cup {x}
<1>1. s \in Seq(X) /\ x \in X /\ Len(s) \in Nat
  <2>1. s = [p \in 1..Len(s) |-> s[p]] /\ Len(s) \in Nat
      BY DEF Listed
  <2>2. \A p \in 1..Len(s) : s[p] \in X
      OBVIOUS
  <2>3. x \in X
      OBVIOUS
  <2> HIDE DEF X
  <2>4. [p \in 1..Len(s) |-> s[p]] \in Seq(X)
      BY <2>1, <2>2
  <2> QED
      BY <2>1, <2>3, <2>4
<1> HIDE DEF X
<1> DEFINE t == Append(s, x)
<1>2. /\ t \in Seq(X) /\ Len(t) = Len(s) + 1 /\ t[Len(s) + 1] = x
      /\ \A p \in 1..Len(s) : t[p] = s[p]
    BY <1>1, AppendProperties
<1>3. s \o <<x>> = t
    BY <1>1, AppendIsConcat
<1> HIDE DEF t
<1>4. Listed(t)
    BY <1>2, LenProperties DEF Listed
<1> QED
    BY <1>2, <1>3, <1>4 DEF t

LEMMA HeldGrows ==
  ASSUME NEW items, Itemized(items), NEW x, Typed(x.content), Listed(x.calls)
  PROVE  LET t == Append(items, x)
         IN  Itemized(t) /\ HeldIn(t) = HeldIn(items) \o Held(x.content)
<1> DEFINE t == Append(items, x)
           s == [p \in DOMAIN items |-> Held(items[p].content)]
<1>1. /\ Listed(items) /\ DOMAIN items = 1..Len(items) /\ Len(items) \in Nat
      /\ \A p \in 1..Len(items) : Typed(items[p].content) /\ Listed(items[p].calls)
    BY DEF Itemized, Listed
<1>2. /\ Listed(t) /\ Len(t) = Len(items) + 1 /\ t[Len(items) + 1] = x
      /\ \A p \in 1..Len(items) : t[p] = items[p]
    BY <1>1, Appended
<1> HIDE DEF t
<1>3. Itemized(t)
    BY <1>1, <1>2 DEF Itemized
<1>4. \A p \in 1..Len(items) : Held(items[p].content) \in Seq(Spoken)
    BY <1>1, HeldTyped
<1>5. Held(x.content) \in Seq(Spoken)
    BY HeldTyped
<1>6. s \in Seq(Seq(Spoken)) /\ Len(s) = Len(items)
    BY <1>1, <1>4
<1>7. [p \in DOMAIN t |-> Held(t[p].content)] = Append(s, Held(x.content))
  <2> DEFINE h == [p \in DOMAIN t |-> Held(t[p].content)]
  <2>1. DOMAIN t = 1..(Len(items) + 1)
      BY <1>2 DEF Listed
  <2>2. \A p \in 1..(Len(items) + 1) : Held(t[p].content) \in Seq(Spoken)
      BY <1>2, <1>4, <1>5
  <2>3. h \in Seq(Seq(Spoken)) /\ Len(h) = Len(items) + 1
      BY <1>1, <2>1, <2>2
  <2>4. /\ Append(s, Held(x.content)) \in Seq(Seq(Spoken))
        /\ Len(Append(s, Held(x.content))) = Len(items) + 1
        /\ Append(s, Held(x.content))[Len(items) + 1] = Held(x.content)
        /\ \A p \in 1..Len(items) : Append(s, Held(x.content))[p] = s[p]
    <3> HIDE DEF s
    <3> QED
        BY <1>5, <1>6, AppendProperties
  <2>5. \A p \in 1..(Len(items) + 1) : h[p] = Append(s, Held(x.content))[p]
      BY <1>1, <1>2, <2>1, <2>4
  <2> HIDE DEF h, s
  <2> QED
      BY <2>3, <2>4, <2>5, SeqEqual DEF h
<1>8. FlattenSeq(Append(s, Held(x.content))) = FlattenSeq(s) \o Held(x.content)
  <2> HIDE DEF s
  <2> QED
      BY <1>5, <1>6, FlattenAppend
<1>9. HeldIn(t) = HeldIn(items) \o Held(x.content)
    BY <1>7, <1>8 DEF HeldIn
<1> QED
    BY <1>3, <1>9 DEF t

LEMMA HeldInTyped == ASSUME NEW items, Itemized(items) PROVE HeldIn(items) \in Seq(Spoken)
<1> DEFINE s == [p \in DOMAIN items |-> Held(items[p].content)]
<1>1. /\ DOMAIN items = 1..Len(items) /\ Len(items) \in Nat
      /\ \A p \in 1..Len(items) : Held(items[p].content) \in Seq(Spoken)
    BY HeldTyped DEF Itemized, Listed
<1>2. s \in Seq(Seq(Spoken))
    BY <1>1
<1> HIDE DEF s
<1> QED
    BY <1>2, FlattenTyped DEF HeldIn, s

\* A conversation: each message sayable, each call answered in its turn.
Conversing(ms) ==
  /\ Listed(ms)
  /\ \A k \in 1..Len(ms) : Sayable(ms[k]) /\ Listed(ms[k].calls)
  /\ \A k \in 1..Len(ms) : \A i \in 1..Len(ms[k].calls) : k + i <= Len(ms) =>
       ms[k + i].role = "tool" /\ ms[k + i].answers = ms[k].calls[i]

\* The calls of an item are answered by the items after it, and where these
\* are still to come, the messages that follow are theirs.
Paired(ms, st, k) ==
  \A p \in 1..Len(st.payload) :
    LET after == Len(st.payload) - p
    IN  /\ \A i \in 1..Len(st.payload[p].calls) :
             p + i <= Len(st.payload) =>
               st.payload[p + i].answers = st.payload[p].calls[i]
        /\ after < Len(st.payload[p].calls) =>
             /\ st.carried = <<>> /\ k - after \in 1..k
             /\ ms[k - after].calls = st.payload[p].calls

\* All that k messages hold.
HeldBy(ms, k) == FlattenSeq([j \in 1..k |-> Contents(ms[j])])

Built(ms, st, k) ==
  /\ Itemized(st.payload) /\ st.carried \in Seq(Spoken)
  /\ HeldIn(st.payload) \o st.carried = HeldBy(ms, k)
  /\ \A p \in 1..Len(st.payload) : st.payload[p].role = "system" => p = 1
  /\ Paired(ms, st, k)

LEMMA HeldByGrows ==
  ASSUME NEW ms, Conversing(ms), NEW k \in 0..(Len(ms) - 1)
  PROVE  /\ HeldBy(ms, k + 1) = HeldBy(ms, k) \o Contents(ms[k + 1])
         /\ HeldBy(ms, k) \in Seq(Spoken) /\ Contents(ms[k + 1]) \in Seq(Spoken)
<1> DEFINE s == [j \in 1..k |-> Contents(ms[j])]
           t == [j \in 1..(k + 1) |-> Contents(ms[j])]
<1>1. Len(ms) \in Nat /\ \A j \in 1..Len(ms) : Sayable(ms[j])
    BY DEF Conversing, Listed
<1>2. \A j \in 1..(k + 1) : Contents(ms[j]) \in Seq(Spoken)
  <2>1. \A j \in 1..(k + 1) : j \in 1..Len(ms)
      BY <1>1
  <2> QED
      BY <1>1, <2>1, HoldingTyped
<1>3. /\ s \in Seq(Seq(Spoken)) /\ Len(s) = k /\ t \in Seq(Seq(Spoken)) /\ Len(t) = k + 1
      /\ k + 1 \in 1..(k + 1)
    BY <1>1, <1>2
<1>4. t = Append(s, Contents(ms[k + 1]))
  <2>1. /\ Append(s, Contents(ms[k + 1])) \in Seq(Seq(Spoken))
        /\ Len(Append(s, Contents(ms[k + 1]))) = k + 1
        /\ Append(s, Contents(ms[k + 1]))[k + 1] = Contents(ms[k + 1])
        /\ \A j \in 1..k : Append(s, Contents(ms[k + 1]))[j] = s[j]
    <3>1. Contents(ms[k + 1]) \in Seq(Spoken)
        BY <1>2, <1>3
    <3> HIDE DEF s
    <3> QED
        BY <1>3, <3>1, AppendProperties
  <2>2. \A j \in 1..(k + 1) : t[j] = Append(s, Contents(ms[k + 1]))[j]
      BY <1>1, <2>1
  <2> HIDE DEF s, t
  <2> QED
      BY <1>3, <2>1, <2>2, SeqEqual
<1>5. FlattenSeq(t) = FlattenSeq(s) \o Contents(ms[k + 1]) /\ FlattenSeq(s) \in Seq(Spoken)
  <2>1. Contents(ms[k + 1]) \in Seq(Spoken)
      BY <1>2, <1>3
  <2> HIDE DEF s, t
  <2> QED
      BY <1>3, <1>4, <2>1, FlattenAppend, FlattenTyped
<1>6. HeldBy(ms, k) = FlattenSeq(s) /\ HeldBy(ms, k + 1) = FlattenSeq(t)
    BY DEF HeldBy
<1> QED
    BY <1>2, <1>3, <1>5, <1>6

LEMMA Regrouped ==
  ASSUME NEW K, NEW u \in Seq(K), NEW v \in Seq(K), NEW w \in Seq(K)
  PROVE  (u \o v) \o w = u \o (v \o w)
  BY ConcatAssociative, SMTT(30)

LEMMA CarryKeeps ==
  ASSUME NEW ms, Conversing(ms), NEW k \in 0..(Len(ms) - 1), NEW st, Built(ms, st, k),
         ms[k + 1].role = "system",
         NEW after, after.carried = st.carried \o SystemText(ms[k + 1]), after.payload = st.payload
  PROVE  Built(ms, after, k + 1)
<1>1. /\ Len(ms) \in Nat /\ k + 1 \in 1..Len(ms) /\ Sayable(ms[k + 1])
      /\ Listed(st.payload) /\ st.carried \in Seq(Spoken) /\ Len(st.payload) \in Nat
      /\ \A p \in 1..Len(st.payload) : Listed(st.payload[p].calls)
  <2>1. Len(ms) \in Nat
      BY DEF Conversing, Listed
  <2>2. k + 1 \in 1..Len(ms)
      BY <2>1
  <2>3. Sayable(ms[k + 1])
      BY <2>2 DEF Conversing
  <2>4. /\ Listed(st.payload) /\ st.carried \in Seq(Spoken)
        /\ \A p \in 1..Len(st.payload) : Listed(st.payload[p].calls)
      BY DEF Built, Itemized
  <2>5. Len(st.payload) \in Nat
      BY <2>4 DEF Listed
  <2> QED
      BY <2>1, <2>2, <2>3, <2>4, <2>5
<1>2. SystemText(ms[k + 1]) = Contents(ms[k + 1])
    BY <1>1, SystemHolds
<1>3. /\ HeldBy(ms, k + 1) = HeldBy(ms, k) \o Contents(ms[k + 1])
      /\ HeldBy(ms, k) \in Seq(Spoken) /\ Contents(ms[k + 1]) \in Seq(Spoken)
    BY HeldByGrows
<1>4. HeldIn(st.payload) \in Seq(Spoken)
    BY HeldInTyped DEF Built
<1>5. after.carried \in Seq(Spoken) /\ HeldIn(after.payload) \o after.carried = HeldBy(ms, k + 1)
  <2>1. HeldIn(st.payload) \o (st.carried \o Contents(ms[k + 1]))
          = (HeldIn(st.payload) \o st.carried) \o Contents(ms[k + 1])
    <3>1. PICK A1 \in Seq(Spoken) : A1 = HeldIn(st.payload)
        BY <1>4
    <3>2. PICK C1 \in Seq(Spoken) : C1 = Contents(ms[k + 1])
        BY <1>3
    <3>3. PICK B1 \in Seq(Spoken) : B1 = st.carried
        BY <1>1
    <3>4. (A1 \o B1) \o C1 = A1 \o (B1 \o C1)
        BY Regrouped, SMTT(30)
    <3> QED
        BY <3>1, <3>2, <3>3, <3>4
  <2>2. st.carried \o Contents(ms[k + 1]) \in Seq(Spoken)
      BY <1>1, <1>3, ConcatProperties
  <2> QED
      BY <1>2, <1>3, <2>1, <2>2 DEF Built
<1>6. ASSUME NEW p \in 1..Len(st.payload)
      PROVE  Len(st.payload) - p >= Len(st.payload[p].calls)
  <2>a. Len(st.payload) - p \in Int /\ Len(st.payload[p].calls) \in Nat
      BY <1>1 DEF Listed
  <2> SUFFICES ASSUME Len(st.payload) - p < Len(st.payload[p].calls) PROVE FALSE
      BY <2>a
  <2> DEFINE r == Len(st.payload) - p
  <2>1. k - r \in 1..k /\ ms[k - r].calls = st.payload[p].calls
      BY DEF Built, Paired
  <2>2. /\ k - r \in 1..Len(ms) /\ r + 1 \in 1..Len(ms[k - r].calls)
        /\ (k - r) + (r + 1) = k + 1 /\ (k - r) + (r + 1) <= Len(ms)
    <3>1. Len(st.payload[p].calls) \in Nat
        BY <1>1 DEF Listed
    <3>2. r \in Nat /\ r < Len(st.payload[p].calls) /\ k - r \in 1..Len(ms)
        BY <1>1, <2>1, <3>1
    <3>3. r + 1 \in 1..Len(ms[k - r].calls)
      <4>1. Len(ms[k - r].calls) = Len(st.payload[p].calls)
          BY <2>1
      <4>2. r + 1 \in 1..Len(st.payload[p].calls)
          BY <3>1, <3>2
      <4> QED
          BY <4>1, <4>2
    <3> HIDE DEF r
    <3>4. (k - r) + (r + 1) = k + 1 /\ k + 1 <= Len(ms)
      <4>1. k \in Int /\ k + 1 <= Len(ms) /\ r \in Int
          BY <1>1, <3>2
      <4> QED
          BY <4>1
    <3> QED
        BY <3>2, <3>3, <3>4
  <2>3. ms[k + 1].role = "tool"
    <3> HIDE DEF r
    <3> QED
        BY <2>2 DEF Conversing
  <2> QED
      BY <2>3
<1>7. Paired(ms, after, k + 1)
  <2>1. ASSUME NEW p \in 1..Len(st.payload)
        PROVE  ~(Len(st.payload) - p < Len(st.payload[p].calls))
    <3>1. Len(st.payload) - p \in Int /\ Len(st.payload[p].calls) \in Nat
        BY <1>1 DEF Listed
    <3> QED
        BY <1>6, <3>1
  <2>2. Paired(ms, st, k) /\ after.payload = st.payload
      BY DEF Built
  <2> QED
      BY <2>1, <2>2, ZenonT(60) DEF Paired
<1> QED
    BY <1>5, <1>7 DEF Built

LEMMA PlaceKeeps ==
  ASSUME NEW ms, Conversing(ms), NEW k \in 0..(Len(ms) - 1), NEW st, Built(ms, st, k),
         ms[k + 1].role # "system"
  PROVE  Built(ms, Place(st, ms[k + 1]), k + 1)
<1> DEFINE m == ms[k + 1]
           item == PayloadItem(m)
           alone == st.carried # <<>> /\ m.role # "user"
           given == st.carried # <<>> /\ m.role = "user"
           front == IF alone THEN Append(st.payload, TextItem("user", st.carried)) ELSE st.payload
           x == IF given THEN [item EXCEPT !.content = <<TextPart(st.carried)>> \o @] ELSE item
           new == Append(front, x)
           L == Len(st.payload)
<1>1. /\ Len(ms) \in Nat /\ k + 1 \in 1..Len(ms) /\ Sayable(m) /\ Listed(m.calls)
      /\ Itemized(st.payload) /\ st.carried \in Seq(Spoken) /\ L \in Nat
      /\ \A p \in 1..L : Listed(st.payload[p].calls)
  <2>1. Len(ms) \in Nat
      BY DEF Conversing, Listed
  <2>2. k + 1 \in 1..Len(ms)
      BY <2>1
  <2>3. Sayable(m) /\ Listed(m.calls)
      BY <2>2 DEF Conversing
  <2>4. /\ Itemized(st.payload) /\ Listed(st.payload) /\ st.carried \in Seq(Spoken)
        /\ \A p \in 1..L : Listed(st.payload[p].calls)
      BY DEF Built, Itemized
  <2>5. L \in Nat
      BY <2>4 DEF Listed
  <2> HIDE DEF m, L
  <2> QED
      BY <2>1, <2>2, <2>3, <2>4, <2>5
<1>2. /\ Typed(item.content) /\ Held(item.content) = Contents(m)
      /\ item.calls = m.calls /\ item.answers = m.answers /\ item.role = m.role
    BY <1>1, ItemHolds DEF PayloadItem
<1>3. /\ HeldBy(ms, k + 1) = HeldBy(ms, k) \o Contents(m)
      /\ HeldBy(ms, k) \in Seq(Spoken) /\ Contents(m) \in Seq(Spoken)
    BY HeldByGrows
<1>4. /\ x.calls = m.calls /\ x.answers = m.answers /\ x.role = m.role
      /\ x.content = IF given THEN <<TextPart(st.carried)>> \o item.content ELSE item.content
    BY <1>2 DEF PayloadItem
<1>5. /\ Typed(x.content)
      /\ Held(x.content) = IF given THEN st.carried \o Contents(m) ELSE Contents(m)
    BY <1>1, <1>2, <1>4, CarriedHolds, ZenonT(60)
<1>6. HeldIn(st.payload) \in Seq(Spoken) /\ HeldIn(st.payload) \o st.carried = HeldBy(ms, k)
    BY HeldInTyped DEF Built
<1>7. /\ Itemized(front)
      /\ HeldIn(front) = IF alone THEN HeldIn(st.payload) \o st.carried ELSE HeldIn(st.payload)
      /\ Len(front) = IF alone THEN L + 1 ELSE L
      /\ \A p \in 1..L : front[p] = st.payload[p]
      /\ alone => front[L + 1].role = "user" /\ Len(front[L + 1].calls) = 0
  <2>1. CASE alone
    <3> DEFINE joined == TextItem("user", st.carried)
    <3>1. Typed(joined.content) /\ Held(joined.content) = st.carried /\ joined.calls = <<>> /\ joined.role = "user"
        BY <1>1, TextHeld DEF TextItem
    <3>2. Listed(joined.calls)
        BY <3>1 DEF Listed
    <3>3. /\ Itemized(Append(st.payload, joined))
          /\ HeldIn(Append(st.payload, joined)) = HeldIn(st.payload) \o st.carried
      <4> HIDE DEF joined
      <4> QED
          BY <1>1, <3>1, <3>2, HeldGrows
    <3>4. /\ Len(Append(st.payload, joined)) = L + 1 /\ Append(st.payload, joined)[L + 1] = joined
          /\ \A p \in 1..L : Append(st.payload, joined)[p] = st.payload[p]
      <4>1. Listed(st.payload)
          BY <1>1 DEF Itemized
      <4> HIDE DEF joined
      <4> QED
          BY <4>1, Appended
    <3>5. Len(joined.calls) = 0
        BY <3>1
    <3> HIDE DEF joined
    <3>6. front = Append(st.payload, joined)
        BY <2>1 DEF joined
    <3> HIDE DEF front
    <3> QED
        BY <2>1, <3>1, <3>3, <3>4, <3>5, <3>6
  <2>2. CASE ~alone
    <3>1. front = st.payload
        BY <2>2
    <3> HIDE DEF front
    <3> QED
        BY <1>1, <2>2, <3>1
  <2> QED
      BY <2>1, <2>2
<1> HIDE DEF front, x
<1>8. /\ Itemized(new) /\ HeldIn(new) = HeldIn(front) \o Held(x.content)
      /\ Len(new) = Len(front) + 1 /\ new[Len(front) + 1] = x
      /\ \A p \in 1..Len(front) : new[p] = front[p]
      /\ front \o <<x>> = new
  <2>1. Listed(x.calls) /\ Listed(front)
      BY <1>1, <1>4, <1>7 DEF Itemized
  <2> QED
      BY <1>5, <1>7, <2>1, HeldGrows, Appended, SMTT(30), ZenonT(60)
<1>9. Place(st, m) = [carried |-> <<>>, payload |-> new]
    BY <1>8 DEF Place, front, x, NoCarry
<1>10. HeldIn(new) = HeldBy(ms, k + 1)
  <2> DEFINE A1 == HeldIn(st.payload)
             B1 == st.carried
             C1 == Contents(m)
  <2>1. A1 \in Seq(Spoken) /\ B1 \in Seq(Spoken) /\ C1 \in Seq(Spoken)
      BY <1>1, <1>3, <1>6
  <2>2. CASE alone
    <3>1. ~given
        BY <2>2
    <3> QED
        BY <1>3, <1>5, <1>6, <1>7, <1>8, <2>2, <3>1
  <2>3. CASE given
    <3>1. ~alone
        BY <2>3
    <3>2. A1 \o (B1 \o C1) = (A1 \o B1) \o C1
      <4> HIDE DEF A1, B1, C1
      <4>1. (A1 \o B1) \o C1 = A1 \o (B1 \o C1)
        <5>1. ASSUME NEW u \in Seq(Spoken), NEW v \in Seq(Spoken), NEW w \in Seq(Spoken)
              PROVE  (u \o v) \o w = u \o (v \o w)
            BY Regrouped, SMTT(30)
        <5> QED
            BY <2>1, <5>1
      <4> QED
          BY <4>1
    <3> QED
        BY <1>3, <1>5, <1>6, <1>7, <1>8, <2>3, <3>1, <3>2
  <2>4. CASE ~alone /\ ~given
    <3>1. st.carried = <<>>
        BY <2>4
    <3>2. A1 \o <<>> = A1
      <4> HIDE DEF A1
      <4> QED
          BY <2>1
    <3> QED
        BY <1>3, <1>5, <1>6, <1>7, <1>8, <2>4, <3>1, <3>2
  <2> QED
      BY <2>2, <2>3, <2>4
<1> HIDE DEF new
<1>11. \A p \in 1..Len(new) : new[p].role = "system" => p = 1
  <2>1. ASSUME NEW p \in 1..Len(new), new[p].role = "system" PROVE p = 1
    <3>1. CASE p \in 1..L
      <4>1. new[p] = st.payload[p]
          BY <1>1, <1>7, <1>8, <3>1, SMTT(30)
      <4> QED
          BY <2>1, <3>1, <4>1 DEF Built
    <3>2. CASE p = Len(front) + 1
        BY <1>4, <1>8, <2>1, <3>2
    <3>3. CASE alone /\ p = L + 1
      <4>1. new[p] = front[L + 1]
          BY <1>1, <1>7, <1>8, <3>3
      <4> QED
          BY <1>7, <2>1, <3>3, <4>1
    <3> QED
        BY <1>1, <1>7, <1>8, <3>1, <3>2, <3>3
  <2> QED
      BY <2>1
<1>12. ASSUME NEW p \in 1..L
       PROVE  /\ new[p] = st.payload[p] /\ p \in 1..Len(new)
              /\ Len(st.payload[p].calls) \in Nat
              /\ \A q \in 1..L : new[q] = st.payload[q]
  <2>1. \A q \in 1..L : q \in 1..Len(front) /\ q \in 1..Len(new)
      BY <1>1, <1>7, <1>8
  <2>2. \A q \in 1..L : new[q] = st.payload[q]
      BY <1>7, <1>8, <2>1
  <2>3. Len(st.payload[p].calls) \in Nat
      BY <1>1 DEF Listed
  <2> QED
      BY <2>1, <2>2, <2>3
<1>13. ASSUME NEW p \in 1..Len(new)
       PROVE  /\ \A i \in 1..Len(new[p].calls) :
                   p + i <= Len(new) => new[p + i].answers = new[p].calls[i]
              /\ Len(new) - p < Len(new[p].calls) =>
                   /\ (k + 1) - (Len(new) - p) \in 1..(k + 1)
                   /\ ms[(k + 1) - (Len(new) - p)].calls = new[p].calls
  <2>1. CASE p = Len(front) + 1
    <3>1. Len(new) = p /\ new[p].calls = ms[k + 1].calls /\ Len(ms[k + 1].calls) \in Nat
        BY <1>1, <1>4, <1>8, <2>1 DEF Listed
    <3>2. (k + 1) - (Len(new) - p) = k + 1
        BY <1>1, <3>1
    <3> HIDE DEF m
    <3> QED
        BY <1>1, <3>1, <3>2
  <2>2. CASE alone /\ p = L + 1
    <3>1. new[p] = front[L + 1]
        BY <1>1, <1>7, <1>8, <2>2
    <3>2. Len(new[p].calls) = 0 /\ Len(new) - p = 1
        BY <1>1, <1>7, <1>8, <2>2, <3>1
    <3> QED
        BY <3>2
  <2>3. CASE p \in 1..L /\ Len(st.payload[p].calls) <= L - p
    <3>1. /\ new[p] = st.payload[p] /\ Len(st.payload[p].calls) \in Nat
          /\ \A q \in 1..L : new[q] = st.payload[q]
        BY <1>12, <2>3
    <3>2. Len(new) >= L + 1 /\ Len(new) \in Nat
        BY <1>1, <1>7, <1>8
    <3>3. ASSUME NEW i \in 1..Len(new[p].calls)
          PROVE  new[p + i].answers = new[p].calls[i]
      <4>1. p + i \in 1..L /\ p + i <= L /\ i \in 1..Len(st.payload[p].calls)
          BY <1>1, <2>3, <3>1
      <4>2. st.payload[p + i].answers = st.payload[p].calls[i]
          BY <2>3, <4>1 DEF Built, Paired
      <4> QED
          BY <3>1, <4>1, <4>2
    <3>4. ~(Len(new) - p < Len(new[p].calls))
        BY <1>1, <2>3, <3>1, <3>2, SMTT(30)
    <3> QED
        BY <3>3, <3>4
  <2>4. CASE p \in 1..L /\ Len(st.payload[p].calls) > L - p
    <3> DEFINE r == L - p
               q == k - r
    <3>1. /\ new[p] = st.payload[p] /\ Len(st.payload[p].calls) \in Nat
          /\ \A n \in 1..L : new[n] = st.payload[n]
        BY <1>12, <2>4
    <3>2. st.carried = <<>> /\ q \in 1..k /\ ms[q].calls = st.payload[p].calls
      <4>1. L - p < Len(st.payload[p].calls)
          BY <1>1, <2>4, <3>1
      <4> QED
          BY <2>4, <4>1 DEF Built, Paired
    <3>3. ~alone /\ Len(front) = L /\ Len(new) = L + 1 /\ new[L + 1] = x
        BY <1>7, <1>8, <3>2
    <3>4. r \in Nat /\ r < Len(st.payload[p].calls) /\ k = q + r /\ L = p + r /\ p \in Nat
        BY <1>1, <2>4, <3>1, <3>2
    <3>5. ASSUME NEW i \in 1..Len(new[p].calls), p + i <= Len(new)
          PROVE  new[p + i].answers = new[p].calls[i]
      <4>1. CASE p + i <= L
        <5>1. p + i \in 1..L /\ i \in 1..Len(st.payload[p].calls)
            BY <1>1, <2>4, <3>1, <4>1
        <5>2. st.payload[p + i].answers = st.payload[p].calls[i]
            BY <2>4, <4>1, <5>1 DEF Built, Paired
        <5> QED
            BY <3>1, <5>1, <5>2
      <4>2. CASE p + i = L + 1
        <5>1. i = r + 1 /\ q + i = k + 1 /\ q \in 1..Len(ms) /\ k + 1 <= Len(ms)
          <6> HIDE DEF r, q
          <6> QED
              BY <1>1, <3>2, <3>4, <4>2
        <5>2. i \in 1..Len(ms[q].calls)
            BY <3>1, <3>2
        <5>3. ms[k + 1].answers = ms[q].calls[i]
          <6> HIDE DEF r, q, m
          <6> QED
              BY <5>1, <5>2 DEF Conversing
        <5> QED
            BY <1>4, <3>1, <3>2, <3>3, <4>2, <5>3
      <4> QED
          BY <1>1, <3>1, <3>3, <3>5, <4>1, <4>2, SMTT(30)
    <3>6. (k + 1) - (Len(new) - p) = q
      <4> HIDE DEF r, q
      <4> QED
          BY <1>1, <3>3, <3>4, <3>2
    <3>7. q \in 1..(k + 1)
      <4> HIDE DEF r, q
      <4> QED
          BY <3>2
    <3> HIDE DEF r, q
    <3> QED
        BY <3>1, <3>2, <3>5, <3>6, <3>7
  <2>5. \/ p = Len(front) + 1 \/ (alone /\ p = L + 1)
        \/ (p \in 1..L /\ Len(st.payload[p].calls) <= L - p)
        \/ (p \in 1..L /\ Len(st.payload[p].calls) > L - p)
    <3>1. p = Len(front) + 1 \/ (alone /\ p = L + 1) \/ p \in 1..L
        BY <1>1, <1>7, <1>8
    <3>2. p \in 1..L => Len(st.payload[p].calls) \in Nat
        BY <1>12
    <3> QED
        BY <1>1, <3>1, <3>2
  <2> QED
      BY <2>1, <2>2, <2>3, <2>4, <2>5
<1> DEFINE next == Place(st, m)
<1>14. next.carried = <<>> /\ next.payload = new
    BY <1>9
<1> HIDE DEF next
<1>15. Paired(ms, next, k + 1)
    BY <1>13, <1>14 DEF Paired
<1>16. next.carried \in Seq(Spoken) /\ HeldIn(new) \o <<>> = HeldIn(new)
  <2>1. HeldIn(new) \in Seq(Spoken)
      BY <1>8, HeldInTyped
  <2> QED
      BY <1>14, <2>1
<1>17. Built(ms, next, k + 1)
    BY <1>8, <1>10, <1>11, <1>14, <1>15, <1>16 DEF Built
<1> QED
    BY <1>17 DEF next

(* The whole list.                                                         *)

Opening(ms, n) ==
  [carried |-> NoCarry,
   payload |-> IF n = 0 THEN <<>>
               ELSE <<TextItem("system", FlattenSeq([k \in 1..n |-> SystemText(ms[k])]))>>]
Go(st, m) == IF m.role = "system" THEN Carry(st, m) ELSE Place(st, m)
State(st) == st = [carried |-> st.carried, payload |-> st.payload]

LEMMA LeadingIs ==
  ASSUME NEW ms, Conversing(ms)
  PROVE  /\ Leading(ms) \in 0..Len(ms)
         /\ \A k \in 1..Leading(ms) : ms[k].role = "system"
<1> DEFINE K == {k \in DOMAIN ms : ms[k].role # "system"} \cup {Len(ms) + 1}
<1>1. DOMAIN ms = 1..Len(ms) /\ Len(ms) \in Nat
    BY DEF Conversing, Listed
<1>2. PICK m \in K : \A j \in K : m <= j
  <2>1. K \in SUBSET Nat /\ K # {}
      BY <1>1
  <2> HIDE DEF K
  <2> QED
      BY <2>1, HasLeast
<1>3. Min(K) \in K /\ \A j \in K : Min(K) <= j
  <2> HIDE DEF K
  <2> QED
      BY <1>2 DEF Min
<1>4. PICK least : least = Min(K)
    OBVIOUS
<1>5. Leading(ms) = least - 1
    BY <1>4 DEF Leading
<1>6. least \in 1..(Len(ms) + 1) /\ \A j \in K : least <= j
    BY <1>1, <1>3, <1>4
<1>7. ASSUME NEW k \in 1..(least - 1) PROVE ms[k].role = "system"
  <2>1. k \in 1..Len(ms) /\ ~(least <= k)
      BY <1>1, <1>6
  <2> QED
      BY <1>1, <1>6, <2>1
<1> QED
    BY <1>1, <1>5, <1>6, <1>7

LEMMA FirstBuilt ==
  ASSUME NEW ms, Conversing(ms), NEW n \in 0..Len(ms), \A k \in 1..n : ms[k].role = "system"
  PROVE  Built(ms, Opening(ms, n), n) /\ State(Opening(ms, n))
<1> DEFINE st == Opening(ms, n)
           s == [k \in 1..n |-> Contents(ms[k])]
<1>1. Len(ms) \in Nat /\ \A k \in 1..n : k \in 1..Len(ms) /\ Sayable(ms[k])
  <2>1. Len(ms) \in Nat
      BY DEF Conversing, Listed
  <2>2. \A k \in 1..n : k \in 1..Len(ms)
      BY <2>1
  <2> QED
      BY <2>1, <2>2 DEF Conversing
<1>2. [k \in 1..n |-> SystemText(ms[k])] = s
  <2>1. \A k \in 1..n : SystemText(ms[k]) = Contents(ms[k])
      BY <1>1, SystemHolds
  <2> QED
      BY <2>1
<1>3. FlattenSeq(s) = HeldBy(ms, n) /\ HeldBy(ms, n) \in Seq(Spoken)
  <2>1. \A k \in 1..n : Contents(ms[k]) \in Seq(Spoken)
      BY <1>1, HoldingTyped
  <2>2. s \in Seq(Seq(Spoken))
      BY <2>1
  <2>3. FlattenSeq(s) = HeldBy(ms, n)
      BY DEF HeldBy
  <2> HIDE DEF s
  <2> QED
      BY <2>2, <2>3, FlattenTyped
<1>4. /\ st.carried = <<>>
      /\ st.payload = IF n = 0 THEN <<>> ELSE <<TextItem("system", HeldBy(ms, n))>>
      /\ State(st)
  <2>1. FlattenSeq([k \in 1..n |-> SystemText(ms[k])]) = HeldBy(ms, n)
      BY <1>2, <1>3
  <2> QED
      BY <2>1 DEF Opening, State, NoCarry
<1>5. Itemized(<<>>) /\ HeldIn(<<>>) = <<>> /\ Len(<<>>) = 0
  <2>1. Listed(<<>>) /\ Len(<<>>) = 0
      BY DEF Listed
  <2>2. Itemized(<<>>)
      BY <2>1 DEF Itemized
  <2>3. [p \in DOMAIN <<>> |-> Held(<<>>[p].content)] = <<>>
      OBVIOUS
  <2>4. HeldIn(<<>>) = <<>>
      BY <2>3, FlattenNone DEF HeldIn
  <2> QED
      BY <2>1, <2>2, <2>4
<1>6. Itemized(st.payload) /\ HeldIn(st.payload) = HeldBy(ms, n)
      /\ Len(st.payload) = (IF n = 0 THEN 0 ELSE 1)
      /\ \A p \in 1..Len(st.payload) : st.payload[p].calls = <<>>
  <2>1. CASE n = 0
    <3>1. [j \in 1..0 |-> Contents(ms[j])] = <<>>
        OBVIOUS
    <3>2. HeldBy(ms, n) = <<>>
        BY <2>1, <3>1, FlattenNone DEF HeldBy
    <3> HIDE DEF st
    <3> QED
        BY <1>4, <1>5, <2>1, <3>2
  <2>2. CASE n # 0
    <3> DEFINE joined == TextItem("system", HeldBy(ms, n))
    <3>1. Typed(joined.content) /\ Held(joined.content) = HeldBy(ms, n) /\ joined.calls = <<>>
        BY <1>3, TextHeld DEF TextItem
    <3>2. Listed(joined.calls)
        BY <3>1 DEF Listed
    <3> HIDE DEF joined
    <3>3. Append(<<>>, joined) = <<joined>>
        OBVIOUS
    <3>4. Itemized(<<joined>>) /\ HeldIn(<<joined>>) = <<>> \o HeldBy(ms, n)
        BY <1>5, <3>1, <3>2, <3>3, HeldGrows
    <3>5. <<>> \o HeldBy(ms, n) = HeldBy(ms, n)
        BY <1>3
    <3>6. st.payload = <<joined>>
        BY <1>4, <2>2 DEF joined
    <3> HIDE DEF st
    <3>7. Len(<<joined>>) = 1 /\ <<joined>>[1] = joined
        OBVIOUS
    <3> QED
        BY <2>2, <3>1, <3>4, <3>5, <3>6, <3>7
  <2> QED
      BY <2>1, <2>2
<1> HIDE DEF st
<1>7. Paired(ms, st, n)
  <2>1. ASSUME NEW p \in 1..Len(st.payload)
        PROVE  /\ 1..Len(st.payload[p].calls) = {}
               /\ ~(Len(st.payload) - p < Len(st.payload[p].calls))
    <3>1. Len(st.payload[p].calls) = 0 /\ Len(st.payload) - p \in Nat
        BY <1>6
    <3> QED
        BY <3>1
  <2> QED
      BY <2>1 DEF Paired
<1>8. /\ HeldIn(st.payload) \o <<>> = HeldIn(st.payload) /\ <<>> \in Seq(Spoken)
      /\ \A p \in 1..Len(st.payload) : p = 1
    BY <1>3, <1>6
<1> QED
    BY <1>4, <1>6, <1>7, <1>8 DEF Built, st

LEMMA BuildsExist ==
  ASSUME NEW ms, Len(ms) \in Nat, NEW n \in 0..Len(ms)
  PROVE  \E f : f = [k \in n..Len(ms) |-> IF k = n THEN Opening(ms, n) ELSE Go(f[k - 1], ms[k])]
<1> DEFINE Upto(m, f) == f = [k \in n..m |-> IF k = n THEN Opening(ms, n)
                                             ELSE Go(f[k - 1], ms[k])]
           Bad == {m \in n..Len(ms) : ~\E f : Upto(m, f)}
<1> SUFFICES ASSUME Bad # {} PROVE FALSE
  <2>1. Len(ms) \in n..Len(ms)
      OBVIOUS
  <2>2. PICK f : Upto(Len(ms), f)
      BY <2>1
  <2> QED
      BY <2>2
<1>1. PICK m \in Bad : \A j \in Bad : m <= j
  <2>1. Bad \in SUBSET Nat
      OBVIOUS
  <2> HIDE DEF Bad
  <2> QED
      BY <2>1, HasLeast
<1>2. CASE m = n
  <2>1. Upto(n, [k \in n..n |-> Opening(ms, n)])
      OBVIOUS
  <2> QED
      BY <1>1, <1>2, <2>1
<1>3. CASE m # n
  <2>1. m \in Nat /\ m - 1 \in n..Len(ms) /\ m \in n..m /\ m - 1 \notin Bad
    <3>1. m \in n..Len(ms)
        BY <1>1
    <3>2. m \in Nat /\ m - 1 \in n..Len(ms) /\ ~(m <= m - 1) /\ m \in n..m
        BY <1>3, <3>1
    <3> HIDE DEF Bad
    <3> QED
        BY <1>1, <3>2
  <2>2. PICK f : Upto(m - 1, f)
      BY <2>1
  <2> DEFINE g == [k \in n..m |-> IF k = m THEN Go(f[m - 1], ms[m]) ELSE f[k]]
  <2>3. ASSUME NEW k \in n..m
        PROVE  g[k] = IF k = n THEN Opening(ms, n) ELSE Go(g[k - 1], ms[k])
    <3>1. k # m => k \in n..(m - 1) /\ g[k] = f[k]
        BY <2>1
    <3>2. k # n => k - 1 \in n..m /\ k - 1 # m /\ g[k - 1] = f[k - 1]
        BY <2>1
    <3>3. k = m => g[k] = Go(f[m - 1], ms[m])
        OBVIOUS
    <3>4. k # m => f[k] = IF k = n THEN Opening(ms, n) ELSE Go(f[k - 1], ms[k])
        BY <2>2, <3>1
    <3> HIDE DEF g
    <3> QED
        BY <1>3, <3>1, <3>2, <3>3, <3>4
  <2>4. g = [k \in n..m |-> g[k]]
      OBVIOUS
  <2>5. Upto(m, g)
    <3> HIDE DEF g
    <3> QED
        BY <2>3, <2>4
  <2> QED
      BY <1>1, <2>5
<1> QED
    BY <1>2, <1>3

LEMMA EveryBuilt ==
  ASSUME NEW ms, Conversing(ms), NEW n \in 0..Len(ms), \A k \in 1..n : ms[k].role = "system",
         NEW f, \A k \in n..Len(ms) : f[k] = IF k = n THEN Opening(ms, n) ELSE Go(f[k - 1], ms[k])
  PROVE  \A k \in n..Len(ms) : Built(ms, f[k], k) /\ State(f[k])
<1> DEFINE Bad == {k \in n..Len(ms) : ~(Built(ms, f[k], k) /\ State(f[k]))}
<1> SUFFICES ASSUME Bad # {} PROVE FALSE
    OBVIOUS
<1>1. Len(ms) \in Nat
    BY DEF Conversing, Listed
<1>2. PICK k \in Bad : \A j \in Bad : k <= j
  <2>1. Bad \in SUBSET Nat
      BY <1>1
  <2> HIDE DEF Bad
  <2> QED
      BY <2>1, HasLeast
<1>3. k \in n..Len(ms) /\ ~(Built(ms, f[k], k) /\ State(f[k]))
    BY <1>2
<1>4. CASE k = n
    BY <1>3, <1>4, FirstBuilt
<1>5. CASE k # n
  <2>1. PICK j : j = k - 1
      OBVIOUS
  <2>2. j \in n..Len(ms) /\ j \in 0..(Len(ms) - 1) /\ j + 1 = k /\ ~(k <= j)
      BY <1>1, <1>3, <1>5, <2>1
  <2>3. Built(ms, f[j], j) /\ State(f[j])
    <3>1. j \notin Bad
      <4> HIDE DEF Bad
      <4> QED
          BY <1>2, <2>2
    <3> QED
        BY <2>2, <3>1
  <2>4. f[k] = Go(f[j], ms[j + 1])
      BY <1>3, <1>5, <2>1, <2>2
  <2>5. CASE ms[j + 1].role = "system"
    <3>1. f[k] = Carry(f[j], ms[j + 1])
        BY <2>4, <2>5 DEF Go
    <3>2. /\ f[k].carried = f[j].carried \o SystemText(ms[j + 1])
          /\ f[k].payload = f[j].payload /\ State(f[k])
        BY <2>3, <3>1 DEF Carry, State
    <3> QED
        BY <1>3, <2>2, <2>3, <2>5, <3>2, CarryKeeps
  <2>6. CASE ms[j + 1].role # "system"
    <3>1. f[k] = Place(f[j], ms[j + 1])
        BY <2>4, <2>6 DEF Go
    <3>2. State(f[k])
        BY <3>1 DEF Place, State
    <3> QED
        BY <1>3, <2>2, <2>3, <2>6, <3>1, <3>2, PlaceKeeps
  <2> QED
      BY <2>5, <2>6
<1> QED
    BY <1>4, <1>5

LEMMA AllReadable == ASSUME NEW ms, Conversing(ms) PROVE Readable(ms)
<1>1. DOMAIN ms = 1..Len(ms) /\ \A k \in 1..Len(ms) : Sayable(ms[k])
    BY DEF Conversing, Listed
<1>2. ASSUME NEW k \in 1..Len(ms), NEW part \in ToSet(Kept(ms[k])) PROVE Supported(part)
  <2>1. /\ DOMAIN Kept(ms[k]) = 1..Len(Kept(ms[k]))
        /\ \A i \in 1..Len(Kept(ms[k])) : Supported(Kept(ms[k])[i])
      BY <1>1, KeptIs
  <2>2. PICK i \in DOMAIN Kept(ms[k]) : part = Kept(ms[k])[i]
      BY DEF ToSet
  <2> QED
      BY <2>1, <2>2
<1> QED
    BY <1>1, <1>2 DEF Readable

LEMMA WholeList ==
  ASSUME NEW ms, Conversing(ms)
  PROVE  LET list == BuildMessages(ms).list
         IN  /\ \A k \in DOMAIN list : list[k].role = "system" => k = 1
             /\ HeldIn(list) = HeldBy(ms, Len(ms))
             /\ \A k \in DOMAIN list : \A i \in 1..Len(list[k].calls) :
                   k + i \in DOMAIN list => list[k + i].answers = list[k].calls[i]
             /\ \A k \in DOMAIN list : DOMAIN list[k].calls = 1..Len(list[k].calls)
<1> SUFFICES ASSUME NEW list, list = BuildMessages(ms).list
             PROVE  /\ \A k \in DOMAIN list : list[k].role = "system" => k = 1
                    /\ HeldIn(list) = HeldBy(ms, Len(ms))
                    /\ \A k \in DOMAIN list : \A i \in 1..Len(list[k].calls) :
                          k + i \in DOMAIN list => list[k + i].answers = list[k].calls[i]
                    /\ \A k \in DOMAIN list : DOMAIN list[k].calls = 1..Len(list[k].calls)
    OBVIOUS
<1> DEFINE n == Leading(ms)
           built[k \in n..Len(ms)] ==
              IF k = n THEN Opening(ms, n) ELSE Go(built[k - 1], ms[k])
           last == built[Len(ms)]
           L == Len(last.payload)
<1>1. /\ Len(ms) \in Nat /\ n \in 0..Len(ms) /\ \A k \in 1..n : ms[k].role = "system"
  <2>1. Len(ms) \in Nat
      BY DEF Conversing, Listed
  <2> QED
      BY <2>1, LeadingIs
<1>2. list = IF last.carried = <<>> THEN last.payload
             ELSE Append(last.payload, TextItem("user", last.carried))
  <2>1. Readable(ms)
      BY AllReadable
  <2> QED
      BY <2>1 DEF BuildMessages, Opening, Go, NoCarry
<1>3. \A k \in n..Len(ms) :
          built[k] = IF k = n THEN Opening(ms, n) ELSE Go(built[k - 1], ms[k])
  <2>1. built = [k \in n..Len(ms) |-> IF k = n THEN Opening(ms, n) ELSE Go(built[k - 1], ms[k])]
    <3>1. \E f : f = [k \in n..Len(ms) |-> IF k = n THEN Opening(ms, n)
                                           ELSE Go(f[k - 1], ms[k])]
      <4> HIDE DEF n
      <4> QED
          BY <1>1, BuildsExist
    <3> HIDE DEF n
    <3> QED
        BY <3>1
  <2> HIDE DEF built, n
  <2> QED
      BY <2>1
<1> HIDE DEF built, n
<1>4. Built(ms, last, Len(ms))
  <2>1. Len(ms) \in n..Len(ms)
      BY <1>1
  <2> QED
      BY <1>1, <1>3, <2>1, EveryBuilt
<1> HIDE DEF last
<1>5. /\ Itemized(last.payload) /\ last.carried \in Seq(Spoken)
      /\ HeldIn(last.payload) \o last.carried = HeldBy(ms, Len(ms))
      /\ HeldIn(last.payload) \in Seq(Spoken)
      /\ \A p \in 1..L : last.payload[p].role = "system" => p = 1
      /\ Paired(ms, last, Len(ms))
    BY <1>4, HeldInTyped DEF Built
<1>6. Listed(last.payload) /\ DOMAIN last.payload = 1..L /\ L \in Nat
      /\ \A p \in 1..L : DOMAIN last.payload[p].calls = 1..Len(last.payload[p].calls)
    BY <1>5 DEF Itemized, Listed
<1>7. \A p \in 1..L : \A i \in 1..Len(last.payload[p].calls) :
          p + i <= L => last.payload[p + i].answers = last.payload[p].calls[i]
    BY <1>5 DEF Paired
<1>8. CASE last.carried = <<>>
  <2>1. list = last.payload
      BY <1>2, <1>8
  <2>2. HeldIn(last.payload) \o <<>> = HeldIn(last.payload)
      BY <1>5
  <2>3. DOMAIN list = 1..L
      BY <1>6, <2>1
  <2>4. ASSUME NEW k \in DOMAIN list, NEW i \in 1..Len(list[k].calls), k + i \in DOMAIN list
        PROVE  list[k + i].answers = list[k].calls[i]
    <3>1. k + i <= L
        BY <1>6, <2>3, <2>4
    <3> QED
        BY <1>7, <2>1, <2>3, <3>1
  <2>5. HeldIn(list) = HeldBy(ms, Len(ms))
      BY <1>5, <1>8, <2>1, <2>2
  <2> QED
      BY <1>5, <1>6, <2>1, <2>3, <2>4, <2>5
<1>9. CASE last.carried # <<>>
  <2> DEFINE joined == TextItem("user", last.carried)
  <2>1. list = Append(last.payload, joined)
      BY <1>2, <1>9
  <2>2. /\ Typed(joined.content) /\ Held(joined.content) = last.carried
        /\ joined.calls = <<>> /\ joined.role = "user"
      BY <1>5, TextHeld DEF TextItem
  <2>3. Listed(joined.calls) /\ Len(joined.calls) = 0 /\ DOMAIN joined.calls = 1..0
      BY <2>2 DEF Listed
  <2> HIDE DEF joined
  <2>4. HeldIn(list) = HeldIn(last.payload) \o last.carried
      BY <1>5, <2>1, <2>2, <2>3, HeldGrows
  <2>5. /\ Listed(list) /\ Len(list) = L + 1 /\ list[L + 1] = joined
        /\ \A p \in 1..L : list[p] = last.payload[p]
      BY <1>6, <2>1, Appended
  <2>6. DOMAIN list = 1..(L + 1)
      BY <2>5 DEF Listed
  <2>7. \A p \in 1..L : Len(last.payload[p].calls) <= L - p
    <3>1. ASSUME NEW p \in 1..L PROVE Len(last.payload[p].calls) \in Nat
        BY <1>5 DEF Itemized, Listed
    <3>2. ASSUME NEW p \in 1..L PROVE ~(L - p < Len(last.payload[p].calls))
        BY <1>5, <1>9 DEF Paired
    <3> QED
        BY <1>6, <3>1, <3>2
  <2>8. ASSUME NEW p \in 1..(L + 1)
        PROVE  /\ list[p].role = "system" => p = 1
               /\ DOMAIN list[p].calls = 1..Len(list[p].calls)
               /\ \A i \in 1..Len(list[p].calls) : list[p + i].answers = list[p].calls[i]
    <3>1. CASE p = L + 1
        BY <2>2, <2>3, <2>5, <3>1
    <3>2. CASE p \in 1..L
      <4>1. list[p] = last.payload[p] /\ Len(last.payload[p].calls) <= L - p
          BY <2>5, <2>7, <3>2
      <4>2. ASSUME NEW i \in 1..Len(list[p].calls)
            PROVE  list[p + i].answers = list[p].calls[i]
        <5>1. p + i <= L /\ p + i \in 1..L /\ i \in 1..Len(last.payload[p].calls)
          <6>1. Len(last.payload[p].calls) \in Nat
              BY <1>5, <3>2 DEF Itemized, Listed
          <6> QED
              BY <1>6, <3>2, <4>1, <6>1
        <5> QED
            BY <1>7, <2>5, <3>2, <4>1, <5>1
      <4> QED
          BY <1>5, <1>6, <3>2, <4>1, <4>2
    <3> QED
        BY <1>6, <3>1, <3>2
  <2> QED
    <3>1. HeldIn(list) = HeldBy(ms, Len(ms))
        BY <1>5, <2>4
    <3> QED
        BY <2>6, <2>8, <3>1
<1> QED
    BY <1>8, <1>9

(* The history, as it grows.                                               *)

Listable(parts) ==
  /\ parts = [k \in 1..Len(parts) |-> parts[k]] /\ Len(parts) \in Nat
  /\ \A k \in 1..Len(parts) : parts[k].holds \in Spoken /\ Supported(parts[k])

\* The message after the last of ms may be any that MayFollow gives.
Chatting(ms) ==
  /\ Conversing(ms)
  /\ \A k \in 1..Len(ms) : ms[k].role = "tool" => ms[k].calls = <<>>
TalkInv == Chatting(talk)

LEMMA FollowersSayable ==
  ASSUME AudioAssumption, NEW ms, Chatting(ms), NEW n, n = Len(ms) + 1, NEW m \in MayFollow(ms, n)
  PROVE  /\ Sayable(m) /\ Listed(m.calls)
         /\ m.role = "tool" => m.calls = <<>>
         /\ \A k \in Unanswered(ms) : m.role = "tool" /\ m.answers = ms[k].calls[n - k]
<1>1. n \in Nat /\ DOMAIN ms = 1..Len(ms) /\ Len(ms) \in Nat
    BY DEF Chatting, Conversing, Listed
<1>2. /\ Listed(<<>>) /\ Listed(Asking(n, 1).calls) /\ Listed(Asking(n, 2).calls)
  <2>1. Listed(<<>>)
      BY DEF Listed
  <2>2. Asking(n, 1).calls = [i \in 1..1 |-> <<n, i>>] /\ Asking(n, 2).calls = [i \in 1..2 |-> <<n, i>>]
      BY DEF Asking, Message
  <2>3. Len([i \in 1..1 |-> <<n, i>>]) = 1 /\ Len([i \in 1..2 |-> <<n, i>>]) = 2
      OBVIOUS
  <2> QED
      BY <2>1, <2>2, <2>3 DEF Listed
<1>3. ASSUME Listable(m.parts), m.role # "system" PROVE Sayable(m)
    BY <1>3 DEF Sayable, Listable
<1>4. /\ Part("text", n).holds = n /\ Part("text", n).kind = "text" /\ ~Part("text", n).outbound
      /\ Part("image", n).holds = n /\ Part("image", n).kind = "image"
      /\ Outbound(Part("image", n)).holds = n /\ Outbound(Part("image", n)).kind = "image"
      /\ n \in Spoken
    BY <1>1 DEF Part, Outbound, Spoken
<1>5. /\ Supported(Part("text", n)) /\ Supported(Part("image", n))
      /\ Supported(Outbound(Part("image", n)))
    BY <1>4 DEF Supported
<1>6. ASSUME NEW x, x.holds \in Spoken, Supported(x) PROVE Listable(<<x>>)
    BY <1>6 DEF Listable
<1>7. ASSUME NEW x, x.holds \in Spoken, Supported(x), NEW y, y.holds \in Spoken, Supported(y)
      PROVE  Listable(<<x, y>>)
    BY <1>7 DEF Listable
<1> DEFINE text == Part("text", n)
           image == Part("image", n)
           Kinds == {<<text>>, <<Outbound(image)>>, <<text, image>>}
<1>8. CASE Unanswered(ms) # {}
  <2>1. PICK k \in Unanswered(ms), parts \in Kinds :
           m = [Message("tool", parts) EXCEPT !.answers = ms[k].calls[n - k]]
      BY <1>8 DEF MayFollow
  <2>2. m.role = "tool" /\ m.parts = parts /\ m.calls = <<>> /\ m.answers = ms[k].calls[n - k]
      BY <2>1 DEF Message
  <2>3. Sayable(m)
    <3> HIDE DEF text, image
    <3>1. CASE parts = <<text>>
      <4>1. Listable(<<text>>)
          BY <1>4, <1>5, <1>6 DEF text
      <4> QED
          BY <1>3, <2>2, <3>1, <4>1
    <3>2. CASE parts = <<Outbound(image)>>
      <4>1. Listable(<<Outbound(image)>>)
          BY <1>4, <1>5, <1>6 DEF image
      <4> QED
          BY <1>3, <2>2, <3>2, <4>1
    <3>3. CASE parts = <<text, image>>
      <4>1. Listable(<<text, image>>)
          BY <1>4, <1>5, <1>7 DEF text, image
      <4> QED
          BY <1>3, <2>2, <3>3, <4>1
    <3> QED
        BY <2>1, <3>1, <3>2, <3>3
  <2>4. ASSUME NEW j \in Unanswered(ms) PROVE j = k
    <3>1. /\ j \in 1..Len(ms) /\ j + Len(ms[j].calls) > Len(ms) /\ Len(ms[j].calls) \in Nat
          /\ k \in 1..Len(ms) /\ k + Len(ms[k].calls) > Len(ms) /\ Len(ms[k].calls) \in Nat
        BY <1>1, <2>1, <2>4 DEF Unanswered, Chatting, Conversing, Listed
    <3>2. ASSUME NEW u \in 1..Len(ms), NEW v \in 1..Len(ms), u < v,
                 u + Len(ms[u].calls) > Len(ms), Len(ms[u].calls) \in Nat,
                 v + Len(ms[v].calls) > Len(ms)
          PROVE  FALSE
      <4>1. PICK i : i = v - u
          OBVIOUS
      <4>2. i \in 1..Len(ms[u].calls) /\ u + i = v /\ u + i <= Len(ms)
          BY <1>1, <3>2, <4>1
      <4>3. ms[v].role = "tool"
          BY <4>2 DEF Chatting, Conversing
      <4>4. Len(ms[v].calls) = 0
          BY <4>3 DEF Chatting
      <4> QED
          BY <1>1, <3>2, <4>4
    <3> QED
        BY <1>1, <3>1, <3>2
  <2>5. \A j \in Unanswered(ms) : m.answers = ms[j].calls[n - j]
      BY <2>2, <2>4
  <2> QED
      BY <1>2, <2>2, <2>3, <2>5
<1>9. CASE Unanswered(ms) = {}
  <2> DEFINE ordinary == {Message("system", <<text>>), Message("user", <<text>>),
                         Message("assistant", <<text>>), Asking(n, 1), Asking(n, 2)}
  <2>1. \/ m \in ordinary
        \/ \E format \in Formats : m = Message("user", <<Part("audio", format), text>>)
      BY <1>9 DEF MayFollow, Formats
  <2>2. CASE m = Message("system", <<text>>)
    <3>1. m.role = "system" /\ m.parts = <<text>> /\ m.calls = <<>>
        BY <2>2 DEF Message
    <3>2. \A k \in 1..Len(<<text>>) : <<text>>[k].kind = "text" /\ ~<<text>>[k].outbound
        BY <1>4
    <3>3. Sayable(m)
      <4>1. Listable(<<text>>)
          BY <1>4, <1>5, <1>6
      <4> QED
          BY <3>1, <3>2, <4>1 DEF Sayable, Listable
    <3> QED
        BY <1>2, <1>9, <3>1, <3>3
  <2>3. CASE m \in {Message("user", <<text>>), Message("assistant", <<text>>)}
    <3>1. m.role \in {"user", "assistant"} /\ m.parts = <<text>> /\ m.calls = <<>>
        BY <2>3 DEF Message
    <3>2. Sayable(m)
      <4>1. Listable(<<text>>)
          BY <1>4, <1>5, <1>6
      <4>2. m.role # "system"
          BY <3>1
      <4> QED
          BY <1>3, <3>1, <4>1, <4>2
    <3> QED
        BY <1>2, <1>9, <3>1, <3>2
  <2>4. CASE m \in {Asking(n, 1), Asking(n, 2)}
    <3>1. m.role = "assistant" /\ m.parts = <<>>
        BY <2>4 DEF Asking, Message
    <3>2. Sayable(m)
      <4>1. Listable(<<>>)
          BY DEF Listable
      <4> QED
          BY <1>3, <3>1, <4>1
    <3>3. Listed(m.calls)
        BY <1>2, <2>4
    <3> QED
        BY <1>9, <3>1, <3>2, <3>3
  <2>5. ASSUME NEW format \in Formats, m = Message("user", <<Part("audio", format), text>>)
        PROVE  Sayable(m) /\ Listed(m.calls) /\ m.role # "tool"
    <3>1. m.role = "user" /\ m.parts = <<Part("audio", format), text>> /\ m.calls = <<>>
        BY <2>5 DEF Message
    <3>2. Part("audio", format).holds \in Spoken /\ Supported(Part("audio", format))
        BY DEF Part, Supported, Spoken, Formats
    <3>3. Sayable(m)
      <4>1. Listable(<<Part("audio", format), text>>)
          BY <1>4, <1>5, <1>7, <3>2
      <4>2. m.role # "system"
          BY <3>1
      <4> QED
          BY <1>3, <3>1, <4>1, <4>2
    <3> QED
        BY <1>2, <3>1, <3>3
  <2> QED
      BY <1>9, <2>1, <2>2, <2>3, <2>4, <2>5
<1> QED
    BY <1>8, <1>9

LEMMA TalkStarts == talk = <<>> => TalkInv
<1>1. Len(<<>>) = 0 /\ <<>> = [p \in 1..0 |-> <<>>[p]]
    OBVIOUS
<1> QED
    BY <1>1 DEF TalkInv, Chatting, Conversing, Listed

LEMMA TalkStep == AudioAssumption /\ TalkInv /\ [Say]_talk => TalkInv'
<1> SUFFICES ASSUME AudioAssumption, TalkInv, Say PROVE TalkInv'
    BY DEF TalkInv
<1> DEFINE N == Len(talk)
<1>1. PICK m \in MayFollow(talk, N + 1) : talk' = Append(talk, m)
    BY DEF Say
<1>2. /\ N \in Nat /\ Listed(talk) /\ DOMAIN talk = 1..N
      /\ \A k \in 1..N : Sayable(talk[k]) /\ Listed(talk[k].calls)
      /\ \A k \in 1..N : talk[k].role = "tool" => talk[k].calls = <<>>
    BY DEF TalkInv, Chatting, Conversing, Listed
<1>3. /\ Sayable(m) /\ Listed(m.calls)
      /\ m.role = "tool" => m.calls = <<>>
      /\ \A k \in Unanswered(talk) : m.role = "tool" /\ m.answers = talk[k].calls[N + 1 - k]
  <2>1. PICK n : n = Len(talk) + 1
      OBVIOUS
  <2>2. /\ Sayable(m) /\ Listed(m.calls)
        /\ m.role = "tool" => m.calls = <<>>
        /\ \A k \in Unanswered(talk) : m.role = "tool" /\ m.answers = talk[k].calls[n - k]
      BY <1>1, <2>1, FollowersSayable DEF TalkInv
  <2>3. ASSUME NEW k \in Unanswered(talk) PROVE m.answers = talk[k].calls[N + 1 - k]
    <3>1. m.answers = talk[k].calls[n - k]
        BY <2>2
    <3>2. n - k = N + 1 - k
      <4>1. k \in Int /\ N \in Int /\ n = N + 1
          BY <1>2, <2>1 DEF Unanswered
      <4> HIDE DEF N
      <4> QED
          BY <4>1
    <3> QED
        BY <3>1, <3>2
  <2> QED
      BY <2>2, <2>3
<1> PICK new : new = talk'
    OBVIOUS
<1>4. /\ Listed(new) /\ Len(new) = N + 1 /\ new[N + 1] = m
      /\ \A k \in 1..N : new[k] = talk[k]
    BY <1>1, <1>2, Appended
<1>5. \A k \in 1..(N + 1) : k \in 1..N \/ k = N + 1
    BY <1>2
<1>6. \A k \in 1..(N + 1) :
         Sayable(new[k]) /\ Listed(new[k].calls) /\ (new[k].role = "tool" => new[k].calls = <<>>)
    BY <1>2, <1>3, <1>4, <1>5
<1>7. ASSUME NEW k \in 1..(N + 1), NEW i \in 1..Len(new[k].calls), k + i <= N + 1
      PROVE  new[k + i].role = "tool" /\ new[k + i].answers = new[k].calls[i]
  <2>1. i \in Int /\ i >= 1 /\ Len(new[k].calls) \in Nat /\ i <= Len(new[k].calls)
      BY <1>6 DEF Listed
  <2>2. k \in 1..N /\ new[k] = talk[k]
      BY <1>2, <1>4, <1>7, <2>1
  <2>3. CASE k + i <= N
    <3>1. k + i \in 1..N
        BY <1>2, <2>1, <2>2, <2>3
    <3>2. talk[k + i].role = "tool" /\ talk[k + i].answers = talk[k].calls[i]
        BY <2>2, <2>3 DEF TalkInv, Chatting, Conversing
    <3> QED
        BY <1>4, <2>2, <3>1, <3>2
  <2>4. CASE k + i = N + 1
    <3>1. k + Len(talk[k].calls) > N
        BY <1>2, <2>1, <2>2, <2>4
    <3>2. k \in Unanswered(talk)
        BY <1>2, <2>2, <3>1 DEF Unanswered
    <3>3. N + 1 - k = i
        BY <1>2, <2>1, <2>2, <2>4
    <3> QED
        BY <1>3, <1>4, <2>2, <2>4, <3>2, <3>3
  <2> QED
      BY <1>2, <1>7, <2>1, <2>2, <2>3, <2>4
<1>8. Chatting(new)
    BY <1>4, <1>6, <1>7 DEF Chatting, Conversing
<1> QED
    BY <1>8 DEF TalkInv

LEMMA TalkMoves == [ServicesNext]_<<family, services, vars>> => [Say]_talk
  BY DEF ServicesNext, Poll, Store, Trace, Serve, Graph, Browse, Remember, Talk, services

LEMMA TalkWhole == TalkInv => ListIsWhole
<1> SUFFICES ASSUME TalkInv PROVE ListIsWhole
    OBVIOUS
<1>1. Conversing(talk) /\ DOMAIN talk = 1..Len(talk)
    BY DEF TalkInv, Chatting, Conversing, Listed
<1>2. PICK list : list = BuildMessages(talk).list
    OBVIOUS
<1>3. /\ \A k \in DOMAIN list : list[k].role = "system" => k = 1
      /\ HeldIn(list) = HeldBy(talk, Len(talk))
      /\ \A k \in DOMAIN list : \A i \in 1..Len(list[k].calls) :
            k + i \in DOMAIN list => list[k + i].answers = list[k].calls[i]
      /\ \A k \in DOMAIN list : DOMAIN list[k].calls = 1..Len(list[k].calls)
    BY <1>1, <1>2, WholeList
<1>4. FlattenSeq([k \in DOMAIN list |-> Held(list[k].content)])
        = FlattenSeq([k \in DOMAIN talk |-> Contents(talk[k])])
    BY <1>1, <1>3 DEF HeldIn, HeldBy
<1>5. \A k \in DOMAIN list : \A i \in DOMAIN list[k].calls :
         k + i \in DOMAIN list => list[k + i].answers = list[k].calls[i]
    BY <1>3
<1> QED
    BY <1>2, <1>3, <1>4, <1>5 DEF ListIsWhole

\* However a conversation goes, what is sent to the provider has one system item
\* at most, holds all that the messages hold once and in their order, and
\* answers each call right after it (openai_compatible.py, build_messages).
THEOREM SendsAllOnce == ServicesSpec => []ListIsWhole
<1>1. TalkInv => ListIsWhole
    BY TalkWhole
<1>2. ServicesInit => TalkInv
    BY TalkStarts DEF ServicesInit
<1>3. AudioAssumption
    BY PartsAssumption
<1>4. TalkInv /\ [ServicesNext]_<<family, services, vars>> => TalkInv'
    BY <1>3, TalkStep, TalkMoves
<1> QED
    BY <1>1, <1>2, <1>4, PTL DEF ServicesSpec

=============================================================================
