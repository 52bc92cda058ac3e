--------------------------- MODULE UpdateDelivery ---------------------------
(***************************************************************************)
(* How one Telegram update becomes one answered turn: the webhook          *)
(* (TelegramWebhook._admit), the worker (TelegramUpdateWorker.run) and the *)
(* platform that runs workers in containers (deploy/modal/control_app.py), *)
(* around the queue of UpdateInbox.                                        *)
(*                                                                         *)
(* Telegram delivers an update until it gets a 200.  A 200 may be lost and *)
(* a request may fail after it has written the row, so an update can be    *)
(* delivered again; MaxLosses bounds how often.  A container may be        *)
(* preempted (Crash) or be killed at its timeout (Kill), a handler may     *)
(* raise and a hand-off fail; MaxFaults bounds those no clock brings about.*)
(***************************************************************************)
EXTENDS UpdateInbox

CONSTANTS
  Worker,         \* containers of process_telegram_update (max_containers)
  MAX_ATTEMPTS,   \* claims of one update before the queue gives up on it
  DrainTerm,      \* drain_seconds
  WorkerTimeout,  \* WORKER_TIMEOUT_SECONDS
  TurnLimit,      \* longest a handler runs
  MaxLosses,      \* bound: lost 200s and webhook requests that fail
  MaxFaults       \* bound: crashes, raising handlers and failed hand-offs

ASSUME DeliveryAssumption ==
  /\ MAX_ATTEMPTS \in Nat \ {0}
  /\ DrainTerm \in Nat
  /\ WorkerTimeout \in Nat \ {0}
  /\ TurnLimit \in Nat
  /\ MaxLosses \in Nat
  /\ MaxFaults \in Nat

VARIABLES
  web,         \* where the webhook's request for an update stands
  acked,       \* Telegram has seen a 200 for the update
  losses,      \* lost 200s and failed requests so far
  calls,       \* spawned invocations that wait for a container
  worker,      \* the containers
  faults,      \* faults so far
  handled      \* history: how often the handler was started on an update

deliveryVars == <<web, acked, losses, calls, worker, faults, handled>>
vars == <<inboxVars, deliveryVars>>

----------------------------------------------------------------------------
(* A container: pc says what it does next; woken is the id it was spawned  *)
(* with and try counts the platform's re-invocations; job and lease are    *)
(* the InboxJob it holds; age is its running time, began the age at which  *)
(* the handler started and drainUntil the deadline taken after the claim.  *)

Phase == {"claim", "handling", "complete", "retry", "abandon", "next"}
Try == {0, 1}

Idle == [pc |-> "idle"]

Container ==
  [pc : Phase, woken : Update, try : Try, job : Update, lease : Nat,
   age : Nat, began : Nat, drainUntil : Nat]

Active(w) == worker[w].pc # "idle"
Holding(w) == worker[w].pc \in Phase \ {"claim", "next"}
Holds(w, u) == Holding(w) /\ worker[w].job = u /\ worker[w].lease = token[u]

TypeOK ==
  /\ InboxTypeOK
  /\ web \in [Update -> {"idle", "check", "spawn"}]
  /\ acked \in [Update -> BOOLEAN]
  /\ losses \in Nat
  /\ calls \in [Update -> [Try -> Nat]]
  /\ worker \in [Worker -> Container \cup {Idle}]
  /\ faults \in Nat
  /\ handled \in [Update -> Nat]

Init ==
  /\ InboxInit
  /\ web = [u \in Update |-> "idle"]
  /\ acked = [u \in Update |-> FALSE]
  /\ losses = 0
  /\ calls = [u \in Update |-> [n \in Try |-> 0]]
  /\ worker = [w \in Worker |-> Idle]
  /\ faults = 0
  /\ handled = [u \in Update |-> 0]

----------------------------------------------------------------------------
(* The webhook.                                                            *)

(* A 200 reaches Telegram, or is lost on the way. *)
Respond(u) ==
  \/ acked' = [acked EXCEPT ![u] = TRUE] /\ UNCHANGED losses
  \/ losses < MaxLosses /\ losses' = losses + 1 /\ UNCHANGED acked

(* The first statement of enqueue, and the decision it leads to: insert,   *)
(* or read the stored row.  A row that is done, or running under a live    *)
(* lease, needs no worker and the answer is "already accepted".            *)
Receive(u) ==
  /\ web[u] = "idle" /\ ~acked[u]
  /\ \/ Insert(u)
     \/ state[u] # "absent" /\ UNCHANGED inboxVars
  /\ \/ /\ state[u] = "absent" \/ Unfinished(u)
        /\ web' = [web EXCEPT ![u] = IF u \in Alone THEN "spawn" ELSE "check"]
        /\ UNCHANGED <<acked, losses>>
     \/ /\ state[u] # "absent" /\ ~Unfinished(u)
        /\ Respond(u)
        /\ UNCHANGED web
  /\ UNCHANGED <<calls, worker, faults, handled>>

(* enqueue's last statement: no worker for a conversation that has one. *)
CheckBusy(u) ==
  /\ web[u] = "check"
  /\ \/ Busy(KeyOf[u]) /\ web' = [web EXCEPT ![u] = "idle"] /\ Respond(u)
     \/ ~Busy(KeyOf[u]) /\ web' = [web EXCEPT ![u] = "spawn"] /\ UNCHANGED <<acked, losses>>
  /\ UNCHANGED <<inboxVars, calls, worker, faults, handled>>

Spawn(u) ==
  /\ web[u] = "spawn"
  /\ web' = [web EXCEPT ![u] = "idle"]
  /\ calls' = [calls EXCEPT ![u][0] = @ + 1]
  /\ Respond(u)
  /\ UNCHANGED <<inboxVars, worker, faults, handled>>

(* The spawn raises (503), or the request dies after its insert: Telegram  *)
(* sees no 200 and delivers again.                                         *)
NotStarted(u) ==
  /\ web[u] # "idle" /\ losses < MaxLosses
  /\ losses' = losses + 1
  /\ web' = [web EXCEPT ![u] = "idle"]
  /\ UNCHANGED <<inboxVars, acked, calls, worker, faults, handled>>

----------------------------------------------------------------------------
(* The worker.                                                             *)

Start(w) ==
  /\ ~Active(w)
  /\ \E u \in Update, n \in Try :
       /\ calls[u][n] > 0
       /\ calls' = [calls EXCEPT ![u][n] = @ - 1]
       /\ worker' = [worker EXCEPT ![w] =
            [pc |-> "claim", woken |-> u, try |-> n, job |-> u, lease |-> NoToken,
             age |-> 0, began |-> 0, drainUntil |-> 0]]
  /\ UNCHANGED <<inboxVars, web, acked, losses, faults, handled>>

(* Mutated: attempts are not looked at after a claim. *)
TakeUncounted(w, u, deadline) ==
  /\ LeaseRow(u)
  /\ worker' = [worker EXCEPT
       ![w].pc = "handling", ![w].job = u, ![w].lease = FreshToken(u),
       ![w].began = worker[w].age, ![w].drainUntil = deadline]
  /\ handled' = [handled EXCEPT ![u] = @ + 1]

(* Container w goes on with row u, which it leases.  An update claimed too *)
(* often is abandoned without being handled (_give_up).                    *)
TooOften(u) == attempts[u] + 1 > MAX_ATTEMPTS
Take(w, u, deadline) ==
  /\ LeaseRow(u)
  /\ worker' = [worker EXCEPT
       ![w].pc = IF TooOften(u) THEN "abandon" ELSE "handling",
       ![w].job = u, ![w].lease = FreshToken(u),
       ![w].began = worker[w].age, ![w].drainUntil = deadline]
  /\ handled' = [handled EXCEPT ![u] = IF TooOften(u) THEN @ ELSE @ + 1]

Exit(w) == worker' = [worker EXCEPT ![w] = Idle]

Claim(w) ==
  /\ worker[w].pc = "claim"
  /\ \E u \in Update :
       /\ Claimable(worker[w].woken, u)
       /\ Take(w, u, worker[w].age + DrainTerm)
  /\ UNCHANGED <<web, acked, losses, calls, faults>>

ClaimNothing(w) ==
  /\ worker[w].pc = "claim"
  /\ \A u \in Update : ~Claimable(worker[w].woken, u)
  /\ Exit(w)
  /\ UNCHANGED <<inboxVars, web, acked, losses, calls, faults, handled>>

HandlerReturns(w) ==
  /\ worker[w].pc = "handling"
  /\ worker' = [worker EXCEPT ![w].pc = "complete"]
  /\ UNCHANGED <<inboxVars, web, acked, losses, calls, faults, handled>>

HandlerRaises(w) ==
  /\ worker[w].pc = "handling" /\ faults < MaxFaults
  /\ worker' = [worker EXCEPT ![w].pc =
       IF worker[w].lease >= MAX_ATTEMPTS THEN "abandon" ELSE "retry"]
  /\ faults' = faults + 1
  /\ UNCHANGED <<inboxVars, web, acked, losses, calls, handled>>

(* complete, and abandon (after a last failed attempt, or in _give_up). *)
Settle(w) ==
  /\ worker[w].pc \in {"complete", "abandon"}
  /\ Finish(worker[w].job, worker[w].lease, "done")
  /\ worker' = [worker EXCEPT ![w].pc = "next"]
  /\ UNCHANGED <<web, acked, losses, calls, faults, handled>>

(* The platform invokes a failed or timed-out invocation once more. *)
Reinvoke(w) ==
  calls' = IF worker[w].try = 0 THEN [calls EXCEPT ![worker[w].woken][1] = @ + 1]
           ELSE calls

(* retry, then the exception leaves run: the rest is not drained. *)
Retry(w) ==
  /\ worker[w].pc = "retry"
  /\ Finish(worker[w].job, worker[w].lease, "pending")
  /\ Exit(w)
  /\ Reinvoke(w)
  /\ UNCHANGED <<web, acked, losses, faults, handled>>

(* Mutated: at the deadline the container leaves the rest where it is. *)
LeaveAtDeadline(w) ==
  /\ worker[w].pc = "next"
  /\ \/ worker[w].job \in Alone
     \/ worker[w].age >= worker[w].drainUntil
     \/ \A u \in Update : ~NextOf(KeyOf[worker[w].job], u)
  /\ Exit(w)
  /\ UNCHANGED <<inboxVars, web, acked, losses, calls, faults, handled>>

(* The end of run's loop: leave, hand the rest over, or drain on. *)
Leave(w) ==
  /\ worker[w].pc = "next"
  /\ \/ worker[w].job \in Alone
     \/ /\ worker[w].age < worker[w].drainUntil
        /\ \A u \in Update : ~NextOf(KeyOf[worker[w].job], u)
  /\ Exit(w)
  /\ UNCHANGED <<inboxVars, web, acked, losses, calls, faults, handled>>

HandOff(w) ==
  /\ worker[w].pc = "next"
  /\ worker[w].job \notin Alone
  /\ worker[w].age >= worker[w].drainUntil
  /\ \/ calls' = [calls EXCEPT ![worker[w].job][0] = @ + 1] /\ UNCHANGED faults
     \/ faults < MaxFaults /\ faults' = faults + 1 /\ UNCHANGED calls
  /\ Exit(w)
  /\ UNCHANGED <<inboxVars, web, acked, losses, handled>>

Drain(w) ==
  /\ worker[w].pc = "next"
  /\ worker[w].job \notin Alone
  /\ worker[w].age < worker[w].drainUntil
  /\ \E u \in Update :
       /\ NextOf(KeyOf[worker[w].job], u)
       /\ Take(w, u, worker[w].drainUntil)
  /\ UNCHANGED <<web, acked, losses, calls, faults>>

----------------------------------------------------------------------------
(* The platform.                                                           *)

(* A preempted container's input is scheduled again as it was. *)
Crash(w) ==
  /\ Active(w) /\ faults < MaxFaults
  /\ faults' = faults + 1
  /\ calls' = [calls EXCEPT ![worker[w].woken][worker[w].try] = @ + 1]
  /\ Exit(w)
  /\ UNCHANGED <<inboxVars, web, acked, losses, handled>>

TimedOut(w) == Active(w) /\ worker[w].age >= WorkerTimeout

Kill(w) ==
  /\ TimedOut(w)
  /\ Exit(w)
  /\ Reinvoke(w)
  /\ UNCHANGED <<inboxVars, web, acked, losses, faults, handled>>

(* Statements are short beside a lease: time passes only while the active  *)
(* containers are in their handlers, within TurnLimit and the timeout.     *)
Tick ==
  /\ \A w \in Worker : Active(w) =>
       /\ worker[w].pc = "handling"
       /\ worker[w].age - worker[w].began < TurnLimit
       /\ ~TimedOut(w)
  /\ \/ \E w \in Worker : Active(w)
     \/ \E u \in Update : remaining[u] > 0
  /\ PassLeaseTime
  /\ worker' = [w \in Worker |->
       IF Active(w) THEN [worker[w] EXCEPT !.age = @ + 1] ELSE worker[w]]
  /\ UNCHANGED <<web, acked, losses, calls, faults, handled>>

----------------------------------------------------------------------------
WebStep(u) == Receive(u) \/ CheckBusy(u) \/ Spawn(u) \/ NotStarted(u)

WorkerStep(w) ==
  \/ Start(w) \/ Claim(w) \/ ClaimNothing(w)
  \/ HandlerReturns(w) \/ HandlerRaises(w)
  \/ Settle(w) \/ Retry(w) \/ Leave(w) \/ HandOff(w) \/ Drain(w)
  \/ Crash(w) \/ Kill(w)

Next ==
  \/ \E u \in Update : WebStep(u)
  \/ \E w \in Worker : WorkerStep(w)
  \/ Tick

Spec == Init /\ [][Next]_vars

(* Telegram redelivers what was not acknowledged, requests and spawned     *)
(* invocations get to run, statements return, handlers end within their    *)
(* own limit and the platform's (TurnLimit, WorkerTimeout), and time       *)
(* passes.  Nothing obliges a fault to happen or a 200 to be lost.         *)
Fairness ==
  /\ \A u \in Update : WF_vars(Receive(u)) /\ WF_vars(CheckBusy(u)) /\ WF_vars(Spawn(u))
  /\ \A w \in Worker :
       /\ WF_vars(Start(w))
       /\ WF_vars(Claim(w)) /\ WF_vars(ClaimNothing(w))
       /\ WF_vars(HandlerReturns(w))
       /\ WF_vars(Settle(w)) /\ WF_vars(Retry(w))
       /\ WF_vars(Leave(w)) /\ WF_vars(HandOff(w)) /\ WF_vars(Drain(w))
       /\ WF_vars(Kill(w))
  /\ WF_vars(Tick)

FairSpec == Spec /\ Fairness

----------------------------------------------------------------------------
(* Properties.                                                             *)

(* At most one container holds a row's current lease.  A container whose   *)
(* lease ran out while its handler worked on keeps its job, and another    *)
(* may have the row by then: _finish's WHERE lease_token decides whose     *)
(* result counts, and it must never be both.                               *)
HolderUnique ==
  \A w1, w2 \in Worker : \A u \in Update :
    Holds(w1, u) /\ Holds(w2, u) => w1 = w2

(* Leases exclude one another both ways: one live lease in a conversation  *)
(* (_claim_conversation), one container that may settle a row (_finish).   *)
LeasesAreExclusive == OneLiveLease /\ HolderUnique

(* A leased row is settled, or put back, only by the container that holds  *)
(* its lease, and is leased again only once the lease has run out.         *)
LeaseIsRespected ==
  [][\A u \in Update : state[u] = "running" =>
       /\ state'[u] # "running" =>
            \E w \in Worker : Holds(w, u) /\ ~(worker'[w] = worker[w])
       /\ attempts'[u] # attempts[u] => remaining[u] = 0]_vars

(* An answered or abandoned update stays so: no redelivery, re-invocation  *)
(* or late container brings it back.                                       *)
DoneIsFinal ==
  [][\A u \in Update : state[u] = "done" => state'[u] = "done"]_vars

(* The handler is started at most MAX_ATTEMPTS times on one update, however *)
(* often containers die on it (webhook.py: "what bounds retrying it").     *)
HandlerRunsBounded == \A u \in Update : handled[u] <= MAX_ATTEMPTS

(* The queue is a line per conversation, served one update at a time and   *)
(* earliest first (webhook.py: "answered in order by one warm container"). *)
Queue == INSTANCE ConversationQueue WITH
  waiting <- {u \in Update : Unfinished(u)},
  serving <- {u \in Update : Live(u)},
  finished <- {u \in Update : state[u] = "done"}
ServedInOrder == Queue!Spec

(* An update accepted into the table is eventually answered or given up on.*)
EveryUpdateSettles ==
  \A u \in Update : state[u] = "pending" ~> state[u] = "done"

(* webhook.py:51-54: a lease is "never longer" than the container's life,  *)
(* so "a container killed at its timeout leaves a lease that expires with  *)
(* it".                                                                    *)
LeaseDiesWithItsContainer ==
  \A w \in Worker, u \in Update : TimedOut(w) /\ Holds(w, u) => remaining[u] = 0

(* inbox.py:245-247: a suppressed spawn "changes what is started, never    *)
(* what is answered: ... the worker that holds the lease drains it".  Said *)
(* of the update whose request found the conversation busy.                *)
SuppressedSpawnIsDrained ==
  \A u \in Update :
    (web[u] = "check" /\ state[u] = "pending" /\ Busy(KeyOf[u])) ~> state[u] = "done"
============================================================================
