------------------------ MODULE UpdateDeliveryProofs ------------------------
(***************************************************************************)
(* Theorems of UpdateDelivery, for any updates, conversations, containers, *)
(* limits and fault bounds.  The inductive invariant adds to the types how *)
(* tokens and attempts hang together: a running row carries the token of   *)
(* its last attempt, every container in hand of a row holds the token of   *)
(* one of its attempts, and no two hold the token of the same one.         *)
(***************************************************************************)
EXTENDS UpdateDelivery, TLAPS

TokenOfRow ==
  \A u \in Update :
    /\ state[u] = "running" => token[u] = attempts[u] /\ attempts[u] > 0
    /\ state[u] # "running" => token[u] = NoToken

LeasesIssued ==
  \A w \in Worker : Holding(w) =>
    worker[w].lease > 0 /\ worker[w].lease <= attempts[worker[w].job]

LeasesDistinct ==
  \A w1, w2 \in Worker :
    /\ Holding(w1) /\ Holding(w2)
    /\ worker[w1].job = worker[w2].job /\ worker[w1].lease = worker[w2].lease
    => w1 = w2

HandledCounted == \A u \in Update : handled[u] <= attempts[u]

IInv ==
  /\ TypeOK
  /\ OneLiveLease
  /\ TokenOfRow
  /\ LeasesIssued
  /\ LeasesDistinct
  /\ HandledCounted
  /\ HandlerRunsBounded

----------------------------------------------------------------------------
(* The rows.                                                               *)

LEMMA InitInv == Init => IInv
  <1> SUFFICES ASSUME Init PROVE IInv
    OBVIOUS
  <1> USE InboxAssumption, DeliveryAssumption DEF Init, InboxInit
  <1>1. TypeOK
    BY DEF TypeOK, InboxTypeOK, Try, NoToken
  <1>2. OneLiveLease
    BY DEF OneLiveLease, Live, InBand
  <1>3. TokenOfRow /\ LeasesIssued /\ LeasesDistinct
    BY DEF TokenOfRow, LeasesIssued, LeasesDistinct, Holding, Phase, Idle, NoToken
  <1>4. HandledCounted /\ HandlerRunsBounded
    BY DEF HandledCounted, HandlerRunsBounded
  <1> QED
    BY <1>1, <1>2, <1>3, <1>4 DEF IInv

(* What the worker's step may do besides the rows: nothing of it matters to *)
(* the invariant as long as no container comes by a job.                    *)
NoNewJob ==
  /\ worker' \in [Worker -> Container \cup {Idle}]
  /\ \A w \in Worker : Holding(w)' =>
       /\ Holding(w)
       /\ worker'[w].job = worker[w].job /\ worker'[w].lease = worker[w].lease

OthersTyped ==
  /\ web' \in [Update -> {"idle", "check", "spawn"}]
  /\ acked' \in [Update -> BOOLEAN]
  /\ losses' \in Nat
  /\ calls' \in [Update -> [Try -> Nat]]
  /\ faults' \in Nat

(* A row that nobody leases: insert, settle, put back, time, or no change. *)
RowsKept ==
  /\ state' \in [Update -> {"absent", "pending", "running", "done"}]
  /\ token' \in [Update -> Nat]
  /\ remaining' \in [Update -> 0..LeaseTerm]
  /\ attempts' = attempts
  /\ \A u \in Update :
       /\ Live(u)' => Live(u)
       /\ state'[u] = "running" => state[u] = "running" /\ token'[u] = token[u]
       /\ state'[u] # "running" => token'[u] = NoToken

LEMMA KeptInv ==
  ASSUME IInv, RowsKept, NoNewJob, OthersTyped, handled' = handled
  PROVE  IInv'
  <1>1. TypeOK'
    BY DEF IInv, TypeOK, InboxTypeOK, RowsKept, NoNewJob, OthersTyped
  <1>2. OneLiveLease'
    BY DEF IInv, OneLiveLease, RowsKept, InBand
  <1>3. TokenOfRow'
    BY DEF IInv, TokenOfRow, RowsKept
  <1>4. LeasesIssued'
    BY DEF IInv, LeasesIssued, RowsKept, NoNewJob
  <1>5. LeasesDistinct'
    BY DEF IInv, LeasesDistinct, NoNewJob
  <1>6. HandledCounted' /\ HandlerRunsBounded'
    BY DEF IInv, HandledCounted, HandlerRunsBounded, RowsKept
  <1> QED
    BY <1>1, <1>2, <1>3, <1>4, <1>5, <1>6 DEF IInv

(* The statements other than _lease keep the rows. *)
LEMMA UnchangedKeeps ==
  ASSUME IInv, UNCHANGED inboxVars PROVE RowsKept
  BY DEF IInv, TypeOK, InboxTypeOK, TokenOfRow, inboxVars, RowsKept, Live

LEMMA InsertKeeps ==
  ASSUME IInv, NEW u \in Update, Insert(u) PROVE RowsKept
  BY DEF IInv, TypeOK, InboxTypeOK, TokenOfRow, Insert, RowsKept, Live

LEMMA FinishKeeps ==
  ASSUME IInv, NEW u \in Update, NEW t \in Nat, NEW o \in {"pending", "done"}, Finish(u, t, o)
  PROVE  RowsKept
  <1>1. CASE token[u] = t
    BY <1>1, InboxAssumption
    DEF IInv, TypeOK, InboxTypeOK, TokenOfRow, Finish, RowsKept, Live, NoToken
  <1>2. CASE token[u] # t
    BY <1>2, UnchangedKeeps DEF Finish
  <1> QED
    BY <1>1, <1>2

LEMMA PassLeaseTimeKeeps ==
  ASSUME IInv, PassLeaseTime PROVE RowsKept
  <1> USE InboxAssumption DEF IInv, TypeOK, InboxTypeOK, PassLeaseTime
  <1>1. remaining' \in [Update -> 0..LeaseTerm]
    OBVIOUS
  <1>2. \A u \in Update : remaining'[u] > 0 => remaining[u] > 0
    OBVIOUS
  <1> QED
    BY <1>1, <1>2 DEF TokenOfRow, RowsKept, Live

----------------------------------------------------------------------------
(* A lease.                                                                *)

LEMMA TakeInv ==
  ASSUME IInv, NEW w \in Worker, NEW u \in Update, NEW d \in Nat,
         worker[w].pc \in {"claim", "next"},
         u \notin Alone => ~Busy(KeyOf[u]),
         Take(w, u, d), UNCHANGED <<web, acked, losses, calls, faults>>
  PROVE  IInv'
  <1> USE InboxAssumption, DeliveryAssumption
  <1> USE DEF IInv
  <1>w. worker[w] \in Container /\ ~Holding(w)
    BY DEF TypeOK, Container, Idle, Holding
  <1>a. worker'[w] \in Container /\ worker'[w].job = u /\ worker'[w].lease = attempts[u] + 1
    <2>1. worker'[w] = [worker[w] EXCEPT
            !.pc = IF TooOften(u) THEN "abandon" ELSE "handling",
            !.job = u, !.lease = attempts[u] + 1, !.began = worker[w].age,
            !.drainUntil = d]
      BY DEF Take, TypeOK, FreshToken
    <2>2. attempts[u] + 1 \in Nat
      BY DEF TypeOK, InboxTypeOK
    <2> QED
      BY <1>w, <2>1, <2>2 DEF Container, Phase
  <1>b. \A v \in Worker \ {w} : worker'[v] = worker[v]
    BY DEF Take, TypeOK
  <1>r. /\ state' = [state EXCEPT ![u] = "running"]
        /\ token' = [token EXCEPT ![u] = attempts[u] + 1]
        /\ remaining' = [remaining EXCEPT ![u] = LeaseTerm]
        /\ attempts' = [attempts EXCEPT ![u] = attempts[u] + 1]
    BY DEF Take, LeaseRow, FreshToken, TypeOK, InboxTypeOK
  <1>1. TypeOK'
    <2>1. InboxTypeOK'
      BY <1>r DEF TypeOK, InboxTypeOK
    <2>2. worker' \in [Worker -> Container \cup {Idle}]
      BY <1>a, <1>b DEF Take, TypeOK
    <2>3. handled' \in [Update -> Nat]
      BY DEF Take, TypeOK
    <2> QED
      BY <2>1, <2>2, <2>3 DEF TypeOK
  <1>2. OneLiveLease'
    <2> SUFFICES ASSUME NEW k \in Conversation, NEW a \in InBand(k), NEW b \in InBand(k),
                        Live(a)', Live(b)'
                 PROVE  a = b
      BY DEF OneLiveLease, InBand
    <2>1. \A v \in Update \ {u} : Live(v)' => Live(v)
      BY <1>r DEF Live, TypeOK, InboxTypeOK
    <2>2. u \in InBand(k) => \A v \in InBand(k) : ~Live(v)
      BY DEF Busy, InBand
    <2> QED
      BY <2>1, <2>2 DEF OneLiveLease, InBand
  <1>3. TokenOfRow'
    BY <1>r DEF TokenOfRow, TypeOK, InboxTypeOK
  <1>4. LeasesIssued'
    <2> SUFFICES ASSUME NEW v \in Worker, Holding(v)'
                 PROVE  worker'[v].lease > 0 /\ worker'[v].lease <= attempts'[worker'[v].job]
      BY DEF LeasesIssued
    <2>1. CASE v = w
      BY <2>1, <1>a, <1>r DEF TypeOK, InboxTypeOK
    <2>2. CASE v # w
      <3>1. worker[v] \in Container /\ Holding(v)
        BY <2>2, <1>b DEF Holding, TypeOK, Idle, Phase
      <3>2. worker[v].job \in Update /\ worker[v].lease \in Nat
        BY <3>1 DEF Container
      <3> QED
        BY <3>1, <3>2, <2>2, <1>b, <1>r DEF LeasesIssued, TypeOK, InboxTypeOK
    <2> QED
      BY <2>1, <2>2
  <1>5. LeasesDistinct'
    <2>1. \A v \in Worker \ {w} : Holding(v)' => Holding(v)
      BY <1>b DEF Holding
    <2>2. \A v \in Worker \ {w} : Holding(v) /\ worker[v].job = u => worker[v].lease # attempts[u] + 1
      BY DEF LeasesIssued, TypeOK, InboxTypeOK
    <2> QED
      BY <2>1, <2>2, <1>a, <1>b DEF LeasesDistinct
  <1>6. HandledCounted' /\ HandlerRunsBounded'
    <2>1. \A v \in Update \ {u} : handled'[v] = handled[v] /\ attempts'[v] = attempts[v]
      BY <1>r DEF Take, TypeOK, InboxTypeOK
    <2>2. CASE TooOften(u)
      BY <2>1, <2>2, <1>r DEF Take, TypeOK, InboxTypeOK, HandledCounted, HandlerRunsBounded
    <2>3. CASE ~TooOften(u)
      <3>1. handled'[u] = handled[u] + 1 /\ attempts'[u] = attempts[u] + 1
        BY <2>3, <1>r DEF Take, TypeOK, InboxTypeOK
      <3>2. attempts[u] + 1 <= MAX_ATTEMPTS
        BY <2>3 DEF TooOften, TypeOK, InboxTypeOK
      <3> QED
        BY <3>1, <3>2, <2>1 DEF TypeOK, InboxTypeOK, HandledCounted, HandlerRunsBounded
    <2> QED
      BY <2>2, <2>3
  <1> QED
    BY <1>1, <1>2, <1>3, <1>4, <1>5, <1>6
----------------------------------------------------------------------------
(* Every step.                                                             *)

LEMMA ContainerChange ==
  ASSUME IInv, NEW w \in Worker, NEW p \in Phase, Active(w),
         p \in {"complete", "abandon", "retry"} => Holding(w),
         p # "handling",
         worker' = [worker EXCEPT ![w].pc = p]
  PROVE  NoNewJob
  <1>1. worker[w] \in Container
    BY DEF IInv, TypeOK, Active, Idle
  <1>2. worker'[w] = [worker[w] EXCEPT !.pc = p]
    BY DEF IInv, TypeOK
  <1>3. /\ worker'[w] \in Container
        /\ worker'[w].job = worker[w].job /\ worker'[w].lease = worker[w].lease
        /\ worker'[w].pc = p
    BY <1>1, <1>2 DEF Container
  <1>4. \A v \in Worker \ {w} : worker'[v] = worker[v]
    BY DEF IInv, TypeOK
  <1>5. worker' \in [Worker -> Container \cup {Idle}]
    BY <1>3, <1>4 DEF IInv, TypeOK
  <1> QED
    BY <1>3, <1>4, <1>5 DEF NoNewJob, Holding, Phase

LEMMA ExitChange ==
  ASSUME IInv, NEW w \in Worker, Exit(w)
  PROVE  NoNewJob
  BY DEF IInv, TypeOK, Exit, NoNewJob, Holding, Phase, Idle

LEMMA SameWorkers ==
  ASSUME IInv, worker' = worker PROVE NoNewJob
  BY DEF IInv, TypeOK, NoNewJob, Holding

LEMMA CallsTyped ==
  ASSUME IInv, NEW u \in Update, NEW n \in Try, NEW c \in Nat,
         calls' = [calls EXCEPT ![u][n] = c]
  PROVE  calls' \in [Update -> [Try -> Nat]]
  BY DEF IInv, TypeOK

LEMMA ReinvokeTyped ==
  ASSUME IInv, NEW w \in Worker, Active(w), Reinvoke(w)
  PROVE  calls' \in [Update -> [Try -> Nat]]
  <1>1. worker[w] \in Container
    BY DEF IInv, TypeOK, Active, Idle
  <1>2. worker[w].woken \in Update
    BY <1>1 DEF Container
  <1> QED
    BY <1>2 DEF IInv, TypeOK, Reinvoke, Try

LEMMA RespondTyped ==
  ASSUME IInv, NEW u \in Update, Respond(u)
  PROVE  acked' \in [Update -> BOOLEAN] /\ losses' \in Nat
  <1>1. acked \in [Update -> BOOLEAN] /\ losses \in Nat
    BY DEF IInv, TypeOK
  <1>2. CASE acked' = [acked EXCEPT ![u] = TRUE] /\ UNCHANGED losses
    BY <1>1, <1>2
  <1>3. CASE losses' = losses + 1 /\ UNCHANGED acked
    BY <1>1, <1>3
  <1> QED
    BY <1>2, <1>3 DEF Respond

LEMMA WebInv ==
  ASSUME IInv, NEW u \in Update, WebStep(u)
  PROVE  IInv'
  <1>1. CASE Receive(u)
    <2>1. RowsKept
      BY <1>1, InsertKeeps, UnchangedKeeps DEF Receive
    <2>2. acked' \in [Update -> BOOLEAN] /\ losses' \in Nat
      BY <1>1, RespondTyped DEF Receive, IInv, TypeOK
    <2>3. OthersTyped
      BY <1>1, <2>2 DEF Receive, OthersTyped, IInv, TypeOK
    <2> QED
      BY <1>1, <2>1, <2>3, SameWorkers, KeptInv DEF Receive
  <1>2. CASE CheckBusy(u)
    <2>1. acked' \in [Update -> BOOLEAN] /\ losses' \in Nat
      BY <1>2, RespondTyped DEF CheckBusy, IInv, TypeOK
    <2>2. OthersTyped
      BY <1>2, <2>1 DEF CheckBusy, OthersTyped, IInv, TypeOK
    <2> QED
      BY <1>2, <2>2, UnchangedKeeps, SameWorkers, KeptInv DEF CheckBusy
  <1>3. CASE Spawn(u)
    <2>1. calls' \in [Update -> [Try -> Nat]]
      BY <1>3 DEF Spawn, IInv, TypeOK, Try
    <2>2. OthersTyped
      BY <1>3, <2>1, RespondTyped DEF Spawn, OthersTyped, IInv, TypeOK
    <2> QED
      BY <1>3, <2>2, UnchangedKeeps, SameWorkers, KeptInv DEF Spawn
  <1>4. CASE NotStarted(u)
    <2>1. OthersTyped
      BY <1>4 DEF NotStarted, OthersTyped, IInv, TypeOK
    <2> QED
      BY <1>4, <2>1, UnchangedKeeps, SameWorkers, KeptInv DEF NotStarted
  <1> QED
    BY <1>1, <1>2, <1>3, <1>4 DEF WebStep

LEMMA TickInv ==
  ASSUME IInv, Tick
  PROVE  IInv'
  <1>1. \A w \in Worker : Active(w) =>
          /\ [worker[w] EXCEPT !.age = @ + 1] \in Container
          /\ [worker[w] EXCEPT !.age = @ + 1].pc = worker[w].pc
          /\ [worker[w] EXCEPT !.age = @ + 1].job = worker[w].job
          /\ [worker[w] EXCEPT !.age = @ + 1].lease = worker[w].lease
    <2> SUFFICES ASSUME NEW w \in Worker, worker[w] \in Container
                 PROVE  /\ [worker[w] EXCEPT !.age = @ + 1] \in Container
                        /\ [worker[w] EXCEPT !.age = @ + 1].pc = worker[w].pc
                        /\ [worker[w] EXCEPT !.age = @ + 1].job = worker[w].job
                        /\ [worker[w] EXCEPT !.age = @ + 1].lease = worker[w].lease
      BY DEF IInv, TypeOK, Active, Idle
    <2> QED
      BY DEF Container
  <1>2. NoNewJob
    BY <1>1 DEF Tick, NoNewJob, Holding, Active, IInv, TypeOK, Phase, Idle
  <1>3. OthersTyped
    BY DEF Tick, OthersTyped, IInv, TypeOK
  <1> QED
    BY <1>2, <1>3, PassLeaseTimeKeeps, KeptInv DEF Tick

LEMMA SettleInv ==
  ASSUME IInv, NEW w \in Worker, Settle(w)
  PROVE  IInv'
  <1>1. Active(w) /\ Holding(w) /\ worker[w] \in Container
    BY DEF Settle, Active, Holding, Phase, Idle, IInv, TypeOK
  <1>2. RowsKept
    BY <1>1, FinishKeeps DEF Settle, Container
  <1>3. NoNewJob
    BY <1>1, ContainerChange DEF Settle, Phase
  <1>4. OthersTyped
    BY DEF Settle, OthersTyped, IInv, TypeOK
  <1> QED
    BY <1>2, <1>3, <1>4, KeptInv DEF Settle

LEMMA RetryInv ==
  ASSUME IInv, NEW w \in Worker, Retry(w)
  PROVE  IInv'
  <1>1. Active(w) /\ worker[w] \in Container
    BY DEF Retry, Active, Idle, IInv, TypeOK
  <1>2. RowsKept
    BY <1>1, FinishKeeps DEF Retry, Container
  <1>3. OthersTyped
    BY <1>1, ReinvokeTyped DEF Retry, OthersTyped, IInv, TypeOK
  <1> QED
    BY <1>2, <1>3, ExitChange, KeptInv DEF Retry

LEMMA ClaimInv ==
  ASSUME IInv, NEW w \in Worker, Claim(w) \/ Drain(w)
  PROVE  IInv'
  <1>1. worker[w] \in Container
    BY DEF Claim, Drain, Idle, IInv, TypeOK
  <1>2. /\ worker[w].age \in Nat /\ worker[w].drainUntil \in Nat /\ DrainTerm \in Nat
        /\ worker[w].age + DrainTerm \in Nat
        /\ worker[w].job \in Update
    BY <1>1, DeliveryAssumption DEF Container
  <1>3. CASE Claim(w)
    <2>1. PICK u \in Update : Claimable(worker[w].woken, u) /\ Take(w, u, worker[w].age + DrainTerm)
      BY <1>3 DEF Claim
    <2>2. u \notin Alone => ~Busy(KeyOf[u])
      BY <2>1 DEF Claimable, NextOf, OldestUnfinished, InBand
    <2> QED
      BY <1>2, <1>3, <2>1, <2>2, TakeInv DEF Claim
  <1>4. CASE Drain(w)
    <2>1. PICK u \in Update :
            NextOf(KeyOf[worker[w].job], u) /\ Take(w, u, worker[w].drainUntil)
      BY <1>4 DEF Drain
    <2>2. u \notin Alone => ~Busy(KeyOf[u])
      BY <2>1 DEF NextOf, OldestUnfinished, InBand
    <2> QED
      BY <1>2, <1>4, <2>1, <2>2, TakeInv DEF Drain
  <1> QED
    BY <1>3, <1>4

LEMMA OtherWorkerInv ==
  ASSUME IInv, NEW w \in Worker,
         \/ Start(w) \/ ClaimNothing(w) \/ HandlerReturns(w) \/ HandlerRaises(w)
         \/ Leave(w) \/ HandOff(w) \/ Crash(w) \/ Kill(w)
  PROVE  IInv'
  <1>1. RowsKept
    BY UnchangedKeeps
    DEF Start, ClaimNothing, HandlerReturns, HandlerRaises, Leave, HandOff, Crash, Kill
  <1>2. handled' = handled
    BY DEF Start, ClaimNothing, HandlerReturns, HandlerRaises, Leave, HandOff, Crash, Kill
  <1>t. /\ UNCHANGED <<web, acked, losses>> /\ faults \in Nat
        /\ calls \in [Update -> [Try -> Nat]]
        /\ Active(w) => /\ worker[w] \in Container
                        /\ worker[w].woken \in Update /\ worker[w].try \in Try
                        /\ worker[w].job \in Update
    BY DEF Start, ClaimNothing, HandlerReturns, HandlerRaises, Leave, HandOff, Crash, Kill,
           IInv, TypeOK, Active, Idle, Container
  <1>3. faults' \in Nat
    BY <1>t
    DEF Start, ClaimNothing, HandlerReturns, HandlerRaises, Leave, HandOff, Crash, Kill
  <1>4. NoNewJob /\ calls' \in [Update -> [Try -> Nat]]
    <2>1. CASE Start(w)
      <3>1. PICK u \in Update, n \in Try :
              /\ calls[u][n] > 0
              /\ calls' = [calls EXCEPT ![u][n] = @ - 1]
              /\ worker' = [worker EXCEPT ![w] =
                   [pc |-> "claim", woken |-> u, try |-> n, job |-> u, lease |-> NoToken,
                    age |-> 0, began |-> 0, drainUntil |-> 0]]
        BY <2>1 DEF Start
      <3>2. calls[u][n] - 1 \in Nat
        BY <3>1, <1>t
      <3>3. calls' \in [Update -> [Try -> Nat]]
        BY <3>1, <3>2, <1>t
      <3>4. worker'[w] \in Container /\ worker'[w].pc = "claim"
        BY <3>1 DEF IInv, TypeOK, Container, Phase, NoToken
      <3>5. \A v \in Worker \ {w} : worker'[v] = worker[v]
        BY <3>1 DEF IInv, TypeOK
      <3>6. worker' \in [Worker -> Container \cup {Idle}]
        BY <3>1, <3>4, <3>5 DEF IInv, TypeOK
      <3> QED
        BY <3>3, <3>4, <3>5, <3>6 DEF NoNewJob, Holding
    <2>2. CASE ClaimNothing(w) \/ Leave(w)
      BY <2>2, ExitChange, <1>t DEF ClaimNothing, Leave
    <2>3. CASE HandlerReturns(w)
      BY <2>3, ContainerChange, <1>t DEF HandlerReturns, Active, Holding, Idle, Phase
    <2>4. CASE HandlerRaises(w)
      BY <2>4, ContainerChange, <1>t DEF HandlerRaises, Active, Holding, Idle, Phase
    <2>5. CASE HandOff(w)
      BY <2>5, ExitChange, <1>t DEF HandOff, Active, Idle, Try
    <2>6. CASE Crash(w)
      BY <2>6, ExitChange, <1>t DEF Crash
    <2>7. CASE Kill(w)
      BY <2>7, ExitChange, ReinvokeTyped DEF Kill, TimedOut
    <2> QED
      BY <2>1, <2>2, <2>3, <2>4, <2>5, <2>6, <2>7
  <1> QED
    BY <1>1, <1>2, <1>t, <1>3, <1>4, KeptInv DEF OthersTyped, IInv, TypeOK

LEMMA StepInv == IInv /\ [Next]_vars => IInv'
  <1> SUFFICES ASSUME IInv, [Next]_vars PROVE IInv'
    OBVIOUS
  <1>1. ASSUME NEW u \in Update, WebStep(u) PROVE IInv'
    BY <1>1, WebInv
  <1>2. ASSUME NEW w \in Worker, WorkerStep(w) PROVE IInv'
    BY <1>2, SettleInv, RetryInv, ClaimInv, OtherWorkerInv DEF WorkerStep
  <1>3. CASE Tick
    BY <1>3, TickInv
  <1>4. CASE UNCHANGED vars
    BY <1>4 DEF vars, deliveryVars, inboxVars, IInv, TypeOK, InboxTypeOK, OneLiveLease, Live,
      TokenOfRow, LeasesIssued, LeasesDistinct, Holding, HandledCounted, HandlerRunsBounded
  <1> QED
    BY <1>1, <1>2, <1>3, <1>4 DEF Next

THEOREM Invariance == Spec => []IInv
  <1> QED
    BY InitInv, StepInv, PTL DEF Spec

----------------------------------------------------------------------------
(* What the invariant says of the properties the runs check.               *)

(* The rows, the webhook and the containers keep to their types: no lease  *)
(* counts below zero, no token or attempt leaves the naturals.             *)
THEOREM TypeCorrect == Spec => []TypeOK
  <1>1. IInv => TypeOK
    BY DEF IInv
  <1> QED
    BY <1>1, Invariance, PTL

(* Two workers never hold live leases on two updates of one conversation,  *)
(* whatever is redelivered, re-invoked or killed (_claim_conversation).    *)
THEOREM LeasesExclude == Spec => []OneLiveLease
  <1>1. IInv => OneLiveLease
    BY DEF IInv
  <1> QED
    BY <1>1, Invariance, PTL

(* A row's current token is in the hand of one container at most, so       *)
(* _finish's WHERE lease_token lets one result count.                      *)
THEOREM OneHolder == Spec => []HolderUnique
  <1>1. IInv => HolderUnique
    BY DEF IInv, LeasesDistinct, HolderUnique, Holds
  <1> QED
    BY <1>1, Invariance, PTL

(* Both, whatever is redelivered, re-invoked, killed or late.              *)
THEOREM LeasesHold == Spec => []LeasesAreExclusive
  <1>1. IInv => LeasesAreExclusive
    BY DEF IInv, LeasesDistinct, LeasesAreExclusive, HolderUnique, Holds
  <1> QED
    BY <1>1, Invariance, PTL

(* The handler is started at most MAX_ATTEMPTS times on an update, however *)
(* many containers die on it and however often it is redelivered.          *)
THEOREM RetriesBounded == Spec => []HandlerRunsBounded
  <1>1. IInv => HandlerRunsBounded
    BY DEF IInv
  <1> QED
    BY <1>1, Invariance, PTL

----------------------------------------------------------------------------
(* What a step does to the rows: one of the statements of UpdateInbox, and *)
(* which container issued it.                                              *)

Leases(u) ==
  /\ Unfinished(u)
  /\ u \notin Alone => OldestUnfinished(u, KeyOf[u]) /\ ~Busy(KeyOf[u])
  /\ LeaseRow(u)

Settles(w, u) ==
  /\ Holding(w) /\ worker[w].job = u
  /\ \E o \in {"pending", "done"} : Finish(u, worker[w].lease, o)
  /\ worker'[w] # worker[w]

LEMMA RowStep ==
  ASSUME IInv, [Next]_vars
  PROVE  \/ UNCHANGED inboxVars
         \/ \E u \in Update : Insert(u) \/ Leases(u)
         \/ \E w \in Worker, u \in Update : Settles(w, u)
         \/ PassLeaseTime
  <1> DEFINE Goal ==
         \/ UNCHANGED inboxVars
         \/ \E u \in Update : Insert(u) \/ Leases(u)
         \/ \E w \in Worker, u \in Update : Settles(w, u)
         \/ PassLeaseTime
  <1>1. ASSUME NEW u \in Update, WebStep(u) PROVE Goal
    BY <1>1 DEF WebStep, Receive, CheckBusy, Spawn, NotStarted
  <1>2. ASSUME NEW w \in Worker, WorkerStep(w) PROVE Goal
    <2>c. Active(w) => worker[w] \in Container
      BY DEF IInv, TypeOK, Active, Idle
    <2>1. CASE Settle(w) \/ Retry(w)
      <3>1. Holding(w) /\ worker[w] \in Container
        BY <2>1, <2>c DEF Settle, Retry, Holding, Phase, Active
      <3>2. worker[w].job \in Update /\ worker[w] \in Container
        BY <3>1 DEF Container
      <3>3. worker'[w].pc # worker[w].pc
        <4>1. CASE Settle(w)
          BY <4>1, <3>1 DEF Settle, IInv, TypeOK, Container
        <4>2. CASE Retry(w)
          BY <4>2, <3>1 DEF Retry, Exit, IInv, TypeOK, Container, Idle
        <4> QED
          BY <2>1, <4>1, <4>2
      <3>4. \E o \in {"pending", "done"} : Finish(worker[w].job, worker[w].lease, o)
        BY <2>1 DEF Settle, Retry
      <3>5. Settles(w, worker[w].job)
        BY <3>1, <3>3, <3>4 DEF Settles
      <3> QED
        BY <3>2, <3>5
    <2>2. CASE Claim(w)
      <3>1. PICK u \in Update : Claimable(worker[w].woken, u) /\ LeaseRow(u)
        BY <2>2 DEF Claim, Take
      <3>2. Leases(u)
        BY <3>1 DEF Claimable, NextOf, OldestUnfinished, InBand, Leases
      <3> QED
        BY <3>2
    <2>3. CASE Drain(w)
      <3>1. PICK u \in Update : NextOf(KeyOf[worker[w].job], u) /\ LeaseRow(u)
        BY <2>3 DEF Drain, Take
      <3>2. Leases(u)
        BY <3>1 DEF NextOf, OldestUnfinished, InBand, Leases
      <3> QED
        BY <3>2
    <2> QED
      BY <1>2, <2>1, <2>2, <2>3
      DEF WorkerStep, Start, ClaimNothing, HandlerReturns, HandlerRaises, Leave, HandOff,
          Crash, Kill
  <1>3. CASE Tick
    BY <1>3 DEF Tick
  <1>4. CASE UNCHANGED vars
    BY <1>4 DEF vars
  <1> QED
    BY <1>1, <1>2, <1>3, <1>4 DEF Next

(* Once done, always done. *)
THEOREM DoneStaysDone == Spec => DoneIsFinal
  <1> DEFINE A == \A u \in Update : state[u] = "done" => state'[u] = "done"
  <1>1. ASSUME IInv, [Next]_vars PROVE A
    <2> SUFFICES ASSUME NEW u \in Update, state[u] = "done" PROVE state'[u] = "done"
      OBVIOUS
    <2>1. CASE UNCHANGED inboxVars
      BY <2>1 DEF inboxVars
    <2>2. ASSUME NEW v \in Update, Insert(v) \/ Leases(v) PROVE state'[u] = "done"
      BY <1>1, <2>2 DEF Insert, Leases, Unfinished, LeaseRow, IInv, TypeOK, InboxTypeOK
    <2>3. ASSUME NEW w \in Worker, NEW v \in Update, Settles(w, v) PROVE state'[u] = "done"
      <3>1. worker[w].lease > 0
        BY <1>1, <2>3 DEF Settles, LeasesIssued, IInv
      <3>2. token[u] = 0
        BY <1>1 DEF IInv, TokenOfRow, NoToken
      <3> QED
        BY <1>1, <2>3, <3>1, <3>2
        DEF Settles, Finish, inboxVars, IInv, TypeOK, InboxTypeOK
    <2>4. CASE PassLeaseTime
      BY <2>4 DEF PassLeaseTime
    <2> QED
      BY <1>1, <2>1, <2>2, <2>3, <2>4, RowStep
  <1>2. IInv /\ [Next]_vars => [A]_vars
    BY <1>1
  <1> QED
    BY <1>2, Invariance, PTL DEF Spec, DoneIsFinal

(* A leased row is settled only by the container that holds its lease, and *)
(* leased again only when the lease has run out: a container that worked   *)
(* past its lease changes nothing any more.                                *)
THEOREM LeaseRespected == Spec => LeaseIsRespected
  <1> DEFINE A ==
        \A u \in Update : state[u] = "running" =>
          /\ state'[u] # "running" =>
               \E w \in Worker : Holds(w, u) /\ ~(worker'[w] = worker[w])
          /\ attempts'[u] # attempts[u] => remaining[u] = 0
  <1>1. ASSUME IInv, [Next]_vars PROVE A
    <2> SUFFICES ASSUME NEW u \in Update, state[u] = "running"
                 PROVE  /\ state'[u] # "running" =>
                             \E w \in Worker : Holds(w, u) /\ ~(worker'[w] = worker[w])
                        /\ attempts'[u] # attempts[u] => remaining[u] = 0
      OBVIOUS
    <2>1. CASE UNCHANGED inboxVars
      BY <2>1 DEF inboxVars
    <2>2. ASSUME NEW v \in Update, Insert(v) \/ Leases(v)
          PROVE  state'[u] = "running" /\ (attempts'[u] # attempts[u] => remaining[u] = 0)
      BY <1>1, <2>2 DEF Insert, Leases, Unfinished, LeaseRow, IInv, TypeOK, InboxTypeOK
    <2>3. ASSUME NEW w \in Worker, NEW v \in Update, Settles(w, v)
          PROVE  /\ attempts'[u] = attempts[u]
                 /\ state'[u] # "running" => Holds(w, u) /\ worker'[w] # worker[w]
      BY <1>1, <2>3 DEF Settles, Holds, Finish, inboxVars, IInv, TypeOK, InboxTypeOK
    <2>4. CASE PassLeaseTime
      BY <2>4 DEF PassLeaseTime
    <2> QED
      BY <1>1, <2>1, <2>2, <2>3, <2>4, RowStep
  <1>2. IInv /\ [Next]_vars => [A]_vars
    BY <1>1
  <1> QED
    BY <1>2, Invariance, PTL DEF Spec, LeaseIsRespected

----------------------------------------------------------------------------
(* The queue implements the line per conversation.                         *)

waiting == {u \in Update : Unfinished(u)}
serving == {u \in Update : Live(u)}
finished == {u \in Update : state[u] = "done"}

LEMMA QueueStep ==
  ASSUME IInv, [Next]_vars
  PROVE  [Queue!Next]_(Queue!vars)
  <1> USE InboxAssumption DEF Live, Unfinished, Queue!vars
  <1>t. InboxTypeOK
    BY DEF IInv, TypeOK
  <1>1. CASE UNCHANGED inboxVars
    BY <1>1 DEF inboxVars
  <1>2. ASSUME NEW u \in Update, Insert(u) PROVE Queue!Accept(u)
    <2>1. /\ waiting' = waiting \cup {u}
          /\ UNCHANGED <<serving, finished>>
          /\ u \notin waiting \cup serving \cup finished
      BY <1>2, <1>t DEF Insert, InboxTypeOK, waiting, serving, finished
    <2> QED
      BY <2>1 DEF Queue!Accept, waiting, serving, finished
  <1>3. ASSUME NEW u \in Update, Leases(u) PROVE Queue!Serve(u)
    <2>1. /\ waiting' = waiting \ {u}
          /\ serving' = serving \cup {u}
          /\ finished' = finished
      BY <1>3, <1>t DEF Leases, LeaseRow, InboxTypeOK, waiting, serving, finished
    <2>2. u \in waiting
      BY <1>3 DEF Leases, waiting
    <2>3. u \notin Alone =>
            /\ serving \cap Queue!Line(KeyOf[u]) = {}
            /\ \A v \in waiting \cap Queue!Line(KeyOf[u]) : u <= v
      BY <1>3 DEF Leases, OldestUnfinished, Busy, InBand, Queue!Line, waiting, serving
    <2> QED
      BY <2>1, <2>2, <2>3 DEF Queue!Serve, waiting, serving, finished
  <1>4. ASSUME NEW w \in Worker, NEW u \in Update, Settles(w, u) PROVE [Queue!Next]_(Queue!vars)
    <2>1. worker[w].lease > 0 /\ Holding(w) /\ worker[w].job = u
      BY <1>4 DEF Settles, LeasesIssued, IInv
    <2>2. PICK o \in {"pending", "done"} : Finish(u, worker[w].lease, o)
      BY <1>4 DEF Settles
    <2>3. CASE token[u] # worker[w].lease
      BY <2>2, <2>3, <1>1 DEF Finish
    <2>4. CASE token[u] = worker[w].lease
      <3>0. state[u] # "running" => token[u] = 0
        BY DEF IInv, TokenOfRow, NoToken
      <3>1. state[u] = "running"
        BY <2>1, <2>4, <3>0
      <3>2. state' = [state EXCEPT ![u] = o] /\ remaining' = [remaining EXCEPT ![u] = 0]
        BY <2>2, <2>4 DEF Finish
      <3>3. CASE o = "done"
        <4>1. /\ finished' = finished \cup {u}
              /\ waiting' = waiting \ {u}
              /\ serving' = serving \ {u}
          BY <3>2, <3>3, <1>t DEF InboxTypeOK, waiting, serving, finished
        <4>2. u \in waiting \cup serving
          BY <3>1, <1>t DEF InboxTypeOK, waiting, serving
        <4>3. Queue!Finish(u)
          BY <4>1, <4>2 DEF Queue!Finish, waiting, serving, finished
        <4> QED
          BY <4>3 DEF Queue!Next
      <3>4. CASE o = "pending"
        <4>1. finished' = finished
          BY <3>1, <3>2, <3>4, <1>t DEF InboxTypeOK, finished
        <4>2. waiting' = waiting \cup {u} /\ serving' = serving \ {u}
          BY <3>2, <3>4, <1>t DEF InboxTypeOK, waiting, serving
        <4>3. CASE u \in serving
          <5>1. {u} \in SUBSET Update /\ Queue!Return({u})
            BY <4>1, <4>2, <4>3 DEF Queue!Return, waiting, serving, finished
          <5> QED
            BY <5>1 DEF Queue!Next
        <4>4. CASE u \notin serving
          <5>1. u \in waiting
            BY <3>1, <4>4, <1>t DEF InboxTypeOK, waiting, serving
          <5> QED
            BY <4>1, <4>2, <4>4, <5>1 DEF waiting, serving, finished
        <4> QED
          BY <4>3, <4>4
      <3> QED
        BY <3>3, <3>4
    <2> QED
      BY <2>3, <2>4
  <1>5. CASE PassLeaseTime
    <2>0. PICK S \in SUBSET Update : S = serving \ serving'
      BY DEF serving
    <2>1. S \subseteq serving /\ finished' = finished
      BY <1>5, <2>0 DEF PassLeaseTime, serving, finished
    <2>2. \A u \in Update : remaining[u] \in Nat /\ remaining'[u] \in Nat
                           /\ (remaining[u] = 0 => remaining'[u] = 0)
      BY <1>5, <1>t DEF PassLeaseTime, InboxTypeOK
    <2>3. serving' = serving \ S /\ waiting' = waiting \cup S
      <3>1. state' = state
        BY <1>5 DEF PassLeaseTime
      <3>2. \A u \in Update : u \in serving' => u \in serving
        BY <2>2, <3>1 DEF serving
      <3>3. \A u \in Update : u \in waiting' <=> u \in waiting \/ (u \in serving /\ u \notin serving')
        BY <2>2, <3>1 DEF serving, waiting
      <3> QED
        BY <2>0, <3>2, <3>3 DEF serving, waiting
    <2>4. CASE S = {}
      BY <2>1, <2>3, <2>4 DEF waiting, serving, finished
    <2>5. CASE S # {}
      <3>1. Queue!Return(S)
        BY <2>1, <2>3, <2>5 DEF Queue!Return, waiting, serving, finished
      <3> QED
        BY <3>1 DEF Queue!Next
    <2> QED
      BY <2>4, <2>5
  <1> QED
    BY <1>1, <1>2, <1>3, <1>4, <1>5, RowStep DEF Queue!Next

(* The leased queue with its webhook, workers and platform is a line per   *)
(* conversation, served one update at a time and earliest first.           *)
THEOREM QueueImplemented == Spec => ServedInOrder
  <1>1. Init => Queue!Init
    BY DEF Init, InboxInit, Queue!Init, Unfinished, Live
  <1>2. IInv /\ [Next]_vars => [Queue!Next]_(Queue!vars)
    BY QueueStep
  <1> QED
    BY <1>1, <1>2, Invariance, PTL DEF Spec, ServedInOrder, Queue!Spec
============================================================================
