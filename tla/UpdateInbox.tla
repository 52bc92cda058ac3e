---------------------------- MODULE UpdateInbox ----------------------------
(***************************************************************************)
(* The leased queue of ui/telegram/inbox.py: one row of the table          *)
(* telegram_updates per Telegram update, and the statements that write it. *)
(* Each action below is one SQL statement (or one transaction), which is   *)
(* the grain at which PostgreSQL interleaves the webhook and the workers.  *)
(*                                                                         *)
(* Time.  A lease is kept as the time it still has to run, so CURRENT_     *)
(* TIMESTAMP needs no variable: PassLeaseTime lets one unit go by.  A row  *)
(* with nothing remaining is one whose lease_until lies in the past.       *)
(*                                                                         *)
(* Tokens.  The code draws a fresh uuid for every lease.  A row's attempts *)
(* grow by one with every lease and never shrink, so the attempt number is *)
(* as fresh among the tokens of that row as the uuid is, and stands for it.*)
(***************************************************************************)
EXTENDS Naturals

CONSTANTS
  Update,        \* update ids, ordered as Telegram numbers them
  Conversation,  \* conversation keys
  KeyOf,         \* the key each update was queued under
  Alone,         \* updates claimed on their own: control updates, and rows
                 \* queued before conversation_key existed
  LeaseTerm      \* lease_seconds, in units of model time

ASSUME InboxAssumption ==
  /\ Update \subseteq Nat
  /\ KeyOf \in [Update -> Conversation]
  /\ Alone \subseteq Update
  /\ LeaseTerm \in Nat \ {0}

VARIABLES
  state,      \* column state, "absent" while no row exists
  token,      \* column lease_token, NoToken when NULL
  remaining,  \* column lease_until, as the time left of the lease
  attempts    \* column attempts

inboxVars == <<state, token, remaining, attempts>>

NoToken == 0

InboxTypeOK ==
  /\ state \in [Update -> {"absent", "pending", "running", "done"}]
  /\ token \in [Update -> Nat]
  /\ remaining \in [Update -> 0..LeaseTerm]
  /\ attempts \in [Update -> Nat]

InboxInit ==
  /\ state = [u \in Update |-> "absent"]
  /\ token = [u \in Update |-> NoToken]
  /\ remaining = [u \in Update |-> 0]
  /\ attempts = [u \in Update |-> 0]

----------------------------------------------------------------------------
(* Reading the table.                                                      *)

Live(u) == state[u] = "running" /\ remaining[u] > 0

(* The SQL fragment UNFINISHED: what a claim may take. *)
Unfinished(u) ==
  \/ state[u] = "pending"
  \/ state[u] = "running" /\ remaining[u] = 0

(* The rows a conversation's lease serializes. *)
InBand(k) == {u \in Update \ Alone : KeyOf[u] = k}

(* _busy, and the NOT EXISTS of _claim_conversation. *)
Busy(k) == \E u \in InBand(k) : Live(u)

(* Mutated: no ORDER BY. *)
AnyUnfinished(u, k) == u \in InBand(k) /\ Unfinished(u)

(* The row `ORDER BY update_id LIMIT 1` finds in one conversation. *)
OldestUnfinished(u, k) ==
  /\ u \in InBand(k)
  /\ Unfinished(u)
  /\ \A v \in InBand(k) : Unfinished(v) => u <= v

(* Mutated: no NOT EXISTS. *)
NextOfUnguarded(k, u) == OldestUnfinished(u, k)

(* claim_next, through _claim_conversation: u is the row it would lease. *)
NextOf(k, u) == OldestUnfinished(u, k) /\ ~Busy(k)

(* claim: a worker woken by an update takes its conversation's oldest, or, *)
(* for an update that is alone, that one row.                              *)
Claimable(woken, u) ==
  \/ woken \in Alone /\ u = woken /\ Unfinished(u)
  \/ woken \notin Alone /\ NextOf(KeyOf[woken], u)

----------------------------------------------------------------------------
(* Writing the table.                                                      *)

(* The INSERT of enqueue, when no row has the update_id yet. *)
Insert(u) ==
  /\ state[u] = "absent"
  /\ state' = [state EXCEPT ![u] = "pending"]
  /\ UNCHANGED <<token, remaining, attempts>>

(* The token _lease draws. *)
FreshToken(u) == attempts[u] + 1

(* _lease. *)
LeaseRow(u) ==
  /\ state' = [state EXCEPT ![u] = "running"]
  /\ token' = [token EXCEPT ![u] = FreshToken(u)]
  /\ remaining' = [remaining EXCEPT ![u] = LeaseTerm]
  /\ attempts' = [attempts EXCEPT ![u] = @ + 1]

(* Mutated: no WHERE lease_token. *)
FinishAnyToken(u, t, outcome) ==
  /\ state' = [state EXCEPT ![u] = outcome]
  /\ token' = [token EXCEPT ![u] = NoToken]
  /\ remaining' = [remaining EXCEPT ![u] = 0]
  /\ UNCHANGED attempts

(* _finish: writes only while the row still carries this job's token. *)
Finish(u, t, outcome) ==
  \/ /\ token[u] = t
     /\ state' = [state EXCEPT ![u] = outcome]
     /\ token' = [token EXCEPT ![u] = NoToken]
     /\ remaining' = [remaining EXCEPT ![u] = 0]
     /\ UNCHANGED attempts
  \/ token[u] # t /\ UNCHANGED inboxVars

(* CURRENT_TIMESTAMP moves on by one unit. *)
PassLeaseTime ==
  /\ remaining' = [u \in Update |-> IF remaining[u] = 0 THEN 0 ELSE remaining[u] - 1]
  /\ UNCHANGED <<state, token, attempts>>

----------------------------------------------------------------------------
(* At most one update of a conversation is leased and alive: the promise   *)
(* of _claim_conversation, that two workers holding different updates of   *)
(* one conversation do not both start.                                     *)
OneLiveLease ==
  \A k \in Conversation : \A u, v \in InBand(k) : Live(u) /\ Live(v) => u = v
============================================================================
