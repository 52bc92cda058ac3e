---------------------------- MODULE ContextWindow ----------------------------
(***************************************************************************)
(* What of a conversation one request carries, and where a conversation is *)
(* cut when it is folded (app/context/window.py, summary.py).  A message is*)
(* what these tell apart: its role, the size of its text, how many media   *)
(* items it has, and how calls and results belong together.  Positions     *)
(* count from 1; a cut is the number of messages in front of it.           *)
(***************************************************************************)
EXTENDS Integers, Sequences, FiniteSets

CONSTANTS
  KEEP_TURNS,     \* newest exchanges that are never folded
  KEEP_RESULTS,   \* newest tool results a request carries whole
  KEEP_STEPS,     \* newest steps kept inside one long exchange
  STUB_MIN,       \* a result up to this size is never shortened
  STUB_SIZE,      \* what a stub takes instead
  MEDIA_SIZE,     \* what a media item takes
  MEDIA_BUDGET,   \* media items one request may carry
  ALLOWANCE       \* what a fold has to free for its own summary

ASSUME WindowAssumption ==
  /\ KEEP_TURNS \in Nat \ {0} /\ KEEP_STEPS \in Nat \ {0} /\ KEEP_RESULTS \in Nat
  /\ STUB_MIN \in Nat /\ STUB_SIZE \in Nat
  /\ MEDIA_SIZE \in Nat /\ MEDIA_BUDGET \in Nat /\ ALLOWANCE \in Nat

(* A person's message, a step of the assistant with the calls it makes, or *)
(* the result of one of them.                                              *)
User(size, media) ==
  [role |-> "user", size |-> size, media |-> media, calls |-> <<>>, call |-> 0,
   failed |-> FALSE]
Step(size, calls) ==
  [role |-> "assistant", size |-> size, media |-> 0, calls |-> calls, call |-> 0,
   failed |-> FALSE]
Result(size, media, failed, call) ==
  [role |-> "tool", size |-> size, media |-> media, calls |-> <<>>, call |-> call,
   failed |-> failed]

With(s, role) == {i \in 1..Len(s) : s[i].role = role}
From(s, i) == SubSeq(s, i + 1, Len(s))

(* The n-th newest of a set of positions that has so many. *)
Newest(S, n) == CHOOSE i \in S : Cardinality({j \in S : j >= i}) = n
Least(S) == CHOOSE i \in S : \A j \in S : i <= j

(* The sum of f over the first n positions. *)
Total(f, n) ==
  LET sum[i \in 0..n] == IF i = 0 THEN 0 ELSE sum[i - 1] + f[i] IN sum[n]

----------------------------------------------------------------------------
(* The surface.                                                            *)

(* shortened: the results of s that are shown as stubs, when its first     *)
(* `stored` messages are in history and the newest `keep` stay whole.      *)
Shortened(s, keep, stored) ==
  {i \in With(s, "tool") :
     /\ i <= stored
     /\ Cardinality({j \in With(s, "tool") : j > i}) >= keep
     /\ ~s[i].failed
     /\ s[i].size > STUB_MIN \/ s[i].media > 0}

(* Mutated: the limit is each message's own. *)
MediaShownApart(shown, i) == IF shown[i] < MEDIA_BUDGET THEN shown[i] ELSE MEDIA_BUDGET

(* within_media_budget: of the media the messages still show, what is left *)
(* for the i-th when those behind it have been served.                     *)
MediaShown(shown, i) ==
  LET newer == Total([j \in 1..(Len(shown) - i) |-> shown[i + j]], Len(shown) - i)
      rest == IF newer < MEDIA_BUDGET THEN MEDIA_BUDGET - newer ELSE 0
  IN IF shown[i] < rest THEN shown[i] ELSE rest

(* Context.surface: history behind position `through`, then the turn; with *)
(* each message the position its stub names, 0 if it is shown whole.       *)
Surface(history, through, turn) ==
  LET whole == history \o turn
      short == Shortened(whole, KEEP_RESULTS, Len(history))
      media == [i \in 1..Len(whole) |-> IF i \in short THEN 0 ELSE whole[i].media]
  IN [i \in 1..Len(whole) |->
        [message |-> whole[i], stub |-> IF i \in short THEN through + i ELSE 0,
         media |-> MediaShown(media, i)]]

(* estimate_tokens of a surface. *)
Tokens(surface) ==
  Total([i \in 1..Len(surface) |->
           (IF surface[i].stub = 0 THEN surface[i].message.size ELSE STUB_SIZE)
           + surface[i].media * MEDIA_SIZE], Len(surface))

----------------------------------------------------------------------------
(* The cut.                                                                *)

(* turn_boundary: the next place from the cut on where a step begins. *)
TurnBoundary(s, cut) ==
  Least({i \in cut..(Len(s) - 1) : s[i + 1].role \in {"user", "assistant"}}
        \cup {Len(s)})

(* verbatim_floor: where the part begins that always stays. *)
VerbatimFloor(s) ==
  LET turns == With(s, "user")
      steps == With(s, "assistant")
  IN IF Cardinality(turns) >= KEEP_TURNS THEN Newest(turns, KEEP_TURNS) - 1
     ELSE IF Cardinality(steps) >= KEEP_STEPS THEN Newest(steps, KEEP_STEPS) - 1
     ELSE 0

(* What folding the first n messages frees: each result there as a stub. *)
Freed(s, n) ==
  LET front == SubSeq(s, 1, n)
      short == Shortened(front, 0, n)
  IN Total([i \in 1..n |-> IF i \in short THEN STUB_SIZE
                           ELSE front[i].size + front[i].media * MEDIA_SIZE], n)

(* cut_for: the first exchange below the floor behind which enough is      *)
(* freed, the floor if there is none.                                      *)
CutFor(s, floor, needed) ==
  LET enough == {b \in 1..(floor - 1) : s[b + 1].role = "user" /\ Freed(s, b) >= needed}
  IN IF enough = {} THEN floor ELSE Least(enough)

(* Mutated: one exchange more than may go. *)
CutPastFloor(s, excess) ==
  TurnBoundary(s, VerbatimFloor(s) + 1)

(* Where a fold cuts s, which is `excess` over the budget; 0 for all that  *)
(* may go.                                                                 *)
Cut(s, excess) ==
  LET floor == VerbatimFloor(s)
  IN TurnBoundary(s, IF excess > 0 THEN CutFor(s, floor, excess + ALLOWANCE) ELSE floor)
=============================================================================
