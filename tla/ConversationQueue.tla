------------------------- MODULE ConversationQueue -------------------------
(***************************************************************************)
(* What the leased queue promises, without rows, leases, tokens or workers:*)
(* every conversation is a line of accepted updates, of which at most one  *)
(* is being served and that one was the earliest waiting when it was taken.*)
(* An update may go back to its line (a failed or expired attempt) and is  *)
(* finished at most once.  Updates that are Alone stand in no line.        *)
(***************************************************************************)
EXTENDS Naturals

CONSTANTS Update, Conversation, KeyOf, Alone

VARIABLES
  waiting,   \* accepted, not finished, and nobody's
  serving,   \* under a lease that is alive
  finished   \* answered or given up on

vars == <<waiting, serving, finished>>

Line(k) == {u \in Update \ Alone : KeyOf[u] = k}

Init == waiting = {} /\ serving = {} /\ finished = {}

Accept(u) ==
  /\ u \notin waiting \cup serving \cup finished
  /\ waiting' = waiting \cup {u}
  /\ UNCHANGED <<serving, finished>>

Serve(u) ==
  /\ u \in waiting
  /\ u \notin Alone =>
       /\ serving \cap Line(KeyOf[u]) = {}
       /\ \A v \in waiting \cap Line(KeyOf[u]) : u <= v
  /\ serving' = serving \cup {u}
  /\ waiting' = waiting \ {u}
  /\ UNCHANGED finished

(* One update after a failed attempt, or every update whose lease ran out. *)
Return(S) ==
  /\ S # {} /\ S \subseteq serving
  /\ serving' = serving \ S
  /\ waiting' = waiting \cup S
  /\ UNCHANGED finished

(* An expired attempt nobody has taken over may still finish its update. *)
Finish(u) ==
  /\ u \in waiting \cup serving
  /\ finished' = finished \cup {u}
  /\ waiting' = waiting \ {u}
  /\ serving' = serving \ {u}

Next ==
  \/ \E u \in Update : Accept(u) \/ Serve(u) \/ Finish(u)
  \/ \E S \in SUBSET Update : Return(S)

Spec == Init /\ [][Next]_vars
============================================================================
