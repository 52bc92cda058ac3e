--------------------------- MODULE WorkspaceProofs ---------------------------
(***************************************************************************)
(* Theorems of Workspace, for any workers, runners, files and bounds.      *)
(***************************************************************************)
EXTENDS Workspace, TLAPS

----------------------------------------------------------------------------
(* The inductive invariants.                                               *)

(* One turn at a time; a command's container belongs to one waiting turn.  *)
Bonds ==
  /\ \A v, w \in Worker : at[v] \in Serving /\ at[w] \in Serving => v = w
  /\ \A r \in Runner : caller[r] # None => at[caller[r]] = "called" /\ at_runner[r] # "idle"
  /\ \A r, s \in Runner : caller[r] # None /\ caller[r] = caller[s] => r = s

(* A container that holds a change holds the newest version of that file,  *)
(* unless somebody raced it: no commit puts an older one on the volume.    *)
NewestInHand ==
  \A h \in Host : \A f \in dirty[h] \ raced : view[h][f] >= volume[f]
RacesSeen ==
  \A g, h \in Host : g # h => dirty[g] \cap dirty[h] \subseteq raced

(* So what was handed over stays on the volume, and an open worker, which  *)
(* reloaded since, has it and nothing newer that is in nobody's hands.     *)
HandedOn ==
  \A f \in File \ raced :
    /\ handedOver[f] <= volume[f]
    /\ \A w \in Worker : at[w] # "off" =>
         /\ owed[w][f] <= handedOver[f] /\ owed[w][f] <= view[w][f]
         /\ f \notin dirty[w] => view[w][f] <= volume[f]
Kept == NewestInHand /\ RacesSeen /\ HandedOn

(* A version is in a container's hands, or on the volume where it reads.   *)
Holds(h, f, version) ==
  view[h][f] = version /\ (f \in dirty[h] \/ volume[f] = version)

(* Where the version a turn last gave a file is, at each point of a call.  *)
Placed(w, f) ==
  /\ at[w] \in Serving
  /\ at[w] = "turn" => Holds(w, f, mine[w][f])
  /\ at[w] = "called" =>
       /\ \A r \in Runner : caller[r] = w => Holds(r, f, mine[w][f])
       /\ (\A r \in Runner : caller[r] # w) => volume[f] = mine[w][f]
  /\ at[w] = "answered" => volume[f] = mine[w][f]
Whole ==
  /\ \A w \in Worker : at[w] \in {"off", "called", "answered"} => dirty[w] = {}
  /\ \A w \in Worker : \A f \in File :
       mine[w][f] # 0 => at[w] \in Serving /\ (f \notin contested[w] => Placed(w, f))

(* Whatever a worker that is open may compile its graph from was in force. *)
Marked ==
  \A w \in Worker :
    /\ at[w] = "off" => dirty[w] = {}
    /\ at[w] # "off" => /\ {volume[Marker], view[w][Marker]} \subseteq inForce[w]
                        /\ graph[w] # None => graph[w] \in inForce[w]
    /\ at[w] \in Serving => graph[w] # None

----------------------------------------------------------------------------
(* Types.                                                                  *)

LEMMA InitTypes == Init => TypeOK
  BY WorkspaceAssumption DEF WorkspaceAssumption, Init, TypeOK, Host, Serving

(* Every action keeps the types of the state it works on.                  *)
LEMMA StepTypes == TypeOK /\ [Next]_vars => TypeOK'
<1> SUFFICES ASSUME TypeOK, [Next]_vars PROVE TypeOK'
    OBVIOUS
<1> USE WorkspaceAssumption DEF WorkspaceAssumption, TypeOK, Host, Serving,
        hosts, workers, runners, counts, histories
<1>1. ASSUME NEW w \in Worker, Open(w, "open") PROVE TypeOK'
    BY <1>1 DEF Open, Reload
<1>2. ASSUME NEW w \in Worker, Open(w, "setting") PROVE TypeOK'
    BY <1>2 DEF Open, Reload
<1>3. ASSUME NEW w \in Worker, Set(w) PROVE TypeOK'
    BY <1>3 DEF Set, Mark, Change
<1>4. ASSUME NEW w \in Worker, Turn(w) PROVE TypeOK'
    BY <1>4 DEF Turn
<1>5. ASSUME NEW w \in Worker, Finish(w) PROVE TypeOK'
    BY <1>5 DEF Finish
<1>6. ASSUME NEW w \in Worker, Leave(w) PROVE TypeOK'
    BY <1>6 DEF Leave
<1>7. ASSUME NEW w \in Worker, Close(w) PROVE TypeOK'
    BY <1>7 DEF Close, HandOver, Commit, TurnOf
<1>8. ASSUME NEW w \in Worker, Call(w) PROVE TypeOK'
    BY <1>8 DEF Call, Commit, TurnOf
<1>9. ASSUME NEW w \in Worker, Answered(w) PROVE TypeOK'
    BY <1>9 DEF Answered, Reload
<1>10. ASSUME NEW w \in Worker, GiveUp(w) PROVE TypeOK'
    BY <1>10 DEF GiveUp
<1>11. ASSUME NEW w \in Worker, WorkerDies(w) PROVE TypeOK'
    BY <1>11 DEF WorkerDies, Bury
<1>12. ASSUME NEW w \in Worker, NEW f \in File, Write(w, f) PROVE TypeOK'
    BY <1>12 DEF Write, Change
<1>13. ASSUME NEW r \in Runner, NEW w \in Worker, Take(r, w) PROVE TypeOK'
    BY <1>13 DEF Take, Reload
<1>14. ASSUME NEW r \in Runner, Started(r) PROVE TypeOK'
    BY <1>14 DEF Started
<1>15. ASSUME NEW r \in Runner, NotStarted(r) PROVE TypeOK'
    BY <1>15 DEF NotStarted
<1>16. ASSUME NEW r \in Runner, Fork(r) PROVE TypeOK'
    BY <1>16 DEF Fork
<1>17. ASSUME NEW r \in Runner, ShellExits(r) PROVE TypeOK'
    BY <1>17 DEF ShellExits
<1>18. ASSUME NEW r \in Runner, ChildExits(r) PROVE TypeOK'
    BY <1>18 DEF ChildExits
<1>19. ASSUME NEW r \in Runner, Finished(r) PROVE TypeOK'
    BY <1>19 DEF Finished
<1>20. ASSUME NEW r \in Runner, Killed(r) PROVE TypeOK'
    BY <1>20 DEF Killed, KillTree
<1>21. ASSUME NEW r \in Runner, Reply(r) PROVE TypeOK'
    BY <1>21 DEF Reply, Commit, TurnOf
<1>22. ASSUME NEW r \in Runner, RunnerDies(r) PROVE TypeOK'
    BY <1>22 DEF RunnerDies, Bury
<1>23. ASSUME NEW r \in Runner, NEW f \in File, Works(r, f) PROVE TypeOK'
    BY <1>23 DEF Works, Change
<1>24. ASSUME NEW h \in Host, BackgroundCommit(h) PROVE TypeOK'
    BY <1>24 DEF BackgroundCommit, Commit, TurnOf
<1>25. CASE UNCHANGED vars
    BY <1>25 DEF vars
<1> QED
    BY <1>1, <1>2, <1>3, <1>4, <1>5, <1>6, <1>7, <1>8, <1>9, <1>10, <1>11, <1>12,
       <1>13, <1>14, <1>15, <1>16, <1>17, <1>18, <1>19, <1>20, <1>21, <1>22, <1>23, <1>24,
       <1>25 DEF Next

(* A turn is claimed when no other is served, and a call is taken by one    *)
(* container, which lets go of it before the turn goes on.                 *)
LEMMA StepBonds == TypeOK /\ Bonds /\ [Next]_vars => Bonds'
<1> SUFFICES ASSUME TypeOK, Bonds, [Next]_vars PROVE Bonds'
    OBVIOUS
<1> USE WorkspaceAssumption DEF WorkspaceAssumption, TypeOK, Host, Serving,
        hosts, workers, runners, counts, histories, Bonds
<1>1. ASSUME NEW w \in Worker, Open(w, "open") PROVE Bonds'
    BY <1>1 DEF Open, Reload
<1>2. ASSUME NEW w \in Worker, Open(w, "setting") PROVE Bonds'
    BY <1>2 DEF Open, Reload
<1>3. ASSUME NEW w \in Worker, Set(w) PROVE Bonds'
    BY <1>3 DEF Set, Mark, Change
<1>4. ASSUME NEW w \in Worker, Turn(w) PROVE Bonds'
    BY <1>4 DEF Turn
<1>5. ASSUME NEW w \in Worker, Finish(w) PROVE Bonds'
    BY <1>5 DEF Finish
<1>6. ASSUME NEW w \in Worker, Leave(w) PROVE Bonds'
    BY <1>6 DEF Leave
<1>7. ASSUME NEW w \in Worker, Close(w) PROVE Bonds'
    BY <1>7 DEF Close, HandOver, Commit, TurnOf
<1>8. ASSUME NEW w \in Worker, Call(w) PROVE Bonds'
    BY <1>8 DEF Call, Commit, TurnOf
<1>9. ASSUME NEW w \in Worker, Answered(w) PROVE Bonds'
    BY <1>9 DEF Answered, Reload
<1>10. ASSUME NEW w \in Worker, GiveUp(w) PROVE Bonds'
    BY <1>10 DEF GiveUp
<1>11. ASSUME NEW w \in Worker, WorkerDies(w) PROVE Bonds'
    BY <1>11 DEF WorkerDies, Bury
<1>12. ASSUME NEW w \in Worker, NEW f \in File, Write(w, f) PROVE Bonds'
    BY <1>12 DEF Write, Change
<1>13. ASSUME NEW r \in Runner, NEW w \in Worker, Take(r, w) PROVE Bonds'
    BY <1>13 DEF Take, Reload
<1>14. ASSUME NEW r \in Runner, Started(r) PROVE Bonds'
    BY <1>14 DEF Started
<1>15. ASSUME NEW r \in Runner, NotStarted(r) PROVE Bonds'
    BY <1>15 DEF NotStarted
<1>16. ASSUME NEW r \in Runner, Fork(r) PROVE Bonds'
    BY <1>16 DEF Fork
<1>17. ASSUME NEW r \in Runner, ShellExits(r) PROVE Bonds'
    BY <1>17 DEF ShellExits
<1>18. ASSUME NEW r \in Runner, ChildExits(r) PROVE Bonds'
    BY <1>18 DEF ChildExits
<1>19. ASSUME NEW r \in Runner, Finished(r) PROVE Bonds'
    BY <1>19 DEF Finished
<1>20. ASSUME NEW r \in Runner, Killed(r) PROVE Bonds'
    BY <1>20 DEF Killed, KillTree
<1>21. ASSUME NEW r \in Runner, Reply(r) PROVE Bonds'
    BY <1>21 DEF Reply, Commit, TurnOf
<1>22. ASSUME NEW r \in Runner, RunnerDies(r) PROVE Bonds'
    BY <1>22 DEF RunnerDies, Bury
<1>23. ASSUME NEW r \in Runner, NEW f \in File, Works(r, f) PROVE Bonds'
    BY <1>23 DEF Works, Change
<1>24. ASSUME NEW h \in Host, BackgroundCommit(h) PROVE Bonds'
    BY <1>24 DEF BackgroundCommit, Commit, TurnOf
<1>25. CASE UNCHANGED vars
    BY <1>25 DEF vars
<1> QED
    BY <1>1, <1>2, <1>3, <1>4, <1>5, <1>6, <1>7, <1>8, <1>9, <1>10, <1>11, <1>12,
       <1>13, <1>14, <1>15, <1>16, <1>17, <1>18, <1>19, <1>20, <1>21, <1>22, <1>23, <1>24,
       <1>25 DEF Next

(* A change is numbered after every version there is, so it is the newest;  *)
(* a commit writes it over no newer one, for a newer one would be in other *)
(* hands, which is a race; so what a worker closed with stays on the volume *)
(* and a reload brings it.                                                  *)
LEMMA StepKept == TypeOK /\ Bonds /\ Kept /\ [Next]_vars => Kept'
<1> SUFFICES ASSUME TypeOK, Bonds, Kept, [Next]_vars PROVE Kept'
    OBVIOUS
<1> USE WorkspaceAssumption DEF WorkspaceAssumption, TypeOK, Host, Serving,
        hosts, workers, runners, counts, histories, Kept, NewestInHand, RacesSeen, HandedOn
<1>1. ASSUME NEW w \in Worker, Open(w, "open") PROVE Kept'
    BY <1>1 DEF Open, Reload
<1>2. ASSUME NEW w \in Worker, Open(w, "setting") PROVE Kept'
    BY <1>2 DEF Open, Reload
<1>3. ASSUME NEW w \in Worker, Set(w) PROVE Kept'
    BY <1>3 DEF Set, Mark, Change
<1>4. ASSUME NEW w \in Worker, Turn(w) PROVE Kept'
    BY <1>4 DEF Turn
<1>5. ASSUME NEW w \in Worker, Finish(w) PROVE Kept'
    BY <1>5 DEF Finish
<1>6. ASSUME NEW w \in Worker, Leave(w) PROVE Kept'
    BY <1>6 DEF Leave
<1>7. ASSUME NEW w \in Worker, Close(w) PROVE Kept'
    BY <1>7 DEF Close, HandOver, Commit, TurnOf
<1>8. ASSUME NEW w \in Worker, Call(w) PROVE Kept'
    BY <1>8 DEF Call, Commit, TurnOf
<1>9. ASSUME NEW w \in Worker, Answered(w) PROVE Kept'
    BY <1>9 DEF Answered, Reload
<1>10. ASSUME NEW w \in Worker, GiveUp(w) PROVE Kept'
    BY <1>10 DEF GiveUp
<1>11. ASSUME NEW w \in Worker, WorkerDies(w) PROVE Kept'
    BY <1>11 DEF WorkerDies, Bury
<1>12. ASSUME NEW w \in Worker, NEW f \in File, Write(w, f) PROVE Kept'
    BY <1>12 DEF Write, Change
<1>13. ASSUME NEW r \in Runner, NEW w \in Worker, Take(r, w) PROVE Kept'
    BY <1>13 DEF Take, Reload
<1>14. ASSUME NEW r \in Runner, Started(r) PROVE Kept'
    BY <1>14 DEF Started
<1>15. ASSUME NEW r \in Runner, NotStarted(r) PROVE Kept'
    BY <1>15 DEF NotStarted
<1>16. ASSUME NEW r \in Runner, Fork(r) PROVE Kept'
    BY <1>16 DEF Fork
<1>17. ASSUME NEW r \in Runner, ShellExits(r) PROVE Kept'
    BY <1>17 DEF ShellExits
<1>18. ASSUME NEW r \in Runner, ChildExits(r) PROVE Kept'
    BY <1>18 DEF ChildExits
<1>19. ASSUME NEW r \in Runner, Finished(r) PROVE Kept'
    BY <1>19 DEF Finished
<1>20. ASSUME NEW r \in Runner, Killed(r) PROVE Kept'
    BY <1>20 DEF Killed, KillTree
<1>21. ASSUME NEW r \in Runner, Reply(r) PROVE Kept'
    <2>1. \A w \in Worker : at'[w] # "off" => at[w] # "off"
        <3> SUFFICES ASSUME NEW w \in Worker, at[w] = "off"
                     PROVE  w # caller[r]
            BY <1>21 DEF Reply
        <3>1. w # None
            OBVIOUS
        <3>2. caller[r] # None => at[caller[r]] = "called"
            BY Zenon DEF Bonds
        <3> QED
            BY <3>1, <3>2, Zenon
    <2>2. UNCHANGED <<view, raced, handedOver, owed>>
        BY <1>21 DEF Reply, Commit
    <2>3. /\ volume' = [f \in File |-> IF f \in dirty[r] THEN view[r][f] ELSE volume[f]]
          /\ dirty' = [dirty EXCEPT ![r] = {}]
        BY <1>21 DEF Reply, Commit
    <2>4. NewestInHand' /\ RacesSeen'
        BY <2>2, <2>3
    <2>5. ASSUME NEW f \in File \ raced
          PROVE  /\ volume[f] <= volume'[f] /\ {volume[f], volume'[f]} \subseteq Nat
                 /\ handedOver[f] \in Nat /\ \A w \in Worker : view[w][f] \in Nat
                 /\ \A w \in Worker : dirty'[w] = dirty[w]
        BY <2>3
    <2>6. HandedOn'
        BY <2>1, <2>2, <2>5
    <2> QED
        BY <2>4, <2>6
<1>22. ASSUME NEW r \in Runner, RunnerDies(r) PROVE Kept'
    <2>1. \A w \in Worker : at'[w] # "off" => at[w] # "off"
        <3> SUFFICES ASSUME NEW w \in Worker, at[w] = "off"
                     PROVE  w # caller[r]
            BY <1>22 DEF RunnerDies
        <3>1. w # None
            OBVIOUS
        <3>2. caller[r] # None => at[caller[r]] = "called"
            BY Zenon DEF Bonds
        <3> QED
            BY <3>1, <3>2, Zenon
    <2>2. /\ UNCHANGED <<volume, view, raced, handedOver, owed>>
          /\ dirty' = [dirty EXCEPT ![r] = {}]
        BY <1>22 DEF RunnerDies, Bury
    <2> QED
        BY <2>1, <2>2
<1>23. ASSUME NEW r \in Runner, NEW f \in File, Works(r, f) PROVE Kept'
    BY <1>23 DEF Works, Change
<1>24. ASSUME NEW h \in Host, BackgroundCommit(h) PROVE Kept'
    BY <1>24 DEF BackgroundCommit, Commit, TurnOf
<1>25. CASE UNCHANGED vars
    BY <1>25 DEF vars
<1> QED
    BY <1>1, <1>2, <1>3, <1>4, <1>5, <1>6, <1>7, <1>8, <1>9, <1>10, <1>11, <1>12,
       <1>13, <1>14, <1>15, <1>16, <1>17, <1>18, <1>19, <1>20, <1>21, <1>22, <1>23, <1>24,
       <1>25 DEF Next

(* An opening worker has nothing in hand and reloads, so its copy of the    *)
(* marker is the volume's; from then on every commit adds what it puts on  *)
(* the volume to what was in force, and a worker's own setting is added.   *)
LEMMA StepMarked == TypeOK /\ Bonds /\ Marked /\ [Next]_vars => Marked'
<1> SUFFICES ASSUME TypeOK, Bonds, Marked, [Next]_vars PROVE Marked'
    OBVIOUS
<1> USE WorkspaceAssumption DEF WorkspaceAssumption, TypeOK, Host, Serving,
        hosts, workers, runners, counts, histories, Bonds, Marked
<1>1. ASSUME NEW w \in Worker, Open(w, "open") PROVE Marked'
    BY <1>1 DEF Open, Reload
<1>2. ASSUME NEW w \in Worker, Open(w, "setting") PROVE Marked'
    BY <1>2 DEF Open, Reload
<1>3. ASSUME NEW w \in Worker, Set(w) PROVE Marked'
    BY <1>3 DEF Set, Mark, Change
<1>4. ASSUME NEW w \in Worker, Turn(w) PROVE Marked'
    BY <1>4 DEF Turn
<1>5. ASSUME NEW w \in Worker, Finish(w) PROVE Marked'
    BY <1>5 DEF Finish
<1>6. ASSUME NEW w \in Worker, Leave(w) PROVE Marked'
    BY <1>6 DEF Leave
<1>7. ASSUME NEW w \in Worker, Close(w) PROVE Marked'
    BY <1>7 DEF Close, HandOver, Commit, TurnOf
<1>8. ASSUME NEW w \in Worker, Call(w) PROVE Marked'
    BY <1>8 DEF Call, Commit, TurnOf
<1>9. ASSUME NEW w \in Worker, Answered(w) PROVE Marked'
    BY <1>9 DEF Answered, Reload
<1>10. ASSUME NEW w \in Worker, GiveUp(w) PROVE Marked'
    BY <1>10 DEF GiveUp
<1>11. ASSUME NEW w \in Worker, WorkerDies(w) PROVE Marked'
    BY <1>11 DEF WorkerDies, Bury
<1>12. ASSUME NEW w \in Worker, NEW f \in File, Write(w, f) PROVE Marked'
    BY <1>12 DEF Write, Change
<1>13. ASSUME NEW r \in Runner, NEW w \in Worker, Take(r, w) PROVE Marked'
    BY <1>13 DEF Take, Reload
<1>14. ASSUME NEW r \in Runner, Started(r) PROVE Marked'
    BY <1>14 DEF Started
<1>15. ASSUME NEW r \in Runner, NotStarted(r) PROVE Marked'
    BY <1>15 DEF NotStarted
<1>16. ASSUME NEW r \in Runner, Fork(r) PROVE Marked'
    BY <1>16 DEF Fork
<1>17. ASSUME NEW r \in Runner, ShellExits(r) PROVE Marked'
    BY <1>17 DEF ShellExits
<1>18. ASSUME NEW r \in Runner, ChildExits(r) PROVE Marked'
    BY <1>18 DEF ChildExits
<1>19. ASSUME NEW r \in Runner, Finished(r) PROVE Marked'
    BY <1>19 DEF Finished
<1>20. ASSUME NEW r \in Runner, Killed(r) PROVE Marked'
    BY <1>20 DEF Killed, KillTree
<1>21. ASSUME NEW r \in Runner, Reply(r) PROVE Marked'
    BY <1>21 DEF Reply, Commit, TurnOf
<1>22. ASSUME NEW r \in Runner, RunnerDies(r) PROVE Marked'
    BY <1>22 DEF RunnerDies, Bury
<1>23. ASSUME NEW r \in Runner, NEW f \in File, Works(r, f) PROVE Marked'
    BY <1>23 DEF Works, Change
<1>24. ASSUME NEW h \in Host, BackgroundCommit(h) PROVE Marked'
    BY <1>24 DEF BackgroundCommit, Commit, TurnOf
<1>25. CASE UNCHANGED vars
    BY <1>25 DEF vars
<1> QED
    BY <1>1, <1>2, <1>3, <1>4, <1>5, <1>6, <1>7, <1>8, <1>9, <1>10, <1>11, <1>12,
       <1>13, <1>14, <1>15, <1>16, <1>17, <1>18, <1>19, <1>20, <1>21, <1>22, <1>23, <1>24,
       <1>25 DEF Next

(* The turn's versions move from hand to hand: the worker commits before    *)
(* it calls, the runner reloads and has them, commits before it answers,   *)
(* and the worker reloads. A commit by anyone else contests its files.     *)
LEMMA StepWhole == TypeOK /\ Bonds /\ Whole /\ [Next]_vars => Whole'
<1> SUFFICES ASSUME TypeOK, Bonds, Whole, [Next]_vars PROVE Whole'
    OBVIOUS
<1> USE WorkspaceAssumption DEF WorkspaceAssumption, TypeOK, Host, Serving,
        hosts, workers, runners, counts, histories, Bonds, Whole, Placed, Holds
<1>1. ASSUME NEW w \in Worker, Open(w, "open") PROVE Whole'
    BY <1>1 DEF Open, Reload
<1>2. ASSUME NEW w \in Worker, Open(w, "setting") PROVE Whole'
    BY <1>2 DEF Open, Reload
<1>3. ASSUME NEW w \in Worker, Set(w) PROVE Whole'
    BY <1>3 DEF Set, Mark, Change
<1>4. ASSUME NEW w \in Worker, Turn(w) PROVE Whole'
    BY <1>4 DEF Turn
<1>5. ASSUME NEW w \in Worker, Finish(w) PROVE Whole'
    BY <1>5 DEF Finish
<1>6. ASSUME NEW w \in Worker, Leave(w) PROVE Whole'
    BY <1>6 DEF Leave
<1>7. ASSUME NEW w \in Worker, Close(w) PROVE Whole'
    BY <1>7 DEF Close, HandOver, Commit, TurnOf
<1>8. ASSUME NEW w \in Worker, Call(w) PROVE Whole'
    BY <1>8 DEF Call, Commit, TurnOf
<1>9. ASSUME NEW w \in Worker, Answered(w) PROVE Whole'
    BY <1>9 DEF Answered, Reload
<1>10. ASSUME NEW w \in Worker, GiveUp(w) PROVE Whole'
    BY <1>10 DEF GiveUp
<1>11. ASSUME NEW w \in Worker, WorkerDies(w) PROVE Whole'
    BY <1>11 DEF WorkerDies, Bury
<1>12. ASSUME NEW w \in Worker, NEW f \in File, Write(w, f) PROVE Whole'
    BY <1>12 DEF Write, Change
<1>13. ASSUME NEW r \in Runner, NEW w \in Worker, Take(r, w) PROVE Whole'
    BY <1>13 DEF Take, Reload
<1>14. ASSUME NEW r \in Runner, Started(r) PROVE Whole'
    BY <1>14 DEF Started
<1>15. ASSUME NEW r \in Runner, NotStarted(r) PROVE Whole'
    BY <1>15 DEF NotStarted
<1>16. ASSUME NEW r \in Runner, Fork(r) PROVE Whole'
    BY <1>16 DEF Fork
<1>17. ASSUME NEW r \in Runner, ShellExits(r) PROVE Whole'
    BY <1>17 DEF ShellExits
<1>18. ASSUME NEW r \in Runner, ChildExits(r) PROVE Whole'
    BY <1>18 DEF ChildExits
<1>19. ASSUME NEW r \in Runner, Finished(r) PROVE Whole'
    BY <1>19 DEF Finished
<1>20. ASSUME NEW r \in Runner, Killed(r) PROVE Whole'
    BY <1>20 DEF Killed, KillTree
<1>21. ASSUME NEW r \in Runner, Reply(r) PROVE Whole'
    BY <1>21 DEF Reply, Commit, TurnOf
<1>22. ASSUME NEW r \in Runner, RunnerDies(r) PROVE Whole'
    BY <1>22 DEF RunnerDies, Bury
<1>23. ASSUME NEW r \in Runner, NEW f \in File, Works(r, f) PROVE Whole'
    BY <1>23 DEF Works, Change
<1>24. ASSUME NEW h \in Host, BackgroundCommit(h) PROVE Whole'
    BY <1>24 DEF BackgroundCommit, Commit, TurnOf
<1>25. CASE UNCHANGED vars
    BY <1>25 DEF vars
<1> QED
    BY <1>1, <1>2, <1>3, <1>4, <1>5, <1>6, <1>7, <1>8, <1>9, <1>10, <1>11, <1>12,
       <1>13, <1>14, <1>15, <1>16, <1>17, <1>18, <1>19, <1>20, <1>21, <1>22, <1>23, <1>24,
       <1>25 DEF Next

----------------------------------------------------------------------------
(* The theorems.                                                           *)

IInv == TypeOK /\ Bonds /\ Kept /\ Whole /\ Marked

LEMMA InitIInv == Init => IInv
<1> SUFFICES ASSUME Init PROVE IInv
    OBVIOUS
<1>1. TypeOK
    BY InitTypes
<1>2. Bonds /\ Whole /\ Marked
    BY DEF Init, Bonds, Whole, Marked, Host, Serving
<1>3. Kept
    BY DEF Init, Kept, NewestInHand, RacesSeen, HandedOn
<1> QED
    BY <1>1, <1>2, <1>3 DEF IInv

LEMMA AlwaysIInv == Spec => []IInv
<1>1. IInv /\ [Next]_vars => IInv'
    BY StepTypes, StepBonds, StepKept, StepMarked, StepWhole DEF IInv
<1> QED
    BY InitIInv, <1>1, PTL DEF Spec

(* Every variable has its type in every reachable state, for any number of *)
(* workers, runners and files.                                             *)
THEOREM WorkspaceTypes == Spec => []TypeOK
<1>1. IInv => TypeOK
    BY DEF IInv
<1> QED
    BY AlwaysIInv, <1>1, PTL

(* A turn and the command it waits for see the turn's own newest version   *)
(* of every file nobody else committed meanwhile (run_command: one         *)
(* filesystem out of two containers).                                      *)
THEOREM RoundTrip == Spec => []OneFilesystem
<1>1. ASSUME IInv,
             NEW w \in Worker, NEW f \in File \ contested[w], mine[w][f] # 0
      PROVE  /\ at[w] = "turn" => view[w][f] = mine[w][f]
             /\ \A r \in Runner : caller[r] = w => view[r][f] = mine[w][f]
    <2>1. Placed(w, f)
        BY <1>1 DEF IInv, Whole
    <2>2. at[w] = "turn" => view[w][f] = mine[w][f]
        BY <2>1 DEF Placed, Holds
    <2>3. ASSUME NEW r \in Runner, caller[r] = w
          PROVE  view[r][f] = mine[w][f]
        <3>1. at[w] = "called"
            BY <1>1, <2>3, WorkspaceAssumption DEF WorkspaceAssumption, IInv, Bonds
        <3> QED
            BY <2>1, <2>3, <3>1 DEF Placed, Holds
    <2> QED
        BY <2>2, <2>3
<1>2. IInv => OneFilesystem
    BY <1>1 DEF OneFilesystem
<1> QED
    BY AlwaysIInv, <1>2, PTL

(* A turn has the files its conversation's earlier workers closed with: the *)
(* last commit of one is before the reload of the next (control_app.py).   *)
THEOREM FilesAreThere == Spec => []EarlierWorkSeen
<1>1. ASSUME IInv, NEW w \in Worker, NEW f \in File \ raced, at[w] \in Serving
      PROVE  view[w][f] >= owed[w][f]
    <2>1. at[w] # "off" /\ owed[w][f] <= view[w][f]
        BY <1>1 DEF IInv, Kept, HandedOn, Serving
    <2>2. view[w][f] \in Nat /\ owed[w][f] \in Nat
        BY <1>1 DEF IInv, TypeOK, Host
    <2> QED
        BY <2>1, <2>2
<1>2. IInv => EarlierWorkSeen
    BY <1>1 DEF EarlierWorkSeen
<1> QED
    BY AlwaysIInv, <1>2, PTL

(* A turn runs under a setting that was in force since its worker opened,  *)
(* never under an older one (mode.py; the reload of                        *)
(* process_telegram_update, which makes its agents anew).                  *)
THEOREM SettingsRecent == Spec => []ModeIsRecent
<1>1. ASSUME IInv, NEW w \in Worker, at[w] \in Serving
      PROVE  graph[w] \in inForce[w]
    BY <1>1 DEF IInv, Marked, Serving
<1>2. IInv => ModeIsRecent
    BY <1>1 DEF ModeIsRecent
<1> QED
    BY AlwaysIInv, <1>2, PTL
=============================================================================
