------------------------------ MODULE Workspace ------------------------------
(***************************************************************************)
(* One person's workspace on a volume that containers copy                 *)
(* (deploy/modal/control_app.py): the workers that serve the person's      *)
(* conversation one update at a time, a worker beside them for each        *)
(* control update that sets a marker (/mode, /plan, /context, /agents:     *)
(* app/agent/mode.py and ui/telegram/adapter.py), and the containers that  *)
(* run commands (run_command, ModalRunner, app/tools/shell.py).            *)
(*                                                                         *)
(* A container sees its own copy: reload brings in what others committed,  *)
(* commit hands its own changes over, file by file, the last one winning;  *)
(* the platform also commits by itself.  A version of a file is a number   *)
(* in the order of writing.  The lease of the conversation (UpdateDelivery)*)
(* is taken for granted: one worker at a time answers its line.            *)
(***************************************************************************)
EXTENDS Naturals, FiniteSets

CONSTANTS
  Worker,      \* containers of process_telegram_update
  Runner,      \* containers of run_command
  File,        \* files of the workspace
  Marker,      \* the one of them that holds a setting
  None,
  MaxWrites,   \* bound: versions written
  MaxTurns,    \* bound: updates of the conversation's line
  MaxDeaths    \* bound: containers that die

ASSUME WorkspaceAssumption ==
  /\ Marker \in File /\ None \notin Worker \cup Runner \cup Nat
  /\ Worker \cap Runner = {} /\ {MaxWrites, MaxTurns, MaxDeaths} \subseteq Nat

VARIABLES
  volume,      \* version of each file on the volume
  view,        \* version of each file in each container
  dirty,       \* files a container changed since its last commit
  at,          \* where a worker's invocation stands
  graph,       \* the marker its agent's graph was compiled under, or None
  mine,        \* per worker: the version its turn last gave a file, or 0
  at_runner,   \* where a command's container stands
  caller,      \* the worker that waits for it, or None
  shell,       \* the command's own process: "none", "up", "exited"
  child,       \* what it started: "none", "piped" (its output kept), "quiet"
  written,     \* number of versions so far
  turns, deaths,
  contested,   \* history: per worker, files others committed during its turn
  inForce,     \* history: per worker, markers that were in force since it opened
  raced,       \* history: files two containers held changes of at once
  handedOver,  \* history: newest version of a file a worker closed with
  owed,        \* history: per worker, what had been handed over when it opened
  promisedDead \* history: runners that reported their command as killed

hosts == <<volume, view, dirty>>
workers == <<at, graph, mine>>
runners == <<at_runner, caller, shell, child, promisedDead>>
counts == <<written, turns, deaths>>
histories == <<contested, inForce, raced, handedOver, owed>>
vars == <<hosts, workers, runners, counts, histories>>

Host == Worker \cup Runner
Serving == {"turn", "called", "answered"}

TypeOK ==
  /\ written \in Nat /\ turns \in Nat /\ deaths \in Nat
  /\ volume \in [File -> 0..written]
  /\ view \in [Host -> [File -> 0..written]] /\ dirty \in [Host -> SUBSET File]
  /\ at \in [Worker -> {"off", "open", "between", "closing", "setting"} \cup Serving]
  /\ graph \in [Worker -> 0..written \cup {None}] /\ mine \in [Worker -> [File -> 0..written]]
  /\ at_runner \in [Runner -> {"idle", "opening", "running", "done"}]
  /\ caller \in [Runner -> Worker \cup {None}]
  /\ shell \in [Runner -> {"none", "up", "exited"}]
  /\ child \in [Runner -> {"none", "piped", "quiet"}]
  /\ contested \in [Worker -> SUBSET File] /\ inForce \in [Worker -> SUBSET (0..written)]
  /\ raced \in SUBSET File /\ promisedDead \in SUBSET Runner
  /\ handedOver \in [File -> 0..written] /\ owed \in [Worker -> [File -> 0..written]]

Init ==
  /\ volume = [f \in File |-> 0] /\ view = [h \in Host |-> [f \in File |-> 0]]
  /\ dirty = [h \in Host |-> {}]
  /\ at = [w \in Worker |-> "off"] /\ graph = [w \in Worker |-> None]
  /\ mine = [w \in Worker |-> [f \in File |-> 0]]
  /\ at_runner = [r \in Runner |-> "idle"] /\ caller = [r \in Runner |-> None]
  /\ shell = [r \in Runner |-> "none"] /\ child = [r \in Runner |-> "none"]
  /\ promisedDead = {} /\ written = 0 /\ turns = 0 /\ deaths = 0
  /\ contested = [w \in Worker |-> {}] /\ inForce = [w \in Worker |-> {}]
  /\ raced = {} /\ handedOver = [f \in File |-> 0]
  /\ owed = [w \in Worker |-> [f \in File |-> 0]]

----------------------------------------------------------------------------
(* The volume.                                                             *)

Reload(h) ==
  /\ view' = [view EXCEPT ![h] = [f \in File |-> IF f \in dirty[h] THEN view[h][f] ELSE volume[f]]]
  /\ UNCHANGED <<volume, dirty>>

(* Whose turn a container works for: its own, or its caller's.             *)
TurnOf(h) == IF h \in Worker THEN h ELSE caller[h]
Commit(h) ==
  /\ volume' = [f \in File |-> IF f \in dirty[h] THEN view[h][f] ELSE volume[f]]
  /\ dirty' = [dirty EXCEPT ![h] = {}]
  /\ contested' = [w \in Worker |->
       contested[w] \cup IF w # TurnOf(h) /\ at[w] \in Serving THEN dirty[h] ELSE {}]
  /\ inForce' = [w \in Worker |->
       inForce[w] \cup IF at[w] # "off" THEN {volume'[Marker]} ELSE {}]
  /\ UNCHANGED view

(* The platform commits in the background.                                 *)
BackgroundCommit(h) ==
  /\ dirty[h] # {} /\ Commit(h)
  /\ UNCHANGED <<workers, runners, counts, raced, handedOver, owed>>

Change(h, f) ==
  /\ written < MaxWrites /\ written' = written + 1
  /\ view' = [view EXCEPT ![h][f] = written + 1]
  /\ dirty' = [dirty EXCEPT ![h] = @ \cup {f}]
  /\ raced' = IF \E other \in Host \ {h} : f \in dirty[other] THEN raced \cup {f} ELSE raced
  /\ UNCHANGED <<volume, turns, deaths, handedOver, owed>>

----------------------------------------------------------------------------
(* Workers: process_telegram_update.  A worker opens (reload), answers the *)
(* update it was started for and those behind it, and closes (commit).     *)

(* Mutated: the agents of the container live on between its invocations.   *)
OpenKeepingAgents(w, purpose) ==
  /\ at[w] = "off" /\ turns < MaxTurns
  /\ Reload(w)
  /\ at' = [at EXCEPT ![w] = purpose]
  /\ graph' = graph
  /\ inForce' = [inForce EXCEPT ![w] = {volume[Marker]}]
  /\ owed' = [owed EXCEPT ![w] = handedOver]
  /\ UNCHANGED <<mine, runners, counts, contested, raced, handedOver>>

Open(w, purpose) ==
  /\ at[w] = "off" /\ turns < MaxTurns
  /\ Reload(w)
  /\ at' = [at EXCEPT ![w] = purpose]
  /\ graph' = [graph EXCEPT ![w] = None]
  /\ inForce' = [inForce EXCEPT ![w] = {volume[Marker]}]
  /\ owed' = [owed EXCEPT ![w] = handedOver]
  /\ UNCHANGED <<mine, runners, counts, contested, raced, handedOver>>

(* A control update: _on_mode and its like (set_mode, set_planning,        *)
(* set_context_choice, write_instructions) write the marker, and rewire.   *)
Mark(w) == Change(w, Marker)
Set(w) ==
  /\ at[w] = "setting" /\ Mark(w)
  /\ at' = [at EXCEPT ![w] = "closing"] /\ graph' = [graph EXCEPT ![w] = None]
  /\ inForce' = [inForce EXCEPT ![w] = @ \cup {written + 1}]
  /\ UNCHANGED <<mine, runners, contested>>

(* The claim of the next update of the line, and the agent's graph, which  *)
(* is compiled for the first turn of the invocation.                       *)
Turn(w) ==
  /\ at[w] \in {"open", "between"} /\ turns < MaxTurns
  /\ \A other \in Worker : at[other] \notin Serving
  /\ at' = [at EXCEPT ![w] = "turn"] /\ turns' = turns + 1
  /\ graph' = [graph EXCEPT ![w] = IF @ = None THEN view[w][Marker] ELSE @]
  /\ UNCHANGED <<hosts, mine, runners, written, deaths, histories>>

(* write_file and edit_file: replaced whole, by a move into place.         *)
Write(w, f) ==
  /\ at[w] = "turn" /\ Change(w, f)
  /\ mine' = [mine EXCEPT ![w][f] = written + 1]
  /\ inForce' = IF f = Marker THEN [inForce EXCEPT ![w] = @ \cup {written + 1}] ELSE inForce
  /\ UNCHANGED <<at, graph, runners, contested>>

(* The update is completed, or put back, and the line looked at again.     *)
Finish(w) ==
  /\ at[w] = "turn" /\ at' = [at EXCEPT ![w] = "between"]
  /\ mine' = [mine EXCEPT ![w] = [f \in File |-> 0]]
  /\ contested' = [contested EXCEPT ![w] = {}]
  /\ UNCHANGED <<hosts, graph, runners, counts, inForce, raced, handedOver, owed>>

(* Nothing to claim, or not this one's to claim, or handed on.             *)
Leave(w) ==
  /\ at[w] \in {"open", "between"} /\ at' = [at EXCEPT ![w] = "closing"]
  /\ UNCHANGED <<hosts, graph, mine, runners, counts, histories>>

HandOver(w) ==
  /\ handedOver' = [f \in File |->
       IF view[w][f] > handedOver[f] THEN view[w][f] ELSE handedOver[f]]
  /\ UNCHANGED <<raced, owed>>

(* Mutated: the worker goes without its last commit.                       *)
CloseUncommitted(w) ==
  /\ at[w] = "closing" /\ HandOver(w)
  /\ at' = [at EXCEPT ![w] = "off"]
  /\ UNCHANGED <<hosts, graph, mine, runners, counts, contested, inForce>>

Close(w) ==
  /\ at[w] = "closing" /\ Commit(w) /\ HandOver(w)
  /\ at' = [at EXCEPT ![w] = "off"]
  /\ UNCHANGED <<graph, mine, runners, counts>>

----------------------------------------------------------------------------
(* A command: ModalRunner.run on the worker's side.                        *)

Call(w) ==
  /\ at[w] = "turn" /\ Commit(w)
  /\ at' = [at EXCEPT ![w] = "called"]
  /\ UNCHANGED <<graph, mine, runners, counts, raced, handedOver, owed>>

(* The answer came, with output or a failure of the command's own.         *)
Answered(w) ==
  /\ at[w] = "answered" /\ Reload(w)
  /\ at' = [at EXCEPT ![w] = "turn"]
  /\ UNCHANGED <<graph, mine, runners, counts, histories>>

(* The executor's deadline passes: what the command does from now on is    *)
(* not this turn's any more.                                               *)
GiveUp(w) ==
  /\ at[w] = "called" /\ at' = [at EXCEPT ![w] = "turn"]
  /\ caller' = [r \in Runner |-> IF caller[r] = w THEN None ELSE caller[r]]
  /\ mine' = [mine EXCEPT ![w] = [f \in File |-> 0]]
  /\ UNCHANGED <<hosts, graph, at_runner, shell, child, promisedDead, counts, histories>>

(* run_command on the command's side.                                      *)
Take(r, w) ==
  /\ at_runner[r] = "idle" /\ at[w] = "called" /\ \A o \in Runner : caller[o] # w
  /\ Reload(r)
  /\ at_runner' = [at_runner EXCEPT ![r] = "opening"] /\ caller' = [caller EXCEPT ![r] = w]
  /\ promisedDead' = promisedDead \ {r}
  /\ contested' = [contested EXCEPT ![w] = @ \cup dirty[r]]
  /\ UNCHANGED <<workers, shell, child, counts, inForce, raced, handedOver, owed>>

Started(r) ==
  /\ at_runner[r] = "opening"
  /\ at_runner' = [at_runner EXCEPT ![r] = "running"] /\ shell' = [shell EXCEPT ![r] = "up"]
  /\ UNCHANGED <<hosts, workers, caller, child, promisedDead, counts, histories>>
NotStarted(r) ==
  /\ at_runner[r] = "opening"
  /\ at_runner' = [at_runner EXCEPT ![r] = "done"]
  /\ UNCHANGED <<hosts, workers, caller, shell, child, promisedDead, counts, histories>>

(* The command starts a process, which may outlive it; either may write.   *)
Fork(r) ==
  /\ shell[r] = "up" /\ child[r] = "none"
  /\ \E kind \in {"piped", "quiet"} : child' = [child EXCEPT ![r] = kind]
  /\ UNCHANGED <<hosts, workers, at_runner, caller, shell, promisedDead, counts, histories>>
Works(r, f) ==
  /\ shell[r] = "up" \/ child[r] # "none"
  /\ Change(r, f)
  /\ mine' = [w \in Worker |->
       IF w = caller[r] THEN [mine[w] EXCEPT ![f] = written + 1] ELSE mine[w]]
  /\ UNCHANGED <<at, graph, runners, contested, inForce>>
ShellExits(r) ==
  /\ shell[r] = "up" /\ shell' = [shell EXCEPT ![r] = "exited"]
  /\ UNCHANGED <<hosts, workers, at_runner, caller, child, promisedDead, counts, histories>>
ChildExits(r) ==
  /\ child[r] # "none" /\ child' = [child EXCEPT ![r] = "none"]
  /\ UNCHANGED <<hosts, workers, at_runner, caller, shell, promisedDead, counts, histories>>

(* communicate returns when the output is closed.                          *)
Finished(r) ==
  /\ shell[r] = "exited" /\ child[r] # "piped"
  /\ at_runner' = [at_runner EXCEPT ![r] = "done"] /\ shell' = [shell EXCEPT ![r] = "none"]
  /\ UNCHANGED <<hosts, workers, caller, child, promisedDead, counts, histories>>

(* _kill_tree: nothing when the shell has exited, its whole group else.    *)
KillTree(r) ==
  child' = IF shell[r] = "up" THEN [child EXCEPT ![r] = "none"] ELSE child
(* The command's timeout, or the call taken back by a worker that gave up  *)
(* or died.                                                                *)
Killed(r) ==
  /\ at_runner[r] = "running" /\ KillTree(r)
  /\ shell[r] = "up" \/ child[r] = "piped"
  /\ at_runner' = [at_runner EXCEPT ![r] = "done"] /\ shell' = [shell EXCEPT ![r] = "none"]
  /\ promisedDead' = promisedDead \cup {r}
  /\ UNCHANGED <<hosts, workers, caller, counts, histories>>

(* Mutated: the command's changes stay in its container.                   *)
ReplyUncommitted(r) ==
  /\ at_runner[r] = "done"
  /\ at_runner' = [at_runner EXCEPT ![r] = "idle"] /\ caller' = [caller EXCEPT ![r] = None]
  /\ at' = [w \in Worker |-> IF w = caller[r] THEN "answered" ELSE at[w]]
  /\ UNCHANGED <<hosts, graph, mine, shell, child, promisedDead, counts, histories>>

(* The finally of run_command, however the command went.                   *)
Reply(r) ==
  /\ at_runner[r] = "done" /\ Commit(r)
  /\ at_runner' = [at_runner EXCEPT ![r] = "idle"] /\ caller' = [caller EXCEPT ![r] = None]
  /\ at' = [w \in Worker |-> IF w = caller[r] THEN "answered" ELSE at[w]]
  /\ UNCHANGED <<graph, mine, shell, child, promisedDead, counts, raced, handedOver, owed>>

----------------------------------------------------------------------------
(* Deaths: a container killed, preempted or out of memory takes what it    *)
(* had not committed with it; a caller gets an exception, and no reload.   *)
Bury(h) ==
  /\ deaths < MaxDeaths /\ deaths' = deaths + 1
  /\ dirty' = [dirty EXCEPT ![h] = {}]
  /\ UNCHANGED <<volume, view, written, turns, inForce, raced, handedOver, owed>>
WorkerDies(w) ==
  /\ at[w] # "off" /\ Bury(w)
  /\ at' = [at EXCEPT ![w] = "off"] /\ graph' = [graph EXCEPT ![w] = None]
  /\ caller' = [r \in Runner |-> IF caller[r] = w THEN None ELSE caller[r]]
  /\ mine' = [mine EXCEPT ![w] = [f \in File |-> 0]]
  /\ contested' = [contested EXCEPT ![w] = {}]
  /\ UNCHANGED <<at_runner, shell, child, promisedDead>>
RunnerDies(r) ==
  /\ at_runner[r] # "idle" \/ child[r] # "none"
  /\ Bury(r)
  /\ at_runner' = [at_runner EXCEPT ![r] = "idle"] /\ caller' = [caller EXCEPT ![r] = None]
  /\ shell' = [shell EXCEPT ![r] = "none"] /\ child' = [child EXCEPT ![r] = "none"]
  /\ at' = [w \in Worker |-> IF w = caller[r] THEN "turn" ELSE at[w]]
  /\ mine' = [w \in Worker |-> IF w = caller[r] THEN [f \in File |-> 0] ELSE mine[w]]
  /\ UNCHANGED <<graph, promisedDead, contested>>

Next ==
  \/ \E w \in Worker :
       \/ Open(w, "open") \/ Open(w, "setting") \/ Set(w) \/ Turn(w) \/ Finish(w)
       \/ Leave(w) \/ Close(w) \/ Call(w) \/ Answered(w) \/ GiveUp(w) \/ WorkerDies(w)
       \/ \E f \in File : Write(w, f)
  \/ \E r \in Runner :
       \/ \E w \in Worker : Take(r, w)
       \/ Started(r) \/ NotStarted(r) \/ Fork(r) \/ ShellExits(r) \/ ChildExits(r)
       \/ Finished(r) \/ Killed(r) \/ Reply(r) \/ RunnerDies(r)
       \/ \E f \in File : Works(r, f)
  \/ \E h \in Host : BackgroundCommit(h)

Spec == Init /\ [][Next]_vars

----------------------------------------------------------------------------
(* Properties.                                                             *)

(* "The round trip that makes one filesystem out of two containers"        *)
(* (run_command): a turn, and the command it waits for, sees its own       *)
(* newest version of every file it changed, wherever it changed it, unless *)
(* somebody else committed that file meanwhile.                            *)
OneFilesystem ==
  \A w \in Worker : \A f \in File \ contested[w] :
    mine[w][f] # 0 =>
      /\ at[w] = "turn" => view[w][f] = mine[w][f]
      /\ \A r \in Runner : caller[r] = w => view[r][f] = mine[w][f]

(* "Committing afterwards is what makes this turn's files exist for the    *)
(* next one, whichever container answers it" (process_telegram_update): a  *)
(* turn has every file as it was, or newer, when the last worker that      *)
(* closed before its own opened had it, unless two containers held changes *)
(* of the file at once.  The files of an update that is completed while    *)
(* its worker has not closed are owed to nobody yet: the commit comes last.*)
EarlierWorkSeen ==
  \A w \in Worker : \A f \in File \ raced :
    at[w] \in Serving => view[w][f] >= owed[w][f]

(* The setting a turn runs under was in force at some time since its       *)
(* worker opened: an older one never comes back (mode.py: "a change takes  *)
(* effect from the next message").                                         *)
ModeIsRecent ==
  \A w \in Worker : at[w] \in Serving => graph[w] \in inForce[w]

(* _kill_tree: "Stop the command and everything it started."  A command    *)
(* reported as killed has nothing left that can change a file.             *)
KilledMeansDead ==
  \A r \in promisedDead : at_runner[r] \in {"idle", "done"} => child[r] = "none"
=============================================================================
