----------------------------- MODULE AgentGraphs -----------------------------
(* The graphs one Agent keeps compiled, one for each thread                 *)
(* (app/agent/runtime.py, Agent._graph), the settings they are compiled     *)
(* with, which are markers in the person's workspace, and the one           *)
(* checkpoint connection under them (app/checkpoints.py). Everything runs   *)
(* on one event loop: a task is interrupted where it awaits and nowhere     *)
(* else.                                                                    *)
EXTENDS Naturals, FiniteSets

CONSTANTS Thread,       \* threads of one person, a turn at a time in each
          Ceiling,      \* what the server says it accepts
          Chosen,       \* AgentSettings.context_tokens, or 0
          MaxSwitches,  \* bound: settings changed
          MaxUses,      \* bound: graphs asked for
          MaxOpens      \* bound: connections opened

\* What the constants must satisfy.
GraphsAssumption ==
    {Ceiling, Chosen, MaxSwitches, MaxUses, MaxOpens} \subseteq Nat

VARIABLES markers,   \* the workspace: the mode, the plan switch and the context size
          asked,     \* _asked_the_limit
          limit,     \* _limit, 0 when the server said nothing
          handle,    \* CheckpointHandle: its saver, and the connections opened so far
          cache,     \* _graphs
          task,      \* each thread's turn: where it is in _graph, and what it has read
          switches, uses,
          across     \* history: tasks that began to compile before the last change

graphs == <<markers, asked, limit, handle, cache, task, switches, uses, across>>

NoGraph == [tools |-> {}, budget |-> 0, saver |-> 0]
NoTask == [at |-> "idle", graph |-> NoGraph]
NoSaver == 0
Sizes == {"small", "normal", "large"}
Share(size) == CASE size = "small" -> 25 [] size = "normal" -> 80 [] size = "large" -> 95

Init ==
    /\ markers = [careful |-> FALSE, plan |-> FALSE, size |-> "normal"]
    /\ asked = FALSE /\ limit = 0
    /\ handle = [saver |-> NoSaver, opened |-> 0]
    /\ cache = [thread \in Thread |-> NoGraph]
    /\ task = [thread \in Thread |-> NoTask]
    /\ switches = 0 /\ uses = 0 /\ across = {}

At(thread, at) == task[thread].at = at
Go(thread, at) == task' = [task EXCEPT ![thread].at = at]

-----------------------------------------------------------------------------
(* A setting is changed by a command that travels beside the turns. *)

\* Mutated: rewire forgets the graphs nobody is compiling only.
RewireIdle ==
    cache' = [thread \in Thread |-> IF At(thread, "idle") THEN cache[thread] ELSE NoGraph]

\* rewire(): every compiled graph is forgotten.
Rewire == cache' = [thread \in Thread |-> NoGraph]

Switch(changed) ==
    /\ switches < MaxSwitches /\ changed # markers
    /\ markers' = changed /\ switches' = switches + 1
    /\ Rewire
    /\ across' = across \cup {thread \in Thread :
                    task[thread].at \in {"asking", "connecting", "normalizing"}}
    /\ UNCHANGED <<asked, limit, handle, task, uses>>

-----------------------------------------------------------------------------
(* _graph, from await to await. *)

\* toolbox(): what is read from the workspace when a graph is compiled.
Tools == {name \in {"careful", "plan"} : markers[name]}

\* budget(), once the limit is known: the size is read now.
Lesser(a, b) == IF a < b THEN a ELSE b
Budget(known) ==
    IF known = 0 THEN 0
    ELSE IF Chosen # 0 THEN Lesser(Chosen, known)
    ELSE (known * Share(markers.size)) \div 100

\* Once the budget is known nothing is awaited but a connection not yet made:
\* the graph is compiled and kept, and the turn goes on with it.
Compiled(thread, graph, saver) ==
    LET with == [graph EXCEPT !.saver = saver]
    IN  /\ cache' = [cache EXCEPT ![thread] = with]
        /\ task' = [task EXCEPT ![thread] = [at |-> "using", graph |-> with]]
Opening(thread, graph) ==
    IF handle.saver # NoSaver THEN Compiled(thread, graph, handle.saver)
    ELSE /\ task' = [task EXCEPT ![thread] = [at |-> "connecting", graph |-> graph]]
         /\ UNCHANGED cache

\* A graph that is there is used; otherwise its tools are read, and the server
\* is asked for its limit unless it was before.
Lookup(thread) ==
    /\ At(thread, "idle") /\ uses < MaxUses
    /\ uses' = uses + 1
    /\ IF cache[thread] # NoGraph
       THEN /\ task' = [task EXCEPT ![thread] = [at |-> "using", graph |-> cache[thread]]]
            /\ UNCHANGED <<cache, across>>
       ELSE /\ across' = across \ {thread}
            /\ LET read == [NoGraph EXCEPT !.tools = Tools]
               IN  IF asked THEN Opening(thread, [read EXCEPT !.budget = Budget(limit)])
                   ELSE /\ task' = [task EXCEPT ![thread] = [at |-> "asking", graph |-> read]]
                        /\ UNCHANGED cache
    /\ UNCHANGED <<markers, asked, limit, handle, switches>>

\* context_limit() answers, or the server is silent, which is remembered too.
Answered(thread) ==
    /\ At(thread, "asking")
    /\ \E known \in {0, Ceiling} :
          /\ asked' = TRUE /\ limit' = known
          /\ Opening(thread, [task[thread].graph EXCEPT !.budget = Budget(known)])
    /\ UNCHANGED <<markers, handle, switches, uses, across>>

\* open(): a connection is made, and another by whoever comes meanwhile. It is
\* the handle's before its session is prepared.
Connected(thread) ==
    /\ At(thread, "connecting") /\ handle.opened < MaxOpens
    /\ handle' = [saver |-> handle.opened + 1, opened |-> handle.opened + 1]
    /\ Go(thread, "normalizing")
    /\ UNCHANGED <<markers, asked, limit, cache, switches, uses, across>>

\* SET search_path, or setup(): open() returns the handle's saver as it is now.
Normalized(thread) ==
    /\ At(thread, "normalizing")
    /\ Compiled(thread, task[thread].graph, handle.saver)
    /\ UNCHANGED <<markers, asked, limit, handle, switches, uses, across>>

\* The connection cannot be made, or its session cannot be prepared: the turn
\* fails, and in the second case the handle keeps it.
OpenFails(thread) ==
    /\ task[thread].at \in {"connecting", "normalizing"}
    /\ task' = [task EXCEPT ![thread] = NoTask]
    /\ UNCHANGED <<markers, asked, limit, handle, cache, switches, uses, across>>

\* The turn has used its graph: for the next question it asks again.
Used(thread) ==
    /\ At(thread, "using")
    /\ task' = [task EXCEPT ![thread] = NoTask]
    /\ UNCHANGED <<markers, asked, limit, handle, cache, switches, uses, across>>

Next ==
    \/ \E changed \in [careful : BOOLEAN, plan : BOOLEAN, size : Sizes] :
          /\ Cardinality({name \in DOMAIN markers : markers[name] # changed[name]}) = 1
          /\ Switch(changed)
    \/ \E thread \in Thread :
          \/ Lookup(thread) \/ Answered(thread) \/ Connected(thread)
          \/ Normalized(thread) \/ OpenFails(thread) \/ Used(thread)

Spec == Init /\ [][Next]_graphs
=============================================================================
