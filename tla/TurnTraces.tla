----------------------------- MODULE TurnTraces -----------------------------
(* The telemetry of turns (app/telemetry): the recorder of each turn a      *)
(* process works on, what reaches the two tables, and how a turn is read    *)
(* back from them. A turn is worked on again, under the same run_id, when   *)
(* its update is. No failure of the store reaches the turn.                 *)
EXTENDS Naturals, Sequences, FiniteSets

CONSTANTS Run,          \* identities given at ingress
          Kind,         \* what a turn brackets: "model", "tool", "step"
          FlushAt,      \* FLUSH_AT
          MaxBrackets,  \* bound: brackets opened for one update
          MaxAttempts,  \* bound: attempts at one update
          MaxFailures   \* bound: writes the database fails

\* What the constants must satisfy.
TelemetryAssumption ==
    /\ Kind \subseteq {"model", "tool", "step"} /\ FlushAt \in Nat \ {0}
    /\ {MaxBrackets, MaxAttempts, MaxFailures} \subseteq Nat

VARIABLES active,    \* the process's recorders, by run
          db,        \* the tables, and the connection to them
          told       \* history: by run, what its attempts really did

traced == <<active, db, told>>

NoOutcome == "none"
NoCount == [kind \in Kind |-> 0]
NoRow == [status |-> NoOutcome, outcome |-> NoOutcome, counts |-> NoCount]
Recorder == [seq |-> 0, pending |-> <<>>, finished |-> FALSE, open |-> {},
             row |-> [NoRow EXCEPT !.status = "running"]]
NoRecorder == [Recorder EXCEPT !.finished = TRUE, !.row = NoRow]
NoAttempt == [attempts |-> 0, ended |-> NoOutcome, brackets |-> 0, made |-> {}]

Init ==
    /\ active = [run \in Run |-> NoRecorder]
    /\ db = [rows |-> [run \in Run |-> NoRow], events |-> [run \in Run |-> {}],
             conn |-> "open", failures |-> 0, lost |-> {}]
    /\ told = [run \in Run |-> NoAttempt]

-----------------------------------------------------------------------------
(* The two tables. A write may find the connection dead, which is dropped   *)
(* and opened anew by the next; or be refused by the database, which leaves *)
(* it in a transaction that refuses whatever follows.                       *)

Failures(state, run, conns) ==
    (IF state.conn = "aborted" THEN {[state EXCEPT !.lost = @ \cup {run}]} ELSE {})
    \cup {[state EXCEPT !.conn = conn, !.failures = @ + 1, !.lost = @ \cup {run}] :
             conn \in IF state.failures < MaxFailures THEN conns ELSE {}}

\* INSERT ... ON CONFLICT (run_id, seq) DO NOTHING.
Inserted(table, batch) ==
    table \cup {event \in {batch[k] : k \in DOMAIN batch} :
                     \A other \in table : other.seq # event.seq}

RecordEvents(state, run, batch) ==
    IF batch = <<>> THEN {state}
    ELSE Failures(state, run, {"none", "aborted"})
         \cup IF state.conn = "aborted" THEN {}
              ELSE {[state EXCEPT !.conn = "open", !.events[run] = Inserted(@, batch)]}

\* INSERT ... ON CONFLICT (run_id) DO UPDATE.
WriteRow(state, run, row) ==
    Failures(state, run, {"none"})
    \cup IF state.conn = "aborted" THEN {}
         ELSE {[state EXCEPT !.conn = "open", !.rows[run] = row]}

-----------------------------------------------------------------------------
(* The recorder. *)

Event(recorder, type, kind, index) ==
    [seq |-> recorder.seq + 1, type |-> type, kind |-> kind, index |-> index]
With(recorder, event) ==
    [recorder EXCEPT !.seq = event.seq, !.pending = Append(@, event)]

Flushed(recorder) == [recorder EXCEPT !.pending = <<>>]

\* event(): a batch that is full is written, best effort.
Emit(run, recorder, event) ==
    LET with == With(recorder, event)
    IN  IF Len(with.pending) >= FlushAt
        THEN /\ active' = [active EXCEPT ![run] = Flushed(with)]
             /\ db' \in RecordEvents(db, run, with.pending)
        ELSE /\ active' = [active EXCEPT ![run] = with]
             /\ UNCHANGED db

\* An update's work begins: for the first time, or again after an attempt that
\* failed or died. The event goes before the row.
Start(run) ==
    /\ active[run] = NoRecorder
    /\ told[run].attempts < MaxAttempts /\ told[run].ended \in {NoOutcome, "failed", "died"}
    /\ active' = [active EXCEPT ![run] =
                    With(Recorder, Event(Recorder, "turn_started", NoOutcome, 0))]
    /\ db' \in WriteRow(db, run, Recorder.row)
    /\ told' = [told EXCEPT ![run].attempts = @ + 1, ![run].ended = NoOutcome, ![run].made = {}]

Working(run) == ~active[run].finished

\* Mutated: a call is numbered by those under way.
OpenByUnderWay(run, kind) ==
    /\ Working(run) /\ told[run].brackets < MaxBrackets
    /\ LET index == IF kind = "step" THEN 0
                    ELSE Cardinality({c \in active[run].open : c[1] = kind}) + 1
           counted == [active[run] EXCEPT !.row.counts[kind] = index,
                                          !.open = @ \cup {<<kind, index>>}]
       IN  /\ Emit(run, counted, Event(counted, "started", kind, index))
           /\ told' = [told EXCEPT ![run].brackets = @ + 1]

\* step(), model() and tool() open: the calls are counted, a step is not.
Open(run, kind) ==
    /\ Working(run) /\ told[run].brackets < MaxBrackets
    /\ kind = "step" => <<"step", 0>> \notin active[run].open
    /\ LET index == IF kind = "step" THEN 0 ELSE active[run].row.counts[kind] + 1
           counted == [active[run] EXCEPT !.row.counts[kind] = index,
                                          !.open = @ \cup {<<kind, index>>}]
       IN  /\ Emit(run, counted, Event(counted, "started", kind, index))
           /\ told' = [told EXCEPT ![run].brackets = @ + 1]

Streamed(run, call) == Working(run) /\ call \in active[run].open /\ call[1] = "model"

\* The first piece of a streamed answer.
FirstToken(run, call) ==
    /\ Streamed(run, call)
    /\ call \notin {m[1] : m \in {n \in told[run].made : n[2] = "first_token"}}
    /\ Emit(run, active[run], Event(active[run], "first_token", call[1], call[2]))
    /\ told' = [told EXCEPT ![run].made = @ \cup {<<call, "first_token">>}]

\* A bracket is left: normally, by an exception, or by a cancellation, which
\* is no Exception and leaves no event.
Leave(run, call, how) ==
    /\ Working(run) /\ call \in active[run].open
    /\ LET left == [active[run] EXCEPT !.open = @ \ {call}]
       IN  IF how = "cancelled"
           THEN active' = [active EXCEPT ![run] = left] /\ UNCHANGED db
           ELSE Emit(run, left, Event(left, how, call[1], call[2]))
    /\ told' = [told EXCEPT ![run].made = @ \cup {<<call, how>>}]

Closed(recorder, outcome) ==
    LET row == [recorder.row EXCEPT !.outcome = outcome,
                   !.status = IF outcome = "failed" THEN "failed" ELSE "completed"]
        type == IF outcome = "failed" THEN "turn_failed" ELSE "turn_finished"
    IN  [With(recorder, Event(recorder, type, NoOutcome, 0)) EXCEPT !.row = row, !.finished = TRUE]

\* finish(): the first outcome is kept; the events go before the row.
Finish(run, outcome) ==
    /\ Working(run) /\ active[run].open = {}
    /\ LET closed == Closed(active[run], outcome)
       IN  /\ active' = [active EXCEPT ![run] = Flushed(closed)]
           /\ \E state \in RecordEvents(db, run, closed.pending) :
                 db' \in WriteRow(state, run, closed.row)
    /\ told' = [told EXCEPT ![run].ended = outcome]

\* The handler's finally: a turn nobody closed is closed as failed first.
Release(run) ==
    /\ active[run] # NoRecorder /\ active[run].finished
    /\ active' = [active EXCEPT ![run] = NoRecorder]
    /\ UNCHANGED <<db, told>>

\* The process dies, with what its recorders had not written.
Die ==
    /\ \E run \in Run : active[run] # NoRecorder
    /\ active' = [run \in Run |-> NoRecorder]
    /\ db' = [db EXCEPT !.conn = "none"]
    /\ told' = [run \in Run |-> IF Working(run)
                                THEN [told[run] EXCEPT !.ended = "died"] ELSE told[run]]

Next ==
    \/ Die
    \/ \E run \in Run :
          \/ Start(run) \/ Release(run)
          \/ \E kind \in Kind : Open(run, kind)
          \/ \E outcome \in {"answer_delivered", "failed"} : Finish(run, outcome)
          \/ \E call \in Kind \X (0..MaxBrackets) :
                \/ FirstToken(run, call)
                \/ \E how \in {"finished", "failed", "cancelled"} : Leave(run, call, how)

Spec == Init /\ [][Next]_traced

-----------------------------------------------------------------------------
(* How a turn is read back (inspect.py, recent_runs). *)

\* One row for each call, joined from its events by its number; the last that
\* ends it counts.
CallsRead(kind, table) ==
    LET of(index) == {event \in table : event.kind = kind /\ event.index = index}
        ends(index) == {event \in of(index) : event.type \in {"finished", "failed"}}
    IN  {<<index, IF ends(index) = {} THEN NoOutcome
                  ELSE (CHOOSE last \in ends(index) :
                           \A other \in ends(index) : other.seq <= last.seq).type>> :
            index \in {event.index : event \in {e \in table : e.kind = kind}}}

\* What recent_runs(unsuccessful) lists: a failure, or a turn that never ended.
Unsuccessful(row) ==
    row # NoRow /\ (row.outcome = "failed" \/ row.status = "running")
=============================================================================
