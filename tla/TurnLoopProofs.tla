--------------------------- MODULE TurnLoopProofs ---------------------------
(***************************************************************************)
(* Theorems of TurnLoop, for any tools, budget, steering limit and number  *)
(* of dying workers.                                                       *)
(***************************************************************************)
EXTENDS TurnLoop, SequenceTheorems, FiniteSetTheorems, TLAPS

----------------------------------------------------------------------------
(* The transcript.                                                         *)

LEMMA BatchFacts ==
  ASSUME TypeOK, transcript # <<>>
  PROVE  /\ Last \in Nat \ {0} /\ Last \in 1..Last
         /\ Batch \in Seq(Call) /\ Len(Batch) \in Nat
         /\ Calls = 1..Len(Batch) /\ Batch \in [Calls -> Call]
  <1>1. transcript \in Seq(Seq(Call))
    BY DEF TypeOK
  <1>2. Last \in Nat \ {0}
    BY <1>1, EmptySeq DEF Last
  <1>3. Batch \in Seq(Call)
    BY <1>1, <1>2, ElementOfSeq DEF Last, Batch
  <1> QED
    BY <1>2, <1>3, LenProperties DEF Calls

LEMMA AnswerFacts ==
  ASSUME TypeOK, transcript # <<>>, NEW b \in [Calls -> Call], AnswerBatch(b)
  PROVE  /\ transcript' \in Seq(Seq(Call)) /\ transcript' # <<>>
         /\ Last' = Last /\ Batch' = b /\ Calls' = Calls /\ Len(Batch') = Len(Batch)
         /\ \A k \in 1..Last : transcript'[k] = IF k = Last THEN b ELSE transcript[k]
  <1>1. b \in Seq(Call) /\ Len(b) = Len(Batch) /\ DOMAIN b = Calls
    <2>1. b \in [1..Len(Batch) -> Call]
      BY BatchFacts
    <2>2. b \in Seq(Call)
      BY <2>1, BatchFacts, SeqDef
    <2>3. DOMAIN b = 1..Len(b) /\ Len(b) \in Nat
      BY <2>2, LenProperties
    <2>4. DOMAIN b = 1..Len(Batch) /\ Len(Batch) \in Nat
      BY <2>1, BatchFacts
    <2>5. Len(b) = Len(Batch)
      BY <2>3, <2>4
    <2> QED
      BY <2>2, <2>5, <2>4, BatchFacts
  <1>2. transcript \in Seq(Seq(Call)) /\ Last \in 1..Len(transcript)
    BY BatchFacts DEF TypeOK, Last
  <1>3. transcript' = [transcript EXCEPT ![Last] = b]
    BY DEF AnswerBatch
  <1>4. /\ transcript' \in Seq(Seq(Call)) /\ Len(transcript') = Len(transcript)
        /\ \A k \in 1..Len(transcript) :
             transcript'[k] = IF k = Last THEN b ELSE transcript[k]
    BY <1>1, <1>2, <1>3, ExceptSeq
  <1>5. transcript' # <<>>
    BY <1>2, <1>4, EmptySeq
  <1> QED
    BY <1>1, <1>2, <1>4, <1>5 DEF Last, Batch, Calls

LEMMA AppendFacts ==
  ASSUME TypeOK, NEW b \in Seq(Call), transcript' = Append(transcript, b)
  PROVE  /\ transcript' \in Seq(Seq(Call)) /\ transcript' # <<>>
         /\ Last \in Nat /\ Last' = Last + 1 /\ Batch' = b
         /\ \A k \in 1..Last : transcript'[k] = transcript[k]
  <1>1. transcript \in Seq(Seq(Call))
    BY DEF TypeOK
  <1>2. /\ transcript' \in Seq(Seq(Call)) /\ Len(transcript) \in Nat
        /\ Len(transcript') = Len(transcript) + 1
        /\ transcript'[Len(transcript) + 1] = b
        /\ \A k \in 1..Len(transcript) : transcript'[k] = transcript[k]
    BY <1>1, AppendProperties, LenProperties
  <1>3. transcript' # <<>>
    BY <1>2, EmptySeq
  <1> QED
    BY <1>2, <1>3 DEF Last, Batch

(* No step touches an earlier batch or the calls of the last.              *)
OpsKept ==
  /\ Last \in Nat /\ Last' \in Nat /\ Last <= Last'
  /\ \A k \in 1..Last :
       /\ DOMAIN transcript'[k] = DOMAIN transcript[k]
       /\ \A i \in DOMAIN transcript[k] : transcript'[k][i].op = transcript[k][i].op

LEMMA AnswerKeepsOps ==
  ASSUME TypeOK, transcript # <<>>, NEW b \in [Calls -> Call], AnswerBatch(b),
         \A i \in Calls : b[i].op = Batch[i].op
  PROVE  OpsKept
  BY AnswerFacts, BatchFacts DEF OpsKept, Batch, Calls

----------------------------------------------------------------------------
(* Types.                                                                  *)

LEMMA Counters ==
  ASSUME TypeOK
  PROVE  /\ steps \in Nat /\ toolCalls \in Nat /\ steerings \in Nat /\ late \in Nat
         /\ stored \in Nat /\ missed \in Nat /\ crashes \in Nat
  BY Zenon DEF TypeOK

LEMMA PriceTyped ==
  ASSUME TypeOK, At("model"), Price
  PROVE  /\ steps' \in Nat /\ overtime' \in BOOLEAN /\ late' \in Nat
         /\ asked = {} /\ phase = "at" /\ next = "model"
  <1>1. overtime' \in BOOLEAN
    BY Zenon DEF TypeOK, Price
  <1>2. steps' = steps + 1 /\ late' = IF stopped THEN late + 1 ELSE late
    BY Zenon DEF Price
  <1>3. steps' \in Nat /\ late' \in Nat
    BY <1>2, Counters
  <1>4. phase = "at" /\ next = "model"
    BY DEF At
  <1>5. asked = {}
    BY <1>4 DEF TypeOK
  <1> QED
    BY <1>1, <1>3, <1>4, <1>5

LEMMA ReplyTyped ==
  ASSUME TypeOK, Reply
  PROVE  TypeOK'
  BY PriceTyped DEF TypeOK, Reply, process

(* A batch joins the transcript with every call open. *)
LEMMA AskFacts ==
  ASSUME TypeOK, AskForTools, next' = "tools"
  PROVE  /\ transcript' \in Seq(Seq(Call)) /\ transcript' # <<>>
         /\ Last \in Nat /\ Last' = Last + 1
         /\ \A k \in 1..Last : transcript'[k] = transcript[k]
         /\ next' = "tools" /\ stopping \notin ENDING
  <1>0. next' = "tools" /\ stopping \notin ENDING
    BY DEF AskForTools
  <1>1. PICK n \in 1..MaxBatch : \E ops \in [1..n -> Op] :
          transcript' = Append(transcript,
                          [i \in 1..n |-> [op |-> ops[i], result |-> "open"]])
    BY DEF AskForTools
  <1>2. PICK ops \in [1..n -> Op] :
          transcript' = Append(transcript,
                          [i \in 1..n |-> [op |-> ops[i], result |-> "open"]])
    BY <1>1
  <1>3. [i \in 1..n |-> [op |-> ops[i], result |-> "open"]] \in [1..n -> Call] /\ n \in Nat
    BY LoopAssumption DEF Call
  <1>4. [i \in 1..n |-> [op |-> ops[i], result |-> "open"]] \in Seq(Call)
    BY <1>3, SeqDef
  <1> QED
    BY <1>0, <1>2, <1>4, AppendFacts

LEMMA SteerTyped ==
  ASSUME TypeOK, Steer
  PROVE  TypeOK'
  <1>1. steerings' \in Nat
    BY Counters DEF Steer
  <1> QED
    BY <1>1, PriceTyped DEF TypeOK, Steer, process

LEMMA AskForToolsTyped ==
  ASSUME TypeOK, AskForTools
  PROVE  TypeOK'
  <1>1. /\ steps' \in Nat /\ overtime' \in BOOLEAN /\ late' \in Nat
        /\ asked = {} /\ phase = "at" /\ next = "model"
    BY PriceTyped DEF AskForTools
  <1>2. CASE UNCHANGED transcript /\ next' = "persist"
    BY <1>1, <1>2 DEF TypeOK, AskForTools, process
  <1>3. CASE next' = "tools"
    <2>1. transcript' \in Seq(Seq(Call)) /\ transcript' # <<>>
      BY <1>3, AskFacts
    <2>2. /\ steered' = FALSE
          /\ UNCHANGED <<toolCalls, stopping, steerings, asked, process, stored, stopped, missed,
                         crashes, ran, ranAgain, approved>>
      BY DEF AskForTools
    <2>3. /\ asked' = {} /\ phase' = "at"
          /\ UNCHANGED <<toolCalls, stopping, steerings, answered, yes, results, stored,
                         stopped, missed, crashes, ran, ranAgain, approved>>
      BY <1>1, <2>2 DEF process
    <2>4. /\ stopping' \in ENDING \cup {"", "stopped"} /\ toolCalls' \in Nat
          /\ steerings' \in Nat /\ answered' \in BOOLEAN /\ yes' \subseteq Nat
          /\ results' \in Seq({"open", "ok", "failed"})
          /\ stored' \in Nat /\ stopped' \in BOOLEAN /\ missed' \in Nat /\ crashes' \in Nat
          /\ ran' \subseteq Nat \X Nat /\ ranAgain' \subseteq ran'
          /\ approved' \subseteq Nat \X Nat
      BY <2>3 DEF TypeOK
    <2>5. /\ next' \in {"model", "tools", "persist", "end"}
          /\ steered' \in BOOLEAN /\ asked' \subseteq Nat
          /\ phase' \in {"off", "at", "tools", "stored"}
          /\ next' = "tools" => transcript' # <<>>
          /\ asked' # {} => next' = "tools" /\ asked' \subseteq Calls'
          /\ phase' = "tools" => next' = "tools" /\ Len(results') = Len(Batch')
          /\ phase' = "stored" => next' = "persist"
      BY <1>3, <2>1, <2>2, <2>3
    <2> QED
      BY <1>1, <2>1, <2>4, <2>5, Zenon DEF TypeOK
  <1> QED
    BY <1>2, <1>3 DEF AskForTools

LEMMA ModelTyped ==
  ASSUME TypeOK, AskForTools \/ Reply \/ Steer
  PROVE  TypeOK'
  BY AskForToolsTyped, ReplyTyped, SteerTyped

LEMMA HaltedFacts ==
  ASSUME TypeOK, transcript # <<>>
  PROVE  /\ Halted \in [Calls -> Call]
         /\ \A i \in Calls : Halted[i].op = Batch[i].op /\ Halted[i].result = "failed"
  BY BatchFacts DEF Halted, Call

LEMMA MissedTyped ==
  ASSUME TypeOK, NoStopRead
  PROVE  missed' \in Nat
  BY Counters DEF NoStopRead

LEMMA HaltTyped ==
  ASSUME TypeOK, StopTurn \/ EndTurn
  PROVE  TypeOK'
  <1>1. next = "tools" /\ phase = "at" /\ transcript # <<>> /\ AnswerBatch(Halted)
    BY DEF TypeOK, StopTurn, EndTurn, At
  <1>2. transcript' \in Seq(Seq(Call))
    BY <1>1, HaltedFacts, AnswerFacts
  <1>3. missed' \in Nat
    BY MissedTyped, Counters DEF StopTurn, EndTurn
  <1> QED
    BY <1>1, <1>2, <1>3 DEF TypeOK, StopTurn, EndTurn, UnchangedInTools, ENDING

LEMMA AskTyped ==
  ASSUME TypeOK, AskPerson
  PROVE  TypeOK'
  <1>1. transcript # <<>> /\ next = "tools" /\ phase = "at"
    BY DEF TypeOK, AskPerson, Proceeds, At
  <1>2. Risky \subseteq Calls /\ Calls \subseteq Nat
    BY <1>1, BatchFacts DEF Risky, ToRun
  <1>3. Calls' = Calls /\ Batch' = Batch
    BY DEF AskPerson, Calls, Batch, Last
  <1>4. missed' \in Nat
    BY MissedTyped DEF AskPerson, Proceeds
  <1> QED
    BY <1>1, <1>2, <1>3, <1>4 DEF TypeOK, AskPerson, UnchangedInTools

LEMMA BeginTyped ==
  ASSUME TypeOK, BeginTools
  PROVE  /\ TypeOK'
         /\ \A i \in Calls : results'[i] =
              IF i \in ToRun /\ (i \in Risky => i \in yes) THEN "open" ELSE "failed"
  <1>1. transcript # <<>> /\ next = "tools" /\ phase = "at"
    BY DEF TypeOK, BeginTools, Proceeds, At
  <1>2. results' \in [1..Len(Batch) -> {"open", "ok", "failed"}] /\ Len(Batch) \in Nat
    BY <1>1, BatchFacts DEF BeginTools
  <1>3. results' \in Seq({"open", "ok", "failed"})
    BY <1>2, SeqDef
  <1>4. Len(results') = Len(Batch)
    BY <1>2, <1>3, LenProperties
  <1>5. Calls' = Calls /\ Batch' = Batch
    BY DEF BeginTools, Calls, Batch, Last
  <1>6. missed' \in Nat
    BY MissedTyped DEF BeginTools, Proceeds
  <1> QED
    BY <1>1, <1>3, <1>4, <1>5, <1>6, BatchFacts DEF TypeOK, BeginTools, UnchangedInTools

LEMMA RunCallTyped ==
  ASSUME TypeOK, RunCall
  PROVE  /\ TypeOK'
         /\ \E i \in Calls, r \in {"ok", "failed"} :
              /\ results[i] = "open"
              /\ \A j \in Calls : results'[j] = IF j = i THEN r ELSE results[j]
              /\ Run({<<Last, i>>})
  <1>1. transcript # <<>> /\ next = "tools" /\ phase = "tools" /\ Len(results) = Len(Batch)
    BY DEF TypeOK, RunCall
  <1>2. PICK i \in Calls, r \in {"ok", "failed"} :
          results[i] = "open" /\ results' = [results EXCEPT ![i] = r] /\ Run({<<Last, i>>})
    BY DEF RunCall
  <1>3. results \in Seq({"open", "ok", "failed"}) /\ i \in 1..Len(results)
    BY <1>1, BatchFacts DEF TypeOK
  <1>4. /\ results' \in Seq({"open", "ok", "failed"}) /\ Len(results') = Len(results)
        /\ \A j \in 1..Len(results) : results'[j] = IF j = i THEN r ELSE results[j]
    BY <1>2, <1>3, ExceptSeq
  <1>5. Calls' = Calls /\ Batch' = Batch /\ Calls = 1..Len(results) /\ Calls \subseteq Nat
    BY <1>1, BatchFacts DEF RunCall, Calls, Batch, Last
  <1>6. ran' \subseteq Nat \X Nat /\ ranAgain' \subseteq ran'
    <2>1. <<Last, i>> \in Nat \X Nat
      BY <1>1, <1>5, BatchFacts
    <2> QED
      BY <1>2, <2>1 DEF Run, TypeOK
  <1>7. TypeOK'
    BY <1>1, <1>4, <1>5, <1>6 DEF TypeOK, RunCall, UnchangedInTools
  <1> QED
    BY <1>2, <1>4, <1>5, <1>7

LEMMA CountCalls ==
  ASSUME TypeOK, transcript # <<>>, NEW S, S \subseteq Calls
  PROVE  Cardinality(S) \in Nat
  <1>1. IsFiniteSet(1..Len(Batch)) /\ S \subseteq 1..Len(Batch)
    BY BatchFacts, FS_Interval
  <1>2. IsFiniteSet(S)
    BY <1>1, FS_Subset
  <1> QED
    BY <1>2, FS_CardinalityType

LEMMA CommitTyped ==
  ASSUME TypeOK, CommitTools
  PROVE  /\ TypeOK'
         /\ transcript # <<>>
         /\ \E b \in [Calls -> Call] :
              /\ AnswerBatch(b)
              /\ \A i \in Calls : b[i].op = Batch[i].op /\ b[i].result # "open"
  <1>1. transcript # <<>> /\ next = "tools" /\ phase = "tools" /\ Len(results) = Len(Batch)
    BY DEF TypeOK, CommitTools
  <1> DEFINE b == [i \in Calls |-> [Batch[i] EXCEPT !.result = results[i]]]
  <1>2. \A i \in Calls : results[i] \in {"ok", "failed"}
    <2>1. results \in Seq({"open", "ok", "failed"}) /\ Calls = 1..Len(results)
      BY <1>1, BatchFacts DEF TypeOK
    <2>2. \A i \in Calls : results[i] \in {"open", "ok", "failed"}
      BY <2>1, ElementOfSeq
    <2> QED
      BY <2>2 DEF CommitTools
  <1>3. b \in [Calls -> Call] /\ \A i \in Calls : b[i].op = Batch[i].op /\ b[i].result # "open"
    BY <1>1, <1>2, BatchFacts DEF Call
  <1>4. AnswerBatch(b)
    BY DEF CommitTools
  <1>5. transcript' \in Seq(Seq(Call))
    BY <1>1, <1>3, <1>4, AnswerFacts
  <1>6. toolCalls' \in Nat
    <2>1. Ran \subseteq Calls
      BY DEF Ran, ToRun
    <2>2. Cardinality(Ran) \in Nat
      BY <1>1, <2>1, CountCalls
    <2>3. toolCalls' = toolCalls + Cardinality(Ran)
      BY Zenon DEF CommitTools
    <2> QED
      BY <2>2, <2>3, Counters
  <1>7. <<>> \in Seq({"open", "ok", "failed"})
    BY EmptySeq
  <1>8. TypeOK'
    BY <1>1, <1>5, <1>6, <1>7 DEF TypeOK, CommitTools, UnchangedInTools, ENDING
  <1> QED
    BY <1>1, <1>3, <1>4, <1>8

LEMMA PersistTyped ==
  ASSUME TypeOK, Store \/ Finish
  PROVE  TypeOK'
  <1>1. CASE Store
    BY <1>1 DEF TypeOK, Store, checkpoint, history, At, Calls, Batch, Last
  <1>2. CASE Finish
    BY <1>2 DEF TypeOK, Finish, history
  <1> QED
    BY <1>1, <1>2

LEMMA StopTyped ==
  ASSUME TypeOK, Stop
  PROVE  TypeOK'
  BY DEF TypeOK, Stop, checkpoint, process, history, Calls, Batch, Last

LEMMA CrashTyped ==
  ASSUME TypeOK, Crash
  PROVE  TypeOK'
  <1>1. crashes' \in Nat
    BY Counters DEF Crash
  <1>2. <<>> \in Seq({"open", "ok", "failed"})
    BY EmptySeq
  <1> QED
    BY <1>1, <1>2 DEF TypeOK, Crash, checkpoint, history, Calls, Batch, Last

LEMMA WorldTyped ==
  ASSUME TypeOK, Stop \/ Answer \/ Crash \/ UNCHANGED vars
  PROVE  TypeOK'
  <1>1. CASE Stop
    BY <1>1, StopTyped
  <1>4. CASE UNCHANGED vars
    BY <1>4, ZenonT(30) DEF TypeOK, vars, checkpoint, process, history, Calls, Batch, Last
  <1>2. CASE Crash
    BY <1>2, CrashTyped
  <1>3. CASE Answer
    <2>1. PICK said \in SUBSET asked :
            yes' = said /\ approved' = approved \cup {<<Last, i>> : i \in said}
      BY <1>3 DEF Answer
    <2>2. transcript # <<>> /\ asked \subseteq Calls
      BY <1>3 DEF TypeOK, Answer
    <2>3. Last \in Nat /\ Calls \subseteq Nat
      BY <2>2, BatchFacts
    <2>p. {<<Last, i>> : i \in said} \subseteq Nat \X Nat
      BY <2>2, <2>3
    <2>4. yes' \subseteq Nat /\ approved' \subseteq Nat \X Nat
      BY <2>1, <2>2, <2>3, <2>p DEF TypeOK
    <2> QED
      BY <1>3, <2>4 DEF TypeOK, Answer, checkpoint, Calls, Batch, Last
  <1> QED
    BY <1>1, <1>2, <1>3, <1>4

LEMMA ResumeTyped ==
  ASSUME TypeOK, Resume
  PROVE  /\ TypeOK'
         /\ next = "tools" =>
              /\ transcript # <<>>
              /\ \E b \in [Calls -> Call] :
                   /\ AnswerBatch(b)
                   /\ \A i \in Calls : b[i].op = Batch[i].op /\ b[i].result # "open"
  <1>1. CASE next # "tools"
    BY <1>1 DEF TypeOK, Resume, Unfinished
  <1>2. CASE next = "tools"
    <2>1. transcript # <<>> /\ asked = {}
      BY <1>2 DEF TypeOK, Resume, Unfinished
    <2>2. PICK b \in [Calls -> Call] :
            /\ \A i \in Calls : b[i].op = Batch[i].op /\ b[i].result # "open"
            /\ AnswerBatch(b)
      BY <1>2 DEF Resume
    <2>3. transcript' \in Seq(Seq(Call))
      BY <2>1, <2>2, AnswerFacts
    <2>4. Replayed \subseteq Calls /\ Calls \subseteq Nat /\ Last \in Nat
      BY <2>1, BatchFacts DEF Replayed
    <2>c. Cardinality(Replayed) \in Nat
      BY <2>1, <2>4, CountCalls
    <2>d. toolCalls' = toolCalls + Cardinality(Replayed)
      BY <1>2, Zenon DEF Resume
    <2>5. toolCalls' \in Nat
      BY <2>c, <2>d, Counters
    <2>r. {Last} \X Replayed \subseteq Nat \X Nat
      BY <2>4
    <2>6. ran' \subseteq Nat \X Nat /\ ranAgain' \subseteq ran'
      BY <1>2, <2>r DEF Resume, Run, TypeOK
    <2>7. TypeOK'
      BY <1>2, <2>1, <2>3, <2>5, <2>6 DEF TypeOK, Resume
    <2> QED
      BY <2>1, <2>2, <2>7
  <1> QED
    BY <1>1, <1>2

LEMMA DieResumingFacts ==
  ASSUME TypeOK, DieResuming
  PROVE  /\ TypeOK'
         /\ next = "tools" /\ phase = "off" /\ asked = {} /\ transcript # <<>>
         /\ \E positions \in SUBSET Replayed : Run({Last} \X positions)
         /\ crashes' = crashes + 1
         /\ UNCHANGED <<checkpoint, process, stored, stopped, missed, approved, late>>
  <1>1. /\ next = "tools" /\ phase = "off" /\ asked = {} /\ transcript # <<>>
        /\ crashes' = crashes + 1
        /\ UNCHANGED <<checkpoint, process, stored, stopped, missed, approved, late>>
    BY DEF DieResuming, Unfinished, TypeOK
  <1>2. PICK positions \in SUBSET Replayed : Run({Last} \X positions)
    BY DEF DieResuming
  <1>3. positions \subseteq Nat /\ Last \in Nat
    BY <1>1, BatchFacts DEF Replayed
  <1>4. ran' \subseteq Nat \X Nat /\ ranAgain' \subseteq ran'
    <2>1. {Last} \X positions \subseteq Nat \X Nat
      BY <1>3
    <2> QED
      BY <1>2, <2>1 DEF Run, TypeOK
  <1>5. crashes' \in Nat
    BY <1>1, Counters
  <1>6. TypeOK'
    BY <1>1, <1>4, <1>5 DEF TypeOK, checkpoint, process, Calls, Batch, Last
  <1> QED
    BY <1>1, <1>2, <1>6

LEMMA TypeStep ==
  ASSUME TypeOK, [Next]_vars
  PROVE  TypeOK'
  BY ModelTyped, HaltTyped, AskTyped, BeginTyped, RunCallTyped, CommitTyped, PersistTyped,
     WorldTyped, ResumeTyped, DieResumingFacts
  DEF Next, ModelNode, ToolsNode, PersistNode

LEMMA TypeInit == Init => TypeOK
  <1> SUFFICES ASSUME Init PROVE TypeOK
    OBVIOUS
  <1>1. <<>> \in Seq(Seq(Call)) /\ <<>> \in Seq({"open", "ok", "failed"})
    BY EmptySeq
  <1> QED
    BY <1>1 DEF Init, TypeOK, ENDING

----------------------------------------------------------------------------
(* The parts of the inductive invariant.                                   *)

(* Only the batch the tools node has before it may lack results. *)
Settled ==
  \A k \in 1..Last :
    \/ next = "tools" /\ k = Last
    \/ \A i \in DOMAIN transcript[k] : transcript[k][i].result # "open"

(* A worker died in the tools node, and its batch is nobody's question. *)
Interrupted == phase = "off" /\ next = "tools" /\ asked = {}

(* A resumed batch skips the budget check once, for which its worker died. *)
Spending ==
  /\ next = "model" => steps <= MaxSteps + crashes
  /\ (next = "model" /\ stopping \notin ENDING) \/ Interrupted
       => steps + 1 <= MaxSteps + crashes
  /\ next = "tools" => stopping \notin ENDING /\ steps <= MaxSteps + crashes
  /\ StepsBounded

(* Away from the tools node, and in a batch it let run, every step since   *)
(* the stop is paid for by a steering, a death or a read that failed.      *)
Heeding ==
  /\ ~stopped => late = 0
  /\ next = "model" \/ phase = "tools" \/ Interrupted
       => late <= steerings + crashes + missed
  /\ StopIsHeeded

(* Whatever is about to run and needs a yes has one. *)
Consent ==
  /\ ConsentBeforeRunning
  /\ \A p \in ran : p[1] \in 1..Last /\ p[2] \in DOMAIN transcript[p[1]]
  /\ \A i \in yes : <<Last, i>> \in approved
  /\ next # "tools" \/ phase = "off" \/ ~answered => yes = {}
  /\ phase = "tools" =>
       \A i \in Calls : results[i] = "open" /\ Batch[i].op \in NeedsApproval
                         => <<Last, i>> \in approved

(* A batch nobody was asked about is begun once. *)
Once ==
  /\ NothingRunsAgain
  /\ asked # {} => \E i \in Calls : Batch[i].op \in NeedsApproval
  /\ next = "tools" /\ asked = {} /\ phase = "at" => \A i \in Calls : <<Last, i>> \notin ran
  /\ phase = "tools" /\ asked = {} =>
       \A i \in Calls : results[i] = "open" => <<Last, i>> \notin ran

Keeping == StoredOnce /\ (phase = "stored" => stored = 1)

LEMMA SettledStep ==
  ASSUME TypeOK, Settled, [Next]_vars
  PROVE  Settled'
  <1>1. CASE AskForTools
    <2>1. next = "model"
      BY <1>1 DEF AskForTools, At
    <2>2. CASE UNCHANGED transcript
      BY <2>1, <2>2 DEF Settled, Last
    <2>3. CASE next' = "tools"
      <3>1. /\ Last \in Nat /\ Last' = Last + 1
            /\ \A k \in 1..Last : transcript'[k] = transcript[k]
        BY <1>1, <2>3, AskFacts
      <3> QED
        BY <2>1, <2>3, <3>1 DEF Settled
    <2> QED
      BY <1>1, <2>2, <2>3 DEF AskForTools
  <1>2. CASE Reply \/ Steer
    BY <1>2 DEF Reply, Steer, At, Settled, Last
  <1>3. ASSUME next = "tools", transcript # <<>>, NEW b \in [Calls -> Call], AnswerBatch(b),
               \A i \in Calls : b[i].result # "open"
        PROVE  Settled'
    <2>1. /\ Last' = Last
          /\ \A k \in 1..Last : transcript'[k] = IF k = Last THEN b ELSE transcript[k]
      BY <1>3, AnswerFacts
    <2>2. \A k \in 1..Last : k # Last =>
            \A i \in DOMAIN transcript[k] : transcript[k][i].result # "open"
      BY DEF Settled
    <2>3. \A i \in DOMAIN b : b[i].result # "open"
      BY <1>3
    <2> QED
      BY <2>1, <2>2, <2>3 DEF Settled
  <1>4. CASE StopTurn \/ EndTurn
    <2>1. next = "tools" /\ transcript # <<>> /\ AnswerBatch(Halted)
      BY <1>4 DEF StopTurn, EndTurn, At, TypeOK
    <2> QED
      BY <2>1, <1>3, HaltedFacts
  <1>5. CASE CommitTools
    BY <1>3, <1>5, CommitTyped DEF CommitTools, TypeOK
  <1>6. CASE Resume
    <2>1. CASE next = "tools"
      BY <1>3, <1>6, <2>1, ResumeTyped
    <2>2. CASE next # "tools"
      BY <1>6, <2>2 DEF Resume, Settled, Last
    <2> QED
      BY <2>1, <2>2
  <1>7. CASE AskPerson \/ BeginTools \/ RunCall
    BY <1>7 DEF AskPerson, BeginTools, RunCall, Settled, Last
  <1>8. CASE Store \/ Stop \/ Answer \/ Crash \/ DieResuming \/ UNCHANGED vars
    <2>1. next' = next /\ transcript' = transcript
      BY <1>8 DEF Store, Stop, Answer, Crash, DieResuming, vars, checkpoint
    <2> QED
      BY <2>1 DEF Settled, Last
  <1>9. CASE Finish
    <2>1. next = "persist" /\ transcript' = transcript
      BY <1>9 DEF Finish, TypeOK
    <2> QED
      BY <2>1 DEF Settled, Last
  <1> QED
    BY <1>1, <1>2, <1>4, <1>5, <1>6, <1>7, <1>8, <1>9
    DEF Next, ModelNode, ToolsNode, PersistNode

LEMMA SpendingStep ==
  ASSUME TypeOK, Spending, [Next]_vars
  PROVE  Spending'
  <1>1. steps \in Nat /\ crashes \in Nat /\ MaxSteps \in Nat
    BY Counters, LoopAssumption
  <1>2. ASSUME AskForTools \/ Reply PROVE Spending'
    <2>1. next = "model" /\ phase' = "at" /\ steps' = steps + 1 /\ crashes' = crashes
          /\ stopping' = stopping
      BY <1>2 DEF AskForTools, Reply, At, Price, process
    <2>2. next' = "persist" \/ (next' = "tools" /\ stopping \notin ENDING)
      BY <1>2 DEF AskForTools, Reply
    <2> QED
      BY <1>1, <2>1, <2>2 DEF Spending, StepsBounded, Interrupted
  <1>3. ASSUME Steer PROVE Spending'
    <2>1. next' = "model" /\ phase' = "at" /\ steps' = steps + 1 /\ crashes' = crashes
          /\ ~(steps' >= MaxSteps)
      BY <1>3 DEF Steer, At, Price, process, Spent
    <2> QED
      BY <1>1, <2>1 DEF Spending, StepsBounded, Interrupted
  <1>4. ASSUME StopTurn \/ Finish PROVE Spending'
    <2>1. next' \in {"persist", "end"} /\ steps' = steps /\ crashes' = crashes
      BY <1>4 DEF StopTurn, Finish, UnchangedInTools
    <2> QED
      BY <1>1, <2>1 DEF Spending, StepsBounded, Interrupted
  <1>5. ASSUME EndTurn PROVE Spending'
    <2>1. next = "tools" /\ next' = "model" /\ phase' = "at" /\ stopping' \in ENDING
          /\ steps' = steps /\ crashes' = crashes
      BY <1>5 DEF EndTurn, UnchangedInTools, At, ENDING
    <2> QED
      BY <1>1, <2>1 DEF Spending, StepsBounded, Interrupted
  <1>6. ASSUME AskPerson PROVE Spending'
    <2>1. next' = next /\ stopping' = stopping /\ steps' = steps /\ crashes' = crashes
          /\ asked' # {} /\ next = "tools"
      BY <1>6 DEF AskPerson, UnchangedInTools, Proceeds, At
    <2> QED
      BY <1>1, <2>1 DEF Spending, StepsBounded, Interrupted
  <1>7. ASSUME BeginTools \/ RunCall PROVE Spending'
    <2>1. next' = next /\ stopping' = stopping /\ steps' = steps /\ crashes' = crashes
          /\ phase' = "tools" /\ next = "tools"
      BY <1>7 DEF BeginTools, RunCall, UnchangedInTools, Proceeds, At, TypeOK
    <2> QED
      BY <1>1, <2>1 DEF Spending, StepsBounded, Interrupted
  <1>8. ASSUME CommitTools PROVE Spending'
    <2>1. next' = "model" /\ phase' = "at" /\ steps' = steps /\ crashes' = crashes
          /\ next = "tools"
      BY <1>8 DEF CommitTools, UnchangedInTools, TypeOK
    <2>2. stopping' \in ENDING \/ ~(steps >= MaxSteps)
      BY <1>8 DEF CommitTools, OverBudget, ENDING
    <2> QED
      BY <1>1, <2>1, <2>2 DEF Spending, StepsBounded, Interrupted
  <1>9. ASSUME Store \/ Answer PROVE Spending'
    <2>1. next' = next /\ stopping' = stopping /\ steps' = steps /\ crashes' = crashes
          /\ phase' # "off"
      BY <1>9 DEF Store, Answer, checkpoint
    <2> QED
      BY <1>1, <2>1 DEF Spending, StepsBounded, Interrupted
  <1>10. ASSUME Stop \/ UNCHANGED vars PROVE Spending'
    <2>1. UNCHANGED <<next, stopping, steps, crashes, phase, asked>>
      BY <1>10 DEF Stop, vars, checkpoint, process
    <2> QED
      BY <1>1, <2>1 DEF Spending, StepsBounded, Interrupted
  <1>11. ASSUME Crash \/ DieResuming PROVE Spending'
    <2>1. next' = next /\ stopping' = stopping /\ steps' = steps /\ crashes' = crashes + 1
      BY <1>11 DEF Crash, DieResuming, checkpoint
    <2> QED
      BY <1>1, <2>1 DEF Spending, StepsBounded, Interrupted
  <1>12. ASSUME Resume PROVE Spending'
    <2>1. phase' = "at" /\ stopping' = stopping /\ steps' = steps /\ crashes' = crashes
          /\ (next # "tools" => next' = next) /\ (next = "tools" => Interrupted /\ next' = "model")
      BY <1>12 DEF Resume, Unfinished, Interrupted
    <2> QED
      BY <1>1, <2>1 DEF Spending, StepsBounded, Interrupted
  <1> QED
    BY <1>2, <1>3, <1>4, <1>5, <1>6, <1>7, <1>8, <1>9, <1>10, <1>11, <1>12
    DEF Next, ModelNode, ToolsNode, PersistNode

LEMMA HeedingStep ==
  ASSUME TypeOK, Heeding, [Next]_vars
  PROVE  Heeding'
  <1>1. late \in Nat /\ steerings \in Nat /\ crashes \in Nat /\ missed \in Nat
    BY Counters
  <1>2. ASSUME AskForTools \/ Reply PROVE Heeding'
    <2>1. /\ next = "model" /\ next' \in {"tools", "persist"} /\ phase' = "at"
          /\ late' = (IF stopped THEN late + 1 ELSE late)
          /\ UNCHANGED <<steerings, stopped, missed, crashes>>
      BY <1>2 DEF AskForTools, Reply, At, Price, process
    <2> QED
      BY <1>1, <2>1 DEF Heeding, StopIsHeeded, Interrupted
  <1>3. ASSUME Steer PROVE Heeding'
    <2>1. /\ next = "model" /\ next' = "model" /\ phase' = "at"
          /\ late' = (IF stopped THEN late + 1 ELSE late)
          /\ steerings' = steerings + 1 /\ UNCHANGED <<stopped, missed, crashes>>
      BY <1>3 DEF Steer, At, Price, process
    <2> QED
      BY <1>1, <2>1 DEF Heeding, StopIsHeeded, Interrupted
  <1>4. ASSUME StopTurn \/ Store \/ Finish PROVE Heeding'
    <2>1. /\ next' \in {"persist", "end"} /\ phase' # "tools"
          /\ UNCHANGED <<late, steerings, stopped, missed, crashes>>
      BY <1>4 DEF StopTurn, Store, Finish, At, UnchangedInTools, checkpoint, history
    <2> QED
      BY <1>1, <2>1 DEF Heeding, StopIsHeeded, Interrupted
  <1>5. ASSUME EndTurn \/ AskPerson \/ BeginTools PROVE Heeding'
    <2>1. \/ ~stopped /\ missed' = missed
          \/ stopped /\ missed' = missed + 1
      BY <1>5 DEF EndTurn, AskPerson, BeginTools, Proceeds, NoStopRead
    <2>2. UNCHANGED <<late, steerings, stopped, crashes>>
      BY <1>5 DEF EndTurn, AskPerson, BeginTools, UnchangedInTools
    <2> QED
      BY <1>1, <2>1, <2>2 DEF Heeding, StopIsHeeded
  <1>11. ASSUME RunCall \/ CommitTools PROVE Heeding'
    <2>1. phase = "tools" /\ UNCHANGED <<late, steerings, stopped, missed, crashes>>
      BY <1>11 DEF RunCall, CommitTools, UnchangedInTools
    <2> QED
      BY <1>1, <2>1 DEF Heeding, StopIsHeeded
  <1>6. ASSUME Stop PROVE Heeding'
    <2>1. ~stopped /\ UNCHANGED <<next, phase, asked, late, steerings, missed, crashes>>
      BY <1>6 DEF Stop, checkpoint, process, history
    <2> QED
      BY <1>1, <2>1 DEF Heeding, StopIsHeeded, Interrupted
  <1>7. ASSUME Answer PROVE Heeding'
    <2>1. phase' = "at" /\ UNCHANGED <<next, late, steerings, stopped, missed, crashes>>
      BY <1>7 DEF Answer, checkpoint
    <2> QED
      BY <1>1, <2>1 DEF Heeding, StopIsHeeded, Interrupted
  <1>8. ASSUME Crash \/ DieResuming PROVE Heeding'
    <2>1. phase' = "off" /\ crashes' = crashes + 1 /\ UNCHANGED <<late, steerings, stopped, missed>>
      BY <1>8 DEF Crash, DieResuming, Unfinished, checkpoint, process, history
    <2> QED
      BY <1>1, <2>1 DEF Heeding, StopIsHeeded
  <1>9. ASSUME Resume PROVE Heeding'
    <2>1. /\ phase' = "at" /\ UNCHANGED <<late, steerings, stopped, missed, crashes>>
          /\ (next = "tools" => Interrupted) /\ (next # "tools" => next' = next)
      BY <1>9 DEF Resume, Unfinished, Interrupted
    <2> QED
      BY <1>1, <2>1 DEF Heeding, StopIsHeeded, Interrupted
  <1>10. ASSUME UNCHANGED vars PROVE Heeding'
    <2>1. UNCHANGED <<next, phase, asked, late, steerings, stopped, missed, crashes>>
      BY <1>10 DEF vars, checkpoint, process, history
    <2> QED
      BY <2>1 DEF Heeding, StopIsHeeded, Interrupted
  <1> QED
    BY <1>2, <1>3, <1>4, <1>5, <1>6, <1>7, <1>8, <1>9, <1>10, <1>11
    DEF Next, ModelNode, ToolsNode, PersistNode

LEMMA KeepingStep ==
  ASSUME TypeOK, Keeping, [Next]_vars
  PROVE  Keeping'
  <1>1. stored \in Nat
    BY Counters
  <1>2. ASSUME ModelNode \/ ToolsNode PROVE Keeping'
    <2>1. stored' = stored /\ next' # "end" /\ phase' # "stored"
      BY <1>2 DEF ModelNode, ToolsNode, AskForTools, Reply, Steer, StopTurn, EndTurn,
         AskPerson, BeginTools, RunCall, CommitTools, UnchangedInTools, At, Proceeds,
         process, TypeOK
    <2> QED
      BY <2>1 DEF Keeping, StoredOnce
  <1>3. ASSUME Store PROVE Keeping'
    <2>1. stored' = (IF stored = 0 THEN 1 ELSE stored)
      BY <1>3, Zenon DEF Store
    <2> QED
      BY <1>1, <2>1 DEF Keeping, StoredOnce
  <1>4. ASSUME Finish PROVE Keeping'
    BY <1>4 DEF Finish, Keeping, StoredOnce
  <1>5. ASSUME Stop \/ Answer \/ Crash \/ Resume \/ DieResuming \/ UNCHANGED vars
        PROVE  Keeping'
    <2>1. stored' = stored /\ phase' \in {phase, "at", "off"}
          /\ (next' = next \/ next' = "model")
      BY <1>5 DEF Stop, Answer, Crash, Resume, DieResuming, vars, checkpoint, process
    <2> QED
      BY <2>1 DEF Keeping, StoredOnce
  <1> QED
    BY <1>2, <1>3, <1>4, <1>5 DEF Next, PersistNode

LEMMA TranscriptGrows ==
  ASSUME TypeOK, [Next]_vars
  PROVE  OpsKept
  <1>1. CASE UNCHANGED transcript
    <2>1. Last \in Nat
      BY LenProperties DEF TypeOK, Last
    <2> QED
      BY <1>1, <2>1 DEF OpsKept, Last
  <1>2. CASE AskForTools /\ ~UNCHANGED transcript
    <2>1. next' = "tools"
      BY <1>2 DEF AskForTools
    <2> QED
      BY <1>2, <2>1, AskFacts DEF OpsKept
  <1>3. CASE StopTurn \/ EndTurn
    <2>1. transcript # <<>> /\ AnswerBatch(Halted)
      BY <1>3 DEF StopTurn, EndTurn, At, TypeOK
    <2> QED
      BY <2>1, HaltedFacts, AnswerKeepsOps
  <1>4. CASE CommitTools
    BY <1>4, CommitTyped, AnswerKeepsOps
  <1>5. CASE Resume /\ ~UNCHANGED transcript
    <2>1. next = "tools"
      BY <1>5 DEF Resume
    <2> QED
      BY <1>5, <2>1, ResumeTyped, AnswerKeepsOps
  <1> QED
    <2>1. UNCHANGED transcript \/ AskForTools \/ StopTurn \/ EndTurn \/ CommitTools \/ Resume
      BY DEF Next, ModelNode, ToolsNode, PersistNode, Reply, Steer, AskPerson, BeginTools,
         RunCall, Store, Finish, Stop, Answer, Crash, DieResuming, vars, checkpoint
    <2> QED
      BY <2>1, <1>1, <1>2, <1>3, <1>4, <1>5

LEMMA ConsentKept ==
  ASSUME TypeOK, Consent, OpsKept, ran' = ran, approved \subseteq approved'
  PROVE  /\ ConsentBeforeRunning'
         /\ \A p \in ran' : p[1] \in 1..Last' /\ p[2] \in DOMAIN transcript'[p[1]]
  <1> SUFFICES ASSUME NEW p \in ran
               PROVE  /\ (CallAt(p).op \in NeedsApproval)' => p \in approved'
                      /\ p[1] \in 1..Last' /\ p[2] \in DOMAIN transcript'[p[1]]
    BY DEF ConsentBeforeRunning
  <1>1. p[1] \in 1..Last /\ p[2] \in DOMAIN transcript[p[1]]
    BY DEF Consent
  <1>2. CallAt(p)'.op = CallAt(p).op /\ DOMAIN transcript'[p[1]] = DOMAIN transcript[p[1]]
        /\ p[1] \in 1..Last'
    BY <1>1 DEF OpsKept, CallAt
  <1> QED
    BY <1>1, <1>2 DEF Consent, ConsentBeforeRunning

(* Replay-safe calls need nobody's yes. *)
LEMMA ConsentReplayed ==
  ASSUME TypeOK, Consent, OpsKept, next = "tools", NEW positions \in SUBSET Replayed,
         ran' = ran \cup ({Last} \X positions), approved' = approved
  PROVE  /\ ConsentBeforeRunning'
         /\ \A p \in ran' : p[1] \in 1..Last' /\ p[2] \in DOMAIN transcript'[p[1]]
  <1>1. transcript # <<>>
    BY DEF TypeOK
  <1>2. \A p \in {Last} \X positions :
          /\ p[1] \in 1..Last /\ p[2] \in DOMAIN transcript[p[1]]
          /\ CallAt(p).op \notin NeedsApproval
    BY <1>1, BatchFacts, LoopAssumption DEF Replayed, CallAt, Batch, Calls
  <1>3. \A p \in ran' :
          /\ p[1] \in 1..Last /\ p[2] \in DOMAIN transcript[p[1]]
          /\ CallAt(p).op \in NeedsApproval => p \in approved
    BY <1>2 DEF Consent, ConsentBeforeRunning
  <1>4. \A p \in ran' :
          /\ CallAt(p)'.op = CallAt(p).op /\ DOMAIN transcript'[p[1]] = DOMAIN transcript[p[1]]
          /\ p[1] \in 1..Last'
    BY <1>3 DEF OpsKept, CallAt
  <1> QED
    BY <1>3, <1>4 DEF ConsentBeforeRunning

LEMMA ConsentStep ==
  ASSUME TypeOK, Consent, [Next]_vars
  PROVE  Consent'
  <1> DEFINE Parts == /\ \A i \in yes : <<Last, i>> \in approved
                      /\ next # "tools" \/ phase = "off" \/ ~answered => yes = {}
                      /\ phase = "tools" =>
                           \A i \in Calls : results[i] = "open" /\ Batch[i].op \in NeedsApproval
                                             => <<Last, i>> \in approved
  <1>1. ASSUME ran' = ran, approved \subseteq approved', Parts' PROVE Consent'
    BY <1>1, ConsentKept, TranscriptGrows DEF Consent
  <1>2. ASSUME AskForTools \/ Reply \/ Steer PROVE Consent'
    <2>1. next = "model" /\ UNCHANGED <<ran, approved, yes, phase>> /\ phase = "at"
      BY <1>2 DEF AskForTools, Reply, Steer, At, process
    <2> QED
      BY <1>1, <2>1 DEF Consent
  <1>3. ASSUME StopTurn \/ EndTurn \/ CommitTools PROVE Consent'
    <2>1. yes' = {} /\ phase' = "at" /\ UNCHANGED <<ran, approved>>
      BY <1>3 DEF StopTurn, EndTurn, CommitTools, At
    <2> QED
      BY <1>1, <2>1
  <1>4. ASSUME AskPerson PROVE Consent'
    <2>1. ~answered /\ phase' = "off" /\ UNCHANGED <<yes, ran, approved>>
      BY <1>4 DEF AskPerson
    <2> QED
      BY <1>1, <2>1 DEF Consent
  <1>5. ASSUME BeginTools PROVE Consent'
    <2>1. /\ next = "tools" /\ phase = "at"
          /\ UNCHANGED <<next, yes, ran, approved, answered, transcript>> /\ phase' = "tools"
      BY <1>5 DEF BeginTools, Proceeds, At
    <2>2. \A i \in Calls : results'[i] = "open" /\ Batch[i].op \in NeedsApproval => i \in yes
      BY <1>5, BeginTyped DEF Risky
    <2>3. Last' = Last /\ Calls' = Calls /\ Batch' = Batch
      BY <2>1 DEF Calls, Batch, Last
    <2> QED
      BY <1>1, <2>1, <2>2, <2>3 DEF Consent
  <1>6. ASSUME RunCall PROVE Consent'
    <2>1. PICK i \in Calls, r \in {"ok", "failed"} :
              /\ results[i] = "open"
              /\ \A j \in Calls : results'[j] = IF j = i THEN r ELSE results[j]
              /\ Run({<<Last, i>>})
      BY <1>6, RunCallTyped
    <2>2. /\ phase = "tools" /\ next = "tools" /\ transcript # <<>>
          /\ UNCHANGED <<next, phase, answered, yes, approved, transcript>>
      BY <1>6 DEF RunCall, TypeOK
    <2>3. Last' = Last /\ Calls' = Calls /\ Batch' = Batch
      BY <2>2 DEF Calls, Batch, Last
    <2>4. ran' = ran \cup {<<Last, i>>}
      BY <2>1 DEF Run
    <2>5. Parts'
      BY <2>1, <2>2, <2>3 DEF Consent
    <2>6. Last \in 1..Last /\ i \in DOMAIN transcript[Last]
      BY <2>2, BatchFacts DEF Calls, Batch
    <2>7. Batch[i].op \in NeedsApproval => <<Last, i>> \in approved
      BY <2>1, <2>2 DEF Consent
    <2>8. ConsentBeforeRunning'
      BY <2>2, <2>4, <2>7 DEF Consent, ConsentBeforeRunning, CallAt, Batch
    <2>9. \A p \in ran' : p[1] \in 1..Last' /\ p[2] \in DOMAIN transcript'[p[1]]
      BY <2>2, <2>3, <2>4, <2>6 DEF Consent
    <2> QED
      BY <2>5, <2>8, <2>9 DEF Consent
  <1>7. ASSUME Store \/ Finish PROVE Consent'
    <2>1. next = "persist" /\ phase' # "tools" /\ UNCHANGED <<yes, ran, approved>>
      BY <1>7 DEF Store, Finish, At, TypeOK, history
    <2> QED
      BY <1>1, <2>1 DEF Consent
  <1>8. ASSUME Stop \/ UNCHANGED vars PROVE Consent'
    <2>1. UNCHANGED <<next, phase, answered, results, transcript, yes, ran, approved>>
      BY <1>8 DEF Stop, vars, checkpoint, process, history
    <2>2. Parts'
      BY <2>1 DEF Consent, Calls, Batch, Last
    <2> QED
      BY <1>1, <2>1, <2>2
  <1>9. ASSUME Answer PROVE Consent'
    <2>1. PICK said \in SUBSET asked :
            yes' = said /\ approved' = approved \cup {<<Last, i>> : i \in said}
      BY <1>9 DEF Answer
    <2>2. /\ next = "tools" /\ answered' = TRUE /\ phase' = "at"
          /\ UNCHANGED <<next, transcript, ran>>
      BY <1>9 DEF Answer, TypeOK, checkpoint
    <2>3. Parts'
      BY <2>1, <2>2 DEF Last
    <2> QED
      BY <1>1, <2>1, <2>2, <2>3
  <1>10. ASSUME Crash PROVE Consent'
    <2>1. yes' = {} /\ phase' = "off" /\ UNCHANGED <<ran, approved>>
      BY <1>10 DEF Crash, history
    <2> QED
      BY <1>1, <2>1
  <1>11. ASSUME Resume PROVE Consent'
    <2>1. yes = {} /\ yes' = {} /\ phase' = "at" /\ approved' = approved
      BY <1>11 DEF Resume, Unfinished, Consent
    <2>2. Parts'
      BY <2>1
    <2>3. CASE next # "tools"
      BY <1>1, <1>11, <2>1, <2>2, <2>3 DEF Resume
    <2>4. CASE next = "tools"
      <3>1. ran' = ran \cup ({Last} \X Replayed)
        BY <1>11, <2>4 DEF Resume, Run
      <3>2. ConsentBeforeRunning'
            /\ \A p \in ran' : p[1] \in 1..Last' /\ p[2] \in DOMAIN transcript'[p[1]]
        BY <2>1, <2>4, <3>1, TranscriptGrows, ConsentReplayed
      <3> QED
        BY <2>2, <3>2 DEF Consent
    <2> QED
      BY <2>3, <2>4
  <1>12. ASSUME DieResuming PROVE Consent'
    <2>1. PICK positions \in SUBSET Replayed : Run({Last} \X positions)
      BY <1>12, DieResumingFacts
    <2>2. /\ next = "tools" /\ phase' = "off" /\ yes' = yes /\ yes = {} /\ approved' = approved
      BY <1>12, DieResumingFacts DEF process, Consent
    <2>3. ran' = ran \cup ({Last} \X positions)
      BY <2>1 DEF Run
    <2>4. ConsentBeforeRunning'
          /\ \A p \in ran' : p[1] \in 1..Last' /\ p[2] \in DOMAIN transcript'[p[1]]
      BY <2>2, <2>3, TranscriptGrows, ConsentReplayed
    <2> QED
      BY <2>2, <2>4 DEF Consent
  <1> QED
    BY <1>2, <1>3, <1>4, <1>5, <1>6, <1>7, <1>8, <1>9, <1>10, <1>11, <1>12
    DEF Next, ModelNode, ToolsNode, PersistNode

LEMMA OnceKept ==
  ASSUME Consent, Once, OpsKept, UNCHANGED ran, ranAgain' = ranAgain, ranAgain \subseteq ran
  PROVE  NothingRunsAgain'
  <1> SUFFICES ASSUME NEW p \in ranAgain
               PROVE  \/ CallAt(p)'.op \in ReplaySafe
                      \/ \E i \in DOMAIN transcript'[p[1]] :
                           transcript'[p[1]][i].op \in NeedsApproval
    BY DEF NothingRunsAgain
  <1>1. p[1] \in 1..Last /\ p[2] \in DOMAIN transcript[p[1]]
    BY DEF Consent
  <1>2. /\ CallAt(p)'.op = CallAt(p).op
        /\ \A i \in DOMAIN transcript[p[1]] :
             i \in DOMAIN transcript'[p[1]] /\ transcript'[p[1]][i].op = transcript[p[1]][i].op
    BY <1>1 DEF OpsKept, CallAt
  <1>3. \/ CallAt(p).op \in ReplaySafe
        \/ \E i \in DOMAIN transcript[p[1]] : transcript[p[1]][i].op \in NeedsApproval
    BY DEF Once, NothingRunsAgain
  <1> QED
    BY <1>2, <1>3

LEMMA OnceReplayed ==
  ASSUME TypeOK, Consent, Once, OpsKept, next = "tools",
         ranAgain' \subseteq ranAgain \cup ({Last} \X Replayed)
  PROVE  NothingRunsAgain'
  <1>1. ranAgain \subseteq ran
    BY DEF TypeOK
  <1>2. ASSUME NEW p \in ranAgain'
        PROVE  /\ p[1] \in 1..Last /\ p[2] \in DOMAIN transcript[p[1]]
               /\ \/ CallAt(p).op \in ReplaySafe
                  \/ \E k \in DOMAIN transcript[p[1]] : transcript[p[1]][k].op \in NeedsApproval
    <2>1. CASE p \in ranAgain
      BY <1>1, <2>1 DEF Once, NothingRunsAgain, Consent
    <2>2. CASE p \in {Last} \X Replayed
      <3>1. transcript # <<>>
        BY DEF TypeOK
      <3> QED
        BY <2>2, <3>1, BatchFacts DEF Replayed, CallAt, Batch, Calls
    <2> QED
      BY <2>1, <2>2
  <1>3. ASSUME NEW p \in ranAgain'
        PROVE  /\ CallAt(p)'.op = CallAt(p).op
               /\ \A k \in DOMAIN transcript[p[1]] :
                    /\ k \in DOMAIN transcript'[p[1]]
                    /\ transcript'[p[1]][k].op = transcript[p[1]][k].op
    BY <1>2 DEF OpsKept, CallAt
  <1> QED
    BY <1>2, <1>3 DEF NothingRunsAgain

LEMMA OnceStep ==
  ASSUME TypeOK, Consent, Once, [Next]_vars
  PROVE  Once'
  <1> DEFINE Parts ==
    /\ asked # {} => \E i \in Calls : Batch[i].op \in NeedsApproval
    /\ next = "tools" /\ asked = {} /\ phase = "at" => \A i \in Calls : <<Last, i>> \notin ran
    /\ phase = "tools" /\ asked = {} =>
         \A i \in Calls : results[i] = "open" => <<Last, i>> \notin ran
  <1>0. OpsKept /\ ranAgain \subseteq ran
    BY TranscriptGrows DEF TypeOK
  <1>1. ASSUME UNCHANGED <<ran, ranAgain>>, Parts' PROVE Once'
    BY <1>0, <1>1, OnceKept DEF Once
  <1>2. ASSUME AskForTools \/ Reply \/ Steer PROVE Once'
    <2>1. next = "model" /\ phase' = "at" /\ asked' = asked /\ UNCHANGED <<ran, ranAgain>>
      BY <1>2 DEF AskForTools, Reply, Steer, At, process
    <2>2. asked' = {}
      BY <2>1 DEF TypeOK
    <2>3. CASE next' = "tools"
      <3>1. AskForTools
        BY <1>2, <2>1, <2>3 DEF Reply, Steer
      <3>2. Last \in Nat /\ Last' = Last + 1
        BY <2>3, <3>1, AskFacts
      <3>3. \A i \in Calls' : <<Last', i>> \notin ran
        BY <3>2 DEF Consent
      <3> QED
        BY <1>1, <2>1, <2>2, <3>3
    <2>4. CASE next' # "tools"
      BY <1>1, <2>1, <2>2, <2>4
    <2> QED
      BY <2>3, <2>4
  <1>3. ASSUME StopTurn \/ EndTurn \/ CommitTools PROVE Once'
    <2>1. asked' = {} /\ phase' = "at" /\ next' # "tools" /\ UNCHANGED <<ran, ranAgain>>
      BY <1>3 DEF StopTurn, EndTurn, CommitTools, At
    <2> QED
      BY <1>1, <2>1
  <1>4. ASSUME AskPerson PROVE Once'
    <2>1. asked' = Risky /\ Risky # {} /\ phase' = "off" /\ UNCHANGED <<transcript, ran, ranAgain>>
      BY <1>4 DEF AskPerson
    <2>2. \E i \in Calls' : Batch'[i].op \in NeedsApproval
      BY <2>1 DEF Risky, ToRun, Calls, Batch, Last
    <2> QED
      BY <1>1, <2>1, <2>2
  <1>5. ASSUME BeginTools PROVE Once'
    <2>1. /\ next = "tools" /\ phase = "at" /\ phase' = "tools"
          /\ UNCHANGED <<transcript, asked, ran, ranAgain>>
      BY <1>5 DEF BeginTools, Proceeds, At
    <2>2. Last' = Last /\ Calls' = Calls /\ Batch' = Batch
      BY <2>1 DEF Calls, Batch, Last
    <2> QED
      BY <1>1, <2>1, <2>2 DEF Once
  <1>6. ASSUME RunCall PROVE Once'
    <2>1. PICK i \in Calls, r \in {"ok", "failed"} :
              /\ results[i] = "open"
              /\ \A j \in Calls : results'[j] = IF j = i THEN r ELSE results[j]
              /\ Run({<<Last, i>>})
      BY <1>6, RunCallTyped
    <2>2. /\ phase = "tools" /\ phase' = "tools" /\ transcript # <<>>
          /\ UNCHANGED <<asked, transcript>>
      BY <1>6 DEF RunCall, TypeOK
    <2>3. Last' = Last /\ Calls' = Calls /\ Batch' = Batch
      BY <2>2 DEF Calls, Batch, Last
    <2>4. ran' = ran \cup {<<Last, i>>} /\ ranAgain' = ranAgain \cup ({<<Last, i>>} \cap ran)
      BY <2>1 DEF Run
    <2>5. Parts'
      BY <2>1, <2>2, <2>3, <2>4 DEF Once
    <2>6. ASSUME NEW p \in ranAgain'
          PROVE  \/ CallAt(p).op \in ReplaySafe
                 \/ \E k \in DOMAIN transcript[p[1]] : transcript[p[1]][k].op \in NeedsApproval
      <3>1. CASE p \in ranAgain
        BY <3>1 DEF Once, NothingRunsAgain
      <3>2. CASE p \notin ranAgain
        <4>1. p = <<Last, i>> /\ p \in ran
          BY <2>4, <3>2
        <4>2. asked # {}
          BY <2>1, <2>2, <4>1 DEF Once
        <4> QED
          BY <4>1, <4>2 DEF Once, Calls, Batch
      <3> QED
        BY <3>1, <3>2
    <2>7. NothingRunsAgain'
      BY <2>2, <2>6 DEF NothingRunsAgain, CallAt
    <2> QED
      BY <2>5, <2>7 DEF Once
  <1>7. ASSUME Store \/ Finish PROVE Once'
    <2>1. /\ next = "persist" /\ phase' # "tools" /\ asked' = asked /\ next' # "tools"
          /\ UNCHANGED <<ran, ranAgain>>
      BY <1>7 DEF Store, Finish, At, TypeOK, history, checkpoint
    <2> QED
      BY <1>1, <2>1 DEF TypeOK
  <1>8. ASSUME Stop \/ UNCHANGED vars PROVE Once'
    <2>1. UNCHANGED <<next, phase, asked, results, transcript, ran, ranAgain>>
      BY <1>8 DEF Stop, vars, checkpoint, process, history
    <2>2. Parts'
      BY <2>1 DEF Once, Calls, Batch, Last
    <2> QED
      BY <1>1, <2>1, <2>2
  <1>9. ASSUME Answer \/ Crash PROVE Once'
    <2>1. /\ phase' \in {"at", "off"} /\ (phase' = "at" => asked # {})
          /\ UNCHANGED <<next, asked, transcript, ran, ranAgain>>
      BY <1>9 DEF Answer, Crash, checkpoint, history
    <2>2. Parts'
      BY <2>1 DEF Once, Calls, Batch, Last
    <2> QED
      BY <1>1, <2>1, <2>2
  <1>10. ASSUME Resume PROVE Once'
    <2>1. /\ asked = {} /\ asked' = {} /\ phase' = "at" /\ next' # "tools"
      BY <1>10 DEF Resume, Unfinished
    <2>2. CASE next # "tools"
      <3>1. UNCHANGED <<ran, ranAgain>>
        BY <1>10, <2>2 DEF Resume
      <3> QED
        BY <1>1, <2>1, <3>1
    <2>3. CASE next = "tools"
      <3>1. ranAgain' \subseteq ranAgain \cup ({Last} \X Replayed)
        BY <1>10, <2>3 DEF Resume, Run
      <3> QED
        BY <1>0, <2>1, <2>3, <3>1, OnceReplayed DEF Once
    <2> QED
      BY <2>2, <2>3
  <1>11. ASSUME DieResuming PROVE Once'
    <2>1. PICK positions \in SUBSET Replayed : Run({Last} \X positions)
      BY <1>11, DieResumingFacts
    <2>2. next = "tools" /\ asked' = {} /\ phase' = "off"
      BY <1>11, DieResumingFacts DEF checkpoint, process
    <2>3. ranAgain' \subseteq ranAgain \cup ({Last} \X Replayed)
      BY <2>1 DEF Run
    <2> QED
      BY <1>0, <2>2, <2>3, OnceReplayed DEF Once
  <1> QED
    BY <1>2, <1>3, <1>4, <1>5, <1>6, <1>7, <1>8, <1>9, <1>10, <1>11
    DEF Next, ModelNode, ToolsNode, PersistNode

----------------------------------------------------------------------------
(* The theorems.                                                           *)

IInv ==
  TypeOK /\ Settled /\ Spending /\ Heeding /\ Consent /\ Once /\ Keeping

(* The strengthening holds of every behaviour of the loop. *)
THEOREM Invariance == Spec => []IInv
  <1>1. Init => IInv
    <2> SUFFICES ASSUME Init PROVE IInv
      OBVIOUS
    <2>1. TypeOK
      BY TypeInit
    <2>0. /\ next = "model" /\ phase = "at" /\ asked = {} /\ yes = {} /\ stored = 0
          /\ steps = 0 /\ steerings = 0 /\ crashes = 0 /\ missed = 0 /\ late = 0
          /\ ran = {} /\ ranAgain = {} /\ transcript = <<>>
      BY DEF Init
    <2>n. MaxSteps \in Nat /\ MaxSteps >= 1
      BY LoopAssumption
    <2>2. Settled
      <3>1. Last = 0
        BY <2>0, EmptySeq DEF Last
      <3> QED
        BY <3>1 DEF Settled
    <2>c. Consent /\ Once /\ Keeping
      BY <2>0 DEF Consent, Once, Keeping, ConsentBeforeRunning, NothingRunsAgain, StoredOnce
    <2>3. Spending
      BY <2>0, <2>n DEF Spending, StepsBounded, Interrupted
    <2>4. Heeding
      BY <2>0 DEF Heeding, StopIsHeeded, Interrupted
    <2> QED
      BY <2>1, <2>2, <2>c, <2>3, <2>4 DEF IInv
  <1>2. IInv /\ [Next]_vars => IInv'
    BY TypeStep, SettledStep, SpendingStep, HeedingStep, ConsentStep, OnceStep, KeepingStep
    DEF IInv
  <1> QED
    BY <1>1, <1>2, PTL DEF Spec

(* Type correctness: in particular a question is about calls of the batch  *)
(* the tools node has before it, and about nothing once that node is left. *)
THEOREM TypeCorrect == Spec => []TypeOK
  <1>1. IInv => TypeOK
    BY DEF IInv
  <1> QED
    BY <1>1, Invariance, PTL

(* No history leaves the tools node with a call that has no result.        *)
THEOREM CallsAnswered == Spec => []EveryCallAnswered
  <1>1. IInv => EveryCallAnswered
    BY DEF IInv, Settled, EveryCallAnswered
  <1> QED
    BY <1>1, Invariance, PTL

(* What a turn can cost in model steps, whatever dies on the way.          *)
THEOREM Affordable == Spec => []StepsBounded
  <1>1. IInv => StepsBounded
    BY DEF IInv, Spending
  <1> QED
    BY <1>1, Invariance, PTL

(* How far a turn can go on after the person asked it to stop, whatever    *)
(* dies and however many reads of the stop fail.                           *)
THEOREM Stoppable == Spec => []StopIsHeeded
  <1>1. IInv => StopIsHeeded
    BY DEF IInv, Heeding
  <1> QED
    BY <1>1, Invariance, PTL

(* What a turn can cost, stopped or not.                                   *)
THEOREM Bounded == Spec => []SpendingBounded
  <1>1. IInv => SpendingBounded
    BY DEF IInv, Spending, Heeding, SpendingBounded
  <1> QED
    BY <1>1, Invariance, PTL

(* No call that needs a yes runs without one, also not when it is resumed. *)
THEOREM Consented == Spec => []ConsentBeforeRunning
  <1>1. IInv => ConsentBeforeRunning
    BY DEF IInv, Consent
  <1> QED
    BY <1>1, Invariance, PTL

(* Outside the batches of a question only replay-safe calls run twice.     *)
THEOREM RunOnce == Spec => []NothingRunsAgain
  <1>1. IInv => NothingRunsAgain
    BY DEF IInv, Once
  <1> QED
    BY <1>1, Invariance, PTL

(* A finished turn is in the store, once. *)
THEOREM KeptOnce == Spec => []StoredOnce
  <1>1. IInv => StoredOnce
    BY DEF IInv, Keeping
  <1> QED
    BY <1>1, Invariance, PTL
============================================================================
