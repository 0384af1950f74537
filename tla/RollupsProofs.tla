--------------------------- MODULE RollupsProofs ---------------------------
(***************************************************************************)
(* Proofs about Rollups, for every value of the bounds and any set of      *)
(* handlers.                                                               *)
(*                                                                         *)
(* First the types: what the running method is about fits the state.       *)
(*                                                                         *)
(* Then the order and commit properties.  LifecycleInvariant is the        *)
(* inductive invariant: the position of the running method tells which     *)
(* rows it has written (JobFitsState, OutputsOfCurrent, SavedOrToDo) and   *)
(* whether the row of the current input is final (CommitPoint); the rest   *)
(* follows step by step.                                                   *)
(*                                                                         *)
(* Then the rows of the output tables and the answers of the pollers.      *)
(* RowsInvariant adds that an output carries its place in its slice as     *)
(* index, that the rows saved and those to save have no (input, index) in  *)
(* common, and that an inspect whose count is running has its outcome.     *)
(*                                                                         *)
(* IndexIsCount, about the writers alone, relates the Index of a row to    *)
(* what its writer found, for RealTimeOrder.                               *)
(*                                                                         *)
(* Last the refinement: Rollups implements InputLifecycle; the steps to    *)
(* map are those after which no statement has failed.  With dbErrors = 0   *)
(* the commit point is exact: the row of the current input is final if and *)
(* only if the running method is past it, so the write of the row is the   *)
(* abstract Settle, and every other statement of the method is a stutter.  *)
(***************************************************************************)
EXTENDS RollupsRefinement, SequenceTheorems, FiniteSetTheorems, TLAPS

-----------------------------------------------------------------------------
(* Facts about the data.                                                   *)

(* A fresh state, a free mutex and the unanswered and abandoned polls are  *)
(* well typed.                                                             *)
LEMMA FreshData ==
  /\ Idle \in States
  /\ \A n \in Nat : Advance(n) \in States /\ Inspect(n) \in States
  /\ Free \in Jobs
  /\ NoAnswer \in Inspections
  /\ Gone \in Inspections
<1>1. NoOutputs \in [Tables -> Seq(Output)]
  BY DEF NoOutputs
<1>2. QED
  BY <1>1 DEF Idle, Advance, Inspect, Free, Modes, Labels, Final, Status,
              States, Jobs, Inspections, NoAnswer, Gone

(* Emitting appends to one slice and leaves the rest of the state alone.   *)
LEMMA EmitType ==
  ASSUME TypeOK, NEW kind \in Kinds, Emit(kind)
  PROVE  /\ state' \in States
         /\ state'.mode = state.mode
         /\ state'.input = state.input
<1> DEFINE t   == TableOf(kind)
           out == [kind |-> kind, input |-> state.input,
                   index |-> Len(state.outs[t])]
<1>1. t \in Tables
  BY DEF TableOf, Kinds, Tables
<1>2. state.outs[t] \in Seq(Output) /\ Len(state.outs[t]) \in Nat
  BY <1>1 DEF TypeOK, States
<1>3. out \in Output
  BY <1>2 DEF Output, TypeOK, States
<1>4. Append(state.outs[t], out) \in Seq(Output)
  BY <1>2, <1>3
<1>5. state' = [state EXCEPT !.outs[t] = Append(@, out)]
  BY DEF Emit
<1> HIDE DEF t, out
<1>6. QED
  BY <1>1, <1>4, <1>5 DEF TypeOK, States

(* A row or an inspect is overwritten in place.                            *)
LEMMA MarkInspectType ==
  ASSUME TypeOK, state.mode = "inspect", NEW status \in Status,
         MarkInspect(status)
  PROVE  inspects' \in Seq(Inspections) /\ Len(inspects') = Len(inspects)
<1>1. /\ state.input \in 1..Len(inspects)
      /\ inspects[state.input] \in Inspections
  BY DEF TypeOK
<1>2. [inspects[state.input] EXCEPT !.status = status] \in Inspections
  BY <1>1 DEF Inspections
<1>3. inspects' = [inspects EXCEPT ![state.input] =
                     [inspects[state.input] EXCEPT !.status = status]]
  BY DEF MarkInspect
<1>4. QED
  BY <1>1, <1>2, <1>3, ExceptSeq DEF TypeOK

(* Recording an outcome changes one inspection, and keeps it typed.        *)
LEMMA RecordInspectType ==
  ASSUME TypeOK, state.mode = "inspect", NEW count \in {"counted", "failed"},
         RecordInspect(count)
  PROVE  inspects' \in Seq(Inspections) /\ Len(inspects') = Len(inspects)
<1>1. /\ state.input \in 1..Len(inspects)
      /\ inspects[state.input] \in Inspections
  BY DEF TypeOK
<1>2. inspects' = [inspects EXCEPT ![state.input] =
                     [inspects[state.input] EXCEPT !.processed = count,
                                                   !.reports = TRUE]]
  BY <1>1 DEF RecordInspect, TypeOK
<1>3. [inspects[state.input] EXCEPT !.processed = count, !.reports = TRUE]
        \in Inspections
  BY <1>1 DEF Inspections
<1>4. QED
  BY <1>1, <1>2, <1>3, ExceptSeq DEF TypeOK

(* The writers of inputs: a step of theirs creates a row, or changes       *)
(* nothing but what one of them has counted.                               *)
WriterStep ==
  \/ AddAdvanceInput
  \/ \E w \in Unlocked : CountInputs(w) \/ CreateInput(w) \/ LeaveCall(w)
  \/ SkipInput

RowCreated == \E index, known \in Nat : CreateRow(index, known)

LEMMA WriterStepType ==
  ASSUME TypeOK, WriterStep
  PROVE  /\ sequencer' = sequencer
         /\ calls' \in [Handlers \cup {Listener} -> Calls]
         /\ RowCreated \/ UNCHANGED allButCalls
<1>1. Len(inputs) \in Nat /\ Known \in Nat /\ NoCall \in Calls
  BY DEF TypeOK, Known, NoCall, Calls
<1>2. CASE AddAdvanceInput
  BY <1>1, <1>2 DEF AddAdvanceInput, RowCreated, TypeOK
<1>3. ASSUME NEW w \in Handlers \cup {Listener}, NEW call \in Calls,
             calls' = [calls EXCEPT ![w] = call]
      PROVE  calls' \in [Handlers \cup {Listener} -> Calls]
  BY <1>3 DEF TypeOK
<1>4. ASSUME NEW w \in Handlers \cup {Listener}
      PROVE  /\ EndCall(w) => calls' \in [Handlers \cup {Listener} -> Calls]
             /\ NextEntry(w) => calls' \in [Handlers \cup {Listener} -> Calls]
  <2>1. calls[w] \in Calls
    BY DEF TypeOK
  <2>2. [calls[w] EXCEPT !.index = @ + 1] \in Calls
    BY <2>1 DEF Calls
  <2>3. NextEntry(w) =>
          calls' = [calls EXCEPT ![w] = [calls[w] EXCEPT !.index = @ + 1]]
    BY DEF NextEntry, TypeOK
  <2>4. QED
    BY <1>1, <1>3, <2>2, <2>3 DEF EndCall
<1>5. ASSUME NEW w \in Handlers \cup {Listener}, CountInputs(w)
      PROVE  calls' \in [Handlers \cup {Listener} -> Calls]
  <2>1. [at |-> "counted", index |-> Len(inputs), seen |-> Known] \in Calls
    BY <1>1 DEF Calls
  <2>2. QED
    BY <1>3, <1>5, <2>1 DEF CountInputs
<1>6. ASSUME NEW w \in Handlers \cup {Listener}, CreateInput(w)
      PROVE  RowCreated /\ sequencer' = sequencer /\ (EndCall(w) \/ NextEntry(w))
  <2>1. calls[w].index \in Nat /\ calls[w].seen \in Nat
    BY DEF TypeOK, Calls
  <2>2. QED
    BY <1>6, <2>1 DEF CreateInput, RowCreated
<1>7. Unlocked \subseteq Handlers \cup {Listener}
  BY DEF Unlocked
<1>8. QED
  BY <1>2, <1>4, <1>5, <1>6, <1>7
     DEF WriterStep, CountInputs, LeaveCall, SkipInput, allButCalls

(* A created row is unprocessed and leaves the others as they are.         *)
LEMMA RowCreatedType ==
  ASSUME TypeOK, RowCreated
  PROVE  /\ inputs' \in Seq(Status) /\ Len(inputs') = Len(inputs) + 1
         /\ indices' \in Seq(Nat) /\ Len(indices') = Len(inputs')
         /\ seen' \in Seq(Nat) /\ Len(seen') = Len(inputs')
         /\ \A n \in DOMAIN inputs :
              inputs'[n] = inputs[n] /\ indices'[n] = indices[n]
         /\ UNCHANGED <<outputs, inspects, state, job, answers, delivered,
                        dbErrors, crashes>>
<1>1. PICK index \in Nat, known \in Nat : CreateRow(index, known)
  BY DEF RowCreated
<1>2. "Unprocessed" \in Status
  BY DEF Status
<1>3. QED
  BY <1>1, <1>2 DEF CreateRow, TypeOK, faults

(* No writer touches the outputs, the inspects or the running method.      *)
LEMMA WriterStepKeeps ==
  ASSUME TypeOK, WriterStep
  PROVE  UNCHANGED <<outputs, inspects, state, job, answers, delivered,
                     dbErrors, crashes>>
BY WriterStepType, RowCreatedType DEF allButCalls, database, faults

(* The update of the current row keeps the shape of the table, and touches *)
(* rows of one Index, the current one among them.                          *)
LEMMA UpdateInputType ==
  ASSUME TypeOK, JobFitsState, UpdateInput
  PROVE  /\ inputs' \in Seq(Status) /\ Len(inputs') = Len(inputs)
         /\ \E rows \in {{state.input}, Namesakes(state.input)} :
              \A n \in DOMAIN inputs :
                inputs'[n] = IF n \in rows THEN job.status ELSE inputs[n]
         /\ state.input \in Namesakes(state.input)
         /\ job.status \in Final /\ job.status # "Unprocessed"
<1>1. state.input \in DOMAIN inputs /\ job.status \in Final
  BY DEF UpdateInput, TypeOK, JobFitsState, Jobs
<1>2. PICK rows \in {{state.input}, Namesakes(state.input)} :
        inputs' = [n \in DOMAIN inputs |->
                     IF n \in rows THEN job.status ELSE inputs[n]]
  BY DEF UpdateInput
<1>3. Len(inputs) \in Nat /\ DOMAIN inputs = 1..Len(inputs)
      /\ DOMAIN indices = DOMAIN inputs
  BY DEF TypeOK
<1>4. inputs' \in [1..Len(inputs) -> Status]
  BY <1>1, <1>2, <1>3 DEF TypeOK, Status
<1>5. inputs' \in Seq(Status) /\ Len(inputs') = Len(inputs)
  BY <1>3, <1>4
<1>6. \A n \in DOMAIN inputs :
        inputs'[n] = IF n \in rows THEN job.status ELSE inputs[n]
  BY <1>2
<1>7. state.input \in Namesakes(state.input) /\ job.status # "Unprocessed"
  BY <1>1, <1>3 DEF Final, Namesakes
<1>8. QED
  BY <1>1, <1>5, <1>6, <1>7

(* What is picked: an inspect, an input, or nothing.                       *)
LEMMA PickNextCases ==
  ASSUME PickNext
  PROVE  \/ \E n \in UnprocessedInspects :
              state' = Inspect(n) /\ UNCHANGED delivered
         \/ \E n \in Unprocessed(inputs) :
              /\ HasLowestIndex(n, Unprocessed(inputs))
              /\ state' = Advance(n)
              /\ delivered' = Append(delivered,
                                     [input |-> n, known |-> Len(inputs)])
         \/ state' = Idle /\ UNCHANGED delivered
BY Zenon DEF PickNext

(* What that makes of the state.                                           *)
LEMMA PickNextStates ==
  ASSUME PickNext
  PROVE  /\ state'.outs = NoOutputs
         /\ \/ state'.mode = "inspect" /\ UNCHANGED delivered
               /\ \E n \in UnprocessedInspects : state' = Inspect(n)
            \/ \E n \in Unprocessed(inputs) : state' = Advance(n)
            \/ state'.mode = "idle" /\ UNCHANGED delivered
<1>1. ASSUME NEW n
      PROVE  /\ Inspect(n).outs = NoOutputs /\ Advance(n).outs = NoOutputs
             /\ Inspect(n).mode = "inspect"
  BY DEF Inspect, Advance
<1>2. Idle.outs = NoOutputs /\ Idle.mode = "idle"
  BY DEF Idle
<1>3. QED
  BY <1>1, <1>2, PickNextCases, Zenon

(* What finish saves for an input are outputs.                             *)
LEMMA ToSaveType ==
  ASSUME TypeOK, NEW status
  PROVE  ToSave(status) \in Seq(Output)
<1>1. \A t \in Tables : state.outs[t] \in Seq(Output)
  BY DEF TypeOK, States
<1>2. QED
  BY <1>1 DEF ToSave, Tables

-----------------------------------------------------------------------------
(* Type correctness, with the fit between the running method and the state *)
(* that a method relies on when it writes through state.input.             *)

Typed == TypeOK /\ JobFitsState

(* A fresh program is typed.                                               *)
LEMMA InitTyped == Init => Typed
<1>1. Init => Free.at = "free" /\ Idle.mode = "idle"
  BY DEF Free, Idle
<1>2. NoCall \in Calls
  BY DEF NoCall, Calls
<1>3. QED
  BY <1>1, <1>2, FreshData DEF Init, Typed, TypeOK, JobFitsState

(* Every step keeps the types.                                             *)
LEMMA NextTyped == Typed /\ [Next]_vars => Typed'
<1> SUFFICES ASSUME Typed, [Next]_vars
             PROVE  Typed'
  OBVIOUS
<1> USE DEF database, faults, writers, columns
<1>a. TypeOK /\ JobFitsState
  BY DEF Typed
<1>1. CASE WriterStep
  <2>1. /\ sequencer' = sequencer
        /\ calls' \in [Handlers \cup {Listener} -> Calls]
        /\ RowCreated \/ UNCHANGED allButCalls
    BY <1>1, <1>a, WriterStepType
  <2>2. CASE RowCreated
    <3>1. TypeOK'
      <4>1. /\ inputs' \in Seq(Status) /\ Len(inputs') = Len(inputs) + 1
            /\ indices' \in Seq(Nat) /\ Len(indices') = Len(inputs')
            /\ seen' \in Seq(Nat) /\ Len(seen') = Len(inputs')
            /\ UNCHANGED <<outputs, inspects, state, job, answers, delivered,
                           dbErrors, crashes>>
        BY <2>2, <1>a, RowCreatedType
      <4>2. DOMAIN inputs \subseteq DOMAIN inputs'
        BY <4>1, <1>a DEF TypeOK
      <4>3. QED
        BY <2>1, <4>1, <4>2, <1>a DEF TypeOK
    <3>2. JobFitsState'
      BY <2>2, <1>a, RowCreatedType DEF JobFitsState
    <3>3. QED
      BY <3>1, <3>2 DEF Typed
  <2>3. CASE UNCHANGED allButCalls
    BY <2>1, <2>3, <1>a DEF allButCalls, columns, Typed, TypeOK, JobFitsState
  <2>4. QED
    BY <2>1, <2>2, <2>3
<1>2. CASE AddInspectInput
  <2>1. /\ inspects' \in Seq(Inspections)
        /\ answers' \in Seq(Inspections)
        /\ Len(answers') = Len(inspects')
        /\ DOMAIN inspects \subseteq DOMAIN inspects'
    BY <1>2, <1>a, FreshData DEF AddInspectInput, TypeOK
  <2>2. QED
    BY <1>2, <2>1, <1>a DEF AddInspectInput, Typed, TypeOK, JobFitsState
<1>3. ASSUME NEW n \in DOMAIN inspects, GetInspectInput(n)
      PROVE  Typed'
  <2>1. n \in 1..Len(answers) /\ inspects[n] \in Inspections
    BY <1>a DEF TypeOK
  <2>2. answers' \in Seq(Inspections) /\ Len(answers') = Len(answers)
    BY <1>3, <1>a, <2>1, ExceptSeq DEF GetInspectInput, TypeOK
  <2>3. QED
    BY <1>3, <2>2, <1>a DEF GetInspectInput, Typed, TypeOK, JobFitsState
<1>4. ASSUME NEW n \in DOMAIN inspects, InspectTimeout(n)
      PROVE  Typed'
  <2>1. n \in 1..Len(answers)
    BY <1>a DEF TypeOK
  <2>2. answers' \in Seq(Inspections) /\ Len(answers') = Len(answers)
    BY <1>4, <1>a, <2>1, FreshData, ExceptSeq DEF InspectTimeout, TypeOK
  <2>3. QED
    BY <1>4, <2>2, <1>a DEF InspectTimeout, Typed, TypeOK, JobFitsState
<1>5. CASE AddVoucher \/ AddDCVoucher \/ AddNotice \/ AddReport
  <2>1. PICK kind \in Kinds : Emit(kind)
    BY <1>5 DEF AddVoucher, AddDCVoucher, AddNotice, AddReport, Kinds, Tables
  <2>2. /\ state' \in States
        /\ state'.mode = state.mode
        /\ state'.input = state.input
    BY <1>a, <2>1, EmitType
  <2>3. UNCHANGED <<writers, inputs, outputs, inspects, job, answers,
                    delivered, dbErrors, crashes>>
    BY <2>1 DEF Emit
  <2>4. QED
    BY <2>2, <2>3, <1>a DEF Typed, TypeOK, JobFitsState
<1>6. ASSUME NEW status \in {"Accepted", "Rejected"}, FinishAndGetNext(status)
      PROVE  Typed'
  <2>1. UNCHANGED <<writers, inputs, outputs, state, answers, delivered,
                    dbErrors, crashes>>
    BY <1>6 DEF FinishAndGetNext
  <2>2. CASE state.mode = "idle"
    <3>1. /\ job' = [at |-> "next", call |-> "finish", status |-> status,
                     todo |-> <<>>]
          /\ UNCHANGED inspects
      BY <1>6, <2>2 DEF FinishAndGetNext, Begin
    <3>2. job' \in Jobs
      BY <3>1 DEF Jobs, Labels, Final
    <3>3. QED
      BY <2>1, <3>1, <3>2, <1>a DEF Typed, TypeOK, JobFitsState
  <2>3. CASE state.mode = "advance"
    <3>1. /\ job' = [at |-> "save", call |-> "finish", status |-> status,
                     todo |-> ToSave(status)]
          /\ UNCHANGED inspects
      BY <1>6, <2>3 DEF FinishAndGetNext, Begin
    <3>2. job' \in Jobs
      BY <3>1, <1>a, ToSaveType DEF Jobs, Labels, Final
    <3>3. QED
      BY <2>1, <2>3, <3>1, <3>2, <1>a DEF Typed, TypeOK, JobFitsState
  <2>4. CASE state.mode = "inspect"
    <3>1. /\ job' = [at |-> "count", call |-> "finish", status |-> status,
                     todo |-> <<>>]
          /\ MarkInspect(status)
      BY <1>6, <2>4 DEF FinishAndGetNext, Begin
    <3>2. job' \in Jobs
      BY <3>1 DEF Jobs, Labels, Final
    <3>3. inspects' \in Seq(Inspections) /\ Len(inspects') = Len(inspects)
      BY <3>1, <2>4, <1>a, MarkInspectType DEF Status, Final
    <3>4. QED
      BY <2>1, <2>4, <3>1, <3>2, <3>3, <1>a DEF Typed, TypeOK, JobFitsState
  <2>5. QED
    BY <2>2, <2>3, <2>4, <1>a DEF TypeOK, States, Modes
<1>7. CASE RegisterException
  <2>1. UNCHANGED <<writers, inputs, outputs, state, answers, delivered,
                    dbErrors, crashes>>
    BY <1>7 DEF RegisterException
  <2>2. CASE state.mode = "advance"
    <3>1. /\ job' = [at |-> "update", call |-> "exception",
                     status |-> "Exception", todo |-> state.outs["report"]]
          /\ UNCHANGED inspects
      BY <1>7, <2>2 DEF RegisterException, Begin
    <3>2. job' \in Jobs
      BY <3>1, <1>a DEF Jobs, Labels, Final, TypeOK, States, Tables
    <3>3. QED
      BY <2>1, <2>2, <3>1, <3>2, <1>a DEF Typed, TypeOK, JobFitsState
  <2>3. CASE state.mode = "inspect"
    <3>1. /\ job' = [at |-> "count", call |-> "exception",
                     status |-> "Exception", todo |-> <<>>]
          /\ MarkInspect("Exception")
      BY <1>7, <2>3 DEF RegisterException, Begin
    <3>2. job' \in Jobs
      BY <3>1 DEF Jobs, Labels, Final
    <3>3. inspects' \in Seq(Inspections) /\ Len(inspects') = Len(inspects)
      BY <3>1, <2>3, <1>a, MarkInspectType DEF Status, Final
    <3>4. QED
      BY <2>1, <2>3, <3>1, <3>2, <3>3, <1>a DEF Typed, TypeOK, JobFitsState
  <2>4. QED
    BY <1>7, <2>2, <2>3 DEF RegisterException
<1>8. CASE SaveOutput
  <2>1. /\ Head(job.todo) \in Output
        /\ Tail(job.todo) \in Seq(Output)
        /\ job.todo # <<>>
        /\ job.at = "save"
    BY <1>8, <1>a, HeadTailProperties DEF SaveOutput, TypeOK, Jobs
  <2>2. outputs' \in Seq(Output)
    BY <1>8, <1>a, <2>1 DEF SaveOutput, TypeOK
  <2>3. job' = [job EXCEPT !.todo = Tail(job.todo)]
    BY <1>8 DEF SaveOutput
  <2>4. job' \in Jobs
    BY <1>a, <2>1, <2>3 DEF TypeOK, Jobs
  <2>5. job'.at = "save" /\ job'.call = job.call /\ job'.status = job.status
    BY <1>a, <2>1, <2>3 DEF TypeOK, Jobs
  <2>6. QED
    BY <1>8, <1>a, <2>1, <2>2, <2>4, <2>5
       DEF SaveOutput, Typed, TypeOK, JobFitsState
<1>9. CASE OutputsSaved
  <2>1. CASE job.call = "finish"
    <3>1. job' = [job EXCEPT !.at = "update"] /\ UNCHANGED state
      BY <1>9, <2>1 DEF OutputsSaved, Done
    <3>2. /\ job' \in Jobs
          /\ job'.at = "update"
          /\ job'.call = job.call
          /\ job'.status = job.status
          /\ job'.todo = job.todo
      BY <3>1, <1>a DEF TypeOK, Jobs, Labels
    <3>3. QED
      BY <1>9, <3>1, <3>2, <1>a DEF OutputsSaved, Typed, TypeOK, JobFitsState
  <2>2. CASE job.call = "exception"
    <3>1. state' = Idle /\ job' = Free
      BY <1>9, <2>2 DEF OutputsSaved, Done
    <3>2. Idle.mode = "idle" /\ Free.at = "free"
      BY DEF Idle, Free
    <3>3. QED
      BY <1>9, <3>1, <3>2, <1>a, FreshData
         DEF OutputsSaved, Typed, TypeOK, JobFitsState
  <2>3. QED
    BY <2>1, <2>2, <1>a DEF TypeOK, Jobs
<1>10. CASE UpdateInput
  <2>2. inputs' \in Seq(Status) /\ Len(inputs') = Len(inputs)
    BY <1>10, <1>a, UpdateInputType
  <2>3. /\ job' \in Jobs
        /\ job'.at = IF job.call = "finish" THEN "next" ELSE "save"
        /\ job'.call = job.call
        /\ job'.status = job.status
    BY <1>10, <1>a DEF UpdateInput, TypeOK, Jobs, Labels
  <2>4. QED
    BY <1>10, <1>a, <2>2, <2>3 DEF UpdateInput, Typed, TypeOK, JobFitsState
<1>11. ASSUME job.at = "count", NEW count \in {"counted", "failed"}, RecordInspect(count), Done,
              UNCHANGED <<writers, inputs, outputs, answers, delivered, crashes>>,
              dbErrors' \in Nat
       PROVE  Typed'
  <2>1. inspects' \in Seq(Inspections) /\ Len(inspects') = Len(inspects)
    BY <1>11, <1>a, RecordInspectType DEF JobFitsState
  <2>2. CASE job.call = "finish"
    <3>1. job' = [job EXCEPT !.at = "next"] /\ UNCHANGED state
      BY <1>11, <2>2 DEF Done
    <3>2. /\ job' \in Jobs
          /\ job'.at = "next"
          /\ job'.call = job.call
          /\ job'.status = job.status
      BY <3>1, <1>a DEF TypeOK, Jobs, Labels
    <3>3. QED
      BY <1>11, <2>1, <2>2, <3>1, <3>2, <1>a DEF Typed, TypeOK, JobFitsState
  <2>3. CASE job.call = "exception"
    <3>1. state' = Idle /\ job' = Free
      BY <1>11, <2>3 DEF Done
    <3>2. Idle.mode = "idle" /\ Free.at = "free"
      BY DEF Idle, Free
    <3>3. QED
      BY <1>11, <2>1, <3>1, <3>2, <1>a, FreshData
         DEF Typed, TypeOK, JobFitsState
  <2>4. QED
    BY <2>2, <2>3, <1>a DEF TypeOK, Jobs
<1>12. CASE CountProcessed
  BY <1>11, <1>12, <1>a DEF CountProcessed, TypeOK
<1>13. CASE PickNext
  <2>1. job' = Free /\ Free.at = "free"
    BY <1>13 DEF PickNext, Free
  <2>2. UNCHANGED <<writers, inputs, outputs, inspects, answers, dbErrors,
                    crashes>>
    BY <1>13 DEF PickNext
  <2>3. /\ state' \in States
        /\ state'.mode = "advance" => state'.input \in DOMAIN inputs
        /\ state'.mode = "inspect" => state'.input \in DOMAIN inspects
        /\ delivered' \in Seq(Deliveries)
    <3>1. CASE \E n \in UnprocessedInspects :
                 state' = Inspect(n) /\ UNCHANGED delivered
      <4>1. PICK n \in UnprocessedInspects :
              state' = Inspect(n) /\ UNCHANGED delivered
        BY <3>1
      <4>2. n \in DOMAIN inspects /\ n \in Nat
        BY <1>a DEF UnprocessedInspects, TypeOK
      <4>3. Inspect(n).mode = "inspect" /\ Inspect(n).input = n
        BY DEF Inspect
      <4>4. QED
        BY <4>1, <4>2, <4>3, <1>a, FreshData DEF TypeOK
    <3>2. CASE \E n \in Unprocessed(inputs) :
                 /\ state' = Advance(n)
                 /\ delivered' = Append(delivered,
                                        [input |-> n, known |-> Len(inputs)])
      <4>1. PICK n \in Unprocessed(inputs) :
              /\ state' = Advance(n)
              /\ delivered' = Append(delivered,
                                     [input |-> n, known |-> Len(inputs)])
        BY <3>2
      <4>2. /\ n \in DOMAIN inputs /\ n \in Nat
            /\ [input |-> n, known |-> Len(inputs)] \in Deliveries
        BY <1>a DEF Unprocessed, TypeOK, Deliveries
      <4>3. Advance(n).mode = "advance" /\ Advance(n).input = n
        BY DEF Advance
      <4>4. QED
        BY <4>1, <4>2, <4>3, <1>a, FreshData DEF TypeOK
    <3>3. CASE state' = Idle /\ UNCHANGED delivered
      <4>1. Idle.mode = "idle"
        BY DEF Idle
      <4>2. QED
        BY <3>3, <4>1, <1>a, FreshData DEF TypeOK
    <3>4. QED
      BY <1>13, <3>1, <3>2, <3>3 DEF PickNext
  <2>4. QED
    BY <2>1, <2>2, <2>3, <1>a, FreshData DEF Typed, TypeOK, JobFitsState
<1>14. CASE DbError
  <2>1. /\ UNCHANGED <<writers, inputs, outputs, answers, delivered, crashes>>
        /\ dbErrors' \in Nat
    BY <1>14, <1>a DEF DbError, TypeOK
  <2>2. CASE job' = Free /\ UNCHANGED <<state, inspects>>
    <3>1. Free.at = "free"
      BY DEF Free
    <3>2. QED
      BY <2>1, <2>2, <3>1, <1>a, FreshData DEF Typed, TypeOK, JobFitsState
  <2>3. CASE job.at = "count" /\ RecordInspect("failed") /\ Done
    BY <1>11, <2>1, <2>3
  <2>4. QED
    BY <1>14, <2>2, <2>3 DEF DbError
<1>15. CASE Crash
  <2>1. Free.at = "free" /\ Idle.mode = "idle"
    BY DEF Free, Idle
  <2>2. calls' \in [Handlers \cup {Listener} -> Calls]
    BY <1>15, <1>a DEF Crash, TypeOK, NoCall, Calls
  <2>3. QED
    BY <1>15, <2>1, <2>2, <1>a, FreshData DEF Crash, Typed, TypeOK, JobFitsState
<1>16. CASE UNCHANGED vars
  BY <1>16, <1>a DEF vars, Typed, TypeOK, JobFitsState
<1>17. QED
  BY <1>1, <1>2, <1>3, <1>4, <1>5, <1>6, <1>7, <1>8, <1>9, <1>10, <1>12,
     <1>13, <1>14, <1>15, <1>16 DEF Next, WriterStep

(* The state of the model keeps its shape and its references: the current  *)
(* input is always a row of the table or a queued inspect.                 *)
THEOREM TypeCorrect == Spec => []TypeOK
<1>1. Typed => TypeOK
  BY DEF Typed
<1>2. QED
  BY InitTyped, NextTyped, <1>1, PTL DEF Spec

-----------------------------------------------------------------------------
(* Elements of sequences.                                                  *)

(* What an append adds.                                                    *)
LEMMA ElementsOfAppend ==
  ASSUME NEW S, NEW seq \in Seq(S), NEW e \in S
  PROVE  Elements(Append(seq, e)) = Elements(seq) \cup {e}
  BY SMTT(20) DEF Elements

(* A sequence holds its head and what its tail holds.                      *)
LEMMA ElementsOfTail ==
  ASSUME NEW S, NEW seq \in Seq(S), seq # <<>>
  PROVE  Elements(seq) = {Head(seq)} \cup Elements(Tail(seq))
<1>1. /\ Len(seq) \in Nat \ {0}
      /\ DOMAIN seq = 1..Len(seq)
      /\ Tail(seq) \in Seq(S)
      /\ Len(Tail(seq)) = Len(seq) - 1
      /\ DOMAIN Tail(seq) = 1..(Len(seq) - 1)
      /\ \A k \in 1..(Len(seq) - 1) : Tail(seq)[k] = seq[k + 1]
      /\ Head(seq) = seq[1]
  BY HeadTailProperties, EmptySeq, LenProperties
<1>2. ASSUME NEW k \in DOMAIN seq
      PROVE  seq[k] \in {Head(seq)} \cup Elements(Tail(seq))
  <2>1. CASE k = 1
    BY <1>1, <2>1
  <2>2. CASE k # 1
    <3>1. k - 1 \in DOMAIN Tail(seq) /\ Tail(seq)[k - 1] = seq[k]
      BY <1>1, <2>2
    <3>2. QED
      BY <3>1 DEF Elements
  <2>3. QED
    BY <2>1, <2>2
<1>3. ASSUME NEW k \in DOMAIN Tail(seq)
      PROVE  Tail(seq)[k] \in Elements(seq)
  BY <1>1 DEF Elements
<1>4. Head(seq) \in Elements(seq)
  BY <1>1 DEF Elements
<1>5. QED
  BY <1>2, <1>3, <1>4 DEF Elements

(* A concatenation holds what its parts hold.                              *)
LEMMA ElementsOfConcat ==
  ASSUME NEW S, NEW s \in Seq(S), NEW t \in Seq(S)
  PROVE  Elements(s \o t) = Elements(s) \cup Elements(t)
<1>1. /\ s \o t \in Seq(S)
      /\ DOMAIN (s \o t) = 1..(Len(s) + Len(t))
      /\ \A k \in 1..(Len(s) + Len(t)) :
           (s \o t)[k] = IF k <= Len(s) THEN s[k] ELSE t[k - Len(s)]
      /\ Len(s) \in Nat /\ DOMAIN s = 1..Len(s)
      /\ Len(t) \in Nat /\ DOMAIN t = 1..Len(t)
  BY ConcatProperties, LenProperties
<1>2. ASSUME NEW k \in DOMAIN (s \o t)
      PROVE  (s \o t)[k] \in Elements(s) \cup Elements(t)
  <2>1. CASE k <= Len(s)
    BY <1>1, <2>1 DEF Elements
  <2>2. CASE ~(k <= Len(s))
    <3>1. k - Len(s) \in DOMAIN t /\ (s \o t)[k] = t[k - Len(s)]
      BY <1>1, <2>2
    <3>2. QED
      BY <3>1 DEF Elements
  <2>3. QED
    BY <2>1, <2>2
<1>3. ASSUME NEW k \in DOMAIN s
      PROVE  s[k] \in Elements(s \o t)
  <2>1. k \in DOMAIN (s \o t) /\ (s \o t)[k] = s[k]
    BY <1>1
  <2>2. QED
    BY <2>1 DEF Elements
<1>4. ASSUME NEW k \in DOMAIN t
      PROVE  t[k] \in Elements(s \o t)
  <2>1. k + Len(s) \in DOMAIN (s \o t) /\ (s \o t)[k + Len(s)] = t[k]
    BY <1>1
  <2>2. QED
    BY <2>1 DEF Elements
<1>5. QED
  BY <1>2, <1>3, <1>4 DEF Elements

(* A fresh state has emitted nothing, and a free job has nothing to save.  *)
LEMMA NothingEmitted ==
  /\ Elements(<<>>) = {}
  /\ \A t \in Tables : Elements(NoOutputs[t]) = {}
  BY DEF Elements, NoOutputs

(* An accepting finish saves every slice, a rejecting one the reports.     *)
LEMMA ElementsToSave ==
  ASSUME TypeOK
  PROVE  /\ Elements(ToSave("Accepted")) =
              Elements(state.outs["voucher"]) \cup Elements(state.outs["notice"])
              \cup Elements(state.outs["report"])
         /\ ToSave("Rejected") = state.outs["report"]
<1> DEFINE v == state.outs["voucher"]
           n == state.outs["notice"]
           r == state.outs["report"]
<1>1. v \in Seq(Output) /\ n \in Seq(Output) /\ r \in Seq(Output)
  BY DEF TypeOK, States, Tables
<1>2. ToSave("Accepted") = v \o n \o r /\ ToSave("Rejected") = r
  BY DEF ToSave
<1> HIDE DEF v, n, r
<1>3. v \o n \in Seq(Output)
  BY <1>1, ConcatProperties
<1>4. /\ Elements(v \o n) = Elements(v) \cup Elements(n)
      /\ Elements((v \o n) \o r) = Elements(v \o n) \cup Elements(r)
  BY <1>1, <1>3, ElementsOfConcat, ZenonT(40)
<1>5. Elements(ToSave("Accepted")) = Elements(v) \cup Elements(n) \cup Elements(r)
  BY <1>2, <1>4
<1>6. QED
  BY <1>2, <1>5 DEF v, n, r

-----------------------------------------------------------------------------
(* The inductive step.  Each lemma takes the actions that disturb the same *)
(* conjuncts; type correctness comes from NextTyped.                       *)

(* A fresh program has written nothing.                                    *)
LEMMA InitLifecycle == Init => LifecycleInvariant
<1> SUFFICES ASSUME Init
             PROVE  LifecycleInvariant
  OBVIOUS
<1>1. /\ job.at = "free" /\ job.todo = <<>>
      /\ state.mode = "idle" /\ state.outs = NoOutputs
  BY DEF Init, Free, Idle
<1>2. Elements(inputs) = {} /\ Elements(outputs) = {} /\ Elements(delivered) = {}
  BY NothingEmitted DEF Init
<1>3. OutputsOfCurrent
  BY <1>1, <1>2, NothingEmitted DEF OutputsOfCurrent
<1>4. CommitPoint /\ SavedOrToDo
  BY <1>1 DEF CommitPoint, SavedOrToDo
<1>5. LowerAreFinal /\ OneInFlight /\ OnlyAcceptedPublish
  BY <1>1, <1>2 DEF LowerAreFinal, OneInFlight, OnlyAcceptedPublish, Alone
<1>6. DeliveredInOrder
  BY DEF Init, DeliveredInOrder
<1>7. QED
  BY <1>3, <1>4, <1>5, <1>6, InitTyped DEF LifecycleInvariant, Typed

(* Queueing and polling an inspect, and stuttering, leave alone everything *)
(* the invariant speaks of but the inspects.                               *)
LEMMA InspectStepsLifecycle ==
  ASSUME LifecycleInvariant, Typed',
         UNCHANGED <<inputs, indices, outputs, state, job, delivered, dbErrors, crashes>>
  PROVE  LifecycleInvariant'
<1>1. OutputsOfCurrent' /\ SavedOrToDo'
  BY DEF LifecycleInvariant, OutputsOfCurrent, SavedOrToDo
<1>2. CommitPoint' /\ LowerAreFinal'
  BY DEF LifecycleInvariant, CommitPoint, Committed, LowerAreFinal
<1>3. OneInFlight' /\ DeliveredInOrder' /\ OnlyAcceptedPublish'
  BY DEF LifecycleInvariant, OneInFlight, DeliveredInOrder,
         OnlyAcceptedPublish, Alone, InFlight
<1>4. QED
  BY <1>1, <1>2, <1>3 DEF LifecycleInvariant, Typed

(* The rows there were when an input went out are still there.             *)
LEMMA KnownRows ==
  ASSUME TypeOK, LowerAreFinal, NEW d \in Elements(delivered)
  PROVE  /\ d.known \in Nat /\ d.input \in Nat
         /\ 1..d.known \subseteq DOMAIN inputs
<1>1. d \in Deliveries
  BY DEF TypeOK, Elements
<1>2. d.known <= Len(inputs) /\ Len(inputs) \in Nat /\ DOMAIN inputs = 1..Len(inputs)
  BY DEF TypeOK, LowerAreFinal
<1>3. d.known \in Nat /\ d.input \in Nat
  BY <1>1 DEF Deliveries
<1>4. QED
  BY <1>2, <1>3

(* A new row is unprocessed and is not one of the rows in use; the others  *)
(* keep their Index, and may lose that it is their own.                    *)
LEMMA RowCreatedLifecycle ==
  ASSUME LifecycleInvariant, Typed', RowCreated
  PROVE  LifecycleInvariant'
<1>1. /\ DOMAIN inputs \subseteq DOMAIN inputs'
      /\ DOMAIN indices = DOMAIN inputs /\ DOMAIN indices \subseteq DOMAIN indices'
      /\ Len(inputs) \in Nat /\ Len(inputs) <= Len(inputs')
      /\ \A n \in DOMAIN inputs :
           inputs'[n] = inputs[n] /\ indices'[n] = indices[n]
  <2>1. /\ Len(inputs) \in Nat /\ DOMAIN inputs = 1..Len(inputs)
        /\ DOMAIN indices = 1..Len(inputs)
    BY DEF LifecycleInvariant, TypeOK
  <2>2. /\ Len(inputs') = Len(inputs) + 1 /\ DOMAIN inputs' = 1..Len(inputs')
        /\ DOMAIN indices' = 1..Len(inputs')
        /\ \A n \in DOMAIN inputs :
             inputs'[n] = inputs[n] /\ indices'[n] = indices[n]
    BY RowCreatedType DEF LifecycleInvariant
  <2>3. QED
    BY <2>1, <2>2
<1>2. UNCHANGED <<outputs, state, job, delivered, dbErrors, crashes>>
  BY RowCreatedType DEF LifecycleInvariant
<1>3. OutputsOfCurrent'
  BY <1>1, <1>2 DEF LifecycleInvariant, OutputsOfCurrent
<1>4. CommitPoint'
  BY <1>1, <1>2 DEF LifecycleInvariant, TypeOK, CommitPoint, Committed
<1>5. SavedOrToDo'
  BY <1>2 DEF LifecycleInvariant, SavedOrToDo
<1>6. LowerAreFinal'
  <2>1. ASSUME NEW d \in Elements(delivered)
        PROVE  /\ d.input \in DOMAIN inputs' /\ d.known <= Len(inputs')
               /\ \A n \in 1..d.known :
                    indices'[n] < indices'[d.input] => inputs'[n] # "Unprocessed"
    <3>1. /\ d.input \in DOMAIN inputs /\ d.known <= Len(inputs)
          /\ \A n \in 1..d.known :
               indices[n] < indices[d.input] => inputs[n] # "Unprocessed"
      BY DEF LifecycleInvariant, LowerAreFinal
    <3>2. 1..d.known \subseteq DOMAIN inputs
      BY KnownRows DEF LifecycleInvariant
    <3>3. d.known \in Nat
      BY KnownRows DEF LifecycleInvariant
    <3>4. \A n \in 1..d.known :
            indices'[n] < indices'[d.input] => inputs'[n] # "Unprocessed"
      BY <1>1, <3>1, <3>2
    <3>5. QED
      BY <1>1, <3>1, <3>3, <3>4
  <2>2. QED
    BY <1>2, <2>1 DEF LifecycleInvariant, LowerAreFinal
<1>7. OneInFlight'
  BY <1>1, <1>2 DEF LifecycleInvariant, LowerAreFinal, OneInFlight, InFlight
<1>8. DeliveredInOrder'
  <2>1. \A k \in DOMAIN delivered :
          indices'[delivered[k].input] = indices[delivered[k].input]
    BY <1>1 DEF LifecycleInvariant, LowerAreFinal, Elements
  <2>2. QED
    BY <1>2, <2>1 DEF LifecycleInvariant, DeliveredInOrder
<1>9. OnlyAcceptedPublish'
  <2>1. \A out \in Elements(outputs) :
          /\ out.input \in DOMAIN inputs
          /\ Alone(out.input)' => Alone(out.input)
    BY <1>1 DEF LifecycleInvariant, OutputsOfCurrent, Alone
  <2>2. QED
    BY <1>1, <1>2, <2>1 DEF LifecycleInvariant, OnlyAcceptedPublish, InFlight
<1>10. QED
  BY <1>3, <1>4, <1>5, <1>6, <1>7, <1>8, <1>9 DEF LifecycleInvariant, Typed

(* An emitted output carries the current input and goes to its own slice.  *)
LEMMA EmitLifecycle ==
  ASSUME LifecycleInvariant, Typed', NEW kind \in Kinds, Emit(kind)
  PROVE  LifecycleInvariant'
<1> DEFINE t   == TableOf(kind)
           out == [kind |-> kind, input |-> state.input,
                   index |-> Len(state.outs[t])]
<1>1. /\ state'.mode = state.mode
      /\ state'.input = state.input
  BY EmitType DEF LifecycleInvariant
<1>2. /\ UNCHANGED <<inputs, indices, outputs, job, delivered, dbErrors, crashes>>
      /\ job.at = "free"
  BY DEF Emit, writers, columns, database, faults
<1>3. ASSUME NEW u \in Tables
      PROVE  \A o \in Elements(state'.outs[u]) :
               o.input = state.input /\ TableOf(o.kind) = u
  <2>1. t \in Tables /\ out \in Output
    BY DEF TableOf, Kinds, Tables, LifecycleInvariant, TypeOK, States, Output
  <2>2. state' = [state EXCEPT !.outs[t] = Append(@, out)]
    BY DEF Emit
  <2>3. out.input = state.input /\ TableOf(out.kind) = t
    OBVIOUS
  <2> HIDE DEF t, out
  <2>4. state'.outs[u] = IF u = t THEN Append(state.outs[t], out)
                                  ELSE state.outs[u]
    BY <2>1, <2>2 DEF LifecycleInvariant, TypeOK, States
  <2>5. state.outs[t] \in Seq(Output)
    BY <2>1 DEF LifecycleInvariant, TypeOK, States
  <2>6. Elements(Append(state.outs[t], out)) = Elements(state.outs[t]) \cup {out}
    BY <2>1, <2>5, ElementsOfAppend
  <2>7. QED
    BY <2>1, <2>3, <2>4, <2>6 DEF LifecycleInvariant, OutputsOfCurrent
<1>4. OutputsOfCurrent'
  BY <1>1, <1>2, <1>3 DEF LifecycleInvariant, OutputsOfCurrent
<1>5. CommitPoint'
  BY <1>1, <1>2 DEF LifecycleInvariant, CommitPoint, Committed
<1>6. SavedOrToDo'
  BY <1>2 DEF SavedOrToDo
<1>7. LowerAreFinal'
  BY <1>1, <1>2 DEF LifecycleInvariant, LowerAreFinal
<1>8. OneInFlight' /\ DeliveredInOrder'
  BY <1>1, <1>2
     DEF LifecycleInvariant, OneInFlight, InFlight, DeliveredInOrder
<1>9. OnlyAcceptedPublish'
  BY <1>1, <1>2 DEF LifecycleInvariant, OnlyAcceptedPublish, Alone, InFlight
<1>10. QED
  BY <1>4, <1>5, <1>6, <1>7, <1>8, <1>9 DEF LifecycleInvariant, Typed

(* A method takes the mutex; it has written nothing yet.  `todo` is what   *)
(* it is going to save.                                                    *)
LEMMA BeginLifecycle ==
  ASSUME LifecycleInvariant, Typed', job.at = "free",
         UNCHANGED <<inputs, indices, outputs, state, delivered, dbErrors, crashes>>,
         state.mode = "advance" => ~Committed',
         \A out \in Elements(job'.todo) :
           /\ \E t \in Tables : out \in Elements(state.outs[t])
           /\ job'.status = "Accepted" \/ out \in Elements(state.outs["report"]),
         job'.at \in {"save", "update"} /\ job'.status = "Accepted" =>
           \A t \in Tables : Elements(state.outs[t]) \subseteq Elements(job'.todo)
  PROVE  LifecycleInvariant'
<1>1. ASSUME NEW out \in Elements(state.outs["report"])
      PROVE  out.kind = "report"
  BY <1>1 DEF LifecycleInvariant, OutputsOfCurrent, TableOf, Tables
<1>2. OutputsOfCurrent'
  BY <1>1 DEF LifecycleInvariant, OutputsOfCurrent
<1>3. CommitPoint'
  BY DEF LifecycleInvariant, CommitPoint, Committed
<1>4. SavedOrToDo'
  BY DEF SavedOrToDo
<1>5. LowerAreFinal'
  BY DEF LifecycleInvariant, LowerAreFinal
<1>6. OneInFlight' /\ DeliveredInOrder'
  BY DEF LifecycleInvariant, OneInFlight, InFlight, DeliveredInOrder
<1>7. OnlyAcceptedPublish'
  BY DEF LifecycleInvariant, OnlyAcceptedPublish, Alone
<1>8. QED
  BY <1>2, <1>3, <1>4, <1>5, <1>6, <1>7 DEF LifecycleInvariant, Typed

(* A finish takes the mutex and writes nothing yet.                        *)
LEMMA FinishLifecycle ==
  ASSUME LifecycleInvariant, Typed', NEW status \in {"Accepted", "Rejected"},
         FinishAndGetNext(status)
  PROVE  LifecycleInvariant'
<1>1. /\ job.at = "free"
      /\ UNCHANGED <<inputs, indices, outputs, state, delivered, dbErrors, crashes>>
  BY DEF FinishAndGetNext, writers, columns, database, faults
<1>2. CASE state.mode = "advance"
  <2>1. job' = [at |-> "save", call |-> "finish", status |-> status,
                todo |-> ToSave(status)]
    BY <1>2 DEF FinishAndGetNext, Begin
  <2>2. ~Committed'
    BY <2>1 DEF Committed
  <2>3. \A out \in Elements(ToSave(status)) :
          /\ \E t \in Tables : out \in Elements(state.outs[t])
          /\ status = "Accepted" \/ out \in Elements(state.outs["report"])
    BY ElementsToSave DEF LifecycleInvariant, Tables
  <2>4. status = "Accepted" =>
          \A t \in Tables : Elements(state.outs[t]) \subseteq Elements(ToSave(status))
    BY ElementsToSave DEF LifecycleInvariant, Tables
  <2>5. job'.todo = ToSave(status) /\ job'.status = status
    BY <2>1
  <2>6. QED
    BY <1>1, <2>2, <2>3, <2>4, <2>5, BeginLifecycle
<1>3. CASE state.mode # "advance"
  <2>1. job'.at \in {"next", "count"} /\ job'.todo = <<>>
    BY <1>3 DEF FinishAndGetNext, Begin
  <2>2. QED
    BY <1>1, <1>3, <2>1, NothingEmitted, BeginLifecycle
<1>4. QED
  BY <1>2, <1>3

(* So does an exception.                                                   *)
LEMMA ExceptionLifecycle ==
  ASSUME LifecycleInvariant, Typed', RegisterException
  PROVE  LifecycleInvariant'
<1>1. /\ job.at = "free"
      /\ UNCHANGED <<inputs, indices, outputs, state, delivered, dbErrors, crashes>>
  BY DEF RegisterException, writers, columns, database, faults
<1>2. CASE state.mode = "advance"
  <2>1. job' = [at |-> "update", call |-> "exception", status |-> "Exception",
                todo |-> state.outs["report"]]
    BY <1>2 DEF RegisterException, Begin
  <2>2. ~Committed' /\ "report" \in Tables
    BY <2>1 DEF Committed, Tables
  <2>3. QED
    BY <1>1, <2>1, <2>2, BeginLifecycle
<1>3. CASE state.mode # "advance"
  <2>1. job'.at = "count" /\ job'.todo = <<>>
    BY <1>3 DEF RegisterException, Begin
  <2>2. QED
    BY <1>1, <1>3, <2>1, NothingEmitted, BeginLifecycle
<1>4. QED
  BY <1>2, <1>3

(* Saving moves one output from `todo` to the table.                       *)
LEMMA SaveOutputLifecycle ==
  ASSUME LifecycleInvariant, Typed', SaveOutput
  PROVE  LifecycleInvariant'
<1> DEFINE out == Head(job.todo)
<1>1. /\ UNCHANGED <<inputs, indices, state, delivered, dbErrors, crashes>>
      /\ job.at = "save" /\ job.todo # <<>>
      /\ outputs' = Append(outputs, out)
      /\ job' = [job EXCEPT !.todo = Tail(job.todo)]
  BY DEF SaveOutput, writers, columns, faults
<1>2. /\ job'.at = "save" /\ job'.call = job.call /\ job'.status = job.status
      /\ job'.todo = Tail(job.todo)
  BY <1>1 DEF LifecycleInvariant, TypeOK, Jobs
<1>3. Elements(job.todo) = {out} \cup Elements(job'.todo)
  BY <1>1, <1>2, ElementsOfTail DEF LifecycleInvariant, TypeOK, Jobs
<1>4. out \in Output
  BY <1>1, HeadTailProperties DEF LifecycleInvariant, TypeOK, Jobs
<1>5. Elements(outputs') = Elements(outputs) \cup {out}
  BY <1>1, <1>4, ElementsOfAppend DEF LifecycleInvariant, TypeOK
<1>6. /\ state.mode = "advance" /\ state.input \in DOMAIN inputs
      /\ out.input = state.input
      /\ job.status = "Accepted" \/ out.kind = "report"
  BY <1>1, <1>3
     DEF LifecycleInvariant, JobFitsState, TypeOK, OutputsOfCurrent
<1> HIDE DEF out
<1>7. OutputsOfCurrent'
  BY <1>1, <1>2, <1>3, <1>5, <1>6 DEF LifecycleInvariant, OutputsOfCurrent
<1>8. CommitPoint'
  BY <1>1, <1>2 DEF LifecycleInvariant, CommitPoint, Committed
<1>9. SavedOrToDo'
  BY <1>1, <1>2, <1>3, <1>5 DEF LifecycleInvariant, SavedOrToDo
<1>10. LowerAreFinal' /\ DeliveredInOrder'
  BY <1>1 DEF LifecycleInvariant, LowerAreFinal, DeliveredInOrder
<1>11. OneInFlight'
  BY <1>1 DEF LifecycleInvariant, OneInFlight, InFlight
<1>12. OnlyAcceptedPublish'
  BY <1>1, <1>2, <1>5, <1>6
     DEF LifecycleInvariant, OnlyAcceptedPublish, Alone, InFlight
<1>13. QED
  BY <1>7, <1>8, <1>9, <1>10, <1>11, <1>12 DEF LifecycleInvariant, Typed

(* The mutex is given back and the state is left idle, past the commit     *)
(* point: the row of the input that was current is final.                  *)
LEMMA ReturnLifecycle ==
  ASSUME LifecycleInvariant, Typed', state' = Idle, job' = Free,
         UNCHANGED <<inputs, indices, outputs, delivered, crashes>>,
         dbErrors' \in {dbErrors, dbErrors + 1},
         state.mode = "advance" => Committed,
         job.status # "Accepted"
  PROVE  LifecycleInvariant'
<1>1. /\ Free.at = "free" /\ Free.todo = <<>>
      /\ Idle.mode = "idle" /\ Idle.outs = NoOutputs
  BY DEF Free, Idle
<1>2. OutputsOfCurrent'
  BY <1>1, NothingEmitted DEF LifecycleInvariant, OutputsOfCurrent
<1>3. CommitPoint' /\ SavedOrToDo'
  BY <1>1 DEF CommitPoint, SavedOrToDo
<1>4. LowerAreFinal' /\ DeliveredInOrder'
  BY <1>1 DEF LifecycleInvariant, LowerAreFinal, DeliveredInOrder
<1>5. OneInFlight'
  BY DEF LifecycleInvariant, OneInFlight, InFlight, CommitPoint
<1>6. dbErrors' = 0 => dbErrors = 0
  BY DEF LifecycleInvariant, TypeOK
<1>7. OnlyAcceptedPublish'
  BY <1>6 DEF LifecycleInvariant, OnlyAcceptedPublish, Alone
<1>8. QED
  BY <1>2, <1>3, <1>4, <1>5, <1>7 DEF LifecycleInvariant, Typed

(* The finish goes from one statement to the next without writing.         *)
LEMMA AdvanceJobLifecycle ==
  ASSUME LifecycleInvariant, Typed', NEW at \in {"update", "next"},
         job' = [job EXCEPT !.at = at],
         UNCHANGED <<inputs, indices, outputs, state, delivered, dbErrors, crashes>>,
         \/ at = "update" /\ job.at = "save" /\ job.call = "finish"
         \/ at = "next" /\ state.mode = "inspect" /\ job.at = "count"
  PROVE  LifecycleInvariant'
<1>1. /\ job'.at = at /\ job'.call = job.call /\ job'.status = job.status
      /\ job'.todo = job.todo
  BY DEF LifecycleInvariant, TypeOK, Jobs
<1>2. OutputsOfCurrent'
  BY <1>1 DEF LifecycleInvariant, OutputsOfCurrent
<1>3. CommitPoint'
  BY <1>1 DEF LifecycleInvariant, CommitPoint, Committed
<1>4. SavedOrToDo'
  BY <1>1 DEF LifecycleInvariant, SavedOrToDo
<1>5. LowerAreFinal' /\ DeliveredInOrder'
  BY DEF LifecycleInvariant, LowerAreFinal, DeliveredInOrder
<1>6. OneInFlight'
  BY DEF LifecycleInvariant, OneInFlight, InFlight
<1>7. OnlyAcceptedPublish'
  BY <1>1 DEF LifecycleInvariant, OnlyAcceptedPublish, Alone, InFlight
<1>8. QED
  BY <1>2, <1>3, <1>4, <1>5, <1>6, <1>7 DEF LifecycleInvariant, Typed

(* All outputs are saved: the row comes next, or the inspect.              *)
LEMMA OutputsSavedLifecycle ==
  ASSUME LifecycleInvariant, Typed', OutputsSaved
  PROVE  LifecycleInvariant'
<1>1. /\ job.at = "save"
      /\ UNCHANGED <<inputs, indices, outputs, delivered, dbErrors, crashes>>
  BY DEF OutputsSaved, writers, columns, database, faults
<1>2. CASE job.call = "finish"
  <2>1. job' = [job EXCEPT !.at = "update"] /\ UNCHANGED state
    BY <1>2 DEF OutputsSaved, Done
  <2>2. QED
    BY <1>1, <1>2, <2>1, AdvanceJobLifecycle
<1>3. CASE job.call = "exception"
  <2>1. state' = Idle /\ job' = Free
    BY <1>3 DEF OutputsSaved, Done
  <2>2. Committed /\ job.status # "Accepted"
    BY <1>1, <1>3 DEF Committed, LifecycleInvariant, JobFitsState
  <2>3. QED
    BY <1>1, <2>1, <2>2, ReturnLifecycle
<1>4. QED
  BY <1>2, <1>3 DEF LifecycleInvariant, TypeOK, Jobs

(* Writing the row of the current input is the commit point.               *)
LEMMA UpdateInputLifecycle ==
  ASSUME LifecycleInvariant, Typed', UpdateInput
  PROVE  LifecycleInvariant'
<1>1. /\ UNCHANGED <<indices, outputs, state, delivered, dbErrors, crashes>>
      /\ job.at = "update"
      /\ state.mode = "advance" /\ state.input \in DOMAIN inputs
  BY DEF UpdateInput, writers, columns, faults, LifecycleInvariant, JobFitsState, TypeOK
<1>2. /\ DOMAIN inputs' = DOMAIN inputs
      /\ \A n \in DOMAIN inputs :
           inputs'[n] \in {job.status, inputs[n]}
      /\ inputs'[state.input] = job.status
      /\ \A n \in DOMAIN inputs :
           Alone(n) /\ n # state.input => inputs'[n] = inputs[n]
  <2>1. PICK rows \in {{state.input}, Namesakes(state.input)} :
          \A n \in DOMAIN inputs :
            inputs'[n] = IF n \in rows THEN job.status ELSE inputs[n]
    BY UpdateInputType DEF LifecycleInvariant
  <2>2. state.input \in rows
    BY UpdateInputType DEF LifecycleInvariant
  <2>3. \A n \in DOMAIN inputs : Alone(n) /\ n # state.input => n \notin rows
    <3>1. state.input \in DOMAIN indices
      BY <1>1 DEF LifecycleInvariant, TypeOK
    <3>2. QED
      BY <2>1, <3>1 DEF Alone, Namesakes
  <2>4. DOMAIN inputs' = DOMAIN inputs
    BY UpdateInputType DEF LifecycleInvariant, TypeOK
  <2>5. QED
    BY <1>1, <2>1, <2>2, <2>3, <2>4
<1>3. job.status \in Final /\ job.status # "Unprocessed"
  BY UpdateInputType DEF LifecycleInvariant
<1>4. /\ job'.at = IF job.call = "finish" THEN "next" ELSE "save"
      /\ job'.call = job.call /\ job'.status = job.status
      /\ job'.todo = job.todo
  BY DEF UpdateInput, LifecycleInvariant, TypeOK, Jobs
<1>5. Committed' /\ ~Committed
  BY <1>1, <1>4 DEF Committed, LifecycleInvariant, TypeOK, Jobs
<1>6. OutputsOfCurrent'
  BY <1>1, <1>2, <1>4 DEF LifecycleInvariant, OutputsOfCurrent
<1>7. CommitPoint'
  BY <1>1, <1>2, <1>3, <1>5 DEF CommitPoint
<1>8. SavedOrToDo'
  BY <1>1, <1>4 DEF LifecycleInvariant, JobFitsState, SavedOrToDo
<1>9. LowerAreFinal'
  <2>1. \A d \in Elements(delivered) : 1..d.known \subseteq DOMAIN inputs
    BY KnownRows DEF LifecycleInvariant
  <2>2. Len(inputs') = Len(inputs)
    BY UpdateInputType DEF LifecycleInvariant
  <2>3. \A n \in DOMAIN inputs :
          inputs[n] # "Unprocessed" => inputs'[n] # "Unprocessed"
    BY <1>2, <1>3
  <2>4. QED
    BY <1>1, <1>2, <2>1, <2>2, <2>3 DEF LifecycleInvariant, LowerAreFinal
<1>10. OneInFlight'
  BY <1>1, <1>2, <1>3
     DEF LifecycleInvariant, LowerAreFinal, OneInFlight, InFlight
<1>11. DeliveredInOrder'
  <2>1. UNCHANGED <<delivered, indices, crashes>>
    BY <1>1
  <2>2. QED
    BY <2>1 DEF LifecycleInvariant, DeliveredInOrder
<1>12. OnlyAcceptedPublish'
  <2> SUFFICES ASSUME dbErrors = 0, crashes = 0,
                      NEW out \in Elements(outputs), out.kind # "report",
                      Alone(out.input)
               PROVE  inputs'[out.input] = "Accepted"
    BY <1>1 DEF OnlyAcceptedPublish, Alone
  <2>1. out.input \in DOMAIN inputs
    BY DEF LifecycleInvariant, OutputsOfCurrent
  <2>2. CASE out.input = state.input
    <3>1. inputs[out.input] = "Unprocessed"
      BY <1>1, <1>5, <2>2 DEF LifecycleInvariant, CommitPoint
    <3>2. job.status = "Accepted"
      BY <3>1 DEF LifecycleInvariant, OnlyAcceptedPublish, Alone
    <3>3. QED
      BY <1>2, <2>1, <2>2, <3>2
  <2>3. CASE out.input # state.input
    BY <1>2, <2>1, <2>3 DEF LifecycleInvariant, OnlyAcceptedPublish, Alone, InFlight
  <2>4. QED
    BY <2>2, <2>3
<1>13. QED
  BY <1>6, <1>7, <1>8, <1>9, <1>10, <1>11, <1>12 DEF LifecycleInvariant, Typed

(* The count of an inspect leaves inputs and outputs alone.                *)
LEMMA CountProcessedLifecycle ==
  ASSUME LifecycleInvariant, Typed', CountProcessed
  PROVE  LifecycleInvariant'
<1>1. /\ job.at = "count" /\ state.mode = "inspect"
      /\ UNCHANGED <<inputs, indices, outputs, delivered, dbErrors, crashes>>
  BY DEF CountProcessed, writers, columns, database, faults, LifecycleInvariant, JobFitsState
<1>2. CASE job.call = "finish"
  <2>1. job' = [job EXCEPT !.at = "next"] /\ UNCHANGED state
    BY <1>2 DEF CountProcessed, Done
  <2>2. QED
    BY <1>1, <2>1, AdvanceJobLifecycle
<1>3. CASE job.call = "exception"
  <2>1. state' = Idle /\ job' = Free
    BY <1>3 DEF CountProcessed, Done
  <2>2. job.status # "Accepted"
    BY <1>1, <1>3 DEF LifecycleInvariant, JobFitsState
  <2>3. QED
    BY <1>1, <2>1, <2>2, ReturnLifecycle
<1>4. QED
  BY <1>2, <1>3 DEF LifecycleInvariant, TypeOK, Jobs

(* When the next input is picked the row of the last one is final, so the  *)
(* input handed out is the only one in flight, and none that is there and  *)
(* waits has a lower Index.                                                *)
LEMMA PickNextLifecycle ==
  ASSUME LifecycleInvariant, Typed', PickNext
  PROVE  LifecycleInvariant'
<1>1. /\ job.at = "next"
      /\ job' = Free
      /\ UNCHANGED <<inputs, indices, outputs, dbErrors, crashes>>
  BY DEF PickNext, writers, columns, database, faults
<1>2. Free.at = "free" /\ Free.todo = <<>> /\ ~Committed'
  BY <1>1 DEF Free, Committed
<1>3. state'.outs = NoOutputs
  BY PickNextStates
<1>4. OutputsOfCurrent'
  BY <1>1, <1>2, <1>3, NothingEmitted DEF LifecycleInvariant, OutputsOfCurrent
<1>5. SavedOrToDo'
  BY <1>1, <1>2 DEF SavedOrToDo
<1>6. OnlyAcceptedPublish'
  BY <1>1 DEF LifecycleInvariant, OnlyAcceptedPublish, Alone
<1>7. \A d \in Elements(delivered) :
        crashes = 0 => inputs[d.input] # "Unprocessed"
  BY <1>1
     DEF LifecycleInvariant, OneInFlight, InFlight, CommitPoint, Committed
<1>8. CASE state'.mode # "advance" /\ UNCHANGED delivered
  <2>1. CommitPoint' /\ LowerAreFinal' /\ DeliveredInOrder'
    BY <1>1, <1>8
       DEF LifecycleInvariant, CommitPoint, LowerAreFinal, DeliveredInOrder
  <2>2. OneInFlight'
    BY <1>1, <1>7, <1>8 DEF OneInFlight
  <2>3. QED
    BY <1>4, <1>5, <1>6, <2>1, <2>2 DEF LifecycleInvariant, Typed
<1>9. ASSUME NEW n \in Unprocessed(inputs),
             HasLowestIndex(n, Unprocessed(inputs)), state' = Advance(n),
             delivered' = Append(delivered, [input |-> n, known |-> Len(inputs)])
      PROVE  LifecycleInvariant'
  <2> DEFINE e == [input |-> n, known |-> Len(inputs)]
  <2>1. /\ n \in DOMAIN inputs /\ n \in Nat
        /\ inputs[n] = "Unprocessed"
        /\ Len(inputs) \in Nat /\ DOMAIN inputs = 1..Len(inputs)
        /\ \A m \in DOMAIN inputs : indices[m] \in Nat
    <3>1. /\ inputs \in Seq(Status) /\ indices \in Seq(Nat)
          /\ Len(indices) = Len(inputs)
      BY DEF LifecycleInvariant, TypeOK
    <3>2. n \in DOMAIN inputs /\ inputs[n] = "Unprocessed"
      BY DEF Unprocessed
    <3>3. QED
      BY <3>1, <3>2
  <2>2. \A m \in 1..Len(inputs) :
          indices[m] < indices[n] => inputs[m] # "Unprocessed"
    BY <1>9, <2>1 DEF HasLowestIndex, Unprocessed
  <2>3. state'.mode = "advance" /\ state'.input = n
    BY <1>9 DEF Advance
  <2>4. e \in Deliveries /\ e.input = n /\ e.known = Len(inputs)
    BY <2>1 DEF Deliveries
  <2> HIDE DEF e
  <2>5. delivered \in Seq(Deliveries) /\ delivered' = Append(delivered, e)
    BY <1>9 DEF LifecycleInvariant, TypeOK, e
  <2>6. Elements(delivered') = Elements(delivered) \cup {e}
    BY <2>4, <2>5, ElementsOfAppend
  <2>7. CommitPoint'
    BY <1>1, <1>2, <2>1, <2>3 DEF CommitPoint
  <2>8. LowerAreFinal'
    BY <1>1, <2>1, <2>2, <2>3, <2>4, <2>6 DEF LifecycleInvariant, LowerAreFinal
  <2>9. OneInFlight'
    BY <1>1, <1>7, <2>3, <2>4, <2>6 DEF OneInFlight, InFlight
  <2>10. DeliveredInOrder'
    <3>1. ASSUME NEW k \in DOMAIN delivered
          PROVE  /\ n > delivered[k].known \/ indices[delivered[k].input] <= indices[n]
                 /\ crashes = 0 => delivered[k].input # n
      <4>1. delivered[k] \in Elements(delivered) /\ delivered[k].known \in Nat
        <5>1. delivered[k] \in Elements(delivered)
          BY DEF Elements
        <5>2. QED
          BY <5>1, KnownRows DEF LifecycleInvariant
      <4>2. /\ delivered[k].input \in DOMAIN inputs
            /\ \A m \in 1..delivered[k].known :
                 indices[m] < indices[delivered[k].input]
                   => inputs[m] # "Unprocessed"
        BY <4>1 DEF LifecycleInvariant, LowerAreFinal
      <4>3. n > delivered[k].known \/ n \in 1..delivered[k].known
        BY <2>1, <4>1
      <4>4. n \in 1..delivered[k].known =>
              ~(indices[n] < indices[delivered[k].input])
        BY <2>1, <4>2
      <4>5. indices[delivered[k].input] \in Nat /\ indices[n] \in Nat
        BY <2>1, <4>2
      <4>6. QED
        BY <1>7, <2>1, <4>1, <4>3, <4>4, <4>5
    <3>2. /\ DOMAIN delivered = 1..Len(delivered)
          /\ Len(delivered) \in Nat
          /\ DOMAIN delivered' = 1..(Len(delivered) + 1)
          /\ \A k \in DOMAIN delivered : delivered'[k] = delivered[k]
          /\ delivered'[Len(delivered) + 1] = e
      BY <2>4, <2>5
    <3>3. ASSUME NEW j \in DOMAIN delivered', NEW k \in DOMAIN delivered', j < k
          PROVE  /\ \/ delivered'[k].input > delivered'[j].known
                    \/ indices[delivered'[j].input] <= indices[delivered'[k].input]
                 /\ crashes = 0 => delivered'[j].input # delivered'[k].input
      <4>1. j \in DOMAIN delivered
        BY <3>2, <3>3
      <4>2. CASE k = Len(delivered) + 1
        BY <2>4, <3>1, <3>2, <4>1, <4>2
      <4>3. CASE k \in DOMAIN delivered
        BY <3>2, <3>3, <4>1, <4>3 DEF LifecycleInvariant, DeliveredInOrder
      <4>4. QED
        BY <3>2, <4>2, <4>3
    <3>4. QED
      BY <1>1, <3>3 DEF DeliveredInOrder
  <2>11. QED
    BY <1>4, <1>5, <1>6, <2>7, <2>8, <2>9, <2>10 DEF LifecycleInvariant, Typed
<1>10. QED
  <2>1. \A n : Inspect(n).mode # "advance"
    BY DEF Inspect
  <2>2. Idle.mode # "advance"
    BY DEF Idle
  <2>3. QED
    BY <1>8, <1>9, <2>1, <2>2, PickNextCases, Zenon

(* A failed statement gives the mutex back with the state it found: what   *)
(* it wrote stays, and from now on a statement has failed.                 *)
LEMMA DbErrorLifecycle ==
  ASSUME LifecycleInvariant, Typed', DbError
  PROVE  LifecycleInvariant'
<1>1. /\ UNCHANGED <<inputs, indices, outputs, delivered, crashes>>
      /\ dbErrors' = dbErrors + 1 /\ dbErrors' # 0
  BY DEF DbError, writers, columns, database, LifecycleInvariant, TypeOK
<1>2. CASE job' = Free /\ UNCHANGED state
  <2>1. Free.at = "free" /\ Free.todo = <<>>
    BY DEF Free
  <2>2. OutputsOfCurrent'
    BY <1>1, <1>2, <2>1, NothingEmitted DEF LifecycleInvariant, OutputsOfCurrent
  <2>3. CommitPoint' /\ SavedOrToDo' /\ OnlyAcceptedPublish'
    BY <1>1, <1>2, <2>1
       DEF CommitPoint, Committed, SavedOrToDo, OnlyAcceptedPublish, Alone
  <2>4. LowerAreFinal' /\ DeliveredInOrder'
    BY <1>1, <1>2 DEF LifecycleInvariant, LowerAreFinal, DeliveredInOrder
  <2>5. OneInFlight'
    BY <1>1, <1>2 DEF LifecycleInvariant, OneInFlight, InFlight
  <2>6. QED
    BY <2>2, <2>3, <2>4, <2>5 DEF LifecycleInvariant, Typed
<1>3. CASE job.at = "count" /\ job.call = "exception" /\ Done
  <2>1. state' = Idle /\ job' = Free
    BY <1>3 DEF Done
  <2>2. state.mode = "inspect" /\ job.status # "Accepted"
    BY <1>3 DEF LifecycleInvariant, JobFitsState
  <2>3. QED
    BY <1>1, <2>1, <2>2, ReturnLifecycle
<1>4. QED
  BY <1>2, <1>3 DEF DbError

(* A restart finds the rows as they are and nothing in flight.             *)
LEMMA CrashLifecycle ==
  ASSUME LifecycleInvariant, Typed', Crash
  PROVE  LifecycleInvariant'
<1>1. /\ UNCHANGED <<inputs, indices, outputs, delivered, dbErrors>>
      /\ state' = Idle /\ job' = Free
      /\ crashes' # 0
  BY DEF Crash, writers, columns, database, LifecycleInvariant, TypeOK
<1>2. /\ Free.at = "free" /\ Free.todo = <<>>
      /\ Idle.mode = "idle" /\ Idle.outs = NoOutputs
  BY DEF Free, Idle
<1>3. OutputsOfCurrent'
  BY <1>1, <1>2, NothingEmitted DEF LifecycleInvariant, OutputsOfCurrent
<1>4. CommitPoint' /\ SavedOrToDo' /\ OneInFlight' /\ OnlyAcceptedPublish'
  BY <1>1, <1>2 DEF CommitPoint, SavedOrToDo, OneInFlight, OnlyAcceptedPublish, Alone
<1>5. LowerAreFinal' /\ DeliveredInOrder'
  BY <1>1, <1>2 DEF LifecycleInvariant, LowerAreFinal, DeliveredInOrder
<1>6. QED
  BY <1>3, <1>4, <1>5 DEF LifecycleInvariant, Typed

(* Every step keeps the invariant.                                         *)
LEMMA NextLifecycle == LifecycleInvariant /\ [Next]_vars => LifecycleInvariant'
<1> SUFFICES ASSUME LifecycleInvariant, [Next]_vars
             PROVE  LifecycleInvariant'
  OBVIOUS
<1>1. Typed'
  BY NextTyped DEF Typed, LifecycleInvariant
<1>2. CASE WriterStep
  <2>1. CASE RowCreated
    BY <1>1, <2>1, RowCreatedLifecycle
  <2>2. CASE UNCHANGED allButCalls
    BY <1>1, <2>2, InspectStepsLifecycle
       DEF allButCalls, columns, database, faults
  <2>3. QED
    BY <1>2, <2>1, <2>2, WriterStepType DEF LifecycleInvariant
<1>3. CASE \/ AddInspectInput
           \/ \E n \in DOMAIN inspects : GetInspectInput(n) \/ InspectTimeout(n)
           \/ UNCHANGED vars
  <2>1. UNCHANGED <<inputs, indices, outputs, state, job, delivered, dbErrors, crashes>>
    BY <1>3 DEF AddInspectInput, GetInspectInput, InspectTimeout, vars,
                writers, columns, database, faults
  <2>2. QED
    BY <1>1, <2>1, InspectStepsLifecycle
<1>4. CASE AddVoucher \/ AddDCVoucher \/ AddNotice \/ AddReport
  <2>1. PICK kind \in Kinds : Emit(kind)
    BY <1>4 DEF AddVoucher, AddDCVoucher, AddNotice, AddReport, Kinds, Tables
  <2>2. QED
    BY <1>1, <2>1, EmitLifecycle
<1>5. CASE \E status \in {"Accepted", "Rejected"} : FinishAndGetNext(status)
  BY <1>1, <1>5, FinishLifecycle
<1>6. CASE RegisterException
  BY <1>1, <1>6, ExceptionLifecycle
<1>7. CASE SaveOutput
  BY <1>1, <1>7, SaveOutputLifecycle
<1>8. CASE OutputsSaved
  BY <1>1, <1>8, OutputsSavedLifecycle
<1>9. CASE UpdateInput
  BY <1>1, <1>9, UpdateInputLifecycle
<1>10. CASE CountProcessed
  BY <1>1, <1>10, CountProcessedLifecycle
<1>11. CASE PickNext
  BY <1>1, <1>11, PickNextLifecycle
<1>12. CASE DbError
  BY <1>1, <1>12, DbErrorLifecycle
<1>13. CASE Crash
  BY <1>1, <1>13, CrashLifecycle
<1>14. QED
  BY <1>2, <1>3, <1>4, <1>5, <1>6, <1>7, <1>8, <1>9, <1>10, <1>11, <1>12,
     <1>13 DEF Next, WriterStep

-----------------------------------------------------------------------------
(* The results.                                                            *)

(* The position of the running method determines what it has written, and  *)
(* the order and commit properties hold with it, under every fault.        *)
THEOREM LifecycleCorrect == Spec => []LifecycleInvariant
<1>1. QED
  BY InitLifecycle, NextLifecycle, PTL DEF Spec

(* Inputs are handed out by Index, but for those created since with a      *)
(* lower one, and again only after a crash.                                *)
THEOREM InOrder == Spec => []DeliveredInOrder
<1>1. LifecycleInvariant => DeliveredInOrder
  BY DEF LifecycleInvariant
<1>2. QED
  BY LifecycleCorrect, <1>1, PTL

(* An input handed out stays the current one until its status is final.    *)
THEOREM OneAtATime == Spec => []OneInFlight
<1>1. LifecycleInvariant => OneInFlight
  BY DEF LifecycleInvariant
<1>2. QED
  BY LifecycleCorrect, <1>1, PTL

(* Without faults, of the inputs with an Index of their own only accepted  *)
(* ones have vouchers and notices in the database.                         *)
THEOREM PublishedAreAccepted == Spec => []OnlyAcceptedPublish
<1>1. LifecycleInvariant => OnlyAcceptedPublish
  BY DEF LifecycleInvariant
<1>2. QED
  BY LifecycleCorrect, <1>1, PTL

(* A step that changes the status of an input is an UpdateInput, and       *)
(* writes rows with the Index of the current input.                        *)
LEMMA StatusChange ==
  ASSUME LifecycleInvariant, [Next]_vars, NEW n \in DOMAIN inputs,
         inputs'[n] # inputs[n]
  PROVE  /\ UpdateInput
         /\ state.mode = "advance" /\ n \in Namesakes(state.input)
         /\ Alone(n) => n = state.input
         /\ job.at = "update"
         /\ inputs'[n] = job.status
<1>1. UpdateInput
  <2>1. CASE WriterStep
    <3>1. RowCreated \/ UNCHANGED inputs
      BY <2>1, WriterStepType DEF LifecycleInvariant, allButCalls, database
    <3>2. QED
      BY <3>1, RowCreatedType DEF LifecycleInvariant
  <2>2. CASE UNCHANGED inputs
    BY <2>2
  <2>3. QED
    BY <2>1, <2>2
       DEF Next, WriterStep, vars, database, AddInspectInput, GetInspectInput,
           InspectTimeout, AddVoucher, AddDCVoucher, AddNotice, AddReport, Emit,
           FinishAndGetNext, RegisterException, SaveOutput, OutputsSaved,
           CountProcessed, PickNext, DbError, Crash
<1>2. job.at = "update" /\ state.mode = "advance" /\ state.input \in DOMAIN inputs
  BY <1>1 DEF UpdateInput, LifecycleInvariant, JobFitsState, TypeOK
<1>3. PICK rows \in {{state.input}, Namesakes(state.input)} :
        inputs'[n] = IF n \in rows THEN job.status ELSE inputs[n]
  BY <1>1, UpdateInputType DEF LifecycleInvariant
<1>4. n \in Namesakes(state.input) /\ inputs'[n] = job.status
  BY <1>1, <1>3, UpdateInputType DEF LifecycleInvariant
<1>5. Alone(n) => n = state.input
  BY <1>2, <1>4 DEF Alone, Namesakes, LifecycleInvariant, TypeOK
<1>6. QED
  BY <1>1, <1>2, <1>4, <1>5

(* The row of an input with an Index of its own turns Accepted only when   *)
(* every output emitted for it is in the database, under every fault.      *)
THEOREM AcceptedOutputsSaved == Spec => AcceptedIsComplete
<1>1. LifecycleInvariant /\ [Next]_vars =>
        [\A n \in DOMAIN inputs :
           Alone(n) /\ inputs[n] # "Accepted" /\ inputs'[n] = "Accepted" =>
             /\ InFlight(n)
             /\ \A t \in Tables :
                  Elements(state.outs[t]) \subseteq Elements(outputs)]_vars
  <2> SUFFICES ASSUME LifecycleInvariant, [Next]_vars,
                      NEW n \in DOMAIN inputs, Alone(n),
                      inputs[n] # "Accepted", inputs'[n] = "Accepted"
               PROVE  /\ InFlight(n)
                      /\ \A t \in Tables :
                           Elements(state.outs[t]) \subseteq Elements(outputs)
    OBVIOUS
  <2>1. /\ state.mode = "advance" /\ n = state.input
        /\ job.at = "update" /\ job.status = "Accepted"
    BY StatusChange
  <2>2. job.todo = <<>>
    BY <2>1 DEF LifecycleInvariant, JobFitsState, TypeOK, Jobs
  <2>3. QED
    BY <2>1, <2>2, NothingEmitted DEF InFlight, LifecycleInvariant, SavedOrToDo
<1>2. QED
  BY <1>1, LifecycleCorrect, PTL DEF AcceptedIsComplete, Spec

(* Until a statement fails, the status of an input with an Index of its    *)
(* own changes once.                                                       *)
THEOREM StatusIsFinal == Spec => FinalOnce
<1>1. LifecycleInvariant /\ [Next]_vars =>
        [\A n \in DOMAIN inputs :
           dbErrors = 0 /\ Alone(n) /\ inputs[n] # "Unprocessed"
             => inputs'[n] = inputs[n]]_vars
  <2> SUFFICES ASSUME LifecycleInvariant, [Next]_vars,
                      NEW n \in DOMAIN inputs,
                      dbErrors = 0, Alone(n), inputs[n] # "Unprocessed",
                      inputs'[n] # inputs[n]
               PROVE  FALSE
    OBVIOUS
  <2>1. state.mode = "advance" /\ n = state.input /\ job.at = "update"
    BY StatusChange
  <2>2. ~Committed
    BY <2>1 DEF Committed
  <2>3. QED
    BY <2>1, <2>2 DEF LifecycleInvariant, CommitPoint
<1>2. QED
  BY <1>1, LifecycleCorrect, PTL DEF FinalOnce, Spec

-----------------------------------------------------------------------------
(* The rows of the output tables, and the answers of the pollers.          *)

(* Two rows of one table with one input and one index.                     *)
Clash(a, b) ==
  TableOf(a.kind) = TableOf(b.kind) /\ a.input = b.input /\ a.index = b.index

Distinct(rows) == \A j, k \in DOMAIN rows : Clash(rows[j], rows[k]) => j = k

Apart(rows, others) ==
  \A a \in Elements(rows), b \in Elements(others) : ~Clash(a, b)

(* An output is emitted with its place in its slice as index.              *)
Numbered ==
  \A t \in Tables : \A k \in DOMAIN state.outs[t] : state.outs[t][k].index = k - 1

(* Without faults the rows that are saved and those to do are distinct,    *)
(* and an input has rows only when its own is final or it is the one that  *)
(* is being finished.                                                      *)
RowsApart ==
  dbErrors = 0 /\ crashes = 0 =>
    /\ Distinct(outputs)
    /\ Distinct(job.todo)
    /\ Apart(outputs, job.todo)
    /\ \A out \in Elements(outputs) :
         \/ inputs[out.input] # "Unprocessed"
         \/ InFlight(out.input) /\ job.at \in {"save", "update"}

(* An inspect that waits has nothing recorded; the current one waits until *)
(* it is finished, and nobody is answered while it is.                     *)
InspectsWait ==
  /\ \A n \in DOMAIN inspects :
       inspects[n].status = "Unprocessed" => inspects[n] = NoAnswer
  /\ job.at = "count" => inspects[state.input].status # "Unprocessed"
  /\ dbErrors = 0 /\ state.mode = "inspect" =>
       /\ job.at = "free" => inspects[state.input].status = "Unprocessed"
       /\ job.at = "count" => answers[state.input] \in {NoAnswer, Gone}

RowsInvariant ==
  LifecycleInvariant /\ Numbered /\ RowsApart /\ InspectsWait /\ AnswerIsWhole

-----------------------------------------------------------------------------
(* Facts about rows.                                                       *)

(* Distinct sequences that are apart are distinct one after the other.     *)
LEMMA DistinctConcat ==
  ASSUME NEW s \in Seq(Output), NEW t \in Seq(Output),
         Distinct(s), Distinct(t), Apart(s, t)
  PROVE  Distinct(s \o t)
<1> DEFINE c == s \o t
           n == Len(s)
           m == Len(t)
<1>1. /\ n \in Nat /\ m \in Nat /\ DOMAIN s = 1..n /\ DOMAIN t = 1..m
      /\ DOMAIN c = 1..(n + m)
      /\ \A k \in 1..(n + m) : c[k] = IF k <= n THEN s[k] ELSE t[k - n]
  BY ConcatProperties, LenProperties
<1> HIDE DEF c, n, m
<1>2. ASSUME NEW k \in DOMAIN c
      PROVE  \/ k \in DOMAIN s /\ c[k] = s[k]
             \/ k > n /\ k - n \in DOMAIN t /\ c[k] = t[k - n]
  BY <1>1, <1>2
<1>3. ASSUME NEW j \in DOMAIN s, NEW k \in DOMAIN t
      PROVE  ~Clash(s[j], t[k]) /\ ~Clash(t[k], s[j])
  <2>1. ~Clash(s[j], t[k])
    BY DEF Apart, Elements
  <2>2. QED
    BY <2>1 DEF Clash
<1>4. ASSUME NEW j \in DOMAIN c, NEW k \in DOMAIN c, Clash(c[j], c[k])
      PROVE  j = k
  <2>1. CASE j \in DOMAIN s /\ c[j] = s[j] /\ k \in DOMAIN s /\ c[k] = s[k]
    BY <1>4, <2>1 DEF Distinct
  <2>2. CASE /\ j > n /\ j - n \in DOMAIN t /\ c[j] = t[j - n]
             /\ k > n /\ k - n \in DOMAIN t /\ c[k] = t[k - n]
    <3>1. j - n = k - n
      BY <1>4, <2>2 DEF Distinct
    <3>2. QED
      BY <1>1, <3>1
  <2>3. CASE \/ j \in DOMAIN s /\ c[j] = s[j] /\ k - n \in DOMAIN t /\ c[k] = t[k - n]
             \/ k \in DOMAIN s /\ c[k] = s[k] /\ j - n \in DOMAIN t /\ c[j] = t[j - n]
    BY <1>3, <1>4, <2>3
  <2>4. QED
    BY <1>2, <2>1, <2>2, <2>3
<1>5. QED
  BY <1>4 DEF Distinct, c

(* The slices of one input are distinct, and apart from each other.        *)
LEMMA SlicesAreDistinct ==
  ASSUME TypeOK, OutputsOfCurrent, Numbered
  PROVE  /\ \A t \in Tables : state.outs[t] \in Seq(Output) /\ Distinct(state.outs[t])
         /\ \A t, u \in Tables : t # u => Apart(state.outs[t], state.outs[u])
<1>1. ASSUME NEW t \in Tables
      PROVE  state.outs[t] \in Seq(Output) /\ Distinct(state.outs[t])
  <2>1. state.outs[t] \in Seq(Output)
    BY DEF TypeOK, States
  <2>2. /\ DOMAIN state.outs[t] = 1..Len(state.outs[t]) /\ Len(state.outs[t]) \in Nat
        /\ \A k \in DOMAIN state.outs[t] : state.outs[t][k].index = k - 1
    BY <2>1, LenProperties DEF Numbered
  <2>3. QED
    BY <2>1, <2>2 DEF Distinct, Clash
<1>2. ASSUME NEW t \in Tables, NEW u \in Tables, t # u
      PROVE  Apart(state.outs[t], state.outs[u])
  BY <1>2 DEF Apart, OutputsOfCurrent, Clash
<1>3. QED
  BY <1>1, <1>2

(* So what a finish saves is distinct.                                     *)
LEMMA ToSaveIsDistinct ==
  ASSUME TypeOK, OutputsOfCurrent, Numbered, NEW status
  PROVE  Distinct(ToSave(status))
<1> DEFINE v == state.outs["voucher"]
           n == state.outs["notice"]
           r == state.outs["report"]
<1>1. /\ v \in Seq(Output) /\ n \in Seq(Output) /\ r \in Seq(Output)
      /\ Distinct(v) /\ Distinct(n) /\ Distinct(r)
      /\ Apart(v, n) /\ Apart(v, r) /\ Apart(n, r)
  BY SlicesAreDistinct DEF Tables
<1> HIDE DEF v, n, r
<1>2. v \o n \in Seq(Output) /\ Distinct(v \o n)
  BY <1>1, DistinctConcat, ConcatProperties
<1>3. Elements(v \o n) = Elements(v) \cup Elements(n)
  BY <1>1, ElementsOfConcat
<1>4. Apart(v \o n, r)
  BY <1>1, <1>3 DEF Apart
<1>5. Distinct((v \o n) \o r)
  BY <1>1, <1>2, <1>4, DistinctConcat
<1>6. ToSave(status) = (v \o n) \o r \/ ToSave(status) = r
  BY DEF ToSave, v, n, r
<1>7. QED
  BY <1>1, <1>5, <1>6

(* Moving the first row of one sequence to the end of another that is      *)
(* apart leaves both distinct, and apart.                                  *)
LEMMA MoveRow ==
  ASSUME NEW s \in Seq(Output), NEW t \in Seq(Output), t # <<>>,
         Distinct(s), Distinct(t), Apart(s, t)
  PROVE  /\ Distinct(Append(s, Head(t))) /\ Distinct(Tail(t))
         /\ Apart(Append(s, Head(t)), Tail(t))
<1> DEFINE e == Head(t)
           r == Tail(t)
           a == Append(s, e)
<1>1. /\ e = t[1] /\ e \in Output /\ r \in Seq(Output) /\ 1 \in DOMAIN t
      /\ Len(t) \in Nat \ {0} /\ DOMAIN t = 1..Len(t)
      /\ DOMAIN r = 1..(Len(t) - 1)
      /\ \A k \in 1..(Len(t) - 1) : r[k] = t[k + 1]
  BY HeadTailProperties, EmptySeq, LenProperties
<1>2. \A k \in DOMAIN r : k \in Nat /\ k + 1 \in DOMAIN t /\ r[k] = t[k + 1] /\ k + 1 # 1
  BY <1>1
<1>3. Elements(t) = {e} \cup Elements(r)
  BY ElementsOfTail
<1>4. Elements(a) = Elements(s) \cup {e}
  BY <1>1, ElementsOfAppend
<1>5. /\ Len(s) \in Nat /\ DOMAIN s = 1..Len(s) /\ DOMAIN a = 1..(Len(s) + 1)
      /\ a[Len(s) + 1] = e /\ \A k \in DOMAIN s : a[k] = s[k]
  BY <1>1
<1> HIDE DEF e, r, a
<1>6. Distinct(r)
  <2>1. SUFFICES ASSUME NEW j \in DOMAIN r, NEW k \in DOMAIN r, Clash(r[j], r[k])
                 PROVE  j = k
    BY DEF Distinct
  <2>2. j + 1 = k + 1
    BY <1>2, <2>1 DEF Distinct
  <2>3. QED
    BY <1>2, <2>2
<1>7. \A b \in Elements(r) : ~Clash(e, b)
  <2>1. SUFFICES ASSUME NEW k \in DOMAIN r PROVE ~Clash(e, r[k])
    BY DEF Elements
  <2>2. QED
    BY <1>1, <1>2 DEF Distinct
<1>8. Apart(a, r)
  BY <1>3, <1>4, <1>7 DEF Apart
<1>9. \A k \in DOMAIN s : ~Clash(s[k], e) /\ ~Clash(e, s[k])
  BY <1>3 DEF Apart, Elements, Clash
<1>10. Distinct(a)
  <2>1. \A k \in DOMAIN a : k = Len(s) + 1 \/ k \in DOMAIN s
    BY <1>5
  <2>2. QED
    BY <1>5, <1>9, <2>1 DEF Distinct
<1>11. QED
  BY <1>6, <1>8, <1>10 DEF e, r, a

-----------------------------------------------------------------------------
(* The slices stay numbered.                                               *)

(* An output is appended to its slice with the length of the slice.        *)
LEMMA EmitNumbered ==
  ASSUME TypeOK, Numbered, NEW kind \in Kinds, Emit(kind)
  PROVE  Numbered'
<1> DEFINE t   == TableOf(kind)
           n   == Len(state.outs[t])
           out == [kind |-> kind, input |-> state.input, index |-> n]
<1>1. t \in Tables
  BY DEF TableOf, Kinds, Tables
<1>2. state.outs[t] \in Seq(Output) /\ n \in Nat
  BY <1>1 DEF TypeOK, States
<1>3. out \in Output /\ out.index = n
  BY <1>2 DEF Output, TypeOK, States
<1>4. state' = [state EXCEPT !.outs[t] = Append(@, out)]
  BY DEF Emit
<1>5. /\ DOMAIN state.outs[t] = 1..n
      /\ DOMAIN Append(state.outs[t], out) = 1..(n + 1)
      /\ Append(state.outs[t], out)[n + 1] = out
      /\ \A k \in 1..n : Append(state.outs[t], out)[k] = state.outs[t][k]
  BY <1>2, <1>3, LenProperties, AppendProperties
<1> HIDE DEF t, n, out
<1>6. \A u \in Tables :
        state'.outs[u] = IF u = t THEN Append(state.outs[t], out)
                                  ELSE state.outs[u]
  BY <1>1, <1>4 DEF TypeOK, States
<1>7. \A k \in 1..(n + 1) : Append(state.outs[t], out)[k].index = k - 1
  BY <1>1, <1>2, <1>3, <1>5 DEF Numbered
<1>8. QED
  BY <1>1, <1>5, <1>6, <1>7, ZenonT(40) DEF Numbered

(* Every other step keeps the slices or drops them.                        *)
LEMMA NextNumbered ==
  ASSUME LifecycleInvariant, Numbered, [Next]_vars
  PROVE  Numbered'
<1>1. CASE UNCHANGED state
  BY <1>1 DEF Numbered
<1>2. CASE state'.outs = NoOutputs
  BY <1>2 DEF Numbered, NoOutputs
<1>3. CASE AddVoucher \/ AddDCVoucher \/ AddNotice \/ AddReport
  <2>1. PICK kind \in Kinds : Emit(kind)
    BY <1>3 DEF AddVoucher, AddDCVoucher, AddNotice, AddReport, Kinds, Tables
  <2>2. QED
    BY <2>1, EmitNumbered DEF LifecycleInvariant
<1>4. CASE WriterStep
  BY <1>1, <1>4, WriterStepKeeps DEF LifecycleInvariant
<1>5. CASE PickNext
  BY <1>2, <1>5, PickNextStates
<1>6. QED
  BY <1>1, <1>2, <1>3, <1>4, <1>5
     DEF Next, WriterStep, vars, AddInspectInput, GetInspectInput, InspectTimeout,
         FinishAndGetNext, RegisterException, SaveOutput, OutputsSaved,
         UpdateInput, CountProcessed, DbError, Crash, Done, Idle

-----------------------------------------------------------------------------
(* The rows stay apart.                                                    *)

(* Steps that write no output row keep the rows apart when what is left to *)
(* do stays or is dropped, and an input that is being finished is final or *)
(* still being finished afterwards.                                        *)
LEMMA RowsKept ==
  ASSUME LifecycleInvariant, RowsApart,
         UNCHANGED <<outputs, dbErrors, crashes>>,
         job'.todo \in {job.todo, <<>>},
         \A n \in DOMAIN inputs :
           inputs[n] # "Unprocessed" => inputs'[n] # "Unprocessed",
         \A n \in DOMAIN inputs : InFlight(n) /\ job.at \in {"save", "update"} =>
           \/ inputs'[n] # "Unprocessed"
           \/ InFlight(n)' /\ job'.at \in {"save", "update"}
  PROVE  RowsApart'
<1> SUFFICES ASSUME dbErrors = 0, crashes = 0
             PROVE  /\ Distinct(outputs)
                    /\ Distinct(job'.todo)
                    /\ Apart(outputs, job'.todo)
                    /\ \A out \in Elements(outputs) :
                         \/ inputs'[out.input] # "Unprocessed"
                         \/ InFlight(out.input)' /\ job'.at \in {"save", "update"}
  BY DEF RowsApart, InFlight
<1>1. Distinct(outputs) /\ Distinct(job.todo) /\ Apart(outputs, job.todo)
  BY DEF RowsApart
<1>2. Distinct(<<>>) /\ Apart(outputs, <<>>)
  BY NothingEmitted DEF Distinct, Apart
<1>3. ASSUME NEW out \in Elements(outputs)
      PROVE  \/ inputs'[out.input] # "Unprocessed"
             \/ InFlight(out.input)' /\ job'.at \in {"save", "update"}
  <2>1. out.input \in DOMAIN inputs
    BY DEF LifecycleInvariant, OutputsOfCurrent
  <2>2. \/ inputs[out.input] # "Unprocessed"
        \/ InFlight(out.input) /\ job.at \in {"save", "update"}
    BY DEF RowsApart
  <2>3. QED
    BY <2>1, <2>2
<1>4. QED
  BY <1>1, <1>2, <1>3

(* A method that begins finds no row of the current input: it has not been *)
(* finished before.                                                        *)
LEMMA BeginRows ==
  ASSUME LifecycleInvariant, LifecycleInvariant', RowsApart, job.at = "free",
         UNCHANGED <<inputs, indices, outputs, state, dbErrors, crashes>>,
         Distinct(job'.todo),
         state.mode = "advance" \/ job'.todo = <<>>
  PROVE  RowsApart'
<1> SUFFICES ASSUME dbErrors = 0, crashes = 0
             PROVE  /\ Apart(outputs, job'.todo)
                    /\ \A out \in Elements(outputs) :
                         inputs[out.input] # "Unprocessed"
  BY DEF RowsApart
<1>1. \A out \in Elements(outputs) : inputs[out.input] # "Unprocessed"
  BY DEF RowsApart
<1>2. CASE state.mode = "advance"
  <2>1. inputs[state.input] = "Unprocessed"
    BY <1>2 DEF LifecycleInvariant, CommitPoint, Committed
  <2>2. \A out \in Elements(job'.todo) : out.input = state.input
    BY DEF LifecycleInvariant, OutputsOfCurrent
  <2>3. QED
    BY <1>1, <2>1, <2>2 DEF Apart, Clash
<1>3. CASE job'.todo = <<>>
  BY <1>1, <1>3, NothingEmitted DEF Apart
<1>4. QED
  BY <1>2, <1>3

(* A finish and an exception take over what was emitted.                   *)
LEMMA FinishRows ==
  ASSUME LifecycleInvariant, LifecycleInvariant', RowsApart, Numbered,
         \/ \E status \in {"Accepted", "Rejected"} : FinishAndGetNext(status)
         \/ RegisterException
  PROVE  RowsApart'
<1>1. /\ job.at = "free"
      /\ UNCHANGED <<inputs, indices, outputs, state, dbErrors, crashes>>
  BY DEF FinishAndGetNext, RegisterException, writers, columns, database, faults
<1>2. TypeOK /\ OutputsOfCurrent
  BY DEF LifecycleInvariant
<1>3. Distinct(<<>>)
  BY DEF Distinct
<1>4. ASSUME NEW status, FinishAndGetNext(status)
      PROVE  Distinct(job'.todo) /\ (state.mode = "advance" \/ job'.todo = <<>>)
  <2>1. Distinct(ToSave(status))
    BY <1>2, ToSaveIsDistinct
  <2>2. \/ state.mode = "advance" /\ job'.todo = ToSave(status)
        \/ job'.todo = <<>>
    BY <1>4 DEF FinishAndGetNext, Begin
  <2>3. QED
    BY <1>3, <2>1, <2>2
<1>5. ASSUME RegisterException
      PROVE  Distinct(job'.todo) /\ (state.mode = "advance" \/ job'.todo = <<>>)
  <2>1. Distinct(state.outs["report"])
    BY <1>2, SlicesAreDistinct DEF Tables
  <2>2. \/ state.mode = "advance" /\ job'.todo = state.outs["report"]
        \/ job'.todo = <<>>
    BY <1>5 DEF RegisterException, Begin
  <2>3. QED
    BY <1>3, <2>1, <2>2
<1>6. QED
  BY <1>1, <1>4, <1>5, BeginRows

(* Saving moves a row of the current input from what is to do to the table.*)
LEMMA SaveOutputRows ==
  ASSUME LifecycleInvariant, RowsApart, SaveOutput
  PROVE  RowsApart'
<1> SUFFICES ASSUME dbErrors = 0, crashes = 0
             PROVE  RowsApart'
  BY DEF SaveOutput, writers, columns, faults, RowsApart
<1> DEFINE out == Head(job.todo)
<1>1. /\ UNCHANGED <<inputs, indices, state>>
      /\ job.at = "save" /\ job.todo # <<>>
      /\ outputs' = Append(outputs, out)
      /\ job' = [job EXCEPT !.todo = Tail(job.todo)]
  BY DEF SaveOutput, writers, columns
<1>2. /\ outputs \in Seq(Output) /\ job.todo \in Seq(Output)
      /\ job'.at = "save" /\ job'.todo = Tail(job.todo)
  BY <1>1 DEF LifecycleInvariant, TypeOK, Jobs
<1>3. Distinct(outputs) /\ Distinct(job.todo) /\ Apart(outputs, job.todo)
  BY DEF RowsApart
<1>4. Distinct(outputs') /\ Distinct(job'.todo) /\ Apart(outputs', job'.todo)
  BY <1>1, <1>2, <1>3, MoveRow
<1>5. out \in Elements(job.todo) /\ out \in Output
  BY <1>1, <1>2, ElementsOfTail, HeadTailProperties
<1>6. Elements(outputs') = Elements(outputs) \cup {out}
  BY <1>1, <1>2, <1>5, ElementsOfAppend
<1>7. InFlight(out.input)
  BY <1>1, <1>5
     DEF LifecycleInvariant, JobFitsState, OutputsOfCurrent, InFlight
<1> HIDE DEF out
<1>8. \A row \in Elements(outputs') :
        inputs'[row.input] # "Unprocessed" \/ InFlight(row.input)'
  BY <1>1, <1>6, <1>7 DEF RowsApart, InFlight
<1>9. QED
  BY <1>2, <1>4, <1>8 DEF RowsApart

(* The other statements of a method, and what comes from outside it.       *)
LEMMA NextRowsApart ==
  ASSUME LifecycleInvariant, LifecycleInvariant', Numbered, RowsApart,
         [Next]_vars
  PROVE  RowsApart'
<1> USE DEF writers, columns, database, faults
<1>1. job.todo \in {job.todo, <<>>} /\ <<>> \in {job.todo, <<>>} /\ Free.todo = <<>>
  BY DEF Free
<1>2. CASE \/ WriterStep \/ AddInspectInput
           \/ \E n \in DOMAIN inspects : GetInspectInput(n) \/ InspectTimeout(n)
           \/ AddVoucher \/ AddDCVoucher \/ AddNotice \/ AddReport
           \/ UNCHANGED vars
  <2>1. UNCHANGED <<outputs, job, dbErrors, crashes>>
    BY <1>2, WriterStepKeeps
       DEF LifecycleInvariant, AddInspectInput, GetInspectInput, InspectTimeout,
           AddVoucher, AddDCVoucher, AddNotice, AddReport, Emit, vars
  <2>2. state'.mode = state.mode /\ state'.input = state.input
    <3>1. CASE AddVoucher \/ AddDCVoucher \/ AddNotice \/ AddReport
      <4>1. PICK kind \in Kinds : Emit(kind)
        BY <3>1 DEF AddVoucher, AddDCVoucher, AddNotice, AddReport, Kinds, Tables
      <4>2. QED
        BY <4>1, EmitType DEF LifecycleInvariant
    <3>2. CASE UNCHANGED state
      BY <3>2
    <3>3. QED
      BY <1>2, <3>1, <3>2, WriterStepKeeps
         DEF LifecycleInvariant, AddInspectInput, GetInspectInput,
             InspectTimeout, vars
  <2>3. \A n \in DOMAIN inputs : inputs'[n] = inputs[n]
    <3>1. CASE RowCreated
      BY <3>1, RowCreatedType DEF LifecycleInvariant
    <3>2. CASE UNCHANGED inputs
      BY <3>2
    <3>3. CASE WriterStep
      BY <3>1, <3>2, <3>3, WriterStepType DEF LifecycleInvariant, allButCalls
    <3>4. QED
      BY <1>2, <3>2, <3>3
         DEF AddInspectInput, GetInspectInput, InspectTimeout, AddVoucher,
             AddDCVoucher, AddNotice, AddReport, Emit, vars
  <2>4. QED
    BY <1>1, <2>1, <2>2, <2>3, RowsKept DEF InFlight
<1>3. CASE \/ \E status \in {"Accepted", "Rejected"} : FinishAndGetNext(status)
           \/ RegisterException
  BY <1>3, FinishRows
<1>4. CASE SaveOutput
  BY <1>4, SaveOutputRows
<1>5. CASE OutputsSaved
  <2>1. job.at = "save" /\ UNCHANGED <<inputs, indices, outputs, dbErrors, crashes>>
    BY <1>5 DEF OutputsSaved
  <2>2. CASE job.call = "finish" /\ job' = [job EXCEPT !.at = "update"] /\ UNCHANGED state
    <3>1. job'.at = "update" /\ job'.todo = job.todo
      BY <2>2 DEF LifecycleInvariant, TypeOK, Jobs
    <3>2. QED
      BY <1>1, <2>1, <2>2, <3>1, RowsKept DEF InFlight
  <2>3. CASE job.call = "exception" /\ Done
    <3>1. job' = Free
      BY <2>3 DEF Done
    <3>2. \A n \in DOMAIN inputs : InFlight(n) => inputs'[n] # "Unprocessed"
      BY <2>1, <2>3 DEF LifecycleInvariant, CommitPoint, Committed, InFlight
    <3>3. QED
      BY <1>1, <2>1, <3>1, <3>2, RowsKept
  <2>4. QED
    BY <1>5, <2>2, <2>3 DEF OutputsSaved
<1>6. CASE UpdateInput
  <2>1. /\ job.at = "update" /\ UNCHANGED <<outputs, state, dbErrors, crashes>>
        /\ job' = [job EXCEPT !.at = IF job.call = "finish" THEN "next" ELSE "save"]
    BY <1>6 DEF UpdateInput
  <2>2. job'.todo = job.todo /\ job.status # "Unprocessed"
    BY <2>1 DEF LifecycleInvariant, TypeOK, Jobs, Final
  <2>3. PICK rows \in {{state.input}, Namesakes(state.input)} :
          /\ state.input \in rows
          /\ \A n \in DOMAIN inputs :
               inputs'[n] = IF n \in rows THEN job.status ELSE inputs[n]
    BY <1>6, UpdateInputType DEF LifecycleInvariant
  <2>4. \A n \in DOMAIN inputs :
          inputs[n] # "Unprocessed" \/ InFlight(n) => inputs'[n] # "Unprocessed"
    BY <2>2, <2>3 DEF InFlight
  <2>5. QED
    BY <1>1, <2>1, <2>2, <2>4, RowsKept
<1>7. CASE CountProcessed \/ PickNext
  <2>1. /\ job.at \in {"count", "next"}
        /\ UNCHANGED <<inputs, indices, outputs, dbErrors, crashes>>
    BY <1>7 DEF CountProcessed, PickNext
  <2>2. job'.todo = job.todo \/ job' = Free
    BY <1>7 DEF CountProcessed, PickNext, Done, LifecycleInvariant, TypeOK, Jobs
  <2>3. QED
    BY <1>1, <2>1, <2>2, RowsKept
<1>8. CASE DbError \/ Crash
  <2>1. dbErrors' # 0 \/ crashes' # 0
    BY <1>8 DEF DbError, Crash, LifecycleInvariant, TypeOK
  <2>2. QED
    BY <2>1 DEF RowsApart
<1>9. QED
  BY <1>2, <1>3, <1>4, <1>5, <1>6, <1>7, <1>8 DEF Next, WriterStep

-----------------------------------------------------------------------------
(* The answers of the pollers.                                             *)

(* The inspects and their pollers together.                                *)
AnswersStand == InspectsWait /\ AnswerIsWhole

(* Steps that leave the inspects and the answers alone, and free no        *)
(* inspect but one that waits.                                             *)
LEMMA AnswersKept ==
  ASSUME AnswersStand, UNCHANGED <<inspects, answers>>,
         dbErrors' = 0 => dbErrors = 0,
         job'.at = "count" => job.at = "count" /\ UNCHANGED state,
         dbErrors' = 0 /\ state'.mode = "inspect" /\ job'.at = "free" =>
           inspects[state'.input].status = "Unprocessed"
  PROVE  AnswersStand'
<1>1. InspectsWait'
  BY DEF AnswersStand, InspectsWait
<1>2. AnswerIsWhole'
  BY DEF AnswersStand, AnswerIsWhole
<1>3. QED
  BY <1>1, <1>2 DEF AnswersStand

(* A queued inspect waits, and so does its poller.                         *)
LEMMA AddInspectAnswers ==
  ASSUME TypeOK, AnswersStand, AddInspectInput
  PROVE  AnswersStand'
<1> DEFINE n == Len(inspects)
<1>1. /\ inspects \in Seq(Inspections) /\ answers \in Seq(Inspections)
      /\ NoAnswer \in Inspections /\ n \in Nat /\ Len(answers) = n
      /\ job.at = "free"
      /\ UNCHANGED <<state, job, dbErrors>>
      /\ inspects' = Append(inspects, NoAnswer)
      /\ answers' = Append(answers, NoAnswer)
  BY FreshData, LenProperties DEF TypeOK, AddInspectInput, faults
<1>2. /\ DOMAIN inspects = 1..n /\ DOMAIN answers = 1..n
      /\ DOMAIN inspects' = 1..(n + 1) /\ DOMAIN answers' = 1..(n + 1)
      /\ inspects'[n + 1] = NoAnswer /\ answers'[n + 1] = NoAnswer
      /\ \A k \in 1..n : inspects'[k] = inspects[k] /\ answers'[k] = answers[k]
  BY <1>1, LenProperties, AppendProperties
<1>3. state.mode = "inspect" => state.input \in 1..n
  BY <1>2 DEF TypeOK
<1> HIDE DEF n
<1>4. \A k \in 1..(n + 1) : k = n + 1 \/ k \in 1..n
  BY <1>1
<1>5. InspectsWait'
  <2>1. ASSUME NEW k \in DOMAIN inspects', inspects'[k].status = "Unprocessed"
        PROVE  inspects'[k] = NoAnswer
    BY <1>2, <1>4, <2>1 DEF AnswersStand, InspectsWait
  <2>2. job.at # "count"
    BY <1>1
  <2>3. ASSUME dbErrors = 0, state.mode = "inspect"
        PROVE  inspects'[state.input].status = "Unprocessed"
    BY <1>1, <1>2, <1>3, <2>3 DEF AnswersStand, InspectsWait
  <2>4. QED
    BY <1>1, <2>1, <2>2, <2>3 DEF InspectsWait
<1>6. AnswerIsWhole'
  BY <1>1, <1>2, <1>4 DEF AnswersStand, AnswerIsWhole
<1>7. QED
  BY <1>5, <1>6 DEF AnswersStand

(* The poller is given the whole record, or leaves.                        *)
LEMMA PollAnswers ==
  ASSUME TypeOK, AnswersStand, NEW n \in DOMAIN inspects,
         GetInspectInput(n) \/ InspectTimeout(n)
  PROVE  AnswersStand'
<1>1. /\ UNCHANGED <<inspects, state, job, dbErrors>>
      /\ \/ answers' = [answers EXCEPT ![n] = inspects[n]]
         \/ answers' = [answers EXCEPT ![n] = Gone]
  BY DEF GetInspectInput, InspectTimeout, faults
<1>2. /\ DOMAIN answers' = DOMAIN answers
      /\ \A k \in DOMAIN answers :
           answers'[k] = answers[k] \/ answers'[k] = inspects[k] \/ answers'[k] = Gone
  BY <1>1 DEF TypeOK
<1>3. ASSUME job.at = "count", dbErrors = 0, state.mode = "inspect"
      PROVE  answers'[state.input] \in {NoAnswer, Gone}
  <2>1. answers' = [answers EXCEPT ![n] = Gone]
    BY <1>1, <1>3 DEF GetInspectInput, InspectTimeout
  <2>2. state.input \in DOMAIN answers
    BY <1>3 DEF TypeOK
  <2>3. answers[state.input] \in {NoAnswer, Gone}
    BY <1>3 DEF AnswersStand, InspectsWait
  <2>4. QED
    BY <2>1, <2>2, <2>3
<1>4. InspectsWait'
  BY <1>1, <1>3 DEF AnswersStand, InspectsWait
<1>5. AnswerIsWhole'
  BY <1>1, <1>2 DEF AnswersStand, AnswerIsWhole
<1>6. QED
  BY <1>4, <1>5 DEF AnswersStand

(* A method marks the current inspect: it waited, so nobody has its answer.*)
LEMMA MarkAnswers ==
  ASSUME TypeOK, AnswersStand, state.mode = "inspect", job.at = "free",
         NEW status \in Final, MarkInspect(status), job'.at = "count",
         UNCHANGED <<state, answers, dbErrors>>
  PROVE  AnswersStand'
<1> DEFINE n == state.input
<1>1. /\ n \in DOMAIN inspects /\ inspects[n] \in Inspections
      /\ DOMAIN answers = DOMAIN inspects
  BY DEF TypeOK
<1>2. [inspects[n] EXCEPT !.status = status].status = status
  BY <1>1 DEF Inspections
<1>3. /\ DOMAIN inspects' = DOMAIN inspects
      /\ inspects'[n].status = status
      /\ \A k \in DOMAIN inspects : k # n => inspects'[k] = inspects[k]
  BY <1>1, <1>2 DEF MarkInspect
<1>4. status # "Unprocessed"
  BY DEF Final
<1>5. dbErrors = 0 => answers[n] \in {NoAnswer, Gone}
  BY <1>1 DEF AnswersStand, InspectsWait, AnswerIsWhole
<1> HIDE DEF n
<1>6. \A k \in DOMAIN inspects' :
        inspects'[k].status = "Unprocessed" => inspects'[k] = NoAnswer
  BY <1>3, <1>4 DEF AnswersStand, InspectsWait
<1>7. InspectsWait'
  BY <1>3, <1>4, <1>5, <1>6 DEF InspectsWait, n
<1>8. AnswerIsWhole'
  BY <1>1, <1>3, <1>5 DEF AnswersStand, AnswerIsWhole
<1>9. QED
  BY <1>7, <1>8 DEF AnswersStand

(* The count completes the record before the mutex is given back.          *)
LEMMA RecordAnswers ==
  ASSUME TypeOK, JobFitsState, AnswersStand, job.at = "count",
         NEW count \in {"counted", "failed"}, RecordInspect(count), Done,
         UNCHANGED answers, dbErrors' = 0 => dbErrors = 0
  PROVE  AnswersStand'
<1> DEFINE n == state.input
           r == [inspects[n] EXCEPT !.processed = count, !.reports = TRUE]
<1>1. /\ state.mode = "inspect"
      /\ n \in DOMAIN inspects /\ inspects[n] \in Inspections
      /\ DOMAIN answers = DOMAIN inspects
  BY DEF TypeOK, JobFitsState
<1>2. r.status = inspects[n].status
  BY <1>1 DEF Inspections
<1>3. inspects' = [inspects EXCEPT ![n] = r]
  BY <1>1 DEF RecordInspect, TypeOK
<1> HIDE DEF r
<1>4. /\ DOMAIN inspects' = DOMAIN inspects
      /\ inspects'[n].status = inspects[n].status
      /\ \A k \in DOMAIN inspects : k # n => inspects'[k] = inspects[k]
  BY <1>1, <1>2, <1>3
<1>5. inspects[n].status # "Unprocessed"
  BY DEF AnswersStand, InspectsWait
<1>6. dbErrors = 0 => answers[n] \in {NoAnswer, Gone}
  BY <1>1 DEF AnswersStand, InspectsWait
<1>7. job'.at # "count" /\ (job'.at = "free" => state'.mode # "inspect")
  BY DEF Done, Free, Idle, TypeOK, Jobs
<1> HIDE DEF n
<1>8. \A k \in DOMAIN inspects' :
        inspects'[k].status = "Unprocessed" => inspects'[k] = NoAnswer
  BY <1>4, <1>5 DEF AnswersStand, InspectsWait
<1>9. InspectsWait'
  BY <1>7, <1>8 DEF InspectsWait
<1>10. AnswerIsWhole'
  BY <1>1, <1>4, <1>6 DEF AnswersStand, AnswerIsWhole
<1>11. QED
  BY <1>9, <1>10 DEF AnswersStand

(* Every step: only the methods on an inspect, the pollers and a restart   *)
(* touch the inspects or the answers.                                      *)
LEMMA NextAnswers ==
  ASSUME TypeOK, JobFitsState, AnswersStand, [Next]_vars
  PROVE  AnswersStand'
<1> USE DEF writers, columns, database, faults
<1>1. CASE AddInspectInput
  BY <1>1, AddInspectAnswers
<1>2. CASE \E n \in DOMAIN inspects : GetInspectInput(n) \/ InspectTimeout(n)
  BY <1>2, PollAnswers
<1>3. CASE WriterStep \/ UNCHANGED vars
  <2>1. UNCHANGED <<inspects, answers, state, job, dbErrors>>
    BY <1>3, WriterStepKeeps DEF vars
  <2>2. QED
    BY <2>1, AnswersKept DEF AnswersStand, InspectsWait
<1>4. CASE AddVoucher \/ AddDCVoucher \/ AddNotice \/ AddReport
  <2>1. PICK kind \in Kinds : Emit(kind)
    BY <1>4 DEF AddVoucher, AddDCVoucher, AddNotice, AddReport, Kinds, Tables
  <2>2. /\ UNCHANGED <<inspects, answers, job, dbErrors>> /\ job.at = "free"
        /\ state'.mode = state.mode /\ state'.input = state.input
    BY <2>1, EmitType DEF Emit
  <2>3. QED
    BY <2>2, AnswersKept DEF AnswersStand, InspectsWait
<1>5. ASSUME NEW status \in {"Accepted", "Rejected"}, FinishAndGetNext(status)
      PROVE  AnswersStand'
  <2>1. job.at = "free" /\ UNCHANGED <<state, answers, dbErrors>>
    BY <1>5 DEF FinishAndGetNext
  <2>2. CASE state.mode = "inspect"
    <3>1. MarkInspect(status) /\ job'.at = "count" /\ status \in Final
      BY <1>5, <2>2 DEF FinishAndGetNext, Begin, Final
    <3>2. QED
      BY <2>1, <2>2, <3>1, MarkAnswers
  <2>3. CASE state.mode # "inspect"
    <3>1. UNCHANGED inspects /\ job'.at \in {"save", "next"}
      BY <1>5, <2>3 DEF FinishAndGetNext, Begin
    <3>2. QED
      BY <2>1, <3>1, AnswersKept
  <2>4. QED
    BY <2>2, <2>3
<1>6. CASE RegisterException
  <2>1. job.at = "free" /\ UNCHANGED <<state, answers, dbErrors>>
    BY <1>6 DEF RegisterException
  <2>2. CASE state.mode = "inspect"
    <3>1. MarkInspect("Exception") /\ job'.at = "count" /\ "Exception" \in Final
      BY <1>6, <2>2 DEF RegisterException, Begin, Final
    <3>2. QED
      BY <2>1, <2>2, <3>1, MarkAnswers
  <2>3. CASE state.mode # "inspect"
    <3>1. UNCHANGED inspects /\ job'.at = "update"
      BY <1>6, <2>3 DEF RegisterException, Begin
    <3>2. QED
      BY <2>1, <3>1, AnswersKept
  <2>4. QED
    BY <2>2, <2>3
<1>7. CASE SaveOutput \/ UpdateInput
  <2>1. /\ UNCHANGED <<inspects, answers, state, dbErrors>>
        /\ job'.at \in {"save", "next"}
    BY <1>7 DEF SaveOutput, UpdateInput, TypeOK, Jobs
  <2>2. QED
    BY <2>1, AnswersKept
<1>8. CASE OutputsSaved
  <2>1. UNCHANGED <<inspects, answers, dbErrors>>
    BY <1>8 DEF OutputsSaved
  <2>2. job'.at = "update" \/ (state' = Idle /\ job' = Free)
    BY <1>8 DEF OutputsSaved, Done, TypeOK, Jobs
  <2>3. job'.at # "count" /\ ~(state'.mode = "inspect" /\ job'.at = "free")
    BY <2>2 DEF Idle, Free
  <2>4. QED
    BY <2>1, <2>3, AnswersKept
<1>9. CASE CountProcessed
  BY <1>9, RecordAnswers DEF CountProcessed
<1>10. CASE PickNext
  <2>1. UNCHANGED <<inspects, answers, dbErrors>> /\ job' = Free
    BY <1>10 DEF PickNext
  <2>2. ASSUME state'.mode = "inspect"
        PROVE  inspects[state'.input].status = "Unprocessed"
    <3>1. PICK n \in UnprocessedInspects : state' = Inspect(n)
      <4>1. \A n : Advance(n).mode # "inspect"
        BY DEF Advance
      <4>2. QED
        BY <1>10, <2>2, <4>1, PickNextStates, Zenon
    <3>2. QED
      BY <3>1 DEF Inspect, UnprocessedInspects
  <2>3. QED
    BY <2>1, <2>2, AnswersKept DEF Free
<1>11. CASE DbError
  <2>1. dbErrors' # 0 /\ UNCHANGED answers
    BY <1>11 DEF DbError, TypeOK
  <2>2. CASE job' = Free /\ UNCHANGED <<state, inspects>>
    BY <2>1, <2>2, AnswersKept DEF Free
  <2>3. CASE job.at = "count" /\ RecordInspect("failed") /\ Done
    BY <2>1, <2>3, RecordAnswers
  <2>4. QED
    BY <1>11, <2>2, <2>3 DEF DbError
<1>12. CASE Crash
  BY <1>12 DEF Crash, AnswersStand, InspectsWait, AnswerIsWhole, Free, Idle
<1>13. QED
  BY <1>1, <1>2, <1>3, <1>4, <1>5, <1>6, <1>7, <1>8, <1>9, <1>10, <1>11, <1>12
     DEF Next, WriterStep

-----------------------------------------------------------------------------
(* The results.                                                            *)

(* Nothing is stored, nobody asks.                                         *)
LEMMA InitRows == Init => RowsInvariant
<1> SUFFICES ASSUME Init
             PROVE  RowsInvariant
  OBVIOUS
<1>1. LifecycleInvariant
  BY InitLifecycle
<1>2. Numbered
  BY DEF Init, Idle, NoOutputs, Numbered
<1>3. RowsApart
  BY NothingEmitted DEF Init, Free, RowsApart, Distinct, Apart
<1>4. InspectsWait /\ AnswerIsWhole
  BY DEF Init, Free, Idle, InspectsWait, AnswerIsWhole
<1>5. QED
  BY <1>1, <1>2, <1>3, <1>4 DEF RowsInvariant

(* The rows and the answers are preserved side by side.                    *)
LEMMA NextRows == RowsInvariant /\ [Next]_vars => RowsInvariant'
<1> SUFFICES ASSUME RowsInvariant, [Next]_vars
             PROVE  RowsInvariant'
  OBVIOUS
<1>1. LifecycleInvariant /\ Numbered /\ RowsApart /\ AnswersStand
  BY DEF RowsInvariant, AnswersStand
<1>2. LifecycleInvariant'
  BY <1>1, NextLifecycle
<1>3. Numbered'
  BY <1>1, NextNumbered
<1>4. RowsApart'
  BY <1>1, <1>2, NextRowsApart
<1>5. AnswersStand'
  BY <1>1, NextAnswers DEF LifecycleInvariant
<1>6. QED
  BY <1>2, <1>3, <1>4, <1>5 DEF RowsInvariant, AnswersStand

(* The invariant of the rows and the answers.                              *)
LEMMA RowsInvariantHolds == Spec => []RowsInvariant
<1>1. QED
  BY InitRows, NextRows, PTL DEF Spec

(* Without faults no two rows of one output table carry the same index and *)
(* the same input Index, if that is the input's own, whatever readers and  *)
(* writers come between the statements of a finish.                        *)
THEOREM RowsAreDistinct == Spec => []OutputsAreDistinct
<1>1. RowsInvariant => OutputsAreDistinct
  <2> SUFFICES ASSUME RowsInvariant, dbErrors = 0, crashes = 0,
                      NEW j \in DOMAIN outputs, NEW k \in DOMAIN outputs,
                      Alone(outputs[j].input),
                      TableOf(outputs[j].kind) = TableOf(outputs[k].kind),
                      indices[outputs[j].input] = indices[outputs[k].input],
                      outputs[j].index = outputs[k].index
               PROVE  j = k
    BY DEF OutputsAreDistinct
  <2>1. outputs[k].input \in DOMAIN indices
    <3>1. outputs[k].input \in DOMAIN inputs
      BY DEF RowsInvariant, LifecycleInvariant, OutputsOfCurrent, Elements
    <3>2. DOMAIN indices = DOMAIN inputs
      BY DEF RowsInvariant, LifecycleInvariant, TypeOK
    <3>3. QED
      BY <3>1, <3>2
  <2>2. Clash(outputs[j], outputs[k])
    BY <2>1 DEF Alone, Clash
  <2>3. QED
    BY <2>2 DEF RowsInvariant, RowsApart, Distinct
<1>2. QED
  BY RowsInvariantHolds, <1>1, PTL

(* Until a statement fails a poller is given nothing or the final record   *)
(* of its inspect, crashes included.                                       *)
THEOREM AnswersAreWhole == Spec => []AnswerIsWhole
<1>1. RowsInvariant => AnswerIsWhole
  BY DEF RowsInvariant
<1>2. QED
  BY RowsInvariantHolds, <1>1, PTL

-----------------------------------------------------------------------------
(* The Index and the order in which the writers count.                     *)

(* But for Avail, the Index is the number of rows the writer found, and    *)
(* nobody finds more rows than there are.                                  *)
IndexIsCount ==
  sequencer # "avail" =>
    /\ \A k \in DOMAIN indices : indices[k] = seen[k] /\ seen[k] < k
    /\ \A w \in DOMAIN calls :
         calls[w].index = calls[w].seen /\ calls[w].index <= Len(inputs)

(* A row takes what its writer has counted, which is below its place.      *)
LEMMA CreateRowIndex ==
  ASSUME TypeOK, IndexIsCount, sequencer # "avail", NEW count \in Nat,
         count <= Len(inputs), CreateRow(count, count)
  PROVE  /\ \A k \in DOMAIN indices' : indices'[k] = seen'[k] /\ seen'[k] < k
         /\ Len(inputs') = Len(inputs) + 1
<1>0. /\ indices' = Append(indices, count) /\ seen' = Append(seen, count)
      /\ inputs' = Append(inputs, "Unprocessed")
  BY DEF CreateRow
<1>1. /\ Len(inputs) \in Nat /\ Len(indices) = Len(inputs)
      /\ Len(seen) = Len(inputs) /\ Len(inputs') = Len(inputs) + 1
      /\ indices' = Append(indices, count) /\ seen' = Append(seen, count)
      /\ DOMAIN indices = 1..Len(inputs) /\ DOMAIN indices' = 1..(Len(inputs) + 1)
  BY <1>0 DEF TypeOK
<1>2. ASSUME NEW k \in 1..Len(inputs)
      PROVE  indices'[k] = indices[k] /\ seen'[k] = seen[k]
  BY <1>1 DEF TypeOK
<1>3. /\ indices'[Len(inputs) + 1] = count
      /\ seen'[Len(inputs) + 1] = count
  BY <1>1 DEF TypeOK
<1>4. ASSUME NEW k \in DOMAIN indices'
      PROVE  indices'[k] = seen'[k] /\ seen'[k] < k
  <2>1. CASE k \in 1..Len(inputs)
    BY <1>1, <1>2, <2>1 DEF IndexIsCount
  <2>2. CASE k = Len(inputs) + 1
    BY <1>1, <1>3, <2>2
  <2>3. QED
    BY <1>1, <2>1, <2>2
<1>5. QED
  BY <1>1, <1>4

(* Every step keeps it: only the writers and a restart touch the columns   *)
(* and the counts, and rows are never removed.                             *)
LEMMA NextIndexIsCount ==
  ASSUME LifecycleInvariant, LifecycleInvariant', IndexIsCount, [Next]_vars
  PROVE  IndexIsCount'
<1>1. TypeOK /\ TypeOK' /\ Len(inputs) \in Nat /\ Len(inputs') \in Nat
  BY DEF LifecycleInvariant, TypeOK
<1>2. CASE UNCHANGED writers /\ Len(inputs') = Len(inputs)
  BY <1>2 DEF writers, IndexIsCount
<1>3. CASE WriterStep
  <2>1. SUFFICES ASSUME sequencer # "avail"
                 PROVE  IndexIsCount'
    BY <1>1, <1>3, WriterStepType DEF IndexIsCount
  <2>2. /\ \A w \in DOMAIN calls : /\ calls[w].index \in Nat
                                  /\ calls[w].index = calls[w].seen
                                  /\ calls[w].index <= Len(inputs)
        /\ DOMAIN calls' = DOMAIN calls /\ Known = Len(inputs)
    BY <1>1, <2>1, <1>3, WriterStepType DEF IndexIsCount, TypeOK, Calls, Known
  <2>3. ASSUME NEW w \in DOMAIN calls, EndCall(w)
        PROVE  \A v \in DOMAIN calls' : /\ calls'[v].index = calls'[v].seen
                                        /\ calls'[v].index <= Len(inputs)
    BY <1>1, <2>2, <2>3 DEF EndCall, NoCall
  <2>4. CASE AddAdvanceInput
    <3>1. CreateRow(Len(inputs), Len(inputs)) /\ UNCHANGED <<sequencer, calls>>
      BY <2>2, <2>4 DEF AddAdvanceInput
    <3>2. QED
      BY <1>1, <2>1, <2>2, <3>1, CreateRowIndex DEF IndexIsCount
  <2>5. ASSUME NEW w \in Unlocked, CountInputs(w)
        PROVE  IndexIsCount'
    <3>1. \A v \in DOMAIN calls' : /\ calls'[v].index = calls'[v].seen
                                   /\ calls'[v].index <= Len(inputs)
      BY <1>1, <2>2, <2>5 DEF CountInputs
    <3>2. QED
      BY <2>5, <3>1 DEF CountInputs, allButCalls, columns, database, IndexIsCount
  <2>6. ASSUME NEW w \in Unlocked, CreateInput(w)
        PROVE  IndexIsCount'
    <3>1. w \in DOMAIN calls
      BY <1>1 DEF Unlocked, TypeOK
    <3>2. /\ CreateRow(calls[w].index, calls[w].index)
          /\ EndCall(w) /\ UNCHANGED sequencer
      BY <2>1, <2>2, <2>6, <3>1 DEF CreateInput
    <3>3. /\ \A k \in DOMAIN indices' : indices'[k] = seen'[k] /\ seen'[k] < k
          /\ Len(inputs') = Len(inputs) + 1
      BY <1>1, <2>1, <2>2, <3>1, <3>2, CreateRowIndex
    <3>4. \A v \in DOMAIN calls' : /\ calls'[v].index = calls'[v].seen
                                   /\ calls'[v].index <= Len(inputs)
      BY <2>3, <3>1, <3>2
    <3>5. \A v \in DOMAIN calls' : calls'[v].index \in Nat
      BY <1>1 DEF TypeOK, Calls
    <3>6. QED
      BY <1>1, <3>3, <3>4, <3>5 DEF IndexIsCount
  <2>7. ASSUME NEW w \in Unlocked, LeaveCall(w)
        PROVE  IndexIsCount'
    <3>1. w \in DOMAIN calls
      BY <1>1 DEF Unlocked, TypeOK
    <3>2. QED
      BY <2>3, <2>7, <3>1
         DEF LeaveCall, allButCalls, columns, database, IndexIsCount
  <2>8. QED
    BY <1>3, <2>1, <2>4, <2>5, <2>6, <2>7 DEF WriterStep, SkipInput
<1>4. CASE UpdateInput
  BY <1>2, <1>4, UpdateInputType DEF UpdateInput, LifecycleInvariant
<1>5. CASE Crash
  <2>1. /\ calls' = [w \in DOMAIN calls |-> NoCall]
        /\ UNCHANGED <<sequencer, inputs, indices, seen>>
    BY <1>5 DEF Crash, columns, database
  <2>2. QED
    BY <1>1, <2>1 DEF IndexIsCount, NoCall
<1>6. QED
  BY <1>2, <1>3, <1>4, <1>5
     DEF Next, WriterStep, vars, writers, columns, database, AddInspectInput,
         GetInspectInput, InspectTimeout, AddVoucher, AddDCVoucher, AddNotice,
         AddReport, Emit, FinishAndGetNext, RegisterException, SaveOutput,
         OutputsSaved, CountProcessed, PickNext, DbError

(* Whichever writers come in between, with or without the mutex, an input  *)
(* has a larger Index than the rows its writer had counted: for any number *)
(* of handlers, under every fault, but not with Avail.                     *)
THEOREM IndicesKeepRealTime == Spec => []RealTimeOrder
<1>1. Init => IndexIsCount
  BY DEF Init, IndexIsCount, NoCall
<1>2. LifecycleInvariant /\ LifecycleInvariant' /\ IndexIsCount /\ [Next]_vars
        => IndexIsCount'
  BY NextIndexIsCount
<1>3. LifecycleInvariant /\ IndexIsCount => RealTimeOrder
  <2> SUFFICES ASSUME LifecycleInvariant, IndexIsCount, sequencer # "avail",
                      NEW j \in DOMAIN indices, NEW k \in DOMAIN indices,
                      j <= seen[k]
               PROVE  indices[j] < indices[k]
    BY DEF RealTimeOrder
  <2>1. /\ indices[j] = seen[j] /\ seen[j] < j /\ indices[k] = seen[k]
        /\ j \in Nat /\ seen[j] \in Nat /\ seen[k] \in Nat
    BY DEF IndexIsCount, LifecycleInvariant, TypeOK
  <2>2. QED
    BY <2>1
<1>4. QED
  BY <1>1, <1>2, <1>3, LifecycleCorrect, PTL DEF Spec

-----------------------------------------------------------------------------
(* The refinement mapping.                                                 *)

(* Up to the commit point the input of the state is the current one.       *)
LEMMA CurrentNotCommitted ==
  ASSUME LifecycleInvariant, dbErrors = 0, state.mode = "advance"
  PROVE  /\ ~Committed => Current = state.input
         /\ Committed => Current = 0
  BY DEF LifecycleInvariant, CommitPoint, Current

(* Without an advance there is no current input.                           *)
LEMMA NotCurrent ==
  ASSUME state.mode # "advance"
  PROVE  Current = 0 /\ EmittedByCurrent = {}
  BY DEF Current, EmittedByCurrent

(* Without a current input nothing is emitted for one.                     *)
LEMMA NoneCurrent ==
  ASSUME Current = 0
  PROVE  EmittedByCurrent = {}
  BY DEF EmittedByCurrent

(* What neither writes a row nor moves the state is a stutter.             *)
LEMMA StepsThatWriteNothing ==
  ASSUME UNCHANGED <<inputs, indices, outputs, state>>
  PROVE  UNCHANGED Abstract!vars
  BY DEF Abstract!vars, Current, EmittedByCurrent, Published

-----------------------------------------------------------------------------
(* Each action maps to an abstract action or to a stutter.                 *)

(* A new input arrives.                                                    *)
LEMMA RowCreatedRefines ==
  ASSUME LifecycleInvariant, RowCreated
  PROVE  Abstract!Arrive
<1>1. /\ inputs' = Append(inputs, "Unprocessed")
      /\ UNCHANGED <<outputs, state>>
  BY Zenon DEF RowCreated, CreateRow
<1>2. /\ \A n \in DOMAIN inputs : inputs'[n] = inputs[n]
      /\ indices' \in Seq(Nat) /\ Len(indices') = Len(indices) + 1
      /\ \A n \in DOMAIN indices : indices'[n] = indices[n]
  <2>1. Len(indices) = Len(inputs) /\ DOMAIN indices = DOMAIN inputs
    BY DEF LifecycleInvariant, TypeOK
  <2>2. QED
    BY <2>1, RowCreatedType DEF LifecycleInvariant
<1>3. Current' = Current
  BY <1>1, <1>2 DEF LifecycleInvariant, TypeOK, Current
<1>4. EmittedByCurrent' = EmittedByCurrent
  BY <1>1, <1>3 DEF EmittedByCurrent
<1>5. Published' = Published
  BY <1>1, <1>2 DEF LifecycleInvariant, OutputsOfCurrent, Published
<1>6. QED
  BY <1>1, <1>2, <1>3, <1>4, <1>5 DEF Abstract!Arrive

(* An output of an advance is emitted; any other is a stutter.             *)
LEMMA EmitRefines ==
  ASSUME LifecycleInvariant, LifecycleInvariant', dbErrors = 0,
         NEW kind \in Kinds, Emit(kind)
  PROVE  Abstract!EmitOutput \/ UNCHANGED Abstract!vars
<1> DEFINE t   == TableOf(kind)
           out == [kind |-> kind, input |-> state.input,
                   index |-> Len(state.outs[t])]
<1>1. /\ state'.mode = state.mode
      /\ state'.input = state.input
  BY EmitType DEF LifecycleInvariant
<1>2. UNCHANGED <<inputs, indices, outputs>> /\ ~Committed
  BY DEF Emit, writers, columns, database, Committed
<1>3. Current' = Current /\ Published' = Published
  BY <1>1, <1>2 DEF Current, Published
<1>4. CASE Current = 0
  <2>1. EmittedByCurrent' = EmittedByCurrent
    BY <1>3, <1>4 DEF EmittedByCurrent
  <2>2. QED
    BY <1>2, <1>3, <2>1 DEF Abstract!vars
<1>5. CASE Current # 0
  <2>1. Current = state.input
    BY <1>5 DEF Current
  <2>2. ASSUME NEW u \in Tables
        PROVE  Elements(state.outs[u]) \subseteq Elements(state'.outs[u])
    <3>1. t \in Tables /\ out \in Output
      BY SMTT(20) DEF TableOf, Kinds, Tables, LifecycleInvariant, TypeOK, States, Output
    <3>2. state' = [state EXCEPT !.outs[t] = Append(@, out)]
      BY DEF Emit
    <3> HIDE DEF t, out
    <3>3. state'.outs[u] = IF u = t THEN Append(state.outs[t], out)
                                    ELSE state.outs[u]
      BY <3>1, <3>2 DEF LifecycleInvariant, TypeOK, States
    <3>4. state.outs[t] \in Seq(Output)
      BY <3>1 DEF LifecycleInvariant, TypeOK, States
    <3>5. Elements(Append(state.outs[t], out))
            = Elements(state.outs[t]) \cup {out}
      BY <3>1, <3>4, ElementsOfAppend
    <3>6. QED
      BY <3>3, <3>5
  <2>3. EmittedByCurrent \subseteq EmittedByCurrent'
    BY <1>3, <1>5, <2>2 DEF EmittedByCurrent, Tables
  <2>4. \A o \in EmittedByCurrent' : o.input = Current
    BY <1>1, <1>3, <1>5, <2>1
       DEF EmittedByCurrent, Tables, LifecycleInvariant, OutputsOfCurrent
  <2>5. QED
    BY <1>2, <1>3, <1>5, <2>3, <2>4 DEF Abstract!EmitOutput
<1>6. QED
  BY <1>4, <1>5

(* A saved row is not published before its input is accepted, and what an  *)
(* exception saves after that are reports.                                 *)
LEMMA SaveOutputRefines ==
  ASSUME LifecycleInvariant, dbErrors = 0, SaveOutput
  PROVE  UNCHANGED Abstract!vars
<1> DEFINE out == Head(job.todo)
<1>1. /\ UNCHANGED <<inputs, indices, state>>
      /\ job.at = "save" /\ job.todo # <<>>
      /\ outputs' = Append(outputs, out)
  BY DEF SaveOutput, writers, columns
<1>2. job.todo \in Seq(Output) /\ outputs \in Seq(Output)
  BY DEF LifecycleInvariant, TypeOK, Jobs
<1>3. out \in Elements(job.todo) /\ out \in Output
  BY <1>1, <1>2, HeadTailProperties, ElementsOfTail
<1>4. /\ out.input = state.input
      /\ job.status = "Accepted" \/ out.kind = "report"
  BY <1>3 DEF LifecycleInvariant, OutputsOfCurrent
<1>5. out.kind = "report" \/ inputs[out.input] # "Accepted"
  <2>1. CASE job.call = "finish"
    <3>1. ~Committed /\ state.mode = "advance"
      BY <1>1, <2>1 DEF Committed, LifecycleInvariant, JobFitsState
    <3>2. QED
      BY <1>4, <3>1 DEF LifecycleInvariant, CommitPoint
  <2>2. CASE job.call = "exception"
    BY <1>1, <1>4, <2>2 DEF LifecycleInvariant, JobFitsState
  <2>3. QED
    BY <2>1, <2>2 DEF LifecycleInvariant, TypeOK, Jobs
<1> HIDE DEF out
<1>6. Elements(outputs') = Elements(outputs) \cup {out}
  BY <1>1, <1>2, <1>3, ElementsOfAppend
<1>7. Published' = Published
  BY <1>1, <1>5, <1>6 DEF Published
<1>8. QED
  BY <1>1, <1>7 DEF Abstract!vars, Current, EmittedByCurrent

(* An exception that returns finds the row of its input final.             *)
LEMMA ReturnRefines ==
  ASSUME LifecycleInvariant, dbErrors = 0,
         state.mode # "advance" \/ Committed,
         UNCHANGED <<inputs, indices, outputs>>, state' = Idle
  PROVE  UNCHANGED Abstract!vars
<1>1. Current = 0
  BY CurrentNotCommitted, NotCurrent
<1>2. Current' = 0 /\ EmittedByCurrent' = {}
  BY DEF Idle, Current, EmittedByCurrent
<1>3. Published' = Published
  BY DEF Published
<1>4. QED
  BY <1>1, <1>2, <1>3, NoneCurrent DEF Abstract!vars

(* The step from the outputs to the row is a stutter.                      *)
LEMMA OutputsSavedRefines ==
  ASSUME LifecycleInvariant, dbErrors = 0, OutputsSaved
  PROVE  UNCHANGED Abstract!vars
<1>1. UNCHANGED <<inputs, indices, outputs>> /\ job.at = "save"
  BY DEF OutputsSaved, writers, columns, database
<1>2. CASE job.call = "finish"
  BY <1>1, <1>2, StepsThatWriteNothing DEF OutputsSaved
<1>3. CASE job.call = "exception"
  <2>1. Committed /\ state' = Idle
    BY <1>1, <1>3 DEF Committed, OutputsSaved, Done
  <2>2. QED
    BY <1>1, <2>1, ReturnRefines
<1>4. QED
  BY <1>2, <1>3 DEF OutputsSaved

(* Inspects are none of the abstract business.                             *)
LEMMA CountProcessedRefines ==
  ASSUME LifecycleInvariant, dbErrors = 0, CountProcessed
  PROVE  UNCHANGED Abstract!vars
<1>1. UNCHANGED <<inputs, indices, outputs>> /\ state.mode # "advance"
  BY DEF CountProcessed, writers, columns, database, LifecycleInvariant, JobFitsState
<1>2. CASE UNCHANGED state
  BY <1>1, <1>2, StepsThatWriteNothing
<1>3. CASE state' = Idle
  BY <1>1, <1>3, ReturnRefines
<1>4. QED
  BY <1>2, <1>3 DEF CountProcessed, Done

(* The write of the row settles the input and, when it is accepted,        *)
(* publishes what was emitted for it.                                      *)
LEMMA UpdateInputRefines ==
  ASSUME LifecycleInvariant, dbErrors = 0, UpdateInput
  PROVE  \E final \in {"Accepted", "Rejected", "Exception"} :
           Abstract!Settle(final)
<1> DEFINE n == state.input
<1>1. /\ job.at = "update" /\ state.mode = "advance" /\ ~Committed
      /\ UNCHANGED <<indices, outputs, state>>
  BY DEF UpdateInput, writers, Committed, LifecycleInvariant, JobFitsState
<1>2. /\ n \in DOMAIN inputs /\ n # 0 /\ inputs[n] = "Unprocessed"
      /\ inputs \in Seq(Status) /\ DOMAIN indices = DOMAIN inputs
      /\ job.status \in {"Accepted", "Rejected", "Exception"}
  BY <1>1 DEF LifecycleInvariant, TypeOK, Jobs, Final, CommitPoint
<1>3. Current = n
  BY <1>1, CurrentNotCommitted
<1>4. PICK rows \in {{n}, Namesakes(n)} :
        inputs' = [m \in DOMAIN inputs |->
                     IF m \in rows THEN job.status ELSE inputs[m]]
  BY DEF UpdateInput
<1>5. n \in rows /\ inputs'[n] = job.status
  BY <1>2, <1>4 DEF Namesakes
<1>6. rows \in {{Current}, Abstract!Peers}
  BY <1>2, <1>3, <1>4 DEF Namesakes, Abstract!Peers
<1>7. Current' = 0 /\ EmittedByCurrent' = {}
  BY <1>1, <1>2, <1>5 DEF Current, EmittedByCurrent
<1>8. \A out \in Elements(outputs) :
        /\ out.input \in DOMAIN inputs
        /\ inputs'[out.input] =
             IF out.input \in rows THEN job.status ELSE inputs[out.input]
  BY <1>4 DEF LifecycleInvariant, OutputsOfCurrent
<1> HIDE DEF n
<1>9. CASE job.status # "Accepted"
  <2>1. Published' = {out \in Published : out.input \notin rows}
    BY <1>1, <1>8, <1>9 DEF Published
  <2>2. Abstract!Settle(job.status)
    BY <1>1, <1>2, <1>3, <1>4, <1>6, <1>7, <1>9, <2>1 DEF Abstract!Settle
  <2>3. QED
    BY <1>2, <2>2
<1>10. CASE job.status = "Accepted"
  <2>1. job.todo = <<>>
    BY <1>1, <1>10 DEF LifecycleInvariant, JobFitsState, TypeOK, Jobs
  <2>2. Elements(job.todo) = {}
    BY <2>1, NothingEmitted
  <2>3. \A t \in Tables : Elements(state.outs[t]) \subseteq Elements(outputs)
    BY <1>1, <1>10, <2>2 DEF LifecycleInvariant, SavedOrToDo
  <2>4. \A t \in {"voucher", "notice"} : \A out \in Elements(state.outs[t]) :
          out.input = n /\ out.kind # "report"
    BY DEF n, LifecycleInvariant, OutputsOfCurrent, Tables, TableOf
  <2>5. EmittedByCurrent \subseteq Published'
    BY <1>1, <1>5, <1>10, <2>3, <2>4
       DEF EmittedByCurrent, Published, Tables
  <2>6. Published \subseteq Published'
    BY <1>1, <1>8, <1>10 DEF Published
  <2>7. \A out \in Published' \ Published : out.input \in rows
    BY <1>1, <1>8 DEF Published
  <2>8. Abstract!Settle("Accepted")
    BY <1>1, <1>2, <1>3, <1>4, <1>6, <1>7, <1>10, <2>5, <2>6, <2>7
       DEF Abstract!Settle
  <2>9. QED
    BY <2>8
<1>11. QED
  BY <1>9, <1>10

(* The pick finds no current input and takes one of the lowest Index that  *)
(* waits, or none.                                                         *)
LEMMA PickNextRefines ==
  ASSUME LifecycleInvariant, dbErrors = 0, PickNext
  PROVE  Abstract!Take \/ UNCHANGED Abstract!vars
<1>1. UNCHANGED <<inputs, indices, outputs>> /\ Committed
  BY DEF PickNext, writers, columns, database, Committed
<1>2. Current = 0 /\ EmittedByCurrent = {}
  BY <1>1, CurrentNotCommitted, NotCurrent, NoneCurrent
<1>3. Published' = Published
  BY <1>1 DEF Published
<1>4. EmittedByCurrent' = {}
  <2>1. state'.outs = NoOutputs
    BY PickNextStates
  <2>2. QED
    BY <2>1, NothingEmitted DEF EmittedByCurrent, Tables
<1>5. CASE state'.mode # "advance"
  <2>1. Current' = 0
    BY <1>5 DEF Current
  <2>2. QED
    BY <1>1, <1>2, <1>3, <1>4, <2>1 DEF Abstract!vars
<1>6. ASSUME NEW n \in Unprocessed(inputs),
             HasLowestIndex(n, Unprocessed(inputs)), state' = Advance(n)
      PROVE  Abstract!Take
  <2>1. Current' = n
    BY <1>1, <1>6 DEF Current, Advance, Unprocessed
  <2>2. /\ n \in Abstract!Waiting
        /\ \A m \in Abstract!Waiting : indices[n] <= indices[m]
    BY <1>6 DEF Abstract!Waiting, Unprocessed, HasLowestIndex
  <2>3. QED
    BY <1>1, <1>2, <1>3, <1>4, <2>1, <2>2 DEF Abstract!Take
<1>7. QED
  <2>1. \A n : Inspect(n).mode # "advance"
    BY DEF Inspect
  <2>2. Idle.mode # "advance"
    BY DEF Idle
  <2>3. QED
    BY <1>5, <1>6, <2>1, <2>2, PickNextCases, Zenon

(* A crash abandons the current input.                                     *)
LEMMA CrashRefines ==
  ASSUME Crash
  PROVE  Abstract!Abandon
<1>1. UNCHANGED <<inputs, indices, outputs>> /\ state' = Idle
  BY DEF Crash, writers, columns, database
<1>2. Current' = 0 /\ EmittedByCurrent' = {}
  BY <1>1 DEF Idle, Current, EmittedByCurrent
<1>3. Published' = Published
  BY <1>1 DEF Published
<1>4. QED
  BY <1>1, <1>2, <1>3 DEF Abstract!Abandon

-----------------------------------------------------------------------------
(* A fresh program has no inputs.                                          *)
LEMMA InitRefines == Init => Abstract!Init
<1> SUFFICES ASSUME Init
             PROVE  Abstract!Init
  OBVIOUS
<1>1. Current = 0 /\ EmittedByCurrent = {}
  BY DEF Init, Idle, Current, EmittedByCurrent
<1>2. Published = {}
  BY NothingEmitted DEF Init, Published
<1>3. QED
  BY <1>1, <1>2 DEF Init, Abstract!Init

(* A step after which no statement has failed.                             *)
LEMMA NextRefines ==
  ASSUME LifecycleInvariant, LifecycleInvariant', dbErrors' = 0, [Next]_vars
  PROVE  [Abstract!Next]_(Abstract!vars)
<1>0. dbErrors = 0 /\ ~DbError
  <2>1. dbErrors \in Nat
    BY DEF LifecycleInvariant, TypeOK
  <2>2. UNCHANGED dbErrors \/ dbErrors' = dbErrors + 1
    <3>1. CASE WriterStep
      BY <3>1, WriterStepKeeps DEF LifecycleInvariant
    <3>2. QED
      BY <3>1
         DEF Next, WriterStep, vars, faults, AddInspectInput, GetInspectInput,
             InspectTimeout, AddVoucher, AddDCVoucher, AddNotice, AddReport,
             Emit, FinishAndGetNext, RegisterException, SaveOutput,
             OutputsSaved, UpdateInput, CountProcessed, PickNext, DbError, Crash
  <2>3. dbErrors = 0
    BY <2>1, <2>2
  <2>4. QED
    BY <2>3 DEF DbError
<1>1. CASE WriterStep
  <2>1. CASE RowCreated
    BY <2>1, RowCreatedRefines DEF Abstract!Next
  <2>2. CASE UNCHANGED allButCalls
    BY <2>2, StepsThatWriteNothing DEF allButCalls, columns, database
  <2>3. QED
    BY <1>1, <2>1, <2>2, WriterStepType DEF LifecycleInvariant
<1>2. CASE UNCHANGED <<inputs, indices, outputs, state>>
  BY <1>2, StepsThatWriteNothing
<1>3. CASE AddVoucher \/ AddDCVoucher \/ AddNotice \/ AddReport
  <2>1. PICK kind \in Kinds : Emit(kind)
    BY <1>3 DEF AddVoucher, AddDCVoucher, AddNotice, AddReport, Kinds, Tables
  <2>2. QED
    BY <2>1, <1>0, EmitRefines DEF Abstract!Next
<1>4. CASE SaveOutput
  BY <1>4, <1>0, SaveOutputRefines
<1>5. CASE OutputsSaved
  BY <1>5, <1>0, OutputsSavedRefines
<1>6. CASE UpdateInput
  BY <1>6, <1>0, UpdateInputRefines DEF Abstract!Next
<1>7. CASE CountProcessed
  BY <1>7, <1>0, CountProcessedRefines
<1>8. CASE PickNext
  BY <1>8, <1>0, PickNextRefines DEF Abstract!Next
<1>9. CASE Crash
  BY <1>9, CrashRefines DEF Abstract!Next
<1>10. QED
  BY <1>0, <1>1, <1>2, <1>3, <1>4, <1>5, <1>6, <1>7, <1>8, <1>9
     DEF Next, WriterStep, vars, writers, columns, database, AddInspectInput,
         GetInspectInput, InspectTimeout, FinishAndGetNext, RegisterException

(* Every behaviour of the rollups model, with its row-by-row writes, its   *)
(* crashes and the writers that pass by its mutex, is a behaviour of       *)
(* InputLifecycle.                                                         *)
THEOREM LifecycleImplemented == Spec => ImplementsLifecycle
<1>1. LifecycleInvariant /\ LifecycleInvariant' /\ [Next]_vars
        => [Abstract!Next \/ (dbErrors > 0)']_(Abstract!vars)
  <2> SUFFICES ASSUME LifecycleInvariant, LifecycleInvariant', [Next]_vars
               PROVE  [Abstract!Next \/ (dbErrors > 0)']_(Abstract!vars)
    OBVIOUS
  <2>1. dbErrors' \in Nat
    BY DEF LifecycleInvariant, TypeOK
  <2>2. CASE dbErrors' = 0
    BY <2>2, NextRefines
  <2>3. CASE dbErrors' # 0
    BY <2>1, <2>3
  <2>4. QED
    BY <2>2, <2>3
<1>2. QED
  BY InitRefines, LifecycleCorrect, <1>1, PTL
     DEF Spec, ImplementsLifecycle, Abstract!Spec
=============================================================================
