------------------------------ MODULE Rollups ------------------------------
(***************************************************************************)
(* The shared memory of nonodo: NonodoModel, the rollupsState it holds and *)
(* the database rows its handlers write.                                   *)
(*                                                                         *)
(* Every NonodoModel method runs under one mutex, but a method that        *)
(* finishes an input writes several database rows, one statement at a time *)
(* and without a transaction.  Between two of those statements a reader or *)
(* a listener may touch the database, a statement may fail, and the        *)
(* process may die.  `job` is the method that holds the mutex and the      *)
(* statement it has reached; a method with a single database effect is one *)
(* action.  The repositories themselves are external (rollups-graphql):    *)
(* they are modelled from the calls the code makes.                        *)
(*                                                                         *)
(* Row k of the input table is the k-th one created; its Index column is   *)
(* indices[k].  The inputter counts the rows and creates the next one      *)
(* under the mutex.  The other writers - the handlers of the Paio API and  *)
(* the Espresso and Avail listeners - count, and create with that count    *)
(* later, without it: their Index may be taken or passed by then.          *)
(***************************************************************************)
EXTENDS Integers, Sequences, FiniteSets

CONSTANTS
  Handlers,      (* the handlers of the Paio API that may run at once      *)
  MaxWork,       (* bound: inputs created plus inspects queued, at a time  *)
  MaxOutputs,    (* bound: output rows at which emission stops             *)
  MaxDbErrors,   (* bound: database statements that fail                   *)
  MaxCrashes     (* bound: times the process dies and is started again     *)

ASSUME BoundsAssumption ==
  {MaxWork, MaxOutputs, MaxDbErrors, MaxCrashes} \subseteq Nat

VARIABLES
  sequencer,  (* the sequencer that the options select                     *)
  inputs,     (* input table: the status of each row, in creation order    *)
  indices,    (* input table: the Index of each row                        *)
  seen,       (* history: the rows there were when its writer counted      *)
  calls,      (* the writers that pass by the mutex, and what they counted *)
  outputs,    (* voucher, notice and report tables, in write order         *)
  inspects,   (* NonodoModel.inspects                                      *)
  state,      (* NonodoModel.state                                         *)
  job,        (* who holds NonodoModel.mutex, and where it stands          *)
  answers,    (* what the poller of each inspect has got                   *)
  delivered,  (* history: the advance inputs handed to the application,    *)
              (* each with the number of rows there were then              *)
  dbErrors,   (* history: statements that have failed                      *)
  crashes     (* history: restarts                                         *)

columns  == <<indices, seen>>
writers  == <<sequencer, indices, seen, calls>>
database == <<inputs, outputs>>
faults   == <<dbErrors, crashes>>
allButCalls == <<sequencer, columns, database, inspects, state, job, answers,
                 delivered, faults>>
vars     == <<sequencer, inputs, indices, seen, calls, outputs, inspects,
              state, job, answers, delivered, dbErrors, crashes>>

Final  == {"Accepted", "Rejected", "Exception"}
Status == Final \cup {"Unprocessed"}
Modes  == {"idle", "advance", "inspect"}
Tables == {"voucher", "notice", "report"}
Kinds  == Tables \cup {"delegate_call_voucher"}
Output == [kind: Kinds, input: Nat, index: Nat]
Labels == {"free", "save", "update", "count", "next"}
States == [mode: Modes, input: Nat, outs: [Tables -> Seq(Output)]]
Jobs   == [at: Labels, call: {"finish", "exception"}, status: Final,
           todo: Seq(Output)]
Calls  == [at: {"idle", "counted"}, index: Nat, seen: Nat]
Deliveries == [input: Nat, known: Nat]
(* Of an inspect's outcome, whether it has been written, and whether the   *)
(* processed inputs could be counted.                                      *)
Inspections == [status: Status \cup {"gone"},
                processed: {"unset", "counted", "failed"}, reports: BOOLEAN]

(* Both sorts of voucher are kept in one slice and share its numbering.    *)
TableOf(kind) == IF kind = "delegate_call_voucher" THEN "voucher" ELSE kind

NoOutputs == [t \in Tables |-> <<>>]
Idle      == [mode |-> "idle", input |-> 0, outs |-> NoOutputs]
Advance(n) == [mode |-> "advance", input |-> n, outs |-> NoOutputs]
Inspect(n) == [mode |-> "inspect", input |-> n, outs |-> NoOutputs]

Free == [at |-> "free", call |-> "finish", status |-> "Accepted", todo |-> <<>>]
NoAnswer == [status |-> "Unprocessed", processed |-> "unset", reports |-> FALSE]
Gone     == [status |-> "gone", processed |-> "unset", reports |-> FALSE]

Unprocessed(table) == {n \in DOMAIN table : table[n] = "Unprocessed"}
UnprocessedInspects ==
  {n \in DOMAIN inspects : inspects[n].status = "Unprocessed"}
IsFirst(n, S) == n \in S /\ \A m \in S : n <= m
HasLowestIndex(n, S) == n \in S /\ \A m \in S : indices[n] <= indices[m]

(* The rows with the Index of row n; without another one, n is alone.      *)
Namesakes(n) == {m \in DOMAIN indices : indices[m] = indices[n]}
Alone(n) == \A m \in DOMAIN indices : indices[m] = indices[n] => m = n

Listener == "listener"
NoCall == [at |-> "idle", index |-> 0, seen |-> 0]

(* Who writes inputs without the mutex.  The Paio API forwards to Espresso *)
(* and, unless --paio-server-url is empty, to the Paio server of Avail;    *)
(* what it forwards changes nothing here.                                  *)
Unlocked ==
  (IF sequencer = "espresso" THEN {} ELSE Handlers)
    \cup (IF sequencer = "inputbox" THEN {} ELSE {Listener})

Init ==
  /\ sequencer \in {"inputbox", "espresso", "avail"}
  /\ inputs = <<>>
  /\ indices = <<>>
  /\ seen = <<>>
  /\ calls = [w \in Handlers \cup {Listener} |-> NoCall]
  /\ outputs = <<>>
  /\ inspects = <<>>
  /\ state = Idle
  /\ job = Free
  /\ answers = <<>>
  /\ delivered = <<>>
  /\ dbErrors = 0
  /\ crashes = 0

-----------------------------------------------------------------------------
(* Inputs arriving.                                                        *)

(* The history is not kept for Avail: RealTimeOrder says nothing of it.    *)
Known == IF sequencer = "avail" THEN 0 ELSE Len(inputs)

Room == Len(inputs) + Len(inspects) < MaxWork

CreateRow(index, known) ==
  /\ Room
  /\ inputs' = Append(inputs, "Unprocessed")
  /\ indices' = Append(indices, index)
  /\ seen' = Append(seen, known)
  /\ UNCHANGED <<outputs, inspects, state, job, answers, delivered, faults>>

(* The inputter's handler: under the mutex.  A failed Count or Create      *)
(* leaves nothing behind, so only the success is a step.  The Espresso     *)
(* listener calls it between two blocks; Avail reads the L1 another way.   *)
AddAdvanceInput ==
  /\ job.at = "free"
  /\ sequencer # "avail"
  /\ calls[Listener] = NoCall
  /\ CreateRow(Len(inputs), Known)
  /\ UNCHANGED <<sequencer, calls>>

CountInputs_Filtered(w) ==
  /\ Room
  /\ calls[w] = NoCall
  /\ calls' = [calls EXCEPT ![w] =
       [at |-> "counted", index |-> Cardinality(Unprocessed(inputs)),
        seen |-> Known]]
  /\ UNCHANGED allButCalls

CountInputs(w) ==
  /\ Room
  /\ calls[w] = NoCall
  /\ calls' = [calls EXCEPT ![w] =
       [at |-> "counted", index |-> Len(inputs), seen |-> Known]]
  /\ UNCHANGED allButCalls

(* The Avail listener goes on with the next entry of its block.            *)
NextEntry(w) == calls' = [calls EXCEPT ![w].index = @ + 1]
EndCall(w)   == calls' = [calls EXCEPT ![w] = NoCall]

CreateInput(w) ==
  /\ calls[w] # NoCall
  /\ CreateRow(calls[w].index, calls[w].seen)
  /\ IF sequencer = "avail" /\ w = Listener THEN NextEntry(w) ELSE EndCall(w)
  /\ UNCHANGED sequencer

(* An entry of another application, or one whose row exists, is passed     *)
(* over, and counts in the Index of those behind it.                       *)
SkipInput ==
  /\ sequencer = "avail"
  /\ calls[Listener] # NoCall
  /\ Room
  /\ calls[Listener].index + 1 < MaxWork
  /\ NextEntry(Listener)
  /\ UNCHANGED allButCalls

(* The block is over, the transaction is ignored, the row exists, or a     *)
(* statement of the writer fails.                                          *)
LeaveCall(w) ==
  /\ calls[w] # NoCall
  /\ EndCall(w)
  /\ UNCHANGED allButCalls

-----------------------------------------------------------------------------
(* The inspect handler: queue, then poll until the status is final.        *)

AddInspectInput ==
  /\ job.at = "free"
  /\ Room
  /\ inspects' = Append(inspects, NoAnswer)
  /\ answers' = Append(answers, NoAnswer)
  /\ UNCHANGED <<writers, database, state, job, delivered, faults>>

GetInspectInput_NoLock(n) ==
  /\ answers[n] = NoAnswer
  /\ inspects[n].status # "Unprocessed"
  /\ answers' = [answers EXCEPT ![n] = inspects[n]]
  /\ UNCHANGED <<writers, database, inspects, state, job, delivered, faults>>

GetInspectInput(n) ==
  /\ job.at = "free"
  /\ answers[n] = NoAnswer
  /\ inspects[n].status # "Unprocessed"
  /\ answers' = [answers EXCEPT ![n] = inspects[n]]
  /\ UNCHANGED <<writers, database, inspects, state, job, delivered, faults>>

(* The request context ends first; the queued inspect stays where it is.   *)
InspectTimeout(n) ==
  /\ answers[n] = NoAnswer
  /\ answers' = [answers EXCEPT ![n] = Gone]
  /\ UNCHANGED <<writers, database, inspects, state, job, delivered, faults>>

-----------------------------------------------------------------------------
(* Outputs emitted by the application: kept in memory until the finish.    *)

Emitted(st) ==
  Len(st.outs["voucher"]) + Len(st.outs["notice"]) + Len(st.outs["report"])

Emit_IndexPerKind(kind) ==
  /\ job.at = "free"
  /\ Len(outputs) + Emitted(state) < MaxOutputs
  /\ LET t   == TableOf(kind)
         out == [kind |-> kind, input |-> state.input,
                 index |-> Cardinality({k \in DOMAIN state.outs[t] :
                                          state.outs[t][k].kind = kind})]
     IN  state' = [state EXCEPT !.outs[t] = Append(@, out)]
  /\ UNCHANGED <<writers, database, inspects, job, answers, delivered, faults>>

Emit(kind) ==
  /\ job.at = "free"
  /\ Len(outputs) + Emitted(state) < MaxOutputs
  /\ LET t   == TableOf(kind)
         out == [kind |-> kind, input |-> state.input,
                 index |-> Len(state.outs[t])]
     IN  state' = [state EXCEPT !.outs[t] = Append(@, out)]
  /\ UNCHANGED <<writers, database, inspects, job, answers, delivered, faults>>

AddVoucher   == state.mode = "advance" /\ Emit("voucher")
AddDCVoucher == state.mode = "advance" /\ Emit("delegate_call_voucher")
AddNotice    == state.mode = "advance" /\ Emit("notice")
AddReport    == state.mode \in {"advance", "inspect"} /\ Emit("report")

-----------------------------------------------------------------------------
(* Finishing the current input.                                            *)

(* What finish(status) writes before the input row, in this order.         *)
ToSave_Always(status) ==
  state.outs["voucher"] \o state.outs["notice"] \o state.outs["report"]

ToSave(status) ==
  IF status = "Accepted"
  THEN state.outs["voucher"] \o state.outs["notice"] \o state.outs["report"]
  ELSE state.outs["report"]

Begin(call, status, at, todo) ==
  job' = [at |-> at, call |-> call, status |-> status, todo |-> todo]

(* A finish goes on to pick the next input; an exception leaves the state  *)
(* idle and gives the mutex back.                                          *)
Done_KeepsState ==
  \/ /\ job.call = "finish"
     /\ job' = [job EXCEPT !.at = "next"]
     /\ UNCHANGED state
  \/ /\ job.call = "exception"
     /\ job' = Free
     /\ UNCHANGED state

Done ==
  \/ /\ job.call = "finish"
     /\ job' = [job EXCEPT !.at = "next"]
     /\ UNCHANGED state
  \/ /\ job.call = "exception"
     /\ state' = Idle
     /\ job' = Free

MarkInspect(status) ==
  inspects' = [inspects EXCEPT ![state.input].status = status]

FinishAndGetNext_RowFirst(status) ==
  /\ job.at = "free"
  /\ \/ /\ state.mode = "idle"
        /\ Begin("finish", status, "next", <<>>)
        /\ UNCHANGED inspects
     \/ /\ state.mode = "advance"
        /\ Begin("finish", status, "update", ToSave(status))
        /\ UNCHANGED inspects
     \/ /\ state.mode = "inspect"
        /\ MarkInspect(status)
        /\ Begin("finish", status, "count", <<>>)
  /\ UNCHANGED <<writers, database, state, answers, delivered, faults>>

FinishAndGetNext(status) ==
  /\ job.at = "free"
  /\ \/ /\ state.mode = "idle"
        /\ Begin("finish", status, "next", <<>>)
        /\ UNCHANGED inspects
     \/ /\ state.mode = "advance"
        /\ Begin("finish", status, "save", ToSave(status))
        /\ UNCHANGED inspects
     \/ /\ state.mode = "inspect"
        /\ MarkInspect(status)
        /\ Begin("finish", status, "count", <<>>)
  /\ UNCHANGED <<writers, database, state, answers, delivered, faults>>

RegisterException ==
  /\ job.at = "free"
  /\ \/ /\ state.mode = "advance"
        /\ Begin("exception", "Exception", "update", state.outs["report"])
        /\ UNCHANGED inspects
     \/ /\ state.mode = "inspect"
        /\ MarkInspect("Exception")
        /\ Begin("exception", "Exception", "count", <<>>)
  /\ UNCHANGED <<writers, database, state, answers, delivered, faults>>

(* One iteration of a saveAll loop.                                        *)
SaveOutput ==
  /\ job.at = "save"
  /\ job.todo # <<>>
  /\ outputs' = Append(outputs, Head(job.todo))
  /\ job' = [job EXCEPT !.todo = Tail(@)]
  /\ UNCHANGED <<writers, inputs, inspects, state, answers, delivered, faults>>

(* The loops are over: a finish writes the input row next, an exception    *)
(* has written it already.                                                 *)
OutputsSaved ==
  /\ job.at = "save"
  /\ job.todo = <<>>
  /\ \/ /\ job.call = "finish"
        /\ job' = [job EXCEPT !.at = "update"]
        /\ UNCHANGED state
     \/ /\ job.call = "exception"
        /\ Done
  /\ UNCHANGED <<writers, database, inspects, answers, delivered, faults>>

(* Whether the repository finds the row by its ID or by its Index is not   *)
(* seen here: the update touches the current row, or all with its Index.   *)
UpdateInput ==
  /\ job.at = "update"
  /\ \E rows \in {{state.input}, Namesakes(state.input)} :
       inputs' = [n \in DOMAIN inputs |->
                    IF n \in rows THEN job.status ELSE inputs[n]]
  /\ job' = [job EXCEPT !.at = IF job.call = "finish" THEN "next" ELSE "save"]
  /\ UNCHANGED <<writers, outputs, inspects, state, answers, delivered, faults>>

RecordInspect(count) ==
  inspects' = [inspects EXCEPT
    ![state.input].processed = count,
    ![state.input].reports = TRUE]

CountProcessed ==
  /\ job.at = "count"
  /\ RecordInspect("counted")
  /\ Done
  /\ UNCHANGED <<writers, database, answers, delivered, faults>>

(* Inspects come first, then an unprocessed input with the lowest Index.   *)
PickNext ==
  /\ job.at = "next"
  /\ \/ \E n \in UnprocessedInspects :
          /\ IsFirst(n, UnprocessedInspects)
          /\ state' = Inspect(n)
          /\ UNCHANGED delivered
     \/ /\ UnprocessedInspects = {}
        /\ \E n \in Unprocessed(inputs) :
             /\ HasLowestIndex(n, Unprocessed(inputs))
             /\ state' = Advance(n)
             /\ delivered' = Append(delivered, [input |-> n, known |-> Len(inputs)])
     \/ /\ UnprocessedInspects = {}
        /\ Unprocessed(inputs) = {}
        /\ state' = Idle
        /\ UNCHANGED delivered
  /\ job' = Free
  /\ UNCHANGED <<writers, database, inspects, answers, faults>>

-----------------------------------------------------------------------------
(* Failures.                                                               *)

(* The statement about to run fails.  The method returns the error and     *)
(* keeps the state it found, with the rows it has written so far; only an  *)
(* exception of an inspect goes on, with the count of -1 it got back.      *)
DbError_Swallowed ==
  /\ dbErrors < MaxDbErrors
  /\ dbErrors' = dbErrors + 1
  /\ job.at \in {"save", "update", "count"}
  /\ job' = [job EXCEPT !.at = "next"]
  /\ UNCHANGED <<writers, database, state, inspects, answers, delivered, crashes>>

DbError ==
  /\ dbErrors < MaxDbErrors
  /\ dbErrors' = dbErrors + 1
  /\ \/ /\ \/ job.at = "save" /\ job.todo # <<>>
           \/ job.at = "update"
           \/ job.at = "count" /\ job.call = "finish"
           \/ job.at = "next" /\ UnprocessedInspects = {}
        /\ job' = Free
        /\ UNCHANGED <<state, inspects>>
     \/ /\ job.at = "count"
        /\ job.call = "exception"
        /\ RecordInspect("failed")
        /\ Done
  /\ UNCHANGED <<writers, database, answers, delivered, crashes>>

(* The process dies and starts again on the same database: the inspects,   *)
(* their pollers and the current state are lost.                           *)
Crash_KeepsState ==
  /\ crashes < MaxCrashes
  /\ crashes' = crashes + 1
  /\ inspects' = <<>>
  /\ answers' = <<>>
  /\ calls' = [w \in DOMAIN calls |-> NoCall]
  /\ job' = Free
  /\ UNCHANGED <<sequencer, columns, database, state, delivered, dbErrors>>

Crash ==
  /\ crashes < MaxCrashes
  /\ crashes' = crashes + 1
  /\ inspects' = <<>>
  /\ answers' = <<>>
  /\ calls' = [w \in DOMAIN calls |-> NoCall]
  /\ state' = Idle
  /\ job' = Free
  /\ UNCHANGED <<sequencer, columns, database, delivered, dbErrors>>

-----------------------------------------------------------------------------
Next ==
  \/ AddAdvanceInput
  \/ \E w \in Unlocked : CountInputs(w) \/ CreateInput(w) \/ LeaveCall(w)
  \/ SkipInput
  \/ AddInspectInput
  \/ \E n \in DOMAIN inspects : GetInspectInput(n)
  \/ \E n \in DOMAIN inspects : InspectTimeout(n)
  \/ AddVoucher
  \/ AddDCVoucher
  \/ AddNotice
  \/ AddReport
  \/ \E status \in {"Accepted", "Rejected"} : FinishAndGetNext(status)
  \/ RegisterException
  \/ SaveOutput
  \/ OutputsSaved
  \/ UpdateInput
  \/ CountProcessed
  \/ PickNext
  \/ DbError
  \/ Crash

Spec == Init /\ [][Next]_vars

-----------------------------------------------------------------------------
(* Properties.                                                             *)

Elements(seq) == {seq[k] : k \in DOMAIN seq}
InFlight(n) == state.mode = "advance" /\ state.input = n

(* Every variable has the shape the code gives it, and the current input   *)
(* is a row of the table or a queued inspect of this process.              *)
TypeOK ==
  /\ sequencer \in {"inputbox", "espresso", "avail"}
  /\ inputs \in Seq(Status)
  /\ indices \in Seq(Nat) /\ Len(indices) = Len(inputs)
  /\ seen \in Seq(Nat) /\ Len(seen) = Len(inputs)
  /\ calls \in [Handlers \cup {Listener} -> Calls]
  /\ outputs \in Seq(Output)
  /\ inspects \in Seq(Inspections)
  /\ state \in States
  /\ state.mode = "advance" => state.input \in DOMAIN inputs
  /\ state.mode = "inspect" => state.input \in DOMAIN inspects
  /\ job \in Jobs
  /\ answers \in Seq(Inspections)
  /\ Len(answers) = Len(inspects)
  /\ delivered \in Seq(Deliveries)
  /\ dbErrors \in Nat
  /\ crashes \in Nat

(* The statement a method has reached fits the state it works on: only an  *)
(* advance writes rows, only an inspect counts them, and a finish updates  *)
(* its row when nothing is left to save.                                   *)
JobFitsState ==
  /\ job.at \in {"save", "update"} => state.mode = "advance"
  /\ job.at = "count" => state.mode = "inspect"
  /\ job.at = "next" => job.call = "finish"
  /\ job.at # "free" => (job.call = "exception" <=> job.status = "Exception")
  /\ job.at = "update" /\ job.call = "finish" => job.todo = <<>>

(* A saved row belongs to an input of the table.  What is emitted, and     *)
(* what a method still has to save, belongs to the current input; a method *)
(* that does not accept saves reports only.                                *)
OutputsOfCurrent ==
  /\ \A out \in Elements(outputs) : out.input \in DOMAIN inputs
  /\ \A t \in Tables : \A out \in Elements(state.outs[t]) :
       out.input = state.input /\ TableOf(out.kind) = t
  /\ \A out \in Elements(job.todo) :
       /\ out.input = state.input
       /\ job.status = "Accepted" \/ out.kind = "report"

(* Past the commit point: the row of the current input has been written.   *)
Committed ==
  \/ job.at = "next"
  \/ job.at = "save" /\ job.call = "exception"

(* The row of the current input is final past the commit point and, until  *)
(* a statement fails, only past it.                                        *)
CommitPoint ==
  state.mode = "advance" =>
    /\ Committed => inputs[state.input] # "Unprocessed"
    /\ dbErrors = 0 /\ ~Committed => inputs[state.input] = "Unprocessed"

(* While an accepting finish saves, what was emitted is saved or to do.    *)
SavedOrToDo ==
  job.at \in {"save", "update"} /\ job.status = "Accepted" =>
    \A t \in Tables :
      Elements(state.outs[t]) \subseteq Elements(outputs) \cup Elements(job.todo)

(* When an input is handed out, the rows there are with a lower Index are  *)
(* final, and the current one has been handed out.                         *)
LowerAreFinal ==
  /\ \A d \in Elements(delivered) :
       /\ d.input \in DOMAIN inputs
       /\ d.known <= Len(inputs)
       /\ \A n \in 1..d.known :
            indices[n] < indices[d.input] => inputs[n] # "Unprocessed"
  /\ state.mode = "advance" =>
       \E d \in Elements(delivered) : d.input = state.input

(* A voucher or a notice in the database belongs to an accepted input, or  *)
(* to the current one while its accepting finish is writing: without       *)
(* faults, what a rejected or failed input emitted is never published.     *)
(* Inputs that share an Index are excepted: their statuses may be mixed up.*)
OnlyAcceptedPublish ==
  dbErrors = 0 /\ crashes = 0 =>
    \A out \in Elements(outputs) :
      out.kind # "report" /\ Alone(out.input) =>
        \/ inputs[out.input] = "Accepted"
        \/ /\ InFlight(out.input)
           /\ job.at \in {"save", "update"}
           /\ job.status = "Accepted"

(* Two rows of one output table never carry the same input Index and the   *)
(* same index, as long as the input's Index is its own: vouchers and       *)
(* delegate call vouchers share one numbering, and a finish writes each    *)
(* output once.                                                            *)
OutputsAreDistinct ==
  dbErrors = 0 /\ crashes = 0 =>
    \A j, k \in DOMAIN outputs :
      /\ Alone(outputs[j].input)
      /\ TableOf(outputs[j].kind) = TableOf(outputs[k].kind)
      /\ indices[outputs[j].input] = indices[outputs[k].input]
      /\ outputs[j].index = outputs[k].index
      => j = k

(* In one process lifetime an input handed to the application stays the    *)
(* current one until its status is final, whatever statements fail and     *)
(* whoever writes: no inspect or other input is handed out over it.        *)
OneInFlight ==
  crashes = 0 =>
    \A d \in Elements(delivered) :
      inputs[d.input] = "Unprocessed" => InFlight(d.input)

(* Inputs are handed out in the order of their Index, under every fault,   *)
(* except that one created later with a lower Index, by a writer that had  *)
(* counted before, follows those that went out before it was created.  An  *)
(* input is handed out again only after a crash.                           *)
DeliveredInOrder ==
  \A j, k \in DOMAIN delivered :
    j < k =>
      /\ \/ delivered[k].input > delivered[j].known
         \/ indices[delivered[j].input] <= indices[delivered[k].input]
      /\ crashes = 0 => delivered[j].input # delivered[k].input

(* Whichever writers come in between, an input has a larger Index than the *)
(* rows that were there when its writer counted.  Avail, which counts      *)
(* skipped entries too, is excepted.                                       *)
RealTimeOrder ==
  sequencer # "avail" =>
    \A j, k \in DOMAIN indices : j <= seen[k] => indices[j] < indices[k]

(* The row of an input with an Index of its own turns Accepted only after  *)
(* every voucher, notice and report the application emitted for it is in   *)
(* the database, under every fault: a reader that sees an accepted input   *)
(* sees all its outputs.                                                   *)
AcceptedIsComplete ==
  [][\A n \in DOMAIN inputs :
       Alone(n) /\ inputs[n] # "Accepted" /\ inputs'[n] = "Accepted" =>
         /\ InFlight(n)
         /\ \A t \in Tables : Elements(state.outs[t]) \subseteq Elements(outputs)
    ]_vars

(* While no statement fails the status of an input changes once, crashes   *)
(* included, unless it shares its Index: the finish and the exception of   *)
(* one input exclude each other.                                           *)
FinalOnce ==
  [][\A n \in DOMAIN inputs :
       dbErrors = 0 /\ Alone(n) /\ inputs[n] # "Unprocessed"
         => inputs'[n] = inputs[n]
    ]_vars

(* A poller never gets half an inspect: the answer it was given is the     *)
(* final record, with the reports and the processed count of the finish.   *)
AnswerIsWhole ==
  dbErrors = 0 =>
    \A n \in DOMAIN answers :
      answers[n] \in {NoAnswer, Gone} \/ answers[n] = inspects[n]

(* The order and commit properties with what makes them inductive.         *)
LifecycleInvariant ==
  /\ TypeOK
  /\ JobFitsState
  /\ OutputsOfCurrent
  /\ CommitPoint
  /\ SavedOrToDo
  /\ LowerAreFinal
  /\ OneInFlight
  /\ DeliveredInOrder
  /\ OnlyAcceptedPublish

(* "If the advance-state request is rejected, the vouchers and notices are *)
(* discarded" (api/rollup.yaml:90), with no exception for faults: fails    *)
(* when an accepting finish breaks off and the application then rejects.   *)
RejectedPublishesNothing ==
  \A out \in Elements(outputs) :
    inputs[out.input] = "Rejected" => out.kind = "report"
=============================================================================
