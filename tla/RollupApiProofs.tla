-------------------------- MODULE RollupApiProofs --------------------------
(***************************************************************************)
(* Verdicts and outputs reach the input they are about, for every number   *)
(* of polls, inputs, inspects and unreadable inputs.                       *)
(*                                                                         *)
(* The status that a /finish writes is the one of the current input, and   *)
(* the /finish carries the last decision of the application.  The two      *)
(* belong together because there is one conversation (OneConversation):    *)
(* until a fault there is a handler if and only if the application waits,  *)
(* and it carries what the application decided last.  So whatever is       *)
(* current is what the application holds, or what it decided last          *)
(* (DecidedOnce), and nothing current has been settled (Unsettled).  Types *)
(* alone are not inductive: what is emitted is work because an application *)
(* that works holds some (HoldsWork), under every fault.                   *)
(***************************************************************************)
EXTENDS RollupApi, SequenceTheorems, TLAPS

Statuses == Final \cup {"Unprocessed"}
Requests == [slot: Slots, accept: BOOLEAN, left: 0..FinishRetries,
             first: BOOLEAN, done: BOOLEAN]
Apps == [phase: {"down", "ready", "waiting", "working"}, accept: BOOLEAN,
         holds: Work \cup {Nothing}, fresh: BOOLEAN]

(* What is current waits for its status.                                   *)
Unsettled ==
  current # Nothing => table[current.sort][current.n] = "Unprocessed"

(* At most one handler runs, for the application that waits for it, with   *)
(* the last decision of the application.                                   *)
OneConversation ==
  NoFault =>
    /\ \A r, q \in requests : r = q
    /\ \A r \in requests : ~r.done /\ r.accept = app.accept
    /\ requests # {} <=> app.phase = "waiting"

(* An application that works has something to work on.                     *)
HoldsWork == app.phase = "working" => app.holds # Nothing

Undeliverable(work) == work.sort = "advance" /\ work.n \in bad

(* The application works on what is current; once it has decided, what is  *)
(* current is what it decided on, unless that never reached it.            *)
DecidedOnce ==
  NoFault =>
    /\ app.phase = "working" => current # Nothing /\ app.holds = current
    /\ app.phase = "down" => current = Nothing \/ Undeliverable(current)
    /\ /\ app.phase \in {"ready", "waiting"}
       /\ current.sort = "advance"
       /\ ~Undeliverable(current)
       => verdicts[current.n] = StatusOf(app.accept)

ApiInvariant ==
  /\ TypeOK
  /\ HoldsWork
  /\ Unsettled
  /\ OneConversation
  /\ DecidedOnce
  /\ VerdictIsRecorded
  /\ OutputsGoHome

-----------------------------------------------------------------------------
(* Facts about the data.                                                   *)

(* The types of the parts.                                                 *)
LEMMA PartTypes ==
  ASSUME TypeOK
  PROVE  /\ table \in [Sorts -> Seq(Statuses)]
         /\ requests \subseteq Requests
         /\ app \in Apps
         /\ current = Nothing \/ (current \in Work /\ current # Nothing)
         /\ current \in Work =>
              current.sort \in Sorts /\ current.n \in DOMAIN table[current.sort]
         /\ current \notin Work => current.sort \notin Sorts
  BY DEF TypeOK, Statuses, Requests, Apps, Work, Nothing, Sorts

(* A decision is a final status.                                           *)
LEMMA StatusOfIsFinal ==
  ASSUME NEW accept
  PROVE  StatusOf(accept) \in Final
  BY DEF StatusOf, Final

(* Settling writes the status of the current input or inspect, and nothing *)
(* else.                                                                   *)
LEMMA SettleWrites ==
  ASSUME TypeOK, NEW status \in Final, Settle(status)
  PROVE  /\ table' \in [Sorts -> Seq(Statuses)]
         /\ \A sort \in Sorts :
              /\ Len(table'[sort]) = Len(table[sort])
              /\ DOMAIN table'[sort] = DOMAIN table[sort]
              /\ \A n \in DOMAIN table[sort] :
                   table'[sort][n] = IF current.sort = sort /\ current.n = n
                                     THEN status ELSE table[sort][n]
<1>1. CASE current = Nothing
  BY <1>1, PartTypes DEF Settle, Nothing, Sorts
<1>2. CASE current # Nothing
  <2> DEFINE s == current.sort
             m == current.n
             seq == table[s]
             new == [seq EXCEPT ![m] = status]
  <2>1. s \in Sorts /\ m \in DOMAIN seq /\ seq \in Seq(Statuses) /\ status \in Statuses
    BY <1>2, PartTypes DEF Statuses
  <2>2. table' = [table EXCEPT ![s] = new]
    BY <1>2 DEF Settle
  <2>3. m \in 1..Len(seq)
    BY <2>1, LenProperties
  <2>4. new \in Seq(Statuses) /\ Len(new) = Len(seq) /\ DOMAIN new = DOMAIN seq
    BY <2>1, <2>3, ExceptSeq
  <2>5. \A n \in DOMAIN seq : new[n] = IF m = n THEN status ELSE seq[n]
    OBVIOUS
  <2>6. table \in [Sorts -> Seq(Statuses)]
    BY PartTypes
  <2> HIDE DEF new
  <2>7. \A sort \in Sorts : table'[sort] = IF sort = s THEN new ELSE table[sort]
    BY <2>1, <2>2, <2>6
  <2>8. table' \in [Sorts -> Seq(Statuses)]
    BY <2>1, <2>2, <2>4, <2>6
  <2> QED
    BY <2>4, <2>5, <2>7, <2>8
<1>3. QED
  BY <1>1, <1>2

(* What a poll finds next is a row, which waits and has not been settled.  *)
LEMMA NextWaits ==
  ASSUME TypeOK, NEW accept \in BOOLEAN, FinishAndGetNext(accept)
  PROVE  /\ current' \in Work \cup {Nothing}
         /\ current' # Nothing =>
              /\ current'.sort \in Sorts
              /\ current'.n \in DOMAIN table'[current'.sort]
              /\ table'[current'.sort][current'.n] = "Unprocessed"
<1> SUFFICES ASSUME current' # Nothing
             PROVE  /\ current' \in Work
                    /\ current'.sort \in Sorts
                    /\ current'.n \in DOMAIN table'[current'.sort]
                    /\ table'[current'.sort][current'.n] = "Unprocessed"
  OBVIOUS
<1>1. current' \in Candidates
  BY DEF FinishAndGetNext
<1>2. PICK sort \in Sorts : \E n \in Ready(sort) : current' = [sort |-> sort, n |-> n]
  BY <1>1 DEF Candidates, Oldest, Sorts
<1>3. PICK n \in Ready(sort) : current' = [sort |-> sort, n |-> n]
  BY <1>2
<1>4. /\ n \in DOMAIN table[sort] /\ table[sort][n] = "Unprocessed"
      /\ ~(current.sort = sort /\ current.n = n)
  BY <1>3 DEF Ready, Waiting
<1>5. n \in Nat
  BY <1>4, PartTypes, LenProperties
<1>6. Settle(StatusOf(accept))
  BY DEF FinishAndGetNext
<1>7. /\ DOMAIN table'[sort] = DOMAIN table[sort]
      /\ table'[sort][n] = table[sort][n]
  BY <1>4, <1>6, SettleWrites, StatusOfIsFinal
<1>8. QED
  BY <1>3, <1>4, <1>5, <1>7 DEF Work

-----------------------------------------------------------------------------
(* Arrivals.                                                               *)

(* A new row waits at the end of its table.                                *)
LEMMA ArriveExtends ==
  ASSUME TypeOK, NEW sort \in Sorts, Arrive(sort)
  PROVE  /\ table' \in [Sorts -> Seq(Statuses)]
         /\ Len(table'[sort]) = Len(table[sort]) + 1
         /\ table'[sort][Len(table[sort]) + 1] = "Unprocessed"
         /\ DOMAIN table'[sort] = DOMAIN table[sort] \cup {Len(table[sort]) + 1}
         /\ \A n \in DOMAIN table[sort] : table'[sort][n] = table[sort][n]
         /\ \A other \in Sorts : other # sort => table'[other] = table[other]
<1> DEFINE seq == table[sort]
           new == Append(seq, "Unprocessed")
<1>1. table \in [Sorts -> Seq(Statuses)] /\ "Unprocessed" \in Statuses
  BY PartTypes DEF Statuses
<1>2. seq \in Seq(Statuses)
  BY <1>1
<1>3. table' = [table EXCEPT ![sort] = new]
  BY DEF Arrive
<1>4. /\ new \in Seq(Statuses) /\ Len(new) = Len(seq) + 1
      /\ new[Len(seq) + 1] = "Unprocessed"
      /\ DOMAIN new = DOMAIN seq \cup {Len(seq) + 1}
      /\ \A n \in DOMAIN seq : new[n] = seq[n]
  BY <1>1, <1>2, AppendProperties, LenProperties
<1> HIDE DEF new
<1>5. QED
  BY <1>1, <1>3, <1>4

(* An arrival leaves what is current, and what was decided, alone.         *)
LEMMA AdvanceArrives ==
  ASSUME ApiInvariant, AddAdvanceInput
  PROVE  ApiInvariant'
<1>1. /\ Arrive("advance") /\ verdicts' = Append(verdicts, "none")
      /\ UNCHANGED <<current, outs, requests, app, bad, deaths, timeouts>>
  BY DEF AddAdvanceInput, Arrive, faults
<1>2. TypeOK /\ "advance" \in Sorts
  BY DEF ApiInvariant, Sorts
<1> DEFINE m == Len(table["advance"]) + 1
<1>3. /\ table' \in [Sorts -> Seq(Statuses)]
      /\ Len(table'["advance"]) = m
      /\ table'["advance"][m] = "Unprocessed"
      /\ DOMAIN table'["advance"] = DOMAIN table["advance"] \cup {m}
      /\ \A n \in DOMAIN table["advance"] :
           table'["advance"][n] = table["advance"][n]
      /\ \A other \in Sorts : other # "advance" => table'[other] = table[other]
  BY <1>1, <1>2, ArriveExtends
<1>4. /\ verdicts \in Seq(Final \cup {"none"}) /\ "none" \in Final \cup {"none"}
      /\ Len(verdicts) = Len(table["advance"])
      /\ DOMAIN verdicts = DOMAIN table["advance"]
  BY <1>2, PartTypes, LenProperties DEF TypeOK
<1>5. /\ verdicts' \in Seq(Final \cup {"none"})
      /\ Len(verdicts') = m
      /\ \A n \in DOMAIN table["advance"] : verdicts'[n] = verdicts[n]
  BY <1>1, <1>4, AppendProperties
<1> HIDE DEF m
<1>6. \A w \in Work : w.sort \in Sorts /\ w.n \in DOMAIN table[w.sort] =>
        /\ w.n \in DOMAIN table'[w.sort]
        /\ table'[w.sort][w.n] = table[w.sort][w.n]
  BY <1>3
<1>7. TypeOK'
  BY <1>1, <1>2, <1>3, <1>5, <1>6, PartTypes DEF TypeOK, Statuses
<1>8. Unsettled'
  BY <1>1, <1>2, <1>6, PartTypes DEF ApiInvariant, Unsettled
<1>9. OneConversation' /\ OutputsGoHome' /\ HoldsWork'
  BY <1>1 DEF ApiInvariant, OneConversation, OutputsGoHome, HoldsWork, NoFault
<1>10. DecidedOnce'
  <2>1. current.sort = "advance" => verdicts'[current.n] = verdicts[current.n]
    BY <1>2, <1>5, PartTypes
  <2>2. QED
    BY <1>1, <2>1
       DEF ApiInvariant, DecidedOnce, Undeliverable, NoFault
<1>11. VerdictIsRecorded'
  BY <1>1, <1>3, <1>5 DEF ApiInvariant, VerdictIsRecorded, NoFault
<1>12. QED
  BY <1>7, <1>8, <1>9, <1>10, <1>11 DEF ApiInvariant

(* An inspect has a table of its own.                                      *)
LEMMA InspectArrives ==
  ASSUME ApiInvariant, AddInspectInput
  PROVE  ApiInvariant'
<1>1. /\ Arrive("inspect")
      /\ UNCHANGED <<current, outs, requests, app, verdicts, bad, deaths, timeouts>>
  BY DEF AddInspectInput, Arrive, faults
<1>2. TypeOK /\ "inspect" \in Sorts /\ "advance" \in Sorts
  BY DEF ApiInvariant, Sorts
<1>3. /\ table' \in [Sorts -> Seq(Statuses)]
      /\ DOMAIN table["inspect"] \subseteq DOMAIN table'["inspect"]
      /\ \A n \in DOMAIN table["inspect"] :
           table'["inspect"][n] = table["inspect"][n]
      /\ \A other \in Sorts : other # "inspect" => table'[other] = table[other]
  BY <1>1, <1>2, ArriveExtends
<1>4. table'["advance"] = table["advance"]
  BY <1>2, <1>3
<1>5. \A w \in Work : w.sort \in Sorts /\ w.n \in DOMAIN table[w.sort] =>
        /\ w.n \in DOMAIN table'[w.sort]
        /\ table'[w.sort][w.n] = table[w.sort][w.n]
  BY <1>3
<1>6. TypeOK'
  BY <1>1, <1>2, <1>3, <1>4, <1>5, PartTypes DEF TypeOK, Statuses
<1>7. Unsettled'
  BY <1>1, <1>2, <1>5, PartTypes DEF ApiInvariant, Unsettled
<1>8. OneConversation' /\ OutputsGoHome' /\ DecidedOnce' /\ HoldsWork'
  BY <1>1 DEF ApiInvariant, OneConversation, OutputsGoHome, DecidedOnce,
              HoldsWork, Undeliverable, NoFault
<1>9. VerdictIsRecorded'
  BY <1>1, <1>4 DEF ApiInvariant, VerdictIsRecorded, NoFault
<1>10. QED
  BY <1>6, <1>7, <1>8, <1>9 DEF ApiInvariant

-----------------------------------------------------------------------------
(* The handlers of /finish.                                                *)

(* What an answer does to the application.                                 *)
LEMMA AnswerType ==
  ASSUME TypeOK, NEW r \in requests,
         NEW phase \in {"down", "ready", "waiting", "working"},
         NEW holds \in Work \cup {Nothing}, Answer(r, phase, holds)
  PROVE  /\ app' \in Apps
         /\ app'.accept = app.accept
         /\ ~r.done => app'.phase = phase /\ app'.holds = holds
         /\ r.done => app' = app
  BY PartTypes DEF Answer, Apps

(* The table, the current work and the verdicts after one poll, whoever    *)
(* reads the answer.                                                       *)
LEMMA PollSettles ==
  ASSUME ApiInvariant, NEW r \in requests, Poll(r)
  PROVE  /\ TypeOK'
         /\ HoldsWork'
         /\ Unsettled'
         /\ VerdictIsRecorded'
         /\ OutputsGoHome'
<1>1. /\ r.left > 0 /\ FinishAndGetNext(r.accept) /\ outs' = {}
      /\ UNCHANGED <<verdicts, bad, deaths, timeouts>>
  BY DEF Poll, FinishAndGetNext, faults
<1>2. TypeOK /\ r \in Requests /\ r.accept \in BOOLEAN /\ requests \subseteq Requests
  BY PartTypes DEF ApiInvariant, Requests
<1>3. StatusOf(r.accept) \in Final /\ Settle(StatusOf(r.accept))
  BY <1>1, StatusOfIsFinal DEF FinishAndGetNext
<1>4. /\ table' \in [Sorts -> Seq(Statuses)]
      /\ \A sort \in Sorts :
           /\ Len(table'[sort]) = Len(table[sort])
           /\ DOMAIN table'[sort] = DOMAIN table[sort]
           /\ \A n \in DOMAIN table[sort] :
                table'[sort][n] = IF current.sort = sort /\ current.n = n
                                  THEN StatusOf(r.accept) ELSE table[sort][n]
  BY <1>2, <1>3, SettleWrites
<1>5. /\ current' \in Work \cup {Nothing}
      /\ current' # Nothing =>
           /\ current'.sort \in Sorts
           /\ current'.n \in DOMAIN table'[current'.sort]
           /\ table'[current'.sort][current'.n] = "Unprocessed"
  BY <1>1, <1>2, NextWaits
<1>6. requests' \subseteq Requests
  <2>1. r.left - 1 \in 0..FinishRetries
    BY <1>1, <1>2, ApiAssumption DEF Requests
  <2>2. [r EXCEPT !.left = @ - 1] \in Requests
    BY <1>2, <2>1 DEF Requests
  <2>3. requests' = requests \ {r}
        \/ requests' = (requests \ {r}) \cup {[r EXCEPT !.left = @ - 1]}
    BY DEF Poll
  <2>4. QED
    BY <1>2, <2>2, <2>3
<1>7. app' \in Apps /\ HoldsWork'
  <2>1. CASE UNCHANGED app
    BY <1>2, <2>1, PartTypes DEF ApiInvariant, HoldsWork
  <2>2. CASE current' # Nothing /\ AnswerWithWork(r)
    BY <1>2, <1>5, <2>2, AnswerType DEF AnswerWithWork, ApiInvariant, HoldsWork
  <2>3. QED
    BY <2>1, <2>2 DEF Poll
<1>8. TypeOK'
  BY <1>1, <1>2, <1>4, <1>5, <1>6, <1>7
     DEF TypeOK, Statuses, Requests, Apps, Sorts
<1>9. Unsettled'
  BY <1>5 DEF Unsettled
<1>10. VerdictIsRecorded'
  <2> SUFFICES ASSUME NoFault, NEW n \in DOMAIN table["advance"], n \notin bad,
                      table'["advance"][n] # "Unprocessed"
               PROVE  table'["advance"][n] = verdicts[n]
    BY <1>1, <1>4 DEF VerdictIsRecorded, NoFault, Sorts
  <2>1. "advance" \in Sorts
    BY DEF Sorts
  <2>2. CASE current.sort = "advance" /\ current.n = n
    <3>1. r.accept = app.accept /\ app.phase = "waiting"
      BY DEF ApiInvariant, OneConversation
    <3>2. ~Undeliverable(current)
      BY <2>2 DEF Undeliverable
    <3>3. verdicts[n] = StatusOf(r.accept)
      BY <2>2, <3>1, <3>2 DEF ApiInvariant, DecidedOnce
    <3>4. QED
      BY <1>4, <2>1, <2>2, <3>3
  <2>3. CASE ~(current.sort = "advance" /\ current.n = n)
    <3>1. table'["advance"][n] = table["advance"][n]
      BY <1>4, <2>1, <2>3
    <3>2. QED
      BY <3>1 DEF ApiInvariant, VerdictIsRecorded
  <2>4. QED
    BY <2>2, <2>3
<1>11. OutputsGoHome'
  BY <1>1 DEF OutputsGoHome
<1>12. QED
  BY <1>7, <1>8, <1>9, <1>10, <1>11

(* Without a fault it is the application's one handler that polls: it goes *)
(* on, or hands over what is now current.                                  *)
LEMMA PollKeepsConversation ==
  ASSUME ApiInvariant, NEW r \in requests, Poll(r)
  PROVE  OneConversation' /\ DecidedOnce'
<1>1. UNCHANGED <<verdicts, bad, deaths, timeouts>>
  BY DEF Poll, faults
<1> SUFFICES ASSUME NoFault
             PROVE  OneConversation' /\ DecidedOnce'
  BY <1>1 DEF OneConversation, DecidedOnce, NoFault
<1>2. /\ TypeOK /\ r \in Requests
      /\ requests = {r} /\ ~r.done /\ r.accept = app.accept
      /\ app.phase = "waiting" /\ app \in Apps
  BY PartTypes DEF ApiInvariant, OneConversation
<1>3. current' \in Work \cup {Nothing} /\ r.accept \in BOOLEAN
  BY <1>2, NextWaits DEF Poll, Requests
<1>4. CASE current' = Nothing
  <2>1. requests' = {[r EXCEPT !.left = @ - 1]} /\ UNCHANGED app
    BY <1>2, <1>4 DEF Poll
  <2>2. /\ [r EXCEPT !.left = @ - 1].done = r.done
        /\ [r EXCEPT !.left = @ - 1].accept = r.accept
    BY <1>2 DEF Requests
  <2>3. OneConversation'
    BY <1>2, <2>1, <2>2 DEF OneConversation
  <2>4. current'.sort # "advance"
    BY <1>4 DEF Nothing
  <2>5. DecidedOnce'
    BY <1>2, <1>4, <2>1, <2>4 DEF DecidedOnce
  <2>6. QED
    BY <2>3, <2>5
<1>5. CASE current' # Nothing
  <2>1. requests' = {} /\ AnswerWithWork(r)
    BY <1>2, <1>5 DEF Poll
  <2>2. \/ /\ Undeliverable(current)'
           /\ app'.phase \in {"ready", "down"}
        \/ app'.phase = "working" /\ app'.holds = current'
    BY <1>1, <1>2, <1>3, <2>1, AnswerType DEF AnswerWithWork, Undeliverable
  <2>3. OneConversation'
    BY <2>1, <2>2 DEF OneConversation
  <2>4. DecidedOnce'
    BY <1>5, <2>2 DEF DecidedOnce
  <2>5. QED
    BY <2>3, <2>4
<1>6. QED
  BY <1>4, <1>5

(* The handler leaves: it gives up, or finds that nobody waits.            *)
LEMMA HandlerLeaves ==
  ASSUME ApiInvariant, NEW r \in requests, GiveUp(r) \/ Cancel(r)
  PROVE  ApiInvariant'
<1>1. /\ UNCHANGED <<table, current, outs, verdicts, bad, deaths, timeouts>>
      /\ requests' = requests \ {r}
  BY DEF GiveUp, Cancel, faults
<1>2. /\ TypeOK /\ Unsettled /\ OneConversation /\ DecidedOnce
      /\ VerdictIsRecorded /\ OutputsGoHome /\ HoldsWork /\ app \in Apps
  BY PartTypes DEF ApiInvariant
<1>3. /\ app' \in Apps /\ app'.accept = app.accept
      /\ NoFault => app'.phase = "ready"
      /\ app' = app \/ app'.phase = "ready"
  <2>1. CASE GiveUp(r)
    <3>1. Answer(r, "ready", Nothing)
      BY <2>1 DEF GiveUp
    <3>2. QED
      BY <1>2, <3>1, AnswerType DEF OneConversation
  <2>2. CASE Cancel(r)
    BY <1>2, <2>2 DEF Cancel, OneConversation
  <2>3. QED
    BY <2>1, <2>2
<1>4. TypeOK'
  BY <1>1, <1>2, <1>3 DEF TypeOK, Apps
<1>5. OneConversation'
  BY <1>1, <1>2, <1>3 DEF OneConversation, NoFault
<1>6. DecidedOnce'
  BY <1>1, <1>2, <1>3 DEF DecidedOnce, OneConversation, Undeliverable, NoFault
<1>7. Unsettled' /\ VerdictIsRecorded' /\ OutputsGoHome' /\ HoldsWork'
  BY <1>1, <1>2, <1>3
     DEF Unsettled, VerdictIsRecorded, OutputsGoHome, HoldsWork, NoFault
<1>8. QED
  BY <1>4, <1>5, <1>6, <1>7 DEF ApiInvariant

(* Once a fault has happened, only the type of the conversation matters.   *)
LEMMA FaultSteps ==
  ASSUME ApiInvariant, (\E r \in requests : DeadlinePassed(r)) \/ Die
  PROVE  ApiInvariant'
<1>1. /\ UNCHANGED <<table, current, outs, verdicts, bad>>
      /\ deaths' \in Nat /\ timeouts' \in Nat /\ ~NoFault'
  BY DEF DeadlinePassed, Die, ApiInvariant, TypeOK, NoFault
<1>2. TypeOK /\ Unsettled /\ requests \subseteq Requests /\ app \in Apps
  BY PartTypes DEF ApiInvariant
<1>3. \A r \in requests : [r EXCEPT !.done = TRUE] \in Requests
  BY <1>2 DEF Requests
<1>4. requests' \subseteq Requests
  <2>1. ASSUME NEW r \in requests, DeadlinePassed(r)
        PROVE  requests' \subseteq Requests
    BY <1>2, <1>3, <2>1 DEF DeadlinePassed
  <2>2. ASSUME Die
        PROVE  requests' \subseteq Requests
    BY <1>2, <1>3, <2>2 DEF Die, Attached
  <2>3. QED
    BY <2>1, <2>2
<1>5. app' \in Apps /\ (app' = app \/ app'.phase # "working")
  <2>1. ASSUME NEW r \in requests, DeadlinePassed(r)
        PROVE  app' \in Apps /\ (app' = app \/ app'.phase # "working")
    BY <1>2, <2>1, AnswerType DEF DeadlinePassed
  <2>2. ASSUME Die
        PROVE  app' \in Apps /\ (app' = app \/ app'.phase # "working")
    BY <1>2, <2>2 DEF Die, Apps
  <2>3. QED
    BY <2>1, <2>2
<1>6. TypeOK'
  BY <1>1, <1>2, <1>4, <1>5 DEF TypeOK, Apps, Requests
<1>7. Unsettled' /\ HoldsWork'
  BY <1>1, <1>2, <1>5 DEF Unsettled, HoldsWork, ApiInvariant
<1>8. OneConversation' /\ DecidedOnce' /\ VerdictIsRecorded' /\ OutputsGoHome'
  BY <1>1 DEF OneConversation, DecidedOnce, VerdictIsRecorded, OutputsGoHome
<1>9. QED
  BY <1>6, <1>7, <1>8 DEF ApiInvariant

-----------------------------------------------------------------------------
(* The application.                                                        *)

(* A launched application has decided nothing, and nothing that could be   *)
(* given to one is current.                                                *)
LEMMA LaunchStep ==
  ASSUME ApiInvariant, Launch
  PROVE  ApiInvariant'
<1>1. /\ app.phase = "down"
      /\ app' = [phase |-> "ready", accept |-> TRUE, holds |-> Nothing,
                 fresh |-> TRUE]
      /\ UNCHANGED <<table, current, outs, requests, verdicts, bad, deaths, timeouts>>
  BY DEF Launch, faults
<1>2. TypeOK'
  BY <1>1 DEF ApiInvariant, TypeOK
<1>3. OneConversation'
  BY <1>1 DEF ApiInvariant, OneConversation, NoFault
<1>4. DecidedOnce'
  <2>1. app'.phase = "ready"
    BY <1>1
  <2>2. NoFault => current.sort # "advance" \/ Undeliverable(current)
    BY <1>1 DEF ApiInvariant, DecidedOnce, Nothing
  <2>3. QED
    BY <1>1, <2>1, <2>2 DEF DecidedOnce, Undeliverable, NoFault
<1>5. Unsettled' /\ VerdictIsRecorded' /\ OutputsGoHome' /\ HoldsWork'
  BY <1>1 DEF ApiInvariant, Unsettled, VerdictIsRecorded, OutputsGoHome,
              HoldsWork, NoFault
<1>6. QED
  BY <1>2, <1>3, <1>4, <1>5 DEF ApiInvariant

(* The one handler of the conversation begins.                             *)
LEMMA SendFinishStep ==
  ASSUME ApiInvariant, SendFinish
  PROVE  ApiInvariant'
<1>1. /\ app.phase = "ready"
      /\ app' = [app EXCEPT !.phase = "waiting", !.fresh = FALSE]
      /\ UNCHANGED <<table, current, outs, verdicts, bad, deaths, timeouts>>
  BY DEF SendFinish, faults
<1> DEFINE begun(slot) == [slot |-> slot, accept |-> app.accept, left |-> FinishRetries,
                           first |-> app.fresh, done |-> FALSE]
<1>2. PICK slot \in Slots : requests' = requests \cup {begun(slot)}
  BY DEF SendFinish, Oldest
<1>3. TypeOK /\ requests \subseteq Requests /\ app \in Apps
  BY PartTypes DEF ApiInvariant
<1>4. /\ app' \in Apps /\ app'.phase = "waiting"
      /\ app'.accept = app.accept /\ app'.holds = app.holds
  BY <1>1, <1>3 DEF Apps
<1>5. begun(slot) \in Requests
  <2>1. FinishRetries \in 0..FinishRetries /\ app.accept \in BOOLEAN /\ app.fresh \in BOOLEAN
    BY <1>3, ApiAssumption DEF Apps
  <2>2. QED
    BY <2>1 DEF Requests
<1>6. TypeOK'
  <2>1. requests' \subseteq Requests
    BY <1>2, <1>3, <1>5
  <2>2. QED
    BY <1>1, <1>3, <1>4, <2>1 DEF TypeOK, Apps, Requests
<1>7. OneConversation'
  <2>1. ~begun(slot).done /\ begun(slot).accept = app.accept
    OBVIOUS
  <2> HIDE DEF begun
  <2>2. NoFault => requests' = {begun(slot)}
    BY <1>1, <1>2 DEF ApiInvariant, OneConversation
  <2>3. QED
    BY <1>1, <1>4, <2>1, <2>2 DEF OneConversation, NoFault
<1>8. DecidedOnce'
  BY <1>1, <1>4 DEF ApiInvariant, DecidedOnce, Undeliverable, NoFault
<1>9. Unsettled' /\ VerdictIsRecorded' /\ OutputsGoHome' /\ HoldsWork'
  BY <1>1, <1>4 DEF ApiInvariant, Unsettled, VerdictIsRecorded, OutputsGoHome,
                    HoldsWork, NoFault
<1>10. QED
  BY <1>6, <1>7, <1>8, <1>9 DEF ApiInvariant

(* What the application decides on is recorded for what it holds.          *)
LEMMA RecordWrites ==
  ASSUME TypeOK, NEW status \in Final, Record(status)
  PROVE  /\ verdicts' \in Seq(Final \cup {"none"})
         /\ Len(verdicts') = Len(verdicts)
         /\ \A n \in DOMAIN verdicts :
              verdicts'[n] = IF app.holds.sort = "advance" /\ app.holds.n = n
                             THEN status ELSE verdicts[n]
<1> DEFINE S == Final \cup {"none"}
<1>1. verdicts \in Seq(S) /\ status \in S
  BY DEF TypeOK
<1> HIDE DEF S
<1>2. CASE app.holds.sort # "advance"
  BY <1>1, <1>2 DEF Record, S
<1>3. CASE app.holds.sort = "advance"
  <2> DEFINE m == app.holds.n
  <2>1. verdicts' = [verdicts EXCEPT ![m] = status]
    BY <1>3 DEF Record
  <2>2. verdicts' \in Seq(S) /\ Len(verdicts') = Len(verdicts)
    <3>1. CASE m \in 1..Len(verdicts)
      BY <1>1, <2>1, <3>1, ExceptSeq
    <3>2. CASE m \notin 1..Len(verdicts)
      <4>1. DOMAIN verdicts = 1..Len(verdicts)
        BY <1>1, LenProperties
      <4>2. verdicts' = verdicts
        BY <2>1, <3>2, <4>1, <1>1
      <4>3. QED
        BY <1>1, <4>2
    <3>3. QED
      BY <3>1, <3>2
  <2>3. QED
    BY <1>3, <2>1, <2>2 DEF S
<1>4. QED
  BY <1>2, <1>3

(* The input that is current has no status yet: its verdict may change.    *)
LEMMA DecideStep ==
  ASSUME ApiInvariant, NEW accept \in BOOLEAN, Decide(accept)
  PROVE  ApiInvariant'
<1>1. /\ app.phase = "working" /\ Record(StatusOf(accept))
      /\ app' = [app EXCEPT !.phase = "ready", !.accept = accept, !.holds = Nothing]
      /\ UNCHANGED <<table, current, outs, requests, bad, deaths, timeouts>>
  BY DEF Decide, faults
<1>2. /\ TypeOK /\ app \in Apps /\ requests \subseteq Requests
      /\ DOMAIN verdicts = DOMAIN table["advance"]
  BY PartTypes, LenProperties DEF ApiInvariant, TypeOK, Sorts
<1>3. /\ verdicts' \in Seq(Final \cup {"none"})
      /\ Len(verdicts') = Len(verdicts)
      /\ \A n \in DOMAIN verdicts :
           verdicts'[n] = IF app.holds.sort = "advance" /\ app.holds.n = n
                          THEN StatusOf(accept) ELSE verdicts[n]
  BY <1>1, <1>2, StatusOfIsFinal, RecordWrites
<1>4. app' \in Apps /\ app'.phase = "ready" /\ app'.accept = accept
  BY <1>1, <1>2 DEF Apps
<1>5. TypeOK'
  BY <1>1, <1>2, <1>3, <1>4 DEF TypeOK, Apps
<1>6. OneConversation'
  BY <1>1, <1>4 DEF ApiInvariant, OneConversation, NoFault
<1>7. NoFault => app.holds = current
  BY <1>1 DEF ApiInvariant, DecidedOnce
<1>8. DecidedOnce'
  <2>1. current.sort = "advance" => current.n \in DOMAIN verdicts
    BY <1>2, PartTypes DEF Sorts
  <2>2. QED
    BY <1>1, <1>3, <1>4, <1>7, <2>1 DEF DecidedOnce, NoFault
<1>9. VerdictIsRecorded'
  <2> SUFFICES ASSUME NoFault, NEW n \in DOMAIN table["advance"], n \notin bad,
                      table["advance"][n] # "Unprocessed"
               PROVE  table["advance"][n] = verdicts'[n]
    BY <1>1 DEF VerdictIsRecorded, NoFault
  <2>1. ~(current.sort = "advance" /\ current.n = n)
    BY DEF ApiInvariant, Unsettled, Nothing
  <2>2. verdicts'[n] = verdicts[n]
    BY <1>2, <1>3, <1>7, <2>1
  <2>3. QED
    BY <2>2 DEF ApiInvariant, VerdictIsRecorded
<1>10. Unsettled' /\ OutputsGoHome' /\ HoldsWork'
  BY <1>1, <1>4 DEF ApiInvariant, Unsettled, OutputsGoHome, HoldsWork, NoFault
<1>11. QED
  BY <1>5, <1>6, <1>8, <1>9, <1>10 DEF ApiInvariant

(* An exception is the verdict and the status at once.                     *)
LEMMA ExceptionStep ==
  ASSUME ApiInvariant, RegisterException
  PROVE  ApiInvariant'
<1>1. /\ app.phase = "working" /\ Record("Exception") /\ Settle("Exception")
      /\ current' = Nothing /\ outs' = {}
      /\ app' = [app EXCEPT !.phase = "down", !.holds = Nothing]
      /\ UNCHANGED <<requests, bad, deaths, timeouts>>
  BY DEF RegisterException, faults
<1>2. /\ TypeOK /\ app \in Apps /\ requests \subseteq Requests
      /\ DOMAIN verdicts = DOMAIN table["advance"]
      /\ "Exception" \in Final /\ "advance" \in Sorts
  BY PartTypes, LenProperties DEF ApiInvariant, TypeOK, Sorts, Final
<1>3. /\ verdicts' \in Seq(Final \cup {"none"})
      /\ Len(verdicts') = Len(verdicts)
      /\ \A n \in DOMAIN verdicts :
           verdicts'[n] = IF app.holds.sort = "advance" /\ app.holds.n = n
                          THEN "Exception" ELSE verdicts[n]
  BY <1>1, <1>2, RecordWrites
<1>4. /\ table' \in [Sorts -> Seq(Statuses)]
      /\ \A sort \in Sorts :
           /\ Len(table'[sort]) = Len(table[sort])
           /\ DOMAIN table'[sort] = DOMAIN table[sort]
           /\ \A n \in DOMAIN table[sort] :
                table'[sort][n] = IF current.sort = sort /\ current.n = n
                                  THEN "Exception" ELSE table[sort][n]
  BY <1>1, <1>2, SettleWrites
<1>5. app' \in Apps /\ app'.phase = "down"
  BY <1>1, <1>2 DEF Apps
<1>6. TypeOK'
  BY <1>1, <1>2, <1>3, <1>4, <1>5 DEF TypeOK, Apps, Requests, Statuses
<1>7. OneConversation'
  BY <1>1, <1>5 DEF ApiInvariant, OneConversation, NoFault
<1>8. DecidedOnce' /\ Unsettled' /\ OutputsGoHome' /\ HoldsWork'
  BY <1>1, <1>5 DEF DecidedOnce, Unsettled, OutputsGoHome, HoldsWork
<1>9. VerdictIsRecorded'
  <2> SUFFICES ASSUME NoFault, NEW n \in DOMAIN table["advance"], n \notin bad,
                      table'["advance"][n] # "Unprocessed"
               PROVE  table'["advance"][n] = verdicts'[n]
    BY <1>1, <1>2, <1>4 DEF VerdictIsRecorded, NoFault
  <2>1. app.holds = current
    BY <1>1 DEF ApiInvariant, DecidedOnce
  <2>2. CASE current.sort = "advance" /\ current.n = n
    BY <1>2, <1>3, <1>4, <2>1, <2>2
  <2>3. CASE ~(current.sort = "advance" /\ current.n = n)
    <3>1. table'["advance"][n] = table["advance"][n] /\ verdicts'[n] = verdicts[n]
      BY <1>2, <1>3, <1>4, <2>1, <2>3
    <3>2. QED
      BY <3>1 DEF ApiInvariant, VerdictIsRecorded
  <2>4. QED
    BY <2>2, <2>3
<1>10. QED
  BY <1>6, <1>7, <1>8, <1>9 DEF ApiInvariant

(* What the application emits while it works goes to what it works on.     *)
LEMMA AddOutputStep ==
  ASSUME ApiInvariant, AddOutput
  PROVE  ApiInvariant'
<1>1. /\ app.phase = "working" /\ current # Nothing
      /\ outs' = outs \cup {app.holds}
      /\ UNCHANGED <<table, current, requests, app, verdicts, bad, deaths, timeouts>>
  BY DEF AddOutput, faults
<1>2. /\ OneConversation' /\ DecidedOnce' /\ Unsettled' /\ VerdictIsRecorded'
      /\ HoldsWork'
  BY <1>1 DEF ApiInvariant, OneConversation, DecidedOnce, Unsettled,
              VerdictIsRecorded, HoldsWork, Undeliverable, NoFault
<1>3. OutputsGoHome'
  BY <1>1 DEF ApiInvariant, OutputsGoHome, DecidedOnce, NoFault
<1>4. TypeOK'
  BY <1>1 DEF ApiInvariant, TypeOK, HoldsWork
<1>5. QED
  BY <1>2, <1>3, <1>4 DEF ApiInvariant

-----------------------------------------------------------------------------
(* The results.                                                            *)

(* Nothing has arrived, and the application has not been launched.         *)
LEMMA InitApi == Init => ApiInvariant
<1> SUFFICES ASSUME Init
             PROVE  ApiInvariant
  OBVIOUS
<1>1. /\ table = [sort \in Sorts |-> <<>>] /\ current = Nothing /\ outs = {}
      /\ requests = {} /\ verdicts = <<>> /\ bad \subseteq Unreadable
      /\ app = [phase |-> "down", accept |-> TRUE, holds |-> Nothing, fresh |-> TRUE]
      /\ deaths = 0 /\ timeouts = 0
  BY DEF Init
<1>2. table["advance"] = <<>>
  BY <1>1 DEF Sorts
<1>3. TypeOK
  BY <1>1, <1>2 DEF TypeOK
<1>4. HoldsWork /\ Unsettled /\ OneConversation
  BY <1>1 DEF HoldsWork, Unsettled, OneConversation
<1>5. DecidedOnce /\ OutputsGoHome
  BY <1>1 DEF DecidedOnce, OutputsGoHome
<1>6. VerdictIsRecorded
  BY <1>2 DEF VerdictIsRecorded
<1>7. QED
  BY <1>3, <1>4, <1>5, <1>6 DEF ApiInvariant

(* Every step.                                                             *)
LEMMA NextApi == ApiInvariant /\ [Next]_vars => ApiInvariant'
<1> SUFFICES ASSUME ApiInvariant, [Next]_vars
             PROVE  ApiInvariant'
  OBVIOUS
<1>1. CASE AddAdvanceInput \/ AddInspectInput
  BY <1>1, AdvanceArrives, InspectArrives
<1>2. ASSUME NEW slot \in Slots, Handler(slot)
      PROVE  ApiInvariant'
  <2>1. PICK r \in requests : Poll(r) \/ GiveUp(r) \/ Cancel(r)
    BY <1>2 DEF Handler
  <2>2. CASE Poll(r)
    BY <2>2, PollSettles, PollKeepsConversation DEF ApiInvariant
  <2>3. CASE GiveUp(r) \/ Cancel(r)
    BY <2>3, HandlerLeaves
  <2>4. QED
    BY <2>1, <2>2, <2>3
<1>3. CASE (\E r \in requests : DeadlinePassed(r)) \/ Die
  BY <1>3, FaultSteps
<1>4. CASE Application
  BY <1>4, LaunchStep, SendFinishStep, DecideStep, ExceptionStep DEF Application
<1>5. CASE AddOutput
  BY <1>5, AddOutputStep
<1>6. CASE UNCHANGED vars
  BY <1>6 DEF vars, ApiInvariant, TypeOK, HoldsWork, Unsettled, OneConversation,
              DecidedOnce, Undeliverable, VerdictIsRecorded, OutputsGoHome, NoFault
<1>7. QED
  BY <1>1, <1>2, <1>3, <1>4, <1>5, <1>6 DEF Next

(* The invariant, which needs no fairness.                                 *)
LEMMA ApiInvariantHolds == Spec => []ApiInvariant
<1>1. QED
  BY InitApi, NextApi, PTL DEF Spec

(* The variables keep their types, and no handler polls more often than    *)
(* the loop of /finish allows, through exits and timeouts.                 *)
THEOREM ApiTypeCorrect == Spec => []TypeOK
<1>1. ApiInvariant => TypeOK
  BY DEF ApiInvariant
<1>2. QED
  BY ApiInvariantHolds, <1>1, PTL

(* Without a fault the status of an input that can be delivered is the     *)
(* verdict of the application on that input, whatever number of polls and  *)
(* repeated /finish requests it took.                                      *)
THEOREM VerdictsAreRecorded == Spec => []VerdictIsRecorded
<1>1. ApiInvariant => VerdictIsRecorded
  BY DEF ApiInvariant
<1>2. QED
  BY ApiInvariantHolds, <1>1, PTL

(* Without a fault outputs are kept for the input or inspect that they     *)
(* come from.                                                              *)
THEOREM OutputsStayHome == Spec => []OutputsGoHome
<1>1. ApiInvariant => OutputsGoHome
  BY DEF ApiInvariant
<1>2. QED
  BY ApiInvariantHolds, <1>1, PTL
=============================================================================
