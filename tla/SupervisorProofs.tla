-------------------------- MODULE SupervisorProofs --------------------------
(***************************************************************************)
(* Proofs about Supervisor: for every choice of the options, a worker runs *)
(* only while what it calls is up, and "ready" means that all are up.      *)
(***************************************************************************)
EXTENDS Supervisor, SequenceTheorems, TLAPS

-----------------------------------------------------------------------------
(* The wiring, without going through the combinations of the options: the  *)
(* list of the workers ascends in a rank, where whatever is called has a   *)
(* lower rank than its callers.                                            *)

Rank == [w \in Kinds |->
  CASE w = "anvil"                            -> 1
    [] w \in {"inputter", "espresso", "avail"} -> 2
    [] w = "rollups_http"                     -> 3
    [] w = "http"                             -> 4
    [] w \in {"app", "echo"}                  -> 5
    [] w = "salsa"                            -> 6
    [] w = "claimer"                          -> 7]

Ascends(s, low, high) ==
  /\ s \in Seq(Kinds)
  /\ \A k \in 1..Len(s) : Rank[s[k]] \in low..high
  /\ \A j, k \in 1..Len(s) : j < k => Rank[s[j]] < Rank[s[k]]

(* Ranks are numbers, from Anvil's to the claimer's.                       *)
LEMMA Ranks ==
  /\ Rank \in [Kinds -> 1..7]
  /\ Rank["anvil"] = 1
  /\ Rank["inputter"] = 2 /\ Rank["espresso"] = 2 /\ Rank["avail"] = 2
  /\ Rank["rollups_http"] = 3
  /\ Rank["http"] = 4
  /\ Rank["app"] = 5 /\ Rank["echo"] = 5
  /\ Rank["salsa"] = 6
  /\ Rank["claimer"] = 7
BY DEF Rank, Kinds

(* The list of one worker ascends, and so does the empty one.              *)
LEMMA WhenAscends ==
  ASSUME NEW condition \in BOOLEAN, NEW w, NEW low \in Nat, NEW high \in Nat,
         condition => w \in Kinds /\ Rank[w] \in low..high
  PROVE  Ascends(When(condition, w), low, high)
BY DEF Ascends, When

(* A list and one that is above it ascend when they are put together, and  *)
(* no worker is lost.                                                      *)
LEMMA ConcatAscends ==
  ASSUME NEW s, NEW t, NEW a \in Nat, NEW b \in Nat, NEW c \in Nat, NEW d \in Nat,
         Ascends(s, a, b), Ascends(t, c, d), a <= b, b < c, c <= d
  PROVE  Ascends(s \o t, a, d) /\ ToSet(s) \cup ToSet(t) \subseteq ToSet(s \o t)
<1>1. /\ s \o t \in Seq(Kinds)
      /\ Len(s \o t) = Len(s) + Len(t)
      /\ \A k \in 1..Len(s) + Len(t) :
           (s \o t)[k] = IF k <= Len(s) THEN s[k] ELSE t[k - Len(s)]
  BY ConcatProperties DEF Ascends
<1>2. Len(s) \in Nat /\ Len(t) \in Nat
  BY DEF Ascends
<1>3. ASSUME NEW k \in 1..Len(s) + Len(t)
      PROVE  IF k <= Len(s) THEN Rank[(s \o t)[k]] \in a..b
                            ELSE Rank[(s \o t)[k]] \in c..d
  BY <1>1, <1>2 DEF Ascends
<1>4. ASSUME NEW j \in 1..Len(s) + Len(t), NEW k \in 1..Len(s) + Len(t), j < k
      PROVE  Rank[(s \o t)[j]] < Rank[(s \o t)[k]]
  <2>1. CASE k <= Len(s)
    BY <1>1, <1>2, <1>4, <2>1 DEF Ascends
  <2>2. CASE j <= Len(s) /\ k > Len(s)
    BY <1>2, <1>3, <1>4, <2>2
  <2>3. CASE j > Len(s)
    <3>1. /\ (s \o t)[j] = t[j - Len(s)] /\ (s \o t)[k] = t[k - Len(s)]
          /\ j - Len(s) \in 1..Len(t) /\ k - Len(s) \in 1..Len(t)
          /\ j - Len(s) < k - Len(s)
      BY <1>1, <1>2, <1>4, <2>3
    <3>2. QED
      BY <3>1 DEF Ascends
  <2>4. QED
    BY <1>2, <2>1, <2>2, <2>3
<1>5. \A k \in 1..Len(s \o t) : Rank[(s \o t)[k]] \in a..d
  BY <1>1, <1>2, <1>3
<1>6. ToSet(s) \subseteq ToSet(s \o t)
  BY <1>1, <1>2 DEF ToSet, Ascends
<1>7. ToSet(t) \subseteq ToSet(s \o t)
  <2>1. ASSUME NEW k \in 1..Len(t)
        PROVE  Len(s) + k \in 1..Len(s \o t) /\ (s \o t)[Len(s) + k] = t[k]
    BY <1>1, <1>2
  <2>2. DOMAIN t = 1..Len(t) /\ DOMAIN (s \o t) = 1..Len(s \o t)
    BY <1>1 DEF Ascends
  <2>3. QED
    BY <2>1, <2>2 DEF ToSet
<1>8. QED
  BY <1>1, <1>4, <1>5, <1>6, <1>7 DEF Ascends

(* NewSupervisor appends the workers in the order of their ranks, and the  *)
(* rollup API whatever the options are.                                    *)
LEMMA WiringAscends ==
  ASSUME NEW o \in Options
  PROVE  /\ Ascends(WorkersOf(o), 1, 7)
         /\ "rollups_http" \in ToSet(WorkersOf(o))
<1> DEFINE s1 == When(o.devnet, "anvil")
           s2 == When(o.sequencer # "none", o.sequencer)
           s3 == <<"rollups_http", "http">>
           s5 == When(o.app # "none", o.app)
           s6 == When(o.salsa, "salsa")
           s7 == When(o.claims, "claimer")
           left  == s1 \o s2
           front == left \o s3
           back  == front \o s5
<1>1. /\ o.devnet \in BOOLEAN /\ o.salsa \in BOOLEAN /\ o.claims \in BOOLEAN
      /\ o.sequencer \in {"none", "inputter", "espresso", "avail"}
      /\ o.app \in {"none", "app", "echo"}
  BY DEF Options
<1>2. Ascends(s1, 1, 1)
  BY <1>1, WhenAscends, Ranks DEF Kinds
<1>3. Ascends(s2, 2, 2)
  <2>1. o.sequencer # "none" => o.sequencer \in Kinds /\ Rank[o.sequencer] \in 2..2
    BY <1>1, Ranks DEF Kinds
  <2>2. (o.sequencer # "none") \in BOOLEAN
    OBVIOUS
  <2>3. QED
    BY <2>1, <2>2, WhenAscends
<1>4. Ascends(s3, 3, 4)
  BY Ranks DEF Ascends, Kinds
<1>5. Ascends(s5, 5, 5)
  <2>1. o.app # "none" => o.app \in Kinds /\ Rank[o.app] \in 5..5
    BY <1>1, Ranks DEF Kinds
  <2>2. (o.app # "none") \in BOOLEAN
    OBVIOUS
  <2>3. QED
    BY <2>1, <2>2, WhenAscends
<1>6. Ascends(s6, 6, 6)
  BY <1>1, WhenAscends, Ranks DEF Kinds
<1>7. Ascends(s7, 7, 7)
  BY <1>1, WhenAscends, Ranks DEF Kinds
<1>8. WorkersOf(o) = (back \o s6) \o s7
  BY DEF WorkersOf
<1> HIDE DEF s1, s2, s5, s6, s7
<1>9. "rollups_http" \in ToSet(s3)
  BY DEF ToSet
<1> HIDE DEF s3
<1>10. Ascends(left, 1, 2)
  BY <1>2, <1>3, ConcatAscends
<1> HIDE DEF left
<1>11. Ascends(front, 1, 4) /\ ToSet(s3) \subseteq ToSet(front)
  BY <1>4, <1>10, ConcatAscends
<1> HIDE DEF front
<1>12. Ascends(back, 1, 5) /\ ToSet(front) \subseteq ToSet(back)
  BY <1>5, <1>11, ConcatAscends
<1> HIDE DEF back
<1>13. Ascends(back \o s6, 1, 6) /\ ToSet(back) \subseteq ToSet(back \o s6)
  BY <1>6, <1>12, ConcatAscends
<1>14. /\ Ascends((back \o s6) \o s7, 1, 7)
       /\ ToSet(back \o s6) \subseteq ToSet((back \o s6) \o s7)
  BY <1>7, <1>13, ConcatAscends
<1>15. QED
  BY <1>8, <1>9, <1>11, <1>12, <1>13, <1>14

-----------------------------------------------------------------------------
(* The inductive invariant.                                                *)

(* The list is that of some options, in the order of the ranks.            *)
Wired == Ascends(workers, 1, 7) /\ "rollups_http" \in ToSet(workers)

(* The loop launches the worker it has reached and waits for it, and no    *)
(* worker before.                                                          *)
Launched ==
  /\ \A w \in Kinds : phase[w] # "off" => w \in ToSet(workers)
  /\ \A k \in 1..Len(workers) :
       k > next \/ (k = next /\ at = "start") => phase[workers[k]] = "off"
  /\ at = "await" => next <= Len(workers)

(* The workers that the loop has passed were heard.                        *)
PassedWereHeard ==
  \A k \in 1..Len(workers) :
    k < next => phase[workers[k]] \in {"connecting", "subscribing", "running", "exited"}

(* Nobody ends without cancelling the context, and the loop is left before *)
(* its end only when it is cancelled.                                      *)
EndsCancel ==
  /\ \A w \in Kinds : phase[w] = "exited" => cancelled
  /\ at \in {"announce", "serve"} \/ announced => cancelled \/ next > Len(workers)

IInv == TypeOK /\ Wired /\ Launched /\ PassedWereHeard /\ EndsCancel

(* No worker is twice in the list.                                         *)
LEMMA WorkersAreDistinct ==
  ASSUME Wired, NEW j \in 1..Len(workers), NEW k \in 1..Len(workers),
         workers[j] = workers[k]
  PROVE  j = k
<1>1. workers[j] \in Kinds
  BY DEF Wired, Ascends
<1>2. Rank[workers[j]] \in Int
  BY <1>1, Ranks
<1>3. QED
  BY <1>2 DEF Wired, Ascends

(* The first state.                                                        *)
LEMMA InitHolds == Init => IInv
<1> SUFFICES ASSUME Init PROVE IInv
  OBVIOUS
<1>1. Wired
  BY WiringAscends DEF Init, Wired
<1>2. TypeOK
  <2>1. workers \in Seq(Kinds) /\ Len(workers) \in Nat
    BY <1>1 DEF Wired, Ascends
  <2>2. next \in 1..Len(workers) + 1
    BY <2>1 DEF Init
  <2>3. phase \in [Kinds -> Phases]
    BY DEF Init, Phases
  <2>4. \A k \in DOMAIN workers : phase[workers[k]] = "off"
    BY <2>1 DEF Init
  <2>5. QED
    BY <2>1, <2>2, <2>3, <2>4 DEF Init, TypeOK, Places
<1>3. Launched /\ PassedWereHeard /\ EndsCancel
  BY <1>1, <1>2 DEF Init, Launched, PassedWereHeard, EndsCancel, TypeOK, Wired, Ascends
<1>4. QED
  BY <1>1, <1>2, <1>3 DEF IInv

(* A worker that was launched goes on: it does not go back before being    *)
(* heard, and it ends with the context.                                    *)
LEMMA WorkerMoves ==
  ASSUME IInv,
         NEW w \in Kinds, phase[w] # "off",
         NEW p \in Phases \ {"off"}, Enter(w, p),
         phase[w] \in {"connecting", "subscribing", "running", "exited"} =>
           p \in {"connecting", "subscribing", "running", "exited"},
         cancelled' \in BOOLEAN, cancelled => cancelled', p = "exited" => cancelled',
         UNCHANGED <<workers, at, next, announced>>
  PROVE  IInv'
<1>1. \A v \in Kinds : phase'[v] = IF v = w THEN p ELSE phase[v]
  BY DEF Enter, IInv, TypeOK
<1>2. TypeOK'
  <2>1. phase' \in [Kinds -> Phases]
    BY DEF Enter, IInv, TypeOK
  <2>2. \A k \in DOMAIN workers : k > next => phase'[workers[k]] = "off"
    BY <1>1 DEF IInv, TypeOK
  <2>3. QED
    BY <2>1, <2>2 DEF IInv, TypeOK
<1>3. Wired'
  BY DEF IInv, Wired
<1>4. \A k \in 1..Len(workers) : workers[k] \in Kinds
  BY DEF IInv, TypeOK
<1>5. Launched'
  BY <1>1, <1>4 DEF IInv, Launched
<1>6. PassedWereHeard'
  BY <1>1, <1>4 DEF IInv, PassedWereHeard
<1>7. EndsCancel'
  BY <1>1 DEF IInv, EndsCancel
<1>8. QED
  BY <1>2, <1>3, <1>5, <1>6, <1>7 DEF IInv

(* Steps that move no worker: the loop stays, or is left for good.         *)
LEMMA LoopMoves ==
  ASSUME IInv,
         UNCHANGED <<workers, next, phase>>,
         at' \in Places, at' = at \/ at' \notin {"start", "await"},
         cancelled' \in BOOLEAN, cancelled => cancelled', announced' \in BOOLEAN,
         at' \in {"announce", "serve"} \/ announced' => cancelled' \/ next > Len(workers)
  PROVE  IInv'
<1>1. TypeOK' /\ Wired' /\ Launched' /\ PassedWereHeard'
  BY DEF IInv, TypeOK, Wired, Launched, PassedWereHeard
<1>2. EndsCancel'
  BY DEF IInv, EndsCancel
<1>3. QED
  BY <1>1, <1>2 DEF IInv

-----------------------------------------------------------------------------
(* The supervisor's steps.                                                 *)

(* The supervisor launches the next worker of the list, its needs ready.    *)
LEMMA StartWorkerKeeps == IInv /\ StartWorker => IInv'
<1> SUFFICES ASSUME IInv, StartWorker PROVE IInv'
  OBVIOUS
<1>1. CASE next > Len(workers)
  <2>1. at' = "announce" /\ UNCHANGED <<workers, next, phase, cancelled, announced>>
    BY <1>1 DEF StartWorker, IInv, TypeOK
  <2>2. QED
    BY <1>1, <2>1, LoopMoves DEF Places, IInv, TypeOK
<1>2. CASE next <= Len(workers)
  <2>1. /\ next \in 1..Len(workers)
        /\ workers[next] \in Kinds /\ workers[next] \in ToSet(workers)
        /\ \A k \in 1..Len(workers) : workers[k] \in Kinds
    BY <1>2 DEF IInv, TypeOK, ToSet
  <2>2. /\ at = "start" /\ at' = "await"
        /\ UNCHANGED <<workers, next, cancelled, announced>>
        /\ phase' \in [Kinds -> Phases]
        /\ \A v \in Kinds :
             phase'[v] = IF v = workers[next] THEN "starting" ELSE phase[v]
    BY <1>2, <2>1 DEF StartWorker, Enter, IInv, TypeOK, Phases
  <2>3. \A k \in 1..Len(workers) :
          phase'[workers[k]] = IF k = next THEN "starting" ELSE phase[workers[k]]
    BY <2>1, <2>2, WorkersAreDistinct DEF IInv
  <2>4. TypeOK'
    BY <2>1, <2>2, <2>3 DEF IInv, TypeOK, Places
  <2>5. Wired' /\ Launched'
    BY <1>2, <2>1, <2>2, <2>3 DEF IInv, TypeOK, Wired, Launched
  <2>6. PassedWereHeard' /\ EndsCancel'
    BY <2>1, <2>2, <2>3 DEF IInv, TypeOK, PassedWereHeard, EndsCancel
  <2>7. QED
    BY <2>4, <2>5, <2>6 DEF IInv
<1>3. QED
  BY <1>1, <1>2 DEF IInv, TypeOK

(* A worker that says it is ready is heard only by the loop that waits.    *)
LEMMA WorkerReadyKeeps == IInv /\ WorkerReady => IInv'
<1> SUFFICES ASSUME IInv, WorkerReady PROVE IInv'
  OBVIOUS
<1> DEFINE p == IF workers[next] \in {"inputter", "avail", "claimer"}
                THEN "connecting" ELSE "running"
<1>1. /\ next \in 1..Len(workers)
      /\ \A k \in 1..Len(workers) : workers[k] \in Kinds
  BY DEF WorkerReady, IInv, TypeOK, Launched
<1>2. p \in {"connecting", "subscribing", "running"}
  OBVIOUS
<1>3. /\ at = "await" /\ at' = "start" /\ next' = next + 1
      /\ UNCHANGED <<workers, cancelled, announced>>
      /\ phase' = [phase EXCEPT ![workers[next]] = p]
      /\ phase[workers[next]] = "offering"
  BY DEF WorkerReady, Enter
<1> HIDE DEF p
<1>4. /\ phase' \in [Kinds -> Phases]
      /\ \A v \in Kinds : phase'[v] = IF v = workers[next] THEN p ELSE phase[v]
  BY <1>1, <1>2, <1>3 DEF IInv, TypeOK, Phases
<1>5. \A k \in 1..Len(workers) :
        phase'[workers[k]] = IF k = next THEN p ELSE phase[workers[k]]
  BY <1>1, <1>4, WorkersAreDistinct DEF IInv
<1>6. TypeOK'
  BY <1>1, <1>3, <1>4, <1>5 DEF IInv, TypeOK, Places
<1>7. Wired' /\ Launched'
  BY <1>1, <1>3, <1>4, <1>5 DEF IInv, TypeOK, Wired, Launched
<1>8. PassedWereHeard'
  BY <1>1, <1>2, <1>3, <1>5 DEF IInv, TypeOK, PassedWereHeard
<1>9. EndsCancel'
  BY <1>1, <1>2, <1>3, <1>4 DEF IInv, TypeOK, EndsCancel
<1>10. QED
  BY <1>6, <1>7, <1>8, <1>9 DEF IInv

(* The steps of the supervisor keep the invariant.                         *)
LEMMA SupervisorKeeps ==
  IInv /\ (SupervisorStep \/ WorkerTimesOut \/ StopTimesOut \/ Interrupt \/ Abort) => IInv'
<1> SUFFICES ASSUME IInv,
                    SupervisorStep \/ WorkerTimesOut \/ StopTimesOut \/ Interrupt \/ Abort
             PROVE  IInv'
  OBVIOUS
<1> USE DEF Places
<1>1. at \in Places /\ cancelled \in BOOLEAN /\ announced \in BOOLEAN
  BY DEF IInv, TypeOK
<1>2. CASE StartWorker
  BY <1>2, StartWorkerKeeps
<1>3. CASE WorkerReady
  BY <1>3, WorkerReadyKeeps
<1>4. CASE StartCancelled
  BY <1>1, <1>4, LoopMoves DEF StartCancelled
<1>5. CASE Announce
  BY <1>1, <1>5, LoopMoves DEF Announce, IInv, EndsCancel
<1>6. CASE ContextDone
  BY <1>1, <1>6, LoopMoves DEF ContextDone
<1>7. CASE AllExited
  BY <1>1, <1>7, LoopMoves DEF AllExited, IInv, EndsCancel
<1>8. CASE WorkerTimesOut
  BY <1>1, <1>8, LoopMoves DEF WorkerTimesOut
<1>9. CASE StopTimesOut
  BY <1>1, <1>9, LoopMoves DEF StopTimesOut, IInv, EndsCancel
<1>10. CASE Interrupt
  BY <1>1, <1>10, LoopMoves DEF Interrupt
<1>11. CASE Abort
  BY <1>1, <1>11, LoopMoves DEF Abort, IInv, EndsCancel
<1>12. QED
  BY <1>2, <1>3, <1>4, <1>5, <1>6, <1>7, <1>8, <1>9, <1>10, <1>11 DEF SupervisorStep

-----------------------------------------------------------------------------
(* The workers' steps.                                                     *)

(* The steps of a worker keep it: one that ends cancels the group.         *)
LEMMA WorkerKeeps ==
  ASSUME IInv, NEW w \in Kinds,
         WorkerStep(w) \/ LosesConnection(w) \/ Ends(w)
  PROVE  IInv'
<1> USE DEF Phases
<1>1. cancelled \in BOOLEAN
  BY DEF IInv, TypeOK
<1>2. CASE Prepared(w)
  BY <1>1, <1>2, WorkerMoves DEF Prepared
<1>3. CASE FailsToStart(w)
  BY <1>1, <1>3, WorkerMoves DEF FailsToStart, Exit
<1>4. CASE w = "claimer" /\ DeploymentHangs
  BY <1>1, <1>4, WorkerMoves DEF DeploymentHangs
<1>5. CASE w = "anvil" /\ CommandReady
  BY <1>1, <1>5, WorkerMoves DEF CommandReady
<1>6. CASE w = "anvil" /\ PollerLeaves
  BY <1>1, <1>6, WorkerMoves DEF PollerLeaves
<1>7. CASE w = "anvil" /\ PortAnswers
  BY <1>1, <1>7, WorkerMoves DEF PortAnswers
<1>8. CASE Connect(w)
  BY <1>1, <1>8, WorkerMoves DEF Connect
<1>9. CASE LosesConnection(w)
  BY <1>1, <1>9, WorkerMoves DEF LosesConnection
<1>10. CASE Ends(w)
  BY <1>1, <1>10, WorkerMoves DEF Ends, Exit
<1>11. CASE Abort
  BY <1>11, SupervisorKeeps
<1>12. QED
  BY <1>2, <1>3, <1>4, <1>5, <1>6, <1>7, <1>8, <1>9, <1>10, <1>11 DEF WorkerStep, Stops

(* So does every step.                                                     *)
LEMMA NextHolds == IInv /\ [Next]_vars => IInv'
<1> SUFFICES ASSUME IInv, [Next]_vars PROVE IInv'
  OBVIOUS
<1>1. CASE UNCHANGED vars
  BY <1>1, LoopMoves DEF vars, IInv, TypeOK, EndsCancel
<1>2. CASE SupervisorStep \/ WorkerTimesOut \/ StopTimesOut \/ Interrupt \/ Abort
  BY <1>2, SupervisorKeeps
<1>3. CASE \E w \in Kinds : WorkerStep(w) \/ LosesConnection(w) \/ Ends(w)
  BY <1>3, WorkerKeeps
<1>4. QED
  BY <1>1, <1>2, <1>3 DEF Next

-----------------------------------------------------------------------------
(* The theorems.                                                           *)

(* The inductive invariant is one.                                         *)
LEMMA InvariantHolds == Spec => []IInv
<1>1. QED
  BY InitHolds, NextHolds, PTL DEF Spec

(* For every choice of the options: the list of the workers never changes  *)
(* its type, and the loop of SupervisorWorker.Start has launched just the  *)
(* workers up to the one it has reached.                                   *)
THEOREM SupervisorTypeCorrect == Spec => []TypeOK
<1>1. IInv => TypeOK
  BY DEF IInv
<1>2. QED
  BY <1>1, InvariantHolds, PTL

(* What a worker calls comes before it in the list.                        *)
LEMMA NeedsComeFirst ==
  ASSUME Wired, NEW k \in 1..Len(workers), NEW d \in Needs(workers[k])
  PROVE  \E j \in 1..Len(workers) : j < k /\ workers[j] = d
<1>1. workers[k] \in Kinds /\ workers \in Seq(Kinds)
  BY DEF Wired, Ascends
<1>2. d \in ToSet(workers) /\ Rank[d] < Rank[workers[k]] /\ d \in Kinds
  <2>1. CASE workers[k] \in {"app", "echo"}
    BY <2>1, Ranks DEF Needs, Wired, Kinds
  <2>2. CASE workers[k] \in {"inputter", "espresso", "avail", "claimer"}
    BY <2>2, Ranks DEF Needs, Wired, Kinds
  <2>3. CASE workers[k] \notin {"app", "echo", "inputter", "espresso", "avail", "claimer"}
    BY <2>3 DEF Needs
  <2>4. QED
    BY <2>1, <2>2, <2>3
<1>3. PICK j \in 1..Len(workers) : workers[j] = d
  BY <1>1, <1>2 DEF ToSet
<1>4. ~(k < j) /\ j # k
  BY <1>1, <1>2, <1>3, Ranks, SMTT(20) DEF Wired, Ascends
<1>5. QED
  BY <1>3, <1>4

(* For every choice of the options: in NewSupervisor's order a worker runs *)
(* only while the ones it calls have been heard and have not ended, or     *)
(* everything is being stopped.                                            *)
THEOREM NeedsAreMet == Spec => []NeedsMet
<1>1. ASSUME IInv, NEW w \in Kinds, Alive(w), ~cancelled, NEW d \in Needs(w)
      PROVE  Heard(d)
  <2>1. PICK k \in 1..Len(workers) : workers[k] = w
    BY <1>1 DEF IInv, Launched, Alive, ToSet, TypeOK
  <2>2. PICK j \in 1..Len(workers) : j < k /\ workers[j] = d
    BY <1>1, <2>1, NeedsComeFirst DEF IInv
  <2>3. k <= next
    BY <1>1, <2>1 DEF IInv, Launched, Alive, TypeOK
  <2>4. phase[d] \in {"connecting", "subscribing", "running", "exited"}
    BY <1>1, <2>2, <2>3 DEF IInv, PassedWereHeard, TypeOK
  <2>5. d \in Kinds
    BY <1>1, <2>2 DEF IInv, TypeOK
  <2>6. QED
    BY <1>1, <2>4, <2>5 DEF IInv, EndsCancel, Heard
<1>2. IInv => NeedsMet
  BY <1>1 DEF NeedsMet
<1>3. QED
  BY <1>2, InvariantHolds, PTL

(* For every choice of the options: once nonodo has been reported as ready *)
(* and is not being stopped, each of its workers has been heard and none   *)
(* has ended, whatever timed out or failed on the way.                     *)
THEOREM ReadyIsReady == Spec => []ReadyMeansReady
<1>1. ASSUME IInv, announced, ~cancelled, NEW w \in ToSet(workers)
      PROVE  Heard(w)
  <2>1. PICK k \in 1..Len(workers) : workers[k] = w
    BY <1>1 DEF ToSet, IInv, TypeOK
  <2>2. k < next
    BY <1>1 DEF IInv, EndsCancel, TypeOK
  <2>3. phase[w] \in {"connecting", "subscribing", "running", "exited"} /\ w \in Kinds
    BY <1>1, <2>1, <2>2 DEF IInv, PassedWereHeard, TypeOK
  <2>4. QED
    BY <1>1, <2>3 DEF IInv, EndsCancel, Heard
<1>2. IInv => ReadyMeansReady
  BY <1>1 DEF ReadyMeansReady
<1>3. QED
  BY <1>2, InvariantHolds, PTL
=============================================================================
