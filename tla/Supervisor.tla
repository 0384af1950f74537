----------------------------- MODULE Supervisor -----------------------------
(***************************************************************************)
(* The supervisor and the workers that nonodo gives it.                    *)
(*                                                                         *)
(* Each worker runs in its own goroutine, tells on an unbuffered channel   *)
(* that it is ready, and cancels the common context when it ends.  The     *)
(* supervisor starts the workers one after the other, waits for the        *)
(* context, then for the workers.  Workers differ in what they do before   *)
(* they are ready and in whether they listen to the context while they     *)
(* wait; the actions keep those differences and nothing else of them.      *)
(*                                                                         *)
(* Time is abstract: a timeout may pass whenever its select waits.         *)
(***************************************************************************)
EXTENDS Naturals, Sequences, SequencesExt

VARIABLES
  workers,     (* SupervisorWorker.Workers, chosen by the options          *)
  at,          (* where SupervisorWorker.Start stands                      *)
  next,        (* the worker its loop has reached                          *)
  phase,       (* the phase of each worker's goroutine                     *)
  cancelled,   (* the context has been cancelled                           *)
  announced    (* nonodo has been reported as ready                        *)

vars == <<workers, at, next, phase, cancelled, announced>>

Kinds == {"anvil", "inputter", "espresso", "avail", "rollups_http", "http",
          "app", "echo", "salsa", "claimer"}
Places == {"start", "await", "announce", "serve", "stop", "clean", "timeout",
           "aborted"}
Phases == {"off", "starting", "polling", "offering", "connecting",
           "subscribing", "running", "stuck", "exited"}
Ended  == {"clean", "timeout", "aborted"}

-----------------------------------------------------------------------------
(* The wiring: which workers, in which order.                              *)

Options == [devnet: BOOLEAN,
            sequencer: {"none", "inputter", "espresso", "avail"},
            app: {"none", "app", "echo"},
            salsa: BOOLEAN,
            claims: BOOLEAN]

When(condition, worker) == IF condition THEN <<worker>> ELSE <<>>

WorkersOf_AppFirst(o) ==
  When(o.devnet, "anvil") \o When(o.sequencer # "none", o.sequencer)
    \o When(o.app # "none", o.app) \o <<"rollups_http", "http">>
    \o When(o.salsa, "salsa") \o When(o.claims, "claimer")

WorkersOf(o) ==
  When(o.devnet, "anvil") \o When(o.sequencer # "none", o.sequencer)
    \o <<"rollups_http", "http">> \o When(o.app # "none", o.app)
    \o When(o.salsa, "salsa") \o When(o.claims, "claimer")

Init ==
  /\ workers \in {WorkersOf(o) : o \in Options}
  /\ at = "start"
  /\ next = 1
  /\ phase = [w \in Kinds |-> "off"]
  /\ cancelled = FALSE
  /\ announced = FALSE

Enter(w, p) == phase' = [phase EXCEPT ![w] = p]

-----------------------------------------------------------------------------
(* The supervisor.                                                         *)

StartWorker_AllAtOnce ==
  /\ at = "start"
  /\ IF next <= Len(workers)
     THEN /\ at' = "await"
          /\ phase' = [w \in Kinds |-> IF w \in ToSet(workers) /\ phase[w] = "off"
                                       THEN "starting" ELSE phase[w]]
     ELSE at' = "announce" /\ UNCHANGED phase
  /\ UNCHANGED <<workers, next, cancelled, announced>>

StartWorker ==
  /\ at = "start"
  /\ IF next <= Len(workers)
     THEN at' = "await" /\ Enter(workers[next], "starting")
     ELSE at' = "announce" /\ UNCHANGED phase
  /\ UNCHANGED <<workers, next, cancelled, announced>>

(* What a worker does after it was heard: some connect to a chain first.   *)
WorkerReady ==
  /\ at = "await"
  /\ phase[workers[next]] = "offering"
  /\ Enter(workers[next],
           IF workers[next] \in {"inputter", "avail", "claimer"}
           THEN "connecting" ELSE "running")
  /\ next' = next + 1
  /\ at' = "start"
  /\ UNCHANGED <<workers, cancelled, announced>>

WorkerTimesOut_NoCancel ==
  /\ at = "await"
  /\ at' = "announce"
  /\ UNCHANGED <<workers, next, phase, cancelled, announced>>

WorkerTimesOut ==
  /\ at = "await"
  /\ cancelled' = TRUE
  /\ at' = "announce"
  /\ UNCHANGED <<workers, next, phase, announced>>

StartCancelled ==
  /\ at = "await"
  /\ cancelled
  /\ at' = "announce"
  /\ UNCHANGED <<workers, next, phase, cancelled, announced>>

(* The channel of main.go has room for one message.                        *)
Announce ==
  /\ at = "announce"
  /\ announced' = TRUE
  /\ at' = "serve"
  /\ UNCHANGED <<workers, next, phase, cancelled>>

ContextDone ==
  /\ at = "serve"
  /\ cancelled
  /\ at' = "stop"
  /\ UNCHANGED <<workers, next, phase, cancelled, announced>>

AllExited ==
  /\ at = "stop"
  /\ \A w \in Kinds : phase[w] \in {"off", "exited"}
  /\ at' = "clean"
  /\ UNCHANGED <<workers, next, phase, cancelled, announced>>

StopTimesOut ==
  /\ at = "stop"
  /\ at' = "timeout"
  /\ UNCHANGED <<workers, next, phase, cancelled, announced>>

(* SIGINT or SIGTERM.                                                      *)
Interrupt ==
  /\ at \notin Ended
  /\ ~cancelled
  /\ cancelled' = TRUE
  /\ UNCHANGED <<workers, at, next, phase, announced>>

-----------------------------------------------------------------------------
(* A worker's way to `ready <-`.                                           *)

ChainIsDown == phase["anvil"] = "exited"

(* Listening, dialing, downloading or deploying has succeeded; the others  *)
(* have nothing to do before.                                              *)
Prepared(w) ==
  /\ phase[w] = "starting"
  /\ w # "anvil"
  /\ w = "claimer" => ~ChainIsDown
  /\ Enter(w, "offering")
  /\ UNCHANGED <<workers, at, next, cancelled, announced>>

Exit_NoCancel(w) ==
  /\ Enter(w, "exited")
  /\ UNCHANGED <<workers, at, next, cancelled, announced>>

Exit(w) ==
  /\ Enter(w, "exited")
  /\ cancelled' = TRUE
  /\ UNCHANGED <<workers, at, next, announced>>

FailsToStart(w) ==
  /\ phase[w] = "starting"
  /\ w \in {"anvil", "inputter", "rollups_http", "http", "salsa", "claimer"}
  /\ Exit(w)

(* The claimer waits for its transactions without looking at the context,  *)
(* and asks for receipts for ever when nobody answers.                     *)
DeploymentHangs ==
  /\ phase["claimer"] = "starting"
  /\ ChainIsDown
  /\ Enter("claimer", "stuck")
  /\ UNCHANGED <<workers, at, next, cancelled, announced>>

(* Anvil is a command and a goroutine that polls its port: the command     *)
(* tells the goroutine that it runs, the goroutine tells the supervisor.   *)
CommandReady ==
  /\ phase["anvil"] = "starting"
  /\ Enter("anvil", "polling")
  /\ UNCHANGED <<workers, at, next, cancelled, announced>>

PollerLeaves ==
  /\ phase["anvil"] = "starting"
  /\ cancelled
  /\ Enter("anvil", "stuck")
  /\ UNCHANGED <<workers, at, next, cancelled, announced>>

PortAnswers ==
  /\ phase["anvil"] = "polling"
  /\ Enter("anvil", "offering")
  /\ UNCHANGED <<workers, at, next, cancelled, announced>>

-----------------------------------------------------------------------------
(* A worker after it was heard.                                            *)

(* On a cancelled context the inputter and the claimer cannot subscribe;   *)
(* Avail's client knows no context, and subscribes in a loop of its own.   *)
Connect(w) ==
  /\ \/ phase[w] = "connecting" /\ w # "avail" /\ ~cancelled /\ Enter(w, "running")
     \/ phase[w] = "connecting" /\ w = "avail" /\ Enter(w, "subscribing")
     \/ phase[w] = "subscribing" /\ Enter(w, "running")
  /\ UNCHANGED <<workers, at, next, cancelled, announced>>

LosesConnection(w) ==
  /\ phase[w] = "running"
  /\ w \in {"inputter", "avail"}
  /\ ~cancelled
  /\ Enter(w, IF w = "avail" THEN "subscribing" ELSE "connecting")
  /\ UNCHANGED <<workers, at, next, cancelled, announced>>

(* An error, or a process that ends.  Anvil's command runs before it was   *)
(* heard; Avail gives up on its first connection when it is cancelled, but *)
(* its subscribing loop does not look at the context.                      *)
Ends(w) ==
  /\ \/ phase[w] = "running"
     \/ w = "anvil" /\ phase[w] \in {"polling", "offering"}
     \/ w = "avail" /\ phase[w] = "connecting"
  /\ Exit(w)

(* The workers that listen to the context, or die of SIGTERM.  The user's  *)
(* application may ignore the signal, and salsa gets none.                 *)
Listeners_NoShutdown == Kinds \ {"app", "salsa", "http", "rollups_http"}

Listeners == Kinds \ {"app", "salsa"}

Stops(w) == cancelled /\ w \in Listeners /\ Ends(w)

(* os.Exit when an Espresso header cannot be read, log.Fatalf when the     *)
(* claimer cannot subscribe: the process ends as it is.                    *)
Abort ==
  /\ \/ phase["espresso"] = "running"
     \/ phase["claimer"] = "connecting"
  /\ at' = "aborted"
  /\ UNCHANGED <<workers, next, phase, cancelled, announced>>

-----------------------------------------------------------------------------
SupervisorStep ==
  \/ StartWorker
  \/ WorkerReady
  \/ StartCancelled
  \/ Announce
  \/ ContextDone
  \/ AllExited

WorkerStep(w) ==
  /\ at \notin Ended
  /\ \/ Prepared(w)
     \/ FailsToStart(w)
     \/ w = "claimer" /\ DeploymentHangs
     \/ w = "anvil" /\ (CommandReady \/ PollerLeaves \/ PortAnswers)
     \/ Connect(w)
     \/ Stops(w)
     \/ w = "claimer" /\ cancelled /\ Abort

Next ==
  \/ SupervisorStep
  \/ WorkerTimesOut
  \/ StopTimesOut
  \/ Interrupt
  \/ \E w \in Kinds : WorkerStep(w)
  \/ /\ at \notin Ended
     /\ \/ \E w \in Kinds : LosesConnection(w) \/ Ends(w)
        \/ Abort

(* Goroutines run on, and calls to others come back in the end.  No        *)
(* timeout, signal, lost connection or exit is owed.                       *)
Fairness ==
  /\ WF_vars(SupervisorStep)
  /\ \A w \in Kinds : WF_vars(WorkerStep(w))

Spec == Init /\ [][Next]_vars /\ Fairness

-----------------------------------------------------------------------------
(* Properties.                                                             *)

Alive(w) == phase[w] \notin {"off", "exited"}
Heard(w) == phase[w] \in {"connecting", "subscribing", "running"}

(* Every variable has its type, and the loop has launched just the workers *)
(* up to the one it has reached.                                           *)
TypeOK ==
  /\ workers \in Seq(Kinds)
  /\ at \in Places
  /\ next \in 1..Len(workers) + 1
  /\ phase \in [Kinds -> Phases]
  /\ cancelled \in BOOLEAN
  /\ announced \in BOOLEAN
  /\ \A k \in DOMAIN workers : k > next => phase[workers[k]] = "off"

(* What a worker calls from its first step on: the application the rollup  *)
(* API, and whatever reads the local chain Anvil, if nonodo runs it.       *)
Needs(w) ==
  CASE w \in {"app", "echo"} -> {"rollups_http"}
    [] w \in {"inputter", "espresso", "avail", "claimer"} ->
         {"anvil"} \cap ToSet(workers)
    [] OTHER -> {}

(* A worker is alive only while all it calls is up and has been heard, or  *)
(* everything is being stopped: through every timeout, failure and exit.   *)
NeedsMet ==
  \A w \in Kinds : Alive(w) /\ ~cancelled => \A d \in Needs(w) : Heard(d)

(* nonodo is reported as ready when each of its workers has been heard, or *)
(* when it is about to stop.                                               *)
ReadyMeansReady ==
  announced /\ ~cancelled => \A w \in ToSet(workers) : Heard(w)

(* "When a worker exits, send a cancel signal to all of them and wait for  *)
(* them to finish" (supervisor.go:20): an exit or a signal, during the     *)
(* start too, ends the process, given that the last timeout runs.          *)
EndsInTime ==
  WF_vars(StopTimesOut) =>
    ((cancelled \/ \E w \in Kinds : phase[w] = "exited") ~> at \in Ended)

(* The workers that a cancelled context does not reach: those that offer   *)
(* to be ready when nobody listens, Anvil's command without its poller,    *)
(* the claimer waiting for a dead chain, a listener in its reconnection    *)
(* loop, and the processes that are not told or do not care.               *)
Blocked(w) ==
  \/ phase[w] = "offering" /\ w # "anvil" /\ at \notin {"start", "await"}
  \/ phase[w] \in {"stuck", "connecting", "subscribing"}
  \/ phase[w] = "running" /\ w \in {"app", "salsa"}

(* Without the last timeout, too, a cancelled nonodo comes to its end,     *)
(* unless one of those is alive and stays so: a worker that exits, fails   *)
(* or is interrupted at any moment of the start leaves nobody else behind. *)
HangsOnlyIfBlocked ==
  cancelled ~> [](at \in Ended \/ \E w \in Kinds : Blocked(w))
=============================================================================
