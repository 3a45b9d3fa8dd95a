---------------------------- MODULE ProcessEdge ----------------------------
(***************************************************************************)
(* One accepted invocation at the process edge: `run' of cmd/.../main.go   *)
(* with the signal goroutine beside it, the sink and encoder it sets up,   *)
(* the Pipeline it drives, the deferred cleanups and the exit code.        *)
(*                                                                         *)
(* Signals before signal.Notify and after signal.Stop have the default     *)
(* disposition (they kill the process) and are not modelled.               *)
(***************************************************************************)
EXTENDS Pipeline, Sequences

VARIABLES
  registers,    \* NewEncoder contacts the schema registry (AVRO produce)
  phase,        \* where run is
  setupError,   \* what setup failed of: nothing, its peer, or ctx being done
  client,       \* the Kafka client: none, open or closed
  owned,        \* run holds the sink, its Close deferred
  reached,      \* history: the broker has answered the ping
  registered,   \* history: the registry has been contacted
  signalled,    \* a signal is in sigCh, or was
  interrupted,  \* the atomic flag of that name
  announced,    \* history: "Interrupted, shutting down..." is logged
  watcher,      \* where the signal goroutine is: 0 in its select
  code          \* -1 until the exit code is chosen

setupVars  == <<registers, setupError, client, owned, reached, registered>>
signalVars == <<signalled, interrupted, announced, watcher>>
edgeVars   == <<setupVars, signalVars, phase, code>>
allVars    == <<vars, edgeVars>>

Phases == {"dial", "ping", "encoder", "run", "judge", "failed", "close",
           "cancel", "returned", "exited"}

EdgeInit ==
  /\ Init
  /\ registers \in {b \in BOOLEAN : b => config.kafka}
  /\ phase = "dial"
  /\ setupError = "none"
  /\ client = "none"
  /\ owned = FALSE /\ reached = FALSE /\ registered = FALSE
  /\ signalled = FALSE /\ interrupted = FALSE /\ announced = FALSE
  /\ watcher = 0
  /\ code = -1

-----------------------------------------------------------------------------
(* The main goroutine.                                                     *)

(* A peer's failure can come at any time; ctx's only once it is done.      *)
SetupFails(why) ==
  /\ why = "ctx" => cancelled
  /\ setupError' = why
  /\ phase' = "failed"

(* NewSink: a dry run writes to stdout; otherwise a client is made.        *)
Dial ==
  /\ phase = "dial"
  /\ \/ ~config.kafka /\ phase' = "encoder" /\ owned' = TRUE
        /\ UNCHANGED <<client, setupError>>
     \/ config.kafka /\ phase' = "ping" /\ client' = "open"
        /\ UNCHANGED <<owned, setupError>>
     \/ config.kafka /\ SetupFails("peer") /\ UNCHANGED <<client, owned>>
  /\ UNCHANGED <<vars, signalVars, registers, reached, registered, code>>

(* NewSink pings the broker before it hands the sink over.  When the ping  *)
(* fails the client stays behind: run never sees it.                       *)
Ping ==
  /\ phase = "ping"
  /\ \/ phase' = "encoder" /\ owned' = TRUE /\ reached' = TRUE
        /\ UNCHANGED setupError
     \/ /\ \E why \in {"peer", "ctx"} : SetupFails(why)
        /\ UNCHANGED <<owned, reached>>
  /\ UNCHANGED <<vars, signalVars, registers, client, registered, code>>

(* NewEncoder: only AVRO produce contacts the registry, under ctx.         *)
BuildEncoder ==
  /\ phase = "encoder"
  /\ registered' = registers
  /\ \/ phase' = "run" /\ UNCHANGED setupError
     \/ registers /\ \E why \in {"peer", "ctx"} : SetupFails(why)
  /\ UNCHANGED <<vars, signalVars, registers, client, owned, reached, code>>

(* Run has returned; the Stats are printed.                                *)
Report ==
  /\ phase = "run" /\ pc = "done"
  /\ phase' = "judge"
  /\ UNCHANGED <<vars, setupVars, signalVars, code>>

RunCodeLenient ==
  IF interrupted THEN 130 ELSE IF ending = "error" THEN 1 ELSE 0

RunCodeErrorFirst ==
  IF ending = "error" \/ failed > 0 THEN 1
  ELSE IF interrupted THEN 130 ELSE 0

RunCode ==
  IF interrupted THEN 130
  ELSE IF ending = "error" \/ failed > 0 THEN 1 ELSE 0

FailureCode == IF interrupted THEN 130 ELSE 1

(* The flag is read, once, for the exit code.                              *)
Judge ==
  /\ phase = "judge"
  /\ code' = RunCode
  /\ phase' = "close"
  /\ UNCHANGED <<vars, setupVars, signalVars>>

JudgeSetup ==
  /\ phase = "failed"
  /\ code' = FailureCode
  /\ phase' = "close"
  /\ UNCHANGED <<vars, setupVars, signalVars>>

(* The deferred calls, last first: the sink is closed if run holds one,    *)
(* then signals are no longer caught and ctx is done.                      *)
CloseSink ==
  /\ phase = "close"
  /\ phase' = "cancel"
  /\ client' = IF owned /\ config.kafka THEN "closed" ELSE client
  /\ UNCHANGED <<vars, signalVars, registers, setupError, owned, reached,
                 registered, code>>

DeferredCancel ==
  /\ phase = "cancel"
  /\ phase' = "returned"
  /\ cancelled' = TRUE
  /\ UNCHANGED <<config, runVars, delivered, historyVars, setupVars,
                 signalVars, code>>

(* os.Exit takes whatever is left of the signal goroutine with it.         *)
ProcessExits ==
  /\ phase = "returned"
  /\ phase' = "exited"
  /\ UNCHANGED <<vars, setupVars, signalVars, code>>

MainStep ==
  \/ Dial \/ Ping \/ BuildEncoder \/ Report \/ Judge \/ JudgeSetup
  \/ CloseSink \/ DeferredCancel \/ ProcessExits
  \/ phase = "run" /\ LoopStep /\ UNCHANGED edgeVars

-----------------------------------------------------------------------------
(* The signal goroutine.                                                   *)

Signal ==
  /\ phase \notin {"cancel", "returned", "exited"}
  /\ ~signalled
  /\ signalled' = TRUE
  /\ UNCHANGED <<vars, setupVars, phase, code, interrupted, announced, watcher>>

(* Its statements once it has a signal, in order.                          *)
ShutdownCancelFirst == <<"cancel", "store", "warn">>
Shutdown            == <<"store", "warn", "cancel">>

(* The select takes the signal, or ends the goroutine when ctx is done.    *)
Select ==
  /\ watcher = 0
  /\ \/ signalled /\ watcher' = 1
     \/ cancelled /\ watcher' = Len(Shutdown) + 1
  /\ UNCHANGED <<vars, setupVars, phase, code, signalled, interrupted,
                 announced>>

ShutdownStep ==
  /\ watcher \in DOMAIN Shutdown
  /\ watcher' = watcher + 1
  /\ interrupted' = IF Shutdown[watcher] = "store" THEN TRUE ELSE interrupted
  /\ announced' = IF Shutdown[watcher] = "warn" THEN TRUE ELSE announced
  /\ cancelled' = IF Shutdown[watcher] = "cancel" THEN TRUE ELSE cancelled
  /\ UNCHANGED <<config, runVars, delivered, historyVars, setupVars, phase,
                 code, signalled>>

WatcherStep == phase # "exited" /\ (Select \/ ShutdownStep)

-----------------------------------------------------------------------------
EdgeDestination ==
  /\ UNCHANGED edgeVars
  /\ \/ \E r \in issued : Deliver(r)
     \/ phase = "run" /\ (SendSucceeds \/ SendFails \/ SendAborted)

Exited == phase = "exited" /\ UNCHANGED allVars

EdgeNext == MainStep \/ Signal \/ WatcherStep \/ EdgeDestination \/ Exited

EdgeSpec == EdgeInit /\ [][EdgeNext]_allVars

(* Both goroutines are scheduled; calls given ctx return once it is done,  *)
(* and a write to stdout returns.  The broker and the registry need not    *)
(* answer.                                                                 *)
SetupWaits == phase = "ping" \/ (phase = "encoder" /\ registers)

EdgeFairness ==
  /\ WF_allVars(MainStep /\ (SetupWaits => cancelled))
  /\ WF_allVars(WatcherStep)
  /\ WF_allVars(phase = "run" /\ SendAborted /\ UNCHANGED edgeVars)
  /\ WF_allVars(/\ phase = "run" /\ ~config.kafka
                /\ (SendSucceeds \/ SendFails) /\ UNCHANGED edgeVars)

FairEdgeSpec == EdgeSpec /\ EdgeFairness

-----------------------------------------------------------------------------
(* Types, the exit codes among them: 2, the misuse of a flag, is settled   *)
(* before a run is accepted.                                               *)
EdgeTypeOK ==
  /\ TypeOK
  /\ registers \in BOOLEAN /\ owned \in BOOLEAN /\ reached \in BOOLEAN
  /\ registered \in BOOLEAN /\ signalled \in BOOLEAN
  /\ interrupted \in BOOLEAN /\ announced \in BOOLEAN
  /\ phase \in Phases
  /\ setupError \in {"none", "peer", "ctx"}
  /\ client \in {"none", "open", "closed"}
  /\ watcher \in 0..(Len(Shutdown) + 1)
  /\ code \in {-1, 0, 1, 130}

Judged == code # -1

(* The run's work was cut short because ctx was done, in the loop or in    *)
(* setup.                                                                  *)
CutShort == ending = "cut" \/ setupError = "ctx"

(* A run the interrupt cut short exits 130: the flag the exit code is read *)
(* from is set before the context the work is cut by.                      *)
CutShortExits130 == CutShort /\ Judged => code = 130

(* The notice of an interrupt is out before the Stats, or the Error line,  *)
(* of the run it cut short.                                                *)
CutShortAnnounced == CutShort => announced

(* Exit 0 means everything: all of Count acked and at the destination,     *)
(* nothing failed, nothing else handed out.                                *)
SuccessIsComplete ==
  code = 0 =>
    /\ config.count > 0 /\ failed = 0 /\ acked = config.count
    /\ issued = 1..config.count /\ issued \subseteq delivered

(* A run that has not reached its broker registers nothing.                *)
BrokerBeforeRegistry == registered => reached

(* Every way out closes the sink run holds, and no record is handed to a   *)
(* closed client.                                                          *)
SinkClosed ==
  /\ phase = "exited" /\ owned /\ config.kafka => client = "closed"
  /\ client = "closed" => pc \in {"idle", "done"}

(* A signal ends the process whatever the broker or the registry do.       *)
InterruptExits == signalled ~> phase = "exited"

Outcome ==
  INSTANCE RunOutcome WITH count <- config.count,
                           tolerant <- config.continueOnError

(* The exit code and the Stats are what RunOutcome promises.               *)
KeepsOutcome == Outcome!Spec
=============================================================================
