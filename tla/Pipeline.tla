------------------------------ MODULE Pipeline ------------------------------
(***************************************************************************)
(* The record loop of internal/pipeline: generate a message, encode it,    *)
(* hand it to the Output sink, account for it, pause, until Count records  *)
(* are handled, the context is done, or a record fails.                    *)
(*                                                                         *)
(* A record is known by its number, the value of `total' once it is        *)
(* counted.  `issued', `delivered', `confirmed', `rested', `late' and      *)
(* `broken' are history: no action of the program reads them, except that  *)
(* the destination must hold a record before it can acknowledge it.        *)
(***************************************************************************)
EXTENDS Integers, FiniteSets

CONSTANTS
  Counts,        \* the values of -count a run may be given (<= 0: no limit)
  RecordBound    \* bound on the records one run generates

ASSUME CountsAssumption == Counts \subseteq Int
ASSUME BoundAssumption  == RecordBound \in Nat

VARIABLES
  config,     \* the run's Config and the kind of Output sink, fixed
  cancelled,  \* ctx.Done() is closed
  pc,         \* where Run is
  total, acked, failed,
  cause,      \* what the record in hand failed of
  ending,     \* how Run returned
  issued,     \* records handed to the sink
  delivered,  \* records the destination holds
  confirmed,  \* records counted as acked
  rested,     \* the pacing wait ran its full length since the last record
  late,       \* records generated although ctx was already done
  broken      \* a record has failed of a ConformanceError

runVars     == <<pc, total, acked, failed, cause, ending>>
historyVars == <<issued, confirmed, rested, late, broken>>
vars == <<config, cancelled, runVars, delivered, historyVars>>

Config == [count : Counts, continueOnError : BOOLEAN, paced : BOOLEAN,
           kafka : BOOLEAN]

(* "complete" and "cut" both return a nil error.                           *)
Endings == {"none", "complete", "cut", "error"}
Causes  == {"none", "encode", "conformance", "send"}
Points  == {"idle", "check", "generate", "encode", "send", "sending",
            "sendFailed", "account", "pace", "done"}

Init ==
  /\ config \in Config
  /\ cancelled = FALSE
  /\ pc = "idle"
  /\ total = 0 /\ acked = 0 /\ failed = 0
  /\ cause = "none"
  /\ ending = "none"
  /\ issued = {} /\ delivered = {} /\ confirmed = {}
  /\ rested = TRUE
  /\ late = 0
  /\ broken = FALSE

-----------------------------------------------------------------------------
Goto(from, to) == pc = from /\ pc' = to

Return(how) == pc' = "done" /\ ending' = how

CountReachedPast == config.count > 0 /\ total > config.count
CountReached     == config.count > 0 /\ total >= config.count

(* A failed record ends the run unless the run continues on errors; one    *)
(* that breaks Conformance ends it in any case.                            *)
EndsRunMisread == cause # "none" /\ ~config.continueOnError
EndsRun ==
  \/ cause # "none" /\ ~config.continueOnError
  \/ cause = "conformance"

(* The pacing wait separates every attempt, failed or not.                 *)
AfterRecord == IF config.paced THEN "pace" ELSE "check"

(* Run is called.                                                          *)
Start ==
  /\ Goto("idle", "check")
  /\ UNCHANGED <<config, cancelled, total, acked, failed, cause, ending,
                 delivered, historyVars>>

(* The top of the loop: enough records, or ctx is done, or go on.  Whether *)
(* ctx is done is read here and not again before the record is generated.  *)
Check ==
  /\ pc = "check"
  /\ \/ CountReached /\ Return("complete")
     \/ ~CountReached /\ cancelled /\ Return("cut")
     \/ ~CountReached /\ ~cancelled /\ pc' = "generate" /\ UNCHANGED ending
  /\ UNCHANGED <<config, cancelled, total, acked, failed, cause, delivered,
                 historyVars>>

(* The generator delivers a message, which is counted at once.             *)
Generate ==
  /\ Goto("generate", "encode")
  /\ total < RecordBound
  /\ total' = total + 1
  /\ rested' = FALSE
  /\ late' = IF cancelled THEN late + 1 ELSE late
  /\ UNCHANGED <<config, cancelled, acked, failed, cause, ending, issued,
                 delivered, confirmed, broken>>

(* The generator cannot honour its schema: always the end of the run, and  *)
(* the record is not counted.                                              *)
GenerateFails ==
  /\ pc = "generate"
  /\ Return("error")
  /\ UNCHANGED <<config, cancelled, total, acked, failed, cause, delivered,
                 historyVars>>

Encode ==
  /\ pc = "encode"
  /\ \/ pc' = "send" /\ UNCHANGED cause
     \/ pc' = "account" /\ cause' \in {"encode", "conformance"}
  /\ UNCHANGED <<config, cancelled, total, acked, failed, ending, delivered,
                 historyVars>>

(* sink.Send is called; from here on the destination may take the record.  *)
SendStart ==
  /\ Goto("send", "sending")
  /\ issued' = issued \cup {total}
  /\ UNCHANGED <<config, cancelled, total, acked, failed, cause, ending,
                 delivered, confirmed, rested, late, broken>>

(* The destination takes a record it was handed.  A broker may do so after *)
(* Send gave up on it; a writer only during the write.                     *)
Deliver(r) ==
  /\ r \in issued \ delivered
  /\ config.kafka \/ (pc = "sending" /\ r = total)
  /\ delivered' = delivered \cup {r}
  /\ UNCHANGED <<config, cancelled, runVars, historyVars>>

(* Send returns nil: the destination holds the record.                     *)
SendSucceeds ==
  /\ Goto("sending", "account")
  /\ total \in delivered
  /\ cause' = "none"
  /\ UNCHANGED <<config, cancelled, total, acked, failed, ending, delivered,
                 historyVars>>

(* Send returns an error of the destination's.                             *)
SendFails ==
  /\ Goto("sending", "sendFailed")
  /\ UNCHANGED <<config, cancelled, total, acked, failed, cause, ending,
                 delivered, historyVars>>

SendAbortedDeaf == FALSE /\ SendFails

(* ProduceSync gives up because ctx is done; the stdout sink ignores ctx.  *)
SendAborted ==
  /\ config.kafka /\ cancelled
  /\ SendFails

(* Send has failed, and only then is ctx read: when it is done the record  *)
(* is uncounted and the run over, whatever the error was.                  *)
JudgeSendErrorCounted ==
  /\ pc = "sendFailed"
  /\ IF cancelled
     THEN Return("cut") /\ UNCHANGED cause
     ELSE pc' = "account" /\ cause' = "send" /\ UNCHANGED ending
  /\ UNCHANGED <<config, cancelled, total, acked, failed, delivered,
                 historyVars>>

JudgeSendErrorUncounted ==
  /\ pc = "sendFailed"
  /\ total' = total - 1
  /\ Return("cut")
  /\ UNCHANGED <<config, cancelled, acked, failed, cause, delivered,
                 historyVars>>

JudgeSendErrorRetried ==
  /\ pc = "sendFailed"
  /\ IF cancelled
     THEN total' = total - 1 /\ Return("cut")
     ELSE pc' = "send" /\ UNCHANGED <<total, ending>>
  /\ UNCHANGED <<config, cancelled, acked, failed, cause, delivered,
                 historyVars>>

JudgeSendErrorSwallowed ==
  /\ pc = "sendFailed"
  /\ pc' = "account"
  /\ UNCHANGED <<config, cancelled, total, acked, failed, cause, ending,
                 delivered, historyVars>>

JudgeSendError ==
  /\ pc = "sendFailed"
  /\ IF cancelled
     THEN /\ total' = total - 1
          /\ Return("cut")
          /\ UNCHANGED cause
     ELSE /\ pc' = "account"
          /\ cause' = "send"
          /\ UNCHANGED <<total, ending>>
  /\ UNCHANGED <<config, cancelled, acked, failed, delivered, historyVars>>

(* The record is counted as failed or acked, and the run goes on or ends.  *)
Account ==
  /\ pc = "account"
  /\ IF cause # "none"
     THEN failed' = failed + 1 /\ UNCHANGED <<acked, confirmed>>
     ELSE /\ acked' = acked + 1
          /\ confirmed' = confirmed \cup {total}
          /\ UNCHANGED failed
  /\ IF EndsRun
     THEN Return("error")
     ELSE pc' = AfterRecord /\ UNCHANGED ending
  /\ cause' = "none"
  /\ broken' = (broken \/ cause = "conformance")
  /\ UNCHANGED <<config, cancelled, total, issued, delivered, rested, late>>

(* The pacing wait ends with its timer, or early when ctx is done.         *)
Pace ==
  /\ Goto("pace", "check")
  /\ \/ rested' = TRUE
     \/ cancelled /\ UNCHANGED rested
  /\ UNCHANGED <<config, cancelled, total, acked, failed, cause, ending,
                 issued, delivered, confirmed, late, broken>>

(* Somebody cancels the context.                                           *)
Cancel ==
  /\ ~cancelled
  /\ cancelled' = TRUE
  /\ UNCHANGED <<config, runVars, delivered, historyVars>>

(* Run has returned.                                                       *)
Finished == pc = "done" /\ UNCHANGED vars

-----------------------------------------------------------------------------
(* The loop's own steps, which nothing outside the process can hold up.    *)
LoopStep ==
  Start \/ Check \/ Generate \/ GenerateFails \/ Encode \/ SendStart
  \/ JudgeSendError \/ Account \/ Pace

Destination ==
  \/ \E r \in issued : Deliver(r)
  \/ SendSucceeds
  \/ SendFails
  \/ SendAborted

Next == LoopStep \/ Destination \/ Cancel \/ Finished

Spec == Init /\ [][Next]_vars

(* A write to stdout is assumed to return; a broker is not assumed to      *)
(* answer, but ProduceSync gives up once ctx is done.                      *)
Fairness ==
  /\ WF_vars(LoopStep)
  /\ WF_vars(SendAborted)
  /\ WF_vars(~config.kafka /\ (SendSucceeds \/ SendFails))

FairSpec == Spec /\ Fairness

(* As FairSpec, with a broker that answers every request.                  *)
AnsweredSpec == FairSpec /\ WF_vars(SendSucceeds \/ SendFails)
-----------------------------------------------------------------------------
(* Types; above all, uncounting a record never takes a total below zero.   *)
TypeOK ==
  /\ config \in Config
  /\ cancelled \in BOOLEAN /\ rested \in BOOLEAN
  /\ pc \in Points
  /\ total \in Nat /\ acked \in Nat /\ failed \in Nat
  /\ cause \in Causes
  /\ ending \in Endings
  /\ issued \subseteq Nat /\ delivered \subseteq Nat /\ confirmed \subseteq Nat
  /\ late \in Nat /\ broken \in BOOLEAN

(* A counted record whose outcome is not yet known.                        *)
InHand == pc \in {"encode", "send", "sending", "sendFailed", "account"}

(* The Stats balance whenever they may be reported: every counted record   *)
(* is acked or failed, but for the one in hand; a record cut by an         *)
(* interrupt in mid-send is in neither.                                    *)
StatsBalance == total = acked + failed + (IF InHand THEN 1 ELSE 0)

(* What the Stats call acked is delivered: each acked record is one the    *)
(* destination holds, and none is counted twice, whatever was retried past *)
(* or dropped before.                                                      *)
AckedDelivered ==
  /\ confirmed \subseteq delivered
  /\ acked = Cardinality(confirmed)

(* A record the destination may hold without being counted is the last one *)
(* of a cancelled run, and there is at most one.                           *)
OneUncounted ==
  \A r \in issued : r > total =>
    r = total + 1 /\ pc = "done" /\ cancelled

(* No record is attempted after a failed one unless the run was told to    *)
(* continue, and none ever after a ConformanceError.                       *)
StopsAtFailure ==
  [][total' > total => (failed > 0 => config.continueOnError) /\ ~broken]_vars

(* A finite run hands out no more than Count records, and one that returns *)
(* without an error and was not cancelled has attempted exactly Count.     *)
CountHonoured ==
  /\ config.count > 0 =>
       total <= config.count /\ Cardinality(issued) <= config.count
  /\ ending \in {"complete", "cut"} /\ ~cancelled =>
       config.count > 0 /\ total = config.count

(* With a rate limit no two records are attempted without the full wait    *)
(* between them, whether or not the first one failed.                      *)
AttemptsSpaced == pc = "generate" /\ config.paced => rested

(* A cancelled context lets at most the record already begun go out.       *)
CancelStopsNext == late <= 1

(* A finite run returns when its broker answers.                           *)
FiniteReturns == config.count > 0 ~> pc = "done"
=============================================================================
