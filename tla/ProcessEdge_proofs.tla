------------------------- MODULE ProcessEdge_proofs -------------------------
(***************************************************************************)
(* An invocation from an accepted plan to its exit code.  First the record *)
(* loop alone, for every -count, every bound on its records and every      *)
(* behaviour of generator, encoder, sink and context: its Stats balance,   *)
(* what they call acked is delivered, and it neither runs past its Count,  *)
(* a failure or a cancellation nor skips a pacing wait.  Then the process  *)
(* around it, for every interleaving of the run with the signal goroutine, *)
(* its broker, its registry and its destination.                           *)
(***************************************************************************)
EXTENDS ProcessEdge, FiniteSetTheorems, TLAPS


(* Where the loop is says what `cause' and `ending' are.                   *)
ControlInv ==
  /\ pc # "account" => cause = "none"
  /\ pc = "done" <=> ending # "none"
  /\ ending = "cut" => cancelled
  /\ ending = "complete" => CountReached

(* Records are numbered in the order they are generated; only the one in   *)
(* hand has the number `total' without being accounted for, and only one   *)
(* cut in mid-send has a number beyond it.                                 *)
RecordInv ==
  /\ StatsBalance
  /\ \A r \in confirmed : 1 <= r /\ r <= total /\ (InHand => r < total)
  /\ \A r \in issued : 1 <= r /\ r <= total + 1
  /\ \A r \in issued : r = total + 1 => pc = "done" /\ cancelled
  /\ delivered \subseteq issued
  /\ confirmed \subseteq delivered
  /\ pc = "account" /\ cause = "none" => total \in delivered

CountInv ==
  config.count > 0 =>
    /\ total <= config.count
    /\ pc = "generate" => total < config.count
    /\ \A r \in issued : r <= config.count

(* A run that must stop has stopped.                                       *)
StopInv ==
  /\ failed > 0 /\ ~config.continueOnError => pc = "done"
  /\ broken => pc = "done"

(* Back at the top of a paced loop the wait is over, or was cut by ctx,    *)
(* which the top of the loop is about to see.                              *)
PaceInv ==
  config.paced =>
    /\ pc \in {"idle", "generate"} => rested
    /\ pc = "check" /\ ~cancelled => rested

(* A record generated late was checked for just before ctx was done.       *)
LateInv ==
  /\ ~cancelled \/ pc = "generate" => late = 0
  /\ late <= 1

ConfirmedInv == IsFiniteSet(confirmed) /\ Cardinality(confirmed) = acked

LoopInv ==
  TypeOK /\ ControlInv /\ RecordInv /\ CountInv /\ StopInv /\ PaceInv /\ LateInv

-----------------------------------------------------------------------------
LEMMA LoopInit == Init => LoopInv
<1> SUFFICES ASSUME Init PROVE LoopInv
  OBVIOUS
<1>1. config.count \in Int
  BY CountsAssumption DEF Init, Config
<1>2. TypeOK
  BY DEF Init, TypeOK, Points, Causes, Endings
<1> QED
  BY <1>1, <1>2
  DEF Init, LoopInv, ControlInv, RecordInv, CountInv, StopInv, PaceInv,
      LateInv, StatsBalance, InHand

(* The variables keep their types; `total' is only taken down while a      *)
(* record is in hand.                                                      *)
LEMMA TypeStep == TypeOK /\ StatsBalance /\ [Next]_vars => TypeOK'
<1> SUFFICES ASSUME TypeOK, StatsBalance, [Next]_vars PROVE TypeOK'
  OBVIOUS
<1> USE DEF TypeOK, StatsBalance, InHand, Points, Causes, Endings, Goto,
            Return, runVars, historyVars
<1>1. CASE Start
  BY <1>1 DEF Start
<1>2. CASE Check
  BY <1>2 DEF Check
<1>3. CASE Generate
  <2>1. late' = late + 1 \/ late' = late
    BY <1>3 DEF Generate
  <2>2. total' \in Nat /\ late' \in Nat
    BY <1>3, <2>1 DEF Generate
  <2> QED BY <1>3, <2>2 DEF Generate
<1>4. CASE GenerateFails
  BY <1>4 DEF GenerateFails
<1>5. CASE Encode
  BY <1>5 DEF Encode
<1>6. CASE SendStart
  BY <1>6 DEF SendStart
<1>7. CASE JudgeSendError
  BY <1>7 DEF JudgeSendError
<1>8. CASE Account
  <2>1. broken' \in BOOLEAN /\ pc' \in Points /\ ending' \in Endings
    BY <1>8 DEF Account, AfterRecord
  <2>2. CASE cause # "none"
    <3>1. acked' = acked /\ failed' = failed + 1 /\ confirmed' = confirmed
      BY <1>8, <2>2 DEF Account
    <3> QED BY <1>8, <2>1, <3>1 DEF Account
  <2>3. CASE cause = "none"
    <3>1. acked' = acked + 1 /\ failed' = failed /\ confirmed' \subseteq Nat
      BY <1>8, <2>3 DEF Account
    <3> QED BY <1>8, <2>1, <3>1 DEF Account
  <2> QED BY <2>2, <2>3
<1>9. CASE Pace
  BY <1>9 DEF Pace
<1>10. ASSUME NEW r \in issued, Deliver(r) PROVE TypeOK'
  BY <1>10 DEF Deliver
<1>11. CASE SendSucceeds
  BY <1>11 DEF SendSucceeds
<1>12. CASE SendFails
  BY <1>12 DEF SendFails
<1>13. CASE Cancel
  BY <1>13 DEF Cancel
<1>14. CASE UNCHANGED vars
  BY <1>14 DEF vars
<1> QED
  BY <1>1, <1>2, <1>3, <1>4, <1>5, <1>6, <1>7, <1>8, <1>9, <1>10, <1>11,
     <1>12, <1>13, <1>14
  DEF Next, LoopStep, Destination, SendAborted, Finished

LEMMA LoopStepInv == LoopInv /\ [Next]_vars => LoopInv'
<1> SUFFICES ASSUME LoopInv, [Next]_vars PROVE LoopInv'
  OBVIOUS
<1>a. TypeOK'
  BY TypeStep DEF LoopInv, RecordInv
<1>b. config.count \in Int
  BY CountsAssumption DEF LoopInv, TypeOK, Config
<1> USE <1>b
    DEF LoopInv, TypeOK, ControlInv, RecordInv, CountInv, StopInv,
        PaceInv, LateInv, StatsBalance, InHand, Points, Causes, Endings,
        Goto, Return, CountReached, runVars, historyVars
<1>1. CASE Start
  BY <1>a, <1>1 DEF Start
<1>2. CASE Check
  <2>2. ControlInv'
    BY <1>2 DEF Check
  <2>3. RecordInv'
    BY <1>2 DEF Check
  <2>4. CountInv'
    BY <1>2 DEF Check
  <2>5. StopInv'
    BY <1>2 DEF Check
  <2>6. PaceInv'
    BY <1>2 DEF Check
  <2>7. LateInv'
    BY <1>2 DEF Check
  <2> QED BY <1>a, <2>2, <2>3, <2>4, <2>5, <2>6, <2>7
<1>3. CASE Generate
  <2>2. ControlInv'
    BY <1>3 DEF Generate
  <2>3. RecordInv'
    BY <1>3 DEF Generate
  <2>4. CountInv'
    BY <1>3 DEF Generate
  <2>5. StopInv'
    BY <1>3 DEF Generate
  <2>6. PaceInv'
    BY <1>3 DEF Generate
  <2>7. LateInv'
    BY <1>3 DEF Generate
  <2> QED BY <1>a, <2>2, <2>3, <2>4, <2>5, <2>6, <2>7
<1>4. CASE GenerateFails
  BY <1>a, <1>4 DEF GenerateFails
<1>5. CASE Encode
  BY <1>a, <1>5 DEF Encode
<1>6. CASE SendStart
  BY <1>a, <1>6 DEF SendStart
<1>7. CASE JudgeSendError
  <2>2. ControlInv'
    BY <1>7 DEF JudgeSendError
  <2>3. RecordInv'
    <3>1. StatsBalance'
      BY <1>7 DEF JudgeSendError
    <3>2. \A r \in issued : r = total' + 1 => pc' = "done" /\ cancelled'
      BY <1>7 DEF JudgeSendError
    <3>3. /\ \A r \in confirmed : r <= total'
          /\ \A r \in issued : r <= total' + 1
      <4>1. pc = "sendFailed" /\ (total' = total - 1 \/ total' = total)
        BY <1>7 DEF JudgeSendError
      <4>2. \A r \in confirmed : r \in Nat /\ r < total
        BY <4>1
      <4>3. \A r \in issued : r \in Nat /\ r <= total
        BY <4>1
      <4>4. ASSUME NEW r \in confirmed PROVE r <= total'
        BY <4>1, <4>2
      <4>5. ASSUME NEW r \in issued PROVE r <= total' + 1
        <5>1. r \in Nat /\ r <= total
          BY <4>3
        <5>2. total \in Nat /\ total' + 1 \in Nat /\ total <= total' + 1
          BY <4>1, <4>2
        <5> QED BY <5>1, <5>2
      <4> QED BY <4>4, <4>5
    <3> QED BY <1>7, <3>1, <3>2, <3>3 DEF JudgeSendError
  <2>4. CountInv'
    BY <1>7 DEF JudgeSendError
  <2>5. StopInv'
    BY <1>7 DEF JudgeSendError
  <2>6. PaceInv'
    BY <1>7 DEF JudgeSendError
  <2>7. LateInv'
    BY <1>7 DEF JudgeSendError
  <2> QED BY <1>a, <2>2, <2>3, <2>4, <2>5, <2>6, <2>7
<1>8. CASE Account
  <2>2. ControlInv'
    BY <1>8 DEF Account, EndsRun, AfterRecord
  <2>3. RecordInv'
    <3>1. pc' \notin {"encode", "send", "sending", "sendFailed", "account"}
      BY <1>8 DEF Account, AfterRecord
    <3>2. StatsBalance'
      <4>1. pc = "account" /\ total' = total /\ total = acked + failed + 1
        BY <1>8 DEF Account
      <4>2. CASE cause # "none"
        BY <1>8, <3>1, <4>1, <4>2 DEF Account
      <4>3. CASE cause = "none"
        BY <1>8, <3>1, <4>1, <4>3 DEF Account
      <4> QED BY <4>2, <4>3
    <3>3. /\ \A r \in confirmed' : 1 <= r /\ r <= total
          /\ confirmed' \subseteq delivered
      <4>1. pc = "account" /\ total \in Nat /\ 1 <= total
        BY <1>8 DEF Account
      <4>2. CASE cause # "none"
        BY <1>8, <4>1, <4>2 DEF Account
      <4>3. CASE cause = "none"
        <5>1. total \in delivered /\ confirmed' = confirmed \cup {total}
          BY <1>8, <4>3 DEF Account
        <5> QED BY <4>1, <5>1
      <4> QED BY <4>2, <4>3
    <3> QED BY <1>8, <3>1, <3>2, <3>3 DEF Account
  <2>4. CountInv'
    BY <1>8 DEF Account, EndsRun, AfterRecord
  <2>5. StopInv'
    BY <1>8 DEF Account, EndsRun, AfterRecord
  <2>6. PaceInv'
    BY <1>8 DEF Account, EndsRun, AfterRecord
  <2>7. LateInv'
    BY <1>8 DEF Account, EndsRun, AfterRecord
  <2> QED BY <1>a, <2>2, <2>3, <2>4, <2>5, <2>6, <2>7
<1>9. CASE Pace
  BY <1>a, <1>9 DEF Pace
<1>10. ASSUME NEW r \in issued, Deliver(r) PROVE LoopInv'
  BY <1>a, <1>10 DEF Deliver
<1>11. CASE SendSucceeds
  BY <1>a, <1>11 DEF SendSucceeds
<1>12. CASE SendFails
  BY <1>a, <1>12 DEF SendFails
<1>13. CASE Cancel
  <2>2. ControlInv'
    BY <1>13 DEF Cancel
  <2>3. RecordInv'
    BY <1>13 DEF Cancel
  <2>4. CountInv'
    BY <1>13 DEF Cancel
  <2>5. StopInv'
    BY <1>13 DEF Cancel
  <2>6. PaceInv'
    BY <1>13 DEF Cancel
  <2>7. LateInv'
    BY <1>13 DEF Cancel
  <2> QED BY <1>a, <2>2, <2>3, <2>4, <2>5, <2>6, <2>7
<1>14. CASE UNCHANGED vars
  BY <1>a, <1>14 DEF vars
<1> QED
  BY <1>1, <1>2, <1>3, <1>4, <1>5, <1>6, <1>7, <1>8, <1>9, <1>10, <1>11,
     <1>12, <1>13, <1>14
  DEF Next, LoopStep, Destination, SendAborted, Finished

THEOREM LoopCorrect == Spec => []LoopInv
BY LoopInit, LoopStepInv, PTL DEF Spec

-----------------------------------------------------------------------------
(* The variables keep their types.                                         *)
THEOREM TypeCorrect == Spec => []TypeOK
BY LoopCorrect, PTL DEF LoopInv

(* The Stats balance: total is acked plus failed, but for a record in      *)
(* hand.                                                                   *)
THEOREM StatsCorrect == Spec => []StatsBalance
<1>1. LoopInv => StatsBalance
  BY DEF LoopInv, RecordInv
<1> QED BY <1>1, LoopCorrect, PTL

(* A record is added to `confirmed' once, when it is counted: all those    *)
(* there have smaller numbers.                                             *)
LEMMA ConfirmedStep ==
  LoopInv /\ ConfirmedInv /\ [Next]_vars => ConfirmedInv'
<1> SUFFICES ASSUME LoopInv, ConfirmedInv, [Next]_vars PROVE ConfirmedInv'
  OBVIOUS
<1> USE DEF ConfirmedInv
<1>1. CASE Account
  <2>1. CASE cause # "none"
    BY <1>1, <2>1 DEF Account
  <2>2. CASE cause = "none"
    <3>1. confirmed' = confirmed \cup {total} /\ acked' = acked + 1
      BY <1>1, <2>2 DEF Account
    <3>2. total \notin confirmed
      BY <1>1 DEF Account, LoopInv, RecordInv, InHand, TypeOK
    <3> QED BY <3>1, <3>2, FS_AddElement
  <2> QED BY <2>1, <2>2
<1>2. CASE ~Account
  <2>1. confirmed' = confirmed /\ acked' = acked
    BY <1>2
    DEF Next, LoopStep, Destination, Finished, Start, Check, Generate,
        GenerateFails, Encode, SendStart, JudgeSendError, Pace, Deliver,
        SendSucceeds, SendFails, SendAborted, Cancel, vars, runVars,
        historyVars
  <2> QED BY <2>1
<1> QED BY <1>1, <1>2

(* What the Stats call acked is delivered, and each record counts once.    *)
THEOREM DeliveryCorrect == Spec => []AckedDelivered
<1>1. Init => ConfirmedInv
  BY FS_EmptySet DEF Init, ConfirmedInv
<1>2. LoopInv /\ ConfirmedInv => AckedDelivered
  BY DEF LoopInv, RecordInv, ConfirmedInv, AckedDelivered
<1> QED BY <1>1, <1>2, ConfirmedStep, LoopCorrect, PTL DEF Spec

(* At most one record, the last of a cancelled run, is at the destination  *)
(* without being counted.                                                  *)
THEOREM UncountedCorrect == Spec => []OneUncounted
<1>1. LoopInv => OneUncounted
  <2> SUFFICES ASSUME LoopInv, NEW r \in issued, r > total
               PROVE  r = total + 1 /\ pc = "done" /\ cancelled
    BY DEF OneUncounted
  <2>1. r = total + 1
    BY DEF LoopInv, RecordInv, TypeOK
  <2> QED BY <2>1 DEF LoopInv, RecordInv
<1> QED BY <1>1, LoopCorrect, PTL

(* A finite run hands out at most Count records, and attempts exactly that *)
(* many unless it is cancelled or ends in an error.                        *)
THEOREM CountCorrect == Spec => []CountHonoured
<1>1. LoopInv => CountHonoured
  <2> SUFFICES ASSUME LoopInv PROVE CountHonoured
    OBVIOUS
  <2>1. config.count \in Int /\ total \in Nat
    BY CountsAssumption DEF LoopInv, TypeOK, Config
  <2>2. ASSUME config.count > 0
        PROVE  total <= config.count /\ Cardinality(issued) <= config.count
    <3>1. issued \subseteq 1..config.count
      BY <2>1, <2>2 DEF LoopInv, RecordInv, CountInv, TypeOK
    <3>2. IsFiniteSet(1..config.count)
          /\ Cardinality(1..config.count) = config.count
      <4>1. 1 \in Int /\ config.count \in Int /\ ~(1 > config.count)
        BY <2>1, <2>2
      <4>2. Cardinality(1..config.count) = config.count - 1 + 1
        BY <4>1, FS_Interval, Zenon
      <4> QED BY <4>1, <4>2, FS_Interval
    <3>3. Cardinality(issued) <= config.count
      BY <3>1, <3>2, FS_Subset
    <3> QED BY <2>2, <3>3 DEF LoopInv, CountInv
  <2>3. ASSUME ending \in {"complete", "cut"}, ~cancelled
        PROVE  config.count > 0 /\ total = config.count
    BY <2>1, <2>3 DEF LoopInv, ControlInv, CountInv, CountReached
  <2> QED BY <2>2, <2>3 DEF CountHonoured
<1> QED BY <1>1, LoopCorrect, PTL

(* With a rate limit every attempt waits its full interval.                *)
THEOREM SpacingCorrect == Spec => []AttemptsSpaced
<1>1. LoopInv => AttemptsSpaced
  BY DEF LoopInv, PaceInv, AttemptsSpaced
<1> QED BY <1>1, LoopCorrect, PTL

(* A cancelled context lets at most the record already begun go out.       *)
THEOREM CancelCorrect == Spec => []CancelStopsNext
<1>1. LoopInv => CancelStopsNext
  BY DEF LoopInv, LateInv, CancelStopsNext
<1> QED BY <1>1, LoopCorrect, PTL

(* No record is attempted after a failure the run must stop at.            *)
THEOREM StopCorrect == Spec => StopsAtFailure
<1>1. LoopInv /\ [Next]_vars =>
        [total' > total => (failed > 0 => config.continueOnError) /\ ~broken]_vars
  <2> SUFFICES ASSUME LoopInv, [Next]_vars, total' > total
               PROVE  (failed > 0 => config.continueOnError) /\ ~broken
    OBVIOUS
  <2>1. Generate
    <3>1. CASE JudgeSendError
      BY <3>1 DEF JudgeSendError, LoopInv, TypeOK
    <3>2. CASE ~JudgeSendError /\ ~Generate
      <4>1. total' = total
        BY <3>2
        DEF Next, LoopStep, Destination, Finished, Start, Check,
            GenerateFails, Encode, SendStart, Account, Pace, Deliver,
            SendSucceeds, SendFails, SendAborted, Cancel, vars, runVars,
            historyVars
      <4> QED BY <4>1 DEF LoopInv, TypeOK
    <3> QED BY <3>1, <3>2
  <2>2. pc # "done"
    BY <2>1 DEF Generate, Goto
  <2> QED BY <2>2 DEF LoopInv, StopInv
<1> QED BY <1>1, LoopCorrect, PTL DEF Spec, StopsAtFailure

-----------------------------------------------------------------------------
(* The process around the loop.                                            *)


(* Seen from inside, the record loop is the Pipeline proved about alone:   *)
(* its ctx is cancelled by the signal goroutine or the deferred cancel.    *)
THEOREM LoopInside == EdgeSpec => Spec
<1>1. EdgeInit => Init
  BY DEF EdgeInit
<1>2. [EdgeNext]_allVars => [Next]_vars
  <2> SUFFICES ASSUME [EdgeNext]_allVars PROVE [Next]_vars
    OBVIOUS
  <2>1. CASE phase = "run" /\ LoopStep /\ UNCHANGED edgeVars
    BY <2>1 DEF Next
  <2>2. CASE EdgeDestination
    BY <2>2 DEF EdgeDestination, Next, Destination
  <2>3. CASE ShutdownStep
    <3>1. CASE cancelled' = cancelled
      BY <2>3, <3>1 DEF ShutdownStep, vars
    <3>2. CASE cancelled' # cancelled
      BY <2>3, <3>2 DEF ShutdownStep, Next, Cancel
    <3> QED BY <3>1, <3>2
  <2>4. CASE DeferredCancel
    <3>1. CASE cancelled
      BY <2>4, <3>1 DEF DeferredCancel, Next, vars
    <3>2. CASE ~cancelled
      BY <2>4, <3>2 DEF DeferredCancel, Next, Cancel
    <3> QED BY <3>1, <3>2
  <2>5. CASE Dial \/ Ping \/ BuildEncoder \/ Report \/ Judge \/ JudgeSetup
             \/ CloseSink \/ ProcessExits
    BY <2>5 DEF Dial, Ping, BuildEncoder, Report, Judge, JudgeSetup,
                CloseSink, ProcessExits
  <2>6. CASE Signal \/ Select \/ Exited \/ UNCHANGED allVars
    BY <2>6 DEF Signal, Select, Exited, allVars
  <2> QED
    BY <2>1, <2>2, <2>3, <2>4, <2>5, <2>6 DEF EdgeNext, MainStep, WatcherStep
<1> QED BY <1>1, <1>2, PTL DEF EdgeSpec, Spec

-----------------------------------------------------------------------------
(* Setup: who holds the sink has reached the broker, and only then is the  *)
(* registry contacted.                                                     *)
SetupInv ==
  /\ registers \in BOOLEAN /\ owned \in BOOLEAN /\ reached \in BOOLEAN
  /\ registers => config.kafka
  /\ registered => registers /\ owned
  /\ phase \in {"encoder", "run", "judge"} => owned
  /\ owned /\ config.kafka => reached /\ client # "none"
  /\ phase = "ping" => config.kafka /\ client = "open"

(* The record loop runs in phase "run" alone.                              *)
PhaseInv ==
  /\ phase \in Phases
  /\ phase \in {"dial", "ping", "encoder", "failed"} => pc = "idle"
  /\ phase = "judge" => pc = "done"
  /\ phase \in {"close", "cancel", "returned", "exited"} =>
       pc \in {"idle", "done"}
  /\ code = -1 <=> phase \in {"dial", "ping", "encoder", "run", "judge",
                              "failed"}

ClientInv ==
  /\ client \in {"none", "open", "closed"}
  /\ client = "closed" => phase \in {"cancel", "returned", "exited"}
  /\ phase \in {"cancel", "returned", "exited"} /\ owned /\ config.kafka =>
       client = "closed"

(* While the run lasts, ctx is done only of an interrupt whose flag is set *)
(* and whose notice is out.                                                *)
SignalInv ==
  /\ watcher \in 0..4
  /\ watcher \in {2, 3} => interrupted
  /\ watcher = 3 => announced
  /\ cancelled /\ phase \notin {"returned", "exited"} =>
       interrupted /\ announced
  /\ CutShort => interrupted /\ announced
  /\ interrupted \in BOOLEAN /\ announced \in BOOLEAN
  /\ signalled \in BOOLEAN

CodeInv ==
  /\ code \in {-1, 0, 1, 130}
  /\ CutShort /\ Judged => code = 130
  /\ code = 0 => ending = "complete" /\ failed = 0
  /\ setupError \in {"none", "peer", "ctx"}
  /\ registered \in BOOLEAN

EdgeInv == SetupInv /\ PhaseInv /\ ClientInv /\ SignalInv /\ CodeInv

LEMMA EdgeStart == EdgeInit => EdgeInv
<1> SUFFICES ASSUME EdgeInit PROVE EdgeInv
  OBVIOUS
<1>1. registers \in BOOLEAN /\ (registers => config.kafka)
  BY DEF EdgeInit
<1>2. SetupInv
  BY <1>1 DEF EdgeInit, SetupInv
<1>3. PhaseInv /\ ClientInv
  BY DEF EdgeInit, Init, PhaseInv, ClientInv, Phases
<1>4. /\ registered \in BOOLEAN /\ signalled \in BOOLEAN
      /\ interrupted \in BOOLEAN /\ announced \in BOOLEAN
  BY DEF EdgeInit
<1>5. ~cancelled /\ ~CutShort
  BY DEF EdgeInit, Init, CutShort
<1>6. SignalInv
  <2>1. watcher = 0
    BY DEF EdgeInit
  <2>2. watcher \in 0..4 /\ watcher \notin {2, 3} /\ watcher # 3
    BY <2>1
  <2> QED BY <1>4, <1>5, <2>2 DEF SignalInv
<1>7. CodeInv
  <2>1. code = -1 /\ setupError = "none"
    BY DEF EdgeInit
  <2>2. code \in {-1, 0, 1, 130} /\ code # 0
    BY <2>1
  <2> QED BY <1>4, <1>5, <2>1, <2>2 DEF CodeInv
<1> QED BY <1>2, <1>3, <1>6, <1>7 DEF EdgeInv

(* A step of the loop changes no variable of the edge; it ends cut only    *)
(* when ctx is done.                                                       *)
LEMMA EdgeLoopStep ==
  ASSUME EdgeInv, LoopInv, LoopInv', phase = "run", UNCHANGED edgeVars,
         LoopStep
  PROVE  EdgeInv'
<1> USE DEF edgeVars, setupVars, signalVars
<1>1. config' = config /\ cancelled' = cancelled
  BY DEF LoopStep, Start, Check, Generate, GenerateFails, Encode, SendStart,
         JudgeSendError, Account, Pace
<1>2. SetupInv'
  BY <1>1 DEF EdgeInv, SetupInv
<1>3. PhaseInv'
  BY DEF EdgeInv, PhaseInv
<1>4. ClientInv'
  BY <1>1 DEF EdgeInv, ClientInv
<1>5. CutShort' => interrupted /\ announced
  <2>1. ending' = "cut" => cancelled
    BY <1>1 DEF LoopInv, ControlInv
  <2> QED BY <2>1 DEF EdgeInv, SignalInv, CutShort
<1>6. SignalInv'
  BY <1>1, <1>5 DEF EdgeInv, SignalInv
<1>7. CodeInv'
  BY DEF EdgeInv, CodeInv, PhaseInv, CutShort, Judged
<1> QED BY <1>2, <1>3, <1>4, <1>6, <1>7 DEF EdgeInv

(* What the destination does while a run lasts.                            *)
LEMMA EdgeDestinationStep ==
  ASSUME EdgeInv, EdgeDestination
  PROVE  EdgeInv'
<1>1. /\ config' = config /\ cancelled' = cancelled /\ ending' = ending
      /\ failed' = failed
      /\ pc' = pc \/ phase = "run"
  BY DEF EdgeDestination, Deliver, SendSucceeds, SendFails, SendAborted,
         runVars
<1>2. UNCHANGED edgeVars
  BY DEF EdgeDestination
<1> QED
  BY <1>1, <1>2
  DEF EdgeInv, SetupInv, PhaseInv, ClientInv, SignalInv, CodeInv, CutShort,
      Judged, edgeVars, setupVars, signalVars

(* The statements of the signal goroutine, in their order: the flag and    *)
(* the notice are there when ctx is cancelled.                             *)
LEMMA EdgeShutdownStep ==
  ASSUME EdgeInv, ShutdownStep
  PROVE  EdgeInv'
<1> USE DEF ShutdownStep, setupVars, runVars
<1>1. SetupInv' /\ PhaseInv' /\ ClientInv' /\ CodeInv'
  BY DEF EdgeInv, SetupInv, PhaseInv, ClientInv, CodeInv, CutShort, Judged
<1>2. SignalInv'
  <2>1. watcher \in {1, 2, 3}
    BY DEF Shutdown
  <2>2. CASE watcher = 1
    BY <2>2 DEF EdgeInv, SignalInv, Shutdown, CutShort
  <2>3. CASE watcher = 2
    BY <2>3 DEF EdgeInv, SignalInv, Shutdown, CutShort
  <2>4. CASE watcher = 3
    BY <2>4 DEF EdgeInv, SignalInv, Shutdown, CutShort
  <2> QED BY <2>1, <2>2, <2>3, <2>4
<1> QED BY <1>1, <1>2 DEF EdgeInv

LEMMA EdgeMainStep ==
  ASSUME EdgeInv, LoopInv,
         \/ Dial \/ Ping \/ BuildEncoder \/ Report \/ Judge \/ JudgeSetup
         \/ CloseSink \/ DeferredCancel \/ ProcessExits
  PROVE  EdgeInv'
<1> USE DEF EdgeInv, SetupInv, PhaseInv, ClientInv, SignalInv, CodeInv,
            CutShort, Judged, Phases, vars, runVars, setupVars, signalVars
<1>1. CASE Dial
  <2>1. CASE ~config.kafka
    <3>1. phase' = "encoder" /\ owned' = TRUE
      BY <1>1, <2>1 DEF Dial
    <3> QED BY <1>1, <2>1, <3>1 DEF Dial
  <2>2. CASE phase' = "ping" /\ config.kafka
    BY <1>1, <2>2 DEF Dial, SetupFails
  <2>3. CASE phase' = "failed" /\ config.kafka
    BY <1>1, <2>3 DEF Dial, SetupFails
  <2> QED BY <1>1, <2>1, <2>2, <2>3 DEF Dial, SetupFails
<1>2. CASE Ping
  <2>1. CASE phase' = "encoder"
    BY <1>2, <2>1 DEF Ping, SetupFails
  <2>2. CASE phase' = "failed"
    <3>1. setupError' \in {"peer", "ctx"} /\ (setupError' = "ctx" => cancelled)
      BY <1>2, <2>2 DEF Ping, SetupFails
    <3> QED BY <1>2, <2>2, <3>1 DEF Ping, SetupFails
  <2> QED BY <1>2, <2>1, <2>2 DEF Ping, SetupFails
<1>3. CASE BuildEncoder
  BY <1>3 DEF BuildEncoder, SetupFails
<1>4. CASE Report
  BY <1>4 DEF Report
<1>5. CASE Judge
  <2>1. interrupted => code' = 130
    BY <1>5 DEF Judge, RunCode
  <2>2. code' = 0 => ~interrupted /\ ending # "error" /\ ~(failed > 0)
    BY <1>5 DEF Judge, RunCode
  <2>3. code' \in {0, 1, 130}
    BY <1>5 DEF Judge, RunCode
  <2>4. code' = 0 => ending = "complete" /\ failed = 0
    <3>1. ending \in {"complete", "cut", "error"} /\ failed \in Nat
      BY <1>5 DEF Judge, LoopInv, TypeOK, Endings, ControlInv
    <3> QED BY <2>2, <3>1
  <2>5. UNCHANGED <<vars, setupVars, signalVars>> /\ phase' = "close"
    BY <1>5 DEF Judge
  <2>6. CodeInv'
    BY <2>1, <2>3, <2>4, <2>5
  <2>7. PhaseInv'
    BY <1>5, <2>3, <2>5 DEF Judge
  <2>8. SetupInv' /\ ClientInv' /\ SignalInv'
    BY <1>5, <2>5 DEF Judge
  <2> QED BY <2>6, <2>7, <2>8
<1>6. CASE JudgeSetup
  <2>1. interrupted => code' = 130
    BY <1>6 DEF JudgeSetup, FailureCode
  <2>2. code' \in {1, 130}
    BY <1>6 DEF JudgeSetup, FailureCode
  <2>3. UNCHANGED <<vars, setupVars, signalVars>> /\ phase' = "close"
    BY <1>6 DEF JudgeSetup
  <2>4. CodeInv'
    BY <2>1, <2>2, <2>3
  <2>5. PhaseInv'
    BY <1>6, <2>2, <2>3 DEF JudgeSetup
  <2>6. SetupInv' /\ ClientInv' /\ SignalInv'
    BY <1>6, <2>3 DEF JudgeSetup
  <2> QED BY <2>4, <2>5, <2>6
<1>7. CASE CloseSink
  BY <1>7 DEF CloseSink
<1>8. CASE DeferredCancel
  BY <1>8 DEF DeferredCancel
<1>9. CASE ProcessExits
  BY <1>9 DEF ProcessExits
<1> QED BY <1>1, <1>2, <1>3, <1>4, <1>5, <1>6, <1>7, <1>8, <1>9

LEMMA EdgeStep ==
  LoopInv /\ LoopInv' /\ EdgeInv /\ [EdgeNext]_allVars => EdgeInv'
<1> SUFFICES ASSUME LoopInv, LoopInv', EdgeInv, [EdgeNext]_allVars
             PROVE  EdgeInv'
  OBVIOUS
<1>1. CASE phase = "run" /\ LoopStep /\ UNCHANGED edgeVars
  BY <1>1, EdgeLoopStep
<1>2. CASE EdgeDestination
  BY <1>2, EdgeDestinationStep
<1>3. CASE ShutdownStep
  BY <1>3, EdgeShutdownStep
<1>4. CASE Select
  <2>1. watcher' \in 0..4 /\ watcher' \notin {2, 3}
    BY <1>4 DEF Select, Shutdown
  <2> QED
    BY <1>4, <2>1
    DEF Select, EdgeInv, SetupInv, PhaseInv, ClientInv, SignalInv, CodeInv,
        CutShort, Judged, vars, runVars, setupVars
<1>5. CASE Signal
  BY <1>5
  DEF Signal, EdgeInv, SetupInv, PhaseInv, ClientInv, SignalInv, CodeInv,
      CutShort, Judged, vars, runVars, setupVars
<1>6. CASE UNCHANGED allVars
  BY <1>6
  DEF allVars, EdgeInv, SetupInv, PhaseInv, ClientInv, SignalInv, CodeInv,
      CutShort, Judged, vars, runVars, edgeVars, setupVars, signalVars
<1>7. CASE \/ Dial \/ Ping \/ BuildEncoder \/ Report \/ Judge
           \/ JudgeSetup \/ CloseSink \/ DeferredCancel \/ ProcessExits
  BY <1>7, EdgeMainStep
<1> QED
  BY <1>1, <1>2, <1>3, <1>4, <1>5, <1>6, <1>7
  DEF EdgeNext, MainStep, WatcherStep, Exited

THEOREM EdgeCorrect == EdgeSpec => [](LoopInv /\ EdgeInv)
<1>1. EdgeSpec => []LoopInv
  BY LoopInside, LoopCorrect, PTL
<1> QED BY <1>1, EdgeStart, EdgeStep, PTL DEF EdgeSpec

-----------------------------------------------------------------------------
(* The variables keep their types.                                         *)
THEOREM EdgeTypeCorrect == EdgeSpec => []EdgeTypeOK
<1>1. LoopInv /\ EdgeInv => EdgeTypeOK
  <2> SUFFICES ASSUME LoopInv, EdgeInv PROVE EdgeTypeOK
    OBVIOUS
  <2>1. Len(Shutdown) = 3
    BY DEF Shutdown
  <2>2. TypeOK
    BY DEF LoopInv
  <2> QED
    BY <2>1, <2>2
    DEF EdgeInv, SetupInv, PhaseInv, ClientInv, SignalInv, CodeInv, EdgeTypeOK
<1> QED BY <1>1, EdgeCorrect, PTL

(* However signal and run interleave, work cut short by the interrupt      *)
(* exits 130.                                                              *)
THEOREM ExitCodeCorrect == EdgeSpec => []CutShortExits130
<1>1. EdgeInv => CutShortExits130
  BY DEF EdgeInv, CodeInv, CutShortExits130
<1> QED BY <1>1, EdgeCorrect, PTL

(* The interrupt's notice is out before the work it cuts short is.         *)
THEOREM NoticeCorrect == EdgeSpec => []CutShortAnnounced
<1>1. EdgeInv => CutShortAnnounced
  BY DEF EdgeInv, SignalInv, CutShortAnnounced
<1> QED BY <1>1, EdgeCorrect, PTL

(* The registry is not contacted before the broker has answered.           *)
THEOREM BrokerFirst == EdgeSpec => []BrokerBeforeRegistry
<1>1. EdgeInv => BrokerBeforeRegistry
  BY DEF EdgeInv, SetupInv, BrokerBeforeRegistry
<1> QED BY <1>1, EdgeCorrect, PTL

(* Every way out closes a sink that run holds, once the loop is through    *)
(* with it.                                                                *)
THEOREM CloseCorrect == EdgeSpec => []SinkClosed
<1>1. EdgeInv => SinkClosed
  BY DEF EdgeInv, PhaseInv, ClientInv, SinkClosed
<1> QED BY <1>1, EdgeCorrect, PTL

(* Exit 0 of a run of Count records: as many were acked, which are all the *)
(* numbers there are, so nothing else was handed out.                      *)
THEOREM SuccessCorrect == EdgeSpec => []SuccessIsComplete
<1>1. LoopInv /\ EdgeInv /\ AckedDelivered => SuccessIsComplete
  <2> SUFFICES ASSUME LoopInv, EdgeInv, AckedDelivered, code = 0
               PROVE  /\ config.count > 0 /\ failed = 0 /\ acked = config.count
                      /\ issued = 1..config.count /\ issued \subseteq delivered
    BY DEF SuccessIsComplete
  <2>1. ending = "complete" /\ failed = 0
    BY DEF EdgeInv, CodeInv
  <2>2. config.count \in Int /\ total \in Nat /\ acked \in Nat
    BY CountsAssumption DEF LoopInv, TypeOK, Config
  <2>3. config.count > 0 /\ total = config.count
    BY <2>1, <2>2 DEF LoopInv, ControlInv, CountInv, CountReached
  <2>4. acked = config.count
    <3>1. ~InHand
      BY <2>1 DEF LoopInv, ControlInv, InHand
    <3> QED BY <2>1, <2>2, <2>3, <3>1 DEF LoopInv, RecordInv, StatsBalance
  <2>5. issued \subseteq 1..config.count
    BY <2>2, <2>3 DEF LoopInv, RecordInv, CountInv, TypeOK
  <2>6. confirmed \subseteq delivered /\ delivered \subseteq issued
    BY DEF LoopInv, RecordInv
  <2>7. IsFiniteSet(1..config.count)
        /\ Cardinality(1..config.count) = config.count
    <3>1. 1 \in Int /\ config.count \in Int /\ ~(1 > config.count)
      BY <2>2, <2>3
    <3>2. Cardinality(1..config.count) = config.count - 1 + 1
      BY <3>1, FS_Interval, Zenon
    <3> QED BY <3>1, <3>2, FS_Interval
  <2>8. confirmed = 1..config.count
    <3>1. confirmed \subseteq 1..config.count
      BY <2>5, <2>6
    <3>2. Cardinality(confirmed) = Cardinality(1..config.count)
      BY <2>4, <2>7 DEF AckedDelivered
    <3> QED BY <2>7, <3>1, <3>2, FS_Subset
  <2> QED BY <2>1, <2>3, <2>4, <2>5, <2>6, <2>8
<1> QED BY <1>1, EdgeCorrect, LoopInside, DeliveryCorrect, PTL

-----------------------------------------------------------------------------
(* A record is accounted for only while another one is still asked for and *)
(* none has failed that the run stops at.                                  *)
LEMMA AccountGoing ==
  ASSUME LoopInv, EdgeInv, phase = "run", Account
  PROVE  Outcome!Going
<1>1. code = -1
  BY DEF EdgeInv, PhaseInv
<1>2. pc = "account"
  BY DEF Account
<1>3. failed > 0 => config.continueOnError
  BY <1>2 DEF LoopInv, StopInv
<1>4. ASSUME config.count > 0 PROVE acked + failed < config.count
  <2>1. /\ config.count \in Int /\ total \in Nat /\ acked \in Nat
        /\ failed \in Nat
    BY CountsAssumption DEF LoopInv, TypeOK, Config
  <2>2. total = acked + failed + 1
    BY <1>2 DEF LoopInv, RecordInv, StatsBalance, InHand
  <2>3. total <= config.count
    BY <1>4 DEF LoopInv, CountInv
  <2> QED BY <2>1, <2>2, <2>3
<1> QED BY <1>1, <1>3, <1>4 DEF Outcome!Going

(* The exit code that is chosen is one the outcome allows.                 *)
LEMMA JudgeEnds ==
  ASSUME LoopInv, EdgeInv, Judge
  PROVE  Outcome!End
<1>1. /\ code = -1 /\ pc = "done"
      /\ UNCHANGED <<config, acked, failed, interrupted>>
  BY DEF EdgeInv, PhaseInv, Judge, vars, runVars, signalVars
<1>2. CASE interrupted
  BY <1>1, <1>2 DEF Judge, RunCode, Outcome!End
<1>3. CASE ~interrupted /\ (ending = "error" \/ failed > 0)
  BY <1>1, <1>3 DEF Judge, RunCode, Outcome!End
<1>4. CASE ~interrupted /\ ending # "error" /\ ~(failed > 0)
  <2>1. code' = 0
    BY <1>4 DEF Judge, RunCode
  <2>2. ending = "complete"
    BY <1>1, <1>4
    DEF LoopInv, TypeOK, Endings, ControlInv, EdgeInv, SignalInv, CutShort
  <2>3. /\ config.count \in Int /\ total \in Nat /\ acked \in Nat
        /\ failed \in Nat
    BY CountsAssumption DEF LoopInv, TypeOK, Config
  <2>4. config.count > 0 /\ total = config.count
    BY <2>2, <2>3 DEF LoopInv, ControlInv, CountInv, CountReached
  <2>5. total = acked + failed /\ failed = 0
    BY <1>1, <1>4, <2>3 DEF LoopInv, RecordInv, StatsBalance, InHand
  <2> QED BY <1>1, <1>4, <2>1, <2>3, <2>4, <2>5 DEF Outcome!End
<1> QED BY <1>2, <1>3, <1>4

LEMMA OutcomeStep ==
  LoopInv /\ EdgeInv /\ [EdgeNext]_allVars => [Outcome!Next]_(Outcome!vars)
<1> SUFFICES ASSUME LoopInv, EdgeInv, [EdgeNext]_allVars
             PROVE  [Outcome!Next]_(Outcome!vars)
  OBVIOUS
<1> USE DEF Outcome!Next, Outcome!vars
<1>1. CASE phase = "run" /\ LoopStep /\ UNCHANGED edgeVars
  <2>1. interrupted' = interrupted /\ code' = code
    BY <1>1 DEF edgeVars, signalVars
  <2>2. CASE Account
    <3>1. Outcome!Going
      BY <1>1, <2>2, AccountGoing
    <3>2. CASE cause # "none"
      BY <2>1, <2>2, <3>1, <3>2 DEF Account, Outcome!Fail
    <3>3. CASE cause = "none"
      BY <2>1, <2>2, <3>1, <3>3 DEF Account, Outcome!Ack
    <3> QED BY <3>2, <3>3
  <2>3. CASE ~Account
    BY <1>1, <2>1, <2>3
    DEF LoopStep, Start, Check, Generate, GenerateFails, Encode, SendStart,
        JudgeSendError, Pace
  <2> QED BY <2>2, <2>3
<1>2. CASE EdgeDestination
  BY <1>2
  DEF EdgeDestination, Deliver, SendSucceeds, SendFails, SendAborted,
      runVars, edgeVars, signalVars
<1>3. CASE ShutdownStep
  <2>1. UNCHANGED <<config, acked, failed, code>>
    BY <1>3 DEF ShutdownStep, runVars
  <2>2. interrupted' = TRUE \/ interrupted' = interrupted
    BY <1>3 DEF ShutdownStep
  <2> QED BY <2>1, <2>2 DEF Outcome!Interrupt
<1>4. CASE Judge
  BY <1>4, JudgeEnds
<1>5. CASE JudgeSetup
  <2>1. /\ code = -1
        /\ UNCHANGED <<config, acked, failed, interrupted>>
    BY <1>5 DEF EdgeInv, PhaseInv, JudgeSetup, vars, runVars, signalVars
  <2>2. CASE interrupted
    BY <1>5, <2>1, <2>2 DEF JudgeSetup, FailureCode, Outcome!End
  <2>3. CASE ~interrupted
    BY <1>5, <2>1, <2>3 DEF JudgeSetup, FailureCode, Outcome!End
  <2> QED BY <2>2, <2>3
<1>6. CASE \/ Dial \/ Ping \/ BuildEncoder \/ Report \/ CloseSink
           \/ DeferredCancel \/ ProcessExits \/ Signal \/ Select \/ Exited
           \/ UNCHANGED allVars
  BY <1>6
  DEF Dial, Ping, BuildEncoder, Report, CloseSink, DeferredCancel,
      ProcessExits, Signal, Select, Exited, SetupFails, vars, runVars,
      signalVars, edgeVars, allVars
<1> QED
  BY <1>1, <1>2, <1>3, <1>4, <1>5, <1>6 DEF EdgeNext, MainStep, WatcherStep

(* The process keeps what RunOutcome promises of its exit code and Stats.  *)
THEOREM OutcomeCorrect == EdgeSpec => KeepsOutcome
<1>1. EdgeInit => Outcome!Init
  BY DEF EdgeInit, Init, Config, Outcome!Init
<1> QED
  BY <1>1, OutcomeStep, EdgeCorrect, PTL
  DEF EdgeSpec, KeepsOutcome, Outcome!Spec
=============================================================================
