----------------------------- MODULE RunOutcome -----------------------------
(***************************************************************************)
(* What one invocation promises whoever reads its exit code: records are   *)
(* acked or failed one at a time, never more than were asked for and, but  *)
(* for a run told to continue on errors, none after a failed one; 0 means  *)
(* all of them were acked, 130 that the run was interrupted, and 1 neither.*)
(***************************************************************************)
EXTENDS Integers

CONSTANT Counts

VARIABLES
  count,        \* the records asked for (<= 0: no limit)
  tolerant,     \* whether failed records are gone past
  acked, failed,
  interrupted,
  code          \* -1 while the run goes on, then the exit code

vars == <<count, tolerant, acked, failed, interrupted, code>>

Init ==
  /\ count \in Counts
  /\ tolerant \in BOOLEAN
  /\ acked = 0 /\ failed = 0
  /\ interrupted = FALSE
  /\ code = -1

Going ==
  /\ code = -1
  /\ count > 0 => acked + failed < count
  /\ failed > 0 => tolerant

Ack ==
  /\ Going
  /\ acked' = acked + 1
  /\ UNCHANGED <<count, tolerant, failed, interrupted, code>>

Fail ==
  /\ Going
  /\ failed' = failed + 1
  /\ UNCHANGED <<count, tolerant, acked, interrupted, code>>

(* A signal that arrives once the code is chosen changes nothing.          *)
Interrupt ==
  /\ interrupted' = TRUE
  /\ UNCHANGED <<count, tolerant, acked, failed, code>>

End ==
  /\ code = -1
  /\ \/ code' = 130 /\ interrupted
     \/ code' = 1 /\ ~interrupted
     \/ code' = 0 /\ ~interrupted /\ failed = 0 /\ count > 0 /\ acked = count
  /\ UNCHANGED <<count, tolerant, acked, failed, interrupted>>

Next == Ack \/ Fail \/ Interrupt \/ End

Spec == Init /\ [][Next]_vars
=============================================================================
