---------------------------- MODULE CandidateOnce ----------------------------
(***************************************************************************)
(* What a candidate promises to the customer who pays for it, and an edit  *)
(* likewise, without coroutines, sessions or restarts: the provider is     *)
(* charged at most once, the outcome is decided once, and an image is      *)
(* delivered only for a charge.  A charged candidate may still fail (the   *)
(* provider's task fails, or its identifier is lost).  The provider may    *)
(* answer a creation with an error although it made the task: such tasks   *)
(* are wasted, and nothing is wasted any more once there was a charge.     *)
(***************************************************************************)
EXTENDS Naturals

VARIABLES
  outcome,   \* "open" until decided
  charged,   \* provider tasks created for the candidate, but for
  wasted     \* those whose creation was answered with an error

vars == <<outcome, charged, wasted>>

Init == outcome = "open" /\ charged = 0 /\ wasted = 0

Charge ==
  /\ outcome = "open"
  /\ charged = 0
  /\ charged' = 1
  /\ UNCHANGED <<outcome, wasted>>

Waste ==
  /\ outcome = "open"
  /\ charged = 0
  /\ wasted' = wasted + 1
  /\ UNCHANGED <<outcome, charged>>

Deliver ==
  /\ outcome = "open"
  /\ charged = 1
  /\ outcome' = "done"
  /\ UNCHANGED <<charged, wasted>>

Fail ==
  /\ outcome = "open"
  /\ outcome' = "failed"
  /\ UNCHANGED <<charged, wasted>>

Next == Charge \/ Waste \/ Deliver \/ Fail

Safety == Init /\ [][Next]_vars

Spec == Safety /\ WF_vars(Deliver \/ Fail)

=============================================================================
