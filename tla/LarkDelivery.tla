---------------------------- MODULE LarkDelivery ----------------------------
(***************************************************************************)
(* The outbox of one design task and the worker that delivers it: rows are *)
(* claimed with a lease, their cards posted to the group one after the     *)
(* other, and what came of each post is committed before the next.  What   *)
(* queues the timed rows is module LarkReminders.                          *)
(*                                                                         *)
(* Leases and retry delays end by steps of their own.                      *)
(***************************************************************************)
EXTENDS Integers

CONSTANTS
  Timed,        \* rows of a reminder: they need the stage and the access
  Immediate,    \* rows queued with the customer's own action
  MaxAttempts,  \* lark_delivery_max_attempts
  MaxFaults,    \* bound: stops of the process, and deliveries not recorded
  MaxChanges    \* bound: changes of the customer's access

Rows == Timed \union Immediate

ASSUME DeliveryAssumption ==
  /\ Rows \subseteq Nat /\ Timed \intersect Immediate = {}
  /\ MaxAttempts \in Nat \ {0} /\ MaxFaults \in Nat /\ MaxChanges \in Nat

VARIABLES
  access,   \* the customer's
  stage,    \* whether the task still waits where its reminders belong
  outbox,   \* notification_outbox
  worker,   \* LarkWorker, between a claim and the end of its cycle
  faults, changes

vars == <<access, stage, outbox, worker, faults, changes>>

-----------------------------------------------------------------------------

Undecided == {"pending", "retrying"}
Decided == {"sent", "failed", "skipped"}

\* posts is history: cards that reached the group.
Row == [status : {"absent"} \union Undecided \union Decided, attempts : 0..MaxAttempts,
        claimed : BOOLEAN, resting : BOOLEAN, posts : Nat]
Absent == [status |-> "absent", attempts |-> 0, claimed |-> FALSE, resting |-> FALSE,
           posts |-> 0]

\* accepted: the group has answered; lost: the card reached it and the answer did
\* not come back; retry: an outage, or a channel that is not ready; rejected: by
\* the group, for good.
Sendings == {"accepted", "lost", "retry", "rejected"}

Worker == [claims : SUBSET Rows, row : Rows \union {-1},
           answer : Sendings \union {"none", "skip", "release"}]
Resting == [claims |-> {}, row |-> -1, answer |-> "none"]

Init ==
  /\ access = "active"
  /\ stage = "waiting"
  /\ outbox = [k \in Rows |-> Absent]
  /\ worker = Resting
  /\ faults = 0
  /\ changes = 0

-----------------------------------------------------------------------------
(* The task and the customer's access.                                     *)

\* enqueue_immediate; for a timed row the scan's INSERT OR IGNORE.
Queue(k) ==
  /\ outbox[k].status = "absent"
  /\ k \in Timed => stage = "waiting"
  /\ outbox' = [outbox EXCEPT ![k].status = "pending"]
  /\ UNCHANGED <<access, stage, worker, faults, changes>>

\* "over" is an active access that has expired: _process_one, which goes by the
\* clock of its claim, does not see it.
AccessChanges ==
  /\ changes < MaxChanges
  /\ changes' = changes + 1
  /\ access' \in {"active", "stopped", "over"} \ {access}
  /\ UNCHANGED <<stage, outbox, worker, faults>>

StageLeft ==
  /\ stage' = "left"
  /\ UNCHANGED <<access, outbox, worker, faults, changes>>

-----------------------------------------------------------------------------
(* LarkWorker: process_outbox.                                             *)

\* Mutant: a row that was tried is not looked for.
ClaimablePending(k) ==
  /\ outbox[k].status = "pending"
  /\ ~outbox[k].resting
  /\ ~outbox[k].claimed
  /\ k \in Timed => access = "active"

\* The eligible query.
Claimable(k) ==
  /\ outbox[k].status \in Undecided
  /\ ~outbox[k].resting
  /\ ~outbox[k].claimed
  /\ k \in Timed => access = "active"

\* The claims are committed before any card is posted.
Claim ==
  LET claims == {k \in Rows : Claimable(k)}
  IN  /\ worker = Resting
      /\ claims # {}
      /\ outbox' = [k \in Rows |-> [outbox[k] EXCEPT !.claimed = @ \/ k \in claims]]
      /\ worker' = [Resting EXCEPT !.claims = claims]
      /\ UNCHANGED <<access, stage, faults, changes>>

\* _process_one, as far as the answer of the group.
Answer(k, answer) ==
  CASE k \in Timed /\ stage = "left" -> answer = "skip"
    [] k \in Timed /\ stage = "waiting" /\ access = "stopped" -> answer = "release"
    [] OTHER -> answer \in Sendings

Post(k) ==
  /\ worker.answer = "none"
  /\ k \in worker.claims /\ \A j \in worker.claims : k <= j
  /\ \E answer \in Sendings \union {"skip", "release"} :
       /\ Answer(k, answer)
       /\ worker' = [worker EXCEPT !.row = k, !.answer = answer]
       /\ outbox' = [outbox EXCEPT ![k].posts = @ + IF answer \in {"accepted", "lost"}
                                                    THEN 1 ELSE 0]
  /\ UNCHANGED <<access, stage, faults, changes>>

\* Mutant: an attempt that may be repeated is not counted.
AttemptedFree(row, answer) ==
  CASE answer = "skip" -> [row EXCEPT !.status = "skipped"]
    [] answer = "accepted" -> [row EXCEPT !.status = "sent", !.attempts = @ + 1]
    [] answer = "rejected" -> [row EXCEPT !.status = "failed", !.attempts = @ + 1]
    [] answer \in {"lost", "retry"} -> [row EXCEPT !.status = "retrying", !.resting = TRUE]

\* The row after an attempt.
Attempted(row, answer) ==
  CASE answer = "skip" -> [row EXCEPT !.status = "skipped"]
    [] answer = "accepted" -> [row EXCEPT !.status = "sent", !.attempts = @ + 1]
    [] answer = "rejected" -> [row EXCEPT !.status = "failed", !.attempts = @ + 1]
    [] answer \in {"lost", "retry"} /\ row.attempts + 1 < MaxAttempts ->
         [row EXCEPT !.status = "retrying", !.attempts = @ + 1, !.resting = TRUE]
    [] answer \in {"lost", "retry"} /\ row.attempts + 1 >= MaxAttempts ->
         [row EXCEPT !.status = "failed", !.attempts = @ + 1]

NextRow == [Resting EXCEPT !.claims = worker.claims \ {worker.row}]

Record ==
  /\ worker.answer \in Sendings \union {"skip"}
  /\ outbox' = [outbox EXCEPT ![worker.row] =
       [Attempted(@, worker.answer) EXCEPT !.claimed = FALSE]]
  /\ worker' = NextRow
  /\ UNCHANGED <<access, stage, faults, changes>>

\* CustomerAccessUnavailableError: the claim is given back; or the statement that
\* gives it back fails (it reads a row that the rollback has expired), the cycle
\* ends and every claim it holds waits for its lease.
Release ==
  /\ worker.answer = "release"
  /\ \/ /\ outbox' = [outbox EXCEPT ![worker.row].claimed = FALSE]
        /\ worker' = NextRow
     \/ /\ worker' = Resting
        /\ UNCHANGED outbox
  /\ UNCHANGED <<access, stage, faults, changes>>

\* Anything else is raised: rolled back and tried again without being counted; or
\* the statement that says so fails too, and the cycle ends.
RecordFails ==
  /\ worker.answer \in Sendings \union {"skip"}
  /\ faults < MaxFaults
  /\ faults' = faults + 1
  /\ \/ /\ outbox' = [outbox EXCEPT ![worker.row].status = "retrying",
                                    ![worker.row].resting = TRUE,
                                    ![worker.row].claimed = FALSE]
        /\ worker' = NextRow
     \/ /\ worker' = Resting
        /\ UNCHANGED outbox
  /\ UNCHANGED <<access, stage, changes>>

\* claim_expires_at passes: only one worker runs, and it claims when it rests.
LeaseEnds(k) ==
  /\ outbox[k].claimed
  /\ k \notin worker.claims
  /\ outbox' = [outbox EXCEPT ![k].claimed = FALSE]
  /\ UNCHANGED <<access, stage, worker, faults, changes>>

\* next_attempt_at passes.
DelayEnds(k) ==
  /\ outbox[k].resting
  /\ outbox' = [outbox EXCEPT ![k].resting = FALSE]
  /\ UNCHANGED <<access, stage, worker, faults, changes>>

\* The process stops; the next one starts a worker.
Crash ==
  /\ faults < MaxFaults
  /\ faults' = faults + 1
  /\ worker' = Resting
  /\ UNCHANGED <<access, stage, outbox, changes>>

-----------------------------------------------------------------------------

Work == Claim \/ (\E k \in Rows : Post(k)) \/ Record \/ Release

Next ==
  \/ \E k \in Rows : Queue(k)
  \/ AccessChanges \/ StageLeft
  \/ Work \/ RecordFails
  \/ \E k \in Rows : LeaseEnds(k) \/ DelayEnds(k)
  \/ Crash

Spec == Init /\ [][Next]_vars

\* LarkWorker._run goes on after every exception, its posts have a timeout, and
\* seconds pass.
FairSpec ==
  /\ Spec
  /\ WF_vars(Work)
  /\ \A k \in Rows : WF_vars(LeaseEnds(k)) /\ WF_vars(DelayEnds(k))

-----------------------------------------------------------------------------
(* Properties.                                                             *)

\* The types of every variable; a row is counted no more often than the limit.
TypeOK ==
  /\ access \in {"active", "stopped", "over"}
  /\ stage \in {"waiting", "left"}
  /\ outbox \in [Rows -> Row]
  /\ worker \in Worker
  /\ faults \in 0..MaxFaults
  /\ changes \in 0..MaxChanges

\* The group sees a notification once, but for attempts that were counted
\* (LarkWebhookClient lost the answer), and for every time the process stopped or
\* its commit failed between a post and its record.
PostsBounded == \A k \in Rows : outbox[k].posts <= MaxAttempts + faults

\* Every notification is decided in the end, through retries, abandoned claims
\* and restarts of the process; a timed one if the access it depends on lasts.
Notified ==
  \A k \in Rows :
    outbox[k].status \in Undecided ~>
      \/ outbox[k].status \in Decided
      \/ k \in Timed /\ access # "active"

=============================================================================
