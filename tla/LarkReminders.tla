---------------------------- MODULE LarkReminders ----------------------------
(***************************************************************************)
(* The reminders of one design task: the snapshot of the stage the task    *)
(* waits in, and the worker's scan that turns it into notifications, while *)
(* the customer's access (CustomerAccess) is stopped, resumed, prolonged   *)
(* or runs out.  Their delivery is module LarkDelivery; the customer's      *)
(* sessions are left to CustomerAccess (Sessions is empty here).           *)
(*                                                                         *)
(* The clock counts hours, the unit of thresholds and intervals.           *)
(***************************************************************************)
EXTENDS CustomerAccess

CONSTANTS
  Threshold, Interval, MaxRepeat   \* the timed rule, as the snapshot keeps it

ASSUME RuleAssumption ==
  Threshold \in Nat \ {0} /\ Interval \in Nat \ {0} /\ MaxRepeat \in Nat

VARIABLES
  stage,     \* status of the design task
  snap,      \* its lark_reminder_snapshots row
  queued,    \* reminders in notification_outbox, by index
  taken,     \* the snapshot an administrator's request has read
  worker,    \* LarkWorker, in the middle of a scan
  served,    \* history: hours of access since the stage was entered
  slipped,   \* history: names of what disturbed the reminder clock
  early      \* history: a reminder was queued before its hours of access

history == <<served, slipped, early>>
vars == <<now, customer, handler, session, visit, stage, snap, queued, taken, worker,
          served, slipped, early>>

-----------------------------------------------------------------------------

Reminders == 0..MaxRepeat

Stages == {"none", "waiting", "accepted"}

Snap == [active : BOOLEAN, due : Nat, index : -1..MaxRepeat, pausedAt : Nat, pausedDue : Nat]
NoSnap == [active |-> FALSE, due |-> 0, index |-> -1, pausedAt |-> 0, pausedDue |-> 0]

\* A reminder in the outbox; off is history: the scan that queued it had found
\* the customer's access over.
Queued == {"no", "on", "off"}

\* What a scan holds: the clock it read, the snapshot as loaded, whether it is
\* pausing it, whether the due query returned it, the task as read.
Worker == [pc : {"rest", "read", "listed"}, at : Nat, copy : Snap, pausing : BOOLEAN,
           fires : BOOLEAN, boundary : Nat, stage : Stages, served : Nat]
Resting == [pc |-> "rest", at |-> 0, copy |-> NoSnap, pausing |-> FALSE, fires |-> FALSE,
            boundary |-> 0, stage |-> "none", served |-> 0]

\* What may disturb the reminder clock: a commit of an administrator's request
\* within a scan or another request, or of a scan within a request; an expiry
\* that was prolonged away before a scan saw it; a stop that missed a snapshot
\* adopted within it; a scan that both pauses a snapshot and queues its reminder.
Slips == {"overlapped", "unnoticed", "unseen", "pausedAndFired"}

Running(s) == s.active /\ s.pausedAt = NoTime
Paused(s) == s.active /\ s.pausedAt # NoTime
Busy == \E a \in Admins : handler[a].op # "none"
Scanning == worker.pc # "rest"

LarkInit ==
  /\ Init
  /\ stage = "none"
  /\ snap = NoSnap
  /\ queued = [k \in Reminders |-> "no"]
  /\ taken = [a \in Admins |-> NoSnap]
  /\ worker = Resting
  /\ served = 0
  /\ slipped = {}
  /\ early = FALSE

-----------------------------------------------------------------------------
(* Administrators: the access, and the snapshot with it.                   *)

\* The rows pause_customer or resume_customer will change.
Picked(a, wanted) == taken' = [taken EXCEPT ![a] = IF wanted THEN snap ELSE NoSnap]

Enable(a) ==
  /\ EnableRead(a)
  /\ UNCHANGED <<visit, stage, snap, queued, taken, worker, history>>

Request(a) ==
  /\ \/ StopRead(a) /\ Picked(a, Running(snap))
     \/ ResumeRead(a) /\ Picked(a, Paused(snap))
     \/ ExtendRead(a) /\ Picked(a, Paused(snap) /\ Status = "expired"
                                   /\ customer.state = "active")
  /\ UNCHANGED <<visit, stage, snap, queued, worker, history>>

Left(s) == IF s.pausedDue > s.pausedAt THEN s.pausedDue - s.pausedAt ELSE 0

\* pause_customer
PausedBy(a) == [snap EXCEPT !.pausedAt = handler[a].at, !.pausedDue = taken[a].due]

\* Mutant: the reminder goes on where it was due.
ResumedLate(a) == [snap EXCEPT !.pausedAt = NoTime, !.pausedDue = 0]

\* resume_customer: what was left of the wait begins now.
ResumedBy(a) ==
  [snap EXCEPT !.due = Written(taken[a].due, handler[a].at + Left(taken[a]), snap.due),
               !.pausedAt = NoTime, !.pausedDue = 0]

\* Mutant: a prolonged access leaves its snapshot paused.
ChangedByStopOrResume(a) ==
  CASE taken[a] = NoSnap \/ handler[a].op = "extend" -> snap
    [] taken[a] # NoSnap /\ handler[a].op = "stop" -> PausedBy(a)
    [] taken[a] # NoSnap /\ handler[a].op = "resume" -> ResumedBy(a)

Changed(a) ==
  CASE taken[a] = NoSnap -> snap
    [] taken[a] # NoSnap /\ handler[a].op = "stop" -> PausedBy(a)
    [] taken[a] # NoSnap /\ handler[a].op \in {"resume", "extend"} -> ResumedBy(a)

\* A slip as a set: empty unless it happened.
Slip(name, happened) == {n \in {name} : happened}

Change(a) ==
  /\ Commit(a)
  /\ snap' = Changed(a)
  /\ taken' = [taken EXCEPT ![a] = NoSnap]
  /\ slipped' = slipped
       \union Slip("overlapped", Scanning \/ \E b \in Admins \ {a} : handler[b].op # "none")
       \union Slip("unnoticed", /\ handler[a].op = "extend" /\ Status = "expired"
                                /\ taken[a] = NoSnap)
  /\ UNCHANGED <<visit, stage, queued, worker, served, early>>

\* snapshot_stage, within the adoption by a customer with access.
Adopt ==
  /\ stage = "none"
  /\ Available
  /\ stage' = "waiting"
  /\ snap' = [NoSnap EXCEPT !.active = TRUE, !.due = now + Threshold]
  /\ UNCHANGED <<accessVars, queued, taken, worker, history>>

\* TaskCenterService.accept: the stage is left, stop_task ends its snapshot.
Accept ==
  /\ stage = "waiting"
  /\ stage' = "accepted"
  /\ snap' = [snap EXCEPT !.active = FALSE]
  /\ UNCHANGED <<accessVars, queued, taken, worker, history>>

\* An hour passes; an administrator's request does not take one.
Hour ==
  /\ Tick
  /\ ~Busy
  /\ served' = served + IF stage = "waiting" /\ Available /\ slipped = {} THEN 1 ELSE 0
  /\ slipped' = slipped
       \union Slip("unseen", customer.state = "stopped" /\ Running(snap))
  /\ UNCHANGED <<visit, stage, snap, queued, taken, worker, early>>

-----------------------------------------------------------------------------
(* The worker: scan_due_reminders.                                         *)

\* _access_pause_boundary
Boundary == IF customer.state = "active" /\ customer.expires <= now
            THEN customer.expires ELSE now

\* Every running snapshot is loaded, and marked in memory if its access is over.
ScanRead ==
  /\ worker.pc = "rest"
  /\ worker' = [Resting EXCEPT !.pc = "read", !.at = now, !.stage = stage, !.served = served,
                               !.copy = IF Running(snap) THEN snap ELSE NoSnap,
                               !.pausing = Running(snap) /\ ~Available,
                               !.boundary = Boundary]
  /\ UNCHANGED <<accessVars, stage, snap, queued, taken, history>>

\* The second query sees the table, not the marks: autoflush is off.
ScanDue ==
  /\ worker.pc = "read"
  /\ worker' = [worker EXCEPT !.pc = "listed",
                              !.fires = Running(snap) /\ snap.due <= worker.at,
                              !.copy = IF @ = NoSnap THEN snap ELSE @]
  /\ UNCHANGED <<accessVars, stage, snap, queued, taken, history>>

NextIndex == worker.copy.index + 1
StageLeft == worker.fires /\ worker.stage # "waiting"
OverLimit == worker.fires /\ worker.stage = "waiting" /\ NextIndex > MaxRepeat
Queues == /\ worker.fires /\ worker.stage = "waiting" /\ NextIndex <= MaxRepeat
          /\ queued[NextIndex] = "no"

\* The copy as the scan leaves it.
Scanned ==
  LET marked == IF worker.pausing
                THEN [worker.copy EXCEPT !.pausedAt = worker.boundary,
                                           !.pausedDue = worker.copy.due]
                ELSE worker.copy
  IN  CASE StageLeft \/ OverLimit -> [marked EXCEPT !.active = FALSE]
        [] Queues /\ NextIndex = MaxRepeat -> [marked EXCEPT !.index = NextIndex, !.active = FALSE]
        [] Queues /\ NextIndex < MaxRepeat -> [marked EXCEPT !.index = NextIndex,
                                                             !.due = @ + Interval]
        [] OTHER -> marked

\* The flush: the columns that changed, whatever the row says by now.
Flushed ==
  [active |-> Written(worker.copy.active, Scanned.active, snap.active),
   due |-> Written(worker.copy.due, Scanned.due, snap.due),
   index |-> Written(worker.copy.index, Scanned.index, snap.index),
   pausedAt |-> Written(worker.copy.pausedAt, Scanned.pausedAt, snap.pausedAt),
   pausedDue |-> Written(worker.copy.pausedDue, Scanned.pausedDue, snap.pausedDue)]

\* One transaction, up to the commit of the claims: the reminder, the flush.
ScanCommit ==
  /\ worker.pc = "listed"
  /\ snap' = Flushed
  /\ queued' = IF Queues
               THEN [queued EXCEPT ![NextIndex] = IF worker.pausing THEN "off" ELSE "on"]
               ELSE queued
  /\ worker' = Resting
  /\ slipped' = slipped
       \union Slip("overlapped", Busy /\ (worker.pausing \/ worker.fires))
       \union Slip("pausedAndFired", worker.pausing /\ worker.fires)
  /\ early' = (early \/ /\ Queues /\ slipped = {} /\ ~worker.pausing
                        /\ worker.served < Threshold + NextIndex * Interval)
  /\ UNCHANGED <<accessVars, stage, taken, served>>

\* The process stops, with the requests it serves; the next one starts a worker.
Crash ==
  /\ worker' = Resting
  /\ handler' = [a \in Admins |-> NoRequest]
  /\ taken' = [a \in Admins |-> NoSnap]
  /\ UNCHANGED <<now, customer, session, visit, stage, snap, queued, history>>

-----------------------------------------------------------------------------

Next ==
  \/ \E a \in Admins : Enable(a) \/ Request(a) \/ Change(a)
  \/ Adopt \/ Accept
  \/ Hour
  \/ ScanRead \/ ScanDue \/ ScanCommit
  \/ Crash

Spec == LarkInit /\ [][Next]_vars

-----------------------------------------------------------------------------
(* Properties.                                                             *)

\* The types of every variable.
TypeOK ==
  /\ AccessTypeOK
  /\ stage \in Stages
  /\ snap \in Snap
  /\ queued \in [Reminders -> Queued]
  /\ taken \in [Admins -> Snap]
  /\ worker \in Worker
  /\ served \in Nat
  /\ slipped \subseteq Slips
  /\ early \in BOOLEAN

\* Unless an administrator's request overlapped a scan, the reminder clock of a
\* customer who has access is running: what pause_customer or the scan froze,
\* every resumption and every prolongation has thawed.
ClockRunsForActive == "overlapped" \notin slipped /\ Paused(snap) => ~Available

\* Unless one of Slips happened, no reminder is queued before its threshold and
\* intervals have passed as hours of access: the hours of a pause do not count.
NotEarly == ~early

\* LarkWorkflowService.resume_customer: "Resume paused timeout snapshots without
\* catch-up reminders."  No reminder is queued for a customer whose access the
\* scan has found over: it would be delivered as soon as the access is back.
NoCatchUp == \A k \in Reminders : queued[k] # "off"

=============================================================================
