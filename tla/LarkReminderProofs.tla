-------------------------- MODULE LarkReminderProofs --------------------------
(***************************************************************************)
(* Theorems of LarkReminders, for any administrators, times and rule: no   *)
(* reminder clock stands still while the customer has access, and none     *)
(* counts the hours without it.                                            *)
(***************************************************************************)
EXTENDS LarkReminders, CustomerAccessProofs

-----------------------------------------------------------------------------
(* The inductive invariant.                                                *)

\* What a request has found out, and what it is to write.
HandlerInv ==
  \A a \in Admins :
    /\ handler[a].op = "enable" => handler[a].read.state = "unstarted"
    /\ handler[a].op \in {"stop", "resume"}
         => /\ handler[a].read.expires > handler[a].at
            /\ handler[a].expires = handler[a].read.expires
    /\ handler[a].op = "stop" => handler[a].read.state = "active"
    /\ handler[a].op = "resume" => handler[a].read.state = "stopped"
    /\ handler[a].op = "extend"
         => /\ handler[a].expires > handler[a].at
            /\ handler[a].read.state # "unstarted"

\* The snapshot a request has found: a stop takes one that runs, a resumption
\* and a prolongation one that is paused.
TakenInv ==
  \A a \in Admins :
    /\ handler[a].op \in {"none", "enable"} => taken[a] = NoSnap
    /\ taken[a] # NoSnap =>
         /\ stage # "none"
         /\ handler[a].op = "stop" => Running(taken[a])
         /\ handler[a].op \in {"resume", "extend"} => Paused(taken[a])
         /\ handler[a].op \in {"stop", "resume", "extend"}

\* The worker's copies are of the past, and of a task.
WorkerInv ==
  /\ worker.at <= now /\ worker.served <= served
  /\ worker.copy.active => stage # "none"
  /\ worker.pausing => worker.pc # "rest" /\ Running(worker.copy)
  /\ worker.fires => worker.pc = "listed" /\ stage # "none"
  /\ worker.pc = "rest" => worker.copy = NoSnap
  /\ worker.pc = "read" => worker.copy = NoSnap \/ Running(worker.copy)

\* Only the task's own stage has a snapshot, and only with an access.
StageInv ==
  /\ snap.active => stage = "waiting"
  /\ stage = "none" => snap = NoSnap
  /\ customer.state = "unstarted" => ~snap.active /\ ~worker.pausing

\* Unless something overlapped, what a request has read is how things are.
FreshInv ==
  \A a \in Admins :
    handler[a].op # "none" =>
      /\ handler[a].at = now /\ handler[a].read = customer
      /\ taken[a] # NoSnap /\ snap.active => snap = taken[a]
      /\ handler[a].op = "resume" /\ taken[a] = NoSnap => ~Paused(snap)
      /\ handler[a].op = "extend" /\ taken[a] = NoSnap /\ customer.state = "active"
           => ~Paused(snap)

\* So is what the scan has read.
ScanInv ==
  /\ worker.pausing => ~Available
  /\ worker.copy.active /\ snap.active => snap = worker.copy

\* The clock of a paused snapshot stands still without access only.
ClockInv ==
  "overlapped" \notin slipped =>
    /\ FreshInv
    /\ ScanInv
    /\ Paused(snap) => ~Available

\* Hours of access before the reminder with an index.
Needed(k) == Threshold + k * Interval

\* A running clock will have counted them when it is due: as of now, or as of
\* the expiry that no scan has seen yet.  A paused one, when it has run again
\* for what was left of it.
CountsInv ==
  /\ Running(snap) => served + snap.due - Boundary >= Needed(snap.index + 1)
  /\ Paused(snap) => served + Left(snap) >= Needed(snap.index + 1)

\* So will the copy that a scan pauses or fires.
CopyInv ==
  /\ (worker.pc = "read" /\ worker.copy.active)
       \/ (worker.pc = "listed" /\ (worker.pausing \/ worker.fires))
     => /\ Running(worker.copy)
        /\ worker.served + worker.copy.due - worker.boundary >= Needed(worker.copy.index + 1)
        /\ worker.pausing \/ worker.boundary = worker.at
  /\ worker.fires => worker.copy.due <= worker.at
  /\ worker.pc = "read" /\ ~worker.copy.active /\ Running(snap) => snap.due > worker.at

\* Unless something slipped, the clocks count the hours of access.
HoursInv == slipped = {} => CountsInv /\ CopyInv

-----------------------------------------------------------------------------
(* Types.                                                                  *)

RemindersTypeInv == TypeOK /\ now \in 1..(MaxTime + 1)

\* The constants and the records that stand for nothing.
LEMMA ReminderNothing ==
  /\ NoSnap \in Snap /\ Resting \in Worker /\ ~NoSnap.active /\ Times \subseteq Nat
  /\ Resting.pc = "rest" /\ Resting.copy = NoSnap /\ ~Resting.pausing /\ ~Resting.fires
  /\ Resting.at = 0 /\ Resting.served = 0
BY RuleAssumption, TimesAssumption DEF NoSnap, Snap, Resting, Worker, Stages, Times

\* What is left of a paused snapshot, and the boundary of a pause, are times.
LEMMA ReminderTimes ==
  ASSUME RemindersTypeInv
  PROVE  /\ Boundary \in Nat /\ Boundary <= now /\ now \in Nat
         /\ \A s \in Snap : Left(s) \in Nat
         /\ customer.expires \in Nat
<1>1. customer.expires \in Nat /\ now \in Nat
  BY ReminderNothing DEF RemindersTypeInv, TypeOK, AccessTypeOK, Access
<1>2. Boundary \in Nat /\ Boundary <= now
  BY <1>1 DEF Boundary
<1>3. \A s \in Snap : Left(s) \in Nat
  BY DEF Left, Snap
<1>4. QED
  BY <1>1, <1>2, <1>3

\* Initially.
LEMMA InitReminderTypes == LarkInit => RemindersTypeInv
<1> SUFFICES ASSUME LarkInit PROVE RemindersTypeInv
  OBVIOUS
<1>1. AccessTypeInv
  BY InitTypes DEF LarkInit
<1>2. QED
  BY <1>1, ReminderNothing
  DEF LarkInit, RemindersTypeInv, TypeOK, AccessTypeInv, Stages, Queued, Slips

\* A change of a snapshot's columns keeps it a snapshot.
LEMMA ChangedTypes ==
  ASSUME RemindersTypeInv, TakenInv, NEW a \in Admins, handler[a].op # "none"
  PROVE  Changed(a) \in Snap
<1>1. snap \in Snap /\ taken[a] \in Snap /\ handler[a] \in Handler
  BY DEF RemindersTypeInv, TypeOK, AccessTypeOK
<1>2. handler[a].at \in Nat
  BY <1>1, ReminderNothing DEF Handler
<1>3. PausedBy(a) \in Snap
  BY <1>1, <1>2 DEF PausedBy, Snap
<1>4. ResumedBy(a) \in Snap
  <2>1. Written(taken[a].due, handler[a].at + Left(taken[a]), snap.due) \in Nat
    BY <1>1, <1>2, ReminderTimes DEF Written, Snap
  <2>2. QED
    BY <1>1, <2>1 DEF ResumedBy, Snap, NoTime
<1>5. taken[a] # NoSnap => handler[a].op \in {"stop", "resume", "extend"}
  BY DEF TakenInv
<1>6. QED
  BY <1>1, <1>3, <1>4, <1>5 DEF Changed

\* What the scan makes of its copy, and what it flushes.
LEMMA ScannedTypes ==
  ASSUME RemindersTypeInv
  PROVE  Scanned \in Snap /\ Flushed \in Snap
<1> DEFINE copy == worker.copy
           marked == IF worker.pausing
                     THEN [copy EXCEPT !.pausedAt = worker.boundary, !.pausedDue = copy.due]
                     ELSE copy
<1>1. copy \in Snap /\ worker.boundary \in Nat /\ snap \in Snap
  BY DEF RemindersTypeInv, TypeOK, Worker
<1>2. marked \in Snap /\ marked.index = copy.index /\ marked.due = copy.due
  BY <1>1 DEF Snap
<1>3. NextIndex \in 0..(MaxRepeat + 1)
  BY <1>1, RuleAssumption DEF NextIndex, Snap
<1>4. Scanned = CASE StageLeft \/ OverLimit -> [marked EXCEPT !.active = FALSE]
        [] Queues /\ NextIndex = MaxRepeat -> [marked EXCEPT !.index = NextIndex, !.active = FALSE]
        [] Queues /\ NextIndex < MaxRepeat -> [marked EXCEPT !.index = NextIndex,
                                                             !.due = @ + Interval]
        [] OTHER -> marked
  BY DEF Scanned
<1> HIDE DEF marked
<1>5. [marked EXCEPT !.active = FALSE] \in Snap
  BY <1>2 DEF Snap
<1>6. ASSUME NextIndex <= MaxRepeat
      PROVE  /\ [marked EXCEPT !.index = NextIndex, !.active = FALSE] \in Snap
             /\ [marked EXCEPT !.index = NextIndex, !.due = @ + Interval] \in Snap
  <2>1. NextIndex \in -1..MaxRepeat
    BY <1>3, <1>6, RuleAssumption
  <2>2. marked.due + Interval \in Nat
    BY <1>2, RuleAssumption DEF Snap
  <2>3. [marked EXCEPT !.index = NextIndex, !.active = FALSE] \in Snap
    BY <1>2, <2>1 DEF Snap
  <2>4. [marked EXCEPT !.index = NextIndex, !.due = @ + Interval] \in Snap
    BY <1>2, <2>1, <2>2 DEF Snap
  <2>5. QED
    BY <2>3, <2>4
<1>7. NextIndex \in Int /\ MaxRepeat \in Int
  BY <1>3, RuleAssumption
<1>8. Scanned \in Snap
  BY <1>2, <1>4, <1>5, <1>6, <1>7
<1>9. Flushed \in Snap
  BY <1>1, <1>8 DEF Flushed, Written, Snap
<1>10. QED
  BY <1>8, <1>9

-----------------------------------------------------------------------------
(* Requests, snapshots and copies.                                         *)

BaseInv ==
  /\ RemindersTypeInv
  /\ HandlerInv
  /\ TakenInv
  /\ WorkerInv
  /\ StageInv

\* What derive_status says.
LEMMA StatusMeans ==
  ASSUME RemindersTypeInv
  PROVE  /\ Status = "unstarted" <=> customer.state = "unstarted"
         /\ Available <=> customer.state = "active" /\ customer.expires > now
         /\ Status = "stopped" <=> customer.state = "stopped" /\ customer.expires > now
         /\ Status = "expired" <=> customer.state # "unstarted" /\ customer.expires <= now
<1>1. customer.state \in {"unstarted", "active", "stopped"}
  BY DEF RemindersTypeInv, TypeOK, AccessTypeOK, Access
<1>2. customer.expires \in Nat /\ now \in Nat
  BY ReminderTimes
<1>3. QED
  BY <1>1, <1>2 DEF Status, StatusOf, Available

\* What a request that reads writes down.
LEMMA RequestFacts ==
  ASSUME RemindersTypeInv, TakenInv, NEW a \in Admins, Enable(a) \/ Request(a)
  PROVE  /\ UNCHANGED <<now, customer, session, visit, stage, snap, queued, worker, history>>
         /\ handler' \in [Admins -> Handler] /\ taken' \in [Admins -> Snap]
         /\ \A b \in Admins \ {a} : handler'[b] = handler[b] /\ taken'[b] = taken[b]
         /\ handler[a].op = "none"
         /\ handler'[a].at = now /\ handler'[a].read = customer
         /\ \/ /\ handler'[a].op = "enable" /\ taken'[a] = NoSnap
               /\ customer.state = "unstarted"
            \/ /\ handler'[a].op = "stop" /\ handler'[a].expires = customer.expires
               /\ customer.state = "active" /\ customer.expires > now
               /\ taken'[a] = IF Running(snap) THEN snap ELSE NoSnap
            \/ /\ handler'[a].op = "resume" /\ handler'[a].expires = customer.expires
               /\ customer.state = "stopped" /\ customer.expires > now
               /\ taken'[a] = IF Paused(snap) THEN snap ELSE NoSnap
            \/ /\ handler'[a].op = "extend" /\ handler'[a].expires > now
               /\ customer.state # "unstarted"
               /\ taken'[a] = IF Paused(snap) /\ customer.expires <= now
                                  /\ customer.state = "active"
                              THEN snap ELSE NoSnap
<1> DEFINE Asked(op, expires) ==
      [op |-> op, at |-> now, read |-> customer, expires |-> expires, live |-> LiveSessions]
<1> USE StatusMeans
<1>1. /\ AccessTypeInv /\ snap \in Snap
      /\ taken \in [Admins -> Snap] /\ handler \in [Admins -> Handler]
  BY DEF RemindersTypeInv, TypeOK, AccessTypeInv, AccessTypeOK
<1>2. Read(a)
  BY DEF Read, Enable, Request
<1>3. UNCHANGED <<now, customer, session>> /\ handler' \in [Admins -> Handler]
  BY <1>1, <1>2, ReadTypes
<1>4. UNCHANGED <<visit, stage, snap, queued, worker, history>>
  BY DEF Enable, Request
<1>5. \A op, expires : Requested(a, op, expires) =>
        /\ handler[a].op = "none" /\ handler'[a] = Asked(op, expires)
        /\ \A b \in Admins \ {a} : handler'[b] = handler[b]
  BY <1>1 DEF Requested
<1>6. \A wanted : Picked(a, wanted) =>
        /\ taken' \in [Admins -> Snap] /\ taken'[a] = IF wanted THEN snap ELSE NoSnap
        /\ \A b \in Admins \ {a} : taken'[b] = taken[b]
  BY <1>1, ReminderNothing DEF Picked
<1>7. CASE Enable(a)
  <2>1. Requested(a, "enable", now + Validity) /\ customer.state = "unstarted" /\ taken' = taken
    BY <1>7 DEF Enable, EnableRead
  <2>2. taken[a] = NoSnap
    BY <1>5, <2>1 DEF TakenInv
  <2>3. QED
    BY <1>1, <1>3, <1>4, <1>5, <2>1, <2>2
<1>8. CASE StopRead(a) /\ Picked(a, Running(snap))
  <2>1. Requested(a, "stop", customer.expires) /\ Available
    BY <1>8 DEF StopRead, Available
  <2>2. QED
    BY <1>3, <1>4, <1>5, <1>6, <1>8, <2>1
<1>9. CASE ResumeRead(a) /\ Picked(a, Paused(snap))
  <2>1. Requested(a, "resume", customer.expires) /\ Status = "stopped"
    BY <1>9 DEF ResumeRead
  <2>2. QED
    BY <1>3, <1>4, <1>5, <1>6, <1>9, <2>1
<1>10. CASE ExtendRead(a) /\ Picked(a, Paused(snap) /\ Status = "expired"
                                        /\ customer.state = "active")
  <2>1. PICK time \in (now + 1)..(MaxTime + 1) : Requested(a, "extend", time)
    BY <1>10 DEF ExtendRead
  <2>2. time > now /\ customer.state # "unstarted"
    BY <1>10, ReminderTimes, TimesAssumption DEF ExtendRead
  <2>3. taken'[a] = IF Paused(snap) /\ customer.expires <= now /\ customer.state = "active"
                    THEN snap ELSE NoSnap
    BY <1>6, <1>10, <2>2
  <2>4. QED
    BY <1>3, <1>4, <1>5, <1>6, <1>10, <2>1, <2>2, <2>3
<1>11. QED
  BY <1>7, <1>8, <1>9, <1>10 DEF Request

\* A request that reads keeps the facts about requests.
LEMMA RequestBase ==
  ASSUME BaseInv, NEW a \in Admins, Enable(a) \/ Request(a)
  PROVE  BaseInv'
<1> USE DEF BaseInv
<1>1. /\ UNCHANGED <<now, customer, session, visit, stage, snap, queued, worker>>
      /\ UNCHANGED <<served, slipped, early>>
      /\ handler' \in [Admins -> Handler] /\ taken' \in [Admins -> Snap]
  BY RequestFacts DEF history
<1>2. RemindersTypeInv'
  BY <1>1 DEF RemindersTypeInv, TypeOK, AccessTypeOK
<1>3. HandlerInv'
  BY RequestFacts DEF HandlerInv
<1>4. TakenInv'
  <2>1. ASSUME NEW b \in Admins \ {a}
        PROVE  handler'[b] = handler[b] /\ taken'[b] = taken[b]
    BY RequestFacts
  <2>2. /\ handler'[a].op = "enable" => taken'[a] = NoSnap
        /\ handler'[a].op # "none"
        /\ taken'[a] # NoSnap => /\ taken'[a] = snap
                                 /\ handler'[a].op = "stop" => Running(snap)
                                 /\ handler'[a].op \in {"resume", "extend"} => Paused(snap)
                                 /\ handler'[a].op \in {"stop", "resume", "extend"}
    BY RequestFacts
  <2>3. stage = "none" => snap = NoSnap
    BY DEF StageInv
  <2>4. QED
    BY <1>1, <2>1, <2>2, <2>3 DEF TakenInv, Running, Paused
<1>5. WorkerInv' /\ StageInv'
  BY <1>1 DEF WorkerInv, StageInv, Running
<1>6. QED
  BY <1>2, <1>3, <1>4, <1>5

\* What a request that commits changes.
LEMMA ChangeFacts ==
  ASSUME BaseInv, NEW a \in Admins, Change(a)
  PROVE  /\ UNCHANGED <<now, visit, stage, queued, worker, served, early>>
         /\ handler[a].op # "none" /\ snap' = Changed(a)
         /\ handler'[a] = NoRequest /\ taken'[a] = NoSnap
         /\ \A b \in Admins \ {a} : handler'[b] = handler[b] /\ taken'[b] = taken[b]
         /\ snap'.active = snap.active /\ snap'.index = snap.index
         /\ customer'.state = "unstarted" => customer.state = "unstarted"
         /\ taken[a] = NoSnap => snap' = snap
         /\ taken[a] # NoSnap => stage # "none"
<1> USE DEF BaseInv
<1>1. /\ UNCHANGED <<now, visit, stage, queued, worker, served, early>>
      /\ handler[a].op # "none" /\ snap' = Changed(a)
      /\ handler'[a] = NoRequest /\ taken'[a] = NoSnap
      /\ \A b \in Admins \ {a} : handler'[b] = handler[b] /\ taken'[b] = taken[b]
  BY DEF Change, Commit, RemindersTypeInv, TypeOK, AccessTypeOK
<1>2. snap \in Snap /\ taken[a] \in Snap /\ handler[a] \in Handler
  BY DEF RemindersTypeInv, TypeOK, AccessTypeOK
<1>3. PausedBy(a).active = snap.active /\ PausedBy(a).index = snap.index
  BY <1>2 DEF PausedBy, Snap
<1>4. ResumedBy(a).active = snap.active /\ ResumedBy(a).index = snap.index
  BY <1>2 DEF ResumedBy, Snap
<1>5. taken[a] # NoSnap => handler[a].op \in {"stop", "resume", "extend"} /\ stage # "none"
  BY DEF TakenInv
<1>6. taken[a] = NoSnap => snap' = snap
  BY <1>1 DEF Changed
<1>7. taken[a] # NoSnap => snap' \in {PausedBy(a), ResumedBy(a)}
  BY <1>1, <1>5 DEF Changed
<1>8. snap'.active = snap.active /\ snap'.index = snap.index
  BY <1>3, <1>4, <1>6, <1>7
<1>9. customer'.state = "unstarted" => customer.state = "unstarted"
  <2>1. CASE handler[a].op = "extend"
    <3>1. NewState(a) = handler[a].read.state
      BY <2>1 DEF NewState
    <3>2. QED
      BY <3>1 DEF Change, Commit, Written
  <2>2. CASE handler[a].op # "extend"
    <3>1. NewState(a) \in {"active", "stopped"}
      BY <1>1, <1>2, <2>2 DEF NewState, Handler
    <3>2. QED
      BY <3>1 DEF Change, Commit, Written
  <2>3. QED
    BY <2>1, <2>2
<1>10. QED
  BY <1>1, <1>5, <1>6, <1>8, <1>9

\* So does one that commits.
LEMMA ChangeBase ==
  ASSUME BaseInv, NEW a \in Admins, Change(a)
  PROVE  BaseInv'
<1> USE DEF BaseInv
<1>1. RemindersTypeInv'
  <2>1. AccessTypeInv /\ Commit(a)
    BY DEF RemindersTypeInv, TypeOK, AccessTypeInv, Change
  <2>2. /\ customer' \in Access /\ session' \in [Sessions -> Session]
        /\ handler' \in [Admins -> Handler] /\ now' = now
    BY <2>1, CommitTypes
  <2>3. snap' \in Snap
    BY ChangeFacts, ChangedTypes
  <2>4. taken' \in [Admins -> Snap]
    BY ReminderNothing DEF Change, RemindersTypeInv, TypeOK
  <2>5. slipped' \subseteq Slips
    BY DEF Change, Slip, Slips, RemindersTypeInv, TypeOK
  <2>6. UNCHANGED <<visit, stage, queued, worker, served, early>>
    BY ChangeFacts
  <2>7. QED
    BY <2>2, <2>3, <2>4, <2>5, <2>6 DEF RemindersTypeInv, TypeOK, AccessTypeOK
<1>2. HandlerInv'
  BY ChangeFacts DEF HandlerInv, NoRequest
<1>3. TakenInv'
  BY ChangeFacts DEF TakenInv, Running, Paused, NoRequest
<1>4. WorkerInv'
  BY ChangeFacts DEF WorkerInv, Running
<1>5. StageInv'
  BY ChangeFacts DEF StageInv, TakenInv
<1>6. QED
  BY <1>1, <1>2, <1>3, <1>4, <1>5

\* What an adoption and an acceptance change.
LEMMA StageFacts ==
  ASSUME BaseInv, Adopt \/ Accept
  PROVE  /\ UNCHANGED <<now, customer, handler, session, visit, queued, taken, worker>>
         /\ UNCHANGED <<served, slipped, early>>
         /\ stage' # "none" /\ snap' \in Snap
         /\ snap'.active => /\ Adopt /\ stage = "none" /\ stage' = "waiting" /\ Available
                            /\ Running(snap') /\ snap'.index = -1
                            /\ snap'.due = now + Threshold
<1> USE DEF BaseInv
<1>1. snap \in Snap
  BY DEF RemindersTypeInv, TypeOK
<1>2. CASE Adopt
  <2>1. now + Threshold \in Nat
    BY ReminderTimes, RuleAssumption
  <2>2. /\ snap' \in Snap /\ Running(snap') /\ snap'.index = -1
        /\ snap'.due = now + Threshold
    BY <1>2, <2>1, ReminderNothing, RuleAssumption DEF Adopt, NoSnap, Snap, Running, NoTime
  <2>3. QED
    BY <1>2, <2>2 DEF Adopt, accessVars, history
<1>3. CASE Accept
  <2>1. snap' \in Snap /\ ~snap'.active
    BY <1>1, <1>3 DEF Accept, Snap
  <2>2. QED
    BY <1>3, <2>1 DEF Accept, accessVars, history
<1>4. QED
  BY <1>2, <1>3

\* The task's own steps keep the facts.
LEMMA StageBase ==
  ASSUME BaseInv, Adopt \/ Accept
  PROVE  BaseInv'
<1> USE DEF BaseInv
<1>1. RemindersTypeInv'
  <2>1. stage' \in Stages
    BY DEF Adopt, Accept, Stages
  <2>2. QED
    BY <2>1, StageFacts DEF RemindersTypeInv, TypeOK, AccessTypeOK
<1>2. HandlerInv'
  BY StageFacts DEF HandlerInv
<1>3. TakenInv' /\ WorkerInv'
  BY StageFacts DEF TakenInv, WorkerInv, Running, Paused
<1>4. StageInv'
  <2>1. snap'.active => customer.state = "active"
    BY StageFacts, StatusMeans
  <2>2. QED
    BY <2>1, StageFacts DEF StageInv
<1>5. QED
  BY <1>1, <1>2, <1>3, <1>4

\* What an hour changes: what has been served can only grow.
LEMMA HourFacts ==
  ASSUME BaseInv, Hour
  PROVE  /\ UNCHANGED <<customer, handler, session, visit, stage, snap, queued, taken>>
         /\ UNCHANGED <<worker, early>>
         /\ now' = now + 1 /\ now' \in Times /\ now' \in 1..(MaxTime + 1)
         /\ \A a \in Admins : handler[a].op = "none"
         /\ served' \in Nat /\ served' >= served
         /\ served' = served + IF stage = "waiting" /\ Available /\ slipped = {} THEN 1 ELSE 0
         /\ slipped \subseteq slipped' /\ slipped' \subseteq Slips
<1>1. now' = now + 1 /\ now' \in Times /\ now' \in 1..(MaxTime + 1)
  BY TimesAssumption DEF BaseInv, RemindersTypeInv, Hour, Tick, Times
<1>2. served' \in Nat /\ served' >= served
  BY DEF BaseInv, RemindersTypeInv, TypeOK, Hour
<1>3. slipped \subseteq slipped' /\ slipped' \subseteq Slips
  BY DEF BaseInv, RemindersTypeInv, TypeOK, Hour, Slip, Slips
<1>4. QED
  BY <1>1, <1>2, <1>3 DEF Hour, Tick, Busy

\* An hour keeps the facts.
LEMMA HourBase ==
  ASSUME BaseInv, Hour
  PROVE  BaseInv'
<1> USE DEF BaseInv
<1>1. RemindersTypeInv'
  BY HourFacts DEF RemindersTypeInv, TypeOK, AccessTypeOK
<1>2. HandlerInv' /\ TakenInv' /\ StageInv'
  BY HourFacts DEF HandlerInv, TakenInv, StageInv, Running, Paused
<1>3. WorkerInv'
  <2>1. worker.at \in Nat /\ worker.served \in Nat /\ now \in Nat /\ served \in Nat
    BY ReminderTimes DEF RemindersTypeInv, TypeOK, Worker
  <2>2. QED
    BY <2>1, HourFacts DEF WorkerInv, Running
<1>4. QED
  BY <1>1, <1>2, <1>3

\* What the first query of a scan loads.
LEMMA ScanReadFacts ==
  ASSUME BaseInv, ScanRead
  PROVE  /\ UNCHANGED <<now, customer, handler, session, visit, stage, snap, queued, taken>>
         /\ UNCHANGED <<served, slipped, early>>
         /\ worker' \in Worker /\ worker'.pc = "read" /\ worker'.at = now
         /\ worker'.stage = stage /\ worker'.served = served /\ worker'.boundary = Boundary
         /\ worker'.copy = IF Running(snap) THEN snap ELSE NoSnap
         /\ worker'.pausing = (Running(snap) /\ ~Available) /\ ~worker'.fires
<1>1. /\ snap \in Snap /\ stage \in Stages /\ served \in Nat /\ Boundary \in Nat /\ now \in Nat
      /\ (Running(snap) /\ ~Available) \in BOOLEAN
  BY ReminderTimes DEF BaseInv, RemindersTypeInv, TypeOK, Running, Available
<1> DEFINE copy == IF Running(snap) THEN snap ELSE NoSnap
           pausing == Running(snap) /\ ~Available
<1>2. copy \in Snap /\ pausing \in BOOLEAN
  BY <1>1, ReminderNothing
<1>3. worker' = [Resting EXCEPT !.pc = "read", !.at = now, !.stage = stage, !.served = served,
                                !.copy = copy, !.pausing = pausing, !.boundary = Boundary]
  BY DEF ScanRead
<1> HIDE DEF copy, pausing
<1>4. worker' = [pc |-> "read", at |-> now, copy |-> copy, pausing |-> pausing, fires |-> FALSE,
                 boundary |-> Boundary, stage |-> stage, served |-> served]
  BY <1>3 DEF Resting
<1>5. /\ worker' \in Worker /\ worker'.pc = "read" /\ worker'.at = now /\ worker'.stage = stage
      /\ worker'.served = served /\ worker'.boundary = Boundary /\ worker'.copy = copy
      /\ worker'.pausing = pausing /\ ~worker'.fires
  BY <1>1, <1>2, <1>4 DEF Worker
<1>6. QED
  BY <1>5 DEF ScanRead, accessVars, history, copy, pausing

\* What the second query makes of it.
LEMMA ScanDueFacts ==
  ASSUME BaseInv, ScanDue
  PROVE  /\ UNCHANGED <<now, customer, handler, session, visit, stage, snap, queued, taken>>
         /\ UNCHANGED <<served, slipped, early>>
         /\ worker.pc = "read"
         /\ worker' \in Worker /\ worker'.pc = "listed" /\ worker'.at = worker.at
         /\ worker'.stage = worker.stage /\ worker'.served = worker.served
         /\ worker'.boundary = worker.boundary /\ worker'.pausing = worker.pausing
         /\ worker'.copy = IF worker.copy = NoSnap THEN snap ELSE worker.copy
         /\ worker'.fires = (Running(snap) /\ snap.due <= worker.at)
<1>1. worker \in Worker /\ snap \in Snap
  BY DEF BaseInv, RemindersTypeInv, TypeOK
<1> DEFINE copy == IF worker.copy = NoSnap THEN snap ELSE worker.copy
           fires == Running(snap) /\ snap.due <= worker.at
<1>2. copy \in Snap /\ fires \in BOOLEAN
  BY <1>1 DEF Worker, Running
<1>3. worker' = [worker EXCEPT !.pc = "listed", !.fires = fires, !.copy = copy]
        /\ worker.pc = "read"
  BY <1>1 DEF ScanDue, Worker
<1> HIDE DEF copy, fires
<1>4. /\ worker' \in Worker /\ worker'.pc = "listed" /\ worker'.at = worker.at
      /\ worker'.stage = worker.stage /\ worker'.served = worker.served
      /\ worker'.boundary = worker.boundary /\ worker'.pausing = worker.pausing
      /\ worker'.copy = copy /\ worker'.fires = fires
  BY <1>1, <1>2, <1>3 DEF Worker
<1>5. QED
  BY <1>3, <1>4 DEF ScanDue, accessVars, history, copy, fires

\* The queries of a scan keep the facts.
LEMMA ScanBase ==
  ASSUME BaseInv, ScanRead \/ ScanDue
  PROVE  BaseInv'
<1> USE DEF BaseInv
<1>1. /\ UNCHANGED <<now, customer, handler, session, visit, stage, snap, queued, taken>>
      /\ UNCHANGED <<served, slipped, early>> /\ worker' \in Worker
  BY ScanReadFacts, ScanDueFacts
<1>2. RemindersTypeInv'
  BY <1>1 DEF RemindersTypeInv, TypeOK, AccessTypeOK
<1>3. HandlerInv' /\ TakenInv'
  BY <1>1 DEF HandlerInv, TakenInv, Running, Paused
<1>4. now \in Nat /\ served \in Nat
  BY ReminderTimes DEF RemindersTypeInv, TypeOK
<1>5. CASE ScanRead
  <2>1. WorkerInv'
    <3>1. worker'.copy = NoSnap \/ Running(worker'.copy)
      BY <1>5, ScanReadFacts
    <3>2. worker'.pausing => Running(worker'.copy)
      BY <1>5, ScanReadFacts
    <3>3. worker'.copy.active => stage # "none"
      BY <1>5, ScanReadFacts, ReminderNothing DEF StageInv
    <3>4. /\ worker'.at <= now /\ worker'.served <= served
          /\ worker'.pc = "read" /\ ~worker'.fires
      BY <1>4, <1>5, ScanReadFacts
    <3>5. QED
      BY <1>1, <3>1, <3>2, <3>3, <3>4 DEF WorkerInv, Running
  <2>2. StageInv'
    BY <1>5, ScanReadFacts DEF StageInv, Running
  <2>3. QED
    BY <1>2, <1>3, <2>1, <2>2
<1>6. CASE ScanDue
  <2>1. worker.pausing => worker.copy # NoSnap
    BY ReminderNothing DEF WorkerInv, Running
  <2>2. WorkerInv'
    <3>1. worker'.pausing => worker'.pc # "rest" /\ Running(worker'.copy)
      BY <1>6, <2>1, ScanDueFacts DEF WorkerInv
    <3>2. worker'.fires \/ worker'.copy.active => stage # "none"
      BY <1>6, ScanDueFacts DEF WorkerInv, StageInv, Running
    <3>3. worker'.at <= now /\ worker'.served <= served /\ worker'.pc = "listed"
      BY <1>6, ScanDueFacts DEF WorkerInv
    <3>4. QED
      BY <1>1, <3>1, <3>2, <3>3 DEF WorkerInv, Running
  <2>3. StageInv'
    BY <1>6, ScanDueFacts DEF StageInv
  <2>4. QED
    BY <1>2, <1>3, <2>2, <2>3
<1>7. QED
  BY <1>5, <1>6

\* What the scan makes of its copy, column by column.
LEMMA ScannedFields ==
  ASSUME BaseInv
  PROVE  /\ Scanned.active => worker.copy.active
         /\ Scanned.pausedAt = IF worker.pausing THEN worker.boundary ELSE worker.copy.pausedAt
         /\ Scanned.pausedDue = IF worker.pausing THEN worker.copy.due ELSE worker.copy.pausedDue
         /\ \/ Scanned.due = worker.copy.due /\ Scanned.index = worker.copy.index
            \/ worker.fires /\ ~Scanned.active
            \/ /\ worker.fires /\ Queues /\ Scanned.index = NextIndex
               /\ Scanned.due = worker.copy.due + Interval
         /\ ~worker.fires => Scanned.active = worker.copy.active
<1> DEFINE copy == worker.copy
           marked == IF worker.pausing
                     THEN [copy EXCEPT !.pausedAt = worker.boundary, !.pausedDue = copy.due]
                     ELSE copy
<1>1. copy \in Snap
  BY DEF BaseInv, RemindersTypeInv, TypeOK, Worker
<1>2. /\ marked.active = copy.active /\ marked.index = copy.index /\ marked.due = copy.due
      /\ marked.pausedAt = IF worker.pausing THEN worker.boundary ELSE copy.pausedAt
      /\ marked.pausedDue = IF worker.pausing THEN copy.due ELSE copy.pausedDue
      /\ marked \in [active : {marked.active}, due : {marked.due}, index : {marked.index},
                     pausedAt : {marked.pausedAt}, pausedDue : {marked.pausedDue}]
  BY <1>1 DEF Snap
<1>3. Scanned = CASE StageLeft \/ OverLimit -> [marked EXCEPT !.active = FALSE]
        [] Queues /\ NextIndex = MaxRepeat -> [marked EXCEPT !.index = NextIndex, !.active = FALSE]
        [] Queues /\ NextIndex < MaxRepeat -> [marked EXCEPT !.index = NextIndex,
                                                             !.due = @ + Interval]
        [] OTHER -> marked
  BY DEF Scanned
<1> HIDE DEF marked
<1>4. CASE StageLeft \/ OverLimit
  <2>1. Scanned = [marked EXCEPT !.active = FALSE] /\ worker.fires
    <3>1. ~(Queues /\ NextIndex = MaxRepeat) /\ ~(Queues /\ NextIndex < MaxRepeat)
      <4>1. NextIndex \in Int /\ MaxRepeat \in Int
        BY <1>1, RuleAssumption DEF NextIndex, Snap
      <4>2. QED
        BY <1>4, <4>1 DEF StageLeft, OverLimit, Queues
    <3>2. QED
      BY <1>3, <1>4, <3>1 DEF StageLeft, OverLimit
  <2>2. QED
    BY <1>2, <2>1
<1>5. CASE Queues
  <2>1. NextIndex \in Int /\ MaxRepeat \in Int /\ NextIndex <= MaxRepeat /\ worker.fires
    BY <1>1, <1>5, RuleAssumption DEF NextIndex, Snap, Queues
  <2>2. ~(StageLeft \/ OverLimit)
    BY <1>5, <2>1 DEF StageLeft, OverLimit, Queues
  <2>3. CASE NextIndex = MaxRepeat
    <3>1. Scanned = [marked EXCEPT !.index = NextIndex, !.active = FALSE]
      BY <1>3, <1>5, <2>1, <2>2, <2>3
    <3>2. QED
      BY <1>2, <2>1, <3>1
  <2>4. CASE NextIndex < MaxRepeat
    <3>1. Scanned = [marked EXCEPT !.index = NextIndex, !.due = @ + Interval]
      BY <1>3, <1>5, <2>1, <2>2, <2>4
    <3>2. QED
      BY <1>2, <1>5, <2>1, <3>1
  <2>5. QED
    BY <2>1, <2>3, <2>4
<1>6. CASE ~(StageLeft \/ OverLimit) /\ ~Queues
  <2>1. Scanned = marked
    BY <1>3, <1>6
  <2>2. QED
    BY <1>2, <2>1
<1>7. QED
  BY <1>4, <1>5, <1>6

\* What the flush writes: nothing the scan has not changed.
LEMMA FlushFacts ==
  ASSUME BaseInv
  PROVE  /\ Flushed \in Snap
         /\ ~worker.pausing /\ ~worker.fires => Flushed = snap
         /\ Flushed.active => snap.active
         /\ ~worker.pausing => Flushed.pausedAt = snap.pausedAt
         /\ snap = worker.copy => Flushed = Scanned
<1>1. worker.copy \in Snap /\ snap \in Snap /\ Scanned \in Snap /\ Flushed \in Snap
  BY ScannedTypes DEF BaseInv, RemindersTypeInv, TypeOK, Worker
<1>2. /\ Flushed.active => snap.active
      /\ ~worker.pausing => Flushed.pausedAt = snap.pausedAt
  BY <1>1, ScannedFields DEF Flushed, Written, Snap
<1>3. snap = worker.copy => Flushed = Scanned
  BY <1>1 DEF Flushed, Written, Snap
<1>4. ASSUME ~worker.pausing, ~worker.fires PROVE Flushed = snap
  <2>1. /\ Scanned.active = worker.copy.active /\ Scanned.due = worker.copy.due
        /\ Scanned.index = worker.copy.index /\ Scanned.pausedAt = worker.copy.pausedAt
        /\ Scanned.pausedDue = worker.copy.pausedDue
    BY <1>4, ScannedFields
  <2>2. QED
    BY <1>1, <2>1 DEF Flushed, Written, Snap
<1>5. QED
  BY <1>1, <1>2, <1>3, <1>4

\* What the scan's transaction changes.
LEMMA ScanCommitFacts ==
  ASSUME BaseInv, ScanCommit
  PROVE  /\ UNCHANGED <<now, customer, handler, session, visit, stage, taken, served>>
         /\ worker.pc = "listed" /\ worker' = Resting
         /\ snap' = Flushed
         /\ queued' \in [Reminders -> Queued]
         /\ slipped \subseteq slipped' /\ slipped' \subseteq Slips
         /\ "overlapped" \notin slipped' => ~Busy \/ (~worker.pausing /\ ~worker.fires)
         /\ slipped' = {} => ~worker.pausing \/ ~worker.fires
         /\ early' = (early \/ /\ Queues /\ slipped = {} /\ ~worker.pausing
                               /\ worker.served < Threshold + NextIndex * Interval)
<1>1. queued' \in [Reminders -> Queued]
  BY DEF BaseInv, RemindersTypeInv, TypeOK, ScanCommit, Queued
<1>2. slipped \subseteq slipped' /\ slipped' \subseteq Slips
  BY DEF BaseInv, RemindersTypeInv, TypeOK, ScanCommit, Slip, Slips
<1>3. /\ "overlapped" \notin slipped' => ~Busy \/ (~worker.pausing /\ ~worker.fires)
      /\ slipped' = {} => ~worker.pausing \/ ~worker.fires
  BY DEF ScanCommit, Slip
<1>4. QED
  BY <1>1, <1>2, <1>3 DEF ScanCommit, accessVars

\* It keeps the facts.
LEMMA ScanCommitBase ==
  ASSUME BaseInv, ScanCommit
  PROVE  BaseInv'
<1> USE DEF BaseInv
<1>1. RemindersTypeInv'
  <2>1. early' \in BOOLEAN
    BY DEF ScanCommit, RemindersTypeInv, TypeOK
  <2>2. QED
    BY <2>1, ScanCommitFacts, FlushFacts, ReminderNothing DEF RemindersTypeInv, TypeOK, AccessTypeOK
<1>2. HandlerInv' /\ TakenInv'
  BY ScanCommitFacts DEF HandlerInv, TakenInv, Running, Paused
<1>3. WorkerInv'
  <2>1. now \in Nat /\ served \in Nat
    BY ReminderTimes DEF RemindersTypeInv, TypeOK
  <2>2. QED
    BY <2>1, ScanCommitFacts, ReminderNothing DEF WorkerInv
<1>4. StageInv'
  <2>1. stage = "none" => ~worker.pausing /\ ~worker.fires
    BY DEF WorkerInv, Running
  <2>2. QED
    BY <2>1, ScanCommitFacts, FlushFacts, ReminderNothing DEF StageInv
<1>5. QED
  BY <1>1, <1>2, <1>3, <1>4

\* A crash forgets requests and copies; a stutter changes nothing.
LEMMA CrashBase ==
  ASSUME BaseInv, Crash
  PROVE  BaseInv'
<1> USE DEF BaseInv
<1>1. /\ worker' = Resting /\ \A a \in Admins : handler'[a] = NoRequest /\ taken'[a] = NoSnap
      /\ handler' \in [Admins -> Handler] /\ taken' \in [Admins -> Snap]
      /\ UNCHANGED <<now, customer, session, visit, stage, snap, queued, served, slipped, early>>
  BY NothingTypes, ReminderNothing DEF Crash, history
<1>2. RemindersTypeInv'
  BY <1>1, ReminderNothing DEF RemindersTypeInv, TypeOK, AccessTypeOK
<1>3. HandlerInv' /\ TakenInv'
  BY <1>1 DEF HandlerInv, TakenInv, NoRequest
<1>4. WorkerInv' /\ StageInv'
  <2>1. now \in Nat /\ served \in Nat
    BY ReminderTimes DEF RemindersTypeInv, TypeOK
  <2>2. QED
    BY <1>1, <2>1, ReminderNothing DEF WorkerInv, StageInv
<1>5. QED
  BY <1>2, <1>3, <1>4

\* A stutter.
LEMMA StutterBase ==
  ASSUME BaseInv, UNCHANGED vars
  PROVE  BaseInv'
<1> USE DEF BaseInv, vars, history, accessVars
<1>1. RemindersTypeInv' /\ HandlerInv' /\ TakenInv'
  BY DEF RemindersTypeInv, TypeOK, AccessTypeOK, HandlerInv, TakenInv, Running, Paused
<1>2. WorkerInv' /\ StageInv'
  BY DEF WorkerInv, StageInv, Running
<1>3. QED
  BY <1>1, <1>2

\* Every step keeps the facts.
LEMMA BaseStep == BaseInv /\ [Next]_vars => BaseInv'
<1> SUFFICES ASSUME BaseInv, [Next]_vars PROVE BaseInv'
  OBVIOUS
<1>1. QED
  BY RequestBase, ChangeBase, StageBase, HourBase, ScanBase, ScanCommitBase, CrashBase,
     StutterBase DEF Next

\* They hold initially.
LEMMA InitBase == LarkInit => BaseInv
<1> SUFFICES ASSUME LarkInit PROVE BaseInv
  OBVIOUS
<1>1. RemindersTypeInv
  BY InitReminderTypes
<1>2. \A a \in Admins : handler[a].op = "none" /\ taken[a] = NoSnap
  BY DEF LarkInit, Init, NoRequest
<1>3. HandlerInv /\ TakenInv
  BY <1>2 DEF HandlerInv, TakenInv
<1>4. WorkerInv /\ StageInv
  BY <1>1, ReminderTimes, ReminderNothing DEF WorkerInv, StageInv, LarkInit
<1>5. QED
  BY <1>1, <1>3, <1>4 DEF BaseInv

\* At any time, all variables have their types: the access, the snapshot of the
\* task's stage, the outbox and the worker (lark_notification_service.py).
THEOREM RemindersTypesCorrect == Spec => []TypeOK
<1>1. BaseInv => TypeOK
  BY DEF BaseInv, RemindersTypeInv
<1>2. QED
  BY InitBase, BaseStep, <1>1, PTL DEF Spec

-----------------------------------------------------------------------------
(* Paused clocks.                                                          *)

\* derive_status at any time of any access.
LEMMA StatusAt ==
  \A c \in Access, time \in Nat :
    StatusOf(c, time) = "active" <=> c.state = "active" /\ c.expires > time
<1> SUFFICES ASSUME NEW c \in Access, NEW time \in Nat
             PROVE  StatusOf(c, time) = "active" <=> c.state = "active" /\ c.expires > time
  OBVIOUS
<1>1. c.expires \in Nat /\ c.state \in {"unstarted", "active", "stopped"}
  BY ReminderNothing DEF Access
<1>2. QED
  BY <1>1 DEF StatusOf

\* A request that overlapped with nothing writes the access it meant to.
LEMMA ChangedAccess ==
  ASSUME BaseInv, ClockInv, NEW a \in Admins, Change(a), "overlapped" \notin slipped'
  PROVE  /\ "overlapped" \notin slipped /\ FreshInv /\ worker.pc = "rest"
         /\ \A b \in Admins : handler'[b].op = "none" /\ taken'[b] = NoSnap
         /\ handler[a].at = now /\ handler[a].read = customer
         /\ taken[a] # NoSnap /\ snap.active => snap = taken[a]
         /\ customer' \in Access /\ now' \in Nat
         /\ handler[a].op = "enable" => customer.state = "unstarted"
         /\ handler[a].op = "stop" => /\ customer.state = "active" /\ customer.expires > now
                                      /\ customer'.state = "stopped"
         /\ handler[a].op = "resume" => /\ customer.state = "stopped" /\ customer.expires > now
                                        /\ customer'.state = "active"
                                        /\ customer'.expires = customer.expires
         /\ handler[a].op = "extend" => /\ customer'.state = customer.state
                                        /\ customer'.expires > now
         /\ handler[a].op \in {"enable", "stop", "resume", "extend"}
<1> USE DEF BaseInv
<1>1. /\ "overlapped" \notin slipped /\ ~Scanning
      /\ \A b \in Admins \ {a} : handler[b].op = "none"
  BY DEF Change, Slip
<1>2. FreshInv /\ worker.pc = "rest"
  BY <1>1 DEF ClockInv, Scanning
<1>3. /\ handler[a].op # "none" /\ handler[a].at = now /\ handler[a].read = customer
      /\ taken[a] # NoSnap /\ snap.active => snap = taken[a]
  BY <1>2, ChangeFacts DEF FreshInv
<1>4. \A b \in Admins : handler'[b].op = "none" /\ taken'[b] = NoSnap
  BY <1>1, ChangeFacts DEF NoRequest, TakenInv
<1>5. handler[a].op \in {"enable", "stop", "resume", "extend"} /\ customer \in Access
  BY <1>3 DEF RemindersTypeInv, TypeOK, AccessTypeOK, Handler
<1>6. customer' = [state |-> Written(customer.state, NewState(a), customer.state),
                   expires |-> Written(customer.expires, handler[a].expires, customer.expires)]
  BY <1>3 DEF Change, Commit
<1>7. customer'.state = NewState(a) /\ customer'.expires = handler[a].expires
  BY <1>6 DEF Written
<1>8. customer' \in Access /\ now' \in Nat
  <2>1. AccessTypeInv /\ Commit(a)
    BY DEF RemindersTypeInv, TypeOK, AccessTypeInv, Change
  <2>2. QED
    BY <2>1, CommitTypes, ReminderTimes
<1>9. QED
  BY <1>1, <1>2, <1>3, <1>4, <1>5, <1>7, <1>8 DEF HandlerInv, NewState

\* A request that reads takes what there is.
LEMMA RequestClock ==
  ASSUME BaseInv, ClockInv, NEW a \in Admins, Enable(a) \/ Request(a)
  PROVE  ClockInv'
<1> USE DEF BaseInv
<1> SUFFICES ASSUME "overlapped" \notin slipped'
             PROVE  FreshInv' /\ ScanInv' /\ (Paused(snap)' => ~Available')
  BY DEF ClockInv
<1>1. /\ UNCHANGED <<now, customer, snap, worker, slipped>>
      /\ \A b \in Admins \ {a} : handler'[b] = handler[b] /\ taken'[b] = taken[b]
      /\ handler'[a].at = now /\ handler'[a].read = customer
  BY RequestFacts DEF history
<1>2. FreshInv /\ ScanInv /\ (Paused(snap) => ~Available)
  BY <1>1 DEF ClockInv
<1>3. ScanInv' /\ (Paused(snap)' => ~Available')
  BY <1>1, <1>2 DEF ScanInv, Available, Status, Paused
<1>4. taken'[a] # NoSnap => snap = taken'[a]
  BY RequestFacts
<1>5. Paused(snap) => snap # NoSnap /\ ~(customer.state = "active" /\ customer.expires > now)
  BY <1>2, StatusMeans, ReminderNothing DEF Paused
<1>6. /\ handler'[a].op = "resume" /\ taken'[a] = NoSnap => ~Paused(snap)
      /\ handler'[a].op = "extend" /\ taken'[a] = NoSnap /\ customer.state = "active"
           => ~Paused(snap)
  <2>1. customer.expires \in Nat /\ now \in Nat
    BY ReminderTimes
  <2>2. QED
    BY <1>5, <2>1, RequestFacts
<1>7. FreshInv'
  BY <1>1, <1>2, <1>4, <1>6 DEF FreshInv, Paused
<1>8. QED
  BY <1>3, <1>7

\* One that commits: a stop stops the access, and what gives it back thaws.
LEMMA ChangeClock ==
  ASSUME BaseInv, ClockInv, NEW a \in Admins, Change(a)
  PROVE  ClockInv'
<1> USE DEF BaseInv
<1> SUFFICES ASSUME "overlapped" \notin slipped'
             PROVE  FreshInv' /\ ScanInv' /\ (Paused(snap)' => ~Available')
  BY DEF ClockInv
<1>1. FreshInv'
  BY ChangedAccess DEF FreshInv
<1>2. ScanInv'
  BY ChangedAccess, ChangeFacts, ReminderNothing DEF ScanInv, WorkerInv
<1>3. ASSUME Available', Paused(snap)' PROVE FALSE
  <2>1. customer'.state = "active" /\ customer'.expires > now'
    BY <1>3, ChangedAccess, StatusAt DEF Available, Status
  <2>2. snap.active /\ snap'.active /\ customer.state # "unstarted"
    BY <1>3, ChangeFacts DEF Paused, StageInv
  <2>3. handler[a].op = "resume" \/ (handler[a].op = "extend" /\ customer.state = "active")
    BY <2>1, <2>2, ChangedAccess
  <2>4. CASE taken[a] = NoSnap
    <3>1. ~Paused(snap)
      BY <2>3, <2>4, ChangedAccess DEF FreshInv
    <3>2. QED
      BY <1>3, <2>4, <3>1, ChangeFacts DEF Paused
  <2>5. CASE taken[a] # NoSnap
    <3>1. snap' = ResumedBy(a) /\ snap \in Snap
      BY <2>3, <2>5, ChangeFacts DEF Changed, RemindersTypeInv, TypeOK
    <3>2. snap'.pausedAt = NoTime
      BY <3>1 DEF ResumedBy, Snap
    <3>3. QED
      BY <1>3, <3>2 DEF Paused
  <2>6. QED
    BY <2>4, <2>5
<1>4. QED
  BY <1>1, <1>2, <1>3

\* A new snapshot runs, and an ended one is not paused.
LEMMA StageClock ==
  ASSUME BaseInv, ClockInv, Adopt \/ Accept
  PROVE  ClockInv'
<1> USE DEF BaseInv
<1> SUFFICES ASSUME "overlapped" \notin slipped'
             PROVE  FreshInv' /\ ScanInv' /\ (Paused(snap)' => ~Available')
  BY DEF ClockInv
<1>1. /\ UNCHANGED <<now, customer, handler, taken, worker, slipped>>
      /\ snap'.active => stage = "none" /\ Running(snap')
  BY StageFacts
<1>2. FreshInv /\ ScanInv
  BY <1>1 DEF ClockInv
<1>3. ~Paused(snap')
  BY <1>1 DEF Running, Paused
<1>4. FreshInv'
  BY <1>1, <1>2, <1>3 DEF FreshInv, TakenInv, Paused
<1>5. ScanInv'
  BY <1>1, <1>2 DEF ScanInv, WorkerInv, Available, Status
<1>6. QED
  BY <1>3, <1>4, <1>5 DEF Paused

\* Time gives nobody access.
LEMMA HourClock ==
  ASSUME BaseInv, ClockInv, Hour
  PROVE  ClockInv'
<1> USE DEF BaseInv
<1> SUFFICES ASSUME "overlapped" \notin slipped'
             PROVE  FreshInv' /\ ScanInv' /\ (Paused(snap)' => ~Available')
  BY DEF ClockInv
<1>1. FreshInv'
  BY HourFacts DEF FreshInv
<1>2. ScanInv /\ (Paused(snap) => ~Available)
  BY HourFacts DEF ClockInv
<1>3. ~Available => ~Available'
  <2>1. customer \in Access /\ customer' = customer /\ now \in Nat /\ now' = now + 1
        /\ customer.expires \in Nat
    BY HourFacts, ReminderTimes DEF RemindersTypeInv, TypeOK, AccessTypeOK
  <2>2. QED
    BY <2>1, StatusAt DEF Available, Status
<1>4. QED
  BY <1>1, <1>2, <1>3, HourFacts DEF ScanInv, Paused

\* A scan reads what there is.
LEMMA ScanClock ==
  ASSUME BaseInv, ClockInv, ScanRead \/ ScanDue
  PROVE  ClockInv'
<1> USE DEF BaseInv
<1> SUFFICES ASSUME "overlapped" \notin slipped'
             PROVE  FreshInv' /\ ScanInv' /\ (Paused(snap)' => ~Available')
  BY DEF ClockInv
<1>1. UNCHANGED <<now, customer, handler, snap, taken, slipped>>
  BY ScanReadFacts, ScanDueFacts
<1>2. FreshInv /\ ScanInv /\ (Paused(snap) => ~Available)
  BY <1>1 DEF ClockInv
<1>3. FreshInv' /\ (Paused(snap)' => ~Available')
  BY <1>1, <1>2 DEF FreshInv, Paused, Available, Status
<1>4. ScanInv'
  <2>1. CASE ScanRead
    BY <1>1, <2>1, ScanReadFacts, ReminderNothing DEF ScanInv, Available, Status
  <2>2. CASE ScanDue
    BY <1>1, <1>2, <2>2, ScanDueFacts, ReminderNothing DEF ScanInv, Available, Status
  <2>3. QED
    BY <2>1, <2>2
<1>5. QED
  BY <1>3, <1>4

\* Its transaction pauses for lack of access only.
LEMMA ScanCommitClock ==
  ASSUME BaseInv, ClockInv, ScanCommit
  PROVE  ClockInv'
<1> USE DEF BaseInv
<1> SUFFICES ASSUME "overlapped" \notin slipped'
             PROVE  FreshInv' /\ ScanInv' /\ (Paused(snap)' => ~Available')
  BY DEF ClockInv
<1>1. /\ UNCHANGED <<now, customer, handler, taken>> /\ worker' = Resting /\ snap' = Flushed
      /\ ~Busy \/ (~worker.pausing /\ ~worker.fires)
  BY ScanCommitFacts
<1>2. FreshInv /\ ScanInv /\ (Paused(snap) => ~Available)
  BY ScanCommitFacts DEF ClockInv
<1>3. FreshInv'
  <2>1. CASE ~Busy
    BY <1>1, <2>1 DEF FreshInv, Busy
  <2>2. CASE ~worker.pausing /\ ~worker.fires
    BY <1>1, <1>2, <2>2, FlushFacts DEF FreshInv, Paused
  <2>3. QED
    BY <1>1, <2>1, <2>2
<1>4. ScanInv'
  BY <1>1, ReminderNothing DEF ScanInv
<1>5. Paused(snap') => ~Available
  <2>1. CASE worker.pausing
    BY <1>2, <2>1 DEF ScanInv
  <2>2. CASE ~worker.pausing
    BY <1>1, <1>2, <2>2, FlushFacts DEF Paused
  <2>3. QED
    BY <2>1, <2>2
<1>6. QED
  BY <1>1, <1>3, <1>4, <1>5 DEF Available, Status, Paused

\* After a crash no request and no copy is left.
LEMMA CrashClock ==
  ASSUME BaseInv, ClockInv, Crash \/ UNCHANGED vars
  PROVE  ClockInv'
<1>1. UNCHANGED <<now, customer, snap, slipped>>
  BY DEF Crash, history, vars
<1>2. CASE Crash
  BY <1>1, <1>2, ReminderNothing
  DEF ClockInv, FreshInv, ScanInv, Crash, NoRequest, Paused, Available, Status
<1>3. CASE UNCHANGED vars
  BY <1>3 DEF ClockInv, FreshInv, ScanInv, Paused, Available, Status, vars
<1>4. QED
  BY <1>2, <1>3

\* Every step keeps the clocks.
LEMMA ClockStep == BaseInv /\ ClockInv /\ [Next]_vars => ClockInv'
<1> SUFFICES ASSUME BaseInv, ClockInv, [Next]_vars PROVE ClockInv'
  OBVIOUS
<1>1. QED
  BY RequestClock, ChangeClock, StageClock, HourClock, ScanClock, ScanCommitClock, CrashClock
  DEF Next

\* At first there is no snapshot, no request and no scan.
LEMMA InitClock == LarkInit => ClockInv
BY ReminderNothing
DEF LarkInit, Init, ClockInv, FreshInv, ScanInv, NoRequest, Paused

\* Unless an administrator's request overlapped a scan or another request, the
\* reminder clock of a customer who has access is running: what pause_customer or
\* the scan froze, every resumption and every prolongation has thawed.
THEOREM ClocksRun == Spec => []ClockRunsForActive
<1>1. ClockInv => ClockRunsForActive
  BY DEF ClockInv, ClockRunsForActive
<1>2. QED
  BY InitBase, InitClock, BaseStep, ClockStep, <1>1, PTL DEF Spec

-----------------------------------------------------------------------------
(* Hours of access.                                                        *)

\* The next reminder needs one interval more.
LEMMA NeededNext ==
  \A k \in Int : Needed(k) \in Int /\ Needed(k + 1) = Needed(k) + Interval
BY RuleAssumption DEF Needed

\* The first needs the threshold.
LEMMA NeededFirst == Needed(0) = Threshold
BY RuleAssumption DEF Needed

\* The numbers of the hours.
LEMMA HoursNumbers ==
  ASSUME BaseInv
  PROVE  /\ served \in Nat /\ now \in Nat /\ now >= 1 /\ customer.expires \in Nat
         /\ Boundary \in Nat /\ Boundary <= now
         /\ snap \in Snap /\ snap.due \in Nat /\ snap.index \in Int /\ Left(snap) \in Nat
         /\ Needed(snap.index + 1) \in Int
         /\ worker.copy \in Snap /\ worker.copy.due \in Nat /\ worker.copy.index \in Int
         /\ worker.at \in Nat /\ worker.served \in Nat /\ worker.boundary \in Nat
         /\ Needed(worker.copy.index + 1) \in Int
<1>1. /\ served \in Nat /\ snap \in Snap /\ worker \in Worker
      /\ now \in 1..(MaxTime + 1)
  BY DEF BaseInv, RemindersTypeInv, TypeOK
<1>2. /\ now \in Nat /\ customer.expires \in Nat /\ Boundary \in Nat /\ Boundary <= now
      /\ Left(snap) \in Nat
  BY <1>1, ReminderTimes DEF BaseInv
<1>3. worker.copy \in Snap /\ worker.at \in Nat /\ worker.served \in Nat /\ worker.boundary \in Nat
  BY <1>1 DEF Worker
<1>4. \A s \in Snap : s.due \in Nat /\ s.index \in Int
  BY RuleAssumption DEF Snap
<1>5. QED
  BY <1>1, <1>2, <1>3, <1>4, NeededNext, TimesAssumption

\* What is left of a pause is at least what it was paused before.
LEMMA LeftAtLeast ==
  \A s \in Snap : Left(s) >= s.pausedDue - s.pausedAt
BY DEF Left, Snap

\* A request that reads changes no clock.
LEMMA RequestHours ==
  ASSUME BaseInv, ClockInv, HoursInv, NEW a \in Admins, Enable(a) \/ Request(a)
  PROVE  HoursInv'
<1>1. UNCHANGED <<now, customer, snap, worker, served, slipped>>
  BY RequestFacts DEF BaseInv, history
<1>2. QED
  BY <1>1 DEF HoursInv, CountsInv, CopyInv, Boundary, Running, Paused, Left

\* One that commits freezes a clock as of now, or starts it with what was left.
LEMMA ChangeHours ==
  ASSUME BaseInv, ClockInv, HoursInv, NEW a \in Admins, Change(a)
  PROVE  HoursInv'
<1> USE DEF BaseInv
<1> SUFFICES ASSUME slipped' = {} PROVE CountsInv' /\ CopyInv'
  BY DEF HoursInv
<1>1. "overlapped" \notin slipped' /\ slipped = {}
  BY DEF Change
<1>2. CountsInv
  BY <1>1 DEF HoursInv
<1>3. CopyInv'
  <2>1. worker' = worker /\ worker.pc = "rest"
    BY <1>1, ChangedAccess, ChangeFacts
  <2>2. QED
    BY <2>1 DEF CopyInv, WorkerInv
<1>4. /\ now' = now /\ served' = served /\ snap'.active = snap.active
      /\ snap'.index = snap.index
  BY ChangeFacts
<1>5. customer' \in Access /\ customer'.expires \in Nat
  BY <1>1, ChangedAccess, ReminderNothing DEF Access
<1>6. Boundary' \in Nat /\ Boundary' <= now
  BY <1>4, <1>5, HoursNumbers DEF Boundary
<1>7. CASE ~snap.active
  BY <1>3, <1>4, <1>7 DEF CountsInv, Running, Paused
<1>8. CASE snap.active /\ taken[a] = NoSnap
  <2>1. snap' = snap
    BY <1>8, ChangeFacts
  <2>2. Running(snap) => Boundary' <= Boundary
    <3>1. CASE handler[a].op = "extend" /\ Status = "expired"
      BY <1>8, <3>1 DEF Change, Slip
    <3>2. CASE handler[a].op = "extend" /\ Status # "expired"
      <4>1. customer.state # "unstarted"
        BY <1>8 DEF StageInv
      <4>2. customer.expires > now
        BY <3>2, <4>1, StatusMeans, HoursNumbers
      <4>3. Boundary = now
        BY <4>2, HoursNumbers DEF Boundary
      <4>4. QED
        BY <1>6, <4>3
    <3>3. CASE handler[a].op # "extend"
      <4>1. customer.state # "unstarted"
        BY <1>8 DEF StageInv
      <4>2. customer.expires > now
        BY <1>1, <3>3, <4>1, ChangedAccess
      <4>3. Boundary = now
        BY <4>2, HoursNumbers DEF Boundary
      <4>4. QED
        BY <1>6, <4>3
    <3>4. QED
      BY <3>1, <3>2, <3>3
  <2>3. QED
    BY <1>2, <1>3, <1>4, <1>6, <2>1, <2>2, HoursNumbers DEF CountsInv, Left, Running, Paused
<1>9. CASE snap.active /\ taken[a] # NoSnap
  <2>1. snap = taken[a] /\ handler[a].at = now
    BY <1>1, <1>9, ChangedAccess
  <2>2. CASE handler[a].op = "stop"
    <3>1. Running(snap) /\ customer.expires > now
      BY <1>1, <1>9, <2>1, <2>2, ChangedAccess DEF TakenInv
    <3>2. Boundary = now
      BY <3>1, HoursNumbers DEF Boundary
    <3>3. snap' = [snap EXCEPT !.pausedAt = now, !.pausedDue = snap.due]
      BY <1>9, <2>1, <2>2, ChangeFacts DEF Changed, PausedBy
    <3>4. snap'.pausedAt = now /\ snap'.pausedDue = snap.due /\ snap' \in Snap
      BY <3>3, HoursNumbers DEF Snap
    <3>5. Left(snap') \in Int /\ Left(snap') >= snap.due - now
      BY <3>4, HoursNumbers DEF Left
    <3>6. ~Running(snap')
      BY <3>4, HoursNumbers DEF Running, NoTime
    <3>7. served + Left(snap') >= Needed(snap.index + 1)
      BY <1>2, <3>1, <3>2, <3>5, HoursNumbers DEF CountsInv
    <3>8. QED
      BY <1>3, <1>4, <3>6, <3>7 DEF CountsInv, Running, Left
  <2>3. CASE handler[a].op \in {"resume", "extend"}
    <3>1. Paused(snap)
      BY <1>9, <2>1, <2>3 DEF TakenInv
    <3>2. snap' = ResumedBy(a)
      BY <1>9, <2>1, <2>3, ChangeFacts DEF Changed
    <3>3. snap' = [snap EXCEPT !.due = now + Left(snap), !.pausedAt = NoTime, !.pausedDue = 0]
      BY <2>1, <3>2 DEF ResumedBy, Written
    <3>4. snap'.due = now + Left(snap) /\ snap'.pausedAt = NoTime
      BY <3>3, HoursNumbers DEF Snap
    <3>5. ~Paused(snap')
      BY <3>4 DEF Paused
    <3>6. served + snap'.due - Boundary' >= Needed(snap.index + 1)
      BY <1>2, <1>6, <3>1, <3>4, HoursNumbers DEF CountsInv
    <3>7. QED
      BY <1>3, <1>4, <3>5, <3>6 DEF CountsInv, Paused
  <2>4. QED
    BY <1>9, <2>2, <2>3 DEF TakenInv
<1>10. QED
  BY <1>3, <1>7, <1>8, <1>9

\* A new clock has its whole threshold to count.
LEMMA StageHours ==
  ASSUME BaseInv, ClockInv, HoursInv, Adopt \/ Accept
  PROVE  HoursInv'
<1> USE DEF BaseInv
<1> SUFFICES ASSUME slipped' = {} PROVE CountsInv' /\ CopyInv'
  BY DEF HoursInv
<1>1. /\ UNCHANGED <<now, customer, worker, served, slipped>>
      /\ snap'.active => /\ Available /\ Running(snap') /\ snap'.index = -1
                         /\ snap'.due = now + Threshold
  BY StageFacts
<1>2. CopyInv
  BY <1>1 DEF HoursInv
<1>3. Boundary' = Boundary /\ (Available => Boundary = now)
  BY <1>1, StatusMeans, HoursNumbers DEF Boundary
<1>4. CountsInv'
  <2>1. CASE ~snap'.active
    BY <2>1 DEF CountsInv, Running, Paused
  <2>2. CASE snap'.active
    <3>1. ~Paused(snap')
      BY <1>1, <2>2 DEF Running, Paused
    <3>2. Needed(snap'.index + 1) = Threshold
      BY <1>1, <2>2, NeededFirst
    <3>3. served' + snap'.due - Boundary' >= Threshold
      BY <1>1, <1>3, <2>2, HoursNumbers, RuleAssumption
    <3>4. QED
      BY <3>1, <3>2, <3>3 DEF CountsInv, Paused
  <2>3. QED
    BY <2>1, <2>2
<1>5. CopyInv'
  <2>1. Running(snap') => snap'.due > worker.at
    BY <1>1, HoursNumbers, RuleAssumption DEF WorkerInv, Running
  <2>2. QED
    BY <1>1, <1>2, <2>1 DEF CopyInv, Running
<1>6. QED
  BY <1>4, <1>5

\* An hour with access is counted, and an hour without does not bring the due
\* time of a clock any nearer.
LEMMA HourHours ==
  ASSUME BaseInv, ClockInv, HoursInv, Hour
  PROVE  HoursInv'
<1> USE DEF BaseInv
<1> SUFFICES ASSUME slipped' = {} PROVE CountsInv' /\ CopyInv'
  BY DEF HoursInv
<1>1. /\ UNCHANGED <<customer, snap, worker>> /\ now' = now + 1 /\ slipped = {}
      /\ served' = served + IF stage = "waiting" /\ Available THEN 1 ELSE 0
  BY HourFacts
<1>2. CountsInv /\ CopyInv
  BY <1>1 DEF HoursInv
<1>3. CopyInv'
  BY <1>1, <1>2 DEF CopyInv, Running
<1>4. served' \in Nat /\ served' >= served
  BY <1>1, HoursNumbers
<1>5. Paused(snap) => served' + Left(snap) >= Needed(snap.index + 1)
  BY <1>2, <1>4, HoursNumbers DEF CountsInv
<1>6. ASSUME Running(snap)
      PROVE  served' + snap.due - Boundary' >= Needed(snap.index + 1)
  <2>1. stage = "waiting" /\ customer.state # "unstarted"
    BY <1>6 DEF StageInv, Running
  <2>2. customer.state # "stopped"
    BY <1>6 DEF Hour, Slip
  <2>3. customer.state = "active"
    BY <2>1, <2>2 DEF RemindersTypeInv, TypeOK, AccessTypeOK, Access
  <2>4. CASE customer.expires > now
    <3>1. Available /\ Boundary = now
      BY <2>3, <2>4, StatusMeans, HoursNumbers DEF Boundary
    <3>2. Boundary' = now + 1
      BY <1>1, <2>4, HoursNumbers DEF Boundary
    <3>3. QED
      BY <1>1, <1>2, <1>6, <2>1, <3>1, <3>2, HoursNumbers DEF CountsInv
  <2>5. CASE customer.expires <= now
    <3>1. Boundary' = Boundary
      BY <1>1, <2>3, <2>5, HoursNumbers DEF Boundary
    <3>2. QED
      BY <1>2, <1>4, <1>6, <3>1, HoursNumbers DEF CountsInv
  <2>6. QED
    BY <2>4, <2>5, HoursNumbers
<1>7. CountsInv'
  BY <1>1, <1>5, <1>6 DEF CountsInv, Running, Paused, Left
<1>8. QED
  BY <1>3, <1>7

\* What a scan reads counts as what there is.
LEMMA ScanHours ==
  ASSUME BaseInv, ClockInv, HoursInv, ScanRead \/ ScanDue
  PROVE  HoursInv'
<1> USE DEF BaseInv
<1> SUFFICES ASSUME slipped' = {} PROVE CountsInv' /\ CopyInv'
  BY DEF HoursInv
<1>1. UNCHANGED <<now, customer, snap, served, slipped>>
  BY ScanReadFacts, ScanDueFacts
<1>2. CountsInv /\ CopyInv /\ ScanInv
  BY <1>1 DEF HoursInv, ClockInv
<1>3. CountsInv'
  BY <1>1, <1>2 DEF CountsInv, Boundary, Running, Paused, Left
<1>4. CASE ScanRead
  <2>1. worker'.copy = (IF Running(snap) THEN snap ELSE NoSnap) /\ worker'.pc = "read"
        /\ worker'.at = now /\ ~worker'.fires /\ worker'.served = served
        /\ worker'.boundary = Boundary /\ worker'.pausing = (Running(snap) /\ ~Available)
    BY <1>4, ScanReadFacts
  <2>2. Available => Boundary = now
    BY StatusMeans, HoursNumbers DEF Boundary
  <2>3. worker'.copy.active => Running(snap) /\ worker'.copy = snap
    BY <2>1, ReminderNothing
  <2>4. Running(snap) => worker'.copy.active
    BY <2>1 DEF Running
  <2>5. CopyInv'
    BY <1>1, <1>2, <2>1, <2>2, <2>3, <2>4 DEF CopyInv, CountsInv, Running
  <2>6. QED
    BY <1>3, <2>5
<1>5. CASE ScanDue
  <2>1. /\ worker.pc = "read" /\ worker'.pc = "listed" /\ worker'.at = worker.at
        /\ worker'.served = worker.served /\ worker'.boundary = worker.boundary
        /\ worker'.pausing = worker.pausing
        /\ worker'.copy = IF worker.copy = NoSnap THEN snap ELSE worker.copy
        /\ worker'.fires = (Running(snap) /\ snap.due <= worker.at)
    BY <1>5, ScanDueFacts
  <2>2. CASE worker.copy = NoSnap
    <3>1. ~worker.pausing
      BY <2>2, ReminderNothing DEF WorkerInv, Running
    <3>2. ~worker'.fires
      <4>1. ~worker.copy.active
        BY <2>2, ReminderNothing
      <4>2. Running(snap) => snap.due > worker.at
        BY <1>2, <2>1, <4>1 DEF CopyInv
      <4>3. snap.due \in Nat /\ worker.at \in Nat
        BY HoursNumbers
      <4>4. ~(Running(snap) /\ snap.due <= worker.at)
        BY <4>2, <4>3
      <4>5. QED
        BY <2>1, <4>4
    <3>3. QED
      BY <1>3, <2>1, <3>1, <3>2 DEF CopyInv
  <2>3. CASE worker.copy # NoSnap
    <3>1. Running(worker.copy) /\ worker'.copy = worker.copy
      BY <2>1, <2>3 DEF WorkerInv
    <3>2. worker'.fires => worker'.copy.due <= worker'.at
      BY <1>2, <2>1, <3>1 DEF ScanInv, Running
    <3>3. CopyInv'
      BY <1>2, <2>1, <3>1, <3>2 DEF CopyInv, Running
    <3>4. QED
      BY <1>3, <3>3
  <2>4. QED
    BY <2>2, <2>3
<1>6. QED
  BY <1>4, <1>5

\* Its transaction: what it freezes has counted until the boundary, and a reminder
\* that fires has counted its hours.
LEMMA ScanCommitHours ==
  ASSUME BaseInv, ClockInv, HoursInv, ScanCommit
  PROVE  HoursInv'
<1> USE DEF BaseInv
<1> SUFFICES ASSUME slipped' = {} PROVE CountsInv' /\ CopyInv'
  BY DEF HoursInv
<1>1. /\ UNCHANGED <<now, customer, served>> /\ worker' = Resting /\ snap' = Flushed
      /\ worker.pc = "listed" /\ slipped = {}
      /\ ~worker.pausing \/ ~worker.fires
  BY ScanCommitFacts
<1>2. CountsInv /\ CopyInv /\ ScanInv
  BY <1>1 DEF HoursInv, ClockInv
<1>3. CopyInv'
  BY <1>1, ReminderNothing DEF CopyInv
<1>4. Boundary' = Boundary
  BY <1>1 DEF Boundary
<1>5. CASE ~worker.pausing /\ ~worker.fires
  <2>1. snap' = snap
    BY <1>1, <1>5, FlushFacts
  <2>2. QED
    BY <1>1, <1>2, <1>3, <1>4, <2>1 DEF CountsInv, Running, Paused, Left
<1>6. CASE ~snap'.active
  BY <1>3, <1>6 DEF CountsInv, Running, Paused
<1>7. CASE (worker.pausing \/ worker.fires) /\ snap'.active
  <2>1. Running(worker.copy)
    BY <1>1, <1>2, <1>7 DEF CopyInv
  <2>2. snap = worker.copy
    BY <1>1, <1>2, <1>7, <2>1, FlushFacts DEF ScanInv, Running
  <2>3. snap' = Scanned /\ snap' \in Snap
    BY <1>1, <2>2, FlushFacts
  <2>4. served + snap.due - Boundary >= Needed(snap.index + 1)
    BY <1>2, <2>1, <2>2 DEF CountsInv
  <2>5. CASE worker.pausing
    <3>1. /\ snap'.due = snap.due /\ snap'.index = snap.index
          /\ snap'.pausedAt = worker.boundary /\ snap'.pausedDue = snap.due
      BY <1>1, <2>2, <2>3, <2>5, ScannedFields
    <3>2. worker.served + snap.due - worker.boundary >= Needed(snap.index + 1)
      BY <1>1, <1>2, <2>2, <2>5 DEF CopyInv
    <3>3. Left(snap') \in Nat /\ Left(snap') >= snap.due - worker.boundary
      BY <2>3, <3>1, LeftAtLeast, ReminderTimes
    <3>4. served + Left(snap') >= Needed(snap.index + 1)
      <4>1. worker.served <= served
        BY DEF WorkerInv
      <4>2. QED
        BY <3>2, <3>3, <4>1, HoursNumbers
    <3>5. QED
      BY <1>1, <1>3, <1>4, <2>4, <3>1, <3>4 DEF CountsInv, Running, Paused, Left
  <2>6. CASE worker.fires /\ ~worker.pausing
    <3>1. snap'.pausedAt = snap.pausedAt
      BY <2>2, <2>3, <2>6, ScannedFields
    <3>2. ~Paused(snap')
      BY <2>1, <2>2, <3>1 DEF Running, Paused
    <3>3. \/ snap'.due = snap.due /\ snap'.index = snap.index
          \/ snap'.due = snap.due + Interval /\ snap'.index = snap.index + 1
      BY <1>7, <2>2, <2>3, ScannedFields DEF NextIndex
    <3>4. served + snap'.due - Boundary >= Needed(snap'.index + 1)
      <4>1. CASE snap'.due = snap.due /\ snap'.index = snap.index
        BY <2>4, <4>1
      <4>2. CASE snap'.due = snap.due + Interval /\ snap'.index = snap.index + 1
        <5>1. Needed((snap.index + 1) + 1) = Needed(snap.index + 1) + Interval
          BY NeededNext, HoursNumbers
        <5>2. QED
          BY <2>4, <4>2, <5>1, HoursNumbers, RuleAssumption
      <4>3. QED
        BY <3>3, <4>1, <4>2
    <3>5. QED
      BY <1>1, <1>3, <1>4, <3>2, <3>4 DEF CountsInv, Paused
  <2>7. QED
    BY <1>7, <2>5, <2>6
<1>8. QED
  BY <1>5, <1>6, <1>7

\* After a crash nothing is being paused or fired.
LEMMA CrashHours ==
  ASSUME BaseInv, ClockInv, HoursInv, Crash \/ UNCHANGED vars
  PROVE  HoursInv'
<1>1. UNCHANGED <<now, customer, snap, served, slipped>>
  BY DEF Crash, history, vars, accessVars
<1>2. worker' = Resting \/ worker' = worker
  BY DEF Crash, vars
<1>3. CountsInv => CountsInv'
  BY <1>1 DEF CountsInv, Boundary, Running, Paused, Left
<1>4. CopyInv => CopyInv'
  BY <1>1, <1>2, ReminderNothing DEF CopyInv, Running
<1>5. QED
  BY <1>1, <1>3, <1>4 DEF HoursInv

\* A reminder that the worker queues has had its hours of access.
LEMMA EarlyStep ==
  ASSUME BaseInv, HoursInv, NotEarly, [Next]_vars
  PROVE  NotEarly'
<1> USE DEF BaseInv
<1>1. CASE ScanCommit
  <2>1. SUFFICES ASSUME Queues, slipped = {}, ~worker.pausing
                 PROVE  worker.served >= Threshold + NextIndex * Interval
    <3>1. worker.served \in Int /\ Threshold + NextIndex * Interval \in Int
      BY HoursNumbers, NeededNext DEF NextIndex, Needed
    <3> DEFINE soon == /\ Queues /\ slipped = {} /\ ~worker.pausing
                       /\ worker.served < Threshold + NextIndex * Interval
    <3>2. early' = (early \/ soon)
      BY <1>1, ScanCommitFacts
    <3>3. ~soon
      BY <2>1, <3>1
    <3>4. QED
      BY <3>2, <3>3 DEF NotEarly
  <2>2. worker.fires /\ worker.pc = "listed"
    BY <1>1, <2>1, ScanCommitFacts DEF Queues
  <2>3. /\ worker.served + worker.copy.due - worker.at >= Needed(worker.copy.index + 1)
        /\ worker.copy.due <= worker.at
    BY <2>1, <2>2 DEF HoursInv, CopyInv
  <2>4. worker.served >= Needed(worker.copy.index + 1)
    BY <2>3, HoursNumbers
  <2>5. QED
    BY <2>4 DEF Needed, NextIndex
<1>2. ASSUME NEW a \in Admins, Enable(a) \/ Request(a) \/ Change(a) PROVE NotEarly'
  BY <1>2, RequestFacts, ChangeFacts DEF NotEarly, history
<1>3. CASE Adopt \/ Accept \/ Hour \/ ScanRead \/ ScanDue \/ Crash \/ UNCHANGED vars
  BY <1>3 DEF NotEarly, Adopt, Accept, Hour, ScanRead, ScanDue, Crash, vars, history
<1>4. QED
  BY <1>1, <1>2, <1>3 DEF Next

\* Every step keeps the hours.
LEMMA HoursStep ==
  BaseInv /\ ClockInv /\ HoursInv /\ NotEarly /\ [Next]_vars => HoursInv' /\ NotEarly'
<1> SUFFICES ASSUME BaseInv, ClockInv, HoursInv, NotEarly, [Next]_vars
             PROVE  HoursInv' /\ NotEarly'
  OBVIOUS
<1>1. HoursInv'
  BY RequestHours, ChangeHours, StageHours, HourHours, ScanHours, ScanCommitHours, CrashHours
  DEF Next
<1>2. QED
  BY <1>1, EarlyStep

\* At first there is nothing to count.
LEMMA InitHours == LarkInit => HoursInv /\ NotEarly
BY ReminderNothing
DEF LarkInit, HoursInv, CountsInv, CopyInv, NotEarly, Running, Paused

\* Unless one of Slips happened, no reminder is queued before its threshold and
\* intervals have passed as hours of access: pauses and resumptions
\* (pause_customer, resume_customer, scan_due_reminders) do not count the hours
\* of a pause, and lose none of the wait.
THEOREM RemindersNotEarly == Spec => []NotEarly
<1>1. QED
  BY InitBase, InitClock, InitHours, BaseStep, ClockStep, HoursStep, PTL DEF Spec

=============================================================================
