------------------------------ MODULE DesignTasks ------------------------------
(***************************************************************************)
(* The design tasks of one customer: adoption of a logo and feedback       *)
(* (CustomerDecisionService), acceptance and delivery by administrators    *)
(* (TaskCenterService), the reminder snapshots and keyed notifications     *)
(* those four write, and the customer's access they depend on.             *)
(*                                                                         *)
(* A handler's SELECTs run outside any transaction; from its first write   *)
(* to its commit it is the only writer of the SQLite file.  A handler is   *)
(* therefore one action per read that decides something, and one commit.   *)
(* An IntegrityError reaches no handler: the request answers 500 and rolls *)
(* back.  A TaskCenterError is answered by the route, and COMMITS.         *)
(***************************************************************************)
EXTENDS Naturals, Sequences

CONSTANTS
  Requests,    \* request handlers that may be in flight at a time
  Keys,        \* Idempotency-Key values the customer's pages send
  Notify,      \* the Lark channel and the rules of its events are enabled
  MaxTasks,    \* bound: tasks ever created
  MaxUploads,  \* bound: delivery images ever received
  MaxUpsets    \* bound: changes of the customer's access, deaths of a handler

ASSUME RequestsAssumption == Requests # {}
ASSUME KeysAssumption == 0 \notin Keys      \* 0 is None
ASSUME NotifyAssumption == Notify \in BOOLEAN
ASSUME BoundsAssumption ==
  MaxTasks \in Nat /\ MaxUploads \in Nat /\ MaxUpsets \in Nat

VARIABLES
  tasks,    \* design_tasks, in the order they were submitted
  watch,    \* active lark_reminder_snapshots: <<task, expected status>>
  sent,     \* idempotency keys of notification_outbox: <<event, task>>
  records,  \* endpoint_idempotency_records
  assets,   \* asset_records of delivery images
  files,    \* delivery images on disk
  uploads,  \* delivery images received so far
  access,   \* customers.access_state
  expired,  \* access_expires_at has passed
  upsets,
  req       \* the handlers: program counter and what they have read

db == <<tasks, watch, sent, records, assets>>
customer == <<access, expired, upsets>>
vars == <<tasks, watch, sent, records, assets, files, uploads, access, expired,
          upsets, req>>

-----------------------------------------------------------------------------

OpenWords == {"waiting_assignment", "in_progress"}
Ids == DOMAIN tasks
Open == {t \in Ids : tasks[t].status \in OpenWords}
Completed == {t \in Ids : tasks[t].status = "completed"}

None == 0                                 \* no delivery image, no opinion yet

\* The key that created the task stands for its content, the key that last
\* wrote an opinion for that opinion.
Task == [status : OpenWords \union {"completed", "canceled"}, by : Keys,
         delivery : 0..MaxUploads, feedback : Keys \union {None},
         rating : Keys \union {None}]

NewTask(key) == [status |-> "waiting_assignment", by |-> key, delivery |-> None,
                 feedback |-> None, rating |-> None]

\* Endpoint 0 is adoption, endpoint t the feedback of task t; flag is what the
\* request hash tells apart: a confirmed replacement, or a text (not a rating).
Record == [endpoint : 0..MaxTasks, key : Keys, flag : BOOLEAN]
Known(endpoint, key) == \E rec \in records : rec.endpoint = endpoint /\ rec.key = key

Pcs == {"off", "active", "refuse", "adopt", "again", "accept", "deliver", "opine"}
Handler == [pc : Pcs, endpoint : 0..MaxTasks, key : Keys \union {None},
            flag : BOOLEAN, loaded : SUBSET (1..MaxTasks), asset : 0..MaxUploads]

Idle == [pc |-> "off", endpoint |-> 0, key |-> None, flag |-> FALSE,
         loaded |-> {}, asset |-> None]

\* A customer's request under its key, and an administrator's on a task.
Asking(pc, endpoint, key, flag) ==
  [pc |-> pc, endpoint |-> endpoint, key |-> key, flag |-> flag,
   loaded |-> {}, asset |-> None]
Holding(pc, t, asset) ==
  [pc |-> pc, endpoint |-> 0, key |-> None, flag |-> FALSE,
   loaded |-> {t}, asset |-> asset]

\* derive_status = "active", and what get_customer_principal asks of a session.
Available == access = "active" /\ ~expired

Init ==
  /\ tasks = <<>>
  /\ watch = {}
  /\ sent = {}
  /\ records = {}
  /\ assets = {}
  /\ files = {}
  /\ uploads = 0
  /\ access = "active"
  /\ expired = FALSE
  /\ upsets = 0
  /\ req = [r \in Requests |-> Idle]

-----------------------------------------------------------------------------
(* Pieces of a handler.                                                    *)

At(r, pc) == req[r].pc = pc
Become(r, handler) == req' = [req EXCEPT ![r] = handler]
Leave(r) == Become(r, Idle)
OnlyReads == UNCHANGED <<db, files, uploads, customer>>

\* Mutant: no unique scope (customer, endpoint, key).
StoreAny(r) ==
  records' = records \union
    {[endpoint |-> req[r].endpoint, key |-> req[r].key, flag |-> req[r].flag]}

\* _store_result: the unique scope (customer, endpoint, key) refuses a second.
Store(r) ==
  /\ ~Known(req[r].endpoint, req[r].key)
  /\ records' = records \union
       {[endpoint |-> req[r].endpoint, key |-> req[r].key, flag |-> req[r].flag]}

\* enqueue_immediate: idempotency_key is unique in the outbox.
Enqueue(event, t) ==
  IF Notify THEN <<event, t>> \notin sent /\ sent' = sent \union {<<event, t>>}
            ELSE UNCHANGED sent

\* snapshot_stage and stop_task, without and with an event type.
Snapshot(t, word) == IF Notify THEN {<<t, word>>} ELSE {}
WatchedOf(stopped) == {w \in watch : w[1] \in stopped}

-----------------------------------------------------------------------------
(* POST /design-tasks/adopt                                                *)

\* The session is checked, the key is new (a known one is answered from its
\* record, or refused for other content, without a write), the logo may not be
\* the customer's, and no task may be completed.
AdoptBegin(r) ==
  /\ At(r, "off")
  /\ Available
  /\ \E key \in Keys, confirmed \in BOOLEAN :
       /\ ~Known(0, key)
       /\ \E pc \in IF Completed # {} THEN {"refuse"} ELSE {"refuse", "active"} :
            Become(r, Asking(pc, 0, key, confirmed))
  /\ OnlyReads

\* Mutant: replaces without asking.
AdoptReadUnasked(r) ==
  /\ At(r, "active")
  /\ Become(r, [req[r] EXCEPT !.pc = "adopt", !.loaded = Open])
  /\ OnlyReads

\* The open tasks; replacing them must have been confirmed.
AdoptRead(r) ==
  /\ At(r, "active")
  /\ Become(r, [req[r] EXCEPT !.loaded = Open,
                  !.pc = IF Open # {} /\ ~req[r].flag THEN "refuse" ELSE "adopt"])
  /\ OnlyReads

\* The loaded rows are canceled by primary key, whatever they say by now.
Canceled(loaded) ==
  [t \in Ids |-> IF t \in loaded THEN [tasks[t] EXCEPT !.status = "canceled"]
                                 ELSE tasks[t]]

\* Mutant: uq_design_tasks_customer_open is missing.
AnyOpen(loaded) == loaded \subseteq Ids

\* uq_design_tasks_customer_open: one open task of the customer.
NoOtherOpen(loaded) == Open \subseteq loaded

\* Mutant: the snapshots of the replaced tasks are not stopped.
AdoptCommitUnstopped(r) ==
  /\ At(r, "adopt")
  /\ Len(tasks) < MaxTasks
  /\ NoOtherOpen(req[r].loaded)
  /\ Store(r)
  /\ LET t == Len(tasks) + 1
     IN  /\ tasks' = Append(Canceled(req[r].loaded), NewTask(req[r].key))
         /\ watch' = watch \union Snapshot(t, "waiting_assignment")
         /\ Enqueue("adopted", t)
  /\ Leave(r)
  /\ UNCHANGED <<assets, files, uploads, customer>>

AdoptCommit(r) ==
  /\ At(r, "adopt")
  /\ Len(tasks) < MaxTasks
  /\ NoOtherOpen(req[r].loaded)
  /\ Store(r)
  /\ LET t == Len(tasks) + 1
     IN  /\ tasks' = Append(Canceled(req[r].loaded), NewTask(req[r].key))
         /\ watch' = (watch \ WatchedOf(req[r].loaded))
                       \union Snapshot(t, "waiting_assignment")
         /\ Enqueue("adopted", t)
  /\ Leave(r)
  /\ UNCHANGED <<assets, files, uploads, customer>>

\* _store_error: a refusal is remembered under its key as well.
RefuseCommit(r) ==
  /\ At(r, "refuse")
  /\ Store(r)
  /\ Leave(r)
  /\ UNCHANGED <<tasks, watch, sent, assets, files, uploads, customer>>

\* A unique index refuses the commit: 500, and nothing is written.
CommitRefused(r) ==
  /\ \/ /\ At(r, "adopt")
        /\ ~NoOtherOpen(req[r].loaded)
     \/ /\ req[r].pc \in {"adopt", "refuse", "opine"}
        /\ Known(req[r].endpoint, req[r].key)
     \/ /\ At(r, "opine")
        /\ req[r].flag
        /\ Notify
        /\ <<"feedback", req[r].endpoint>> \in sent
  /\ Leave(r)
  /\ OnlyReads

-----------------------------------------------------------------------------
(* POST /design-tasks/{task}/accept                                        *)

AcceptBegin(r) ==
  /\ At(r, "off")
  /\ Available
  /\ \E t \in Ids :
       /\ tasks[t].status = "waiting_assignment"
       /\ Become(r, Holding("again", t, None))
  /\ OnlyReads

\* The customer is read a second time.
AcceptAgain(r) ==
  /\ At(r, "again")
  /\ IF Available THEN Become(r, [req[r] EXCEPT !.pc = "accept"]) ELSE Leave(r)
  /\ OnlyReads

\* Mutant: the UPDATE does not look at the customer.
StillAcceptableStopped(t) == tasks[t].status = "waiting_assignment"

\* The condition of the UPDATE.  access_expires_at is compared with the time
\* sampled before the second read, at which it had not passed.
StillAcceptable(t) == tasks[t].status = "waiting_assignment" /\ access = "active"

AcceptCommit(r) ==
  /\ At(r, "accept")
  /\ \E t \in req[r].loaded :
       IF StillAcceptable(t)
       THEN /\ tasks' = [tasks EXCEPT ![t].status = "in_progress"]
            /\ watch' = (watch \ {<<t, "waiting_assignment">>})
                          \union Snapshot(t, "in_progress")
       ELSE UNCHANGED <<tasks, watch>>
  /\ Leave(r)
  /\ UNCHANGED <<sent, records, assets, files, uploads, customer>>

-----------------------------------------------------------------------------
(* POST /design-tasks/{task}/delivery-image                                *)

\* Mutant: the image is stored under the name of its task.
StagedByTask(t) == t
\* Every image is stored under a new key.
Staged(t) == uploads + 1

DeliverBegin(r) ==
  /\ At(r, "off")
  /\ Available
  /\ uploads < MaxUploads
  /\ uploads' = uploads + 1
  /\ \E t \in Ids :
       /\ tasks[t].status = "in_progress"
       /\ files' = files \union {Staged(t)}
       /\ Become(r, Holding("deliver", t, Staged(t)))
  /\ UNCHANGED <<db, customer>>

\* The customer is read again after the asset row's INSERT has begun the
\* transaction; its refusal deletes the file, and the route commits the row.
DeliverUnavailable(r) ==
  /\ At(r, "deliver")
  /\ ~Available
  /\ assets' = assets \union {req[r].asset}
  /\ files' = files \ {req[r].asset}
  /\ Leave(r)
  /\ UNCHANGED <<tasks, watch, sent, records, uploads, customer>>

\* Mutant: the UPDATE does not look at the status.
DeliverableAnyway(t) == tasks[t].delivery = None

Deliverable(t) == tasks[t].status = "in_progress" /\ tasks[t].delivery = None

\* The UPDATE hit no row: the asset row and the file are removed.
DeliverChanged(r) ==
  /\ At(r, "deliver")
  /\ Available
  /\ \E t \in req[r].loaded : ~Deliverable(t)
  /\ files' = files \ {req[r].asset}
  /\ Leave(r)
  /\ UNCHANGED <<db, uploads, customer>>

DeliverCommit(r) ==
  /\ At(r, "deliver")
  /\ Available
  /\ \E t \in req[r].loaded :
       /\ Deliverable(t)
       /\ tasks' = [tasks EXCEPT ![t].status = "completed", ![t].delivery = req[r].asset]
       /\ watch' = watch \ WatchedOf({t})
       /\ Enqueue("delivered", t)
  /\ assets' = assets \union {req[r].asset}
  /\ Leave(r)
  /\ UNCHANGED <<records, files, uploads, customer>>

-----------------------------------------------------------------------------
(* PATCH /my/tasks/{task}/feedback: a text or a rating of a delivered task *)
(* (one request with both writes what the two would).                      *)

FeedbackBegin(r) ==
  /\ At(r, "off")
  /\ Available
  /\ \E t \in Ids, key \in Keys, text \in BOOLEAN :
       /\ ~Known(t, key)
       /\ Become(r, Asking(IF t \in Completed THEN "opine" ELSE "refuse", t, key, text))
  /\ OnlyReads

FeedbackCommit(r) ==
  /\ At(r, "opine")
  /\ Store(r)
  /\ LET t == req[r].endpoint
     IN  IF req[r].flag
         THEN /\ tasks' = [tasks EXCEPT ![t].feedback = req[r].key]
              /\ Enqueue("feedback", t)
         ELSE /\ tasks' = [tasks EXCEPT ![t].rating = req[r].key]
              /\ UNCHANGED sent
  /\ Leave(r)
  /\ UNCHANGED <<watch, assets, files, uploads, customer>>

-----------------------------------------------------------------------------
(* Around the handlers.                                                    *)

Upset ==
  /\ upsets < MaxUpsets
  /\ upsets' = upsets + 1
  /\ UNCHANGED <<db, files, uploads>>

Change == Upset /\ UNCHANGED req

\* CustomerAccessService.stop, .resume and .update_expiration, which refuse an
\* expired customer but for the last, and time.  What they do to sessions and to
\* the clocks of the snapshots is not this module's.
Stop == Available /\ access' = "stopped" /\ UNCHANGED expired /\ Change
Resume == access = "stopped" /\ ~expired /\ access' = "active" /\ UNCHANGED expired /\ Change
Extend == expired /\ expired' = FALSE /\ UNCHANGED access /\ Change
Expire == ~expired /\ expired' = TRUE /\ UNCHANGED access /\ Change

\* The process stops, or the database stays locked for longer than it waits.
Dies(r) ==
  /\ ~At(r, "off")
  /\ Upset
  /\ Leave(r)
  /\ UNCHANGED <<access, expired>>

-----------------------------------------------------------------------------

Adopt(r) == AdoptBegin(r) \/ AdoptRead(r) \/ AdoptCommit(r)
Accept(r) == AcceptBegin(r) \/ AcceptAgain(r) \/ AcceptCommit(r)
Deliver(r) ==
  DeliverBegin(r) \/ DeliverUnavailable(r) \/ DeliverChanged(r) \/ DeliverCommit(r)
Feedback(r) == FeedbackBegin(r) \/ FeedbackCommit(r)

Next ==
  \/ \E r \in Requests :
       Adopt(r) \/ Accept(r) \/ Deliver(r) \/ Feedback(r)
       \/ RefuseCommit(r) \/ CommitRefused(r) \/ Dies(r)
  \/ Stop \/ Resume \/ Extend \/ Expire

Spec == Init /\ [][Next]_vars

-----------------------------------------------------------------------------
(* Properties.                                                             *)

\* The tasks as the customer and the administrators see them: key and image of
\* each, and the words they compare.
Seen == [t \in Ids |-> [status |-> tasks[t].status, by |-> tasks[t].by,
                        image |-> tasks[t].delivery]]

Board == INSTANCE TaskBoard
           WITH board <- Seen, active <- access = "active", Images <- 1..MaxUploads

\* The handlers, however they interleave and die, keep the abstract board's
\* promise: one open task, replaced by the one submission of a key, accepted and
\* delivered once while the customer is active, with an image of its own.
KeepsBoardPromise == Board!Spec

\* The types of every variable.
TypeOK ==
  /\ tasks \in Seq(Task) /\ Len(tasks) <= MaxTasks
  /\ watch \subseteq Ids \X OpenWords
  /\ sent \subseteq {"adopted", "delivered", "feedback"} \X Ids
  /\ records \subseteq Record
  /\ assets \subseteq 1..uploads
  /\ files \subseteq 1..uploads
  /\ uploads \in 0..MaxUploads
  /\ access \in {"active", "stopped"}
  /\ expired \in BOOLEAN
  /\ upsets \in 0..MaxUpsets
  /\ req \in [Requests -> Handler]

\* However adoptions, acceptances and deliveries interleave, the customer has
\* one open task at most.
OneOpenTask == \A t, u \in Open : t = u

\* A key sent twice, at the same time or after a lost answer, creates one task:
\* a double click or a resend never replaces the task it has just created.
KeyCreatesOneTask == \A t, u \in Ids : tasks[t].by = tasks[u].by => t = u

\* Reminders follow the tasks: with the rules enabled, a task that waits or is
\* in progress has the one active snapshot of that stage, whoever raced to move
\* it, and a canceled or completed task has none.
StageWatched ==
  watch = IF Notify THEN {<<t, tasks[t].status>> : t \in Open} ELSE {}

\* An open task is canceled only by an adoption that the customer confirmed as
\* a replacement, in the step that creates the replacement.
ConfirmedReplacement ==
  [][\A t \in Open :
       tasks'[t].status = "canceled" =>
         /\ Len(tasks') = Len(tasks) + 1
         /\ \E r \in Requests : At(r, "adopt") /\ req[r].flag /\ t \in req[r].loaded]_vars

\* An administrator's page that was opened before the customer was stopped
\* neither accepts nor delivers a task afterwards.
StopBeatsAdministrator ==
  [][\A t \in Ids :
       tasks'[t].status # tasks[t].status /\ tasks'[t].status # "canceled"
         => access = "active"]_vars

\* A delivered task has its asset record and its file, also when several
\* deliveries of the task race and the losers clean up.
DeliveredHasFile ==
  \A t \in Ids : tasks[t].delivery # None => tasks[t].delivery \in assets \intersect files

\* "Apply the three-state task machine and protect delivery assets": completed
\* is final.
CompletedStays ==
  [][\A t \in Completed : tasks'[t].status = "completed"]_vars

\* "Cancel invalid open rows": no task is open beside a completed one.
NoOpenBesideCompleted == Completed = {} \/ Open = {}

\* "Persist the latest customer feedback/rating for a delivered task": a handler
\* that found its task delivered ends with its key recorded, unless it dies.
LatestOpinionStored ==
  [][\A r \in Requests :
       At(r, "opine") /\ req'[r].pc = "off" /\ upsets' = upsets =>
         \E rec \in records' : rec.endpoint = req[r].endpoint /\ rec.key = req[r].key]_vars

\* "Remove an uncommitted staged file": an asset record never loses its file.
RecordHasFile == assets \subseteq files

=============================================================================
