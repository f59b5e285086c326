------------------------- MODULE DesignTasksProofs -------------------------
(***************************************************************************)
(* Theorems of DesignTasks, for any number of handlers, keys, tasks and    *)
(* deliveries.                                                             *)
(***************************************************************************)
EXTENDS DesignTasks, TLAPS

\* What a handler holds: tasks that exist, a key, a confirmation if it is going
\* to replace tasks, an image if it is going to deliver one.
HandlerInv ==
  \A r \in Requests :
    /\ req[r].loaded \subseteq Ids
    /\ At(r, "opine") => req[r].endpoint \in Ids
    /\ req[r].pc \in {"active", "adopt", "refuse", "opine"} => req[r].key \in Keys
    /\ req[r].pc \in {"active", "adopt"} => req[r].endpoint = 0
    /\ At(r, "adopt") => req[r].loaded = {} \/ req[r].flag
    /\ At(r, "deliver") => req[r].asset \in 1..uploads

TypeInv == TypeOK /\ HandlerInv

-----------------------------------------------------------------------------
(* Rows and handlers.                                                      *)

\* What an adoption does to the rows: the loaded ones are canceled, the others
\* stay, and a new one is appended.
LEMMA AdoptRows ==
  ASSUME TypeInv, NEW r \in Requests, AdoptCommit(r)
  PROVE  /\ tasks' \in Seq(Task)
         /\ Len(tasks') = Len(tasks) + 1
         /\ Ids = 1..Len(tasks)
         /\ Ids' = 1..(Len(tasks) + 1)
         /\ \A t \in Ids :
              tasks'[t] = IF t \in req[r].loaded
                          THEN [tasks[t] EXCEPT !.status = "canceled"] ELSE tasks[t]
         /\ tasks'[Len(tasks) + 1] = NewTask(req[r].key)
<1>1. tasks \in Seq(Task) /\ req[r].key \in Keys
  BY DEF TypeInv, TypeOK, HandlerInv, AdoptCommit, At
<1>2. NewTask(req[r].key) \in Task
  BY <1>1, BoundsAssumption DEF NewTask, Task, OpenWords, None
<1>3. DOMAIN tasks = 1..Len(tasks) /\ \A t \in Ids : tasks[t] \in Task
  BY <1>1 DEF Ids
<1>4. \A t \in Ids : [tasks[t] EXCEPT !.status = "canceled"] \in Task
  BY <1>3 DEF Task
<1> DEFINE kept == Canceled(req[r].loaded)
<1>5. kept \in Seq(Task) /\ Len(kept) = Len(tasks)
  <2>1. kept = [t \in 1..Len(tasks) |->
                  IF t \in req[r].loaded THEN [tasks[t] EXCEPT !.status = "canceled"]
                                         ELSE tasks[t]]
    BY <1>3 DEF Canceled, Ids
  <2>2. \A t \in 1..Len(tasks) : kept[t] \in Task
    BY <2>1, <1>3, <1>4 DEF Ids
  <2>3. Len(tasks) \in Nat
    BY <1>1
  <2> QED
    BY <2>1, <2>2, <2>3
<1>6. tasks' = Append(kept, NewTask(req[r].key))
  BY DEF AdoptCommit
<1>7. \A t \in Ids : kept[t] = IF t \in req[r].loaded
                          THEN [tasks[t] EXCEPT !.status = "canceled"] ELSE tasks[t]
  BY DEF Canceled
<1> HIDE DEF kept
<1> QED
  BY <1>1, <1>2, <1>3, <1>5, <1>6, <1>7 DEF Ids

\* An idle handler, and the handlers that begin or move on.
LEMMA IdleHandler == Idle \in Handler
BY BoundsAssumption DEF Idle, Handler, Pcs, None

\* ... with the fields they begin with.
LEMMA AskingHandler ==
  ASSUME NEW pc \in Pcs, NEW e \in 0..MaxTasks, NEW key \in Keys, NEW flag \in BOOLEAN
  PROVE  /\ Asking(pc, e, key, flag) \in Handler
         /\ Asking(pc, e, key, flag).pc = pc
         /\ Asking(pc, e, key, flag).endpoint = e
         /\ Asking(pc, e, key, flag).key = key
         /\ Asking(pc, e, key, flag).flag = flag
         /\ Asking(pc, e, key, flag).loaded = {}
<1>1. None \in 0..MaxUploads
  BY BoundsAssumption DEF None
<1> QED
  BY <1>1 DEF Asking, Handler

\* ... for an administrator's, with the task and the image.
LEMMA HoldingHandler ==
  ASSUME NEW pc \in Pcs, NEW t \in 1..MaxTasks, NEW asset \in 0..MaxUploads
  PROVE  /\ Holding(pc, t, asset) \in Handler
         /\ Holding(pc, t, asset).pc = pc
         /\ Holding(pc, t, asset).loaded = {t}
         /\ Holding(pc, t, asset).asset = asset
<1>1. 0 \in 0..MaxTasks
  BY BoundsAssumption
<1> QED
  BY <1>1 DEF Holding, Handler

\* The program counters, in full.
LEMMA PcsAre ==
  Pcs = {"off", "active", "refuse", "adopt", "again", "accept", "deliver", "opine"}
BY DEF Pcs

\* Tasks are numbered from one, and there are no more than the bound.
LEMMA IdsAre ==
  ASSUME TypeOK
  PROVE  /\ Len(tasks) \in 0..MaxTasks
         /\ Ids = 1..Len(tasks)
         /\ Ids \subseteq 1..MaxTasks
         /\ \A t \in Ids : tasks[t] \in Task
<1>1. tasks \in Seq(Task) /\ Len(tasks) <= MaxTasks
  BY DEF TypeOK
<1>2. Len(tasks) \in Nat /\ DOMAIN tasks = 1..Len(tasks)
  BY <1>1
<1> QED
  BY <1>1, <1>2, BoundsAssumption DEF Ids

-----------------------------------------------------------------------------
(* Types, and what the handlers hold.                                      *)

\* No handler holds anything at the start.
LEMMA TypeInit == Init => TypeInv
<1> SUFFICES ASSUME Init PROVE TypeInv
  OBVIOUS
<1>1. Idle \in Handler
  BY IdleHandler
<1>2. tasks \in Seq(Task) /\ Len(tasks) = 0
  BY DEF Init
<1>3. \A r \in Requests : req[r] = Idle
  BY DEF Init
<1>4. uploads \in 0..MaxUploads /\ upsets \in 0..MaxUpsets
  BY BoundsAssumption DEF Init
<1>6. tasks \in Seq(Task) /\ Len(tasks) <= MaxTasks
  BY <1>2, BoundsAssumption
<1>7. req \in [Requests -> Handler]
  BY <1>1 DEF Init
<1>8. TypeOK
  BY <1>4, <1>6, <1>7 DEF Init, TypeOK
<1>9. Idle.pc = "off" /\ Idle.loaded = {}
  BY DEF Idle
<1>5. HandlerInv
  BY <1>3, <1>9 DEF HandlerInv, At
<1> QED
  BY <1>8, <1>5 DEF TypeInv

\* A step that moves one handler and leaves the rows where they are.
LEMMA HandlerMoves ==
  ASSUME TypeInv, NEW r \in Requests, NEW h \in Handler, Become(r, h),
         Ids' = Ids, 1..uploads \subseteq 1..uploads',
         h.loaded \subseteq Ids,
         h.pc = "opine" => h.endpoint \in Ids,
         h.pc \in {"active", "adopt", "refuse", "opine"} => h.key \in Keys,
         h.pc \in {"active", "adopt"} => h.endpoint = 0,
         h.pc = "adopt" => h.loaded = {} \/ h.flag,
         h.pc = "deliver" => h.asset \in 1..uploads'
  PROVE  req' \in [Requests -> Handler] /\ HandlerInv'
<1>1. req \in [Requests -> Handler]
  BY DEF TypeInv, TypeOK
<1>2. req' = [req EXCEPT ![r] = h]
  BY DEF Become
<1>3. req'[r] = h /\ \A s \in Requests : s # r => req'[s] = req[s]
  BY <1>1, <1>2
<1>4. \A s \in Requests :
        /\ req'[s].loaded \subseteq Ids'
        /\ req'[s].pc = "opine" => req'[s].endpoint \in Ids'
        /\ req'[s].pc \in {"active", "adopt", "refuse", "opine"} => req'[s].key \in Keys
        /\ req'[s].pc \in {"active", "adopt"} => req'[s].endpoint = 0
        /\ req'[s].pc = "adopt" => req'[s].loaded = {} \/ req'[s].flag
        /\ req'[s].pc = "deliver" => req'[s].asset \in 1..uploads'
  BY <1>3 DEF TypeInv, HandlerInv, At
<1> QED
  BY <1>1, <1>2, <1>4 DEF HandlerInv, At

\* Leaving is such a step, also when a row has been appended.
LEMMA HandlerLeaves ==
  ASSUME TypeInv, NEW r \in Requests, Leave(r), Ids \subseteq Ids', uploads' = uploads
  PROVE  req' \in [Requests -> Handler] /\ HandlerInv'
<1>1. req \in [Requests -> Handler] /\ Idle \in Handler
  BY IdleHandler DEF TypeInv, TypeOK
<1>2. req' = [req EXCEPT ![r] = Idle]
  BY DEF Leave, Become
<1>3. req'[r] = Idle /\ \A s \in Requests : s # r => req'[s] = req[s]
  BY <1>1, <1>2
<1>4. Idle.loaded = {} /\ Idle.pc = "off"
  BY DEF Idle
<1> QED
  BY <1>1, <1>2, <1>3, <1>4 DEF TypeInv, HandlerInv, At

\* The steps that only move a handler.
LEMMA ReadStepType ==
  ASSUME TypeInv, NEW r \in Requests,
         \/ AdoptBegin(r) \/ AdoptRead(r) \/ CommitRefused(r)
         \/ AcceptBegin(r) \/ AcceptAgain(r) \/ FeedbackBegin(r)
  PROVE  TypeInv'
<1> USE PcsAre
<1>1. TypeOK /\ HandlerInv /\ req[r] \in Handler /\ req \in [Requests -> Handler]
  BY DEF TypeInv, TypeOK
<1>2. UNCHANGED <<db, files, uploads, customer>>
  BY DEF AdoptBegin, AdoptRead, CommitRefused, AcceptBegin, AcceptAgain, FeedbackBegin,
         OnlyReads
<1>3. Ids' = Ids /\ Ids \subseteq 1..MaxTasks
  BY <1>1, <1>2, IdsAre DEF Ids, db
<1>4. Idle \in Handler /\ Idle.loaded = {} /\ Idle.pc = "off" /\ Idle.endpoint = 0
  BY IdleHandler DEF Idle
<1>5. \E h \in Handler :
        /\ Become(r, h)
        /\ h.loaded \subseteq Ids
        /\ h.pc = "opine" => h.endpoint \in Ids
        /\ h.pc \in {"active", "adopt", "refuse", "opine"} => h.key \in Keys
        /\ h.pc \in {"active", "adopt"} => h.endpoint = 0
        /\ h.pc = "adopt" => h.loaded = {} \/ h.flag
        /\ h.pc # "deliver"
  <2>1. CASE AdoptBegin(r)
    <3>1. PICK key \in Keys, flag \in BOOLEAN, pc \in {"refuse", "active"} :
            Become(r, Asking(pc, 0, key, flag))
      BY <2>1 DEF AdoptBegin
    <3>2. 0 \in 0..MaxTasks
      BY BoundsAssumption
    <3> QED
      BY <3>1, <3>2, AskingHandler
  <2>2. CASE AdoptRead(r)
    <3> DEFINE pc == IF Open # {} /\ ~req[r].flag THEN "refuse" ELSE "adopt"
               h == [req[r] EXCEPT !.loaded = Open, !.pc = pc]
    <3>1. Become(r, h) /\ req[r].pc = "active"
      BY <2>2 DEF AdoptRead, At
    <3>2. Open \subseteq Ids /\ Open \in SUBSET (1..MaxTasks)
      BY <1>3 DEF Open
    <3>3. h \in Handler /\ h.loaded = Open /\ h.pc = pc
          /\ h.key = req[r].key /\ h.endpoint = req[r].endpoint /\ h.flag = req[r].flag
      BY <1>1, <3>2 DEF Handler
    <3>4. req[r].key \in Keys /\ req[r].endpoint = 0
      BY <1>1, <3>1 DEF HandlerInv, At
    <3> HIDE DEF h
    <3> QED
      BY <3>1, <3>2, <3>3, <3>4
  <2>3. CASE CommitRefused(r)
    BY <2>3, <1>4 DEF CommitRefused, Leave
  <2>4. CASE AcceptBegin(r)
    <3>1. PICK t \in Ids : Become(r, Holding("again", t, None))
      BY <2>4 DEF AcceptBegin
    <3>2. None \in 0..MaxUploads
      BY BoundsAssumption DEF None
    <3> QED
      BY <3>1, <3>2, <1>3, HoldingHandler
  <2>5. CASE AcceptAgain(r)
    <3>1. [req[r] EXCEPT !.pc = "accept"] \in Handler
      BY <1>1 DEF Handler
    <3> QED
      BY <2>5, <3>1, <1>1, <1>4 DEF AcceptAgain, Leave, HandlerInv, Handler
  <2>6. CASE FeedbackBegin(r)
    <3>1. PICK t \in Ids, key \in Keys, text \in BOOLEAN :
            Become(r, Asking(IF t \in Completed THEN "opine" ELSE "refuse", t, key, text))
      BY <2>6 DEF FeedbackBegin
    <3>2. t \in 0..MaxTasks
      BY <1>3
    <3> QED
      BY <3>1, <3>2, AskingHandler
  <2> QED
    BY <2>1, <2>2, <2>3, <2>4, <2>5, <2>6
<1>6. req' \in [Requests -> Handler] /\ HandlerInv'
  BY <1>2, <1>3, <1>5, HandlerMoves
<1>7. TypeOK'
  BY <1>1, <1>2, <1>6 DEF TypeOK, db, customer, Ids
<1> QED
  BY <1>6, <1>7 DEF TypeInv

\* A step that rewrites one row.
LEMMA RowRewritten ==
  ASSUME TypeInv, NEW t \in Ids, NEW row \in Task, tasks' = [tasks EXCEPT ![t] = row]
  PROVE  /\ tasks' \in Seq(Task) /\ Len(tasks') = Len(tasks)
         /\ Ids' = Ids
         /\ tasks'[t] = row
         /\ \A u \in Ids : u # t => tasks'[u] = tasks[u]
<1>1. tasks \in Seq(Task) /\ t \in 1..Len(tasks) /\ DOMAIN tasks = 1..Len(tasks)
  BY DEF TypeInv, TypeOK, Ids
<1>2. tasks' \in Seq(Task) /\ Len(tasks') = Len(tasks)
  BY <1>1
<1> QED
  BY <1>1, <1>2 DEF Ids

\* Every type but those of the rows and handlers, after a step that keeps them.
LEMMA TypeParts ==
  ASSUME TypeInv,
         tasks' \in Seq(Task), Len(tasks') <= MaxTasks, Ids \subseteq Ids',
         watch' \subseteq Ids' \X OpenWords,
         sent' \subseteq {"adopted", "delivered", "feedback"} \X Ids',
         records' \subseteq Record,
         assets' \subseteq 1..uploads', files' \subseteq 1..uploads',
         uploads' \in 0..MaxUploads, access' \in {"active", "stopped"},
         expired' \in BOOLEAN, upsets' \in 0..MaxUpsets,
         req' \in [Requests -> Handler], HandlerInv'
  PROVE  TypeInv'
BY DEF TypeInv, TypeOK, Ids

\* What Enqueue and Store add.
LEMMA EnqueueType ==
  ASSUME TypeInv, NEW event \in {"adopted", "delivered", "feedback"}, NEW t \in Ids',
         Enqueue(event, t), Ids \subseteq Ids'
  PROVE  sent' \subseteq {"adopted", "delivered", "feedback"} \X Ids'
<1>1. sent \subseteq {"adopted", "delivered", "feedback"} \X Ids'
  BY DEF TypeInv, TypeOK
<1>2. sent' \subseteq sent \union {<<event, t>>}
  BY DEF Enqueue
<1> QED
  BY <1>1, <1>2

\* ... and a record of a handler that has a key.
LEMMA StoreType ==
  ASSUME TypeInv, NEW r \in Requests, Store(r), req[r].key \in Keys
  PROVE  records' \subseteq Record
<1>1. records \subseteq Record /\ req[r] \in Handler
  BY DEF TypeInv, TypeOK
<1>2. req[r].endpoint \in 0..MaxTasks /\ req[r].flag \in BOOLEAN
  BY <1>1 DEF Handler
<1>3. [endpoint |-> req[r].endpoint, key |-> req[r].key, flag |-> req[r].flag] \in Record
  BY <1>2 DEF Record
<1> QED
  BY <1>1, <1>3 DEF Store

\* An active snapshot of an existing task.
LEMMA SnapshotType ==
  ASSUME NEW t \in Ids', NEW word \in OpenWords
  PROVE  Snapshot(t, word) \subseteq Ids' \X OpenWords
BY DEF Snapshot

\* The commit of an adoption.
LEMMA AdoptCommitType ==
  ASSUME TypeInv, NEW r \in Requests, AdoptCommit(r)
  PROVE  TypeInv'
<1>1. /\ tasks' \in Seq(Task)
      /\ Len(tasks') = Len(tasks) + 1
      /\ Ids = 1..Len(tasks)
      /\ Ids' = 1..(Len(tasks) + 1)
  BY AdoptRows
<1>2. Len(tasks) < MaxTasks /\ Store(r) /\ Leave(r)
      /\ UNCHANGED <<assets, files, uploads, customer>>
      /\ Enqueue("adopted", Len(tasks) + 1)
      /\ watch' = (watch \ WatchedOf(req[r].loaded))
                    \union Snapshot(Len(tasks) + 1, "waiting_assignment")
  BY DEF AdoptCommit
<1>3. Len(tasks) \in Nat /\ Len(tasks) + 1 \in Ids' /\ Ids \subseteq Ids'
  BY <1>1 DEF TypeInv, TypeOK
<1>4. req[r].key \in Keys
  BY DEF AdoptCommit, At, TypeInv, HandlerInv
<1>5. Len(tasks') <= MaxTasks
  BY <1>1, <1>2, <1>3, BoundsAssumption
<1>6. watch' \subseteq Ids' \X OpenWords
  BY <1>2, <1>3, SnapshotType DEF TypeInv, TypeOK, OpenWords
<1>7. sent' \subseteq {"adopted", "delivered", "feedback"} \X Ids'
  BY <1>2, <1>3, EnqueueType
<1>8. records' \subseteq Record
  BY <1>2, <1>4, StoreType
<1>9. req' \in [Requests -> Handler] /\ HandlerInv'
  BY <1>2, <1>3, HandlerLeaves
<1>10. /\ assets' \subseteq 1..uploads' /\ files' \subseteq 1..uploads'
       /\ uploads' \in 0..MaxUploads /\ access' \in {"active", "stopped"}
       /\ expired' \in BOOLEAN /\ upsets' \in 0..MaxUpsets
  BY <1>2 DEF TypeInv, TypeOK, customer
<1> QED
  BY <1>1, <1>3, <1>5, <1>6, <1>7, <1>8, <1>9, <1>10, TypeParts

\* The commit of a refusal, and what happens to the customer and to handlers
\* that die: the rows stay.
LEMMA RowsStayType ==
  ASSUME TypeInv,
         \/ \E r \in Requests : RefuseCommit(r) \/ Dies(r)
         \/ Stop \/ Resume \/ Extend \/ Expire
  PROVE  TypeInv'
<1>1. tasks' = tasks /\ Ids' = Ids
  BY DEF RefuseCommit, Dies, Stop, Resume, Extend, Expire, Change, Upset, db, Ids
<1>2. UNCHANGED <<watch, sent, assets, files, uploads>>
  BY DEF RefuseCommit, Dies, Stop, Resume, Extend, Expire, Change, Upset, db
<1>3. records' \subseteq Record
  <2>1. CASE \E r \in Requests : RefuseCommit(r)
    <3>1. PICK r \in Requests : RefuseCommit(r)
      BY <2>1
    <3>2. req[r].key \in Keys
      BY <3>1 DEF RefuseCommit, At, TypeInv, HandlerInv
    <3> QED
      BY <3>1, <3>2, StoreType DEF RefuseCommit
  <2>2. CASE ~\E r \in Requests : RefuseCommit(r)
    <3>1. records' = records
      BY <2>2 DEF Dies, Stop, Resume, Extend, Expire, Change, Upset, db
    <3> QED
      BY <3>1 DEF TypeInv, TypeOK
  <2> QED
    BY <2>1, <2>2
<1>4. access' \in {"active", "stopped"} /\ expired' \in BOOLEAN
  BY DEF TypeInv, TypeOK, RefuseCommit, Dies, Stop, Resume, Extend, Expire, Change, customer
<1>5. upsets' \in 0..MaxUpsets
  <2>1. upsets' = upsets \/ (upsets < MaxUpsets /\ upsets' = upsets + 1)
    BY DEF RefuseCommit, Dies, Stop, Resume, Extend, Expire, Change, Upset, customer
  <2> QED
    BY <2>1, BoundsAssumption DEF TypeInv, TypeOK
<1>6. req' \in [Requests -> Handler] /\ HandlerInv'
  <2>1. CASE \E r \in Requests : RefuseCommit(r) \/ Dies(r)
    BY <2>1, <1>1, <1>2, HandlerLeaves DEF RefuseCommit, Dies
  <2>2. CASE Stop \/ Resume \/ Extend \/ Expire
    <3>1. req' = req
      BY <2>2 DEF Stop, Resume, Extend, Expire, Change
    <3> QED
      BY <3>1, <1>1, <1>2 DEF TypeInv, TypeOK, HandlerInv, At
  <2> QED
    BY <2>1, <2>2
<1> QED
  BY <1>1, <1>2, <1>3, <1>4, <1>5, <1>6, TypeParts DEF TypeInv, TypeOK

\* The commit of an acceptance.
LEMMA AcceptCommitType ==
  ASSUME TypeInv, NEW r \in Requests, AcceptCommit(r)
  PROVE  TypeInv'
<1>1. PICK t \in req[r].loaded :
        IF StillAcceptable(t)
        THEN /\ tasks' = [tasks EXCEPT ![t].status = "in_progress"]
             /\ watch' = (watch \ {<<t, "waiting_assignment">>})
                           \union Snapshot(t, "in_progress")
        ELSE UNCHANGED <<tasks, watch>>
  BY DEF AcceptCommit
<1>2. t \in Ids /\ tasks[t] \in Task
  BY IdsAre DEF TypeInv, HandlerInv
<1>3. /\ tasks' \in Seq(Task) /\ Len(tasks') = Len(tasks) /\ Ids' = Ids
      /\ watch' \subseteq Ids' \X OpenWords
  <2>1. CASE StillAcceptable(t)
    <3> DEFINE row == [tasks[t] EXCEPT !.status = "in_progress"]
    <3>1. row \in Task /\ tasks' = [tasks EXCEPT ![t] = row]
      BY <1>1, <1>2, <2>1 DEF Task, OpenWords
    <3> HIDE DEF row
    <3>2. tasks' \in Seq(Task) /\ Len(tasks') = Len(tasks) /\ Ids' = Ids
      BY <1>2, <3>1, RowRewritten
    <3>3. Snapshot(t, "in_progress") \subseteq Ids' \X OpenWords
      BY <1>2, <3>2, SnapshotType DEF OpenWords
    <3> QED
      BY <1>1, <2>1, <3>2, <3>3 DEF TypeInv, TypeOK
  <2>2. CASE ~StillAcceptable(t)
    BY <1>1, <2>2 DEF TypeInv, TypeOK, Ids
  <2> QED
    BY <2>1, <2>2
<1>4. UNCHANGED <<sent, records, assets, files, uploads, customer>> /\ Leave(r)
  BY DEF AcceptCommit
<1>5. req' \in [Requests -> Handler] /\ HandlerInv'
  BY <1>3, <1>4, HandlerLeaves
<1> QED
  BY <1>3, <1>4, <1>5, TypeParts DEF TypeInv, TypeOK, customer

\* The commit of an opinion.
LEMMA FeedbackCommitType ==
  ASSUME TypeInv, NEW r \in Requests, FeedbackCommit(r)
  PROVE  TypeInv'
<1> DEFINE t == req[r].endpoint
           key == req[r].key
           row == IF req[r].flag THEN [tasks[t] EXCEPT !.feedback = key]
                                 ELSE [tasks[t] EXCEPT !.rating = key]
<1>1. t \in Ids /\ tasks[t] \in Task /\ key \in Keys
  BY IdsAre DEF FeedbackCommit, At, TypeInv, HandlerInv
<1>2. row \in Task
  BY <1>1 DEF Task
<1>3. tasks' = [tasks EXCEPT ![t] = row]
  BY <1>1 DEF FeedbackCommit
<1>4. sent' = sent \/ Enqueue("feedback", t)
  BY DEF FeedbackCommit
<1>5. /\ Store(r) /\ Leave(r)
      /\ UNCHANGED <<watch, assets, files, uploads, customer>>
  BY DEF FeedbackCommit
<1> HIDE DEF row, t, key
<1>6. tasks' \in Seq(Task) /\ Len(tasks') = Len(tasks) /\ Ids' = Ids
  BY <1>1, <1>2, <1>3, RowRewritten
<1>7. sent' \subseteq {"adopted", "delivered", "feedback"} \X Ids'
  BY <1>1, <1>4, <1>6, EnqueueType DEF TypeInv, TypeOK
<1>8. records' \subseteq Record
  BY <1>1, <1>5, StoreType DEF key
<1>9. req' \in [Requests -> Handler] /\ HandlerInv'
  BY <1>5, <1>6, HandlerLeaves
<1> QED
  BY <1>5, <1>6, <1>7, <1>8, <1>9, TypeParts DEF TypeInv, TypeOK, customer

\* The reception of an image.
LEMMA DeliverBeginType ==
  ASSUME TypeInv, NEW r \in Requests, DeliverBegin(r)
  PROVE  TypeInv'
<1>1. PICK t \in Ids :
        /\ files' = files \union {uploads + 1}
        /\ Become(r, Holding("deliver", t, uploads + 1))
  BY DEF DeliverBegin, Staged
<1>2. /\ uploads' = uploads + 1 /\ uploads < MaxUploads
      /\ UNCHANGED <<tasks, watch, sent, records, assets, access, expired, upsets>>
  BY DEF DeliverBegin, db, customer
<1>3. uploads' \in 0..MaxUploads /\ 1..uploads \subseteq 1..uploads' /\ uploads + 1 \in 1..uploads'
  BY <1>2, BoundsAssumption DEF TypeInv, TypeOK
<1>4. Ids' = Ids /\ t \in 1..MaxTasks
  BY <1>2, IdsAre DEF Ids, TypeInv
<1>5. uploads + 1 \in 0..MaxUploads
  BY <1>2, <1>3
<1> DEFINE h == Holding("deliver", t, uploads + 1)
<1>6. h \in Handler /\ h.pc = "deliver" /\ h.loaded = {t} /\ h.asset = uploads + 1
  BY <1>4, <1>5, PcsAre, HoldingHandler
<1>7. Become(r, h)
  BY <1>1
<1> HIDE DEF h
<1>8. req' \in [Requests -> Handler] /\ HandlerInv'
  BY <1>3, <1>4, <1>6, <1>7, HandlerMoves
<1> QED
  BY <1>1, <1>2, <1>3, <1>4, <1>8, TypeParts DEF TypeInv, TypeOK

\* The three ends of a delivery.
LEMMA DeliverEndType ==
  ASSUME TypeInv, NEW r \in Requests,
         DeliverUnavailable(r) \/ DeliverChanged(r) \/ DeliverCommit(r)
  PROVE  TypeInv'
<1>1. /\ Leave(r) /\ UNCHANGED <<records, uploads, access, expired, upsets>>
      /\ req[r].asset \in 1..uploads
  BY DEF DeliverUnavailable, DeliverChanged, DeliverCommit, db, customer, TypeInv,
         HandlerInv, At
<1>2. assets' \subseteq 1..uploads' /\ files' \subseteq 1..uploads'
  BY <1>1 DEF DeliverUnavailable, DeliverChanged, DeliverCommit, db, TypeInv, TypeOK
<1>3. /\ tasks' \in Seq(Task) /\ Len(tasks') = Len(tasks) /\ Ids' = Ids
      /\ watch' \subseteq watch
      /\ sent' \subseteq {"adopted", "delivered", "feedback"} \X Ids'
  <2>1. CASE DeliverUnavailable(r) \/ DeliverChanged(r)
    BY <2>1 DEF DeliverUnavailable, DeliverChanged, db, TypeInv, TypeOK, Ids
  <2>2. CASE DeliverCommit(r)
    <3>1. PICK t \in req[r].loaded :
            /\ tasks' = [tasks EXCEPT ![t].status = "completed", ![t].delivery = req[r].asset]
            /\ watch' = watch \ WatchedOf({t})
            /\ Enqueue("delivered", t)
      BY <2>2 DEF DeliverCommit
    <3>2. t \in Ids /\ tasks[t] \in Task /\ req[r].asset \in 0..MaxUploads
      BY IdsAre DEF TypeInv, TypeOK, HandlerInv, Handler
    <3> DEFINE row == [tasks[t] EXCEPT !.status = "completed", !.delivery = req[r].asset]
    <3>3. row \in Task /\ tasks' = [tasks EXCEPT ![t] = row]
      BY <3>1, <3>2 DEF Task
    <3> HIDE DEF row
    <3>4. tasks' \in Seq(Task) /\ Len(tasks') = Len(tasks) /\ Ids' = Ids
      BY <3>2, <3>3, RowRewritten
    <3> QED
      BY <3>1, <3>2, <3>4, EnqueueType
  <2> QED
    BY <2>1, <2>2
<1>4. req' \in [Requests -> Handler] /\ HandlerInv'
  BY <1>1, <1>3, HandlerLeaves
<1> QED
  BY <1>1, <1>2, <1>3, <1>4, TypeParts DEF TypeInv, TypeOK

\* Every step keeps the types and what the handlers hold.
LEMMA TypeStep == TypeInv /\ [Next]_vars => TypeInv'
<1> SUFFICES ASSUME TypeInv, [Next]_vars PROVE TypeInv'
  OBVIOUS
<1>1. CASE UNCHANGED vars
  BY <1>1 DEF vars, TypeInv, TypeOK, HandlerInv, At, Ids
<1>2. ASSUME NEW r \in Requests, Adopt(r) PROVE TypeInv'
  BY <1>2, ReadStepType, AdoptCommitType DEF Adopt
<1>3. ASSUME NEW r \in Requests, Accept(r) PROVE TypeInv'
  BY <1>3, ReadStepType, AcceptCommitType DEF Accept
<1>4. ASSUME NEW r \in Requests, Deliver(r) PROVE TypeInv'
  BY <1>4, DeliverBeginType, DeliverEndType DEF Deliver
<1>5. ASSUME NEW r \in Requests, Feedback(r) PROVE TypeInv'
  BY <1>5, ReadStepType, FeedbackCommitType DEF Feedback
<1>6. ASSUME NEW r \in Requests, CommitRefused(r) PROVE TypeInv'
  BY <1>6, ReadStepType
<1>7. CASE \/ \E r \in Requests : RefuseCommit(r) \/ Dies(r)
           \/ Stop \/ Resume \/ Extend \/ Expire
  BY <1>7, RowsStayType
<1> QED
  BY <1>1, <1>2, <1>3, <1>4, <1>5, <1>6, <1>7 DEF Next

\* TypeOK, for any number of handlers, keys, tasks and deliveries: handlers of
\* the decision and task center services that race only ever write whole rows.
THEOREM TypeCorrect == Spec => []TypeOK
<1>1. Spec => []TypeInv
  BY TypeInit, TypeStep, PTL DEF Spec
<1> QED
  BY <1>1, PTL DEF TypeInv

-----------------------------------------------------------------------------
(* How rows and snapshots move.                                            *)

\* The rows a step leaves as they are, but for their opinions.
Kept(ids) ==
  \A t \in ids :
    /\ tasks'[t].status = tasks[t].status /\ tasks'[t].by = tasks[t].by
    /\ tasks'[t].delivery = tasks[t].delivery

\* An acceptance and a delivery, each of one task, as the others see them.
Accepts(t) ==
  /\ t \in Ids /\ Ids' = Ids /\ Kept(Ids \ {t})
  /\ tasks[t].status = "waiting_assignment" /\ access = "active"
  /\ tasks'[t].status = "in_progress" /\ tasks'[t].by = tasks[t].by
  /\ tasks'[t].delivery = tasks[t].delivery
  /\ watch' = (watch \ {<<t, "waiting_assignment">>}) \union Snapshot(t, "in_progress")

Delivers(t) ==
  /\ t \in Ids /\ Ids' = Ids /\ Kept(Ids \ {t})
  /\ tasks[t].status = "in_progress" /\ access = "active"
  /\ tasks'[t].status = "completed" /\ tasks'[t].by = tasks[t].by
  /\ \E r \in Requests : At(r, "deliver") /\ tasks'[t].delivery = req[r].asset
  /\ watch' = watch \ WatchedOf({t})

\* Records are never removed, and a status moves in an adoption, an acceptance or
\* a delivery only.
LEMMA RowSteps ==
  ASSUME TypeInv, [Next]_vars
  PROVE  /\ records \subseteq records'
         /\ \/ Ids' = Ids /\ Kept(Ids) /\ watch' = watch
            \/ \E t \in Ids : Accepts(t) \/ Delivers(t)
            \/ \E r \in Requests : AdoptCommit(r)
<1> DEFINE Still == records \subseteq records' /\ Ids' = Ids /\ Kept(Ids) /\ watch' = watch
           Moves == records \subseteq records' /\ \E t \in Ids : Accepts(t) \/ Delivers(t)
           Adopts == records \subseteq records' /\ \E r \in Requests : AdoptCommit(r)
<1>1. CASE UNCHANGED vars
  BY <1>1 DEF vars, Kept, Ids
<1>2. ASSUME NEW r \in Requests, Adopt(r) PROVE Still \/ Adopts
  BY <1>2 DEF Adopt, AdoptBegin, AdoptRead, AdoptCommit, Store, OnlyReads, db, Kept, Ids
<1>3. ASSUME NEW r \in Requests, Accept(r) PROVE Still \/ Moves
  <2>1. CASE AcceptBegin(r) \/ AcceptAgain(r)
    BY <2>1 DEF AcceptBegin, AcceptAgain, OnlyReads, db, Kept, Ids
  <2>2. CASE AcceptCommit(r)
    <3>1. PICK t \in req[r].loaded :
            IF StillAcceptable(t)
            THEN /\ tasks' = [tasks EXCEPT ![t].status = "in_progress"]
                 /\ watch' = (watch \ {<<t, "waiting_assignment">>})
                               \union Snapshot(t, "in_progress")
            ELSE UNCHANGED <<tasks, watch>>
      BY <2>2 DEF AcceptCommit
    <3>2. t \in Ids /\ tasks[t] \in Task /\ records' = records
      BY <2>2, IdsAre DEF TypeInv, HandlerInv, AcceptCommit
    <3>3. CASE StillAcceptable(t)
      <4> DEFINE row == [tasks[t] EXCEPT !.status = "in_progress"]
      <4>1. row \in Task /\ row.status = "in_progress" /\ row.by = tasks[t].by
            /\ row.delivery = tasks[t].delivery
        BY <3>2 DEF Task, OpenWords
      <4>2. tasks' = [tasks EXCEPT ![t] = row]
        BY <3>1, <3>2, <3>3 DEF Task
      <4> HIDE DEF row
      <4>3. Ids' = Ids /\ tasks'[t] = row /\ \A u \in Ids : u # t => tasks'[u] = tasks[u]
        BY <3>2, <4>1, <4>2, RowRewritten
      <4>4. Accepts(t)
        BY <3>1, <3>2, <3>3, <4>1, <4>3 DEF Accepts, Kept, StillAcceptable
      <4> QED
        BY <3>2, <4>4
    <3>4. CASE ~StillAcceptable(t)
      BY <3>1, <3>2, <3>4 DEF Kept, Ids
    <3> QED
      BY <3>3, <3>4
  <2> QED
    BY <1>3, <2>1, <2>2 DEF Accept
<1>4. ASSUME NEW r \in Requests, Deliver(r) PROVE Still \/ Moves
  <2>1. CASE DeliverBegin(r) \/ DeliverUnavailable(r) \/ DeliverChanged(r)
    BY <2>1 DEF DeliverBegin, DeliverUnavailable, DeliverChanged, db, Kept, Ids
  <2>2. CASE DeliverCommit(r)
    <3>1. PICK t \in req[r].loaded :
            /\ Deliverable(t)
            /\ tasks' = [tasks EXCEPT ![t].status = "completed", ![t].delivery = req[r].asset]
            /\ watch' = watch \ WatchedOf({t})
      BY <2>2 DEF DeliverCommit
    <3>2. t \in Ids /\ tasks[t] \in Task /\ req[r].asset \in 0..MaxUploads
          /\ records' = records /\ access = "active"
      BY <2>2, IdsAre DEF TypeInv, TypeOK, HandlerInv, Handler, DeliverCommit, Available
    <3> DEFINE row == [tasks[t] EXCEPT !.status = "completed", !.delivery = req[r].asset]
    <3>3. row \in Task /\ row.status = "completed" /\ row.by = tasks[t].by
          /\ row.delivery = req[r].asset /\ At(r, "deliver")
      BY <2>2, <3>2 DEF Task, DeliverCommit
    <3>4. tasks' = [tasks EXCEPT ![t] = row]
      BY <3>1, <3>2 DEF Task
    <3> HIDE DEF row
    <3>5. Ids' = Ids /\ tasks'[t] = row /\ \A u \in Ids : u # t => tasks'[u] = tasks[u]
      BY <3>2, <3>3, <3>4, RowRewritten
    <3>6. Delivers(t)
      BY <3>1, <3>2, <3>3, <3>5 DEF Delivers, Kept, Deliverable
    <3> QED
      BY <3>2, <3>6
  <2> QED
    BY <1>4, <2>1, <2>2 DEF Deliver
<1>5. ASSUME NEW r \in Requests, Feedback(r) PROVE Still
  <2>1. CASE FeedbackBegin(r)
    BY <2>1 DEF FeedbackBegin, OnlyReads, db, Kept, Ids
  <2>2. CASE FeedbackCommit(r)
    <3> DEFINE t == req[r].endpoint
               key == req[r].key
               row == IF req[r].flag THEN [tasks[t] EXCEPT !.feedback = key]
                                     ELSE [tasks[t] EXCEPT !.rating = key]
    <3>1. t \in Ids /\ tasks[t] \in Task /\ key \in Keys
      BY <2>2, IdsAre DEF FeedbackCommit, At, TypeInv, HandlerInv
    <3>2. row \in Task /\ row.status = tasks[t].status /\ row.by = tasks[t].by
          /\ row.delivery = tasks[t].delivery
      BY <3>1 DEF Task
    <3>3. tasks' = [tasks EXCEPT ![t] = row]
      BY <2>2, <3>1 DEF FeedbackCommit
    <3>4. watch' = watch /\ records \subseteq records'
      BY <2>2 DEF FeedbackCommit, Store
    <3> HIDE DEF row, t
    <3>5. Ids' = Ids /\ tasks'[t] = row /\ \A u \in Ids : u # t => tasks'[u] = tasks[u]
      BY <3>1, <3>2, <3>3, RowRewritten
    <3> QED
      BY <3>1, <3>2, <3>4, <3>5 DEF Kept
  <2> QED
    BY <1>5, <2>1, <2>2 DEF Feedback
<1>6. ASSUME NEW r \in Requests, RefuseCommit(r) \/ CommitRefused(r) \/ Dies(r) PROVE Still
  BY <1>6 DEF RefuseCommit, CommitRefused, Dies, Upset, Store, OnlyReads, db, Kept, Ids
<1>7. CASE Stop \/ Resume \/ Extend \/ Expire
  BY <1>7 DEF Stop, Resume, Extend, Expire, Change, Upset, db, Kept, Ids
<1> QED
  BY <1>1, <1>2, <1>3, <1>4, <1>5, <1>6, <1>7 DEF Next

-----------------------------------------------------------------------------
(* One open task, one task for a key, one watch for an open task.          *)

\* A task's key is recorded, so that no request can create a second with it.
KeyInv == KeyCreatesOneTask /\ \A t \in Ids : Known(0, tasks[t].by)

TaskInv == TypeInv /\ OneOpenTask /\ KeyInv /\ StageWatched

\* What an adoption leaves: its task is the only open one.
LEMMA AdoptLeaves ==
  ASSUME TypeInv, NEW r \in Requests, AdoptCommit(r)
  PROVE  /\ Len(tasks) + 1 \in Ids' /\ Ids' = Ids \union {Len(tasks) + 1}
         /\ Len(tasks) + 1 \notin Ids
         /\ Open' = {Len(tasks) + 1}
         /\ tasks'[Len(tasks) + 1].status = "waiting_assignment"
         /\ tasks'[Len(tasks) + 1].by = req[r].key
         /\ \A t \in Ids : tasks'[t].by = tasks[t].by
<1> DEFINE new == Len(tasks) + 1
<1>1. /\ Ids = 1..Len(tasks) /\ Ids' = 1..new /\ Len(tasks) \in Nat
      /\ \A t \in Ids :
           tasks'[t] = IF t \in req[r].loaded
                       THEN [tasks[t] EXCEPT !.status = "canceled"] ELSE tasks[t]
      /\ tasks'[new] = NewTask(req[r].key)
  BY AdoptRows DEF TypeInv, TypeOK
<1>2. new \in Ids' /\ Ids' = Ids \union {new} /\ new \notin Ids
  BY <1>1
<1>3. Open \subseteq req[r].loaded
  BY DEF AdoptCommit, NoOtherOpen
<1>4. \A t \in Ids : tasks[t] \in Task
  BY IdsAre DEF TypeInv
<1>5. tasks'[new].status = "waiting_assignment" /\ tasks'[new].by = req[r].key
  BY <1>1 DEF NewTask
<1>6. \A t \in Ids : tasks'[t].status \notin OpenWords /\ tasks'[t].by = tasks[t].by
  BY <1>1, <1>3, <1>4 DEF Open, OpenWords, Task
<1> HIDE DEF new
<1>7. Open' = {new}
  BY <1>2, <1>5, <1>6 DEF Open, OpenWords
<1> QED
  BY <1>2, <1>5, <1>6, <1>7 DEF new

\* A customer begins without tasks.
LEMMA TaskInit == Init => TaskInv
<1> SUFFICES ASSUME Init PROVE TaskInv
  OBVIOUS
<1>1. Ids = {} /\ watch = {}
  BY DEF Init, Ids
<1>2. Open = {}
  BY <1>1 DEF Open
<1> QED
  BY <1>1, <1>2, TypeInit DEF TaskInv, OneOpenTask, KeyInv, KeyCreatesOneTask, StageWatched

\* One open task: acceptance and delivery open none, adoption closes the others.
LEMMA OneOpenStep == TaskInv /\ [Next]_vars => OneOpenTask'
<1> SUFFICES ASSUME TaskInv, [Next]_vars PROVE OneOpenTask'
  OBVIOUS
<1>1. TypeInv /\ OneOpenTask
  BY DEF TaskInv
<1>2. CASE \E r \in Requests : AdoptCommit(r)
  BY <1>1, <1>2, AdoptLeaves DEF OneOpenTask
<1>3. CASE ~\E r \in Requests : AdoptCommit(r)
  <2>1. \/ Ids' = Ids /\ Kept(Ids)
        \/ \E t \in Ids : Accepts(t) \/ Delivers(t)
    BY <1>1, <1>3, RowSteps
  <2>2. Open' \subseteq Open
    BY <2>1 DEF Open, OpenWords, Kept, Accepts, Delivers
  <2> QED
    BY <1>1, <2>2 DEF OneOpenTask
<1> QED
  BY <1>2, <1>3

\* One task for a key: an adoption records its key, which no task had.
LEMMA KeyStep == TaskInv /\ [Next]_vars => KeyInv'
<1> SUFFICES ASSUME TaskInv, [Next]_vars PROVE KeyInv'
  OBVIOUS
<1>1. TypeInv /\ KeyInv /\ records \subseteq records'
  BY RowSteps DEF TaskInv
<1> DEFINE Recorded(key) == \E rec \in records' : rec.endpoint = 0 /\ rec.key = key
<1>2. \A key : Known(0, key) => Recorded(key)
  BY <1>1 DEF Known
<1>3. ASSUME NEW r \in Requests, AdoptCommit(r) PROVE KeyInv'
  <2> DEFINE new == Len(tasks) + 1
  <2>1. /\ Ids' = Ids \union {new} /\ new \notin Ids
        /\ tasks'[new].by = req[r].key
        /\ \A t \in Ids : tasks'[t].by = tasks[t].by
    BY <1>1, <1>3, AdoptLeaves
  <2> HIDE DEF new
  <2>2. req[r].endpoint = 0 /\ Store(r)
    BY <1>1, <1>3 DEF AdoptCommit, At, TypeInv, HandlerInv
  <2>3. ~Known(0, req[r].key) /\ Recorded(req[r].key)
    <3> DEFINE rec == [endpoint |-> req[r].endpoint, key |-> req[r].key,
                       flag |-> req[r].flag]
    <3>1. rec \in records' /\ ~Known(req[r].endpoint, req[r].key)
      BY <2>2 DEF Store
    <3>2. rec.endpoint = 0 /\ rec.key = req[r].key
      BY <2>2
    <3> HIDE DEF rec
    <3> QED
      BY <2>2, <3>1, <3>2
  <2>4. \A t \in Ids : tasks[t].by # req[r].key
    BY <1>1, <2>3 DEF KeyInv
  <2>5. KeyCreatesOneTask'
    BY <1>1, <2>1, <2>4 DEF KeyInv, KeyCreatesOneTask
  <2>6. \A t \in Ids' : Recorded(tasks'[t].by)
    BY <1>1, <1>2, <2>1, <2>3 DEF KeyInv
  <2> QED
    BY <2>5, <2>6 DEF KeyInv, Known
<1>4. CASE ~\E r \in Requests : AdoptCommit(r)
  <2>1. Ids' = Ids /\ \A t \in Ids : tasks'[t].by = tasks[t].by
    BY <1>1, <1>4, RowSteps DEF Kept, Accepts, Delivers
  <2> QED
    BY <1>1, <1>2, <2>1 DEF KeyInv, KeyCreatesOneTask, Known
<1> QED
  BY <1>3, <1>4

\* The snapshots follow the open task.
LEMMA WatchStep == TaskInv /\ [Next]_vars => StageWatched'
<1> SUFFICES ASSUME TaskInv, [Next]_vars PROVE StageWatched'
  OBVIOUS
<1>1. TypeInv /\ OneOpenTask /\ StageWatched
  BY DEF TaskInv
<1>2. ASSUME NEW r \in Requests, AdoptCommit(r) PROVE StageWatched'
  <2> DEFINE new == Len(tasks) + 1
  <2>1. Open' = {new} /\ tasks'[new].status = "waiting_assignment"
    BY <1>1, <1>2, AdoptLeaves
  <2>2. watch' = (watch \ WatchedOf(req[r].loaded)) \union Snapshot(new, "waiting_assignment")
        /\ Open \subseteq req[r].loaded
    BY <1>2 DEF AdoptCommit, NoOtherOpen
  <2> HIDE DEF new
  <2>3. watch \ WatchedOf(req[r].loaded) = {}
    BY <1>1, <2>2 DEF StageWatched, WatchedOf
  <2>4. {<<t, tasks'[t].status>> : t \in Open'} = {<<new, "waiting_assignment">>}
    BY <2>1
  <2> QED
    BY <2>2, <2>3, <2>4 DEF StageWatched, Snapshot
<1>3. ASSUME NEW t \in Ids, Accepts(t) PROVE StageWatched'
  <2>1. t \in Open /\ Open = {t}
    BY <1>1, <1>3 DEF Open, OpenWords, Accepts, OneOpenTask
  <2>2. Open' = {t}
    BY <1>3, <2>1 DEF Open, OpenWords, Accepts, Kept
  <2>3. watch = IF Notify THEN {<<t, "waiting_assignment">>} ELSE {}
    BY <1>1, <1>3, <2>1 DEF StageWatched, Accepts
  <2>4. watch' = Snapshot(t, "in_progress")
    BY <1>3, <2>3 DEF Accepts
  <2> QED
    BY <1>3, <2>2, <2>4 DEF StageWatched, Snapshot, Accepts
<1>4. ASSUME NEW t \in Ids, Delivers(t) PROVE StageWatched'
  <2>1. t \in Open /\ Open = {t}
    BY <1>1, <1>4 DEF Open, OpenWords, Delivers, OneOpenTask
  <2>2. Open' = {}
    BY <1>4, <2>1 DEF Open, OpenWords, Delivers, Kept
  <2>3. watch' = {}
    BY <1>1, <1>4, <2>1 DEF StageWatched, Delivers, WatchedOf
  <2> QED
    BY <2>2, <2>3 DEF StageWatched
<1>5. CASE Ids' = Ids /\ Kept(Ids) /\ watch' = watch
  <2>1. Open' = Open /\ \A t \in Open : tasks'[t].status = tasks[t].status
    BY <1>5 DEF Open, Kept
  <2>2. {<<t, tasks'[t].status>> : t \in Open'} = {<<t, tasks[t].status>> : t \in Open}
    BY <2>1
  <2> QED
    BY <1>1, <1>5, <2>2 DEF StageWatched
<1> QED
  BY <1>1, <1>2, <1>3, <1>4, <1>5, RowSteps

\* The invariant the theorems below follow from.
LEMMA TaskStep == Spec => []TaskInv
<1>1. TaskInv /\ [Next]_vars => TaskInv'
  BY TypeStep, OneOpenStep, KeyStep, WatchStep DEF TaskInv
<1> QED
  BY <1>1, TaskInit, PTL DEF Spec

\* However many adoptions, acceptances and deliveries race, the customer never
\* has two open tasks.
THEOREM OneOpen == Spec => []OneOpenTask
BY TaskStep, PTL DEF TaskInv

\* A key that is sent any number of times creates one task.
THEOREM KeyOnce == Spec => []KeyCreatesOneTask
BY TaskStep, PTL DEF TaskInv, KeyInv

\* The reminders watch exactly the open tasks, each at the stage it is in.
THEOREM Watched == Spec => []StageWatched
BY TaskStep, PTL DEF TaskInv

-----------------------------------------------------------------------------
(* What a step may never do.                                               *)

\* An administrator's step that an access change overtook moves no task.
LEMMA StopStep ==
  TaskInv /\ [Next]_vars =>
    \A t \in Ids :
      tasks'[t].status # tasks[t].status /\ tasks'[t].status # "canceled" => access = "active"
<1> SUFFICES ASSUME TaskInv, [Next]_vars, NEW t \in Ids,
                    tasks'[t].status # tasks[t].status, tasks'[t].status # "canceled"
             PROVE  access = "active"
  OBVIOUS
<1>1. TypeInv /\ tasks[t] \in Task
  BY IdsAre DEF TaskInv, TypeInv
<1>2. ASSUME NEW r \in Requests, AdoptCommit(r) PROVE FALSE
  <2>1. tasks'[t] = IF t \in req[r].loaded
                    THEN [tasks[t] EXCEPT !.status = "canceled"] ELSE tasks[t]
    BY <1>1, <1>2, AdoptRows
  <2> QED
    BY <1>1, <2>1 DEF Task
<1> QED
  BY <1>1, <1>2, RowSteps DEF Kept, Accepts, Delivers

\* A status becomes "canceled" in an adoption that is confirmed.
LEMMA ReplaceStep ==
  TaskInv /\ [Next]_vars =>
    \A t \in Open :
      tasks'[t].status = "canceled" =>
        /\ Len(tasks') = Len(tasks) + 1
        /\ \E r \in Requests : At(r, "adopt") /\ req[r].flag /\ t \in req[r].loaded
<1> SUFFICES ASSUME TaskInv, [Next]_vars, NEW t \in Open, tasks'[t].status = "canceled"
             PROVE  /\ Len(tasks') = Len(tasks) + 1
                    /\ \E r \in Requests : At(r, "adopt") /\ req[r].flag /\ t \in req[r].loaded
  OBVIOUS
<1>1. TypeInv /\ t \in Ids /\ tasks[t].status # "canceled"
  BY DEF TaskInv, Open, OpenWords
<1>2. PICK r \in Requests : AdoptCommit(r)
  BY <1>1, RowSteps DEF Kept, Accepts, Delivers
<1>3. Len(tasks') = Len(tasks) + 1
  BY <1>1, <1>2, AdoptRows
<1>4. At(r, "adopt") /\ t \in req[r].loaded
  BY <1>2 DEF AdoptCommit, NoOtherOpen
<1>5. req[r].flag
  BY <1>1, <1>4 DEF TypeInv, HandlerInv
<1> QED
  BY <1>3, <1>4, <1>5

\* Acceptance and delivery never win against a stop that committed before them.
THEOREM StopWins == Spec => StopBeatsAdministrator
BY TaskStep, StopStep, PTL DEF Spec, StopBeatsAdministrator

\* An open task is canceled only by a confirmed replacement that loaded it.
THEOREM ReplacementConfirmed == Spec => ConfirmedReplacement
BY TaskStep, ReplaceStep, PTL DEF Spec, ConfirmedReplacement

-----------------------------------------------------------------------------
(* Delivered files.                                                        *)

\* An image that a handler is delivering is on disk, is no other handler's and
\* no task's: whoever cleans up removes its own.
FileInv ==
  /\ \A r \in Requests : At(r, "deliver") => req[r].asset \in files
  /\ \A r, s \in Requests :
       At(r, "deliver") /\ At(s, "deliver") /\ req[r].asset = req[s].asset => r = s
  /\ \A r \in Requests, t \in Ids : At(r, "deliver") => tasks[t].delivery # req[r].asset
  /\ DeliveredHasFile

\* A step that is no delivery's.
QuietFiles ==
  /\ files' = files /\ assets' = assets
  /\ \A t \in Ids' : tasks'[t].delivery = None \/ (t \in Ids /\ tasks'[t].delivery = tasks[t].delivery)
  /\ \A s \in Requests : req'[s].pc = "deliver" => req'[s] = req[s]

\* It keeps the invariant.
LEMMA QuietKeeps == TypeInv /\ FileInv /\ QuietFiles /\ TypeInv' => FileInv'
<1> SUFFICES ASSUME TypeInv, FileInv, QuietFiles, TypeInv' PROVE FileInv'
  OBVIOUS
<1>1. \A s \in Requests : req'[s].pc = "deliver" => At(s, "deliver") /\ req'[s] = req[s]
  BY DEF QuietFiles, At
<1>2. \A s \in Requests : At(s, "deliver") => req[s].asset # None
  BY DEF TypeInv, TypeOK, HandlerInv, None
<1> QED
  BY <1>1, <1>2 DEF QuietFiles, FileInv, At, DeliveredHasFile

\* All steps but those of a delivery are such.
LEMMA QuietSteps ==
  ASSUME TypeInv, [Next]_vars, ~\E r \in Requests : Deliver(r)
  PROVE  QuietFiles
<1>1. req \in [Requests -> Handler] /\ \A t \in Ids : tasks[t] \in Task
  BY IdsAre DEF TypeInv, TypeOK
<1>2. Idle.pc = "off"
  BY DEF Idle
<1>3. CASE UNCHANGED vars
  BY <1>3 DEF vars, QuietFiles, Ids
<1>4. CASE Stop \/ Resume \/ Extend \/ Expire
  BY <1>4 DEF Stop, Resume, Extend, Expire, Change, Upset, db, QuietFiles, Ids
<1>5. ASSUME NEW r \in Requests, NEW h, Become(r, h), h.pc # "deliver",
             UNCHANGED <<files, assets>>,
             \A t \in Ids' :
               tasks'[t].delivery = None \/ (t \in Ids /\ tasks'[t].delivery = tasks[t].delivery)
      PROVE  QuietFiles
  BY <1>1, <1>5 DEF Become, QuietFiles
<1>6. ASSUME NEW r \in Requests, Leave(r), UNCHANGED <<files, assets>>,
             \A t \in Ids' :
               tasks'[t].delivery = None \/ (t \in Ids /\ tasks'[t].delivery = tasks[t].delivery)
      PROVE  QuietFiles
  BY <1>2, <1>5, <1>6 DEF Leave
<1>7. ASSUME NEW r \in Requests, RefuseCommit(r) \/ CommitRefused(r) \/ Dies(r)
      PROVE  QuietFiles
  <2>1. Leave(r) /\ UNCHANGED <<files, assets, tasks>>
    BY <1>7 DEF RefuseCommit, CommitRefused, Dies, Upset, OnlyReads, db
  <2> QED
    BY <2>1, <1>6 DEF Ids
<1>8. ASSUME NEW r \in Requests, Adopt(r) PROVE QuietFiles
  <2>1. CASE AdoptBegin(r)
    <3>1. PICK key \in Keys, flag \in BOOLEAN, pc \in {"refuse", "active"} :
            Become(r, Asking(pc, 0, key, flag))
      BY <2>1 DEF AdoptBegin
    <3>2. Asking(pc, 0, key, flag).pc # "deliver"
      BY <3>1 DEF Asking
    <3>3. UNCHANGED <<files, assets, tasks>>
      BY <2>1 DEF AdoptBegin, OnlyReads, db
    <3> QED
      BY <3>1, <3>2, <3>3, <1>5 DEF Ids
  <2>2. CASE AdoptRead(r)
    <3> DEFINE pc == IF Open # {} /\ ~req[r].flag THEN "refuse" ELSE "adopt"
               h == [req[r] EXCEPT !.loaded = Open, !.pc = pc]
    <3>1. Become(r, h) /\ UNCHANGED <<files, assets, tasks>>
      BY <2>2 DEF AdoptRead, OnlyReads, db
    <3>2. h.pc = pc
      BY <1>1 DEF Handler
    <3> HIDE DEF h
    <3> QED
      BY <3>1, <3>2, <1>5 DEF Ids
  <2>3. CASE AdoptCommit(r)
    <3>1. Leave(r) /\ UNCHANGED <<files, assets>>
      BY <2>3 DEF AdoptCommit
    <3>2. /\ Ids = 1..Len(tasks) /\ Ids' = 1..(Len(tasks) + 1) /\ Len(tasks) \in Nat
          /\ \A t \in Ids :
               tasks'[t] = IF t \in req[r].loaded
                           THEN [tasks[t] EXCEPT !.status = "canceled"] ELSE tasks[t]
          /\ tasks'[Len(tasks) + 1] = NewTask(req[r].key)
      BY <2>3, AdoptRows DEF TypeInv, TypeOK
    <3>3. \A t \in Ids : tasks'[t].delivery = tasks[t].delivery
      BY <1>1, <3>2 DEF Task
    <3>4. tasks'[Len(tasks) + 1].delivery = None
      BY <3>2 DEF NewTask
    <3>5. \A t \in Ids' :
            tasks'[t].delivery = None \/ (t \in Ids /\ tasks'[t].delivery = tasks[t].delivery)
      BY <3>2, <3>3, <3>4
    <3> QED
      BY <3>1, <3>5, <1>6
  <2> QED
    BY <1>8, <2>1, <2>2, <2>3 DEF Adopt
<1>9. ASSUME NEW r \in Requests, Accept(r) PROVE QuietFiles
  <2>1. CASE AcceptBegin(r)
    <3>1. PICK t \in Ids : Become(r, Holding("again", t, None))
      BY <2>1 DEF AcceptBegin
    <3>2. Holding("again", t, None).pc # "deliver"
      BY DEF Holding
    <3>3. UNCHANGED <<files, assets, tasks>>
      BY <2>1 DEF AcceptBegin, OnlyReads, db
    <3> QED
      BY <3>1, <3>2, <3>3, <1>5 DEF Ids
  <2>2. CASE AcceptAgain(r)
    <3> DEFINE h == [req[r] EXCEPT !.pc = "accept"]
    <3>1. (Become(r, h) \/ Leave(r)) /\ UNCHANGED <<files, assets, tasks>>
      BY <2>2 DEF AcceptAgain, OnlyReads, db
    <3>2. h.pc = "accept"
      BY <1>1 DEF Handler
    <3> HIDE DEF h
    <3> QED
      BY <3>1, <3>2, <1>5, <1>6 DEF Ids
  <2>3. CASE AcceptCommit(r)
    <3>1. Leave(r) /\ UNCHANGED <<files, assets>>
      BY <2>3 DEF AcceptCommit
    <3>2. PICK t \in req[r].loaded :
            IF StillAcceptable(t) THEN tasks' = [tasks EXCEPT ![t].status = "in_progress"]
                                  ELSE UNCHANGED tasks
      BY <2>3 DEF AcceptCommit
    <3>3. t \in Ids
      BY DEF TypeInv, HandlerInv
    <3>4. Ids' = Ids /\ \A u \in Ids : tasks'[u].delivery = tasks[u].delivery
      BY <1>1, <3>2, <3>3 DEF Ids, Task
    <3> QED
      BY <3>1, <3>4, <1>6
  <2> QED
    BY <1>9, <2>1, <2>2, <2>3 DEF Accept
<1>10. ASSUME NEW r \in Requests, Feedback(r) PROVE QuietFiles
  <2>1. CASE FeedbackBegin(r)
    <3>1. PICK t \in Ids, key \in Keys, text \in BOOLEAN, pc \in {"opine", "refuse"} :
            Become(r, Asking(pc, t, key, text))
      BY <2>1 DEF FeedbackBegin
    <3>2. Asking(pc, t, key, text).pc # "deliver"
      BY <3>1 DEF Asking
    <3>3. UNCHANGED <<files, assets, tasks>>
      BY <2>1 DEF FeedbackBegin, OnlyReads, db
    <3> QED
      BY <3>1, <3>2, <3>3, <1>5 DEF Ids
  <2>2. CASE FeedbackCommit(r)
    <3> DEFINE t == req[r].endpoint
               key == req[r].key
    <3>1. Leave(r) /\ UNCHANGED <<files, assets>>
      BY <2>2 DEF FeedbackCommit
    <3>2. \/ tasks' = [tasks EXCEPT ![t].feedback = key]
          \/ tasks' = [tasks EXCEPT ![t].rating = key]
      BY <2>2 DEF FeedbackCommit
    <3>3. t \in Ids
      BY <2>2 DEF FeedbackCommit, At, TypeInv, HandlerInv
    <3>4. Ids' = Ids /\ \A u \in Ids : tasks'[u].delivery = tasks[u].delivery
      BY <1>1, <3>2, <3>3 DEF Ids, Task
    <3> QED
      BY <3>1, <3>4, <1>6
  <2> QED
    BY <1>10, <2>1, <2>2 DEF Feedback
<1> QED
  BY <1>3, <1>4, <1>7, <1>8, <1>9, <1>10 DEF Next

\* A delivery's image is new when it is received, and its own until it ends.
LEMMA DeliverKeeps ==
  ASSUME TypeInv, FileInv, TypeInv', NEW r \in Requests, Deliver(r)
  PROVE  FileInv'
<1>1. req \in [Requests -> Handler] /\ \A t \in Ids : tasks[t] \in Task
  BY IdsAre DEF TypeInv, TypeOK
<1>2. Idle.pc = "off"
  BY DEF Idle
<1>3. \A s \in Requests : At(s, "deliver") => req[s].asset \in 1..uploads
  BY DEF TypeInv, HandlerInv
<1>4. \A t \in Ids : tasks[t].delivery # None => tasks[t].delivery \in 1..uploads
  BY DEF FileInv, DeliveredHasFile, TypeInv, TypeOK
<1>5. uploads \in Nat /\ None = 0
  BY DEF TypeInv, TypeOK, None
<1>6. CASE DeliverBegin(r)
  <2>1. PICK t \in Ids :
          /\ files' = files \union {uploads + 1}
          /\ Become(r, Holding("deliver", t, uploads + 1))
    BY <1>6 DEF DeliverBegin, Staged
  <2>2. UNCHANGED <<tasks, assets>> /\ Ids' = Ids
    BY <1>6 DEF DeliverBegin, db, Ids
  <2>3. Holding("deliver", t, uploads + 1).asset = uploads + 1
    BY DEF Holding
  <2>4. req'[r].asset = uploads + 1 /\ \A s \in Requests : s # r => req'[s] = req[s]
    BY <1>1, <2>1, <2>3 DEF Become
  <2>5. \A s \in Requests :
          s # r /\ At(s, "deliver") => req[s].asset # uploads + 1 /\ req[s].asset \in files
    BY <1>3, <1>5 DEF FileInv
  <2>6. \A u \in Ids : tasks[u].delivery # uploads + 1
    BY <1>4, <1>5
  <2>7. \A s \in Requests : req'[s].pc = "deliver" => req'[s].asset \in files'
    BY <2>1, <2>4, <2>5 DEF At
  <2>8. \A s, u \in Requests :
          req'[s].pc = "deliver" /\ req'[u].pc = "deliver" /\ req'[s].asset = req'[u].asset
            => s = u
    BY <2>4, <2>5 DEF At, FileInv
  <2>9. \A s \in Requests, u \in Ids' :
          req'[s].pc = "deliver" => tasks'[u].delivery # req'[s].asset
    BY <2>2, <2>4, <2>6 DEF At, FileInv
  <2>10. DeliveredHasFile'
    BY <2>1, <2>2 DEF FileInv, DeliveredHasFile
  <2> QED
    BY <2>7, <2>8, <2>9, <2>10 DEF FileInv, At
<1>7. CASE DeliverUnavailable(r) \/ DeliverChanged(r) \/ DeliverCommit(r)
  <2>1. At(r, "deliver") /\ Leave(r)
    BY <1>7 DEF DeliverUnavailable, DeliverChanged, DeliverCommit
  <2>2. req'[r].pc = "off" /\ \A s \in Requests : s # r => req'[s] = req[s]
    BY <1>1, <1>2, <2>1 DEF Leave, Become
  <2>3. files \ {req[r].asset} \subseteq files' /\ assets \subseteq assets'
    BY <1>7 DEF DeliverUnavailable, DeliverChanged, DeliverCommit, db
  <2>4. \A s \in Requests :
          req'[s].pc = "deliver" => /\ s # r /\ At(s, "deliver")
                                    /\ req'[s].asset = req[s].asset
                                    /\ req[s].asset # req[r].asset
    BY <2>1, <2>2 DEF At, FileInv
  <2>5. /\ Ids' = Ids
        /\ \A t \in Ids :
             \/ tasks'[t].delivery = tasks[t].delivery
             \/ /\ DeliverCommit(r)
                /\ tasks'[t].delivery = req[r].asset
    <3>1. CASE DeliverUnavailable(r) \/ DeliverChanged(r)
      BY <3>1 DEF DeliverUnavailable, DeliverChanged, db, Ids
    <3>2. CASE DeliverCommit(r)
      <4>1. PICK t \in req[r].loaded :
              tasks' = [tasks EXCEPT ![t].status = "completed", ![t].delivery = req[r].asset]
        BY <3>2 DEF DeliverCommit
      <4>2. t \in Ids
        BY DEF TypeInv, HandlerInv
      <4>3. Ids' = Ids
        BY <4>1 DEF Ids
      <4>4. tasks'[t].delivery = req[r].asset
            /\ \A u \in Ids : u # t => tasks'[u] = tasks[u]
        BY <1>1, <4>1, <4>2 DEF Ids, Task
      <4> QED
        BY <3>2, <4>3, <4>4
    <3> QED
      BY <1>7, <3>1, <3>2
  <2>6. DeliverCommit(r) => req[r].asset \in assets' \intersect files'
    BY <2>1 DEF DeliverCommit, FileInv
  <2>7. \A t \in Ids : tasks[t].delivery # req[r].asset
    BY <2>1 DEF FileInv
  <2>8. DeliveredHasFile'
    BY <2>3, <2>5, <2>6, <2>7 DEF FileInv, DeliveredHasFile
  <2>9. \A s \in Requests : req'[s].pc = "deliver" => req'[s].asset \in files'
    BY <2>3, <2>4 DEF FileInv
  <2>10. \A s, u \in Requests :
           req'[s].pc = "deliver" /\ req'[u].pc = "deliver" /\ req'[s].asset = req'[u].asset
             => s = u
    BY <2>4 DEF FileInv
  <2>11. \A s \in Requests, t \in Ids' :
           req'[s].pc = "deliver" => tasks'[t].delivery # req'[s].asset
    BY <2>4, <2>5 DEF FileInv
  <2> QED
    BY <2>8, <2>9, <2>10, <2>11 DEF FileInv, At
<1> QED
  BY <1>6, <1>7 DEF Deliver

\* A customer begins without files.
LEMMA FileInit == Init => FileInv
<1> SUFFICES ASSUME Init PROVE FileInv
  OBVIOUS
<1>1. Ids = {}
  BY DEF Init, Ids
<1>2. \A r \in Requests : ~At(r, "deliver")
  BY DEF Init, Idle, At
<1> QED
  BY <1>1, <1>2 DEF FileInv, DeliveredHasFile

\* Whatever deliveries of a task race and clean up, a delivered task has its
\* asset record and its file.
THEOREM DeliveredKept == Spec => []DeliveredHasFile
<1>1. TypeInv /\ FileInv /\ [Next]_vars => (TypeInv /\ FileInv)'
  BY TypeStep, QuietSteps, QuietKeeps, DeliverKeeps
<1>2. FileInv => DeliveredHasFile
  BY DEF FileInv
<1> QED
  BY <1>1, <1>2, TypeInit, FileInit, PTL DEF Spec

-----------------------------------------------------------------------------
(* DesignTasks implements TaskBoard.                                       *)

\* An adoption has loaded one task at most, and a handler of an administrator
\* holds one.
LoadedInv == \A r \in Requests : \A t, u \in req[r].loaded : t = u

\* A step leaves what a handler has loaded, or the handler holds nothing, one task
\* or the open ones.
LEMMA LoadedMoves ==
  ASSUME TypeInv, [Next]_vars, NEW s \in Requests
  PROVE  \/ req'[s].loaded = req[s].loaded \/ req'[s].loaded = {}
         \/ req'[s].loaded = Open \/ \E t \in Ids : req'[s].loaded = {t}
<1> DEFINE Moved == \/ req'[s].loaded = req[s].loaded \/ req'[s].loaded = {}
                    \/ req'[s].loaded = Open \/ \E t \in Ids : req'[s].loaded = {t}
<1>1. req \in [Requests -> Handler]
  BY DEF TypeInv, TypeOK
<1>2. ASSUME NEW r \in Requests, NEW h, Become(r, h),
             \/ h.loaded = req[r].loaded \/ h.loaded = {} \/ h.loaded = Open
             \/ \E t \in Ids : h.loaded = {t}
      PROVE  Moved
  BY <1>1, <1>2 DEF Become
<1>3. ASSUME NEW r \in Requests, Leave(r) PROVE Moved
  <2>1. Idle.loaded = {}
    BY DEF Idle
  <2> QED
    BY <1>2, <1>3, <2>1 DEF Leave
<1>4. ASSUME UNCHANGED req PROVE Moved
  BY <1>4
<1> HIDE DEF Moved
<1>5. ASSUME NEW r \in Requests, AdoptBegin(r) \/ FeedbackBegin(r) PROVE Moved
  <2>1. PICK pc, endpoint, key, flag : Become(r, Asking(pc, endpoint, key, flag))
    BY <1>5 DEF AdoptBegin, FeedbackBegin
  <2>2. Asking(pc, endpoint, key, flag).loaded = {}
    BY DEF Asking
  <2> QED
    BY <1>2, <2>1, <2>2
<1>6. ASSUME NEW r \in Requests, AcceptBegin(r) \/ DeliverBegin(r) PROVE Moved
  <2>0. PICK t \in Ids : \E pc, asset : Become(r, Holding(pc, t, asset))
    BY <1>6 DEF AcceptBegin, DeliverBegin
  <2>1. PICK pc, asset : Become(r, Holding(pc, t, asset))
    BY <2>0
  <2>2. Holding(pc, t, asset).loaded = {t}
    BY DEF Holding
  <2> QED
    BY <1>2, <2>1, <2>2
<1>7. ASSUME NEW r \in Requests, AdoptRead(r) PROVE Moved
  <2> DEFINE pc == IF Open # {} /\ ~req[r].flag THEN "refuse" ELSE "adopt"
             h == [req[r] EXCEPT !.loaded = Open, !.pc = pc]
  <2>1. Become(r, h)
    BY <1>7 DEF AdoptRead
  <2>2. h.loaded = Open
    BY <1>1 DEF Handler
  <2> HIDE DEF h
  <2> QED
    BY <1>2, <2>1, <2>2
<1>8. ASSUME NEW r \in Requests, AcceptAgain(r) PROVE Moved
  <2> DEFINE h == [req[r] EXCEPT !.pc = "accept"]
  <2>1. Become(r, h) \/ Leave(r)
    BY <1>8 DEF AcceptAgain
  <2>2. h.loaded = req[r].loaded
    BY <1>1 DEF Handler
  <2> HIDE DEF h
  <2> QED
    BY <1>2, <1>3, <2>1, <2>2
<1>9. ASSUME NEW r \in Requests,
             \/ AdoptCommit(r) \/ RefuseCommit(r) \/ CommitRefused(r) \/ AcceptCommit(r)
             \/ DeliverUnavailable(r) \/ DeliverChanged(r) \/ DeliverCommit(r)
             \/ FeedbackCommit(r) \/ Dies(r)
      PROVE  Moved
  <2>1. Leave(r)
    BY <1>9 DEF AdoptCommit, RefuseCommit, CommitRefused, AcceptCommit, DeliverUnavailable,
                DeliverChanged, DeliverCommit, FeedbackCommit, Dies
  <2> QED
    BY <1>3, <2>1
<1>10. ASSUME Stop \/ Resume \/ Extend \/ Expire \/ UNCHANGED vars PROVE Moved
  BY <1>4, <1>10 DEF Stop, Resume, Extend, Expire, Change, vars
<1>11. Moved
  BY <1>5, <1>6, <1>7, <1>8, <1>9, <1>10
     DEF Next, Adopt, Accept, Deliver, Feedback
<1> QED
  BY <1>11 DEF Moved

\* Because one task is open at most, LoadedInv is inductive.
LEMMA LoadedStep == TaskInv /\ LoadedInv /\ [Next]_vars => LoadedInv'
<1> SUFFICES ASSUME TaskInv, LoadedInv, [Next]_vars, NEW r \in Requests,
                    NEW t \in req'[r].loaded, NEW u \in req'[r].loaded
             PROVE  t = u
  BY DEF LoadedInv
<1> QED
  BY LoadedMoves DEF TaskInv, LoadedInv, OneOpenTask

\* The customer's access and the tasks do not change in one step.
LEMMA AccessMoves == [Next]_vars => tasks' = tasks \/ access' = access
<1> SUFFICES ASSUME [Next]_vars, access' # access PROVE tasks' = tasks
  OBVIOUS
<1>1. ASSUME NEW r \in Requests PROVE ~(Adopt(r) \/ Accept(r))
  BY <1>1 DEF Adopt, AdoptBegin, AdoptRead, AdoptCommit, Accept, AcceptBegin, AcceptAgain,
              AcceptCommit, OnlyReads, customer
<1>2. ASSUME NEW r \in Requests PROVE ~(Deliver(r) \/ Feedback(r))
  BY <1>2 DEF Deliver, DeliverBegin, DeliverUnavailable, DeliverChanged, DeliverCommit,
              Feedback, FeedbackBegin, FeedbackCommit, OnlyReads, customer
<1>3. ASSUME NEW r \in Requests PROVE ~(RefuseCommit(r) \/ CommitRefused(r) \/ Dies(r))
  BY <1>3 DEF RefuseCommit, CommitRefused, Dies, OnlyReads, customer
<1> QED
  BY <1>1, <1>2, <1>3 DEF Next, Stop, Resume, Extend, Expire, Change, Upset, db, vars

-----------------------------------------------------------------------------

\* A row, as it is seen.
SeenRow(row) == [status |-> row.status, by |-> row.by, image |-> row.delivery]

\* An adoption is a submission: its key is new, and the open task is the one it
\* has loaded.
LEMMA AdoptSubmits ==
  ASSUME TaskInv, LoadedInv, NEW r \in Requests, AdoptCommit(r)
  PROVE  Board!Next
<1> DEFINE key == req[r].key
           loaded == req[r].loaded
           n == Len(tasks)
<1>1. /\ key \in Keys /\ loaded \subseteq Ids /\ req[r].endpoint = 0
      /\ n \in Nat /\ DOMAIN Seen = Ids /\ Ids = 1..n /\ Ids' = 1..(n + 1)
      /\ \A t \in Ids : tasks[t] \in Task
  BY AdoptRows, IdsAre DEF TaskInv, TypeInv, TypeOK, HandlerInv, AdoptCommit, At, Seen
<1>2. \A t \in Ids : Seen[t] = SeenRow(tasks[t])
  BY DEF Seen, SeenRow
<1>3. \A t \in Ids : Seen[t].by # key
  BY <1>1, <1>2 DEF SeenRow, TaskInv, KeyInv, AdoptCommit, Store
<1>4. Board!Unfinished = Open
  BY <1>1, <1>2 DEF Board!Unfinished, Board!Tasks, Open, OpenWords, SeenRow
<1>5. Open \subseteq loaded
  BY DEF AdoptCommit, NoOtherOpen
<1>6. Seen' = Append(Board!Canceled(loaded), Board!Submitted(key))
  <2> DEFINE kept == Board!Canceled(loaded)
  <2>1. kept = [t \in 1..n |-> IF t \in loaded THEN [Seen[t] EXCEPT !.status = "canceled"]
                                               ELSE Seen[t]]
    BY <1>1 DEF Board!Canceled, Board!Tasks
  <2>2. Append(kept, Board!Submitted(key))
          = [t \in 1..(n + 1) |-> IF t = n + 1 THEN Board!Submitted(key) ELSE kept[t]]
    BY <1>1, <2>1
  <2>3. \A t \in Ids :
          tasks'[t] = IF t \in loaded THEN [tasks[t] EXCEPT !.status = "canceled"] ELSE tasks[t]
    BY AdoptRows DEF TaskInv
  <2>4. tasks'[n + 1] = NewTask(key)
    BY AdoptRows DEF TaskInv
  <2>5. ASSUME NEW t \in Ids PROVE SeenRow(tasks'[t]) = kept[t]
    <3>1. kept[t] = IF t \in loaded THEN [SeenRow(tasks[t]) EXCEPT !.status = "canceled"]
                                    ELSE SeenRow(tasks[t])
      BY <1>1, <1>2, <2>1, <2>5
    <3>2. tasks'[t] = IF t \in loaded THEN [tasks[t] EXCEPT !.status = "canceled"] ELSE tasks[t]
      BY <2>3, <2>5
    <3> QED
      BY <1>1, <2>5, <3>1, <3>2 DEF SeenRow, Task
  <2>6. SeenRow(tasks'[n + 1]) = Board!Submitted(key)
    BY <2>4 DEF SeenRow, NewTask, Board!Submitted
  <2>7. Seen' = [t \in Ids' |-> SeenRow(tasks'[t])]
    BY DEF Seen, SeenRow
  <2> HIDE DEF kept
  <2> QED
    BY <1>1, <2>2, <2>5, <2>6, <2>7 DEF kept
<1>7. UNCHANGED (access = "active")
  BY DEF AdoptCommit, customer
<1>8. loaded \in {{}} \union {{t} : t \in Board!Tasks}
  <2>1. CASE loaded = {}
    BY <2>1
  <2>2. ASSUME NEW t \in loaded PROVE loaded = {t} /\ t \in Board!Tasks
    BY <1>1, <2>2 DEF LoadedInv, Board!Tasks
  <2> QED
    BY <2>1, <2>2
<1>9. Board!Submit(key, loaded)
  BY <1>1, <1>3, <1>4, <1>5, <1>6, <1>7 DEF Board!Submit, Board!Tasks
<1> QED
  BY <1>1, <1>8, <1>9 DEF Board!Next

\* A step of another kind leaves the board, or accepts or delivers one task of it.
LEMMA BoardMoves ==
  ASSUME TaskInv, FileInv, [Next]_vars, ~\E r \in Requests : AdoptCommit(r)
  PROVE  \/ Seen' = Seen
         \/ access' = access /\ \E t \in Ids : Board!Accept(t) \/
              \E image \in 1..MaxUploads : Board!Deliver(t, image)
<1>1. /\ DOMAIN Seen = Ids /\ Board!Tasks = Ids
      /\ \A t \in Ids : Seen[t] = SeenRow(tasks[t])
      /\ Seen = [t \in Ids |-> SeenRow(tasks[t])]
      /\ Seen' = [t \in Ids' |-> SeenRow(tasks'[t])]
  BY DEF Seen, SeenRow, Board!Tasks
<1>2. TypeInv /\ \A t \in Ids : tasks[t] \in Task
  BY IdsAre DEF TaskInv, TypeInv
<1>3. CASE Ids' = Ids /\ Kept(Ids)
  <2>1. \A t \in Ids : SeenRow(tasks'[t]) = SeenRow(tasks[t])
    BY <1>3 DEF Kept, SeenRow
  <2> QED
    BY <1>1, <1>3, <2>1
<1>4. ASSUME NEW t \in Ids, Accepts(t) PROVE access' = access /\ Board!Accept(t)
  <2>1. Ids' = Ids /\ \A u \in Ids \ {t} : SeenRow(tasks'[u]) = SeenRow(tasks[u])
    BY <1>4 DEF Accepts, Kept, SeenRow
  <2>2. SeenRow(tasks'[t]) = [SeenRow(tasks[t]) EXCEPT !.status = "in_progress"]
    BY <1>4 DEF Accepts, SeenRow
  <2>3. Seen' = [Seen EXCEPT ![t].status = "in_progress"]
    BY <1>1, <2>1, <2>2
  <2>4. access' = access /\ access = "active" /\ Seen[t].status = "waiting_assignment"
    BY <1>1, <1>4, AccessMoves DEF Accepts, SeenRow
  <2> QED
    BY <2>3, <2>4 DEF Board!Accept
<1>5. ASSUME NEW t \in Ids, Delivers(t)
      PROVE  access' = access /\ \E image \in 1..MaxUploads : Board!Deliver(t, image)
  <2>1. PICK r \in Requests : At(r, "deliver") /\ tasks'[t].delivery = req[r].asset
    BY <1>5 DEF Delivers
  <2>2. req[r].asset \in 1..MaxUploads
    BY <1>2, <2>1, BoundsAssumption DEF TypeInv, TypeOK, HandlerInv
  <2>3. \A u \in Ids : Seen[u].image # req[r].asset
    BY <1>1, <2>1 DEF FileInv, SeenRow
  <2>4. Ids' = Ids /\ \A u \in Ids \ {t} : SeenRow(tasks'[u]) = SeenRow(tasks[u])
    BY <1>5 DEF Delivers, Kept, SeenRow
  <2> DEFINE image == req[r].asset
             after == [SeenRow(tasks[t]) EXCEPT !.status = "completed", !.image = image]
  <2>5. SeenRow(tasks'[t]) = after
    <3>1. tasks'[t].status = "completed" /\ tasks'[t].by = tasks[t].by
      BY <1>5 DEF Delivers
    <3>2. SeenRow(tasks'[t])
            = [status |-> "completed", by |-> tasks[t].by, image |-> image]
      BY <2>1, <3>1 DEF SeenRow
    <3>3. after = [status |-> "completed", by |-> tasks[t].by, image |-> image]
      <4> DEFINE first == [SeenRow(tasks[t]) EXCEPT !.status = "completed"]
      <4>1. first = [status |-> "completed", by |-> tasks[t].by, image |-> tasks[t].delivery]
        BY DEF SeenRow
      <4>2. after = [first EXCEPT !.image = image]
        OBVIOUS
      <4> HIDE DEF first, after
      <4> QED
        BY <4>1, <4>2
    <3> QED
      BY <3>2, <3>3
  <2>6. Seen' = [Seen EXCEPT ![t].status = "completed", ![t].image = image]
    <3>1. Seen' = [Seen EXCEPT ![t] = after]
      <4> HIDE DEF after
      <4> QED
        BY <1>1, <2>4, <2>5
    <3>2. [Seen EXCEPT ![t] = after]
            = [Seen EXCEPT ![t].status = "completed", ![t].image = image]
      <4>1. Seen[t] = SeenRow(tasks[t]) /\ t \in DOMAIN Seen
        BY <1>1
      <4> HIDE DEF image
      <4> QED
        BY <1>1, <4>1 DEF SeenRow
    <3> QED
      BY <3>1, <3>2
  <2>7. access' = access /\ access = "active" /\ Seen[t].status = "in_progress"
    BY <1>1, <1>5, AccessMoves DEF Delivers, SeenRow
  <2>8. Board!Deliver(t, req[r].asset)
    BY <1>1, <2>3, <2>6, <2>7 DEF Board!Deliver
  <2> QED
    BY <2>2, <2>7, <2>8
<1> QED
  BY <1>2, <1>3, <1>4, <1>5, RowSteps

\* Every step is one of the board, or a stutter.
LEMMA BoardStep ==
  ASSUME TaskInv, LoadedInv, FileInv, [Next]_vars
  PROVE  [Board!Next]_(Board!vars)
<1>1. CASE \E r \in Requests : AdoptCommit(r)
  BY <1>1, AdoptSubmits
<1>2. CASE ~\E r \in Requests : AdoptCommit(r)
  <2>1. CASE access' = access /\ Seen' = Seen
    BY <2>1 DEF Board!vars
  <2>2. CASE access' = access /\ Seen' # Seen
    <3>1. Board!Tasks = Ids
      BY DEF Board!Tasks, Seen
    <3> QED
      BY <1>2, <2>2, <3>1, BoardMoves DEF Board!Next
  <2>3. CASE access' # access
    <3>1. access \in {"active", "stopped"} /\ access' \in {"active", "stopped"}
      BY TypeStep DEF TaskInv, TypeInv, TypeOK
    <3>2. (access' = "active") = ~(access = "active")
      BY <2>3, <3>1
    <3>3. Seen' = Seen
      BY <2>3, AccessMoves DEF Seen, Ids
    <3> QED
      BY <3>2, <3>3 DEF Board!Next, Board!Turn
  <2> QED
    BY <2>1, <2>2, <2>3
<1> QED
  BY <1>1, <1>2

\* Whatever handlers, deaths and access changes interleave, the tasks keep the
\* promise of TaskBoard.
THEOREM PromiseKept == Spec => KeepsBoardPromise
<1>1. Init => Board!Init /\ LoadedInv /\ TypeInv /\ FileInv
  <2>1. ASSUME Init PROVE Board!Init
    <3>1. Ids = {} /\ access = "active"
      BY <2>1 DEF Init, Ids
    <3>2. Seen = <<>>
      BY <3>1 DEF Seen
    <3> QED
      BY <3>1, <3>2 DEF Board!Init
  <2>2. ASSUME Init PROVE LoadedInv
    BY <2>2 DEF Init, Idle, LoadedInv
  <2> QED
    BY <2>1, <2>2, TypeInit, FileInit
<1>2. TaskInv /\ LoadedInv /\ TypeInv /\ FileInv /\ [Next]_vars
        => (LoadedInv /\ TypeInv /\ FileInv)'
  BY LoadedStep, TypeStep, QuietSteps, QuietKeeps, DeliverKeeps
<1>3. TaskInv /\ LoadedInv /\ FileInv /\ [Next]_vars => [Board!Next]_(Board!vars)
  BY BoardStep
<1> QED
  BY <1>1, <1>2, <1>3, TaskStep, PTL DEF Spec, KeepsBoardPromise, Board!Spec

=============================================================================
