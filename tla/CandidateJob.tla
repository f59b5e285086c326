---------------------------- MODULE CandidateJob ----------------------------
(***************************************************************************)
(* One row of generation_candidate_jobs and everything that can write it:  *)
(* the request loop (BatchGenerationService.execute), the slot-retry task  *)
(* (_execute_slot_retry), the retry endpoint (retry_failed_slot), and the  *)
(* runs of _execute_candidate those two start, talking to the provider.    *)
(*                                                                         *)
(* The database is SQLite behind an ORM session without autoflush: a block *)
(* reads its row outside any transaction, computes, and writes at commit   *)
(* only the columns whose value differs from what it loaded.  Every block  *)
(* that reads and writes is therefore TWO actions here, a read and a       *)
(* commit, and other tasks may run between them.                           *)
(*                                                                         *)
(* The other candidates of the request are the environment: they decide    *)
(* how long a gather lasts and whether the loop goes round again.          *)
(***************************************************************************)
EXTENDS Naturals

CONSTANTS
  Runs,        \* identities of _execute_candidate coroutines on this row
  Kie,         \* TRUE: two-phase Kie provider; FALSE: one synchronous call
  MaxTasks,    \* bound: provider tasks (or calls) ever created for the row
  MaxGarbled,  \* bound: tasks whose creation was answered with an error
  MaxResets,   \* bound: accepted slot retries
  MaxCrashes,  \* bound: process restarts
  MaxFaults    \* bound: exceptions no handler catches (disk full, locked db)

ASSUME RunsAssumption == Runs # {}
ASSUME KieAssumption == Kie \in BOOLEAN
ASSUME BoundsAssumption ==
  /\ MaxTasks \in Nat
  /\ MaxGarbled \in Nat
  /\ MaxResets \in Nat
  /\ MaxCrashes \in Nat
  /\ MaxFaults \in Nat

VARIABLES
  job,      \* the row: status, provider_task_id, provider_submission_state, result
  logo,     \* TRUE once a LogoVersion with this candidate_job_id exists
  made,     \* how many tasks the provider has created (or calls it has served),
            \* but for ...
  garbled,  \* ... the tasks behind an answer that was an error
  runs,     \* the coroutines executing this candidate
  loop,     \* program counter of execute() for the request
  open,     \* the request's status is "processing"
  retry,    \* the retry endpoint: program counter and the row it loaded
  early,    \* history: a retry was committed while the request was processing
  resets,   \* retries committed so far
  crashes,
  faults

db == <<job, logo, open>>
bounds == <<garbled, early, resets, crashes, faults>>
vars == <<job, logo, made, garbled, runs, loop, open, retry, early, resets,
          crashes, faults>>

-----------------------------------------------------------------------------
(* The row, and what a session writes of it.                               *)

NoTask == 0
Attempts == 1..2                        \* _MAX_PROVIDER_ATTEMPTS

Row == [status : {"pending", "running", "succeeded", "failed"},
        task   : 0..MaxTasks,
        sub    : {"none", "submitting", "submitted"},
        result : BOOLEAN]

Fresh == [status |-> "pending", task |-> NoTask, sub |-> "none", result |-> FALSE]

\* A column is written only if its new value differs from the loaded one.
Column(loaded, wanted, stored) == IF wanted = loaded THEN stored ELSE wanted

Flush(loaded, wanted) ==
  [status |-> Column(loaded.status, wanted.status, job.status),
   task   |-> Column(loaded.task, wanted.task, job.task),
   sub    |-> Column(loaded.sub, wanted.sub, job.sub),
   result |-> Column(loaded.result, wanted.result, job.result)]

CommitPcs == {"input_commit", "claim_commit", "clear_commit", "store_commit",
              "save_commit", "fail_commit"}
Pcs == {"off", "check", "input", "generate", "claim", "submit", "clear",
        "store", "wait", "save", "fail", "close"} \union CommitPcs

Run == [pc : Pcs, owner : {"loop", "retry", "orphan"}, try : Attempts,
        task : 0..MaxTasks, row : Row]

Off == [pc |-> "off", owner |-> "orphan", try |-> 1, task |-> NoTask,
        row |-> Fresh]

Start(who, pc) == [Off EXCEPT !.pc = pc, !.owner = who]

\* The same coroutine, moved on.
Moved(run, pc, try, task, row) ==
  [run EXCEPT !.pc = pc, !.try = try, !.task = task, !.row = row]

Active(r) == runs[r].pc # "off"
OwnedBy(who) == {r \in Runs : Active(r) /\ runs[r].owner = who}

RetryIdle == [pc |-> "idle", row |-> Fresh]

Init ==
  /\ job = Fresh
  /\ logo = FALSE
  /\ made = 0
  /\ garbled = 0
  /\ runs = [r \in Runs |-> Off]
  /\ loop = "off"
  /\ open = TRUE
  /\ retry = RetryIdle
  /\ early = FALSE
  /\ resets = 0
  /\ crashes = 0
  /\ faults = 0

-----------------------------------------------------------------------------
(* The request loop, as far as it concerns this row.                       *)

\* schedule(): at accept, and from any status poll of a processing request.
Schedule ==
  /\ open
  /\ loop = "off"
  /\ loop' = "top"
  /\ UNCHANGED <<db, made, runs, retry, bounds>>

\* Mutant: a row left "running" by a dead process is not looked for.
RecoverReadNever ==
  /\ loop = "top"
  /\ loop' = "pick"
  /\ UNCHANGED <<db, made, runs, retry, bounds>>

\* _recover_running_jobs reads the rows that are "running" ...
RecoverRead ==
  /\ loop = "top"
  /\ loop' = IF job.status = "running" THEN "recover" ELSE "pick"
  /\ UNCHANGED <<db, made, runs, retry, bounds>>

\* ... and writes "pending" over whatever their status is by now.
RecoverCommit ==
  /\ loop = "recover"
  /\ job' = [job EXCEPT !.status = "pending"]
  /\ loop' = "pick"
  /\ UNCHANGED <<logo, open, made, runs, retry, bounds>>

\* _pending_jobs, then gather() over what it returned.
PickThisRow ==
  /\ loop = "pick"
  /\ job.status = "pending"
  /\ \E r \in Runs :
       /\ ~Active(r)
       /\ runs' = [runs EXCEPT ![r] = Start("loop", "input")]
  /\ loop' = "gather"
  /\ UNCHANGED <<db, made, retry, bounds>>

\* This row is not pending: either other candidates are, or the loop counts.
PickOthers ==
  /\ loop = "pick"
  /\ job.status # "pending"
  /\ loop' \in {"gather", "count"}
  /\ UNCHANGED <<db, made, runs, retry, bounds>>

GatherDone ==
  /\ loop = "gather"
  /\ OwnedBy("loop") = {}
  /\ loop' = "top"
  /\ UNCHANGED <<db, made, runs, retry, bounds>>

\* _create_replenishments added candidates: go round again.
GoRound ==
  /\ loop = "count"
  /\ loop' = "top"
  /\ UNCHANGED <<db, made, runs, retry, bounds>>

\* _finish: the request becomes terminal; polls no longer schedule it.
Finish ==
  /\ loop = "count"
  /\ open' = FALSE
  /\ loop' = "off"
  /\ UNCHANGED <<job, logo, made, runs, retry, bounds>>

-----------------------------------------------------------------------------
(* A run of _execute_candidate.  None of its steps touches the loop, the   *)
(* retry endpoint or the request.                                          *)

At(r, pc) == runs[r].pc = pc
Set(r, run) == runs' = [runs EXCEPT ![r] = run]
GotoWith(r, pc, task) == Set(r, Moved(runs[r], pc, runs[r].try, task, Fresh))
Goto(r, pc) == GotoWith(r, pc, runs[r].task)
Load(r, pc) == Set(r, Moved(runs[r], pc, runs[r].try, runs[r].task, job))

\* Mutant: the attempts are not counted.
RaisedAgain(r, fatal) ==
  IF fatal
  THEN Moved(runs[r], "fail", runs[r].try, NoTask, Fresh)
  ELSE Moved(runs[r], "input", runs[r].try, NoTask, Fresh)

\* The except clauses: leave the attempt loop on the last attempt or a fatal
\* error, else try again from _provider_input.
Raised(r, fatal) ==
  IF fatal \/ runs[r].try = 2
  THEN Moved(runs[r], "fail", runs[r].try, NoTask, Fresh)
  ELSE Moved(runs[r], "input", 2, NoTask, Fresh)

Raise(r) == \E fatal \in BOOLEAN : Set(r, Raised(r, fatal))

LocalStep == UNCHANGED <<db, made, loop, retry, bounds>>
RowStep == UNCHANGED <<logo, open, made, loop, retry, bounds>>

\* _execute_slot_retry runs the candidate only if it finds it pending.
Check(r) ==
  /\ At(r, "check")
  /\ IF job.status = "pending" THEN Goto(r, "input") ELSE Set(r, Off)
  /\ LocalStep

\* _provider_input loads the row; a stale connection or a changed image is a
\* configuration error, which ends the attempts.
Input(r) ==
  /\ At(r, "input")
  /\ Load(r, "input_commit") \/ Set(r, Raised(r, TRUE))
  /\ LocalStep

\* Mutant: the request's status word on the candidate row.
InputCommitWrongWord(r) ==
  /\ At(r, "input_commit")
  /\ job' = Flush(runs[r].row, [runs[r].row EXCEPT !.status = "processing"])
  /\ Goto(r, "generate")
  /\ RowStep

InputCommit(r) ==
  /\ At(r, "input_commit")
  /\ job' = Flush(runs[r].row, [runs[r].row EXCEPT !.status = "running"])
  /\ GotoWith(r, "generate", runs[r].row.task)
  /\ RowStep

\* _generate: a known task is awaited, otherwise the submission is claimed.
Generate(r) ==
  /\ At(r, "generate")
  /\ Kie
  /\ Goto(r, IF runs[r].task # NoTask THEN "wait" ELSE "claim")
  /\ LocalStep

\* A provider without tasks: one call, which is charged whatever it answers.
Call(r) ==
  /\ At(r, "generate")
  /\ ~Kie
  /\ made < MaxTasks
  /\ made' = made + 1
  /\ Goto(r, "save") \/ Raise(r)
  /\ UNCHANGED <<db, loop, retry, bounds>>

\* Mutant: a claim left by an earlier run does not stop this one.
ClaimAgain(r) ==
  /\ At(r, "claim")
  /\ IF job.task # NoTask THEN Goto(r, "wait") ELSE Load(r, "claim_commit")
  /\ LocalStep

Claim(r) ==
  /\ At(r, "claim")
  /\ \/ /\ job.status = "succeeded"
        /\ Set(r, Raised(r, FALSE))
     \/ /\ job.status # "succeeded"
        /\ job.task # NoTask
        /\ Goto(r, "wait")
     \/ /\ job.status # "succeeded"
        /\ job.task = NoTask
        /\ job.sub = "submitting"
        /\ Set(r, Raised(r, TRUE))
     \/ /\ job.status # "succeeded"
        /\ job.task = NoTask
        /\ job.sub # "submitting"
        /\ Load(r, "claim_commit")
  /\ LocalStep

ClaimCommit(r) ==
  /\ At(r, "claim_commit")
  /\ job' = Flush(runs[r].row, [runs[r].row EXCEPT !.sub = "submitting"])
  /\ Goto(r, "submit")
  /\ RowStep

\* create_task created a task and its identifier came back.
SubmitAccepted(r) ==
  /\ At(r, "submit")
  /\ made < MaxTasks
  /\ made' = made + 1
  /\ GotoWith(r, "store", made')
  /\ UNCHANGED <<db, loop, retry, bounds>>

\* Mutant: every failed submission gives the claim back.
SubmitUncertainClears(r) ==
  /\ At(r, "submit")
  /\ made' \in {made, made + 1}
  /\ made' <= MaxTasks
  /\ Goto(r, "clear")
  /\ UNCHANGED <<db, loop, retry, bounds>>

\* provider_submission_uncertain: no identifier, with or without a task.
SubmitUncertain(r) ==
  /\ At(r, "submit")
  /\ made' \in {made, made + 1}
  /\ made' <= MaxTasks
  /\ Set(r, Raised(r, TRUE))
  /\ UNCHANGED <<db, loop, retry, bounds>>

\* Every other error gives the claim back before it goes on: raised before
\* create_task (the upload of a reference), by a refusal, ...
SubmitRejected(r) ==
  /\ At(r, "submit")
  /\ Goto(r, "clear")
  /\ LocalStep

\* ... or by a 5xx or an unreadable body, behind which a task may exist.
SubmitGarbled(r) ==
  /\ At(r, "submit")
  /\ garbled < MaxGarbled
  /\ garbled' = garbled + 1
  /\ Goto(r, "clear")
  /\ UNCHANGED <<db, made, loop, retry, early, resets, crashes, faults>>

Clear(r) ==
  /\ At(r, "clear")
  /\ IF job.task = NoTask THEN Load(r, "clear_commit") ELSE Raise(r)
  /\ LocalStep

ClearCommit(r) ==
  /\ At(r, "clear_commit")
  /\ job' = Flush(runs[r].row, [runs[r].row EXCEPT !.sub = "none"])
  /\ Raise(r)
  /\ RowStep

\* _persist_provider_task_id
Store(r) ==
  /\ At(r, "store")
  /\ IF job.status = "succeeded" \/ job.task \notin {NoTask, runs[r].task}
     THEN Set(r, Raised(r, FALSE))
     ELSE Load(r, "store_commit")
  /\ LocalStep

StoreCommit(r) ==
  /\ At(r, "store_commit")
  /\ job' = Flush(runs[r].row,
                  [runs[r].row EXCEPT !.task = runs[r].task, !.sub = "submitted"])
  /\ Goto(r, "wait")
  /\ RowStep

\* wait_for_result: an image, a failed or timed-out task, or an image that is
\* not a valid output.
Wait(r) ==
  /\ At(r, "wait")
  /\ Goto(r, "save") \/ Raise(r)
  /\ LocalStep

\* _persist_success
Save(r) ==
  /\ At(r, "save")
  /\ IF job.status = "succeeded" THEN Goto(r, "close") ELSE Load(r, "save_commit")
  /\ LocalStep

\* Mutant: the version row is left to a later transaction.
SaveCommitRowOnly(r) ==
  /\ At(r, "save_commit")
  /\ ~logo
  /\ job' = [job EXCEPT !.status = "succeeded", !.result = TRUE]
  /\ Goto(r, "close")
  /\ UNCHANGED <<logo, open, made, loop, retry, bounds>>

SaveCommit(r) ==
  /\ At(r, "save_commit")
  /\ ~logo
  /\ logo' = TRUE
  /\ job' = [job EXCEPT !.status = "succeeded", !.result = TRUE]
  /\ Goto(r, "close")
  /\ UNCHANGED <<open, made, loop, retry, bounds>>

\* _persist_failure
Fail(r) ==
  /\ At(r, "fail")
  /\ IF job.status = "succeeded" THEN Goto(r, "close") ELSE Load(r, "fail_commit")
  /\ LocalStep

FailCommit(r) ==
  /\ At(r, "fail_commit")
  /\ job' = Flush(runs[r].row, [runs[r].row EXCEPT !.status = "failed"])
  /\ Goto(r, "close")
  /\ RowStep

\* The commit is visible before the coroutine returns (it still gives its
\* connection back), so gather and the retry set see the end only here.
Close(r) ==
  /\ At(r, "close")
  /\ Set(r, Off)
  /\ LocalStep

RunStep(r) ==
  \/ Check(r) \/ Input(r) \/ InputCommit(r) \/ Generate(r) \/ Call(r)
  \/ Claim(r) \/ ClaimCommit(r)
  \/ SubmitAccepted(r) \/ SubmitUncertain(r) \/ SubmitRejected(r)
  \/ SubmitGarbled(r)
  \/ Clear(r) \/ ClearCommit(r) \/ Store(r) \/ StoreCommit(r)
  \/ Wait(r) \/ Save(r) \/ SaveCommit(r) \/ Fail(r) \/ FailCommit(r) \/ Close(r)

-----------------------------------------------------------------------------
(* POST .../slots/{slot}/retry.  _slot_retry_lock is held from the read to *)
(* the commit, so one retry is in flight at a time; the lock excludes no   *)
(* other writer of the row, and the request's status is not looked at.     *)

\* Mutant: any slot may be retried, a delivered one too.
RetryReadAny ==
  /\ retry.pc = "idle"
  /\ resets < MaxResets
  /\ retry' = [pc |-> "loaded", row |-> job]
  /\ UNCHANGED <<db, made, runs, loop, bounds>>

RetryRead ==
  /\ retry.pc = "idle"
  /\ job.status = "failed"
  /\ resets < MaxResets
  /\ retry' = [pc |-> "loaded", row |-> job]
  /\ UNCHANGED <<db, made, runs, loop, bounds>>

RetryCommit ==
  /\ retry.pc = "loaded"
  /\ job' = Flush(retry.row, Fresh)
  /\ retry' = [pc |-> "schedule", row |-> Fresh]
  /\ resets' = resets + 1
  /\ early' = (early \/ open)
  /\ UNCHANGED <<logo, open, made, garbled, runs, loop, crashes, faults>>

\* The same idempotency key again: the stored answer, and scheduling again.
RetryReplay ==
  /\ retry.pc = "idle"
  /\ resets > 0
  /\ retry' = [pc |-> "schedule", row |-> Fresh]
  /\ UNCHANGED <<db, made, runs, loop, bounds>>

\* Mutant: no set of running slot retries.
RetryScheduleTwice ==
  /\ retry.pc = "schedule"
  /\ retry' = RetryIdle
  /\ \E r \in Runs :
       /\ ~Active(r)
       /\ runs' = [runs EXCEPT ![r] = Start("retry", "check")]
  /\ UNCHANGED <<db, made, loop, bounds>>

\* schedule_slot_retry: nothing if this slot's retry task has not returned.
RetrySchedule ==
  /\ retry.pc = "schedule"
  /\ retry' = RetryIdle
  /\ IF OwnedBy("retry") # {}
     THEN UNCHANGED runs
     ELSE \E r \in Runs :
            /\ ~Active(r)
            /\ runs' = [runs EXCEPT ![r] = Start("retry", "check")]
  /\ UNCHANGED <<db, made, loop, bounds>>

-----------------------------------------------------------------------------
(* What no handler catches.                                                *)

\* An exception leaves execute(): gather() does not cancel the other runs.
Orphaned ==
  [r \in Runs |-> IF runs[r].owner = "loop"
                  THEN [runs[r] EXCEPT !.owner = "orphan"] ELSE runs[r]]

\* Another candidate of the request, or a write of the loop itself, raised.
LoopDies ==
  /\ loop # "off"
  /\ faults < MaxFaults
  /\ faults' = faults + 1
  /\ loop' = "off"
  /\ runs' = Orphaned
  /\ UNCHANGED <<db, made, garbled, retry, early, resets, crashes>>

\* A step of this run raised; with it dies the loop that gathered it.
EndRun(r) ==
  IF runs[r].owner = "loop"
  THEN /\ loop' = "off"
       /\ runs' = [Orphaned EXCEPT ![r] = Off]
  ELSE /\ Set(r, Off)
       /\ UNCHANGED loop

RunDies(r) ==
  /\ Active(r)
  /\ faults < MaxFaults
  /\ faults' = faults + 1
  /\ EndRun(r)
  /\ UNCHANGED <<db, made, garbled, retry, early, resets, crashes>>

\* candidate_job_id is UNIQUE in logo_versions: the second one rolls back.
SaveRefused(r) ==
  /\ At(r, "save_commit")
  /\ logo
  /\ EndRun(r)
  /\ UNCHANGED <<db, made, retry, bounds>>

Crash ==
  /\ crashes < MaxCrashes
  /\ crashes' = crashes + 1
  /\ runs' = [r \in Runs |-> Off]
  /\ loop' = "off"
  /\ retry' = RetryIdle
  /\ UNCHANGED <<db, made, garbled, early, resets, faults>>

-----------------------------------------------------------------------------

LoopStep ==
  \/ Schedule \/ RecoverRead \/ RecoverCommit \/ PickThisRow \/ PickOthers
  \/ GatherDone \/ GoRound \/ Finish

RetryStep == RetryRead \/ RetryCommit \/ RetryReplay \/ RetrySchedule

Next ==
  \/ LoopStep
  \/ \E r \in Runs : RunStep(r) \/ RunDies(r) \/ SaveRefused(r)
  \/ RetryStep
  \/ LoopDies
  \/ Crash

Spec == Init /\ [][Next]_vars

\* Coroutines that are ready run, the provider answers or times out, and the
\* customer's page polls a processing request.  Crashes, faults and retries
\* are not owed; an accepted retry is carried to its scheduling.
Fairness ==
  /\ WF_vars(LoopStep)
  /\ \A r \in Runs : WF_vars(RunStep(r) \/ SaveRefused(r))
  /\ WF_vars(RetryCommit \/ RetrySchedule)

FairSpec == Spec /\ Fairness

-----------------------------------------------------------------------------
(* Properties.                                                             *)

\* The types of every variable.
TypeOK ==
  /\ job \in Row
  /\ logo \in BOOLEAN
  /\ made \in 0..MaxTasks
  /\ garbled \in 0..MaxGarbled
  /\ runs \in [Runs -> Run]
  /\ loop \in {"off", "top", "recover", "pick", "gather", "count"}
  /\ open \in BOOLEAN
  /\ retry \in [pc : {"idle", "loaded", "schedule"}, row : Row]
  /\ early \in BOOLEAN
  /\ resets \in 0..MaxResets
  /\ crashes \in 0..MaxCrashes
  /\ faults \in 0..MaxFaults

\* Every retry waited for the request to end, and no exception escaped.
\* Restarts at any point are allowed.
Calm == ~early /\ faults = 0

\* However retries, restarts and escaped exceptions interleave with the runs,
\* a row that says "succeeded" has a logo version and a result asset: a slot
\* is never shown as delivered with nothing behind it (_persist_success writes
\* the three in one commit, and every later writer overwrites the status).
SucceededHasLogo == job.status = "succeeded" => logo /\ job.result

\* In calm runs the provider is charged once for the original run and once per
\* accepted retry, whatever crashes or is lost between the claim, create_task
\* and the commit of the identifier: the claim outlives the process that made
\* it.  Not counted are the tasks behind an erroneous answer, after which
\* _generate gives the claim back (see ChargesBounded).
ChargedOncePerReset == Kie /\ Calm => made <= 1 + resets

\* In calm runs the provider is charged, the tasks behind erroneous answers
\* included, at most once per attempt: two attempts for the original run, two
\* per accepted retry and two per restart.
ChargesBounded == Calm => made + garbled <= 2 * (1 + resets + crashes)

\* In calm runs a logo version exists exactly when its row says "succeeded":
\* no stale commit (recovery, failure, retry) hides a delivered logo.
LogoIffSucceeded == Calm => (logo <=> job.status = "succeeded")

\* Why both hold: the facts, of a calm run, that every step preserves.
Undecided == {"input", "generate", "claim", "submit", "clear", "store", "wait",
              "save", "fail"} \union CommitPcs

OneRun == \A r, s \in Runs : Active(r) /\ Active(s) => r = s

Ownership ==
  /\ loop # "off" => open
  /\ open => resets = 0 /\ retry.pc # "schedule"
  /\ \A r \in Runs : Active(r) =>
       \/ runs[r].owner = "loop" /\ loop = "gather"
       \/ runs[r].owner = "retry" /\ ~open

NothingStale ==
  /\ loop = "recover" => job.status = "running"
  /\ retry.pc = "loaded" => retry.row = job /\ job.status = "failed"
  /\ \A r \in Runs :
       /\ runs[r].pc \in Undecided => job.status \in {"pending", "running"}
       /\ runs[r].pc \in CommitPcs => runs[r].row = job

Charges ==
  /\ made <= 1 + resets
  /\ job.sub = "none" => made <= resets
  /\ job.sub = "submitted" => job.task # NoTask
  /\ \A r \in Runs :
       /\ runs[r].pc \in {"claim_commit", "submit", "clear", "clear_commit"} =>
            made <= resets
       /\ runs[r].pc \in {"submit", "clear", "clear_commit"} => job.sub = "submitting"
       /\ runs[r].pc \in {"store", "store_commit"} => runs[r].task # NoTask

\* In calm runs one coroutine at most works on the row, it belongs to the loop
\* of a processing request or to the retry of an ended one, and every row held
\* between a read and its commit is still the stored one.
CalmInv ==
  Calm => /\ OneRun
          /\ Ownership
          /\ NothingStale
          /\ logo <=> job.status = "succeeded"
          /\ Kie => Charges

\* Without retries and escaped exceptions no restart, wherever it hits, leaves
\* the row undecided for ever: the poll starts the loop, the loop recovers it.
Settles == (resets = 0 /\ faults = 0) ~> job.status \in {"succeeded", "failed"}

\* A row without retries and escaped exceptions, seen as the abstract candidate.
Outcome == CASE job.status = "succeeded" -> "done"
             [] job.status = "failed" -> "failed"
             [] OTHER -> "open"

Once == INSTANCE CandidateOnce WITH outcome <- Outcome, charged <- made, wasted <- garbled

\* The detailed candidate keeps the abstract candidate's promise: charged at
\* most once, wasting nothing after that, decided once, delivered only for a
\* charge, and decided in the end, through any number of restarts of the process.
KeepsCandidatePromise == Once!Spec

\* "Every selected candidate owns one provider task": one per time the row is
\* started, for every interleaving and every answer.
OneTaskPerReset == made + garbled <= 1 + resets

\* "Atomically validate and reset": the row a retry resets is, at that moment,
\* still the failed row the retry validated.
RetryResetsFailedRow == [][resets' # resets => job.status = "failed"]_vars

\* "Persist work first, then execute it through an app-owned recoverable
\* worker": an accepted retry of a request that has ended is executed.
AcceptedRetrySettles ==
  (resets > 0 /\ ~early /\ job.status \in {"pending", "running"})
     ~> job.status \in {"succeeded", "failed"}

=============================================================================
