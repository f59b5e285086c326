--------------------------- MODULE BatchGeneration ---------------------------
(***************************************************************************)
(* One batch generation request: its candidate rows, the loop of           *)
(* BatchGenerationService.execute that gathers, counts, replenishes and    *)
(* finishes, the slots the customer sees, and the retry of one slot.       *)
(*                                                                         *)
(* A candidate's run is two steps here, "running" and its outcome; what    *)
(* happens inside it, and the races between a read and a commit of one     *)
(* row, are module CandidateJob.  The loop keeps what it read between its  *)
(* transactions, so a retry may slip in between counting and finishing.    *)
(*                                                                         *)
(* Any transaction may raise what nobody catches (a full disk, a locked    *)
(* database).  gather() is called without return_exceptions, so what one   *)
(* candidate raises ends the loop and leaves the others running, and the   *)
(* next poll starts a second loop over their rows.                         *)
(***************************************************************************)
EXTENDS Integers, Sequences, FiniteSets, Functions

CONSTANTS
  Target,        \* target_count: one original candidate per slot
  Budget,        \* REPLENISHMENT_BUDGET
  Shown,         \* slots of a batch the customer sees at most (9)
  MaxRetries,    \* bound: accepted slot retries
  MaxCrashes,    \* bound: process restarts
  MaxEscapes     \* bound: exceptions that nothing catches

ASSUME TargetAssumption == Target \in Nat \ {0}
ASSUME LimitsAssumption == Budget \in Nat /\ Shown \in Nat
ASSUME BoundsAssumption ==
  MaxRetries \in Nat /\ MaxCrashes \in Nat /\ MaxEscapes \in Nat

VARIABLES
  status,    \* of the request
  full,      \* failure_summary_json is empty
  jobs,      \* candidate rows by ordinal; logo: the row has a LogoVersion
  runs,      \* coroutines of _execute_candidate: [job, owner, begun]; an orphan's
             \* loop has ended without it
  loop,      \* program counter of execute()
  plan,      \* what the loop decided on counting and has not yet written
  tokens,    \* slots whose retry token the customer has been given
  retries,   \* accepted retries
  retried,   \* history: the slots they were for
  early,     \* history: one was accepted while the request was processing
  lost,      \* history: the policy runtime was unavailable for a replenishment
  overtaken, \* history: a loop was started while an orphan was still running
  crashes,
  escapes    \* exceptions that nothing caught

request == <<status, full>>
retrying == <<tokens, retries, retried, early>>
stops == <<crashes, escapes>>
history == <<retrying, lost, overtaken, stops>>
vars == <<request, jobs, runs, loop, plan, history>>

-----------------------------------------------------------------------------

\* What a failed row tells the loop: a code of _TERMINAL_PROVIDER_FAILURES, a
\* code of _NON_REPLENISHABLE_FAILURES after a submission, or any other.
Errors == {"terminal", "unsettled", "other"}

Slots == 0..(Target - 1)
VisibleSlots == {k \in Slots : k < Shown}

Job == [status : {"pending", "running", "succeeded", "failed"},
        error  : Errors \union {"none"},
        slot   : Slots,
        logo   : BOOLEAN]

Pending(slot) ==
  [status |-> "pending", error |-> "none", slot |-> slot, logo |-> FALSE]

Ordinals == DOMAIN jobs
With(word) == {j \in Ordinals : jobs[j].status = word}
NoPlan == [status |-> "processing", full |-> FALSE, slots |-> <<>>]

Init ==
  /\ status = "processing"
  /\ full = TRUE
  /\ jobs = [j \in 1..Target |-> Pending(j - 1)]
  /\ runs = {}
  /\ loop = "off"
  /\ plan = NoPlan
  /\ tokens = {}
  /\ retries = 0
  /\ retried = {}
  /\ early = FALSE
  /\ lost = FALSE
  /\ overtaken = FALSE
  /\ crashes = 0
  /\ escapes = 0

-----------------------------------------------------------------------------
(* The loop.                                                               *)

Orphans == {run \in runs : run.owner = "orphan"}

\* Mutant: only the accepting request starts the loop, no poll does.
ScheduleOnce ==
  /\ status = "processing"
  /\ loop = "off"
  /\ crashes = 0
  /\ loop' = "recover"
  /\ overtaken' = (overtaken \/ Orphans # {})
  /\ UNCHANGED <<request, jobs, runs, plan, retrying, lost, stops>>

\* schedule(), after accept and from every status poll of a processing request:
\* one loop at a time, whatever an earlier one has left behind.
Schedule ==
  /\ status = "processing"
  /\ loop = "off"
  /\ loop' = "recover"
  /\ overtaken' = (overtaken \/ Orphans # {})
  /\ UNCHANGED <<request, jobs, runs, plan, retrying, lost, stops>>

\* Mutant: whatever has not failed is run again.
RecoverAll ==
  /\ loop = "recover"
  /\ jobs' = [j \in Ordinals |->
                IF j \in With("failed") THEN jobs[j]
                                        ELSE [jobs[j] EXCEPT !.status = "pending"]]
  /\ loop' = "pick"
  /\ UNCHANGED <<request, runs, plan, history>>

\* _recover_running_jobs
Recover ==
  /\ loop = "recover"
  /\ jobs' = [j \in Ordinals |->
                IF j \in With("running") THEN [jobs[j] EXCEPT !.status = "pending"]
                                         ELSE jobs[j]]
  /\ loop' = "pick"
  /\ UNCHANGED <<request, runs, plan, history>>

LoopRun(j) == [job |-> j, owner |-> "loop", begun |-> FALSE]

\* _pending_jobs, and gather() over them or on to the counts.
Pick ==
  /\ loop = "pick"
  /\ runs' = runs \union {LoopRun(j) : j \in With("pending")}
  /\ loop' = IF With("pending") = {} THEN "count" ELSE "gather"
  /\ UNCHANGED <<request, jobs, plan, history>>

\* Mutant: go on when the first candidate is done.
GatherFirst ==
  /\ loop = "gather"
  /\ \E j \in Ordinals : LoopRun(j) \notin runs /\ jobs[j].status # "running"
  /\ loop' = "recover"
  /\ UNCHANGED <<request, jobs, runs, plan, history>>

GatherDone ==
  /\ loop = "gather"
  /\ \A run \in runs : run.owner # "loop"
  /\ loop' = "recover"
  /\ UNCHANGED <<request, jobs, runs, plan, history>>

Successes == Cardinality(With("succeeded"))
FailedWith(error) == {j \in With("failed") : jobs[j].error = error}
\* Mutant: only replacements that failed count against the budget.
ReplacedFailed == Cardinality({j \in With("failed") : j > Target})
Replaced == IF Len(jobs) > Target THEN Len(jobs) - Target ELSE 0
\* Mutant: the budget is per round.
RemainingPerRound == Budget
Remaining == IF Budget > Replaced THEN Budget - Replaced ELSE 0

\* Mutant: succeeded means all of the target.
EndedAll(full_) ==
  [status |-> IF Successes >= Target THEN "succeeded" ELSE "failed", full |-> full_,
   slots |-> <<>>]

Ended(full_) ==
  [status |-> IF Successes > 0 THEN "succeeded" ELSE "failed", full |-> full_,
   slots |-> <<>>]

\* failed_jobs[:remaining_budget]: the query has no order, so any of them, in any
\* order; each stands for its slot.
Replaceable == IF Cardinality(With("failed")) < Remaining
               THEN Cardinality(With("failed")) ELSE Remaining

Chosen == Injection(1..Replaceable, With("failed"))

SlotsOf(chosen) == [i \in 1..Replaceable |-> jobs[chosen[i]].slot]

\* _job_counts, and what execute() concludes from it.
Count ==
  /\ loop = "count"
  /\ \/ /\ Successes >= Target
        /\ plan' = Ended(TRUE)
        /\ loop' = "finish"
     \/ /\ Successes < Target
        /\ \/ FailedWith("terminal") # {}
           \/ FailedWith("unsettled") # {}
           \/ Remaining = 0
           \/ With("failed") = {}
        /\ plan' = Ended(FALSE)
        /\ loop' = "finish"
     \/ /\ Successes < Target
        /\ FailedWith("terminal") = {}
        /\ FailedWith("unsettled") = {}
        /\ Remaining > 0
        /\ With("failed") # {}
        /\ \E chosen \in Chosen : plan' = [NoPlan EXCEPT !.slots = SlotsOf(chosen)]
        /\ loop' = "replenish"
  /\ UNCHANGED <<request, jobs, runs, history>>

\* _finish
Finish ==
  /\ loop = "finish"
  /\ status' = plan.status
  /\ full' = plan.full
  /\ plan' = NoPlan
  /\ loop' = "off"
  /\ UNCHANGED <<jobs, runs, history>>

\* _create_replenishments: new rows at the end, each for its failed row's slot.
Replenish ==
  /\ loop = "replenish"
  /\ jobs' = jobs \o [i \in DOMAIN plan.slots |-> Pending(plan.slots[i])]
  /\ plan' = NoPlan
  /\ loop' = "recover"
  /\ UNCHANGED <<request, runs, history>>

\* The connection or the policy changed since accept: execute() catches the
\* LookupError and finishes the request as failed with no success.
RuntimeUnavailable ==
  /\ loop = "replenish"
  /\ status' = "failed"
  /\ full' = FALSE
  /\ lost' = TRUE
  /\ plan' = NoPlan
  /\ loop' = "off"
  /\ UNCHANGED <<jobs, runs, retrying, overtaken, stops>>

\* A transaction of execute() itself raises: nothing of it is written.
LoopEscapes ==
  /\ escapes < MaxEscapes
  /\ escapes' = escapes + 1
  /\ loop \in {"recover", "pick", "count", "finish", "replenish"}
  /\ loop' = "off"
  /\ plan' = NoPlan
  /\ UNCHANGED <<request, jobs, runs, retrying, lost, overtaken, crashes>>

-----------------------------------------------------------------------------
(* Candidates.                                                             *)

\* A retry's coroutine gives up unless it finds its row pending; then, like
\* the loop's, it marks the row running, whatever the row says by now; an error
\* is read of failed rows only, so a running row is given none.
Begin ==
  \E run \in runs :
    /\ ~run.begun
    /\ \/ /\ run.owner # "retry" \/ jobs[run.job].status = "pending"
          /\ jobs' = [jobs EXCEPT ![run.job].status = "running", ![run.job].error = "none"]
          /\ runs' = (runs \ {run}) \union {[run EXCEPT !.begun = TRUE]}
       \/ /\ run.owner = "retry"
          /\ jobs[run.job].status # "pending"
          /\ runs' = runs \ {run}
          /\ UNCHANGED jobs
    /\ UNCHANGED <<request, loop, plan, history>>

\* _persist_failure keeps a row that has succeeded.
Failed(j, error) ==
  IF jobs[j].status = "succeeded" THEN jobs
  ELSE [jobs EXCEPT ![j].status = "failed", ![j].error = error]

\* The configuration of the run is gone before it marks the row.
BeginFails ==
  \E run \in runs :
    /\ ~run.begun
    /\ run.owner # "retry" \/ jobs[run.job].status = "pending"
    /\ jobs' = Failed(run.job, "terminal")
    /\ runs' = runs \ {run}
    /\ UNCHANGED <<request, loop, plan, history>>

Fail ==
  \E run \in runs, error \in Errors :
    /\ run.begun
    /\ jobs' = Failed(run.job, error)
    /\ runs' = runs \ {run}
    /\ UNCHANGED <<request, loop, plan, history>>

\* _persist_success
Succeed ==
  \E run \in runs :
    /\ run.begun
    /\ jobs' = IF jobs[run.job].status = "succeeded" THEN jobs
               ELSE [jobs EXCEPT ![run.job].status = "succeeded",
                                 ![run.job].error = "none", ![run.job].logo = TRUE]
    /\ jobs[run.job].logo => jobs[run.job].status = "succeeded"
    /\ runs' = runs \ {run}
    /\ UNCHANGED <<request, loop, plan, history>>

\* A run raises what nothing catches.  Out of gather() that ends the loop, and
\* the other runs it gathered go on without it.  Bound: no row has two orphans.
Raises(run) ==
  \/ /\ run.owner = "loop"
     /\ \A other \in runs \ {run}, orphan \in Orphans :
          other.owner = "loop" => other.job # orphan.job
     /\ loop' = "off"
     /\ plan' = NoPlan
     /\ runs' = {IF r.owner = "loop" THEN [r EXCEPT !.owner = "orphan"] ELSE r :
                   r \in runs \ {run}}
  \/ /\ run.owner # "loop"
     /\ runs' = runs \ {run}
     /\ UNCHANGED <<loop, plan>>

\* A second LogoVersion for the row breaks its unique key.
SucceedRefused ==
  \E run \in runs :
    /\ run.begun
    /\ jobs[run.job].logo
    /\ jobs[run.job].status # "succeeded"
    /\ Raises(run)
    /\ UNCHANGED <<request, jobs, history>>

\* A transaction or a file of the run fails: its row stays as it is.
RunEscapes ==
  /\ escapes < MaxEscapes
  /\ escapes' = escapes + 1
  /\ \E run \in runs : Raises(run)
  /\ UNCHANGED <<request, jobs, retrying, lost, overtaken, crashes>>

-----------------------------------------------------------------------------
(* What the customer sees, and the retry of one slot.                      *)

\* The loop body of _visible_slot_jobs, over the rows of one slot by ordinal.
Newer(current, j) ==
  IF \/ current = 0
     \/ jobs[current].status # "succeeded" /\ jobs[j].status = "succeeded"
     \/ jobs[current].status # "succeeded" /\ j > current
  THEN j ELSE current

VisibleUpTo(k) ==
  LET current[j \in 0..Len(jobs)] ==
        IF j = 0 THEN 0
        ELSE IF jobs[j].slot = k THEN Newer(current[j - 1], j) ELSE current[j - 1]
  IN  current

Visible(k) == VisibleUpTo(k)[Len(jobs)]

Delivered(k) == jobs[Visible(k)].status = "succeeded" /\ jobs[Visible(k)].logo

\* _batch_dto: a token for a slot that failed with a failed original row, in
\* the answer for a processing or a succeeded request.  Bound: no token is taken
\* note of once there is no retry left to use it.
Poll ==
  /\ status # "failed"
  /\ retries < MaxRetries
  /\ tokens' = tokens \union
       {k \in VisibleSlots : jobs[Visible(k)].status = "failed"
                             /\ jobs[k + 1].status = "failed"}
  /\ UNCHANGED <<request, jobs, runs, loop, plan, retries, retried, early, lost, overtaken,
                 stops>>

RetryRun(k) == [job |-> k + 1, owner |-> "retry", begun |-> FALSE]
Retrying(k) == \E run \in runs : run.owner = "retry" /\ run.job = k + 1

\* retry_failed_slot and schedule_slot_retry: the status of the request is not
\* looked at, and a token stays good.
Retry(k) ==
  /\ k \in tokens
  /\ retries < MaxRetries
  /\ ~Delivered(k)
  /\ jobs[k + 1].status = "failed"
  /\ jobs' = [jobs EXCEPT ![k + 1].status = "pending", ![k + 1].error = "none"]
  /\ runs' = IF Retrying(k) THEN runs ELSE runs \union {RetryRun(k)}
  /\ retries' = retries + 1
  /\ retried' = retried \union {k}
  /\ early' = (early \/ status = "processing")
  /\ UNCHANGED <<request, loop, plan, tokens, lost, overtaken, stops>>

\* The process stops; the rows stay as they are, retries are not resumed.
Crash ==
  /\ crashes < MaxCrashes
  /\ crashes' = crashes + 1
  /\ runs' = {}
  /\ loop' = "off"
  /\ plan' = NoPlan
  /\ UNCHANGED <<request, jobs, retrying, lost, overtaken, escapes>>

-----------------------------------------------------------------------------

LoopStep ==
  \/ Schedule \/ Recover \/ Pick \/ GatherDone
  \/ Count \/ Finish \/ Replenish \/ RuntimeUnavailable

RunStep == Begin \/ BeginFails \/ Succeed \/ SucceedRefused \/ Fail

Next ==
  \/ LoopStep
  \/ RunStep
  \/ Poll
  \/ \E k \in Slots : Retry(k)
  \/ LoopEscapes
  \/ RunEscapes
  \/ Crash

Spec == Init /\ [][Next]_vars

\* The loop and the runs are not held up for ever (provider waits time out),
\* and the customer's page polls a processing request.
FairSpec == Spec /\ WF_vars(LoopStep) /\ WF_vars(RunStep)

-----------------------------------------------------------------------------
(* Properties.                                                             *)

\* The types of every variable.
TypeOK ==
  /\ status \in {"processing", "succeeded", "failed"}
  /\ full \in BOOLEAN
  /\ jobs \in Seq(Job)
  /\ runs \subseteq [job : Ordinals, owner : {"loop", "retry", "orphan"}, begun : BOOLEAN]
  /\ loop \in {"off", "recover", "pick", "gather", "count", "finish", "replenish"}
  /\ plan \in [status : {"processing", "succeeded", "failed"}, full : BOOLEAN,
               slots : Seq(Slots)]
  /\ tokens \subseteq Slots
  /\ retries \in 0..MaxRetries
  /\ retried \subseteq Slots
  /\ early \in BOOLEAN
  /\ lost \in BOOLEAN
  /\ overtaken \in BOOLEAN
  /\ crashes \in 0..MaxCrashes
  /\ escapes \in 0..MaxEscapes

\* However often the loop is restarted or a slot is retried, a request never
\* owns more candidates than its target and the replenishment budget allow.
WithinBudget == Len(jobs) <= Target + Budget

\* What the code does not guard against has not happened: a slot retried while
\* its request was processing, and a loop started over the orphans of another.
Calm == ~early /\ ~overtaken

\* In a calm request no slot is ever paid for twice: the two replenishments
\* never go to a slot that already has a logo.
OneSuccessPerSlot ==
  Calm => \A j, i \in With("succeeded") : jobs[j].slot = jobs[i].slot => j = i

\* A calm request that ended as a full success (target_count successes, no
\* failure summary) shows a logo in every slot.
FullSuccessFillsSlots ==
  Calm /\ status = "succeeded" /\ full => \A k \in VisibleSlots : Delivered(k)

\* A request ends as succeeded only with a logo paid for.  One that ends as
\* failed was calm, its policy was there, and still it has a logo: then the slot
\* was retried afterwards, for a token stays good and nobody looks at the status.
EndMatchesLogos ==
  /\ status = "succeeded" => \E j \in Ordinals : jobs[j].logo
  /\ status = "failed" /\ Calm /\ ~lost =>
       \A j \in Ordinals : jobs[j].logo => jobs[j].slot \in retried

\* A calm request that ends leaves no candidate behind that still runs or waits:
\* what runs afterwards are retries, and what waits are the slots retried.
NothingLeftRunning ==
  Calm /\ status # "processing" =>
    /\ \A run \in runs : run.owner = "retry"
    /\ \A j \in With("pending") \union With("running") : jobs[j].slot \in retried

\* _visible_slot_jobs, as it is meant: the first row of the slot that has a
\* logo, else the newest row.
VisibleIsFirstLogoOrNewest ==
  \A k \in VisibleSlots :
    LET own == {j \in Ordinals : jobs[j].slot = k}
        logos == own \intersect With("succeeded")
    IN  /\ Visible(k) \in own
        /\ logos # {} => Visible(k) \in logos /\ \A j \in logos : Visible(k) <= j
        /\ logos = {} => \A j \in own : j <= Visible(k)

\* A logo once shown in a slot of a calm request stays in the slot, and stays the
\* same one, while replenishments, restarts and later retries go on around it.
ShownLogoStays ==
  [][Calm' => \A k \in VisibleSlots : Delivered(k) =>
       Visible(k)' = Visible(k) /\ Delivered(k)']_vars

\* A calm processing request is brought to an end, through every restart and
\* every exception that ends a loop.
Ends == status = "processing" ~> status # "processing" \/ ~Calm

\* "Persist work first, then execute it through an app-owned recoverable worker":
\* a request ends, whenever a slot of it was retried.
EndsAnyway == status = "processing" ~> status # "processing"

=============================================================================
