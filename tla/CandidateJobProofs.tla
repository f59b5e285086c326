------------------------- MODULE CandidateJobProofs -------------------------
(***************************************************************************)
(* Theorems of CandidateJob, for any number of coroutines, retries,        *)
(* restarts, faults and provider tasks.                                    *)
(***************************************************************************)
EXTENDS CandidateJob, TLAPS

\* A retry that has loaded the row loaded a failed one, and has its turn left.
RetryTurn ==
  retry.pc = "loaded" => retry.row.status = "failed" /\ resets < MaxResets

TypeInv == TypeOK /\ RetryTurn

-----------------------------------------------------------------------------
(* Operators.                                                              *)

\* A flush of two rows over a stored row is a row, field by field.
LEMMA FlushRow ==
  ASSUME NEW a \in Row, NEW b \in Row, job \in Row
  PROVE  /\ Flush(a, b) \in Row
         /\ Flush(a, b).status = Column(a.status, b.status, job.status)
         /\ Flush(a, b).task = Column(a.task, b.task, job.task)
         /\ Flush(a, b).sub = Column(a.sub, b.sub, job.sub)
         /\ Flush(a, b).result = Column(a.result, b.result, job.result)
BY DEF Flush, Row, Column

\* The constants of the row and of a coroutine have their types.
LEMMA FreshRow == Fresh \in Row
BY BoundsAssumption DEF Fresh, Row, NoTask

\* ... and an idle coroutine holds a fresh row.
LEMMA OffRun == Off \in Run
BY FreshRow, BoundsAssumption DEF Off, Run, Pcs, Attempts, NoTask

\* A coroutine moved on is a coroutine, with the fields it was moved to.
LEMMA MovedRun ==
  ASSUME NEW c \in Run, NEW pc \in Pcs, NEW try \in Attempts,
         NEW task \in 0..MaxTasks, NEW row \in Row
  PROVE  /\ Moved(c, pc, try, task, row) \in Run
         /\ Moved(c, pc, try, task, row).pc = pc
         /\ Moved(c, pc, try, task, row).owner = c.owner
         /\ Moved(c, pc, try, task, row).task = task
         /\ Moved(c, pc, try, task, row).row = row
BY DEF Run, Moved

\* What a coroutine becomes when its step raises.
LEMMA RaisedRun ==
  ASSUME TypeOK, NEW r \in Runs, NEW fatal \in BOOLEAN
  PROVE  /\ Raised(r, fatal) \in Run
         /\ Raised(r, fatal).pc \in {"fail", "input"}
         /\ Raised(r, fatal).owner = runs[r].owner
<1>1. runs[r] \in Run /\ runs[r].try \in Attempts
  BY DEF TypeOK, Run
<1>2. Fresh \in Row /\ NoTask \in 0..MaxTasks
  BY FreshRow, BoundsAssumption DEF NoTask
<1>3. 2 \in Attempts /\ "fail" \in Pcs /\ "input" \in Pcs
  BY DEF Attempts, Pcs
<1>4. QED
  BY <1>1, <1>2, <1>3, MovedRun DEF Raised

-----------------------------------------------------------------------------
(* Types.                                                                  *)

\* A step of a run that writes nothing but the run keeps the types, ...
LEMMA LocalStepType ==
  ASSUME TypeInv, NEW r \in Runs, NEW c \in Run, Set(r, c), LocalStep
  PROVE  TypeInv'
BY DEF TypeInv, TypeOK, RetryTurn, Set, LocalStep, db, bounds

\* ... and so does one that also commits a row.
LEMMA RowStepType ==
  ASSUME TypeInv, NEW r \in Runs, NEW c \in Run, Set(r, c), RowStep,
         NEW a \in Row, NEW b \in Row, job' = Flush(a, b)
  PROVE  TypeInv'
<1>1. job' \in Row
  BY FlushRow DEF TypeInv, TypeOK
<1>2. QED
  BY <1>1 DEF TypeInv, TypeOK, RetryTurn, Set, RowStep, bounds

\* Moving a run keeps it a run; the row and the task are those it may hold.
LEMMA MovedTypes ==
  ASSUME TypeInv, NEW r \in Runs, NEW pc \in Pcs
  PROVE  /\ runs[r] \in Run
         /\ runs[r].row \in Row
         /\ runs[r].task \in 0..MaxTasks
         /\ runs[r].row.task \in 0..MaxTasks
         /\ \A task \in 0..MaxTasks, row \in Row :
              Moved(runs[r], pc, runs[r].try, task, row) \in Run
<1>1. runs[r] \in Run
  BY DEF TypeInv, TypeOK
<1>2. /\ runs[r].row \in Row
      /\ runs[r].task \in 0..MaxTasks
      /\ runs[r].try \in Attempts
  BY <1>1 DEF Run
<1>3. runs[r].row.task \in 0..MaxTasks
  BY <1>2 DEF Row
<1>4. QED
  BY <1>1, <1>2, <1>3, MovedRun

\* Every step of a run keeps the types.
LEMMA RunStepType ==
  ASSUME TypeInv, NEW r \in Runs, RunStep(r)
  PROVE  TypeInv'
<1> USE FreshRow, OffRun
<1> Pcs = {"off", "check", "input", "generate", "claim", "submit", "clear",
           "store", "wait", "save", "fail", "close",
           "input_commit", "claim_commit", "clear_commit", "store_commit",
           "save_commit", "fail_commit"}
  BY DEF Pcs, CommitPcs
<1> TypeOK /\ job \in Row /\ runs[r] \in Run
  BY DEF TypeInv, TypeOK
<1>raise. \A fatal \in BOOLEAN : Raised(r, fatal) \in Run
  BY RaisedRun
<1>goto. \A pc \in Pcs : Moved(runs[r], pc, runs[r].try, runs[r].task, Fresh) \in Run
  BY MovedTypes
<1>load. \A pc \in Pcs : Moved(runs[r], pc, runs[r].try, runs[r].task, job) \in Run
  BY MovedTypes
<1>1. CASE Check(r)
  BY <1>1, <1>goto, LocalStepType DEF Check, Goto, GotoWith
<1>2. CASE Input(r)
  BY <1>2, <1>load, <1>raise, LocalStepType DEF Input, Load
<1>3. CASE InputCommit(r)
  <2>1. [runs[r].row EXCEPT !.status = "running"] \in Row
    BY MovedTypes DEF Row
  <2>2. Moved(runs[r], "generate", runs[r].try, runs[r].row.task, Fresh) \in Run
    BY MovedTypes
  <2>3. QED
    BY <1>3, <2>1, <2>2, MovedTypes, RowStepType DEF InputCommit, GotoWith
<1>4. CASE Generate(r)
  BY <1>4, <1>goto, LocalStepType DEF Generate, Goto, GotoWith
<1>5. CASE Call(r)
  <2>1. \E c \in Run : Set(r, c)
    BY <1>5, <1>goto, <1>raise DEF Call, Goto, GotoWith, Raise
  <2>2. QED
    BY <1>5, <2>1, BoundsAssumption
       DEF Call, TypeInv, TypeOK, RetryTurn, Set, db, bounds
<1>6. CASE Claim(r)
  BY <1>6, <1>goto, <1>load, <1>raise, LocalStepType DEF Claim, Goto, GotoWith, Load
<1>7. CASE ClaimCommit(r)
  <2>1. [runs[r].row EXCEPT !.sub = "submitting"] \in Row
    BY MovedTypes DEF Row
  <2>2. QED
    BY <1>7, <2>1, <1>goto, MovedTypes, RowStepType DEF ClaimCommit, Goto, GotoWith
<1>8. CASE SubmitAccepted(r)
  <2>1. made' \in 0..MaxTasks
    BY <1>8, BoundsAssumption DEF SubmitAccepted, TypeInv, TypeOK
  <2>2. Moved(runs[r], "store", runs[r].try, made', Fresh) \in Run
    BY <2>1, MovedTypes
  <2>3. QED
    BY <1>8, <2>1, <2>2
       DEF SubmitAccepted, GotoWith, TypeInv, TypeOK, RetryTurn, Set, db, bounds
<1>9. CASE SubmitUncertain(r)
  <2>1. made' \in 0..MaxTasks
    BY <1>9, BoundsAssumption DEF SubmitUncertain, TypeInv, TypeOK
  <2>2. QED
    BY <1>9, <2>1, <1>raise
       DEF SubmitUncertain, TypeInv, TypeOK, RetryTurn, Set, db, bounds
<1>10. CASE SubmitRejected(r)
  BY <1>10, <1>goto, LocalStepType DEF SubmitRejected, Goto, GotoWith
<1>22. CASE SubmitGarbled(r)
  BY <1>22, <1>goto, BoundsAssumption
     DEF SubmitGarbled, Goto, GotoWith, TypeInv, TypeOK, RetryTurn, Set, db
<1>11. CASE Clear(r)
  BY <1>11, <1>load, <1>raise, LocalStepType DEF Clear, Load, Raise
<1>12. CASE ClearCommit(r)
  <2>1. [runs[r].row EXCEPT !.sub = "none"] \in Row
    BY MovedTypes DEF Row
  <2>2. QED
    BY <1>12, <2>1, <1>raise, MovedTypes, RowStepType DEF ClearCommit, Raise
<1>13. CASE Store(r)
  BY <1>13, <1>load, <1>raise, LocalStepType DEF Store, Load
<1>14. CASE StoreCommit(r)
  <2>1. [runs[r].row EXCEPT !.task = runs[r].task, !.sub = "submitted"] \in Row
    BY MovedTypes DEF Row
  <2>2. QED
    BY <1>14, <2>1, <1>goto, MovedTypes, RowStepType DEF StoreCommit, Goto, GotoWith
<1>15. CASE Wait(r)
  BY <1>15, <1>goto, <1>raise, LocalStepType DEF Wait, Goto, GotoWith, Raise
<1>16. CASE Save(r)
  BY <1>16, <1>goto, <1>load, LocalStepType DEF Save, Goto, GotoWith, Load
<1>17. CASE SaveCommit(r)
  <2>1. job' \in Row
    BY <1>17 DEF SaveCommit, Row
  <2>2. QED
    BY <1>17, <2>1, <1>goto
       DEF SaveCommit, Goto, GotoWith, TypeInv, TypeOK, RetryTurn, Set, bounds
<1>18. CASE Fail(r)
  BY <1>18, <1>goto, <1>load, LocalStepType DEF Fail, Goto, GotoWith, Load
<1>19. CASE FailCommit(r)
  <2>1. [runs[r].row EXCEPT !.status = "failed"] \in Row
    BY MovedTypes DEF Row
  <2>2. QED
    BY <1>19, <2>1, <1>goto, MovedTypes, RowStepType DEF FailCommit, Goto, GotoWith
<1>20. CASE Close(r)
  BY <1>20, LocalStepType DEF Close
<1>21. QED
  BY <1>1, <1>2, <1>3, <1>4, <1>5, <1>6, <1>7, <1>8, <1>9, <1>10, <1>11, <1>12,
     <1>13, <1>14, <1>15, <1>16, <1>17, <1>18, <1>19, <1>20, <1>22 DEF RunStep

\* What becomes of the runs when the loop, one of them, or the process dies.
LEMMA EndRunType ==
  ASSUME TypeInv, NEW r \in Runs
  PROVE  /\ Orphaned \in [Runs -> Run]
         /\ EndRun(r) => /\ runs' \in [Runs -> Run]
                         /\ loop' \in {loop, "off"}
<1>1. ASSUME NEW q \in Runs PROVE [runs[q] EXCEPT !.owner = "orphan"] \in Run
  BY DEF TypeInv, TypeOK, Run
<1>2. Orphaned \in [Runs -> Run]
  BY <1>1 DEF Orphaned, TypeInv, TypeOK
<1>3. QED
  BY <1>2, OffRun DEF EndRun, Set, TypeInv, TypeOK

\* Every step of the system keeps the types.
THEOREM TypeInvInductive == TypeInv /\ [Next]_vars => TypeInv'
<1> SUFFICES ASSUME TypeInv, [Next]_vars PROVE TypeInv'
  OBVIOUS
<1> USE BoundsAssumption, FreshRow, OffRun
<1>1. CASE LoopStep
  <2>1. RecoverCommit => job' \in Row
    BY DEF RecoverCommit, TypeInv, TypeOK, Row
  <2>2. Start("loop", "input") \in Run
    BY DEF Start, Run, Pcs
  <2>3. QED
    BY <1>1, <2>1, <2>2 DEF LoopStep, Schedule, RecoverRead, RecoverCommit, PickThisRow,
      PickOthers, GatherDone, GoRound, Finish, TypeInv, TypeOK, RetryTurn, db, bounds
<1>2. CASE \E r \in Runs : RunStep(r)
  BY <1>2, RunStepType
<1>3. CASE \E r \in Runs : RunDies(r) \/ SaveRefused(r)
  BY <1>3, EndRunType DEF RunDies, SaveRefused, TypeInv, TypeOK, RetryTurn, db, bounds
<1>4. CASE RetryStep
  <2>1. CASE RetryRead
    BY <2>1 DEF RetryRead, TypeInv, TypeOK, RetryTurn, db, bounds
  <2>2. CASE RetryCommit
    <3>1. job' \in Row
      BY <2>2, FlushRow DEF RetryCommit, TypeInv, TypeOK
    <3>2. QED
      BY <2>2, <3>1 DEF RetryCommit, TypeInv, TypeOK, RetryTurn
  <2>3. CASE RetryReplay
    BY <2>3 DEF RetryReplay, TypeInv, TypeOK, RetryTurn, db, bounds
  <2>4. CASE RetrySchedule
    <3>1. Start("retry", "check") \in Run
      BY DEF Start, Run, Pcs
    <3>2. QED
      BY <2>4, <3>1 DEF RetrySchedule, RetryIdle, TypeInv, TypeOK, RetryTurn, db, bounds
  <2>5. QED
    BY <1>4, <2>1, <2>2, <2>3, <2>4 DEF RetryStep
<1>5. CASE LoopDies
  BY <1>5, EndRunType, RunsAssumption DEF LoopDies, TypeInv, TypeOK, RetryTurn, db, bounds
<1>6. CASE Crash
  BY <1>6 DEF Crash, RetryIdle, TypeInv, TypeOK, RetryTurn, db, bounds
<1>7. CASE UNCHANGED vars
  BY <1>7 DEF vars, TypeInv, TypeOK, RetryTurn
<1>8. QED
  BY <1>1, <1>2, <1>3, <1>4, <1>5, <1>6, <1>7 DEF Next

\* Every variable keeps its type, and an accepted retry its turn.
THEOREM TypeCorrect == Spec => [](TypeInv /\ TypeOK)
<1>1. Init => TypeInv
  <2> SUFFICES ASSUME Init PROVE TypeInv
    OBVIOUS
  <2>1. RetryIdle \in [pc : {"idle", "loaded", "schedule"}, row : Row]
    BY FreshRow DEF RetryIdle
  <2>2. retry.pc = "idle"
    BY DEF Init, RetryIdle
  <2>3. runs \in [Runs -> Run]
    BY OffRun DEF Init
  <2>4. /\ job \in Row
        /\ retry \in [pc : {"idle", "loaded", "schedule"}, row : Row]
    BY <2>1, FreshRow DEF Init
  <2>5. /\ made \in 0..MaxTasks /\ garbled \in 0..MaxGarbled /\ resets \in 0..MaxResets
        /\ crashes \in 0..MaxCrashes /\ faults \in 0..MaxFaults
    BY BoundsAssumption DEF Init
  <2>6. TypeOK
    BY <2>3, <2>4, <2>5 DEF Init, TypeOK
  <2>7. QED
    BY <2>2, <2>6 DEF TypeInv, RetryTurn
<1>2. TypeInv => TypeOK
  BY DEF TypeInv
<1>3. QED
  BY <1>1, <1>2, TypeInvInductive, PTL DEF Spec

-----------------------------------------------------------------------------
(* A delivered row has something behind it.                                *)

\* A commit that does not write "succeeded" and leaves the result alone
\* delivers nothing and takes nothing back.
LEMMA PlainCommit ==
  ASSUME TypeInv, SucceededHasLogo, logo' = logo,
         NEW a \in Row, NEW b \in Row, job' = Flush(a, b),
         b.status # "succeeded" \/ b.status = a.status,
         b.result = a.result
  PROVE  SucceededHasLogo'
<1>1. /\ job'.status = Column(a.status, b.status, job.status)
      /\ job'.result = Column(a.result, b.result, job.result)
  BY FlushRow DEF TypeInv, TypeOK
<1>2. job'.result = job.result
  BY <1>1 DEF Column
<1>3. job'.status = "succeeded" => job.status = "succeeded"
  BY <1>1 DEF Column
<1>4. QED
  BY <1>2, <1>3 DEF SucceededHasLogo

\* Steps that leave the row and the versions alone.
LEMMA RowUntouched ==
  ASSUME SucceededHasLogo, UNCHANGED <<job, logo>>
  PROVE  SucceededHasLogo'
BY DEF SucceededHasLogo

\* Every step of a run keeps what a delivered row has.
LEMMA RunStepDelivers ==
  ASSUME TypeInv, SucceededHasLogo, NEW r \in Runs, RunStep(r)
  PROVE  SucceededHasLogo'
<1> DEFINE row == runs[r].row
<1> runs[r] \in Run /\ row \in Row
  BY MovedTypes DEF Pcs
<1>1. CASE InputCommit(r)
  <2>1. [row EXCEPT !.status = "running"] \in Row
    BY DEF Row
  <2>2. /\ [row EXCEPT !.status = "running"].status = "running"
        /\ [row EXCEPT !.status = "running"].result = row.result
    BY DEF Row
  <2>3. QED
    BY <1>1, <2>1, <2>2, PlainCommit DEF InputCommit, RowStep
<1>2. CASE ClaimCommit(r)
  <2>1. [row EXCEPT !.sub = "submitting"] \in Row
    BY DEF Row
  <2>2. /\ [row EXCEPT !.sub = "submitting"].status = row.status
        /\ [row EXCEPT !.sub = "submitting"].result = row.result
    BY DEF Row
  <2>3. QED
    BY <1>2, <2>1, <2>2, PlainCommit DEF ClaimCommit, RowStep
<1>3. CASE ClearCommit(r)
  <2>1. [row EXCEPT !.sub = "none"] \in Row
    BY DEF Row
  <2>2. /\ [row EXCEPT !.sub = "none"].status = row.status
        /\ [row EXCEPT !.sub = "none"].result = row.result
    BY DEF Row
  <2>3. QED
    BY <1>3, <2>1, <2>2, PlainCommit DEF ClearCommit, RowStep
<1>4. CASE StoreCommit(r)
  <2> DEFINE stored == [row EXCEPT !.task = runs[r].task, !.sub = "submitted"]
  <2>1. stored \in Row
    BY MovedTypes DEF Row, Pcs
  <2>2. stored.status = row.status /\ stored.result = row.result
    BY DEF Row
  <2>3. QED
    BY <1>4, <2>1, <2>2, PlainCommit DEF StoreCommit, RowStep
<1>5. CASE FailCommit(r)
  <2>1. [row EXCEPT !.status = "failed"] \in Row
    BY DEF Row
  <2>2. /\ [row EXCEPT !.status = "failed"].status = "failed"
        /\ [row EXCEPT !.status = "failed"].result = row.result
    BY DEF Row
  <2>3. QED
    BY <1>5, <2>1, <2>2, PlainCommit DEF FailCommit, RowStep
<1>6. CASE SaveCommit(r)
  BY <1>6 DEF SaveCommit, SucceededHasLogo, TypeInv, TypeOK, Row
<1>7. CASE UNCHANGED <<job, logo>>
  BY <1>7, RowUntouched
<1>8. QED
  BY <1>1, <1>2, <1>3, <1>4, <1>5, <1>6, <1>7
     DEF RunStep, Check, Input, Generate, Call, Claim, SubmitAccepted, SubmitUncertain,
         SubmitRejected, SubmitGarbled, Clear, Store, Wait, Save, Fail, Close, LocalStep, db

\* Whatever interleaves, a row that says "succeeded" has a logo version and a
\* result asset.
THEOREM DeliveredIsThere == Spec => []SucceededHasLogo
<1>1. Init => SucceededHasLogo
  BY DEF Init, Fresh, SucceededHasLogo
<1>2. TypeInv /\ SucceededHasLogo /\ [Next]_vars => SucceededHasLogo'
  <2> SUFFICES ASSUME TypeInv, SucceededHasLogo, [Next]_vars PROVE SucceededHasLogo'
    OBVIOUS
  <2>1. CASE \E r \in Runs : RunStep(r)
    BY <2>1, RunStepDelivers
  <2>2. CASE RecoverCommit
    BY <2>2 DEF RecoverCommit, SucceededHasLogo, TypeInv, TypeOK, Row
  <2>3. CASE RetryCommit
    <3>1. retry.row.status = "failed" /\ retry.row \in Row
      BY <2>3 DEF RetryCommit, TypeInv, TypeOK, RetryTurn
    <3>2. job'.status = Column("failed", "pending", job.status)
      BY <2>3, <3>1, FlushRow, FreshRow DEF RetryCommit, TypeInv, TypeOK, Fresh
    <3>3. QED
      BY <3>2 DEF Column, SucceededHasLogo
  <2>4. CASE UNCHANGED <<job, logo>>
    BY <2>4, RowUntouched
  <2>5. QED
    BY <2>1, <2>2, <2>3, <2>4 DEF Next, vars, LoopStep, RetryStep, Schedule, RecoverRead,
       PickThisRow, PickOthers, GatherDone, GoRound, Finish, RetryRead, RetryReplay,
       RetrySchedule, LoopDies, RunDies, SaveRefused, Crash, db
<1>3. QED
  BY <1>1, <1>2, TypeCorrect, PTL DEF Spec

-----------------------------------------------------------------------------
(* Calm runs.                                                              *)

Facts ==
  /\ OneRun
  /\ Ownership
  /\ NothingStale
  /\ logo <=> job.status = "succeeded"
  /\ Kie => Charges

\* What Facts says of one run, a row and a number of charges.
RunFacts(c, row, count) ==
  /\ c.pc \in Undecided => row.status \in {"pending", "running"}
  /\ c.pc \in CommitPcs => c.row = row
  /\ Kie =>
       /\ c.pc \in {"claim_commit", "submit", "clear", "clear_commit"} => count <= resets
       /\ c.pc \in {"submit", "clear", "clear_commit"} => row.sub = "submitting"
       /\ c.pc \in {"store", "store_commit"} => c.task # NoTask

\* ... and of the row and the charges themselves.
RowFacts(row, count) ==
  Kie => /\ count <= 1 + resets
         /\ row.sub = "none" => count <= resets
         /\ row.sub = "submitted" => row.task # NoTask

\* The facts of a calm run, coroutine by coroutine.
LEMMA FactsOfRun ==
  ASSUME Facts, NEW r \in Runs
  PROVE  RunFacts(runs[r], job, made) /\ RowFacts(job, made)
BY DEF Facts, RunFacts, RowFacts, NothingStale, Charges

\* A step of the one active run keeps the facts if its new state does.
LEMMA StepCalm ==
  ASSUME TypeInv, Facts, NEW r \in Runs, Active(r), NEW c \in Run, Set(r, c),
         c.owner = runs[r].owner \/ c.pc = "off",
         UNCHANGED <<loop, open, retry, early, resets>>,
         retry.pc = "loaded" => job' = job,
         logo' <=> job'.status = "succeeded",
         RunFacts(c, job', made'),
         RowFacts(job', made')
  PROVE  Facts'
<1>1. /\ runs'[r] = c
      /\ \A q \in Runs : q # r => runs'[q] = runs[q] /\ ~Active(q)
  BY DEF Set, TypeInv, TypeOK, Facts, OneRun
<1>2. OneRun'
  BY <1>1 DEF OneRun, Active
<1>3. Ownership'
  BY <1>1 DEF Ownership, Facts, Active
<1>4. loop # "recover"
  BY DEF Facts, Ownership
<1>5. NothingStale'
  BY <1>1, <1>4 DEF NothingStale, RunFacts, Facts, Active, Undecided, CommitPcs
<1>6. Kie => Charges'
  BY <1>1 DEF Charges, RunFacts, RowFacts, Active
<1>7. QED
  BY <1>2, <1>3, <1>5, <1>6 DEF Facts

\* The same for a step that writes nothing but the run.
LEMMA LocalStepCalm ==
  ASSUME TypeInv, Facts, NEW r \in Runs, Active(r), NEW c \in Run, Set(r, c), LocalStep,
         c.owner = runs[r].owner \/ c.pc = "off",
         RunFacts(c, job, made)
  PROVE  Facts'
<1>1. UNCHANGED <<job, made, logo, loop, open, retry, early, resets>>
  BY DEF LocalStep, db, bounds
<1>2. RunFacts(c, job', made') /\ RowFacts(job', made')
  BY <1>1, FactsOfRun
<1>3. logo' <=> job'.status = "succeeded"
  BY <1>1 DEF Facts
<1>4. QED
  BY <1>1, <1>2, <1>3, StepCalm

\* A commit of the stored row writes what the block wanted.
LEMMA FlushStored ==
  ASSUME job \in Row, NEW b \in Row
  PROVE  Flush(job, b) = b
BY DEF Flush, Column, Row

\* Every step of a run keeps the facts of a calm run.
LEMMA RunStepCalm ==
  ASSUME TypeInv, Facts, NEW r \in Runs, RunStep(r)
  PROVE  Facts'
<1> DEFINE run == runs[r]
           at(pc, task, row) == Moved(run, pc, run.try, task, row)
<1> USE FreshRow, OffRun
<1>pcs. /\ Pcs = {"off", "check", "input", "generate", "claim", "submit", "clear",
                  "store", "wait", "save", "fail", "close",
                  "input_commit", "claim_commit", "clear_commit", "store_commit",
                  "save_commit", "fail_commit"}
        /\ Undecided = Pcs \ {"off", "check", "close"}
        /\ CommitPcs = {"input_commit", "claim_commit", "clear_commit",
                        "store_commit", "save_commit", "fail_commit"}
  BY DEF Pcs, Undecided, CommitPcs
<1>run. TypeOK /\ job \in Row /\ run \in Run /\ run.task \in 0..MaxTasks
  BY MovedTypes, <1>pcs DEF TypeInv, TypeOK
<1>facts. RunFacts(run, job, made) /\ RowFacts(job, made)
  BY FactsOfRun
<1>raise. \A fatal \in BOOLEAN :
            /\ Raised(r, fatal) \in Run
            /\ Raised(r, fatal).owner = run.owner
            /\ Raised(r, fatal).pc \in {"fail", "input"}
  BY RaisedRun, <1>run
<1>at. \A pc \in Pcs, task \in 0..MaxTasks, row \in Row :
         /\ at(pc, task, row) \in Run
         /\ at(pc, task, row).pc = pc
         /\ at(pc, task, row).owner = run.owner
         /\ at(pc, task, row).task = task
         /\ at(pc, task, row).row = row
  BY <1>run, MovedRun DEF Run
<1>off. Off.pc = "off"
  BY DEF Off
<1> HIDE DEF at
<1>active. Active(r)
  BY DEF RunStep, Check, Input, InputCommit, Generate, Call, Claim, ClaimCommit,
         SubmitAccepted, SubmitUncertain, SubmitRejected, SubmitGarbled, Clear,
         ClearCommit, Store,
         StoreCommit, Wait, Save, SaveCommit, Fail, FailCommit, Close, At, Active
<1>open. run.pc \in Undecided => job.status \in {"pending", "running"}
  BY <1>facts DEF RunFacts
\* The three ways a step that writes nothing ends.
<1>goes. ASSUME LocalStep, NEW pc \in Pcs \ CommitPcs, Set(r, at(pc, run.task, Fresh)),
                pc \in Undecided => job.status \in {"pending", "running"},
                pc \notin {"submit", "store"},
                Kie /\ pc = "clear" => made <= resets /\ job.sub = "submitting"
         PROVE  Facts'
  <2>1. RunFacts(at(pc, run.task, Fresh), job, made)
    BY <1>goes, <1>pcs, <1>at, <1>run DEF RunFacts
  <2>2. QED
    BY <2>1, <1>goes, <1>active, <1>at, <1>run, LocalStepCalm
<1>loads. ASSUME LocalStep, NEW pc \in CommitPcs, Set(r, at(pc, run.task, job)),
                 run.pc \in Undecided,
                 Kie /\ pc \in {"claim_commit", "clear_commit"} => made <= resets,
                 Kie /\ pc = "clear_commit" => job.sub = "submitting",
                 Kie /\ pc = "store_commit" => run.task # NoTask
          PROVE  Facts'
  <2>1. RunFacts(at(pc, run.task, job), job, made)
    BY <1>loads, <1>pcs, <1>open, <1>at, <1>run DEF RunFacts
  <2>2. at(pc, run.task, job) \in Run /\ at(pc, run.task, job).owner = run.owner
    BY <1>at, <1>run, <1>pcs
  <2>3. QED
    BY <2>1, <2>2, <1>loads, <1>active, LocalStepCalm
<1>raises. ASSUME LocalStep, NEW fatal \in BOOLEAN, Set(r, Raised(r, fatal)),
                  run.pc \in Undecided
           PROVE  Facts'
  <2>1. RunFacts(Raised(r, fatal), job, made)
    BY <1>raises, <1>pcs, <1>open, <1>raise DEF RunFacts
  <2>2. QED
    BY <2>1, <1>raises, <1>active, <1>raise, LocalStepCalm
<1>ends. ASSUME LocalStep, Set(r, Off)
         PROVE  Facts'
  <2>1. RunFacts(Off, job, made)
    BY <1>pcs, <1>off DEF RunFacts
  <2>2. QED
    BY <2>1, <1>ends, <1>active, <1>off, LocalStepCalm
\* An undecided run of a calm row excludes a loaded retry and a logo, and a
\* commit then writes what its block wanted.
<1>alone. run.pc \in Undecided => retry.pc # "loaded" /\ ~logo
  BY <1>open DEF Facts, NothingStale
<1>stored. ASSUME run.pc \in CommitPcs, NEW b \in Row, job' = Flush(run.row, b)
           PROVE  job' = b
  BY <1>stored, <1>facts, <1>run, FlushStored DEF RunFacts
<1>commits. ASSUME run.pc \in Undecided, NEW b \in Row, job' = b, RowStep,
                   NEW c \in Run, c.owner = run.owner, Set(r, c),
                   b.status # "succeeded", RunFacts(c, b, made), RowFacts(b, made)
            PROVE  Facts'
  <2>1. UNCHANGED <<logo, open, made, loop, retry, early, resets>>
    BY <1>commits DEF RowStep, bounds
  <2>2. RunFacts(c, job', made') /\ RowFacts(job', made')
    BY <2>1, <1>commits
  <2>3. retry.pc # "loaded" /\ (logo' <=> job'.status = "succeeded")
    BY <2>1, <1>commits, <1>alone
  <2>4. QED
    BY <2>1, <2>2, <2>3, <1>commits, <1>active, StepCalm
<1>1. CASE Check(r)
  BY <1>1, <1>goes, <1>ends, <1>pcs DEF Check, Goto, GotoWith, at
<1>2. CASE Input(r)
  BY <1>2, <1>loads, <1>raises, <1>pcs DEF Input, At, Load, at
<1>3. CASE InputCommit(r)
  <2> DEFINE b == [run.row EXCEPT !.status = "running"]
             c == at("generate", run.row.task, Fresh)
  <2>1. run.row = job
    BY <1>3, <1>facts, <1>pcs DEF InputCommit, At, RunFacts
  <2>2. /\ b \in Row
        /\ b.status = "running" /\ b.sub = job.sub /\ b.task = job.task
        /\ run.row.task \in 0..MaxTasks
    BY <2>1, <1>run DEF Row
  <2>3. job' = b
    BY <1>3, <2>2, <1>stored, <1>pcs DEF InputCommit, At
  <2>4. c \in Run /\ c.owner = run.owner /\ c.pc = "generate"
    BY <2>2, <1>at, <1>pcs
  <2>5. RunFacts(c, b, made) /\ RowFacts(b, made)
    BY <2>2, <2>4, <1>facts, <1>pcs DEF RunFacts, RowFacts
  <2>6. Set(r, c) /\ RowStep /\ run.pc \in Undecided
    BY <1>3, <1>pcs DEF InputCommit, At, GotoWith, at
  <2>7. QED
    BY <2>2, <2>3, <2>4, <2>5, <2>6, <1>commits
<1>4. CASE Generate(r)
  BY <1>4, <1>goes, <1>open, <1>pcs DEF Generate, At, Goto, GotoWith, at
\* A step that charges: the row stays, the run goes to c, the count to made'.
<1>charges. ASSUME run.pc \in Undecided, UNCHANGED <<db, loop, retry, bounds>>,
                   NEW c \in Run, c.owner = run.owner, Set(r, c),
                   RunFacts(c, job, made'), RowFacts(job, made')
            PROVE  Facts'
  <2>1. UNCHANGED <<job, logo, open, loop, retry, early, resets>>
    BY <1>charges DEF db, bounds
  <2>2. RunFacts(c, job', made') /\ RowFacts(job', made')
    BY <2>1, <1>charges
  <2>3. logo' <=> job'.status = "succeeded"
    BY <2>1 DEF Facts
  <2>4. QED
    BY <2>1, <2>2, <2>3, <1>charges, <1>active, StepCalm
<1>5. CASE Call(r)
  <2>1. RowFacts(job, made') /\ run.pc \in Undecided
    BY <1>5, <1>pcs DEF Call, At, RowFacts
  <2>2. PICK c \in Run : /\ Set(r, c) /\ c.owner = run.owner
                         /\ c.pc \in {"save", "fail", "input"}
    BY <1>5, <1>at, <1>run, <1>raise, <1>pcs DEF Call, Goto, GotoWith, Raise, at
  <2>3. RunFacts(c, job, made')
    BY <2>1, <2>2, <1>open, <1>pcs DEF RunFacts
  <2>4. QED
    BY <1>5, <2>1, <2>2, <2>3, <1>charges DEF Call
<1>6. CASE Claim(r)
  <2>1. Kie /\ job.task = NoTask /\ job.sub # "submitting" => made <= resets
    BY <1>facts, <1>run DEF RowFacts, Row
  <2>2. QED
    BY <1>6, <2>1, <1>goes, <1>loads, <1>raises, <1>open, <1>pcs
       DEF Claim, At, Goto, GotoWith, Load, at
<1>7. CASE ClaimCommit(r)
  <2> DEFINE b == [run.row EXCEPT !.sub = "submitting"]
             c == at("submit", run.task, Fresh)
  <2>1. run.row = job /\ run.pc = "claim_commit"
    BY <1>7, <1>facts, <1>pcs DEF ClaimCommit, At, RunFacts
  <2>2. b \in Row /\ b.status = job.status /\ b.sub = "submitting"
    BY <2>1, <1>run DEF Row
  <2>3. job' = b
    BY <1>7, <2>1, <2>2, <1>stored, <1>pcs DEF ClaimCommit
  <2>4. c \in Run /\ c.owner = run.owner /\ c.pc = "submit"
    BY <1>run, <1>at, <1>pcs
  <2>5. RunFacts(c, b, made) /\ RowFacts(b, made)
    BY <2>1, <2>2, <2>4, <1>facts, <1>pcs DEF RunFacts, RowFacts
  <2>6. Set(r, c) /\ RowStep /\ run.pc \in Undecided
    BY <1>7, <2>1, <1>pcs DEF ClaimCommit, Goto, GotoWith, at
  <2>7. b.status # "succeeded"
    BY <2>2, <2>6, <1>open
  <2>8. QED
    BY <2>2, <2>3, <2>4, <2>5, <2>6, <2>7, <1>commits
<1>8. CASE SubmitAccepted(r)
  <2> DEFINE c == at("store", made', Fresh)
  <2>1. made' \in 0..MaxTasks /\ made' = made + 1 /\ made \in Nat /\ resets \in Nat
    BY <1>8, <1>run, BoundsAssumption DEF SubmitAccepted, TypeOK
  <2>2. c \in Run /\ c.owner = run.owner /\ c.pc = "store" /\ c.task # NoTask
    BY <2>1, <1>at, <1>pcs DEF NoTask
  <2>3. run.pc = "submit" /\ run.pc \in Undecided
    BY <1>8, <1>pcs DEF SubmitAccepted, At
  <2>4. RunFacts(c, job, made')
    BY <2>2, <2>3, <1>open, <1>pcs DEF RunFacts
  <2>5. RowFacts(job, made')
    BY <2>1, <2>3, <1>facts DEF RunFacts, RowFacts
  <2>6. QED
    BY <1>8, <2>2, <2>3, <2>4, <2>5, <1>charges DEF SubmitAccepted, GotoWith, at
<1>9. CASE SubmitUncertain(r)
  <2> DEFINE c == Raised(r, TRUE)
  <2>1. made' \in {made, made + 1} /\ made \in Nat /\ resets \in Nat
    BY <1>9, <1>run, BoundsAssumption DEF SubmitUncertain, TypeOK
  <2>2. run.pc = "submit" /\ run.pc \in Undecided
    BY <1>9, <1>pcs DEF SubmitUncertain, At
  <2>3. RunFacts(c, job, made')
    BY <2>2, <1>raise, <1>open, <1>pcs DEF RunFacts
  <2>4. RowFacts(job, made')
    BY <2>1, <2>2, <1>facts DEF RunFacts, RowFacts
  <2>5. QED
    BY <1>9, <2>2, <2>3, <2>4, <1>raise, <1>charges DEF SubmitUncertain
<1>10. CASE SubmitRejected(r)
  BY <1>10, <1>goes, <1>open, <1>facts, <1>pcs
     DEF SubmitRejected, At, Goto, GotoWith, at, RunFacts
<1>22. CASE SubmitGarbled(r)
  <2> DEFINE c == at("clear", run.task, Fresh)
  <2>1. /\ run.pc = "submit" /\ Set(r, c)
        /\ UNCHANGED <<job, logo, made, open, loop, retry, early, resets>>
    BY <1>22 DEF SubmitGarbled, At, Goto, GotoWith, at, db
  <2>2. c \in Run /\ c.owner = run.owner /\ c.pc = "clear"
    BY <1>run, <1>at, <1>pcs
  <2>3. RunFacts(c, job', made') /\ RowFacts(job', made')
    BY <2>1, <2>2, <1>facts, <1>pcs DEF RunFacts
  <2>4. logo' <=> job'.status = "succeeded"
    BY <2>1 DEF Facts
  <2>5. QED
    BY <2>1, <2>2, <2>3, <2>4, <1>active, StepCalm
<1>11. CASE Clear(r)
  BY <1>11, <1>loads, <1>raises, <1>facts, <1>pcs DEF Clear, At, Load, Raise, at, RunFacts
<1>12. CASE ClearCommit(r)
  <2> DEFINE b == [run.row EXCEPT !.sub = "none"]
  <2>1. run.row = job /\ run.pc = "clear_commit"
    BY <1>12, <1>facts, <1>pcs DEF ClearCommit, At, RunFacts
  <2>2. b \in Row /\ b.status = job.status /\ b.sub = "none"
    BY <2>1, <1>run DEF Row
  <2>3. job' = b
    BY <1>12, <2>1, <2>2, <1>stored, <1>pcs DEF ClearCommit
  <2>4. PICK fatal \in BOOLEAN : Set(r, Raised(r, fatal))
    BY <1>12 DEF ClearCommit, Raise
  <2>5. RunFacts(Raised(r, fatal), b, made)
    BY <2>1, <2>2, <1>open, <1>raise, <1>pcs DEF RunFacts
  <2>6. RowFacts(b, made)
    BY <2>1, <2>2, <1>facts DEF RunFacts, RowFacts
  <2>7. RowStep /\ run.pc \in Undecided /\ b.status # "succeeded"
    BY <1>12, <2>1, <2>2, <1>open, <1>pcs DEF ClearCommit
  <2>8. QED
    BY <2>2, <2>3, <2>4, <2>5, <2>6, <2>7, <1>raise, <1>commits
<1>13. CASE Store(r)
  BY <1>13, <1>loads, <1>raises, <1>facts, <1>pcs DEF Store, At, Load, at, RunFacts
<1>14. CASE StoreCommit(r)
  <2> DEFINE b == [run.row EXCEPT !.task = run.task, !.sub = "submitted"]
             c == at("wait", run.task, Fresh)
  <2>1. run.row = job /\ run.pc = "store_commit"
    BY <1>14, <1>facts, <1>pcs DEF StoreCommit, At, RunFacts
  <2>2. b \in Row /\ b.status = job.status /\ b.sub = "submitted" /\ b.task = run.task
    BY <2>1, <1>run DEF Row
  <2>3. job' = b
    BY <1>14, <2>1, <2>2, <1>stored, <1>pcs DEF StoreCommit
  <2>4. c \in Run /\ c.owner = run.owner /\ c.pc = "wait"
    BY <1>run, <1>at, <1>pcs
  <2>5. RunFacts(c, b, made) /\ RowFacts(b, made)
    BY <2>1, <2>2, <2>4, <1>facts, <1>pcs DEF RunFacts, RowFacts
  <2>6. Set(r, c) /\ RowStep /\ run.pc \in Undecided
    BY <1>14, <2>1, <1>pcs DEF StoreCommit, Goto, GotoWith, at
  <2>7. b.status # "succeeded"
    BY <2>2, <2>6, <1>open
  <2>8. QED
    BY <2>2, <2>3, <2>4, <2>5, <2>6, <2>7, <1>commits
<1>15. CASE Wait(r)
  BY <1>15, <1>goes, <1>raises, <1>open, <1>pcs
     DEF Wait, At, Goto, GotoWith, Raise, at
<1>16. CASE Save(r)
  BY <1>16, <1>goes, <1>loads, <1>pcs DEF Save, At, Goto, GotoWith, Load, at
<1>17. CASE SaveCommit(r)
  <2> DEFINE c == at("close", run.task, Fresh)
  <2>1. run.pc = "save_commit" /\ run.pc \in Undecided
    BY <1>17, <1>pcs DEF SaveCommit, At
  <2>2. c \in Run /\ c.owner = run.owner /\ c.pc = "close"
    BY <1>run, <1>at, <1>pcs
  <2>3. /\ job'.status = "succeeded" /\ job'.sub = job.sub /\ job'.task = job.task
        /\ logo' = TRUE
    BY <1>17, <1>run DEF SaveCommit, Row
  <2>4. Set(r, c) /\ UNCHANGED <<made, open, loop, retry, early, resets>>
    BY <1>17 DEF SaveCommit, Goto, GotoWith, at, bounds
  <2>5. RunFacts(c, job', made') /\ RowFacts(job', made')
    BY <2>2, <2>3, <2>4, <1>facts, <1>pcs DEF RunFacts, RowFacts
  <2>6. QED
    BY <2>1, <2>2, <2>3, <2>4, <2>5, <1>alone, <1>active, StepCalm
<1>18. CASE Fail(r)
  BY <1>18, <1>goes, <1>loads, <1>pcs DEF Fail, At, Goto, GotoWith, Load, at
<1>19. CASE FailCommit(r)
  <2> DEFINE b == [run.row EXCEPT !.status = "failed"]
             c == at("close", run.task, Fresh)
  <2>1. run.row = job /\ run.pc = "fail_commit"
    BY <1>19, <1>facts, <1>pcs DEF FailCommit, At, RunFacts
  <2>2. b \in Row /\ b.status = "failed" /\ b.sub = job.sub /\ b.task = job.task
    BY <2>1, <1>run DEF Row
  <2>3. job' = b
    BY <1>19, <2>1, <2>2, <1>stored, <1>pcs DEF FailCommit
  <2>4. c \in Run /\ c.owner = run.owner /\ c.pc = "close"
    BY <1>run, <1>at, <1>pcs
  <2>5. RunFacts(c, b, made) /\ RowFacts(b, made)
    BY <2>2, <2>4, <1>facts, <1>pcs DEF RunFacts, RowFacts
  <2>6. Set(r, c) /\ RowStep /\ run.pc \in Undecided
    BY <1>19, <2>1, <1>pcs DEF FailCommit, Goto, GotoWith, at
  <2>7. QED
    BY <2>2, <2>3, <2>4, <2>5, <2>6, <1>commits
<1>20. CASE Close(r)
  BY <1>20, <1>ends DEF Close
<1>21. QED
  BY <1>1, <1>2, <1>3, <1>4, <1>5, <1>6, <1>7, <1>8, <1>9, <1>10, <1>11, <1>12,
     <1>13, <1>14, <1>15, <1>16, <1>17, <1>18, <1>19, <1>20, <1>22 DEF RunStep

\* Steps of the loop: none works on the row while the loop is not gathering.
LEMMA LoopStepCalm ==
  ASSUME TypeInv, Calm, Facts, LoopStep
  PROVE  Facts'
<1>1. loop # "gather" /\ open => \A r \in Runs : ~Active(r)
  BY DEF Facts, Ownership
<1>2. CASE RecoverCommit
  <2>1. open /\ \A r \in Runs : ~Active(r)
    BY <1>1, <1>2 DEF RecoverCommit, Facts, Ownership
  <2>2. /\ job'.status = "pending" /\ job'.sub = job.sub /\ job'.task = job.task
        /\ job.status = "running"
    BY <1>2 DEF RecoverCommit, TypeInv, TypeOK, Row, Facts, NothingStale
  <2>3. UNCHANGED <<logo, open, made, runs, retry, resets>> /\ loop' = "pick"
    BY <1>2 DEF RecoverCommit, bounds
  <2>4. OneRun' /\ Ownership' /\ NothingStale'
    BY <2>1, <2>2, <2>3 DEF Facts, OneRun, Ownership, NothingStale, Active, Undecided, CommitPcs
  <2>5. Kie => Charges'
    BY <2>1, <2>2, <2>3 DEF Facts, Charges, Active
  <2>6. QED
    BY <2>2, <2>3, <2>4, <2>5 DEF Facts
<1>3. CASE PickThisRow
  <2>1. PICK r \in Runs : ~Active(r) /\ runs' = [runs EXCEPT ![r] = Start("loop", "input")]
    BY <1>3 DEF PickThisRow
  <2>2. Start("loop", "input").pc = "input" /\ Start("loop", "input").owner = "loop"
    BY DEF Start, Off
  <2>3. open /\ \A q \in Runs : ~Active(q)
    BY <1>1, <1>3 DEF PickThisRow, Facts, Ownership
  <2>4. /\ UNCHANGED <<job, logo, open, made, retry, resets>> /\ loop' = "gather"
        /\ job.status = "pending"
    BY <1>3 DEF PickThisRow, db, bounds
  <2>5. runs'[r].pc = "input" /\ runs'[r].owner = "loop"
        /\ \A q \in Runs : q # r => runs'[q].pc = "off"
    BY <2>1, <2>2, <2>3 DEF TypeInv, TypeOK, Active
  <2>6. OneRun' /\ Ownership' /\ NothingStale'
    BY <2>3, <2>4, <2>5 DEF Facts, OneRun, Ownership, NothingStale, Active, Undecided, CommitPcs
  <2>7. Kie => Charges'
    BY <2>3, <2>4, <2>5 DEF Facts, Charges, Active
  <2>8. QED
    BY <2>4, <2>6, <2>7 DEF Facts
<1>4. CASE Schedule \/ RecoverRead \/ PickOthers \/ GatherDone \/ GoRound
  <2>1. UNCHANGED <<job, logo, open, made, runs, retry, resets>>
    BY <1>4 DEF Schedule, RecoverRead, PickOthers, GatherDone, GoRound, db, bounds
  <2>2. /\ open
        /\ loop' = "recover" => job.status = "running"
        /\ loop = "gather" => loop' = "gather" \/ OwnedBy("loop") = {}
    BY <1>4 DEF Schedule, RecoverRead, PickOthers, GatherDone, GoRound, Facts, Ownership
  <2>3. Ownership'
    BY <2>1, <2>2 DEF Facts, Ownership, OwnedBy, Active
  <2>4. OneRun' /\ NothingStale' /\ (Kie => Charges')
    BY <2>1, <2>2 DEF Facts, OneRun, NothingStale, Charges, Active
  <2>5. QED
    BY <2>1, <2>3, <2>4 DEF Facts
<1>5. CASE Finish
  <2>1. UNCHANGED <<job, logo, made, runs, retry, resets>> /\ ~open' /\ loop' = "off"
    BY <1>5 DEF Finish, bounds
  <2>2. \A r \in Runs : ~Active(r)
    BY <1>1, <1>5 DEF Finish, Facts, Ownership
  <2>3. Ownership' /\ OneRun' /\ NothingStale' /\ (Kie => Charges')
    BY <2>1, <2>2 DEF Facts, OneRun, Ownership, NothingStale, Charges, Active
  <2>4. QED
    BY <2>1, <2>3 DEF Facts
<1>6. QED
  BY <1>2, <1>3, <1>4, <1>5 DEF LoopStep

\* Steps of the retry endpoint.
LEMMA RetryStepCalm ==
  ASSUME TypeInv, Calm, Calm', Facts, RetryStep
  PROVE  Facts'
<1>1. CASE RetryRead \/ RetryReplay
  <2>1. UNCHANGED <<job, logo, open, made, runs, loop, resets>>
    BY <1>1 DEF RetryRead, RetryReplay, db, bounds
  <2>2. /\ retry'.pc = "loaded" => retry'.row = job /\ job.status = "failed"
        /\ retry'.pc = "schedule" => resets > 0
    BY <1>1 DEF RetryRead, RetryReplay
  <2>3. OneRun' /\ Ownership' /\ NothingStale' /\ (Kie => Charges')
    BY <2>1, <2>2 DEF Facts, OneRun, Ownership, NothingStale, Charges, Active
  <2>4. QED
    BY <2>1, <2>3 DEF Facts
<1>2. CASE RetryCommit
  <2>1. /\ retry.row = job /\ job.status = "failed" /\ job \in Row
        /\ made \in Nat /\ resets \in Nat
    BY <1>2, BoundsAssumption DEF RetryCommit, Facts, NothingStale, TypeInv, TypeOK
  <2>2. job' = Fresh
    BY <1>2, <2>1, FlushStored, FreshRow DEF RetryCommit
  <2>3. Fresh.status = "pending" /\ Fresh.sub = "none"
    BY DEF Fresh
  <2>4. /\ UNCHANGED <<logo, open, made, runs, loop>> /\ ~open
        /\ resets' = resets + 1 /\ retry'.pc = "schedule"
    BY <1>2 DEF RetryCommit, Calm
  <2>5. ~logo
    BY <2>1 DEF Facts
  <2>6. \A r \in Runs : runs[r].pc \notin Undecided
    BY <2>1 DEF Facts, NothingStale
  <2>7. OneRun' /\ Ownership' /\ NothingStale'
    BY <2>2, <2>3, <2>4, <2>6
       DEF Facts, OneRun, Ownership, NothingStale, Active, Undecided
  <2>8. Kie => Charges'
    BY <2>1, <2>2, <2>3, <2>4, <2>6 DEF Facts, Charges, Undecided, CommitPcs
  <2>9. QED
    BY <2>2, <2>3, <2>4, <2>5, <2>7, <2>8 DEF Facts
<1>3. CASE RetrySchedule
  <2>1. /\ UNCHANGED <<job, logo, open, made, loop, resets>>
        /\ ~open /\ retry'.pc = "idle"
    BY <1>3 DEF RetrySchedule, RetryIdle, Facts, Ownership, db, bounds
  <2>2. CASE UNCHANGED runs
    <3>1. OneRun' /\ Ownership' /\ NothingStale' /\ (Kie => Charges')
      BY <2>1, <2>2 DEF Facts, OneRun, Ownership, NothingStale, Charges, Active
    <3>2. QED
      BY <2>1, <3>1 DEF Facts
  <2>3. CASE OwnedBy("retry") = {}
    <3>1. PICK r \in Runs : runs' = [runs EXCEPT ![r] = Start("retry", "check")]
      BY <1>3, <2>3 DEF RetrySchedule
    <3>2. Start("retry", "check").pc = "check" /\ Start("retry", "check").owner = "retry"
      BY DEF Start, Off
    <3>3. \A q \in Runs : ~Active(q)
      BY <2>1, <2>3 DEF OwnedBy, Facts, Ownership
    <3>4. /\ runs'[r].pc = "check" /\ runs'[r].owner = "retry"
          /\ \A q \in Runs : q # r => runs'[q].pc = "off"
      BY <3>1, <3>2, <3>3 DEF TypeInv, TypeOK, Active
    <3>5. OneRun' /\ Ownership' /\ NothingStale'
      BY <2>1, <3>4 DEF Facts, OneRun, Ownership, NothingStale, Active, Undecided, CommitPcs
    <3>6. Kie => Charges'
      BY <2>1, <3>4 DEF Facts, Charges
    <3>7. QED
      BY <2>1, <3>5, <3>6 DEF Facts
  <2>4. QED
    BY <1>3, <2>2, <2>3 DEF RetrySchedule
<1>4. QED
  BY <1>1, <1>2, <1>3 DEF RetryStep

\* Calm is lost for good: an early retry and a fault are remembered.
LEMMA StaysCalm ==
  ASSUME TypeInv, [Next]_vars, Calm'
  PROVE  Calm
<1>1. CASE LoopStep
  BY <1>1 DEF LoopStep, Schedule, RecoverRead, RecoverCommit, PickThisRow, PickOthers,
    GatherDone, GoRound, Finish, bounds, Calm
<1>2. CASE \E r \in Runs : RunStep(r)
  <2>1. PICK r \in Runs : RunStep(r)
    BY <1>2
  <2>2. CASE LocalStep \/ RowStep
    BY <2>2 DEF LocalStep, RowStep, bounds, Calm
  <2>8. CASE SubmitGarbled(r)
    BY <2>8 DEF SubmitGarbled, Calm
  <2>3. CASE Call(r) \/ SubmitAccepted(r) \/ SubmitUncertain(r) \/ SaveCommit(r)
    <3>1. UNCHANGED bounds
      BY <2>3 DEF Call, SubmitAccepted, SubmitUncertain, SaveCommit
    <3>2. QED
      BY <3>1 DEF bounds, Calm
  <2>4. CASE Check(r) \/ Input(r) \/ Generate(r) \/ Claim(r) \/ SubmitRejected(r)
    BY <2>2, <2>4 DEF Check, Input, Generate, Claim, SubmitRejected
  <2>5. CASE Clear(r) \/ Store(r) \/ Wait(r) \/ Save(r) \/ Fail(r) \/ Close(r)
    BY <2>2, <2>5 DEF Clear, Store, Wait, Save, Fail, Close
  <2>6. CASE \/ InputCommit(r) \/ ClaimCommit(r) \/ ClearCommit(r)
             \/ StoreCommit(r) \/ FailCommit(r)
    BY <2>2, <2>6 DEF InputCommit, ClaimCommit, ClearCommit, StoreCommit, FailCommit
  <2>7. QED
    BY <2>1, <2>3, <2>4, <2>5, <2>6, <2>8 DEF RunStep
<1>3. CASE RetryStep
  <2>1. CASE RetryCommit
    <3>1. early' = (early \/ open) /\ faults' = faults
      BY <2>1 DEF RetryCommit
    <3>2. QED
      BY <3>1 DEF Calm, TypeInv, TypeOK
  <2>2. CASE RetryRead \/ RetryReplay \/ RetrySchedule
    BY <2>2 DEF RetryRead, RetryReplay, RetrySchedule, bounds, Calm
  <2>3. QED
    BY <1>3, <2>1, <2>2 DEF RetryStep
<1>4. CASE LoopDies \/ \E r \in Runs : RunDies(r)
  BY <1>4 DEF LoopDies, RunDies, Calm, TypeInv, TypeOK
<1>5. CASE Crash \/ (\E r \in Runs : SaveRefused(r)) \/ UNCHANGED vars
  BY <1>5 DEF Crash, SaveRefused, vars, bounds, Calm
<1>6. QED
  BY <1>1, <1>2, <1>3, <1>4, <1>5 DEF Next

\* Every step of a calm run keeps the facts.
THEOREM CalmInvInductive == TypeInv /\ CalmInv /\ [Next]_vars => CalmInv'
<1> SUFFICES ASSUME TypeInv, CalmInv, [Next]_vars, Calm' PROVE Facts'
  BY DEF CalmInv, Facts
<1>1. Calm
  BY StaysCalm
<1>2. Facts
  BY <1>1 DEF CalmInv, Facts
<1>3. CASE LoopStep
  BY <1>1, <1>2, <1>3, LoopStepCalm
<1>4. CASE \E r \in Runs : RunStep(r)
  BY <1>2, <1>4, RunStepCalm
<1>5. CASE \E r \in Runs : RunDies(r)
  BY <1>5 DEF RunDies, Calm, TypeInv, TypeOK
<1>6. CASE \E r \in Runs : SaveRefused(r)
  BY <1>2, <1>6 DEF SaveRefused, At, Facts, NothingStale, Undecided, CommitPcs
<1>7. CASE RetryStep
  BY <1>1, <1>2, <1>7, RetryStepCalm
<1>8. CASE LoopDies
  BY <1>8 DEF LoopDies, Calm, TypeInv, TypeOK
<1>9. CASE Crash
  <2>1. /\ UNCHANGED <<job, logo, open, made, resets>> /\ loop' = "off"
        /\ retry'.pc = "idle" /\ \A r \in Runs : runs'[r].pc = "off"
    BY <1>9 DEF Crash, RetryIdle, Off, db
  <2>2. OneRun' /\ Ownership' /\ NothingStale' /\ (Kie => Charges')
    BY <1>2, <2>1 DEF Facts, OneRun, Ownership, NothingStale, Charges, Active,
                      Undecided, CommitPcs
  <2>3. QED
    BY <1>2, <2>1, <2>2 DEF Facts
<1>10. CASE UNCHANGED vars
  BY <1>2, <1>10 DEF vars, Facts, OneRun, Ownership, NothingStale, Charges, Active
<1>11. QED
  BY <1>3, <1>4, <1>5, <1>6, <1>7, <1>8, <1>9, <1>10 DEF Next

\* In calm runs nothing held between a read and its commit is ever stale.
THEOREM CalmHolds == Spec => []CalmInv
<1>1. Init => CalmInv
  BY DEF Init, CalmInv, Fresh, Off, RetryIdle, OneRun, Ownership, NothingStale, Charges,
         Active, Undecided, CommitPcs
<1>2. QED
  BY <1>1, CalmInvInductive, TypeCorrect, PTL DEF Spec

\* A calm row is charged once, and once more for each accepted retry.
THEOREM ChargedOnce == Spec => []ChargedOncePerReset
<1>1. CalmInv => ChargedOncePerReset
  BY DEF CalmInv, ChargedOncePerReset, Charges
<1>2. QED
  BY <1>1, CalmHolds, PTL

\* A calm row says "succeeded" exactly when a logo version belongs to it.
THEOREM DeliveredStaysDelivered == Spec => []LogoIffSucceeded
<1>1. CalmInv => LogoIffSucceeded
  BY DEF CalmInv, LogoIffSucceeded
<1>2. QED
  BY <1>1, CalmHolds, PTL

-----------------------------------------------------------------------------
(* All that a calm row is charged.                                         *)

\* What the attempts so far may have been charged, but for the last start's two.
Paid == 2 * (resets + crashes)

Spent == made + garbled

\* Where an attempt has not been charged yet, and where it may have been.
BeforeCharge == {"input", "input_commit", "generate", "claim", "claim_commit", "submit"}
AfterCharge == {"clear", "clear_commit", "store", "store_commit", "wait", "save",
                "save_commit"}

\* What the attempts of a coroutine leave to be spent.
RunSpends(c, spent) ==
  /\ c.pc \in BeforeCharge => spent + 1 <= Paid + c.try
  /\ c.pc \in AfterCharge => spent <= Paid + c.try

Spending ==
  /\ Spent <= 2 + Paid
  /\ \A r \in Runs : RunSpends(runs[r], Spent)
  /\ \/ job.status \notin {"pending", "running"}
     \/ \E r \in Runs : runs[r].pc \in Undecided
     \/ Spent <= Paid

\* The counters are numbers.
LEMMA Counts ==
  ASSUME TypeInv
  PROVE  /\ made \in Nat /\ garbled \in Nat /\ Spent \in Nat /\ Paid \in Nat
         /\ \A r \in Runs : runs[r].try \in {1, 2}
BY BoundsAssumption DEF TypeInv, TypeOK, Spent, Paid, Run, Attempts

\* A step of the one active run keeps what is left if it keeps it of that run.
LEMMA StepSpends ==
  ASSUME TypeInv, Facts, Spending, NEW r \in Runs, Active(r), NEW c \in Run, Set(r, c),
         UNCHANGED <<resets, crashes>>,
         Spent' <= 2 + Paid, RunSpends(c, Spent'),
         \/ job'.status \notin {"pending", "running"}
         \/ c.pc \in Undecided
         \/ Spent' <= Paid
  PROVE  Spending'
<1>1. /\ runs'[r] = c
      /\ \A q \in Runs : q # r => runs'[q] = runs[q] /\ runs[q].pc = "off"
  BY DEF Set, TypeInv, TypeOK, Facts, OneRun, Active
<1>2. Paid' = Paid
  BY DEF Paid
<1>3. \A q \in Runs : RunSpends(runs'[q], Spent')
  BY <1>1 DEF RunSpends, BeforeCharge, AfterCharge
<1>4. (\A q \in Runs : RunSpends(runs[q], Spent))'
  BY <1>2, <1>3 DEF RunSpends
<1>5. /\ (Spent <= 2 + Paid)'
      /\ \/ job'.status \notin {"pending", "running"}
         \/ \E q \in Runs : runs'[q].pc \in Undecided
         \/ Spent' <= Paid'
  BY <1>1, <1>2
<1>6. QED
  BY <1>4, <1>5 DEF Spending

\* Every step of a run keeps what is left.
LEMMA RunStepSpends ==
  ASSUME TypeInv, Facts, Spending, NEW r \in Runs, RunStep(r)
  PROVE  Spending'
<1> DEFINE run == runs[r]
           at(pc, task, row) == Moved(run, pc, run.try, task, row)
<1> USE FreshRow, OffRun
<1>pcs. /\ Pcs = {"off", "check", "input", "generate", "claim", "submit", "clear",
                  "store", "wait", "save", "fail", "close",
                  "input_commit", "claim_commit", "clear_commit", "store_commit",
                  "save_commit", "fail_commit"}
        /\ Undecided = Pcs \ {"off", "check", "close"}
  BY DEF Pcs, Undecided, CommitPcs
<1>run. /\ TypeOK /\ job \in Row /\ run \in Run /\ run.task \in 0..MaxTasks
        /\ run.row \in Row /\ run.row.task \in 0..MaxTasks
        /\ made \in Nat /\ garbled \in Nat /\ Paid \in Nat /\ run.try \in {1, 2}
        /\ Spent \in Nat /\ Spent <= 2 + Paid /\ RunSpends(run, Spent)
  BY MovedTypes, Counts, <1>pcs DEF TypeInv, TypeOK, Spending
<1>at. \A pc \in Pcs, task \in 0..MaxTasks, row \in Row :
         /\ at(pc, task, row) \in Run
         /\ at(pc, task, row).pc = pc
         /\ at(pc, task, row).try = run.try
  BY <1>run DEF Run, Moved, Attempts
<1>raise. \A fatal \in BOOLEAN :
            /\ Raised(r, fatal) \in Run
            /\ \/ Raised(r, fatal).pc = "fail"
               \/ Raised(r, fatal).pc = "input" /\ Raised(r, fatal).try = 2 /\ run.try = 1
  <2> TAKE fatal \in BOOLEAN
  <2>1. Raised(r, fatal) \in Run
    BY RaisedRun, <1>run
  <2>2. CASE fatal \/ run.try = 2
    BY <2>1, <2>2, <1>run DEF Raised, Moved, Run
  <2>3. CASE ~(fatal \/ run.try = 2)
    BY <2>1, <2>3, <1>run DEF Raised, Moved, Run
  <2>4. QED
    BY <2>2, <2>3
<1> HIDE DEF at
<1>active. Active(r)
  BY DEF RunStep, Check, Input, InputCommit, Generate, Call, Claim, ClaimCommit,
         SubmitAccepted, SubmitUncertain, SubmitRejected, SubmitGarbled, Clear,
         ClearCommit, Store, StoreCommit, Wait, Save, SaveCommit, Fail, FailCommit, Close,
         At, Active
\* The ways a step that charges nothing ends: further on in the attempt, ...
<1>goes. ASSUME UNCHANGED <<made, garbled, resets, crashes>>,
                NEW pc \in Undecided, NEW task \in 0..MaxTasks, NEW row \in Row,
                Set(r, at(pc, task, row)),
                \/ run.pc \in BeforeCharge
                \/ run.pc \in AfterCharge /\ pc \notin BeforeCharge
                \/ pc \in {"fail", "fail_commit"}
         PROVE  Spending'
  <2>1. Spent' = Spent
    BY <1>goes DEF Spent
  <2>2. at(pc, task, row) \in Run /\ RunSpends(at(pc, task, row), Spent)
    BY <1>goes, <1>at, <1>run, <1>pcs DEF RunSpends, BeforeCharge, AfterCharge
  <2>3. at(pc, task, row).pc \in Undecided
    BY <1>goes, <1>at, <1>pcs
  <2>4. QED
    BY <2>1, <2>2, <2>3, <1>goes, <1>active, <1>run, StepSpends
\* ... into the next attempt, or to the failure, ...
<1>raises. ASSUME UNCHANGED <<resets, crashes>>, Spent' \in Nat, Spent' <= Paid + run.try,
                  NEW fatal \in BOOLEAN, Set(r, Raised(r, fatal))
           PROVE  Spending'
  <2>1. RunSpends(Raised(r, fatal), Spent') /\ Raised(r, fatal).pc \in Undecided
    BY <1>raises, <1>raise, <1>run, <1>pcs DEF RunSpends, BeforeCharge, AfterCharge
  <2>2. Spent' <= 2 + Paid
    BY <1>raises, <1>run
  <2>3. QED
    BY <2>1, <2>2, <1>raises, <1>raise, <1>active, StepSpends
<1>spends. run.pc \in BeforeCharge \union AfterCharge => Spent <= Paid + run.try
  BY <1>run DEF RunSpends
\* ... or out of it, the row decided or as it was.
<1>ends. ASSUME UNCHANGED <<made, garbled, resets, crashes>>, NEW c \in Run, Set(r, c),
                c.pc \in {"off", "close"},
                \/ job'.status \notin {"pending", "running"}
                \/ job' = job /\ run.pc \notin Undecided
         PROVE  Spending'
  <2>1. Spent' = Spent /\ RunSpends(c, Spent)
    BY <1>ends DEF Spent, RunSpends, BeforeCharge, AfterCharge
  <2>2. \A q \in Runs : q # r => runs[q].pc = "off"
    BY <1>active DEF Facts, OneRun, Active
  <2>3. \/ job'.status \notin {"pending", "running"}
        \/ Spent <= Paid
    BY <2>2, <1>ends, <1>pcs DEF Spending
  <2>4. QED
    BY <2>1, <2>3, <1>ends, <1>run, <1>active, StepSpends
<1>local. LocalStep \/ RowStep => UNCHANGED <<made, garbled, resets, crashes>>
  BY DEF LocalStep, RowStep, bounds
<1>same. UNCHANGED <<made, garbled>> => Spent' = Spent
  BY DEF Spent
<1>before. BeforeCharge = {"input", "input_commit", "generate", "claim", "claim_commit",
                           "submit"}
  BY DEF BeforeCharge
<1>after. AfterCharge = {"clear", "clear_commit", "store", "store_commit", "wait", "save",
                         "save_commit"}
  BY DEF AfterCharge
<1>facts. RunFacts(run, job, made) /\ RowFacts(job, made)
  BY FactsOfRun
<1>open. run.pc \in Undecided => job.status \in {"pending", "running"}
  BY <1>facts DEF RunFacts
<1>1. CASE Check(r)
  <2>1. run.pc = "check" /\ UNCHANGED <<job, made, garbled, resets, crashes>>
    BY <1>1, <1>local DEF Check, At, LocalStep, db
  <2>2. CASE Set(r, Off)
    BY <2>1, <2>2, <1>ends, <1>pcs DEF Off
  <2>3. CASE job.status = "pending" /\ Set(r, at("input", run.task, Fresh))
    <3>1. \A q \in Runs : runs[q].pc \notin Undecided
      BY <2>1, <1>active, <1>pcs DEF Facts, OneRun, Active
    <3>2. Spent <= Paid
      BY <2>3, <3>1 DEF Spending
    <3>3. /\ at("input", run.task, Fresh) \in Run
          /\ at("input", run.task, Fresh).pc = "input"
          /\ at("input", run.task, Fresh).try = run.try
      BY <1>at, <1>run, <1>pcs
    <3>4. RunSpends(at("input", run.task, Fresh), Spent)
      BY <3>2, <3>3, <1>run DEF RunSpends, AfterCharge
    <3>5. QED
      BY <2>1, <2>3, <3>3, <3>4, <1>same, <1>run, <1>pcs, <1>active, StepSpends
  <2>4. QED
    BY <1>1, <2>2, <2>3 DEF Check, Goto, GotoWith, at
<1>2. CASE Input(r)
  <2>1. run.pc = "input" /\ UNCHANGED <<made, garbled, resets, crashes>>
    BY <1>2, <1>local DEF Input, At
  <2>2. QED
    BY <1>2, <2>1, <1>goes, <1>raises, <1>spends, <1>same, <1>run, <1>pcs, <1>before
       DEF Input, Load, at
<1>3. CASE InputCommit(r)
  BY <1>3, <1>local, <1>goes, <1>run, <1>pcs, <1>before DEF InputCommit, At, GotoWith, at
<1>4. CASE Generate(r)
  BY <1>4, <1>local, <1>goes, <1>run, <1>pcs, <1>before
     DEF Generate, At, Goto, GotoWith, at
\* A charge: what is spent was left to be spent.
<1>charge. ASSUME run.pc \in BeforeCharge, Spent' \in {Spent, Spent + 1}
           PROVE  Spent' \in Nat /\ Spent' <= Paid + run.try
  BY <1>charge, <1>run DEF RunSpends
<1>charges. ASSUME run.pc \in BeforeCharge, Spent' \in {Spent, Spent + 1},
                   UNCHANGED <<resets, crashes>>,
                   NEW pc \in AfterCharge, NEW task \in 0..MaxTasks,
                   Set(r, at(pc, task, Fresh))
            PROVE  Spending'
  <2>1. Spent' \in Nat /\ Spent' <= Paid + run.try /\ Spent' <= 2 + Paid
    BY <1>charges, <1>charge, <1>run
  <2>2. pc \in Pcs /\ pc \in Undecided /\ pc \notin BeforeCharge
    BY <1>charges, <1>pcs, <1>before, <1>after
  <2>3. /\ at(pc, task, Fresh) \in Run
        /\ at(pc, task, Fresh).pc = pc /\ at(pc, task, Fresh).try = run.try
    BY <2>2, <1>at
  <2>4. RunSpends(at(pc, task, Fresh), Spent')
    BY <2>1, <2>2, <2>3 DEF RunSpends
  <2>5. QED
    BY <2>1, <2>2, <2>3, <2>4, <1>charges, <1>active, StepSpends
<1>5. CASE Call(r)
  <2>1. run.pc \in BeforeCharge /\ UNCHANGED <<resets, crashes>> /\ Spent' = Spent + 1
    BY <1>5, <1>run, <1>before DEF Call, At, bounds, Spent
  <2>2. QED
    BY <1>5, <2>1, <1>charge, <1>charges, <1>raises, <1>run, <1>after
       DEF Call, Goto, GotoWith, Raise, at
<1>6. CASE Claim(r)
  <2>1. run.pc = "claim" /\ UNCHANGED <<made, garbled, resets, crashes>>
    BY <1>6, <1>local DEF Claim, At
  <2>2. QED
    BY <1>6, <2>1, <1>goes, <1>raises, <1>spends, <1>same, <1>run, <1>pcs, <1>before
       DEF Claim, Goto, GotoWith, Load, at
<1>7. CASE ClaimCommit(r)
  BY <1>7, <1>local, <1>goes, <1>run, <1>pcs, <1>before
     DEF ClaimCommit, At, Goto, GotoWith, at
<1>8. CASE SubmitAccepted(r)
  <2>1. /\ run.pc \in BeforeCharge /\ UNCHANGED <<resets, crashes>> /\ Spent' = Spent + 1
        /\ made' \in 0..MaxTasks /\ Set(r, at("store", made', Fresh))
    BY <1>8, <1>run, <1>before, BoundsAssumption
       DEF SubmitAccepted, At, GotoWith, at, bounds, Spent, TypeOK
  <2>2. QED
    BY <2>1, <1>charges, <1>after
<1>9. CASE SubmitUncertain(r)
  <2>1. /\ run.pc \in BeforeCharge /\ UNCHANGED <<garbled, resets, crashes>>
        /\ made' = made \/ made' = made + 1
        /\ Set(r, Raised(r, TRUE))
    BY <1>9, <1>before DEF SubmitUncertain, At, bounds
  <2>2. Spent' \in {Spent, Spent + 1}
    BY <2>1, <1>run DEF Spent
  <2>3. QED
    BY <2>1, <2>2, <1>charge, <1>raises
<1>10. CASE SubmitRejected(r) \/ SubmitGarbled(r)
  <2>1. /\ run.pc \in BeforeCharge /\ UNCHANGED <<resets, crashes>>
        /\ Spent' \in {Spent, Spent + 1} /\ Set(r, at("clear", run.task, Fresh))
    BY <1>10, <1>run, <1>before
       DEF SubmitRejected, SubmitGarbled, At, Goto, GotoWith, at, LocalStep, bounds, Spent
  <2>2. QED
    BY <2>1, <1>charges, <1>run, <1>after
<1>11. CASE Clear(r)
  <2>1. run.pc = "clear" /\ UNCHANGED <<made, garbled, resets, crashes>>
    BY <1>11, <1>local DEF Clear, At
  <2>2. QED
    BY <1>11, <2>1, <1>goes, <1>raises, <1>spends, <1>same, <1>run, <1>pcs, <1>before,
       <1>after DEF Clear, Load, Raise, at
<1>12. CASE ClearCommit(r)
  <2>1. run.pc = "clear_commit" /\ UNCHANGED <<made, garbled, resets, crashes>>
    BY <1>12, <1>local DEF ClearCommit, At
  <2>2. QED
    BY <1>12, <2>1, <1>raises, <1>spends, <1>same, <1>run, <1>after DEF ClearCommit, Raise
<1>13. CASE Store(r)
  <2>1. run.pc = "store" /\ UNCHANGED <<made, garbled, resets, crashes>>
    BY <1>13, <1>local DEF Store, At
  <2>2. QED
    BY <1>13, <2>1, <1>goes, <1>raises, <1>spends, <1>same, <1>run, <1>pcs, <1>before,
       <1>after DEF Store, Load, at
<1>14. CASE StoreCommit(r)
  BY <1>14, <1>local, <1>goes, <1>run, <1>pcs, <1>before, <1>after
     DEF StoreCommit, At, Goto, GotoWith, at
<1>15. CASE Wait(r)
  <2>1. run.pc = "wait" /\ UNCHANGED <<made, garbled, resets, crashes>>
    BY <1>15, <1>local DEF Wait, At
  <2>2. QED
    BY <1>15, <2>1, <1>goes, <1>raises, <1>spends, <1>same, <1>run, <1>pcs, <1>before,
       <1>after DEF Wait, Goto, GotoWith, Raise, at
<1>16. CASE Save(r)
  <2>1. /\ run.pc = "save" /\ UNCHANGED <<made, garbled, resets, crashes>>
        /\ job.status # "succeeded"
    BY <1>16, <1>local, <1>open, <1>pcs DEF Save, At
  <2>2. QED
    BY <1>16, <2>1, <1>goes, <1>run, <1>pcs, <1>before, <1>after DEF Save, Load, at
<1>17. CASE SaveCommit(r)
  <2>1. job'.status = "succeeded" /\ UNCHANGED <<made, garbled, resets, crashes>>
    BY <1>17, <1>run DEF SaveCommit, Row, bounds
  <2>2. QED
    BY <1>17, <2>1, <1>ends, <1>at, <1>run, <1>pcs DEF SaveCommit, Goto, GotoWith, at
<1>18. CASE Fail(r)
  <2>1. /\ run.pc = "fail" /\ UNCHANGED <<made, garbled, resets, crashes>>
        /\ job.status # "succeeded"
    BY <1>18, <1>local, <1>open, <1>pcs DEF Fail, At
  <2>2. QED
    BY <1>18, <2>1, <1>goes, <1>run, <1>pcs DEF Fail, Load, at
<1>19. CASE FailCommit(r)
  <2> DEFINE b == [run.row EXCEPT !.status = "failed"]
  <2>1. run.pc = "fail_commit" /\ run.row = job
    BY <1>19, <1>facts DEF FailCommit, At, RunFacts, CommitPcs
  <2>2. b \in Row /\ b.status = "failed"
    BY <1>run DEF Row
  <2>3. job'.status = "failed" /\ UNCHANGED <<made, garbled, resets, crashes>>
    BY <1>19, <2>1, <2>2, <1>local, <1>run, FlushStored DEF FailCommit
  <2>4. QED
    BY <1>19, <2>3, <1>ends, <1>at, <1>run, <1>pcs DEF FailCommit, Goto, GotoWith, at
<1>20. CASE Close(r)
  BY <1>20, <1>local, <1>ends, <1>pcs DEF Close, At, Off, LocalStep, db
<1>21. QED
  BY <1>1, <1>2, <1>3, <1>4, <1>5, <1>6, <1>7, <1>8, <1>9, <1>10, <1>11, <1>12,
     <1>13, <1>14, <1>15, <1>16, <1>17, <1>18, <1>19, <1>20 DEF RunStep

\* Every step of the system keeps what is left in a calm run.
LEMMA SpendingInductive ==
  ASSUME TypeInv, Calm, Facts, Spending, [Next]_vars, Calm'
  PROVE  Spending'
<1>counts. /\ made \in Nat /\ garbled \in Nat /\ Spent \in Nat /\ Paid \in Nat
           /\ \A r \in Runs : runs[r].try \in {1, 2}
           /\ resets \in Nat /\ crashes \in Nat
  BY Counts, BoundsAssumption DEF TypeInv, TypeOK
<1>off. Off.pc = "off"
  BY DEF Off
\* What keeps the charges, the runs and the fate of the row.
<1>keeps. ASSUME UNCHANGED <<made, garbled, runs, resets, crashes>>,
                 job'.status \in {"pending", "running"} =>
                   job.status \in {"pending", "running"}
          PROVE  Spending'
  BY <1>keeps DEF Spending, Spent, Paid, RunSpends
\* A start of the row or of the process: two attempts more.
<1>starts. ASSUME Spent' = Spent, Paid' = Paid + 2,
                  \A r \in Runs : runs'[r].pc \notin BeforeCharge \union AfterCharge
           PROVE  Spending'
  BY <1>starts, <1>counts DEF Spending, RunSpends
<1>1. CASE LoopStep
  <2>1. CASE PickThisRow
    <3>1. PICK r \in Runs : runs' = [runs EXCEPT ![r] = Start("loop", "input")]
      BY <2>1 DEF PickThisRow
    <3>2. Start("loop", "input").pc = "input" /\ Start("loop", "input").try = 1
      BY DEF Start, Off
    <3>3. \A q \in Runs : ~Active(q)
      BY <2>1 DEF PickThisRow, Facts, Ownership
    <3>4. /\ UNCHANGED <<job, made, garbled, resets, crashes>> /\ job.status = "pending"
      BY <2>1 DEF PickThisRow, db, bounds
    <3>5. Spent <= Paid
      BY <3>3, <3>4 DEF Spending, Active, Undecided, CommitPcs
    <3>6. /\ runs'[r].pc = "input" /\ runs'[r].try = 1
          /\ \A q \in Runs : q # r => runs'[q].pc = "off"
      BY <3>1, <3>2, <3>3 DEF TypeInv, TypeOK, Active
    <3>7. Spent' = Spent /\ Paid' = Paid
      BY <3>4 DEF Spent, Paid
    <3>8. (\A q \in Runs : RunSpends(runs[q], Spent))'
      BY <3>5, <3>6, <3>7, <1>counts DEF RunSpends, BeforeCharge, AfterCharge
    <3>9. QED
      BY <3>5, <3>7, <3>8, <1>counts DEF Spending
  <2>2. CASE RecoverCommit
    <3>1. job.status = "running"
      BY <2>2 DEF RecoverCommit, Facts, NothingStale
    <3>2. QED
      BY <2>2, <3>1, <1>keeps DEF RecoverCommit, bounds
  <2>3. CASE Schedule \/ RecoverRead \/ PickOthers \/ GatherDone \/ GoRound \/ Finish
    BY <2>3, <1>keeps
       DEF Schedule, RecoverRead, PickOthers, GatherDone, GoRound, Finish, db, bounds
  <2>4. QED
    BY <1>1, <2>1, <2>2, <2>3 DEF LoopStep
<1>2. CASE \E r \in Runs : RunStep(r)
  BY <1>2, RunStepSpends
<1>3. CASE LoopDies \/ \E r \in Runs : RunDies(r)
  BY <1>3 DEF LoopDies, RunDies, Calm, TypeInv, TypeOK
<1>4. CASE \E r \in Runs : SaveRefused(r)
  BY <1>4 DEF SaveRefused, At, Facts, NothingStale, Undecided, CommitPcs
<1>5. CASE RetryRead \/ RetryReplay
  BY <1>5, <1>keeps DEF RetryRead, RetryReplay, db, bounds
<1>6. CASE RetryCommit
  <2>1. job.status = "failed"
    BY <1>6 DEF RetryCommit, Facts, NothingStale
  <2>2. \A r \in Runs : runs[r].pc \notin Undecided
    BY <2>1 DEF Facts, NothingStale
  <2>3. /\ UNCHANGED <<made, garbled, runs, crashes>> /\ resets' = resets + 1
    BY <1>6 DEF RetryCommit
  <2>4. Spent' = Spent /\ Paid' = Paid + 2
    BY <2>3, <1>counts DEF Spent, Paid
  <2>5. \A r \in Runs : runs'[r].pc \notin BeforeCharge \union AfterCharge
    BY <2>2, <2>3 DEF BeforeCharge, AfterCharge, Undecided, CommitPcs
  <2>6. QED
    BY <2>4, <2>5, <1>starts
<1>7. CASE RetrySchedule
  <2>1. UNCHANGED <<job, made, garbled, resets, crashes>>
    BY <1>7 DEF RetrySchedule, db, bounds
  <2>2. CASE UNCHANGED runs
    BY <2>1, <2>2, <1>keeps
  <2>3. CASE OwnedBy("retry") = {}
    <3>1. PICK r \in Runs : runs' = [runs EXCEPT ![r] = Start("retry", "check")]
      BY <1>7, <2>3 DEF RetrySchedule
    <3>2. Start("retry", "check").pc = "check"
      BY DEF Start, Off
    <3>3. \A q \in Runs : ~Active(q)
      BY <1>7, <2>3 DEF RetrySchedule, OwnedBy, Facts, Ownership
    <3>4. \A q \in Runs : runs[q].pc = "off" /\ runs'[q].pc \in {"off", "check"}
      BY <3>1, <3>2, <3>3 DEF TypeInv, TypeOK, Active
    <3>5. Spent' = Spent /\ Paid' = Paid
      BY <2>1 DEF Spent, Paid
    <3>6. (\A q \in Runs : RunSpends(runs[q], Spent))'
      BY <3>4 DEF RunSpends, BeforeCharge, AfterCharge
    <3>7. \A q \in Runs : runs[q].pc \notin Undecided
      BY <3>4 DEF Undecided, CommitPcs
    <3>8. QED
      BY <2>1, <3>5, <3>6, <3>7 DEF Spending
  <2>4. QED
    BY <1>7, <2>2, <2>3 DEF RetrySchedule
<1>8. CASE Crash
  <2>1. /\ UNCHANGED <<made, garbled, resets>> /\ crashes' = crashes + 1
        /\ \A r \in Runs : runs'[r].pc = "off"
    BY <1>8, <1>off DEF Crash
  <2>2. Spent' = Spent /\ Paid' = Paid + 2
    BY <2>1, <1>counts DEF Spent, Paid
  <2>3. QED
    BY <2>1, <2>2, <1>starts DEF BeforeCharge, AfterCharge
<1>9. CASE UNCHANGED vars
  BY <1>9, <1>keeps DEF vars
<1>10. QED
  BY <1>1, <1>2, <1>3, <1>4, <1>5, <1>6, <1>7, <1>8, <1>9 DEF Next, RetryStep

\* A calm row is charged, for whatever answer, once per attempt at most.
THEOREM AllChargesBounded == Spec => []ChargesBounded
<1>1. Init => (Calm => Spending)
  <2> SUFFICES ASSUME Init PROVE Spending
    OBVIOUS
  <2>1. Spent = 0 /\ Paid = 0 /\ \A r \in Runs : runs[r].pc = "off"
    BY DEF Init, Spent, Paid, Off
  <2>2. QED
    BY <2>1 DEF Spending, RunSpends, BeforeCharge, AfterCharge
<1>2. TypeInv /\ CalmInv /\ (Calm => Spending) /\ [Next]_vars => (Calm => Spending)'
  <2> SUFFICES ASSUME TypeInv, CalmInv, Calm => Spending, [Next]_vars, Calm'
               PROVE  Spending'
    OBVIOUS
  <2>1. Calm
    BY StaysCalm
  <2>2. Facts
    BY <2>1 DEF CalmInv, Facts
  <2>3. QED
    BY <2>1, <2>2, SpendingInductive
<1>3. TypeInv /\ (Calm => Spending) => ChargesBounded
  <2> SUFFICES ASSUME TypeInv, Calm, Spending PROVE ChargesBounded
    BY DEF ChargesBounded
  <2>1. resets \in Nat /\ crashes \in Nat
    BY BoundsAssumption DEF TypeInv, TypeOK
  <2>2. QED
    BY <2>1, Counts DEF Spending, Spent, Paid, ChargesBounded
<1>4. QED
  BY <1>1, <1>2, <1>3, TypeCorrect, CalmHolds, PTL DEF Spec

-----------------------------------------------------------------------------
(* The row implements the abstract candidate.                              *)

\* A coroutine that holds no task, and is at no step that follows a charge.
Unpaid(c) ==
  /\ c.task = NoTask
  /\ c.row.task = NoTask
  /\ c.pc \notin {"store", "store_commit", "wait", "save", "save_commit"}

\* What follows a charge: as long as the provider has made no task, nobody
\* knows one, and nobody waits for one or saves its image.
PaidInv ==
  Kie /\ made = 0 =>
    /\ job.task = NoTask
    /\ retry.row.task = NoTask
    /\ \A r \in Runs : Unpaid(runs[r])

\* A step of a run keeps PaidInv if it keeps it of that run and of the row.
LEMMA StepPaid ==
  ASSUME TypeInv, PaidInv, NEW r \in Runs, NEW c \in Run, Set(r, c),
         made' \in {made, made + 1}, retry' = retry,
         Kie /\ made' = 0 => job'.task = NoTask /\ Unpaid(c)
  PROVE  PaidInv'
<1>1. made \in Nat
  BY BoundsAssumption DEF TypeInv, TypeOK
<1>2. made' = 0 => made = 0
  BY <1>1
<1>3. runs'[r] = c /\ \A q \in Runs : q # r => runs'[q] = runs[q]
  BY DEF Set, TypeInv, TypeOK
<1>4. QED
  BY <1>2, <1>3 DEF PaidInv

\* A flush of a row without a task over a row without a task.
LEMMA FlushUnpaid ==
  ASSUME NEW a \in Row, NEW b \in Row, job \in Row,
         job.task = NoTask, b.task = a.task
  PROVE  Flush(a, b).task = NoTask
BY FlushRow DEF Column

\* Every step of a run keeps PaidInv.
LEMMA RunStepPaid ==
  ASSUME TypeInv, PaidInv, NEW r \in Runs, RunStep(r)
  PROVE  PaidInv'
<1> DEFINE run == runs[r]
           at(pc, task, row) == Moved(run, pc, run.try, task, row)
<1> USE FreshRow, OffRun
<1>pcs. Pcs = {"off", "check", "input", "generate", "claim", "submit", "clear",
               "store", "wait", "save", "fail", "close",
               "input_commit", "claim_commit", "clear_commit", "store_commit",
               "save_commit", "fail_commit"}
  BY DEF Pcs, CommitPcs
<1>run. /\ TypeOK /\ job \in Row /\ run \in Run /\ run.task \in 0..MaxTasks
        /\ run.row \in Row /\ run.row.task \in 0..MaxTasks /\ made \in Nat
  BY MovedTypes, BoundsAssumption, <1>pcs DEF TypeInv, TypeOK
<1>paid. Kie /\ made = 0 => job.task = NoTask /\ Unpaid(run)
  BY DEF PaidInv
<1>fresh. Fresh.task = NoTask /\ Unpaid(Off)
  BY DEF Fresh, Unpaid, Off
<1>raise. \A fatal \in BOOLEAN : Raised(r, fatal) \in Run /\ Unpaid(Raised(r, fatal))
  <2> TAKE fatal \in BOOLEAN
  <2>1. Raised(r, fatal) \in Run /\ Raised(r, fatal).pc \in {"fail", "input"}
    BY RaisedRun, <1>run
  <2>2. Raised(r, fatal).task = NoTask /\ Raised(r, fatal).row = Fresh
    BY <1>run, MovedRun, BoundsAssumption, <1>pcs DEF Raised, Run, Attempts, NoTask
  <2>3. QED
    BY <2>1, <2>2, <1>fresh DEF Unpaid
<1>at. \A pc \in Pcs, task \in 0..MaxTasks, row \in Row :
         /\ at(pc, task, row) \in Run
         /\ at(pc, task, row).pc = pc
         /\ at(pc, task, row).task = task
         /\ at(pc, task, row).row = row
  BY <1>run, MovedRun DEF Run
<1> HIDE DEF at
\* The ways a step ends: the run raises, ends, or goes on unpaid.
<1>local. ASSUME LocalStep, NEW c \in Run, Set(r, c), Kie /\ made = 0 => Unpaid(c)
          PROVE  PaidInv'
  <2>1. UNCHANGED <<job, made, retry>>
    BY <1>local DEF LocalStep, db
  <2>2. Kie /\ made' = 0 => job'.task = NoTask /\ Unpaid(c)
    BY <2>1, <1>local, <1>paid
  <2>3. QED
    BY <2>1, <2>2, <1>local, StepPaid
<1>goes. ASSUME LocalStep, NEW pc \in Pcs, Set(r, at(pc, run.task, Fresh)),
                Kie /\ made = 0 => pc \notin {"store", "wait", "save", "store_commit",
                                              "save_commit"}
         PROVE  PaidInv'
  <2>1. at(pc, run.task, Fresh) \in Run
    BY <1>at, <1>run
  <2>2. Kie /\ made = 0 => Unpaid(at(pc, run.task, Fresh))
    BY <1>goes, <1>at, <1>run, <1>paid, <1>fresh DEF Unpaid
  <2>3. QED
    BY <2>1, <2>2, <1>goes, <1>local
<1>loads. ASSUME LocalStep, NEW pc \in Pcs, Set(r, at(pc, run.task, job)),
                 Kie /\ made = 0 => pc \notin {"store", "wait", "save", "store_commit",
                                               "save_commit"}
          PROVE  PaidInv'
  <2>1. at(pc, run.task, job) \in Run
    BY <1>at, <1>run
  <2>2. Kie /\ made = 0 => Unpaid(at(pc, run.task, job))
    BY <1>loads, <1>at, <1>run, <1>paid DEF Unpaid
  <2>3. QED
    BY <2>1, <2>2, <1>loads, <1>local
<1>raises. ASSUME LocalStep, NEW fatal \in BOOLEAN, Set(r, Raised(r, fatal))
           PROVE  PaidInv'
  BY <1>raises, <1>raise, <1>local
<1>commits. ASSUME RowStep, NEW b \in Row, job' = Flush(run.row, b), b.task = run.row.task,
                   NEW c \in Run, Set(r, c), Kie /\ made = 0 => Unpaid(c)
            PROVE  PaidInv'
  <2>1. UNCHANGED <<made, retry>>
    BY <1>commits DEF RowStep
  <2>2. Kie /\ made' = 0 => job'.task = NoTask /\ Unpaid(c)
    BY <2>1, <1>commits, <1>paid, <1>run, FlushUnpaid
  <2>3. QED
    BY <2>1, <2>2, <1>commits, StepPaid
<1>1. CASE Check(r)
  BY <1>1, <1>goes, <1>local, <1>fresh, <1>pcs DEF Check, Goto, GotoWith, at
<1>2. CASE Input(r)
  BY <1>2, <1>loads, <1>raises, <1>pcs DEF Input, Load, at
<1>3. CASE InputCommit(r)
  <2> DEFINE b == [run.row EXCEPT !.status = "running"]
             c == at("generate", run.row.task, Fresh)
  <2>1. b \in Row /\ b.task = run.row.task
    BY <1>run DEF Row
  <2>2. c \in Run /\ (Kie /\ made = 0 => Unpaid(c))
    BY <1>at, <1>run, <1>pcs, <1>paid, <1>fresh DEF Unpaid
  <2>3. Set(r, c) /\ RowStep /\ job' = Flush(run.row, b)
    BY <1>3 DEF InputCommit, GotoWith, at
  <2>4. QED
    BY <2>1, <2>2, <2>3, <1>commits
<1>4. CASE Generate(r)
  <2>1. Kie /\ made = 0 => run.task = NoTask
    BY <1>paid DEF Unpaid
  <2>2. QED
    BY <1>4, <2>1, <1>goes, <1>pcs DEF Generate, Goto, GotoWith, at
<1>5. CASE Call(r)
  <2>1. /\ made' = made + 1 /\ retry' = retry /\ ~Kie
        /\ \E c \in Run : Set(r, c)
    BY <1>5, <1>at, <1>run, <1>raise, <1>pcs DEF Call, Goto, GotoWith, Raise, at
  <2>2. QED
    BY <2>1, StepPaid
<1>6. CASE Claim(r)
  BY <1>6, <1>goes, <1>loads, <1>raises, <1>paid, <1>pcs DEF Claim, Goto, GotoWith, Load, at
<1>7. CASE ClaimCommit(r)
  <2> DEFINE b == [run.row EXCEPT !.sub = "submitting"]
             c == at("submit", run.task, Fresh)
  <2>1. b \in Row /\ b.task = run.row.task
    BY <1>run DEF Row
  <2>2. c \in Run /\ (Kie /\ made = 0 => Unpaid(c))
    BY <1>at, <1>run, <1>pcs, <1>paid, <1>fresh DEF Unpaid
  <2>3. Set(r, c) /\ RowStep /\ job' = Flush(run.row, b)
    BY <1>7 DEF ClaimCommit, Goto, GotoWith, at
  <2>4. QED
    BY <2>1, <2>2, <2>3, <1>commits
<1>8. CASE SubmitAccepted(r)
  <2>1. made' = made + 1 /\ made' # 0 /\ made' \in 0..MaxTasks /\ retry' = retry
    BY <1>8, <1>run, BoundsAssumption DEF SubmitAccepted, TypeOK
  <2>2. at("store", made', Fresh) \in Run /\ Set(r, at("store", made', Fresh))
    BY <1>8, <2>1, <1>at, <1>pcs DEF SubmitAccepted, GotoWith, at
  <2>3. QED
    BY <2>1, <2>2, StepPaid
<1>9. CASE SubmitUncertain(r)
  <2>1. /\ made' \in {made, made + 1} /\ UNCHANGED <<job, retry>>
        /\ Set(r, Raised(r, TRUE))
    BY <1>9 DEF SubmitUncertain, db
  <2>2. made' = 0 => made = 0
    BY <2>1, <1>run
  <2>3. Kie /\ made' = 0 => job'.task = NoTask /\ Unpaid(Raised(r, TRUE))
    BY <2>1, <2>2, <1>paid, <1>raise
  <2>4. QED
    BY <2>1, <2>3, <1>raise, StepPaid
<1>10. CASE SubmitRejected(r)
  BY <1>10, <1>goes, <1>pcs DEF SubmitRejected, Goto, GotoWith, at
<1>22. CASE SubmitGarbled(r)
  <2>1. UNCHANGED <<job, made, retry>> /\ Set(r, at("clear", run.task, Fresh))
    BY <1>22 DEF SubmitGarbled, Goto, GotoWith, at, db
  <2>2. /\ at("clear", run.task, Fresh) \in Run
        /\ Kie /\ made = 0 => Unpaid(at("clear", run.task, Fresh))
    BY <1>at, <1>run, <1>pcs, <1>paid, <1>fresh DEF Unpaid
  <2>3. QED
    BY <2>1, <2>2, <1>paid, StepPaid
<1>11. CASE Clear(r)
  BY <1>11, <1>loads, <1>raises, <1>pcs DEF Clear, Load, Raise, at
<1>12. CASE ClearCommit(r)
  <2> DEFINE b == [run.row EXCEPT !.sub = "none"]
  <2>1. b \in Row /\ b.task = run.row.task
    BY <1>run DEF Row
  <2>2. PICK fatal \in BOOLEAN : Set(r, Raised(r, fatal))
    BY <1>12 DEF ClearCommit, Raise
  <2>3. RowStep /\ job' = Flush(run.row, b)
    BY <1>12 DEF ClearCommit
  <2>4. QED
    BY <2>1, <2>2, <2>3, <1>raise, <1>commits
\* From here on, the run is past a charge, or moves to its end.
<1>paidpc. Kie /\ run.pc \in {"store", "store_commit", "wait", "save", "save_commit"} =>
             made # 0
  BY <1>paid DEF Unpaid
<1>13. CASE Store(r)
  BY <1>13, <1>loads, <1>raises, <1>paidpc, <1>pcs DEF Store, At, Load, at
<1>14. CASE StoreCommit(r)
  <2>1. at("wait", run.task, Fresh) \in Run /\ Set(r, at("wait", run.task, Fresh))
    BY <1>14, <1>at, <1>run, <1>pcs DEF StoreCommit, Goto, GotoWith, at
  <2>2. UNCHANGED <<made, retry>> /\ (Kie => made # 0)
    BY <1>14, <1>paidpc DEF StoreCommit, RowStep, At
  <2>3. QED
    BY <2>1, <2>2, StepPaid
<1>15. CASE Wait(r)
  BY <1>15, <1>goes, <1>raises, <1>paidpc, <1>pcs DEF Wait, At, Goto, GotoWith, Raise, at
<1>16. CASE Save(r)
  BY <1>16, <1>goes, <1>loads, <1>paidpc, <1>pcs DEF Save, At, Goto, GotoWith, Load, at
<1>17. CASE SaveCommit(r)
  <2>1. at("close", run.task, Fresh) \in Run /\ Set(r, at("close", run.task, Fresh))
    BY <1>17, <1>at, <1>run, <1>pcs DEF SaveCommit, Goto, GotoWith, at
  <2>2. UNCHANGED <<made, retry>> /\ (Kie => made # 0)
    BY <1>17, <1>paidpc DEF SaveCommit, At
  <2>3. QED
    BY <2>1, <2>2, StepPaid
<1>18. CASE Fail(r)
  BY <1>18, <1>goes, <1>loads, <1>pcs DEF Fail, Goto, GotoWith, Load, at
<1>19. CASE FailCommit(r)
  <2> DEFINE b == [run.row EXCEPT !.status = "failed"]
             c == at("close", run.task, Fresh)
  <2>1. b \in Row /\ b.task = run.row.task
    BY <1>run DEF Row
  <2>2. c \in Run /\ (Kie /\ made = 0 => Unpaid(c))
    BY <1>at, <1>run, <1>pcs, <1>paid, <1>fresh DEF Unpaid
  <2>3. Set(r, c) /\ RowStep /\ job' = Flush(run.row, b)
    BY <1>19 DEF FailCommit, Goto, GotoWith, at
  <2>4. QED
    BY <2>1, <2>2, <2>3, <1>commits
<1>20. CASE Close(r)
  BY <1>20, <1>local, <1>fresh DEF Close
<1>21. QED
  BY <1>1, <1>2, <1>3, <1>4, <1>5, <1>6, <1>7, <1>8, <1>9, <1>10, <1>11, <1>12,
     <1>13, <1>14, <1>15, <1>16, <1>17, <1>18, <1>19, <1>20, <1>22 DEF RunStep

\* A step that makes no task keeps PaidInv if it leaves every run alone, takes
\* it from the loop, or replaces it by one that holds no task.
LEMMA OthersPaid ==
  ASSUME TypeInv, PaidInv, UNCHANGED made, job'.task = job.task,
         retry'.row.task \in {retry.row.task, job.task, NoTask},
         \A q \in Runs : \/ runs'[q] = runs[q]
                         \/ runs'[q] = [runs[q] EXCEPT !.owner = "orphan"]
                         \/ Unpaid(runs'[q])
  PROVE  PaidInv'
<1>1. ASSUME NEW q \in Runs, Unpaid(runs[q]) PROVE Unpaid(runs'[q])
  <2>1. runs[q] \in Run
    BY DEF TypeInv, TypeOK
  <2>2. QED
    BY <1>1, <2>1 DEF Unpaid, Run
<1>2. QED
  BY <1>1 DEF PaidInv

\* Every step of the system keeps PaidInv.
THEOREM PaidInvInductive == TypeInv /\ PaidInv /\ [Next]_vars => PaidInv'
<1> SUFFICES ASSUME TypeInv, PaidInv, [Next]_vars PROVE PaidInv'
  OBVIOUS
<1>off. Unpaid(Off) /\ Fresh.task = NoTask
  BY DEF Unpaid, Off, Fresh
<1>start. Unpaid(Start("loop", "input")) /\ Unpaid(Start("retry", "check"))
  BY DEF Unpaid, Start, Off, Fresh
<1>idle. RetryIdle.row.task = NoTask
  BY DEF RetryIdle, Fresh
<1>runs. runs \in [Runs -> Run] /\ job \in Row
  BY DEF TypeInv, TypeOK
<1>orphans. \A q \in Runs : \/ Orphaned[q] = runs[q]
                            \/ Orphaned[q] = [runs[q] EXCEPT !.owner = "orphan"]
  BY DEF Orphaned
<1>1. CASE LoopStep
  <2>1. UNCHANGED <<made, retry>> /\ job'.task = job.task
    BY <1>1, <1>runs DEF LoopStep, Schedule, RecoverRead, RecoverCommit, PickThisRow,
      PickOthers, GatherDone, GoRound, Finish, db, Row
  <2>2. \A q \in Runs : runs'[q] = runs[q] \/ Unpaid(runs'[q])
    BY <1>1, <1>runs, <1>start DEF LoopStep, Schedule, RecoverRead, RecoverCommit,
      PickThisRow, PickOthers, GatherDone, GoRound, Finish
  <2>3. QED
    BY <2>1, <2>2, OthersPaid
<1>2. CASE \E r \in Runs : RunStep(r)
  BY <1>2, RunStepPaid
<1>3. CASE \E r \in Runs : RunDies(r) \/ SaveRefused(r)
  <2>1. PICK r \in Runs : RunDies(r) \/ SaveRefused(r)
    BY <1>3
  <2>2. UNCHANGED <<job, made, retry>> /\ EndRun(r)
    BY <2>1 DEF RunDies, SaveRefused, db
  <2>3. \/ runs' = [Orphaned EXCEPT ![r] = Off]
        \/ runs' = [runs EXCEPT ![r] = Off]
    BY <2>2 DEF EndRun, Set
  <2>4. \A q \in Runs : \/ runs'[q] = runs[q]
                        \/ runs'[q] = [runs[q] EXCEPT !.owner = "orphan"]
                        \/ Unpaid(runs'[q])
    <3> DOMAIN Orphaned = Runs
      BY DEF Orphaned
    <3> QED
      BY <2>3, <1>runs, <1>off, <1>orphans
  <2>5. QED
    BY <2>2, <2>4, OthersPaid
<1>4. CASE RetryCommit
  <2>1. /\ UNCHANGED <<made, runs>> /\ retry'.row = Fresh
        /\ job' = Flush(retry.row, Fresh) /\ retry.row \in Row
    BY <1>4 DEF RetryCommit, TypeInv, TypeOK
  <2>2. Kie /\ made = 0 => job'.task = NoTask
    BY <2>1, <1>off, <1>runs, FreshRow, FlushUnpaid DEF PaidInv
  <2>3. QED
    BY <2>1, <2>2, <1>off DEF PaidInv
<1>5. CASE RetryRead \/ RetryReplay \/ RetrySchedule
  <2>1. UNCHANGED <<job, made>>
    BY <1>5 DEF RetryRead, RetryReplay, RetrySchedule, db
  <2>2. retry'.row.task \in {job.task, NoTask}
    BY <1>5, <1>off, <1>idle DEF RetryRead, RetryReplay, RetrySchedule
  <2>3. \A q \in Runs : runs'[q] = runs[q] \/ Unpaid(runs'[q])
    BY <1>5, <1>runs, <1>start DEF RetryRead, RetryReplay, RetrySchedule
  <2>4. QED
    BY <2>1, <2>2, <2>3, OthersPaid
<1>6. CASE LoopDies
  <2>1. UNCHANGED <<job, made, retry>> /\ runs' = Orphaned
    BY <1>6 DEF LoopDies, db
  <2>2. QED
    BY <2>1, <1>orphans, OthersPaid
<1>7. CASE Crash
  <2>1. UNCHANGED <<job, made>> /\ retry' = RetryIdle /\ \A q \in Runs : runs'[q] = Off
    BY <1>7 DEF Crash, db
  <2>2. QED
    BY <2>1, <1>off, <1>idle, OthersPaid
<1>8. CASE UNCHANGED vars
  BY <1>8 DEF vars, PaidInv
<1>9. QED
  BY <1>1, <1>2, <1>3, <1>4, <1>5, <1>6, <1>7, <1>8 DEF Next, RetryStep

\* A row that is being worked on, or waits to be, is open to the customer.
LEMMA OpenRow ==
  /\ job.status \in {"pending", "running"} => Outcome = "open"
  /\ job.status = "succeeded" => Outcome = "done"
  /\ job.status = "failed" => Outcome = "failed"
BY DEF Outcome

\* A step that keeps the charges and what the customer is told is none of the
\* abstract candidate's.
LEMMA Stutters ==
  ASSUME made' = made, garbled' = garbled, Outcome' = Outcome
  PROVE  [Once!Next]_(Once!vars)
BY DEF Once!vars

\* What a run of a calm row without retries does to the abstract candidate: an
\* accepted submission charges, as may an uncertain one; the two last commits
\* deliver and fail; nothing else is seen.
LEMMA RunStepPromised ==
  ASSUME Kie, TypeInv, Facts, PaidInv, resets = 0, NEW r \in Runs, RunStep(r)
  PROVE  [Once!Next]_(Once!vars)
<1> DEFINE run == runs[r]
<1>pcs. /\ Undecided = {"input", "generate", "claim", "submit", "clear", "store", "wait",
                        "save", "fail", "input_commit", "claim_commit", "clear_commit",
                        "store_commit", "save_commit", "fail_commit"}
        /\ CommitPcs = {"input_commit", "claim_commit", "clear_commit",
                        "store_commit", "save_commit", "fail_commit"}
  BY DEF Undecided, CommitPcs
<1>run. job \in Row /\ run \in Run /\ run.task \in 0..MaxTasks /\ made \in Nat
  BY MovedTypes, BoundsAssumption DEF TypeInv, TypeOK, Pcs
<1>facts. RunFacts(run, job, made) /\ RowFacts(job, made)
  BY FactsOfRun
<1>open. run.pc \in Undecided => Outcome = "open"
  BY <1>facts, OpenRow DEF RunFacts
\* A commit of a row that stays pending or running.
<1>stays. ASSUME RowStep, run.pc \in CommitPcs, NEW b \in Row, job' = Flush(run.row, b),
                 b.status \in {"pending", "running"}
          PROVE  [Once!Next]_(Once!vars)
  <2>1. job' = b
    BY <1>stays, <1>facts, <1>run, FlushStored DEF RunFacts
  <2>2. Outcome' = "open"
    BY <2>1, <1>stays DEF Outcome
  <2>3. Outcome = "open" /\ made' = made /\ garbled' = garbled
    BY <1>stays, <1>open, <1>pcs DEF RowStep, bounds
  <2>4. QED
    BY <2>2, <2>3, Stutters
<1>row. run.pc \in CommitPcs => run.row = job /\ job.status \in {"pending", "running"}
  BY <1>facts, <1>pcs DEF RunFacts
<1>1. CASE InputCommit(r)
  <2>1. run.pc = "input_commit" /\ RowStep
    BY <1>1 DEF InputCommit, At
  <2>2. /\ [run.row EXCEPT !.status = "running"] \in Row
        /\ [run.row EXCEPT !.status = "running"].status = "running"
    BY <2>1, <1>row, <1>run, <1>pcs DEF Row
  <2>3. QED
    BY <1>1, <2>1, <2>2, <1>stays, <1>pcs DEF InputCommit
<1>2. CASE ClaimCommit(r)
  <2>1. run.pc = "claim_commit" /\ RowStep
    BY <1>2 DEF ClaimCommit, At
  <2>2. /\ [run.row EXCEPT !.sub = "submitting"] \in Row
        /\ [run.row EXCEPT !.sub = "submitting"].status = job.status
    BY <2>1, <1>row, <1>run, <1>pcs DEF Row
  <2>3. QED
    BY <1>2, <2>1, <2>2, <1>row, <1>stays, <1>pcs DEF ClaimCommit
<1>3. CASE ClearCommit(r)
  <2>1. run.pc = "clear_commit" /\ RowStep
    BY <1>3 DEF ClearCommit, At
  <2>2. /\ [run.row EXCEPT !.sub = "none"] \in Row
        /\ [run.row EXCEPT !.sub = "none"].status = job.status
    BY <2>1, <1>row, <1>run, <1>pcs DEF Row
  <2>3. QED
    BY <1>3, <2>1, <2>2, <1>row, <1>stays, <1>pcs DEF ClearCommit
<1>4. CASE StoreCommit(r)
  <2> DEFINE b == [run.row EXCEPT !.task = run.task, !.sub = "submitted"]
  <2>1. run.pc = "store_commit" /\ RowStep
    BY <1>4 DEF StoreCommit, At
  <2>2. b \in Row /\ b.status = job.status
    BY <2>1, <1>row, <1>run, <1>pcs DEF Row
  <2>3. QED
    BY <1>4, <2>1, <2>2, <1>row, <1>stays, <1>pcs DEF StoreCommit
<1>5. CASE SubmitAccepted(r) \/ SubmitUncertain(r)
  <2>1. /\ run.pc = "submit" /\ job' = job /\ made' \in {made, made + 1}
        /\ garbled' = garbled
    BY <1>5 DEF SubmitAccepted, SubmitUncertain, At, db, bounds
  <2>2. made = 0
    BY <2>1, <1>facts, <1>run DEF RunFacts
  <2>3. Outcome = "open" /\ Outcome' = Outcome
    BY <2>1, <1>open, <1>pcs DEF Outcome
  <2>4. CASE made' = made
    BY <2>1, <2>3, <2>4, Stutters
  <2>5. CASE made' = 1
    BY <2>1, <2>2, <2>3, <2>5 DEF Once!Next, Once!Charge
  <2>6. QED
    BY <2>1, <2>2, <2>4, <2>5
<1>6. CASE SaveCommit(r)
  <2>1. run.pc = "save_commit" /\ made' = made /\ garbled' = garbled
    BY <1>6 DEF SaveCommit, At, bounds
  <2>2. made # 0
    BY <2>1 DEF PaidInv, Unpaid
  <2>3. made = 1
    BY <2>2, <1>facts, <1>run DEF RowFacts
  <2>4. job'.status = "succeeded"
    BY <1>6, <1>run DEF SaveCommit, Row
  <2>5. Outcome' = "done"
    BY <2>4 DEF Outcome
  <2>6. QED
    BY <2>1, <2>3, <2>5, <1>open, <1>pcs DEF Once!Next, Once!Deliver
<1>7. CASE FailCommit(r)
  <2> DEFINE b == [run.row EXCEPT !.status = "failed"]
  <2>1. /\ run.pc = "fail_commit" /\ UNCHANGED <<made, garbled>>
        /\ job' = Flush(run.row, b)
    BY <1>7 DEF FailCommit, At, RowStep, bounds
  <2>2. b \in Row /\ b.status = "failed" /\ run.row = job
    BY <2>1, <1>row, <1>run, <1>pcs DEF Row
  <2>3. job' = b
    BY <2>1, <2>2, FlushStored, <1>run
  <2>4. Outcome' = "failed"
    BY <2>2, <2>3 DEF Outcome
  <2>5. QED
    BY <2>1, <2>4, <1>open, <1>pcs DEF Once!Next, Once!Fail
<1>8. CASE UNCHANGED <<job, made, garbled>>
  BY <1>8, Stutters DEF Outcome
<1>10. CASE SubmitGarbled(r)
  <2>1. /\ run.pc = "submit" /\ UNCHANGED <<job, made>>
        /\ garbled' = garbled + 1
    BY <1>10 DEF SubmitGarbled, At, db
  <2>2. made = 0 /\ Outcome = "open" /\ Outcome' = Outcome
    BY <2>1, <1>facts, <1>run, <1>open, <1>pcs DEF RunFacts, Outcome
  <2>3. QED
    BY <2>1, <2>2 DEF Once!Next, Once!Waste
<1>9. QED
  BY <1>1, <1>2, <1>3, <1>4, <1>5, <1>6, <1>7, <1>8, <1>10
     DEF RunStep, Check, Input, Generate, Call, Claim, SubmitRejected,
         Clear, Store, Wait, Save, Fail, Close, LocalStep, db, bounds

\* No retry has been committed and no exception has escaped so far.
NoUpsets == resets = 0 /\ faults = 0

\* Without retries and escaped exceptions the row implements the abstract
\* candidate, however often the process is restarted: whatever is written, by
\* whichever coroutine, charges once, decides once, and delivers only what was
\* charged.
THEOREM PromiseKept == Kie => (Spec /\ []NoUpsets => Once!Safety)
<1> SUFFICES ASSUME Kie PROVE Spec /\ []NoUpsets => Once!Safety
  OBVIOUS
<1>1. Init => Once!Init /\ PaidInv
  <2> SUFFICES ASSUME Init PROVE Once!Init /\ PaidInv
    OBVIOUS
  <2>1. Fresh.task = NoTask /\ Fresh.status = "pending" /\ Unpaid(Off)
    BY DEF Fresh, Unpaid, Off
  <2>2. Once!Init
    BY <2>1, OpenRow DEF Init, Once!Init
  <2>3. QED
    BY <2>1, <2>2 DEF Init, RetryIdle, PaidInv
<1>2. Init => (early => resets > 0)
  BY DEF Init
<1>3. TypeInv /\ (early => resets > 0) /\ [Next]_vars => (early => resets > 0)'
  <2> SUFFICES ASSUME TypeInv, early => resets > 0, [Next]_vars
               PROVE  (early => resets > 0)'
    OBVIOUS
  <2>1. CASE RetryCommit
    BY <2>1, BoundsAssumption DEF RetryCommit, TypeInv, TypeOK
  <2>2. CASE UNCHANGED <<early, resets>>
    BY <2>2
  <2>3. QED
    BY <2>1, <2>2
       DEF Next, vars, LoopStep, RetryStep, Schedule, RecoverRead, RecoverCommit,
           PickThisRow, PickOthers, GatherDone, GoRound, Finish, RetryRead, RetryReplay,
           RetrySchedule, LoopDies, RunDies, SaveRefused, Crash, RunStep, Check, Input,
           InputCommit, Generate, Call, Claim, ClaimCommit, SubmitAccepted,
           SubmitUncertain, SubmitRejected, SubmitGarbled, Clear, ClearCommit, Store, StoreCommit, Wait,
           Save, SaveCommit, Fail, FailCommit, Close, LocalStep, RowStep, bounds
<1>4. /\ TypeInv /\ CalmInv /\ PaidInv /\ (early => resets > 0)
      /\ NoUpsets /\ NoUpsets' /\ [Next]_vars
      => [Once!Next]_(Once!vars)
  <2> SUFFICES ASSUME TypeInv, CalmInv, PaidInv, early => resets > 0,
                      NoUpsets, NoUpsets', [Next]_vars
               PROVE  [Once!Next]_(Once!vars)
    OBVIOUS
  <2>1. Facts /\ resets = 0
    BY DEF NoUpsets, CalmInv, Facts, Calm
  <2>2. CASE \E r \in Runs : RunStep(r)
    BY <2>1, <2>2, RunStepPromised
  <2>3. CASE RecoverCommit
    <3>1. /\ job.status = "running" /\ job'.status = "pending"
          /\ UNCHANGED <<made, garbled>>
      BY <2>1, <2>3 DEF RecoverCommit, bounds, Facts, NothingStale, TypeInv, TypeOK, Row
    <3>2. Outcome = "open" /\ Outcome' = "open"
      BY <3>1 DEF Outcome
    <3>3. QED
      BY <3>1, <3>2, Stutters
  <2>4. CASE RetryCommit
    BY <2>4 DEF RetryCommit, NoUpsets
  <2>5. CASE UNCHANGED <<job, made, garbled>>
    BY <2>5, Stutters DEF Outcome
  <2>6. QED
    BY <2>2, <2>3, <2>4, <2>5
       DEF Next, vars, LoopStep, RetryStep, Schedule, RecoverRead, PickThisRow,
           PickOthers, GatherDone, GoRound, Finish, RetryRead, RetryReplay,
           RetrySchedule, LoopDies, RunDies, SaveRefused, Crash, db, bounds
<1>5. QED
  BY <1>1, <1>2, <1>3, <1>4, TypeCorrect, CalmHolds, PaidInvInductive, PTL
     DEF Spec, Once!Safety

=============================================================================
