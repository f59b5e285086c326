------------------------ MODULE BatchGenerationProofs ------------------------
(***************************************************************************)
(* Theorems of BatchGeneration, for any number of slots, retries and       *)
(* restarts.                                                               *)
(***************************************************************************)
EXTENDS BatchGeneration, FiniteSetTheorems, FunctionTheorems, SequenceTheorems, TLAPS

-----------------------------------------------------------------------------
(* Natural numbers.                                                        *)

\* A set of natural numbers has a least element; proofs by induction take the
\* least number for which the claim fails.
LEMMA LeastNatural ==
  ASSUME NEW S \in SUBSET Nat, S # {}
  PROVE  \E x \in S : \A y \in S : x <= y
<1>1. PICK x \in S : \A y \in S : <<y, x>> \notin OpToRel(<, Nat)
  BY WFMin, NatLessThanWellFounded
<1>2. \A y \in S : ~ (y < x)
  BY <1>1 DEF OpToRel
<1>3. QED
  BY <1>2

-----------------------------------------------------------------------------
(* The slots: what the loop of _visible_slot_jobs computes.                *)

\* The rows of a slot among the first j, and those of them with a logo.
Own(k, j) == {i \in 1..j : jobs[i].slot = k}
Logos(k, j) == {i \in Own(k, j) : jobs[i].status = "succeeded"}

\* v is what _visible_slot_jobs shows in a slot after the first j rows: the first
\* row with a logo, else the newest.
Shows(k, j, v) ==
  /\ Own(k, j) = {} => v = 0
  /\ Own(k, j) # {} /\ Logos(k, j) = {} => v \in Own(k, j) /\ \A i \in Own(k, j) : i <= v
  /\ Logos(k, j) # {} => v \in Logos(k, j) /\ \A i \in Logos(k, j) : v <= i

\* There is one such row at most ...
LEMMA ShowsOne ==
  ASSUME NEW k, NEW j \in Nat, NEW v, NEW w, Shows(k, j, v), Shows(k, j, w)
  PROVE  v = w
<1>1. Own(k, j) \subseteq Nat /\ Logos(k, j) \subseteq Own(k, j)
  BY DEF Own, Logos
<1>2. QED
  BY <1>1 DEF Shows

\* ... none before the first row, ...
LEMMA ShowsNone == ASSUME NEW k PROVE Shows(k, 0, 0)
BY DEF Shows, Own, Logos

\* ... and the loop's body finds the next from the last.
LEMMA ShowsNext ==
  ASSUME NEW k, NEW j \in Nat \ {0}, NEW v, Shows(k, j - 1, v)
  PROVE  Shows(k, j, IF jobs[j].slot = k THEN Newer(v, j) ELSE v)
<1> DEFINE next == IF jobs[j].slot = k THEN Newer(v, j) ELSE v
<1>1. /\ Own(k, j) = IF jobs[j].slot = k THEN Own(k, j - 1) \union {j} ELSE Own(k, j - 1)
      /\ Logos(k, j) = IF jobs[j].slot = k /\ jobs[j].status = "succeeded"
                       THEN Logos(k, j - 1) \union {j} ELSE Logos(k, j - 1)
      /\ \A i \in Own(k, j - 1) : i \in Nat \ {0} /\ i < j
      /\ Logos(k, j - 1) \subseteq Own(k, j - 1)
  BY DEF Own, Logos
<1>2. CASE jobs[j].slot # k
  BY <1>1, <1>2 DEF Shows
<1>3. CASE jobs[j].slot = k /\ Own(k, j - 1) = {}
  BY <1>1, <1>3 DEF Shows, Newer
<1>4. CASE jobs[j].slot = k /\ Own(k, j - 1) # {} /\ Logos(k, j - 1) = {}
  <2>1. v \in Own(k, j - 1) /\ jobs[v].status # "succeeded"
    BY <1>4 DEF Shows, Logos
  <2>2. Newer(v, j) = j
    BY <2>1, <1>1 DEF Newer
  <2>3. QED
    BY <1>1, <1>4, <2>2 DEF Shows
<1>5. CASE jobs[j].slot = k /\ Logos(k, j - 1) # {}
  <2>1. v \in Logos(k, j - 1) /\ jobs[v].status = "succeeded" /\ v # 0 /\ v < j
    BY <1>1, <1>5 DEF Shows, Logos
  <2>2. Newer(v, j) = v
    BY <2>1 DEF Newer
  <2>3. QED
    BY <1>1, <1>5, <2>1, <2>2 DEF Shows
<1>6. QED
  BY <1>1, <1>2, <1>3, <1>4, <1>5

\* The loop shows this row: by induction on the rows it has seen.
LEMMA VisibleShows ==
  ASSUME NEW k, Len(jobs) \in Nat
  PROVE  Shows(k, Len(jobs), Visible(k))
<1> DEFINE n == Len(jobs)
           Body(f) == [j \in 0..n |-> IF j = 0 THEN 0
                                      ELSE IF jobs[j].slot = k THEN Newer(f[j - 1], j)
                                           ELSE f[j - 1]]
           shown == [j \in 0..n |-> CHOOSE v : Shows(k, j, v)]
           missing == {j \in 0..n : ~ \E v : Shows(k, j, v)}
<1>1. missing = {}
  <2>1. SUFFICES ASSUME missing # {} PROVE FALSE
    OBVIOUS
  <2>2. PICK j \in missing : \A i \in missing : j <= i
    <3>1. missing \in SUBSET Nat
      OBVIOUS
    <3> HIDE DEF missing
    <3>2. QED
      BY <2>1, <3>1, LeastNatural
  <2>3. j # 0
    BY ShowsNone, <2>2
  <2>4. j - 1 \in 0..n /\ j - 1 \notin missing
    BY <2>2, <2>3
  <2>5. PICK v : Shows(k, j - 1, v)
    BY <2>4
  <2>6. Shows(k, j, IF jobs[j].slot = k THEN Newer(v, j) ELSE v)
    BY <2>3, <2>5, ShowsNext
  <2>7. QED
    BY <2>2, <2>6
<1>2. \A j \in 0..n : Shows(k, j, shown[j])
  BY <1>1
<1>3. shown = Body(shown)
  <2>1. ASSUME NEW j \in 0..n PROVE shown[j] = Body(shown)[j]
    <3>1. CASE j = 0
      BY <1>2, <3>1, ShowsNone, ShowsOne
    <3>2. CASE j # 0
      <4>1. Shows(k, j - 1, shown[j - 1]) /\ j - 1 \in 0..n
        BY <1>2, <3>2
      <4>2. Shows(k, j, IF jobs[j].slot = k THEN Newer(shown[j - 1], j) ELSE shown[j - 1])
        BY <3>2, <4>1, ShowsNext
      <4>3. QED
        BY <1>2, <3>2, <4>2, ShowsOne
    <3>3. QED
      BY <3>1, <3>2
  <2>2. QED
    BY <2>1
<1>4. VisibleUpTo(k) = Body(VisibleUpTo(k))
  <2>1. VisibleUpTo(k) = CHOOSE f : f = Body(f)
    BY DEF VisibleUpTo
  <2>2. QED
    BY <1>3, <2>1
<1> DEFINE wrong == {j \in 0..n : ~ Shows(k, j, VisibleUpTo(k)[j])}
<1>5. wrong = {}
  <2>1. SUFFICES ASSUME wrong # {} PROVE FALSE
    OBVIOUS
  <2>2. PICK j \in wrong : \A i \in wrong : j <= i
    <3>1. wrong \in SUBSET Nat
      OBVIOUS
    <3> HIDE DEF wrong
    <3>2. QED
      BY <2>1, <3>1, LeastNatural
  <2>3. j # 0
    BY <1>4, ShowsNone, <2>2
  <2>4. j - 1 \in 0..n /\ Shows(k, j - 1, VisibleUpTo(k)[j - 1])
    BY <2>2, <2>3
  <2>5. QED
    BY <1>4, <2>2, <2>3, <2>4, ShowsNext
<1>6. QED
  BY <1>5 DEF Visible

-----------------------------------------------------------------------------
(* Types, rows and the plan.                                               *)

\* Every slot has its original row, and a row that says succeeded has its logo.
RowInv ==
  /\ Target <= Len(jobs)
  /\ \A k \in Slots : jobs[k + 1].slot = k
  /\ \A j \in Ordinals : jobs[j].status = "succeeded" => jobs[j].logo

\* The loop ends with the request, and plans no more rows than the budget has left.
LoopInv ==
  /\ status # "processing" => loop = "off"
  /\ loop # "replenish" => plan.slots = << >>
  /\ Len(jobs) + Len(plan.slots) <= Target + Budget

TypeInv == TypeOK /\ RowInv /\ LoopInv

\* The rows are a function on their ordinals, which are 1..Len(jobs).
LEMMA JobsFunction ==
  ASSUME jobs \in Seq(Job)
  PROVE  /\ Len(jobs) \in Nat
         /\ Ordinals = 1..Len(jobs)
         /\ jobs \in [1..Len(jobs) -> Job]
         /\ \A j \in Ordinals : jobs[j] \in Job
BY LenProperties DEF Ordinals

\* A function on 1..n with rows as values is such a sequence.
LEMMA JobsSequence ==
  ASSUME NEW n \in Nat, NEW rows \in [1..n -> Job]
  PROVE  rows \in Seq(Job) /\ Len(rows) = n /\ DOMAIN rows = 1..n
OBVIOUS

\* Changing one row leaves the others.
LEMMA OneRowChanged ==
  ASSUME jobs \in Seq(Job), NEW j \in Ordinals, NEW row \in Job,
         jobs' = [jobs EXCEPT ![j] = row]
  PROVE  /\ jobs' \in Seq(Job)
         /\ Len(jobs') = Len(jobs)
         /\ Ordinals' = Ordinals
         /\ jobs'[j] = row
         /\ \A i \in Ordinals : i # j => jobs'[i] = jobs[i]
BY JobsFunction, JobsSequence DEF Ordinals

\* Rows that differ from a word's are counted: every set of rows is finite.
LEMMA RowsFinite ==
  ASSUME jobs \in Seq(Job), NEW S \in SUBSET Ordinals
  PROVE  IsFiniteSet(S) /\ Cardinality(S) \in Nat /\ Cardinality(S) <= Len(jobs)
<1>1. IsFiniteSet(Ordinals) /\ Cardinality(Ordinals) = Len(jobs)
  BY JobsFunction, FS_Interval
<1>2. QED
  BY <1>1, FS_Subset, FS_CardinalityType

\* What is planned when failed rows are chosen fits the budget.
LEMMA SlotsChosen ==
  ASSUME TypeInv, NEW chosen \in Chosen
  PROVE  /\ Remaining \in Nat /\ Replaceable \in Nat /\ Replaceable <= Remaining
         /\ SlotsOf(chosen) \in Seq(Slots) /\ Len(SlotsOf(chosen)) = Replaceable
         /\ \A i \in 1..Replaceable : /\ chosen[i] \in With("failed")
                                      /\ SlotsOf(chosen)[i] = jobs[chosen[i]].slot
         /\ \A i, m \in 1..Replaceable : chosen[i] = chosen[m] => i = m
<1>1. Len(jobs) \in Nat /\ With("failed") \subseteq Ordinals /\ \A j \in Ordinals : jobs[j] \in Job
  BY JobsFunction DEF TypeInv, TypeOK, With
<1>2. Cardinality(With("failed")) \in Nat
  BY <1>1, RowsFinite DEF TypeInv, TypeOK
<1>3. Remaining \in Nat /\ Replaceable \in Nat /\ Replaceable <= Remaining
  BY <1>1, <1>2, LimitsAssumption, TargetAssumption DEF Remaining, Replaced, Replaceable
<1>4. /\ chosen \in [1..Replaceable -> With("failed")]
      /\ \A i, m \in 1..Replaceable : chosen[i] = chosen[m] => i = m
  BY Fun_InjectionProperties DEF Chosen
<1>5. \A i \in 1..Replaceable : jobs[chosen[i]].slot \in Slots
  BY <1>1, <1>4 DEF Job
<1>6. QED
  BY <1>3, <1>4, <1>5 DEF SlotsOf

\* New rows at the end leave the old ones.
LEMMA RowsAppended ==
  ASSUME jobs \in Seq(Job), NEW slots \in Seq(Slots),
         jobs' = jobs \o [i \in DOMAIN slots |-> Pending(slots[i])]
  PROVE  /\ jobs' \in Seq(Job)
         /\ Len(jobs') = Len(jobs) + Len(slots)
         /\ Ordinals \subseteq Ordinals' /\ Ordinals' = 1..(Len(jobs) + Len(slots))
         /\ \A j \in Ordinals : jobs'[j] = jobs[j]
         /\ \A j \in Ordinals' : j > Len(jobs) => /\ j - Len(jobs) \in 1..Len(slots)
                                                  /\ jobs'[j] = Pending(slots[j - Len(jobs)])
<1> DEFINE new == [i \in DOMAIN slots |-> Pending(slots[i])]
<1>1. DOMAIN slots = 1..Len(slots) /\ Len(slots) \in Nat
  BY LenProperties
<1>2. \A i \in 1..Len(slots) : Pending(slots[i]) \in Job
  BY <1>1 DEF Pending, Job
<1>3. new \in Seq(Job) /\ Len(new) = Len(slots)
  BY <1>1, <1>2, JobsSequence
<1> HIDE DEF new
<1>4. /\ jobs' \in Seq(Job)
      /\ Len(jobs') = Len(jobs) + Len(new)
      /\ \A i \in 1..(Len(jobs) + Len(new)) :
           jobs'[i] = IF i <= Len(jobs) THEN jobs[i] ELSE new[i - Len(jobs)]
  BY <1>3, ConcatProperties DEF new
<1>5. Ordinals' = 1..(Len(jobs) + Len(new)) /\ Ordinals = 1..Len(jobs) /\ Len(jobs) \in Nat
  BY <1>4, JobsFunction, LenProperties DEF Ordinals
<1>6. QED
  BY <1>1, <1>3, <1>4, <1>5 DEF new

\* A run has a row, and is one of the loop, of a retry, or an orphan.
LEMMA RunTypes ==
  ASSUME TypeInv, NEW run \in runs
  PROVE  /\ run \in [job : Ordinals, owner : {"loop", "retry", "orphan"}, begun : BOOLEAN]
         /\ run.job \in Ordinals /\ jobs[run.job] \in Job
BY JobsFunction DEF TypeInv, TypeOK

\* What a run raises takes it away, and its loop if it was gathered.
LEMMA RaisesRuns ==
  ASSUME TypeInv, NEW run \in runs, Raises(run)
  PROVE  /\ runs' \subseteq [job : Ordinals, owner : {"loop", "retry", "orphan"}, begun : BOOLEAN]
         /\ \/ plan' = NoPlan /\ loop' = "off"
            \/ UNCHANGED <<plan, loop>>
<1>1. \A r \in runs : [r EXCEPT !.owner = "orphan"] \in
        [job : Ordinals, owner : {"loop", "retry", "orphan"}, begun : BOOLEAN]
  BY RunTypes
<1>2. QED
  BY <1>1, RunTypes DEF Raises

\* Steps that leave the number of rows, their slots and the logos they have.
Restated(rows) ==
  /\ rows \in [1..Len(jobs) -> Job]
  /\ \A j \in Ordinals : /\ rows[j].slot = jobs[j].slot
                         /\ jobs[j].logo => rows[j].logo
                         /\ rows[j].status = "succeeded" => rows[j].logo

\* One row changed so is a restatement of the rows.
LEMMA RowRestated ==
  ASSUME TypeInv, NEW j \in Ordinals, NEW row \in Job, row.slot = jobs[j].slot,
         jobs[j].logo => row.logo, row.status = "succeeded" => row.logo
  PROVE  Restated([jobs EXCEPT ![j] = row])
BY JobsFunction DEF TypeInv, TypeOK, RowInv, Restated

\* What restates the rows keeps the invariant of the rows.
LEMMA RestatedInv ==
  ASSUME TypeInv, Restated(jobs')
  PROVE  /\ jobs' \in Seq(Job) /\ Len(jobs') = Len(jobs) /\ Ordinals' = Ordinals
         /\ RowInv'
<1>1. Len(jobs) \in Nat /\ Ordinals = 1..Len(jobs)
  BY JobsFunction DEF TypeInv, TypeOK
<1>2. jobs' \in Seq(Job) /\ Len(jobs') = Len(jobs) /\ Ordinals' = Ordinals
  BY <1>1, JobsSequence DEF Restated, Ordinals
<1>3. \A k \in Slots : k + 1 \in Ordinals
  BY <1>1, TargetAssumption DEF TypeInv, RowInv, Slots
<1>4. QED
  BY <1>1, <1>2, <1>3 DEF TypeInv, RowInv, Restated

\* _persist_failure and its like.
LEMMA FailedRestated ==
  ASSUME TypeInv, NEW j \in Ordinals, NEW error \in Errors
  PROVE  Restated(Failed(j, error))
<1>1. jobs[j] \in Job /\ jobs \in [1..Len(jobs) -> Job]
  BY JobsFunction DEF TypeInv, TypeOK
<1>2. CASE jobs[j].status = "succeeded"
  BY <1>1, <1>2 DEF Failed, Restated, TypeInv, RowInv
<1>3. CASE jobs[j].status # "succeeded"
  <2> DEFINE row == [jobs[j] EXCEPT !.status = "failed", !.error = error]
  <2>1. /\ row \in Job /\ row.slot = jobs[j].slot /\ row.logo = jobs[j].logo
        /\ row.status = "failed"
    BY <1>1 DEF Job
  <2>2. Failed(j, error) = [jobs EXCEPT ![j] = row]
    BY <1>1, <1>3 DEF Failed
  <2> HIDE DEF row
  <2>3. QED
    BY <2>1, <2>2, RowRestated
<1>4. QED
  BY <1>2, <1>3

\* No plan is a plan.
LEMMA NoPlanType ==
  /\ NoPlan \in [status : {"processing", "succeeded", "failed"}, full : BOOLEAN,
                 slots : Seq(Slots)]
  /\ NoPlan.slots = << >> /\ Len(NoPlan.slots) = 0 /\ NoPlan.status = "processing"
BY EmptySeq DEF NoPlan

\* Initially.
LEMMA InitTypes == Init => TypeInv
<1> SUFFICES ASSUME Init PROVE TypeInv
  OBVIOUS
<1>1. jobs \in [1..Target -> Job] /\ \A j \in 1..Target : jobs[j] = Pending(j - 1)
  BY TargetAssumption DEF Init, Pending, Job, Slots
<1>2. jobs \in Seq(Job) /\ Len(jobs) = Target /\ Ordinals = 1..Target
  BY <1>1, TargetAssumption, JobsSequence DEF Ordinals
<1>3. RowInv
  BY <1>1, <1>2, TargetAssumption DEF RowInv, Slots, Pending
<1>4. LoopInv
  BY <1>2, TargetAssumption, LimitsAssumption, NoPlanType DEF LoopInv, Init
<1>5. TypeOK
  <2>1. plan \in [status : {"processing", "succeeded", "failed"}, full : BOOLEAN,
                 slots : Seq(Slots)]
    BY NoPlanType DEF Init
  <2>2. runs \subseteq [job : Ordinals, owner : {"loop", "retry", "orphan"}, begun : BOOLEAN]
    BY DEF Init
  <2>3. /\ status \in {"processing", "succeeded", "failed"} /\ full \in BOOLEAN
        /\ loop = "off" /\ tokens \subseteq Slots /\ early \in BOOLEAN /\ lost \in BOOLEAN
        /\ overtaken \in BOOLEAN /\ retried \subseteq Slots
    BY DEF Init
  <2>4. retries = 0 /\ crashes = 0 /\ escapes = 0
    BY DEF Init
  <2>5. retries \in 0..MaxRetries /\ crashes \in 0..MaxCrashes /\ escapes \in 0..MaxEscapes
    BY <2>4, BoundsAssumption
  <2>6. QED
    BY <1>2, <2>1, <2>2, <2>3, <2>5 DEF TypeOK
<1>6. QED
  BY <1>3, <1>4, <1>5 DEF TypeInv

\* A step of the loop or of Poll or Crash that leaves the rows and the runs, or
\* takes runs away.
LEMMA RowsKept ==
  ASSUME TypeInv, UNCHANGED jobs
  PROVE  Ordinals' = Ordinals /\ RowInv'
BY DEF TypeInv, RowInv, Ordinals

\* The steps that write rows and add none restate them.
RowStep ==
  Recover \/ Begin \/ BeginFails \/ Fail \/ Succeed \/ \E k \in Slots : Retry(k)

LEMMA RowsRestated ==
  ASSUME TypeInv, RowStep \/ UNCHANGED jobs
  PROVE  Restated(jobs')
<1>1. CASE Recover
  <2>1. Restated(jobs')
    <3>1. ASSUME NEW j \in Ordinals
          PROVE  [jobs[j] EXCEPT !.status = "pending"] \in Job
      BY JobsFunction DEF TypeInv, TypeOK, Job
    <3>2. QED
      BY <1>1, <3>1, JobsFunction DEF Recover, Restated, TypeInv, TypeOK, RowInv, With, Job
  <2>2. QED
    BY <2>1
<1>2. CASE Begin
  <2>1. PICK run \in runs :
          \/ jobs' = [jobs EXCEPT ![run.job].status = "running", ![run.job].error = "none"]
          \/ UNCHANGED jobs
    BY <1>2 DEF Begin
  <2>2. Restated(jobs')
    <3> DEFINE row == [jobs[run.job] EXCEPT !.status = "running", !.error = "none"]
    <3>1. /\ row \in Job /\ row.slot = jobs[run.job].slot /\ row.logo = jobs[run.job].logo
          /\ row.status = "running" /\ run.job \in Ordinals
      BY RunTypes DEF Job
    <3>2. [jobs EXCEPT ![run.job].status = "running", ![run.job].error = "none"]
            = [jobs EXCEPT ![run.job] = row]
      BY <3>1, JobsFunction DEF TypeInv, TypeOK
    <3> HIDE DEF row
    <3>3. CASE jobs' = [jobs EXCEPT ![run.job].status = "running",
                                    ![run.job].error = "none"]
      BY <3>1, <3>2, <3>3, RowRestated
    <3>4. CASE UNCHANGED jobs
      BY <3>4, JobsFunction DEF TypeInv, TypeOK, RowInv, Restated
    <3>5. QED
      BY <2>1, <3>3, <3>4
  <2>3. QED
    BY <2>2
<1>3. CASE BeginFails
  <2>1. PICK run \in runs : jobs' = Failed(run.job, "terminal")
    BY <1>3 DEF BeginFails
  <2>2. QED
    BY <2>1, RunTypes, FailedRestated DEF Errors
<1>4. CASE Fail
  <2>1. PICK run \in runs, error \in Errors : jobs' = Failed(run.job, error)
    BY <1>4 DEF Fail
  <2>2. QED
    BY <2>1, RunTypes, FailedRestated
<1>5. CASE Succeed
  <2>1. PICK run \in runs :
          jobs' = IF jobs[run.job].status = "succeeded" THEN jobs
                  ELSE [jobs EXCEPT ![run.job].status = "succeeded",
                                    ![run.job].error = "none", ![run.job].logo = TRUE]
    BY <1>5 DEF Succeed
  <2>2. Restated(jobs')
    <3> DEFINE row == [jobs[run.job] EXCEPT !.status = "succeeded", !.error = "none",
                                            !.logo = TRUE]
    <3>1. /\ row \in Job /\ row.slot = jobs[run.job].slot /\ row.logo
          /\ run.job \in Ordinals
      BY RunTypes DEF Job
    <3>2. \/ jobs' = jobs
          \/ jobs' = [jobs EXCEPT ![run.job] = row]
      BY <2>1, <3>1, JobsFunction DEF TypeInv, TypeOK
    <3> HIDE DEF row
    <3>3. CASE jobs' = jobs
      BY <3>3, JobsFunction DEF TypeInv, TypeOK, RowInv, Restated
    <3>4. CASE jobs' = [jobs EXCEPT ![run.job] = row]
      BY <3>1, <3>4, RowRestated
    <3>5. QED
      BY <3>2, <3>3, <3>4
  <2>3. QED
    BY <2>2
<1>6. ASSUME NEW k \in Slots, Retry(k) PROVE Restated(jobs')
  <2>1. k + 1 \in Ordinals
    BY JobsFunction, TargetAssumption DEF TypeInv, TypeOK, RowInv, Slots
  <2>2. Restated(jobs')
    <3> DEFINE row == [jobs[k + 1] EXCEPT !.status = "pending", !.error = "none"]
    <3>1. /\ row \in Job /\ row.slot = jobs[k + 1].slot /\ row.logo = jobs[k + 1].logo
          /\ row.status = "pending"
      BY <2>1, JobsFunction DEF Job, TypeInv, TypeOK
    <3>2. jobs' = [jobs EXCEPT ![k + 1] = row]
      BY <1>6, <2>1, JobsFunction DEF Retry, TypeInv, TypeOK
    <3> HIDE DEF row
    <3>3. QED
      BY <2>1, <3>1, <3>2, RowRestated
  <2>3. QED
    BY <2>2
<1>7. CASE UNCHANGED jobs
  BY <1>7, JobsFunction DEF TypeInv, TypeOK, RowInv, Restated
<1>8. QED
  BY <1>1, <1>2, <1>3, <1>4, <1>5, <1>6, <1>7 DEF RowStep

\* Every other step leaves the rows, or is the replenishment.
LEMMA RowsStep ==
  ASSUME TypeInv, [Next]_vars
  PROVE  Restated(jobs') \/ Replenish
<1>1. RowStep \/ Replenish \/ UNCHANGED jobs
  BY DEF Next, LoopStep, RunStep, RowStep, vars, request, history, retrying, stops, Schedule,
     Pick, GatherDone, Count, Finish, RuntimeUnavailable, SucceedRefused, Poll, Crash, Raises,
     LoopEscapes, RunEscapes
<1>2. QED
  BY <1>1, RowsRestated

\* Every step keeps the types.
LEMMA TypeStep ==
  ASSUME TypeInv, [Next]_vars
  PROVE  TypeInv'
<1> USE DEF request, history, retrying, stops
<1>len. Len(jobs) \in Nat
  BY JobsFunction DEF TypeInv, TypeOK
<1>noplan. /\ NoPlan \in [status : {"processing", "succeeded", "failed"}, full : BOOLEAN,
                          slots : Seq(Slots)]
           /\ NoPlan.slots = << >> /\ Len(NoPlan.slots) = 0
  BY NoPlanType
<1>restated. RowStep => Restated(jobs')
  BY RowsRestated
<1>1. CASE Schedule
  BY <1>1, RowsKept DEF Schedule, TypeInv, TypeOK, LoopInv
<1>2. CASE Recover
  BY <1>2, <1>restated, RestatedInv DEF RowStep, Recover, TypeInv, TypeOK, LoopInv
<1>3. CASE Pick
  <2>1. \A j \in With("pending") :
          LoopRun(j) \in [job : Ordinals, owner : {"loop", "retry", "orphan"}, begun : BOOLEAN]
    BY DEF LoopRun, With
  <2>2. QED
    BY <1>3, <2>1, RowsKept DEF Pick, TypeInv, TypeOK, LoopInv
<1>4. CASE GatherDone
  BY <1>4, RowsKept DEF GatherDone, TypeInv, TypeOK, LoopInv
<1>5. CASE Count
  <2>1. \A full_ \in BOOLEAN : /\ Ended(full_) \in [status : {"processing", "succeeded", "failed"},
                                              full : BOOLEAN, slots : Seq(Slots)]
                               /\ Ended(full_).slots = << >>
    BY EmptySeq DEF Ended
  <2>2. CASE loop' = "finish"
    BY <1>5, <2>1, <2>2, <1>len, RowsKept DEF Count, TypeInv, TypeOK, LoopInv
  <2>3. CASE loop' # "finish"
    <3>1. PICK chosen \in Chosen : plan' = [NoPlan EXCEPT !.slots = SlotsOf(chosen)]
      BY <1>5, <2>3 DEF Count
    <3>2. /\ SlotsOf(chosen) \in Seq(Slots) /\ Len(SlotsOf(chosen)) \in Nat
          /\ Len(SlotsOf(chosen)) <= Remaining /\ Remaining \in Nat
      BY SlotsChosen
    <3>3. Remaining > 0 => Len(jobs) + Remaining <= Target + Budget
      BY <1>len, TargetAssumption, LimitsAssumption DEF Remaining, Replaced, TypeInv, RowInv
    <3>4. /\ plan' \in [status : {"processing", "succeeded", "failed"},
                        full : BOOLEAN, slots : Seq(Slots)]
          /\ plan'.slots = SlotsOf(chosen)
      BY <3>1, <3>2, <1>noplan
    <3>5. loop = "count" /\ loop' = "replenish" /\ Remaining > 0
          /\ UNCHANGED <<request, jobs, runs, history>>
      BY <1>5, <2>3 DEF Count
    <3>6. LoopInv'
      BY <3>2, <3>3, <3>4, <3>5, <1>len, LimitsAssumption, TargetAssumption
      DEF TypeInv, TypeOK, LoopInv
    <3>7. QED
      BY <3>4, <3>5, <3>6, RowsKept DEF TypeInv, TypeOK
  <2>4. QED
    BY <2>2, <2>3
<1>6. CASE Finish
  BY <1>6, <1>noplan, <1>len, RowsKept DEF Finish, TypeInv, TypeOK, LoopInv
<1>7. CASE Replenish
  <2>1. /\ jobs' \in Seq(Job) /\ Len(jobs') = Len(jobs) + Len(plan.slots)
        /\ Ordinals \subseteq Ordinals' /\ Ordinals' = 1..(Len(jobs) + Len(plan.slots))
        /\ \A j \in Ordinals : jobs'[j] = jobs[j]
        /\ \A j \in Ordinals' : j > Len(jobs) =>
             /\ j - Len(jobs) \in 1..Len(plan.slots)
             /\ jobs'[j] = Pending(plan.slots[j - Len(jobs)])
    BY <1>7, RowsAppended DEF Replenish, TypeInv, TypeOK
  <2>2. Len(plan.slots) \in Nat /\ \A k \in Slots : k + 1 \in Ordinals
    BY JobsFunction, TargetAssumption, LenProperties DEF TypeInv, TypeOK, RowInv, Slots
  <2>3. RowInv'
    BY <2>1, <2>2, <1>len, JobsFunction, TargetAssumption DEF TypeInv, TypeOK, RowInv, Pending
  <2>4. LoopInv'
    BY <1>7, <2>1, <1>noplan, <1>len DEF Replenish, TypeInv, LoopInv
  <2>5. runs' \subseteq [job : Ordinals', owner : {"loop", "retry", "orphan"}, begun : BOOLEAN]
    BY <1>7, <2>1, RunTypes DEF Replenish
  <2>6. /\ plan' = NoPlan /\ loop' = "recover" /\ UNCHANGED <<request, history>>
    BY <1>7 DEF Replenish
  <2>7. TypeOK'
    BY <2>1, <2>5, <2>6, <1>noplan DEF TypeInv, TypeOK
  <2>8. QED
    BY <2>3, <2>4, <2>7 DEF TypeInv
<1>8. CASE RuntimeUnavailable
  <2>1. /\ plan' = NoPlan /\ loop' = "off" /\ status' = "failed" /\ full' = FALSE
        /\ lost' = TRUE /\ UNCHANGED <<jobs, runs, retrying, overtaken, stops>>
    BY <1>8 DEF RuntimeUnavailable
  <2>2. TypeOK'
    BY <2>1, <1>noplan, RowsKept DEF TypeInv, TypeOK
  <2>3. LoopInv'
    BY <2>1, <1>noplan, <1>len, TargetAssumption, LimitsAssumption, LenProperties
    DEF TypeInv, TypeOK, LoopInv
  <2>4. QED
    BY <2>1, <2>2, <2>3, RowsKept DEF TypeInv
<1>9. CASE Begin
  <2>1. PICK run \in runs :
          /\ ~run.begun
          /\ \/ /\ jobs' = [jobs EXCEPT ![run.job].status = "running", ![run.job].error = "none"]
                /\ runs' = (runs \ {run}) \union {[run EXCEPT !.begun = TRUE]}
             \/ /\ runs' = runs \ {run}
                /\ UNCHANGED jobs
          /\ UNCHANGED <<request, loop, plan, history>>
    BY <1>9 DEF Begin
  <2>3. runs' \subseteq [job : Ordinals, owner : {"loop", "retry", "orphan"}, begun : BOOLEAN]
    <3>1. [run EXCEPT !.begun = TRUE] \in
            [job : Ordinals, owner : {"loop", "retry", "orphan"}, begun : BOOLEAN]
      BY RunTypes
    <3>2. QED
      BY <2>1, <3>1, RunTypes
  <2>4. QED
    BY <1>9, <1>restated, <2>1, <2>3, RestatedInv DEF RowStep, TypeInv, TypeOK, LoopInv
<1>10. CASE BeginFails
  BY <1>10, <1>restated, RestatedInv DEF RowStep, BeginFails, TypeInv, TypeOK, LoopInv
<1>11. CASE Fail
  BY <1>11, <1>restated, RestatedInv DEF RowStep, Fail, TypeInv, TypeOK, LoopInv
<1>12. CASE Succeed
  BY <1>12, <1>restated, RestatedInv DEF RowStep, Succeed, TypeInv, TypeOK, LoopInv
<1>13. CASE SucceedRefused
  <2>1. PICK run \in runs : Raises(run)
    BY <1>13 DEF SucceedRefused
  <2>2. UNCHANGED <<request, jobs, history>>
    BY <1>13 DEF SucceedRefused
  <2>3. /\ runs' \subseteq [job : Ordinals, owner : {"loop", "retry", "orphan"}, begun : BOOLEAN]
        /\ \/ plan' = NoPlan /\ loop' = "off"
           \/ UNCHANGED <<plan, loop>>
    BY <2>1, RaisesRuns
  <2>4. TypeOK'
    BY <2>2, <2>3, <1>noplan, RowsKept DEF TypeInv, TypeOK
  <2>5. LoopInv'
    BY <2>2, <2>3, <1>noplan, <1>len, TargetAssumption, LimitsAssumption, LenProperties
    DEF TypeInv, TypeOK, LoopInv
  <2>6. QED
    BY <2>2, <2>4, <2>5, RowsKept DEF TypeInv
<1>14. CASE Poll
  BY <1>14, RowsKept DEF Poll, TypeInv, TypeOK, LoopInv, VisibleSlots
<1>15. ASSUME NEW k \in Slots, Retry(k) PROVE TypeInv'
  <2>1. k + 1 \in Ordinals
    BY JobsFunction, TargetAssumption DEF TypeInv, TypeOK, RowInv, Slots
  <2>3. runs' \subseteq [job : Ordinals, owner : {"loop", "retry", "orphan"}, begun : BOOLEAN]
    <3>1. RetryRun(k) \in [job : Ordinals, owner : {"loop", "retry", "orphan"}, begun : BOOLEAN]
      BY <2>1 DEF RetryRun
    <3>2. QED
      BY <1>15, <3>1, RunTypes DEF Retry
  <2>4. retries' \in 0..MaxRetries /\ early' \in BOOLEAN /\ retried' \subseteq Slots
    BY <1>15, BoundsAssumption DEF Retry, TypeInv, TypeOK
  <2>5. QED
    BY <1>15, <1>restated, <2>3, <2>4, RestatedInv DEF RowStep, Retry, TypeInv, TypeOK, LoopInv
<1>16. CASE Crash
  <2>1. crashes' \in 0..MaxCrashes
    BY <1>16, BoundsAssumption DEF Crash, TypeInv, TypeOK
  <2>2. runs' \subseteq [job : Ordinals', owner : {"loop", "retry", "orphan"}, begun : BOOLEAN]
    BY <1>16 DEF Crash
  <2>3. /\ plan' = NoPlan /\ loop' = "off"
        /\ UNCHANGED <<request, jobs, retrying, lost, overtaken, escapes>>
    BY <1>16 DEF Crash
  <2>4. TypeOK'
    BY <2>1, <2>2, <2>3, <1>noplan DEF TypeInv, TypeOK
  <2>5. LoopInv'
    BY <2>3, <1>noplan, <1>len, TargetAssumption, LimitsAssumption, LenProperties
    DEF TypeInv, TypeOK, LoopInv
  <2>6. QED
    BY <2>3, <2>4, <2>5, RowsKept DEF TypeInv
<1>17. CASE LoopEscapes
  <2>1. escapes' \in 0..MaxEscapes
    BY <1>17, BoundsAssumption DEF LoopEscapes, TypeInv, TypeOK
  <2>2. /\ plan' = NoPlan /\ loop' = "off"
        /\ UNCHANGED <<request, jobs, runs, retrying, lost, overtaken, crashes>>
    BY <1>17 DEF LoopEscapes
  <2>3. TypeOK'
    BY <2>1, <2>2, <1>noplan, RowsKept DEF TypeInv, TypeOK
  <2>4. LoopInv'
    BY <2>2, <1>noplan, <1>len, TargetAssumption, LimitsAssumption, LenProperties
    DEF TypeInv, TypeOK, LoopInv
  <2>5. QED
    BY <2>2, <2>3, <2>4, RowsKept DEF TypeInv
<1>18. CASE RunEscapes
  <2>1. escapes' \in 0..MaxEscapes
    BY <1>18, BoundsAssumption DEF RunEscapes, TypeInv, TypeOK
  <2>2. PICK run \in runs : Raises(run)
    BY <1>18 DEF RunEscapes
  <2>3. UNCHANGED <<request, jobs, retrying, lost, overtaken, crashes>>
    BY <1>18 DEF RunEscapes
  <2>4. /\ runs' \subseteq [job : Ordinals, owner : {"loop", "retry", "orphan"}, begun : BOOLEAN]
        /\ \/ plan' = NoPlan /\ loop' = "off"
           \/ UNCHANGED <<plan, loop>>
    BY <2>2, RaisesRuns
  <2>5. TypeOK'
    BY <2>1, <2>3, <2>4, <1>noplan, RowsKept DEF TypeInv, TypeOK
  <2>6. LoopInv'
    BY <2>3, <2>4, <1>noplan, <1>len, TargetAssumption, LimitsAssumption, LenProperties
    DEF TypeInv, TypeOK, LoopInv
  <2>7. QED
    BY <2>3, <2>5, <2>6, RowsKept DEF TypeInv
<1>19. CASE UNCHANGED vars
  BY <1>19, RowsKept DEF vars, request, history, retrying, stops, TypeInv, TypeOK, LoopInv
<1>20. QED
  BY <1>1, <1>2, <1>3, <1>4, <1>5, <1>6, <1>7, <1>8, <1>9, <1>10, <1>11, <1>12, <1>13,
     <1>14, <1>15, <1>16, <1>17, <1>18, <1>19 DEF Next, LoopStep, RunStep

\* Every reachable state is of its types.
LEMMA TypeInvariant == Spec => []TypeInv
BY InitTypes, TypeStep, PTL DEF Spec

\* The variables of a request, its rows, its runs and its plan keep their types.
THEOREM TypeCorrect == Spec => []TypeOK
<1>1. TypeInv => TypeOK
  BY DEF TypeInv
<1>2. QED
  BY <1>1, TypeInvariant, PTL

\* However often execute() is restarted or a slot is retried, the rows of a
\* request stay within target_count and the replenishment budget: what the loop
\* has planned is counted with what is there.
THEOREM Budgeted == Spec => []WithinBudget
<1>1. TypeInv => WithinBudget
  <2> SUFFICES ASSUME TypeInv PROVE WithinBudget
    OBVIOUS
  <2>1. Len(jobs) \in Nat /\ Len(plan.slots) \in Nat
    BY LenProperties DEF TypeInv, TypeOK
  <2>2. QED
    BY <2>1, TargetAssumption, LimitsAssumption DEF TypeInv, LoopInv, WithinBudget
<1>2. QED
  BY <1>1, TypeInvariant, PTL

-----------------------------------------------------------------------------
(* What the customer sees.                                                 *)

\* A slot shows one of its rows: one with a logo when it has any, and it counts
\* as delivered just when it has.
LEMMA SlotShown ==
  ASSUME TypeInv, NEW k \in Slots
  PROVE  /\ Shows(k, Len(jobs), Visible(k))
         /\ Visible(k) \in Ordinals /\ jobs[Visible(k)].slot = k
         /\ k + 1 \in Ordinals /\ jobs[k + 1].slot = k
         /\ Delivered(k) <=> \E j \in With("succeeded") : jobs[j].slot = k
<1>1. Len(jobs) \in Nat /\ Ordinals = 1..Len(jobs)
  BY JobsFunction DEF TypeInv, TypeOK
<1>2. Shows(k, Len(jobs), Visible(k))
  BY <1>1, VisibleShows
<1>3. k + 1 \in Ordinals /\ jobs[k + 1].slot = k
  BY <1>1, TargetAssumption DEF TypeInv, RowInv, Slots
<1>4. k + 1 \in Own(k, Len(jobs))
  BY <1>1, <1>3 DEF Own
<1>5. Visible(k) \in Own(k, Len(jobs))
  BY <1>2, <1>4 DEF Shows, Logos
<1>6. Visible(k) \in Ordinals /\ jobs[Visible(k)].slot = k
  BY <1>1, <1>5 DEF Own
<1>7. Logos(k, Len(jobs)) = {j \in With("succeeded") : jobs[j].slot = k}
  BY <1>1 DEF Logos, Own, With
<1>8. Delivered(k) <=> Logos(k, Len(jobs)) # {}
  BY <1>2, <1>5, <1>6, <1>7 DEF Shows, Delivered, Logos, TypeInv, RowInv
<1>9. QED
  BY <1>2, <1>3, <1>6, <1>7, <1>8

\* _visible_slot_jobs finds what it is meant to, whatever rows a slot has.
THEOREM VisibleRight == Spec => []VisibleIsFirstLogoOrNewest
<1>1. TypeInv => VisibleIsFirstLogoOrNewest
  <2> SUFFICES ASSUME TypeInv, NEW k \in VisibleSlots
               PROVE  LET own == {j \in Ordinals : jobs[j].slot = k}
                          logos == own \intersect With("succeeded")
                      IN  /\ Visible(k) \in own
                          /\ logos # {} => /\ Visible(k) \in logos
                                           /\ \A j \in logos : Visible(k) <= j
                          /\ logos = {} => \A j \in own : j <= Visible(k)
    BY DEF VisibleIsFirstLogoOrNewest
  <2>1. k \in Slots
    BY DEF VisibleSlots
  <2>2. Ordinals = 1..Len(jobs)
    BY JobsFunction DEF TypeInv, TypeOK
  <2>3. /\ {j \in Ordinals : jobs[j].slot = k} = Own(k, Len(jobs))
        /\ Own(k, Len(jobs)) \intersect With("succeeded") = Logos(k, Len(jobs))
    BY <2>2 DEF Own, Logos, With
  <2>4. Shows(k, Len(jobs), Visible(k)) /\ Visible(k) \in Own(k, Len(jobs))
    BY <2>1, <2>3, SlotShown
  <2>5. QED
    BY <2>3, <2>4 DEF Shows
<1>2. QED
  BY <1>1, TypeInvariant, PTL

-----------------------------------------------------------------------------
(* Logos and the end of a request.                                         *)

\* A request that ended, or will end, as succeeded has a logo.
LogoInv == "succeeded" \in {status, plan.status} => \E j \in Ordinals : jobs[j].logo

\* Nothing succeeded is nothing to count.
LEMMA NoSuccess ==
  ASSUME TypeInv
  PROVE  Successes \in Nat /\ (Successes = 0 <=> With("succeeded") = {})
<1>1. With("succeeded") \in SUBSET Ordinals
  BY DEF With
<1>2. QED
  BY <1>1, RowsFinite, FS_EmptySet DEF Successes, TypeInv, TypeOK

\* A logo once saved stays with its row.
LEMMA LogosKept ==
  ASSUME TypeInv, [Next]_vars, \E j \in Ordinals : jobs[j].logo
  PROVE  (\E j \in Ordinals : jobs[j].logo)'
<1>1. CASE Restated(jobs')
  BY <1>1, RestatedInv DEF Restated
<1>2. CASE Replenish
  BY <1>2, RowsAppended DEF Replenish, TypeInv, TypeOK
<1>3. QED
  BY <1>1, <1>2, RowsStep

\* The status of a request and of the plan: written by the count, the finish
\* and the lost policy only.
LEMMA StatusStep ==
  ASSUME TypeInv, [Next]_vars
  PROVE  \/ Count \/ Finish \/ RuntimeUnavailable
         \/ status' = status /\ plan'.status \in {plan.status, "processing"}
BY NoPlanType
DEF Next, LoopStep, RunStep, vars, request, history, retrying, stops, Schedule, Recover, Pick,
    GatherDone, Replenish, Begin, BeginFails, Fail, Succeed, SucceedRefused, Poll, Retry,
    Crash, Raises, LoopEscapes, RunEscapes

\* Every step keeps it.
LEMMA LogoStep ==
  ASSUME TypeInv, LogoInv, [Next]_vars
  PROVE  LogoInv'
<1>1. CASE Count
  <2>1. Successes > 0 => \E j \in Ordinals : jobs[j].logo
    BY NoSuccess DEF With, TypeInv, RowInv
  <2>2. plan'.status = "succeeded" => Successes > 0
    BY <1>1, NoPlanType DEF Count, Ended, NoPlan
  <2>3. UNCHANGED <<status, jobs>>
    BY <1>1 DEF Count, request
  <2>4. QED
    BY <2>1, <2>2, <2>3 DEF LogoInv, Ordinals
<1>2. CASE Finish
  BY <1>2, NoPlanType DEF Finish, LogoInv, Ordinals
<1>3. CASE RuntimeUnavailable
  BY <1>3, NoPlanType DEF RuntimeUnavailable, LogoInv
<1>4. CASE status' = status /\ plan'.status \in {plan.status, "processing"}
  BY <1>4, LogosKept DEF LogoInv
<1>5. QED
  BY <1>1, <1>2, <1>3, <1>4, StatusStep

-----------------------------------------------------------------------------
(* Calm: no slot was retried while its request was still processing, and   *)
(* no loop was started over the orphans of another.                        *)

\* A row is decided when nothing will be done for it any more.
Decided(j) == jobs[j].status \in {"succeeded", "failed"}

\* Rows say what their runs are doing, ...
RunsSettled ==
  /\ \A run \in runs : jobs[run.job].status = IF run.begun THEN "running" ELSE "pending"
  /\ \A run, other \in runs : run.job = other.job => run = other

\* ... runs belong to the gathering loop, are what it has left behind, or belong to
\* retries of an ended request, ...
RunsOwned ==
  \A run \in runs : \/ run.owner = "loop" /\ loop = "gather"
                    \/ run.owner = "orphan" /\ loop = "off" /\ status = "processing"
                    \/ run.owner = "retry" /\ status # "processing" /\ run.job <= Target

\* ... and where the loop counts, plans and finishes, or has finished, its rows
\* are decided.
RowsSettled ==
  /\ \A j \in Ordinals : jobs[j].logo => jobs[j].status = "succeeded"
  /\ loop = "pick" => With("running") = {}
  /\ loop \in {"count", "finish", "replenish"} => \A j \in Ordinals : Decided(j)
  /\ status # "processing" => \A j \in Ordinals : j > Target => Decided(j)

CalmInv == Calm => RunsSettled /\ RunsOwned /\ RowsSettled

\* History only grows.
LEMMA CalmStays == ASSUME TypeInv, [Next]_vars, Calm' PROVE Calm
BY DEF Calm, TypeInv, TypeOK, Next, LoopStep, RunStep, vars, request, history, retrying, stops,
   Schedule, Recover, Pick, GatherDone, Count, Finish, Replenish, RuntimeUnavailable, Begin,
   BeginFails, Fail, Succeed, SucceedRefused, Poll, Retry, Crash, Raises, LoopEscapes,
   RunEscapes

\* Besides its gathering, a loop has no runs.
LEMMA NoRuns ==
  ASSUME TypeInv, CalmInv, Calm, loop \notin {"gather", "off"}
  PROVE  runs = {} /\ status = "processing"
BY DEF TypeInv, LoopInv, CalmInv, RunsOwned

\* What a run does to its row: it begins, fails, or succeeds.
Ran(run, row) ==
  /\ jobs' = [jobs EXCEPT ![run.job] = row]
  /\ row \in Job
  /\ row.slot = jobs[run.job].slot
  /\ jobs[run.job].status \in {"pending", "running"}
  /\ \/ /\ row.status = "running" /\ row.logo = jobs[run.job].logo
        /\ ~run.begun
        /\ runs' = (runs \ {run}) \union {[run EXCEPT !.begun = TRUE]}
     \/ /\ row.status = "failed" /\ row.logo = jobs[run.job].logo
        /\ runs' = runs \ {run}
     \/ /\ row.status = "succeeded" /\ row.logo
        /\ runs' = runs \ {run}
  /\ UNCHANGED <<request, loop, plan, history>>

\* In a calm state no run finds its row changed under it.
LEMMA RunStepCalm ==
  ASSUME TypeInv, CalmInv, Calm, RunStep
  PROVE  \E run \in runs, row \in Job : Ran(run, row)
<1>calm. RunsSettled /\ RowsSettled
  BY DEF CalmInv
<1>jobs. jobs \in [1..Len(jobs) -> Job] /\ Ordinals = 1..Len(jobs)
  BY JobsFunction DEF TypeInv, TypeOK
<1>1. CASE Begin
  <2>1. PICK run \in runs :
          /\ ~run.begun
          /\ \/ /\ jobs' = [jobs EXCEPT ![run.job].status = "running", ![run.job].error = "none"]
                /\ runs' = (runs \ {run}) \union {[run EXCEPT !.begun = TRUE]}
             \/ jobs[run.job].status # "pending"
          /\ UNCHANGED <<request, loop, plan, history>>
    BY <1>1 DEF Begin
  <2> DEFINE row == [jobs[run.job] EXCEPT !.status = "running", !.error = "none"]
  <2>2. /\ row \in Job /\ row.slot = jobs[run.job].slot /\ row.logo = jobs[run.job].logo
        /\ row.status = "running" /\ run.job \in Ordinals
    BY RunTypes DEF Job
  <2>3. jobs[run.job].status = "pending"
    BY <1>calm, <2>1 DEF RunsSettled
  <2>4. jobs' = [jobs EXCEPT ![run.job] = row]
    BY <1>jobs, <2>1, <2>2, <2>3
  <2>5. runs' = (runs \ {run}) \union {[run EXCEPT !.begun = TRUE]}
    BY <2>1, <2>3
  <2> HIDE DEF row
  <2>6. QED
    BY <2>1, <2>2, <2>3, <2>4, <2>5 DEF Ran
<1>2. ASSUME NEW run \in runs, NEW error \in Errors, jobs' = Failed(run.job, error),
             runs' = runs \ {run}, UNCHANGED <<request, loop, plan, history>>
      PROVE  \E r \in runs, row \in Job : Ran(r, row)
  <2> DEFINE row == [jobs[run.job] EXCEPT !.status = "failed", !.error = error]
  <2>1. /\ row \in Job /\ row.slot = jobs[run.job].slot /\ row.logo = jobs[run.job].logo
        /\ row.status = "failed" /\ run.job \in Ordinals
    BY RunTypes DEF Job
  <2>2. jobs[run.job].status \in {"pending", "running"}
    BY <1>calm DEF RunsSettled
  <2>3. jobs' = [jobs EXCEPT ![run.job] = row]
    BY <1>jobs, <1>2, <2>1, <2>2 DEF Failed
  <2> HIDE DEF row
  <2>4. QED
    BY <1>2, <2>1, <2>2, <2>3 DEF Ran
<1>3. CASE BeginFails
  BY <1>2, <1>3 DEF BeginFails, Errors
<1>4. CASE Fail
  BY <1>2, <1>4 DEF Fail
<1>5. CASE Succeed
  <2>1. PICK run \in runs :
          /\ jobs' = IF jobs[run.job].status = "succeeded" THEN jobs
                     ELSE [jobs EXCEPT ![run.job].status = "succeeded",
                                       ![run.job].error = "none", ![run.job].logo = TRUE]
          /\ runs' = runs \ {run}
          /\ UNCHANGED <<request, loop, plan, history>>
    BY <1>5 DEF Succeed
  <2> DEFINE row == [jobs[run.job] EXCEPT !.status = "succeeded", !.error = "none",
                                          !.logo = TRUE]
  <2>2. /\ row \in Job /\ row.slot = jobs[run.job].slot /\ row.logo
        /\ row.status = "succeeded" /\ run.job \in Ordinals
    BY RunTypes DEF Job
  <2>3. jobs[run.job].status \in {"pending", "running"}
    BY <1>calm DEF RunsSettled
  <2>4. jobs' = [jobs EXCEPT ![run.job] = row]
    BY <1>jobs, <2>1, <2>2, <2>3
  <2> HIDE DEF row
  <2>5. QED
    BY <2>1, <2>2, <2>3, <2>4 DEF Ran
<1>6. CASE SucceedRefused
  <2>1. PICK run \in runs : jobs[run.job].logo /\ jobs[run.job].status # "succeeded"
    BY <1>6 DEF SucceedRefused, Raises
  <2>2. QED
    BY <1>calm, <2>1, RunTypes DEF RowsSettled
<1>7. QED
  BY <1>1, <1>3, <1>4, <1>5, <1>6 DEF RunStep

\* ... and changes that row only.
LEMMA RanRows ==
  ASSUME TypeInv, NEW run \in runs, NEW row \in Job, Ran(run, row)
  PROVE  /\ run.job \in Ordinals /\ Ordinals' = Ordinals /\ jobs'[run.job] = row
         /\ \A j \in Ordinals : j # run.job => jobs'[j] = jobs[j]
BY RunTypes, OneRowChanged DEF TypeInv, TypeOK, Ran

\* A retry finds its row failed and without a run.
LEMMA RetryCalm ==
  ASSUME TypeInv, CalmInv, Calm, NEW k \in Slots, Retry(k), Calm'
  PROVE  /\ k + 1 \in Ordinals /\ k + 1 <= Target /\ jobs[k + 1].slot = k
         /\ jobs[k + 1].status = "failed" /\ status # "processing"
         /\ \A run \in runs : run.job # k + 1
         /\ runs' = runs \union {RetryRun(k)}
         /\ Ordinals' = Ordinals
         /\ jobs'[k + 1] = [jobs[k + 1] EXCEPT !.status = "pending", !.error = "none"]
         /\ \A j \in Ordinals : j # k + 1 => jobs'[j] = jobs[j]
         /\ UNCHANGED <<request, loop, plan>>
<1>1. k + 1 \in Ordinals /\ k + 1 <= Target /\ jobs[k + 1].slot = k
  BY SlotShown, TargetAssumption DEF Slots
<1>2. jobs[k + 1].status = "failed" /\ status # "processing" /\ UNCHANGED <<request, loop, plan>>
  BY DEF Retry, Calm
<1>3. \A run \in runs : run.job # k + 1
  BY <1>2 DEF CalmInv, RunsSettled
<1>4. runs' = runs \union {RetryRun(k)}
  BY <1>3 DEF Retry, Retrying
<1>5. [jobs[k + 1] EXCEPT !.status = "pending", !.error = "none"] \in Job
  BY <1>1, JobsFunction DEF TypeInv, TypeOK, Job
<1>6. jobs' = [jobs EXCEPT ![k + 1] = [jobs[k + 1] EXCEPT !.status = "pending", !.error = "none"]]
  BY <1>1, JobsFunction DEF Retry, TypeInv, TypeOK
<1>7. QED
  BY <1>1, <1>2, <1>3, <1>4, <1>5, <1>6, OneRowChanged DEF TypeInv, TypeOK

\* Every step keeps a calm state calm.
LEMMA CalmStep ==
  ASSUME TypeInv, CalmInv, [Next]_vars
  PROVE  CalmInv'
<1> SUFFICES ASSUME Calm' PROVE (RunsSettled /\ RunsOwned /\ RowsSettled)'
  BY DEF CalmInv
<1>calm0. Calm
  BY CalmStays
<1>calm. RunsSettled /\ RunsOwned /\ RowsSettled
  BY <1>calm0 DEF CalmInv
<1>jobs. jobs \in [1..Len(jobs) -> Job] /\ Ordinals = 1..Len(jobs) /\ Len(jobs) \in Nat
  BY JobsFunction DEF TypeInv, TypeOK
<1>none. loop \notin {"gather", "off"} => runs = {} /\ status = "processing"
  BY <1>calm0, NoRuns
<1>1. CASE Schedule
  <2>1. Orphans = {} /\ status = "processing" /\ loop = "off"
    BY <1>1 DEF Schedule, Calm
  <2>2. runs = {}
    BY <2>1, <1>calm DEF RunsOwned, Orphans
  <2>3. QED
    BY <1>1, <2>1, <2>2, <1>calm
    DEF Schedule, request, RunsSettled, RunsOwned, RowsSettled, Decided, Ordinals
<1>2. CASE Recover
  <2>1. runs' = {} /\ loop' = "pick" /\ status' = "processing"
    BY <1>2, <1>none DEF Recover, request
  <2>2. /\ Ordinals' = Ordinals
        /\ \A j \in Ordinals : /\ jobs'[j].logo = jobs[j].logo /\ jobs'[j].status # "running"
                               /\ jobs[j].status = "succeeded" => jobs'[j].status = "succeeded"
    BY <1>2, <1>jobs DEF Recover, With, Ordinals, Job
  <2>3. QED
    BY <2>1, <2>2, <1>calm DEF RunsSettled, RunsOwned, RowsSettled, With
<1>3. CASE Pick
  <2>1. runs = {} /\ status = "processing" /\ UNCHANGED <<status, jobs>>
    BY <1>3, <1>none DEF Pick, request
  <2>2. runs' = {LoopRun(j) : j \in With("pending")}
    BY <1>3, <2>1 DEF Pick
  <2>3. RunsSettled'
    <3>1. \A run \in runs' : \E j \in With("pending") : run = LoopRun(j)
      BY <2>2
    <3>2. \A j \in With("pending") : /\ LoopRun(j).job = j /\ ~LoopRun(j).begun
                                     /\ jobs[j].status = "pending"
      BY DEF LoopRun, With
    <3>3. QED
      BY <2>1, <3>1, <3>2 DEF RunsSettled
  <2>4. RunsOwned'
    BY <1>3, <2>1, <2>2 DEF Pick, RunsOwned, LoopRun
  <2>5. loop' = "count" => \A j \in Ordinals : Decided(j)
    BY <1>3, <1>calm, <1>jobs DEF Pick, RowsSettled, With, Decided, Job
  <2>6. RowsSettled'
    BY <1>3, <1>calm, <2>1, <2>5 DEF Pick, RowsSettled, Decided, Ordinals
  <2>7. QED
    BY <2>3, <2>4, <2>6
<1>4. CASE GatherDone
  <2>1. runs = {}
    BY <1>4, <1>calm DEF GatherDone, RunsOwned, TypeInv, LoopInv
  <2>2. QED
    BY <1>4, <2>1, <1>calm
    DEF GatherDone, request, history, retrying, stops, RunsSettled, RunsOwned, RowsSettled,
        Decided, Ordinals
<1>5. CASE Count
  BY <1>5, <1>calm, <1>none
  DEF Count, request, history, retrying, stops, RunsSettled, RunsOwned, RowsSettled, Decided,
      Ordinals
<1>6. CASE Finish
  BY <1>6, <1>calm, <1>none
  DEF Finish, history, retrying, stops, RunsSettled, RunsOwned, RowsSettled, Decided, Ordinals
<1>7. CASE Replenish
  <2>1. runs' = {} /\ loop' = "recover" /\ status' = "processing"
    BY <1>7, <1>none DEF Replenish, request
  <2>2. RunsSettled' /\ RunsOwned'
    BY <2>1 DEF RunsSettled, RunsOwned
  <2>3. \A j \in Ordinals' : jobs'[j].logo => jobs'[j].status = "succeeded"
    <3>1. /\ Ordinals' = 1..(Len(jobs) + Len(plan.slots)) /\ Len(plan.slots) \in Nat
          /\ \A j \in Ordinals : jobs'[j] = jobs[j]
          /\ \A j \in Ordinals' : j > Len(jobs) =>
               jobs'[j] = Pending(plan.slots[j - Len(jobs)])
      BY <1>7, RowsAppended, LenProperties DEF Replenish, TypeInv, TypeOK
    <3>2. \A slot : Pending(slot).logo = FALSE
      BY DEF Pending
    <3>3. \A j \in Ordinals' : j \notin Ordinals => j > Len(jobs)
      BY <3>1, <1>jobs
    <3>4. QED
      BY <3>1, <3>2, <3>3, <1>calm DEF RowsSettled
  <2>4. QED
    BY <2>1, <2>2, <2>3 DEF RowsSettled
<1>8. CASE RuntimeUnavailable
  BY <1>8, <1>calm, <1>none
  DEF RuntimeUnavailable, RunsSettled, RunsOwned, RowsSettled, Decided, Ordinals
<1>9. CASE RunStep
  <2>1. PICK run \in runs, row \in Job : Ran(run, row)
    BY <1>9, <1>calm0, RunStepCalm
  <2>2. /\ run.job \in Ordinals /\ Ordinals' = Ordinals /\ jobs'[run.job] = row
        /\ \A j \in Ordinals : j # run.job => jobs'[j] = jobs[j]
    BY <2>1, RanRows
  <2>3. UNCHANGED <<status, loop>>
    BY <2>1 DEF Ran, request
  <2>4. run \in [job : Ordinals, owner : {"loop", "retry", "orphan"}, begun : BOOLEAN]
    BY RunTypes
  <2>5. /\ [run EXCEPT !.begun = TRUE].job = run.job
        /\ [run EXCEPT !.begun = TRUE].owner = run.owner
        /\ [run EXCEPT !.begun = TRUE].begun = TRUE
    BY <2>4
  <2>6. \A r \in runs : r # run => r.job # run.job /\ r.job \in Ordinals
    BY <1>calm, RunTypes DEF RunsSettled
  <2>7. \A r \in runs' : \/ r \in runs /\ r # run
                         \/ r = [run EXCEPT !.begun = TRUE] /\ row.status = "running"
    BY <2>1 DEF Ran
  <2>8. RunsSettled'
    <3>1. \A r \in runs' : r.job = run.job => r = [run EXCEPT !.begun = TRUE] /\ r.begun
      BY <2>5, <2>6, <2>7
    <3>2. \A r \in runs' : r.job # run.job => r \in runs /\ jobs'[r.job] = jobs[r.job]
      BY <2>2, <2>5, <2>6, <2>7
    <3>3. \A r \in runs' : r.job = run.job => jobs'[r.job].status = "running"
      BY <2>2, <2>5, <2>6, <2>7
    <3>4. QED
      BY <3>1, <3>2, <3>3, <1>calm DEF RunsSettled
  <2>9. RunsOwned'
    BY <2>3, <2>5, <2>7, <1>calm DEF RunsOwned
  <2>10. RowsSettled'
    <3>1. row.logo => row.status = "succeeded"
      BY <2>1, <2>2, <1>calm DEF Ran, RowsSettled
    <3>2. \/ loop = "gather"
          \/ loop = "off" /\ (status = "processing" \/ run.job <= Target)
      BY <1>calm DEF RunsOwned, TypeInv, LoopInv
    <3>3. loop = "gather" => status = "processing"
      BY DEF TypeInv, LoopInv
    <3>4. \A j \in Ordinals' : jobs'[j].logo => jobs'[j].status = "succeeded"
      BY <2>2, <3>1, <1>calm DEF RowsSettled
    <3>5. loop' \notin {"pick", "count", "finish", "replenish"}
      BY <2>3, <3>2
    <3>6. status' # "processing" => \A j \in Ordinals' : j > Target => Decided(j)'
      BY <2>2, <2>3, <3>2, <3>3, <1>calm, <1>jobs, TargetAssumption DEF RowsSettled, Decided
    <3>7. QED
      BY <3>4, <3>5, <3>6 DEF RowsSettled
  <2>11. QED
    BY <2>8, <2>9, <2>10
<1>10. CASE Poll
  BY <1>10, <1>calm
  DEF Poll, request, RunsSettled, RunsOwned, RowsSettled, Decided, Ordinals, With
<1>11. ASSUME NEW k \in Slots, Retry(k) PROVE (RunsSettled /\ RunsOwned /\ RowsSettled)'
  <2>1. /\ k + 1 \in Ordinals /\ k + 1 <= Target
        /\ jobs[k + 1].status = "failed" /\ status # "processing"
        /\ \A run \in runs : run.job # k + 1
        /\ runs' = runs \union {RetryRun(k)}
        /\ Ordinals' = Ordinals
        /\ jobs'[k + 1] = [jobs[k + 1] EXCEPT !.status = "pending", !.error = "none"]
        /\ \A j \in Ordinals : j # k + 1 => jobs'[j] = jobs[j]
        /\ UNCHANGED <<status, loop>>
    BY <1>11, <1>calm0, RetryCalm DEF request
  <2>2. jobs'[k + 1].status = "pending" /\ jobs'[k + 1].logo = jobs[k + 1].logo
    BY <2>1, <1>jobs DEF Job
  <2>3. RetryRun(k).job = k + 1 /\ ~RetryRun(k).begun /\ RetryRun(k).owner = "retry"
    BY DEF RetryRun
  <2>4. RunsSettled'
    <3>1. \A run \in runs : jobs'[run.job] = jobs[run.job] /\ run.job # RetryRun(k).job
      BY <2>1, <2>3, RunTypes
    <3>2. QED
      BY <2>1, <2>2, <2>3, <3>1, <1>calm DEF RunsSettled
  <2>5. RunsOwned'
    BY <2>1, <2>3, <1>calm DEF RunsOwned
  <2>6. loop = "off"
    BY <2>1 DEF TypeInv, LoopInv
  <2>7. RowsSettled'
    <3>1. ~jobs[k + 1].logo
      BY <2>1, <1>calm DEF RowsSettled
    <3>2. ~jobs'[k + 1].logo
      BY <2>2, <3>1
    <3>3. \A j \in Ordinals' : jobs'[j].logo => jobs'[j].status = "succeeded"
      BY <2>1, <3>2, <1>calm DEF RowsSettled
    <3>4. \A j \in Ordinals' : j > Target => Decided(j)'
      BY <2>1, <1>calm, <1>jobs, TargetAssumption DEF RowsSettled, Decided
    <3>5. QED
      BY <2>1, <2>6, <3>3, <3>4 DEF RowsSettled
  <2>8. QED
    BY <2>4, <2>5, <2>7
<1>12. CASE Crash
  BY <1>12, <1>calm
  DEF Crash, request, RunsSettled, RunsOwned, RowsSettled, Decided, Ordinals, With
<1>13. CASE LoopEscapes
  BY <1>13, <1>calm, <1>none
  DEF LoopEscapes, request, RunsSettled, RunsOwned, RowsSettled, Decided, Ordinals
<1>14. CASE RunEscapes
  <2>1. PICK run \in runs : Raises(run)
    BY <1>14 DEF RunEscapes
  <2>2. UNCHANGED <<status, jobs>> /\ Ordinals' = Ordinals
    BY <1>14 DEF RunEscapes, request, Ordinals
  <2>3. CASE run.owner # "loop"
    <3>1. runs' = runs \ {run} /\ UNCHANGED loop
      BY <2>1, <2>3 DEF Raises
    <3>2. QED
      BY <2>2, <3>1, <1>calm DEF RunsSettled, RunsOwned, RowsSettled, Decided, With
  <2>4. CASE run.owner = "loop"
    <3>1. /\ loop' = "off"
          /\ runs' = {IF r.owner = "loop" THEN [r EXCEPT !.owner = "orphan"] ELSE r :
                        r \in runs \ {run}}
      BY <2>1, <2>4 DEF Raises
    <3>2. loop = "gather" /\ status = "processing"
      BY <2>4, <1>calm DEF RunsOwned, TypeInv, LoopInv
    <3>3. \A r \in runs : /\ r.owner = "loop"
                          /\ [r EXCEPT !.owner = "orphan"].job = r.job
                          /\ [r EXCEPT !.owner = "orphan"].begun = r.begun
                          /\ [r EXCEPT !.owner = "orphan"].owner = "orphan"
      BY <3>2, <1>calm, RunTypes DEF RunsOwned
    <3>4. runs' = {[r EXCEPT !.owner = "orphan"] : r \in runs \ {run}}
      BY <3>1, <3>3
    <3>5. RunsSettled'
      <4>1. \A r \in runs' : \E q \in runs \ {run} :
              r = [q EXCEPT !.owner = "orphan"] /\ r.job = q.job /\ r.begun = q.begun
        BY <3>3, <3>4
      <4>2. \A r \in runs' : jobs'[r.job].status = IF r.begun THEN "running" ELSE "pending"
        BY <2>2, <4>1, <1>calm DEF RunsSettled
      <4>3. \A r, other \in runs' : r.job = other.job => r = other
        BY <4>1, <1>calm DEF RunsSettled
      <4>4. QED
        BY <4>2, <4>3 DEF RunsSettled
    <3>6. RunsOwned'
      BY <2>2, <3>1, <3>2, <3>3, <3>4 DEF RunsOwned
    <3>7. RowsSettled'
      BY <2>2, <3>1, <3>2, <1>calm DEF RowsSettled
    <3>8. QED
      BY <3>5, <3>6, <3>7
  <2>5. QED
    BY <2>3, <2>4
<1>15. CASE UNCHANGED vars
  BY <1>15, <1>calm
  DEF vars, request, history, retrying, stops, RunsSettled, RunsOwned, RowsSettled, Decided,
      Ordinals, With
<1>16. QED
  BY <1>1, <1>2, <1>3, <1>4, <1>5, <1>6, <1>7, <1>8, <1>9, <1>10, <1>11, <1>12, <1>13, <1>14,
     <1>15
  DEF Next, LoopStep

\* Initially.
LEMMA InitCalm == Init => CalmInv /\ LogoInv
<1> SUFFICES ASSUME Init PROVE CalmInv /\ LogoInv
  OBVIOUS
<1>1. /\ runs = {} /\ loop = "off" /\ status = "processing" /\ plan = NoPlan
      /\ \A j \in Ordinals : jobs[j] = Pending(j - 1)
  BY DEF Init, Ordinals
<1>2. \A slot : Pending(slot).logo = FALSE
  BY DEF Pending
<1>3. RowsSettled
  BY <1>1, <1>2 DEF RowsSettled
<1>4. RunsSettled /\ RunsOwned
  BY <1>1 DEF RunsSettled, RunsOwned
<1>5. LogoInv
  BY <1>1, NoPlanType DEF LogoInv
<1>6. QED
  BY <1>3, <1>4, <1>5 DEF CalmInv

-----------------------------------------------------------------------------
(* After the end.                                                          *)

\* Whatever of an ended request is not decided, or has a logo though it failed, was
\* retried; and the loop ends a request as failed only if no row succeeded.
RetriedInv ==
  Calm =>
    /\ status # "processing" =>
         \A j \in Ordinals : Decided(j) \/ jobs[j].slot \in retried
    /\ loop = "finish" /\ plan.status = "failed" => With("succeeded") = {}
    /\ status = "failed" /\ ~lost =>
         \A j \in With("succeeded") : jobs[j].slot \in retried

\* Every step keeps it.
LEMMA RetriedStep ==
  ASSUME TypeInv, CalmInv, RetriedInv, [Next]_vars
  PROVE  RetriedInv'
<1> SUFFICES ASSUME Calm'
             PROVE  (/\ status # "processing" =>
                          \A j \in Ordinals : Decided(j) \/ jobs[j].slot \in retried
                     /\ loop = "finish" /\ plan.status = "failed" => With("succeeded") = {}
                     /\ status = "failed" /\ ~lost =>
                          \A j \in With("succeeded") : jobs[j].slot \in retried)'
  BY DEF RetriedInv
<1>calm. Calm
  BY CalmStays
<1>old. /\ status # "processing" =>
             \A j \in Ordinals : Decided(j) \/ jobs[j].slot \in retried
        /\ loop = "finish" /\ plan.status = "failed" => With("succeeded") = {}
        /\ status = "failed" /\ ~lost =>
             \A j \in With("succeeded") : jobs[j].slot \in retried
  BY <1>calm DEF RetriedInv
<1>off. status # "processing" => loop = "off"
  BY DEF TypeInv, LoopInv
<1>1. CASE Schedule \/ Recover \/ Pick \/ GatherDone \/ Replenish
  <2>1. status' = "processing" /\ loop' # "finish"
    BY <1>1, <1>off DEF Schedule, Recover, Pick, GatherDone, Replenish, request
  <2>2. QED
    BY <2>1
<1>2. CASE Count
  <2>1. plan'.status = "failed" => With("succeeded") = {}
    BY <1>2, NoSuccess, NoPlanType DEF Count, Ended, NoPlan
  <2>2. UNCHANGED <<request, jobs>> /\ status = "processing"
    BY <1>2, <1>off DEF Count
  <2>3. QED
    BY <2>1, <2>2 DEF request, With, Ordinals
<1>3. CASE Finish
  <2>1. loop = "finish" /\ status' = plan.status /\ loop' = "off" /\ UNCHANGED jobs
    BY <1>3 DEF Finish
  <2>2. \A j \in Ordinals : Decided(j)
    BY <2>1, <1>calm DEF CalmInv, RowsSettled
  <2>3. QED
    BY <2>1, <2>2, <1>old DEF With, Ordinals, Decided
<1>4. CASE RuntimeUnavailable
  <2>1. \A j \in Ordinals : Decided(j)
    BY <1>4, <1>calm DEF RuntimeUnavailable, CalmInv, RowsSettled
  <2>2. QED
    BY <1>4, <2>1 DEF RuntimeUnavailable, Ordinals, Decided
<1>5. CASE RunStep
  <2>1. PICK run \in runs, row \in Job : Ran(run, row)
    BY <1>5, <1>calm, RunStepCalm
  <2>2. /\ run.job \in Ordinals /\ Ordinals' = Ordinals /\ jobs'[run.job] = row
        /\ \A j \in Ordinals : j # run.job => jobs'[j] = jobs[j]
    BY <2>1, RanRows
  <2>3. ~Decided(run.job) /\ row.slot = jobs[run.job].slot
    BY <2>1 DEF Ran, Decided
  <2>4. loop # "finish"
    BY <2>2, <2>3, <1>calm DEF CalmInv, RowsSettled
  <2>5. UNCHANGED <<status, loop, plan, retried, lost>>
    BY <2>1 DEF Ran, request, history, retrying
  <2>6. status # "processing" => row.slot \in retried
    BY <2>2, <2>3, <1>old
  <2>7. \A j \in Ordinals : jobs'[j] = jobs[j] \/ (j = run.job /\ jobs'[j].slot = row.slot)
    BY <2>2
  <2>8. status' # "processing" => \A j \in Ordinals' : (Decided(j) \/ jobs[j].slot \in retried)'
    BY <2>2, <2>5, <2>6, <2>7, <1>old DEF Decided
  <2>9. status' = "failed" /\ ~lost' => \A j \in With("succeeded")' : jobs'[j].slot \in retried'
    BY <2>2, <2>5, <2>6, <2>7, <1>old DEF With
  <2>10. QED
    BY <2>4, <2>5, <2>8, <2>9
<1>6. ASSUME NEW k \in Slots, Retry(k)
      PROVE  (/\ status # "processing" =>
                   \A j \in Ordinals : Decided(j) \/ jobs[j].slot \in retried
              /\ loop = "finish" /\ plan.status = "failed" => With("succeeded") = {}
              /\ status = "failed" /\ ~lost =>
                   \A j \in With("succeeded") : jobs[j].slot \in retried)'
  <2>1. /\ k + 1 \in Ordinals /\ jobs[k + 1].slot = k
        /\ Ordinals' = Ordinals /\ status # "processing"
        /\ jobs'[k + 1] = [jobs[k + 1] EXCEPT !.status = "pending", !.error = "none"]
        /\ \A j \in Ordinals : j # k + 1 => jobs'[j] = jobs[j]
        /\ UNCHANGED <<status, loop, plan>>
    BY <1>6, <1>calm, RetryCalm DEF request
  <2>2. jobs'[k + 1].slot = k /\ jobs'[k + 1].status = "pending"
    BY <2>1, JobsFunction DEF TypeInv, TypeOK, Job
  <2>3. retried' = retried \union {k} /\ UNCHANGED lost
    BY <1>6 DEF Retry
  <2>4. loop' # "finish"
    BY <2>1, <1>off
  <2>5. \A j \in Ordinals' : (Decided(j) \/ jobs[j].slot \in retried)'
    BY <2>1, <2>2, <2>3, <1>old DEF Decided
  <2>6. status' = "failed" /\ ~lost' => \A j \in With("succeeded")' : jobs'[j].slot \in retried'
    BY <2>1, <2>2, <2>3, <1>old DEF With
  <2>7. QED
    BY <2>4, <2>5, <2>6
<1>7. CASE Poll \/ Crash \/ LoopEscapes \/ RunEscapes \/ UNCHANGED vars
  <2>1. /\ UNCHANGED <<status, jobs, lost, retried>>
        /\ loop' = "finish" => loop = "finish" /\ UNCHANGED plan
    BY <1>7
    DEF Poll, Crash, LoopEscapes, RunEscapes, Raises, vars, request, history, retrying
  <2>2. QED
    BY <2>1, <1>old DEF With, Ordinals, Decided
<1>8. QED
  BY <1>1, <1>2, <1>3, <1>4, <1>5, <1>6, <1>7 DEF Next, LoopStep

\* Initially.
LEMMA InitRetried == Init => RetriedInv
BY DEF Init, RetriedInv

\* The invariant of a request, before and after its end.
LEMMA RequestInvariant == Spec => [](TypeInv /\ CalmInv /\ LogoInv /\ RetriedInv)
<1>1. Init => TypeInv /\ CalmInv /\ LogoInv /\ RetriedInv
  BY InitTypes, InitCalm, InitRetried
<1>2. TypeInv /\ CalmInv /\ LogoInv /\ RetriedInv /\ [Next]_vars
        => (TypeInv /\ CalmInv /\ LogoInv /\ RetriedInv)'
  BY TypeStep, CalmStep, LogoStep, RetriedStep
<1>3. QED
  BY <1>1, <1>2, PTL DEF Spec

\* A request reported as succeeded has a logo, whatever was retried or left behind;
\* one reported as failed has, if it was calm and its policy there, none but of
\* slots retried since.
THEOREM EndsMatchLogos == Spec => []EndMatchesLogos
<1>1. TypeInv /\ CalmInv /\ LogoInv /\ RetriedInv => EndMatchesLogos
  <2> SUFFICES ASSUME TypeInv, CalmInv, LogoInv, RetriedInv PROVE EndMatchesLogos
    OBVIOUS
  <2>1. status = "succeeded" => \E j \in Ordinals : jobs[j].logo
    BY DEF LogoInv
  <2>2. ASSUME status = "failed", Calm, ~lost
        PROVE  \A j \in Ordinals : jobs[j].logo => jobs[j].slot \in retried
    BY <2>2 DEF RetriedInv, CalmInv, RowsSettled, With
  <2>3. QED
    BY <2>1, <2>2 DEF EndMatchesLogos
<1>2. QED
  BY <1>1, RequestInvariant, PTL

\* The loop ends a calm request only when every candidate of it is decided and no
\* coroutine of it is left, through every restart and every exception that ended
\* a loop before; what runs or waits afterwards was retried.
THEOREM NothingLeft == Spec => []NothingLeftRunning
<1>1. TypeInv /\ CalmInv /\ RetriedInv => NothingLeftRunning
  <2> SUFFICES ASSUME TypeInv, CalmInv, RetriedInv, Calm, status # "processing"
               PROVE  /\ \A run \in runs : run.owner = "retry"
                      /\ \A j \in With("pending") \union With("running") :
                           jobs[j].slot \in retried
    BY DEF NothingLeftRunning
  <2>1. \A run \in runs : run.owner = "retry"
    BY DEF CalmInv, RunsOwned, TypeInv, LoopInv
  <2>2. \A j \in Ordinals : Decided(j) \/ jobs[j].slot \in retried
    BY DEF RetriedInv
  <2>3. QED
    BY <2>1, <2>2 DEF With, Decided
<1>2. QED
  BY <1>1, RequestInvariant, PTL

-----------------------------------------------------------------------------
(* Slots, where the budget is of two replacements at most, as it is.  With *)
(* three, a slot can fail twice and its two failed rows be replaced both.  *)

\* Of the rows of one slot, all but one failed: the others were replaced.
OneAlive ==
  \A i, j \in Ordinals :
    i # j /\ jobs[i].slot = jobs[j].slot => "failed" \in {jobs[i].status, jobs[j].status}

\* A replacement is of a slot whose original row failed, ...
OriginalsFailed ==
  \A j \in Ordinals : j > Target => jobs[jobs[j].slot + 1].status = "failed"

\* ... and if it is the only one so far, though there could be two, no other
\* slot needed one.
OthersSucceeded ==
  Len(jobs) = Target + 1 /\ Remaining > 0 =>
    \A j \in 1..Target : jobs[j].slot # jobs[Target + 1].slot => jobs[j].status = "succeeded"

\* The loop plans new rows for slots all of whose rows failed, one each; if it
\* plans fewer than the budget allows, no other slot needs one.
PlanInv ==
  /\ \A i \in 1..Len(plan.slots), j \in Ordinals :
       jobs[j].slot = plan.slots[i] => jobs[j].status = "failed"
  /\ \A i, m \in 1..Len(plan.slots) : plan.slots[i] = plan.slots[m] => i = m
  /\ loop = "replenish" =>
       \/ Len(plan.slots) = 1
       \/ Len(jobs) = Target /\ Len(plan.slots) = Budget
  /\ loop = "replenish" /\ Len(jobs) = Target /\ Len(plan.slots) < Budget =>
       \A j \in Ordinals : jobs[j].slot # plan.slots[1] => jobs[j].status = "succeeded"

SlotInv ==
  Calm =>
    /\ OneAlive
    /\ status = "processing" => OriginalsFailed /\ OthersSucceeded
    /\ PlanInv

\* As long as there are originals only, each slot has one row.
LEMMA OriginalsDistinct ==
  ASSUME TypeInv, NEW i \in Ordinals, NEW j \in Ordinals, i <= Target, j <= Target,
         jobs[i].slot = jobs[j].slot
  PROVE  i = j
<1>1. Ordinals = 1..Len(jobs) /\ Len(jobs) \in Nat
  BY JobsFunction DEF TypeInv, TypeOK
<1>2. i - 1 \in Slots /\ j - 1 \in Slots
  BY <1>1, TargetAssumption DEF Slots
<1>3. jobs[(i - 1) + 1].slot = i - 1 /\ jobs[(j - 1) + 1].slot = j - 1
  BY <1>2 DEF TypeInv, RowInv
<1>4. (i - 1) + 1 = i /\ (j - 1) + 1 = j
  BY <1>1
<1>5. QED
  BY <1>1, <1>3, <1>4

\* The rows stay as they are, the plan is dropped or kept: nothing to show.
LEMMA SlotsKept ==
  ASSUME SlotInv, Calm, UNCHANGED jobs, status' = "processing" => status = "processing",
         \/ plan'.slots = plan.slots /\ loop' = loop
         \/ Len(plan'.slots) = 0 /\ loop' # "replenish"
  PROVE  SlotInv'
<1>1. OneAlive'
  BY DEF SlotInv, OneAlive, Ordinals
<1>2. status' = "processing" => (OriginalsFailed /\ OthersSucceeded)'
  BY DEF SlotInv, OriginalsFailed, OthersSucceeded, Ordinals, Remaining, Replaced
<1>3. CASE plan'.slots = plan.slots /\ loop' = loop
  BY <1>1, <1>2, <1>3 DEF SlotInv, PlanInv, Ordinals
<1>4. CASE Len(plan'.slots) = 0 /\ loop' # "replenish"
  BY <1>1, <1>2, <1>4 DEF SlotInv, PlanInv
<1>5. QED
  BY <1>3, <1>4

\* Rows that have not failed change, or rows that the plan is not about.
LEMMA SlotsMoved ==
  ASSUME TypeInv, SlotInv, Calm, UNCHANGED <<status, plan>>,
         loop' = loop \/ (loop # "replenish" /\ loop' # "replenish"),
         Ordinals' = Ordinals, Len(jobs') = Len(jobs),
         \A j \in Ordinals : jobs'[j].slot = jobs[j].slot,
         \A j \in Ordinals : jobs[j].status \in {"failed", "succeeded"} =>
                               jobs'[j].status = jobs[j].status
  PROVE  SlotInv'
<1>1. /\ Ordinals = 1..Len(jobs) /\ Len(jobs) \in Nat
      /\ \A j \in Ordinals : jobs[j].slot + 1 \in Ordinals
  BY JobsFunction, TargetAssumption DEF TypeInv, TypeOK, RowInv, Job, Slots
<1>2. OneAlive'
  BY DEF SlotInv, OneAlive
<1>3. status' = "processing" => OriginalsFailed'
  BY <1>1 DEF SlotInv, OriginalsFailed
<1>4. status' = "processing" => OthersSucceeded'
  <2>1. Remaining' = Remaining
    BY DEF Remaining, Replaced
  <2>2. Len(jobs) = Target + 1 => 1..Target \subseteq Ordinals /\ Target + 1 \in Ordinals
    BY <1>1, TargetAssumption
  <2>3. QED
    BY <2>1, <2>2 DEF SlotInv, OthersSucceeded
<1>5. PlanInv'
  <2>1. PlanInv
    BY DEF SlotInv
  <2>2. loop' = "replenish" <=> loop = "replenish"
    OBVIOUS
  <2>3. QED
    BY <2>1, <2>2 DEF PlanInv
<1>6. QED
  BY <1>2, <1>3, <1>4, <1>5 DEF SlotInv

\* When one slot has a replacement and the others have logos, a logo in that slot
\* is the last one the loop counts on: it would not replenish.
LEMMA NotYetDone ==
  ASSUME TypeInv, NEW slot \in Slots, Len(jobs) = Target + 1,
         jobs[Target + 1].status = "succeeded", jobs[Target + 1].slot = slot,
         \A j \in 1..Target : jobs[j].slot # slot => jobs[j].status = "succeeded"
  PROVE  Successes >= Target
<1>1. Ordinals = 1..(Target + 1) /\ Target \in Nat
  BY JobsFunction, TargetAssumption DEF TypeInv, TypeOK
<1>2. slot + 1 \in 1..(Target + 1) /\ jobs[slot + 1].slot = slot
  BY <1>1, TargetAssumption DEF TypeInv, RowInv, Slots
<1> DEFINE others == (1..(Target + 1)) \ {slot + 1}
<1>3. others \subseteq With("succeeded")
  <2> SUFFICES ASSUME NEW j \in others PROVE jobs[j].status = "succeeded"
    BY <1>1 DEF With
  <2>1. CASE j = Target + 1
    BY <2>1
  <2>2. CASE j # Target + 1
    <3>1. j \in 1..Target /\ j <= Target /\ slot + 1 <= Target
      BY <2>2, <1>1, <1>2 DEF Slots
    <3>2. jobs[j].slot # slot
      BY <1>1, <1>2, <3>1, OriginalsDistinct
    <3>3. QED
      BY <3>1, <3>2
  <2>3. QED
    BY <2>1, <2>2
<1>4. IsFiniteSet(1..(Target + 1)) /\ Cardinality(1..(Target + 1)) = Target + 1
  BY <1>1, FS_Interval
<1>5. Cardinality(others) = Target
  <2>1. Cardinality(others) = Cardinality(1..(Target + 1)) - 1
    BY <1>2, <1>4, FS_RemoveElement
  <2> HIDE DEF others
  <2>2. QED
    BY <1>1, <1>4, <2>1
<1>6. With("succeeded") \in SUBSET Ordinals
  BY DEF With
<1>7. IsFiniteSet(With("succeeded")) /\ Successes \in Nat
  BY <1>6, RowsFinite DEF Successes, TypeInv, TypeOK
<1> HIDE DEF others
<1>8. Cardinality(others) <= Successes
  BY <1>3, <1>7, FS_Subset DEF Successes
<1>9. QED
  BY <1>1, <1>5, <1>7, <1>8

\* What the loop plans on counting.
LEMMA PlanMade ==
  ASSUME Budget <= 2, TypeInv, CalmInv, SlotInv, Calm, Count, loop' = "replenish"
  PROVE  SlotInv'
<1>1. PICK chosen \in Chosen : plan' = [NoPlan EXCEPT !.slots = SlotsOf(chosen)]
  BY DEF Count
<1>2. /\ loop = "count" /\ Successes < Target /\ Remaining > 0 /\ With("failed") # {}
      /\ UNCHANGED <<status, early, jobs>>
  BY DEF Count, request, history, retrying, stops
<1>3. /\ Remaining \in Nat /\ Replaceable \in Nat /\ Replaceable <= Remaining
      /\ Len(SlotsOf(chosen)) = Replaceable
      /\ \A i \in 1..Replaceable : /\ chosen[i] \in With("failed")
                                   /\ SlotsOf(chosen)[i] = jobs[chosen[i]].slot
      /\ \A i, m \in 1..Replaceable : chosen[i] = chosen[m] => i = m
  BY SlotsChosen
<1>4. plan'.slots = SlotsOf(chosen)
  BY <1>1 DEF NoPlan
<1> DEFINE slots == SlotsOf(chosen)
<1>5. /\ Len(jobs) \in Nat /\ Ordinals = 1..Len(jobs) /\ Target <= Len(jobs)
      /\ \A j \in Ordinals : jobs[j] \in Job /\ jobs[j].slot \in Slots
  BY JobsFunction DEF TypeInv, TypeOK, RowInv, Job
<1>6. status = "processing" /\ OriginalsFailed /\ OthersSucceeded /\ OneAlive
  BY <1>2 DEF TypeInv, LoopInv, SlotInv
<1>7. \A j \in Ordinals : jobs[j].status \in {"failed", "succeeded"}
  BY <1>2 DEF CalmInv, RowsSettled, Decided
<1>8. Cardinality(With("failed")) \in Nat /\ Cardinality(With("failed")) > 0
      /\ IsFiniteSet(With("failed"))
  <2>1. With("failed") \in SUBSET Ordinals
    BY DEF With
  <2>2. QED
    BY <1>2, <2>1, RowsFinite, FS_EmptySet DEF TypeInv, TypeOK
<1>9. Replaceable >= 1
  BY <1>2, <1>3, <1>8 DEF Replaceable
<1>10. \/ Len(jobs) = Target /\ Remaining = Budget
       \/ Len(jobs) = Target + 1 /\ Remaining = 1
  BY <1>2, <1>5, TargetAssumption, LimitsAssumption DEF Remaining, Replaced
<1>11. \A i \in 1..Replaceable, j \in Ordinals :
         jobs[j].slot = slots[i] => jobs[j].status = "failed"
  <2> SUFFICES ASSUME NEW i \in 1..Replaceable, NEW j \in Ordinals, jobs[j].slot = slots[i]
               PROVE  jobs[j].status = "failed"
    OBVIOUS
  <2> DEFINE c == chosen[i]
  <2>1. c \in Ordinals /\ jobs[c].status = "failed" /\ jobs[c].slot = jobs[j].slot
    BY <1>3 DEF With
  <2>2. CASE c = j
    BY <2>1, <2>2
  <2>3. CASE c <= Target /\ j <= Target
    BY <2>1, <2>3, OriginalsDistinct
  <2>4. CASE c # j /\ (c > Target \/ j > Target)
    <3>1. Len(jobs) = Target + 1 /\ Remaining = 1
      BY <1>5, <1>10, <2>1, <2>4
    <3>2. (c = Target + 1 /\ j <= Target) \/ (j = Target + 1 /\ c <= Target)
      BY <1>5, <2>1, <2>4, <3>1, TargetAssumption
    <3>3. ASSUME c = Target + 1, j <= Target
          PROVE  jobs[j].status = "failed"
      <4>1. jobs[jobs[c].slot + 1].status = "failed"
        BY <1>6, <2>1, <3>3, TargetAssumption DEF OriginalsFailed
      <4>2. jobs[j].slot \in Slots /\ jobs[jobs[j].slot + 1].slot = jobs[j].slot
            /\ jobs[j].slot + 1 \in Ordinals /\ jobs[j].slot + 1 <= Target
        BY <1>5, TargetAssumption DEF TypeInv, RowInv, Slots
      <4>3. jobs[j].slot + 1 = j
        BY <3>3, <4>2, OriginalsDistinct
      <4>4. QED
        BY <2>1, <4>1, <4>3
    <3>4. ASSUME j = Target + 1, c <= Target, jobs[j].status # "failed"
          PROVE  FALSE
      <4>1. jobs[Target + 1].status = "succeeded" /\ jobs[Target + 1].slot \in Slots
        BY <1>5, <1>7, <3>4
      <4>2. \A m \in 1..Target : jobs[m].slot # jobs[Target + 1].slot =>
                                   jobs[m].status = "succeeded"
        BY <1>6, <3>1 DEF OthersSucceeded
      <4>3. Successes >= Target
        BY <3>1, <4>1, <4>2, NotYetDone
      <4>4. Successes \in Nat /\ Target \in Nat
        BY NoSuccess, TargetAssumption
      <4>5. QED
        BY <1>2, <4>3, <4>4
    <3>5. QED
      BY <3>2, <3>3, <3>4
  <2>5. QED
    BY <1>5, <2>1, <2>2, <2>3, <2>4, TargetAssumption
<1>12. \A i, m \in 1..Replaceable : slots[i] = slots[m] => i = m
  <2> SUFFICES ASSUME NEW i \in 1..Replaceable, NEW m \in 1..Replaceable, slots[i] = slots[m]
               PROVE  i = m
    OBVIOUS
  <2>1. /\ chosen[i] \in Ordinals /\ chosen[m] \in Ordinals
        /\ jobs[chosen[i]].slot = jobs[chosen[m]].slot
    BY <1>3 DEF With
  <2>2. CASE Len(jobs) = Target
    BY <1>3, <1>5, <2>1, <2>2, OriginalsDistinct
  <2>3. CASE Remaining = 1
    BY <1>3, <2>3
  <2>4. QED
    BY <1>10, <2>2, <2>3
<1>13. \/ Replaceable = 1
       \/ Len(jobs) = Target /\ Replaceable = Budget
  BY <1>3, <1>9, <1>10, LimitsAssumption
<1>14. ASSUME Len(jobs) = Target, Replaceable < Budget
       PROVE  \A j \in Ordinals : jobs[j].slot # slots[1] => jobs[j].status = "succeeded"
  <2>1. Replaceable = 1 /\ Remaining = Budget
    BY <1>3, <1>9, <1>10, <1>14, LimitsAssumption, TargetAssumption
  <2>2. Cardinality(With("failed")) = 1
    BY <1>8, <1>14, <2>1 DEF Replaceable
  <2>3. PICK c : With("failed") = {c}
    BY <1>8, <2>2, FS_Singleton
  <2>4. chosen[1] = c /\ slots[1] = jobs[c].slot
    BY <1>3, <2>1, <2>3
  <2>5. QED
    BY <1>7, <2>3, <2>4 DEF With
<1>15. PlanInv'
  BY <1>2, <1>3, <1>4, <1>11, <1>12, <1>13, <1>14 DEF PlanInv, Ordinals
<1>16. (OneAlive /\ OriginalsFailed /\ OthersSucceeded)'
  BY <1>2, <1>6 DEF OneAlive, OriginalsFailed, OthersSucceeded, Ordinals, Remaining, Replaced
<1>17. QED
  BY <1>15, <1>16 DEF SlotInv

\* The new rows are the only ones alive of their slots.
LEMMA PlanWritten ==
  ASSUME Budget <= 2, TypeInv, CalmInv, SlotInv, Calm, Replenish
  PROVE  SlotInv'
<1> DEFINE new == Len(plan.slots)
<1>1. /\ loop = "replenish" /\ status = "processing" /\ plan' = NoPlan /\ loop' = "recover"
      /\ UNCHANGED <<status, early>>
  BY DEF Replenish, request, history, retrying, stops, TypeInv, LoopInv
<1>2. /\ Len(jobs) \in Nat /\ Ordinals = 1..Len(jobs) /\ Target <= Len(jobs) /\ new \in Nat
      /\ \A i \in 1..new : plan.slots[i] \in Slots
      /\ \A j \in Ordinals : jobs[j] \in Job /\ jobs[j].slot \in Slots
  BY JobsFunction, LenProperties, ElementOfSeq DEF TypeInv, TypeOK, RowInv, Job
<1>3. /\ Len(jobs') = Len(jobs) + new /\ Ordinals' = 1..(Len(jobs) + new)
      /\ \A j \in Ordinals : jobs'[j] = jobs[j]
      /\ \A j \in Ordinals' : j > Len(jobs) => /\ j - Len(jobs) \in 1..new
                                               /\ jobs'[j] = Pending(plan.slots[j - Len(jobs)])
  BY RowsAppended DEF Replenish, TypeInv, TypeOK
<1>4. \A j \in Ordinals' : j \in Ordinals \/ j > Len(jobs)
  BY <1>2, <1>3
<1>5. \A j \in Ordinals' : j > Len(jobs) => jobs'[j].slot = plan.slots[j - Len(jobs)]
  <2>1. \A slot : Pending(slot).slot = slot
    BY DEF Pending
  <2>2. QED
    BY <1>3, <2>1
<1>6. OneAlive /\ OriginalsFailed /\ OthersSucceeded /\ PlanInv
  BY <1>1 DEF SlotInv
<1> HIDE DEF new
<1>7. OneAlive'
  <2> SUFFICES ASSUME NEW i \in Ordinals', NEW j \in Ordinals', i # j,
                      jobs'[i].slot = jobs'[j].slot
               PROVE  "failed" \in {jobs'[i].status, jobs'[j].status}
    BY DEF OneAlive
  <2>1. ASSUME NEW a \in Ordinals, NEW b \in Ordinals', b > Len(jobs),
               jobs'[a].slot = jobs'[b].slot
        PROVE  jobs'[a].status = "failed"
    <3>1. jobs[a].slot = plan.slots[b - Len(jobs)] /\ b - Len(jobs) \in 1..new
      BY <1>3, <1>5, <2>1
    <3>2. jobs[a].status = "failed"
      BY <1>6, <3>1 DEF PlanInv, new
    <3>3. QED
      BY <1>3, <3>2
  <2>2. CASE i \in Ordinals /\ j \in Ordinals
    BY <1>3, <1>6, <2>2 DEF OneAlive
  <2>3. CASE i > Len(jobs) /\ j > Len(jobs)
    <3>1. /\ i - Len(jobs) \in 1..new /\ j - Len(jobs) \in 1..new
          /\ plan.slots[i - Len(jobs)] = plan.slots[j - Len(jobs)]
      BY <1>3, <1>5, <2>3
    <3>2. i - Len(jobs) = j - Len(jobs)
      BY <1>6, <3>1 DEF PlanInv, new
    <3>3. i \in Int /\ j \in Int
      BY <1>2, <1>3
    <3>4. QED
      BY <1>2, <3>2, <3>3
  <2>4. QED
    BY <1>4, <2>1, <2>2, <2>3
<1>8. OriginalsFailed'
  <2> SUFFICES ASSUME NEW j \in Ordinals', j > Target
               PROVE  jobs'[jobs'[j].slot + 1].status = "failed"
    BY DEF OriginalsFailed
  <2>1. \A k \in Slots : k + 1 \in Ordinals /\ jobs[k + 1].slot = k
    BY <1>2, TargetAssumption DEF Slots, TypeInv, RowInv
  <2>2. CASE j \in Ordinals
    BY <1>2, <1>3, <1>6, <2>1, <2>2 DEF OriginalsFailed
  <2>3. CASE j > Len(jobs)
    <3>1. /\ j - Len(jobs) \in 1..new /\ jobs'[j].slot = plan.slots[j - Len(jobs)]
          /\ jobs'[j].slot \in Slots
      BY <1>2, <1>3, <1>5, <2>3
    <3>2. jobs[jobs'[j].slot + 1].status = "failed"
      BY <1>6, <2>1, <3>1 DEF PlanInv, new
    <3>3. QED
      BY <1>3, <2>1, <3>1, <3>2
  <2>4. QED
    BY <1>4, <2>2, <2>3
<1>9. OthersSucceeded'
  <2> SUFFICES ASSUME Len(jobs') = Target + 1, Remaining' > 0,
                      NEW j \in 1..Target, jobs'[j].slot # jobs'[Target + 1].slot
               PROVE  jobs'[j].status = "succeeded"
    BY DEF OthersSucceeded
  <2>1. Budget > 1
    BY LimitsAssumption, TargetAssumption DEF Remaining, Replaced
  <2>2. Len(jobs) = Target /\ new = 1
    <3>1. \/ new = 1
          \/ Len(jobs) = Target /\ new = Budget
      BY <1>1, <1>6 DEF PlanInv, new
    <3>2. Len(jobs) + new = Target + 1
      BY <1>3
    <3>3. QED
      BY <1>2, <2>1, <3>1, <3>2, TargetAssumption, LimitsAssumption
  <2>3. jobs'[Target + 1].slot = plan.slots[1] /\ j \in Ordinals
    BY <1>2, <1>3, <1>5, <2>2, TargetAssumption
  <2>4. QED
    BY <1>1, <1>3, <1>6, <2>1, <2>2, <2>3 DEF PlanInv, new
<1>10. PlanInv'
  BY <1>1, NoPlanType DEF PlanInv
<1>11. QED
  BY <1>7, <1>8, <1>9, <1>10 DEF SlotInv

\* A retry restarts the one row of its slot when no other is alive.
LEMMA SlotRetried ==
  ASSUME TypeInv, CalmInv, SlotInv, Calm, NEW k \in Slots, Retry(k), Calm'
  PROVE  SlotInv'
<1>1. /\ k + 1 \in Ordinals /\ jobs[k + 1].slot = k /\ k + 1 <= Target
      /\ jobs[k + 1].status = "failed" /\ status # "processing"
      /\ Ordinals' = Ordinals
      /\ jobs'[k + 1] = [jobs[k + 1] EXCEPT !.status = "pending", !.error = "none"]
      /\ \A j \in Ordinals : j # k + 1 => jobs'[j] = jobs[j]
      /\ UNCHANGED <<status, loop, plan>>
  BY RetryCalm DEF request
<1>2. jobs'[k + 1].slot = k
  BY <1>1, JobsFunction DEF TypeInv, TypeOK, Job
<1>3. \A j \in Ordinals : jobs[j].slot = k /\ j # k + 1 => jobs[j].status = "failed"
  <2> SUFFICES ASSUME NEW j \in Ordinals, jobs[j].slot = k, j # k + 1
               PROVE  jobs[j].status = "failed"
    OBVIOUS
  <2>1. ~Delivered(k)
    BY DEF Retry
  <2>2. jobs[j].status # "succeeded"
    BY <2>1, SlotShown DEF With
  <2>3. j \in Nat /\ Target \in Nat
    BY JobsFunction, TargetAssumption DEF TypeInv, TypeOK
  <2>4. j > Target
    BY <1>1, <2>3, OriginalsDistinct
  <2>5. Decided(j)
    BY <1>1, <2>4 DEF CalmInv, RowsSettled
  <2>6. QED
    BY <2>2, <2>5 DEF Decided
<1>4. OneAlive'
  <2> SUFFICES ASSUME NEW i \in Ordinals, NEW j \in Ordinals, i # j,
                      jobs'[i].slot = jobs'[j].slot
               PROVE  "failed" \in {jobs'[i].status, jobs'[j].status}
    BY <1>1 DEF OneAlive
  <2>1. CASE i = k + 1
    BY <1>1, <1>2, <1>3, <2>1
  <2>2. CASE j = k + 1
    BY <1>1, <1>2, <1>3, <2>2
  <2>3. CASE i # k + 1 /\ j # k + 1
    BY <1>1, <2>3 DEF SlotInv, OneAlive
  <2>4. QED
    BY <2>1, <2>2, <2>3
<1>5. loop = "off" /\ plan.slots = << >>
  BY <1>1 DEF TypeInv, LoopInv
<1>6. PlanInv'
  BY <1>1, <1>5 DEF PlanInv
<1>7. QED
  BY <1>1, <1>4, <1>6 DEF SlotInv

\* In a calm state a row stays in its slot, and one that succeeded stays so.
LEMMA DecidedStays ==
  ASSUME TypeInv, CalmInv, [Next]_vars, Calm'
  PROVE  /\ Ordinals \subseteq Ordinals'
         /\ \A j \in Ordinals : /\ jobs'[j].slot = jobs[j].slot
                                /\ jobs[j].status = "succeeded" =>
                                     jobs'[j].status = "succeeded"
<1>calm0. Calm
  BY CalmStays
<1>1. CASE Recover
  BY <1>1, JobsFunction DEF Recover, With, TypeInv, TypeOK, Ordinals, Job
<1>2. CASE RunStep
  <2>1. PICK run \in runs, row \in Job : Ran(run, row)
    BY <1>2, <1>calm0, RunStepCalm
  <2>2. /\ run.job \in Ordinals /\ Ordinals' = Ordinals /\ jobs'[run.job] = row
        /\ \A j \in Ordinals : j # run.job => jobs'[j] = jobs[j]
    BY <2>1, RanRows
  <2>3. row.slot = jobs[run.job].slot /\ jobs[run.job].status # "succeeded"
    BY <2>1 DEF Ran
  <2>4. QED
    BY <2>2, <2>3
<1>3. ASSUME NEW k \in Slots, Retry(k)
      PROVE  /\ Ordinals \subseteq Ordinals'
             /\ \A j \in Ordinals : /\ jobs'[j].slot = jobs[j].slot
                                    /\ jobs[j].status = "succeeded" =>
                                         jobs'[j].status = "succeeded"
  <2>1. /\ k + 1 \in Ordinals /\ jobs[k + 1].status = "failed" /\ Ordinals' = Ordinals
        /\ jobs'[k + 1] = [jobs[k + 1] EXCEPT !.status = "pending", !.error = "none"]
        /\ \A j \in Ordinals : j # k + 1 => jobs'[j] = jobs[j]
    BY <1>3, <1>calm0, RetryCalm
  <2>2. jobs'[k + 1].slot = jobs[k + 1].slot
    BY <2>1, JobsFunction DEF TypeInv, TypeOK, Job
  <2>3. QED
    BY <2>1, <2>2
<1>4. CASE Replenish
  BY <1>4, RowsAppended DEF Replenish, TypeInv, TypeOK
<1>5. CASE UNCHANGED jobs
  BY <1>5 DEF Ordinals
<1>6. Recover \/ RunStep \/ Replenish \/ (\E k \in Slots : Retry(k)) \/ UNCHANGED jobs
  BY DEF Next, LoopStep, vars, request, history, retrying, stops, Schedule, Pick, GatherDone,
     Count, Finish, RuntimeUnavailable, Poll, Crash, LoopEscapes, RunEscapes, Raises
<1>7. QED
  BY <1>1, <1>2, <1>3, <1>4, <1>5, <1>6

\* Every step keeps the slots as they should be.
LEMMA SlotStep ==
  ASSUME Budget <= 2, TypeInv, CalmInv, SlotInv, [Next]_vars
  PROVE  SlotInv'
<1> SUFFICES ASSUME Calm' PROVE SlotInv'
  BY DEF SlotInv
<1>calm0. Calm
  BY CalmStays
<1>jobs. jobs \in [1..Len(jobs) -> Job] /\ Ordinals = 1..Len(jobs) /\ Len(jobs) \in Nat
  BY JobsFunction DEF TypeInv, TypeOK
<1>empty. Len(NoPlan.slots) = 0
  BY NoPlanType
<1>1. CASE Schedule \/ Pick \/ GatherDone
  <2>1. loop # "replenish" /\ loop' # "replenish" /\ UNCHANGED <<status, plan, jobs>>
    BY <1>1 DEF Schedule, Pick, GatherDone, request
  <2>2. Ordinals' = Ordinals
    BY <2>1 DEF Ordinals
  <2>3. QED
    BY <1>calm0, <2>1, <2>2, SlotsMoved
<1>2. CASE Recover
  <2>1. /\ loop # "replenish" /\ loop' # "replenish" /\ UNCHANGED <<status, plan>>
        /\ Ordinals' = Ordinals /\ Len(jobs') = Len(jobs)
    BY <1>2, <1>jobs DEF Recover, request, Ordinals
  <2>2. \A j \in Ordinals : /\ jobs'[j].slot = jobs[j].slot
                            /\ jobs[j].status # "running" => jobs'[j] = jobs[j]
    BY <1>2, <1>jobs DEF Recover, With, Job
  <2>3. QED
    BY <1>calm0, <2>1, <2>2, SlotsMoved
<1>3. CASE Count
  <2>1. CASE loop' = "replenish"
    BY <1>3, <1>calm0, <2>1, PlanMade
  <2>2. CASE loop' # "replenish"
    <3>1. plan'.slots = << >> /\ UNCHANGED <<status, jobs>>
      BY <1>3, <2>2 DEF Count, Ended, request
    <3>2. QED
      BY <1>calm0, <2>2, <3>1, SlotsKept
  <2>3. QED
    BY <2>1, <2>2
<1>4. CASE Finish \/ RuntimeUnavailable \/ Crash \/ LoopEscapes
  <2>1. loop' = "off" /\ plan' = NoPlan /\ UNCHANGED jobs
    BY <1>4 DEF Finish, RuntimeUnavailable, Crash, LoopEscapes
  <2>2. status' = "processing" => status = "processing"
    BY <1>4 DEF Finish, RuntimeUnavailable, Crash, LoopEscapes, request, TypeInv, LoopInv
  <2>3. QED
    BY <1>calm0, <1>empty, <2>1, <2>2, SlotsKept
<1>5. CASE Replenish
  BY <1>5, <1>calm0, PlanWritten
<1>6. CASE RunStep
  <2>1. PICK run \in runs, row \in Job : Ran(run, row)
    BY <1>6, <1>calm0, RunStepCalm
  <2>2. /\ run.job \in Ordinals /\ Ordinals' = Ordinals /\ jobs'[run.job] = row
        /\ \A j \in Ordinals : j # run.job => jobs'[j] = jobs[j]
    BY <2>1, RanRows
  <2>3. /\ row.slot = jobs[run.job].slot /\ jobs[run.job].status \in {"pending", "running"}
        /\ UNCHANGED <<status, loop, plan>>
    BY <2>1 DEF Ran, request
  <2>4. Len(jobs') = Len(jobs)
    BY <2>1, <2>2, OneRowChanged DEF Ran, TypeInv, TypeOK
  <2>5. QED
    BY <1>calm0, <2>2, <2>3, <2>4, SlotsMoved
<1>7. CASE \E k \in Slots : Retry(k)
  BY <1>7, <1>calm0, SlotRetried
<1>8. CASE Poll \/ UNCHANGED vars
  <2>1. UNCHANGED <<status, loop, plan, jobs>>
    BY <1>8 DEF Poll, request, vars, history, retrying, stops
  <2>2. QED
    BY <1>calm0, <2>1, SlotsKept
<1>9. CASE RunEscapes
  <2>1. PICK run \in runs : Raises(run)
    BY <1>9 DEF RunEscapes
  <2>2. UNCHANGED <<status, jobs>>
    BY <1>9 DEF RunEscapes, request
  <2>3. \/ plan' = NoPlan /\ loop' = "off"
        \/ UNCHANGED <<plan, loop>>
    BY <2>1, RaisesRuns
  <2>4. QED
    BY <1>calm0, <1>empty, <2>2, <2>3, SlotsKept
<1>10. QED
  BY <1>1, <1>2, <1>3, <1>4, <1>5, <1>6, <1>7, <1>8, <1>9 DEF Next, LoopStep

-----------------------------------------------------------------------------
(* A full success.                                                         *)

\* A request that ended, or will end, with its whole target has a logo in every
\* slot, as no slot has two.
FullInv ==
  Calm /\ ((loop = "finish" /\ plan.full) \/ (status = "succeeded" /\ full)) =>
    \A k \in Slots : \E j \in With("succeeded") : jobs[j].slot = k

\* As many successes as slots, no two in one slot: one in every slot.
LEMMA EverySlot ==
  ASSUME TypeInv, OneAlive, Successes >= Target
  PROVE  \A k \in Slots : \E j \in With("succeeded") : jobs[j].slot = k
<1> DEFINE S == With("succeeded")
           slotOf == [j \in S |-> jobs[j].slot]
           filled == {jobs[j].slot : j \in S}
<1>1. S \in SUBSET Ordinals /\ \A j \in Ordinals : jobs[j].slot \in Slots
  BY JobsFunction DEF With, TypeInv, TypeOK, Job
<1>2. IsFiniteSet(S) /\ Cardinality(S) \in Nat /\ Cardinality(S) >= Target
  BY <1>1, RowsFinite DEF TypeInv, TypeOK, Successes
<1>3. \A i, j \in S : jobs[i].slot = jobs[j].slot => i = j
  BY <1>1 DEF OneAlive, With
<1>4. filled \subseteq Slots
  BY <1>1
<1>5. IsFiniteSet(Slots) /\ Cardinality(Slots) = Target
  BY FS_Interval, TargetAssumption DEF Slots
<1>6. IsFiniteSet(filled) /\ Cardinality(filled) = Cardinality(S)
  <2>1. slotOf \in Bijection(S, filled)
    BY <1>3, Fun_IsBij DEF Bijection, Injection, Surjection, IsInjective
  <2> HIDE DEF S, filled, slotOf
  <2>2. QED
    BY <1>2, <2>1, FS_Bijection DEF ExistsBijection
<1>7. filled = Slots
  BY <1>2, <1>4, <1>5, <1>6, TargetAssumption, FS_Subset
<1>8. QED
  BY <1>7

\* Every step keeps it.
LEMMA FullStep ==
  ASSUME TypeInv, CalmInv, SlotInv, FullInv, [Next]_vars
  PROVE  FullInv'
<1> SUFFICES ASSUME Calm', \/ (loop = "finish" /\ plan.full)'
                             \/ (status = "succeeded" /\ full)',
                    NEW k \in Slots
             PROVE  (\E j \in With("succeeded") : jobs[j].slot = k)'
  BY DEF FullInv
<1>calm0. Calm
  BY CalmStays
<1>kept. (\E j \in With("succeeded") : jobs[j].slot = k)
           => (\E j \in With("succeeded") : jobs[j].slot = k)'
  BY DecidedStays DEF With
<1>1. CASE (loop = "finish" /\ plan.full) \/ (status = "succeeded" /\ full)
  BY <1>1, <1>calm0, <1>kept DEF FullInv
<1>2. CASE Count /\ loop' = "finish" /\ plan'.full
  <2>1. Successes >= Target
    BY <1>2 DEF Count, Ended
  <2>2. OneAlive
    BY <1>calm0 DEF SlotInv
  <2>3. QED
    BY <1>kept, <2>1, <2>2, EverySlot
<1>3. \/ (loop = "finish" /\ plan.full) \/ (status = "succeeded" /\ full)
      \/ Count /\ loop' = "finish" /\ plan'.full
  <2>1. CASE Count
    BY <2>1 DEF Count, request, TypeInv, LoopInv
  <2>2. CASE Finish
    BY <2>2 DEF Finish
  <2>3. CASE RuntimeUnavailable
    BY <2>3 DEF RuntimeUnavailable
  <2>4. CASE ~Count /\ ~Finish /\ ~RuntimeUnavailable
    <3>1. UNCHANGED request /\ (loop' = "finish" => loop = "finish" /\ UNCHANGED plan)
      BY <2>4
      DEF Next, LoopStep, RunStep, vars, request, history, retrying, stops, Schedule, Recover,
          Pick, GatherDone, Replenish, Begin, BeginFails, Fail, Succeed, SucceedRefused, Poll,
          Retry, Crash, Raises, LoopEscapes, RunEscapes
    <3>2. QED
      BY <3>1 DEF request
  <2>5. QED
    BY <2>1, <2>2, <2>3, <2>4
<1>4. QED
  BY <1>1, <1>2, <1>3

\* Initially.
LEMMA InitSlots == Init => SlotInv /\ FullInv
<1> SUFFICES ASSUME Init PROVE SlotInv /\ FullInv
  OBVIOUS
<1>1. Len(jobs) = Target /\ Ordinals = 1..Target /\ TypeInv
  <2>1. TypeInv
    BY InitTypes
  <2>2. Ordinals = 1..Target
    BY DEF Init, Ordinals
  <2>3. Ordinals = 1..Len(jobs) /\ Len(jobs) \in Nat
    BY <2>1, JobsFunction DEF TypeInv, TypeOK
  <2>4. QED
    BY <2>1, <2>2, <2>3, TargetAssumption
<1>2. /\ loop = "off" /\ status = "processing" /\ plan.slots = << >>
  BY NoPlanType DEF Init, NoPlan
<1>3. OneAlive
  BY <1>1, OriginalsDistinct, TargetAssumption DEF OneAlive
<1>4. OriginalsFailed /\ OthersSucceeded
  BY <1>1, TargetAssumption DEF OriginalsFailed, OthersSucceeded
<1>5. PlanInv
  BY <1>2 DEF PlanInv
<1>6. FullInv
  BY <1>2 DEF FullInv
<1>7. QED
  BY <1>3, <1>4, <1>5, <1>6 DEF SlotInv

RequestInv == TypeInv /\ CalmInv /\ SlotInv /\ FullInv

\* The invariant of a request and its slots, while it has at most two
\* replacements, as REPLENISHMENT_BUDGET says.
LEMMA SlotInvariant == ASSUME Budget <= 2 PROVE Spec => []RequestInv
<1>1. Init => RequestInv
  BY InitTypes, InitCalm, InitSlots DEF RequestInv
<1>2. RequestInv /\ [Next]_vars => RequestInv'
  BY TypeStep, CalmStep, SlotStep, FullStep DEF RequestInv
<1>3. QED
  BY <1>1, <1>2, PTL DEF Spec

\* With a budget of two replacements, no slot gets a second logo, so none is paid
\* for twice, through every restart and every retry of an ended request.
THEOREM SlotPaidOnce == ASSUME Budget <= 2 PROVE Spec => []OneSuccessPerSlot
<1>1. RequestInv => OneSuccessPerSlot
  <2> SUFFICES ASSUME RequestInv, Calm,
                      NEW j \in With("succeeded"), NEW i \in With("succeeded"),
                      jobs[j].slot = jobs[i].slot
               PROVE  j = i
    BY DEF OneSuccessPerSlot
  <2>1. OneAlive
    BY DEF RequestInv, SlotInv
  <2>2. QED
    BY <2>1 DEF OneAlive, With
<1>2. QED
  BY <1>1, SlotInvariant, PTL

\* A request that ended with target_count successes and no failure summary shows
\* a logo in every slot.
THEOREM FullSuccessShown == ASSUME Budget <= 2 PROVE Spec => []FullSuccessFillsSlots
<1>1. RequestInv => FullSuccessFillsSlots
  <2> SUFFICES ASSUME RequestInv, Calm, status = "succeeded", full, NEW k \in VisibleSlots
               PROVE  Delivered(k)
    BY DEF FullSuccessFillsSlots
  <2>1. k \in Slots
    BY DEF VisibleSlots
  <2>2. \E j \in With("succeeded") : jobs[j].slot = k
    BY <2>1 DEF RequestInv, FullInv
  <2>3. QED
    BY <2>1, <2>2, SlotShown DEF RequestInv
<1>2. QED
  BY <1>1, SlotInvariant, PTL

\* What a customer has been shown in a slot.
LEMMA ShownInSlot ==
  TypeInv => \A k \in Slots :
    /\ Visible(k) \in Ordinals /\ jobs[Visible(k)].slot = k
    /\ Delivered(k) <=> \E j \in With("succeeded") : jobs[j].slot = k
BY SlotShown

\* A logo shown in a slot is the slot's only one, then and afterwards: it stays.
THEOREM ShownStays == ASSUME Budget <= 2 PROVE Spec => ShownLogoStays
<1> DEFINE stays == Calm' => \A k \in VisibleSlots : Delivered(k) =>
                      Visible(k)' = Visible(k) /\ Delivered(k)'
           shown == \A k \in Slots :
                      /\ Visible(k) \in Ordinals /\ jobs[Visible(k)].slot = k
                      /\ Delivered(k) <=> \E j \in With("succeeded") : jobs[j].slot = k
<1>1. RequestInv /\ RequestInv' /\ shown /\ shown' /\ [Next]_vars => stays
  <2> SUFFICES ASSUME RequestInv, RequestInv', shown, shown', [Next]_vars, Calm',
                      NEW k \in VisibleSlots, Delivered(k)
               PROVE  Visible(k)' = Visible(k) /\ Delivered(k)'
    OBVIOUS
  <2>1. k \in Slots
    BY DEF VisibleSlots
  <2>2. Visible(k) \in With("succeeded") /\ jobs[Visible(k)].slot = k
    BY <2>1 DEF Delivered, With
  <2>3. Visible(k) \in With("succeeded")' /\ jobs'[Visible(k)].slot = k
    BY <2>2, DecidedStays DEF RequestInv, With
  <2>4. Delivered(k)'
    BY <2>1, <2>3
  <2>5. Visible(k)' \in With("succeeded")' /\ jobs'[Visible(k)'].slot = k
    BY <2>1, <2>4 DEF Delivered, With
  <2>6. OneAlive'
    BY DEF RequestInv, SlotInv
  <2>7. Visible(k)' = Visible(k)
    BY <2>3, <2>5, <2>6 DEF OneAlive, With
  <2>8. QED
    BY <2>4, <2>7
<1>2. RequestInv => shown
  BY ShownInSlot DEF RequestInv
<1> HIDE DEF stays, shown
<1>3. Spec => [][stays]_vars
  BY <1>1, <1>2, SlotInvariant, PTL DEF Spec
<1>4. QED
  BY <1>3 DEF stays, ShownLogoStays

=============================================================================
