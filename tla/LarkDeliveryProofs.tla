-------------------------- MODULE LarkDeliveryProofs --------------------------
(***************************************************************************)
(* Theorems of LarkDelivery, for any rows, attempts, faults and changes of *)
(* the access.                                                             *)
(***************************************************************************)
EXTENDS LarkDelivery, TLAPS

-----------------------------------------------------------------------------
(* The claims of the worker.                                               *)

\* Rows the worker holds are undecided, and have attempts left; the row it has
\* posted is one of them.
ClaimsInv ==
  /\ \A k \in Rows : outbox[k].status \in {"absent"} \union Undecided =>
                       outbox[k].attempts < MaxAttempts
  /\ \A k \in worker.claims : outbox[k].status \in Undecided
  /\ worker.answer # "none" => worker.row \in worker.claims

\* A card the group may have, and the outbox does not know of yet.
Unrecorded(k) == worker.row = k /\ worker.answer \in {"accepted", "lost"}

\* Every card but that one was counted as an attempt, or its record was lost.
PostsInv ==
  \A k \in Rows :
    outbox[k].posts <= outbox[k].attempts + faults + IF Unrecorded(k) THEN 1 ELSE 0

OutboxInv == TypeOK /\ ClaimsInv /\ PostsInv

-----------------------------------------------------------------------------

\* Rows are numbers, and -1 is none.
LEMMA RowNumbers == Rows \subseteq Nat /\ -1 \notin Rows
BY DeliveryAssumption

\* Initially.
LEMMA InitOutbox == Init => OutboxInv
<1> SUFFICES ASSUME Init PROVE OutboxInv
  OBVIOUS
<1>1. Absent \in Row
  BY DeliveryAssumption DEF Absent, Row
<1>2. Resting \in Worker /\ Resting.answer = "none" /\ Resting.claims = {} /\ Resting.row = -1
  BY DEF Resting, Worker
<1>3. TypeOK
  BY <1>1, <1>2, DeliveryAssumption DEF Init, TypeOK
<1>4. ClaimsInv
  BY <1>2, DeliveryAssumption DEF Init, ClaimsInv, Absent
<1>5. PostsInv
  BY <1>2 DEF Init, PostsInv, Absent, Unrecorded
<1>6. QED
  BY <1>3, <1>4, <1>5 DEF OutboxInv

\* The row that is worked on, and the worker that goes on to the next.
LEMMA RowAtWork ==
  ASSUME OutboxInv, worker.answer # "none"
  PROVE  /\ worker.row \in Rows /\ outbox[worker.row] \in Row
         /\ outbox[worker.row].attempts + 1 \in 0..MaxAttempts
         /\ NextRow \in Worker /\ NextRow.answer = "none" /\ NextRow.row = -1
         /\ NextRow.claims = worker.claims \ {worker.row}
<1>1. worker.row \in worker.claims /\ worker.claims \in SUBSET Rows
  BY DEF OutboxInv, ClaimsInv, TypeOK, Worker
<1>2. outbox[worker.row].status \in Undecided /\ outbox[worker.row] \in Row
  BY <1>1 DEF OutboxInv, ClaimsInv, TypeOK
<1>3. outbox[worker.row].attempts < MaxAttempts
  BY <1>1, <1>2 DEF OutboxInv, ClaimsInv
<1>4. outbox[worker.row].attempts + 1 \in 0..MaxAttempts
  BY <1>2, <1>3, DeliveryAssumption DEF Row
<1>5. /\ NextRow \in Worker /\ NextRow.answer = "none" /\ NextRow.row = -1
      /\ NextRow.claims = worker.claims \ {worker.row}
  BY <1>1 DEF NextRow, Resting, Worker
<1>6. QED
  BY <1>1, <1>2, <1>4, <1>5

\* What an attempt makes of its row.
LEMMA AttemptCounted ==
  ASSUME OutboxInv, worker.answer \in Sendings \union {"skip"}
  PROVE  LET row1 == [Attempted(outbox[worker.row], worker.answer) EXCEPT !.claimed = FALSE]
         IN  /\ row1 \in Row
             /\ row1.posts = outbox[worker.row].posts
             /\ row1.status # "absent"
             /\ row1.status \in Undecided => row1.attempts < MaxAttempts
             /\ row1.attempts = outbox[worker.row].attempts
                                + IF worker.answer = "skip" THEN 0 ELSE 1
<1> DEFINE old == outbox[worker.row]
<1>1. /\ old \in Row /\ old.attempts + 1 \in 0..MaxAttempts /\ MaxAttempts \in Nat
  BY RowAtWork, DeliveryAssumption DEF Sendings
<1>2. old.attempts \in 0..MaxAttempts /\ old.attempts + 0 = old.attempts
  BY <1>1 DEF Row
<1> HIDE DEF old
<1>3. CASE worker.answer = "skip"
  BY <1>1, <1>2, <1>3 DEF Attempted, Row, Undecided, Decided, old
<1>4. CASE worker.answer = "accepted"
  BY <1>1, <1>2, <1>4 DEF Attempted, Row, Undecided, Decided, old
<1>5. CASE worker.answer = "rejected"
  BY <1>1, <1>2, <1>5 DEF Attempted, Row, Undecided, Decided, old
<1>6. CASE worker.answer \in {"lost", "retry"} /\ old.attempts + 1 < MaxAttempts
  BY <1>1, <1>2, <1>6 DEF Attempted, Row, Undecided, Decided, old
<1>7. CASE worker.answer \in {"lost", "retry"} /\ old.attempts + 1 >= MaxAttempts
  BY <1>1, <1>2, <1>7 DEF Attempted, Row, Undecided, Decided, old
<1>8. QED
  BY <1>1, <1>2, <1>3, <1>4, <1>5, <1>6, <1>7 DEF Sendings

\* A step that leaves the worker alone, and of each row what matters to it.
LEMMA RowsTouched ==
  ASSUME OutboxInv, worker' = worker, faults' = faults,
         outbox' \in [Rows -> Row], access' \in {"active", "stopped", "over"},
         stage' \in {"waiting", "left"}, changes' \in 0..MaxChanges,
         \A k \in Rows : /\ outbox'[k].attempts = outbox[k].attempts
                         /\ outbox'[k].posts = outbox[k].posts
                         /\ \/ outbox'[k].status = outbox[k].status
                            \/ outbox[k].status = "absent" /\ outbox'[k].status = "pending"
  PROVE  OutboxInv'
<1>1. TypeOK'
  BY DEF OutboxInv, TypeOK
<1>2. ClaimsInv'
  BY DEF OutboxInv, ClaimsInv, TypeOK, Worker, Undecided
<1>3. PostsInv'
  BY DEF OutboxInv, PostsInv, Unrecorded
<1>4. QED
  BY <1>1, <1>2, <1>3 DEF OutboxInv

\* The worker gives its rows up, counting the fault if a card was on its way.
LEMMA WorkerStops ==
  ASSUME OutboxInv, worker' = Resting, outbox' = outbox, faults' \in 0..MaxFaults,
         \/ faults' = faults /\ worker.answer \notin {"accepted", "lost"}
         \/ faults' = faults + 1,
         UNCHANGED <<access, stage, changes>>
  PROVE  OutboxInv'
<1>1. Resting \in Worker /\ Resting.answer = "none" /\ Resting.claims = {} /\ Resting.row = -1
  BY DEF Resting, Worker
<1>2. TypeOK'
  BY <1>1 DEF OutboxInv, TypeOK
<1>3. ClaimsInv'
  BY <1>1 DEF OutboxInv, ClaimsInv
<1>4. PostsInv'
  <2> SUFFICES ASSUME NEW k \in Rows
               PROVE  outbox[k].posts <= outbox[k].attempts + faults'
    BY <1>1, RowNumbers DEF PostsInv, Unrecorded, OutboxInv, TypeOK, Row
  <2>1. outbox[k].attempts \in Nat /\ outbox[k].posts \in Nat /\ faults \in Nat
    BY DeliveryAssumption DEF OutboxInv, TypeOK, Row
  <2>2. outbox[k].posts <= outbox[k].attempts + faults + IF Unrecorded(k) THEN 1 ELSE 0
    BY DEF OutboxInv, PostsInv
  <2>3. CASE faults' = faults /\ ~Unrecorded(k)
    BY <2>1, <2>2, <2>3
  <2>4. CASE faults' = faults + 1
    BY <2>1, <2>2, <2>4
  <2>5. QED
    BY <2>3, <2>4 DEF Unrecorded
<1>5. QED
  BY <1>2, <1>3, <1>4 DEF OutboxInv

\* The worker writes its row and goes on to the next.
LEMMA WorkerGoesOn ==
  ASSUME OutboxInv, worker.answer # "none", worker' = NextRow,
         NEW row1 \in Row, outbox' = [outbox EXCEPT ![worker.row] = row1],
         faults' \in 0..MaxFaults, faults' \in {faults, faults + 1},
         row1.status # "absent", row1.posts = outbox[worker.row].posts,
         row1.status \in Undecided => row1.attempts < MaxAttempts,
         outbox[worker.row].attempts + faults + (IF Unrecorded(worker.row) THEN 1 ELSE 0)
           <= row1.attempts + faults',
         UNCHANGED <<access, stage, changes>>
  PROVE  OutboxInv'
<1>1. /\ worker.row \in Rows /\ outbox[worker.row] \in Row
      /\ NextRow \in Worker /\ NextRow.answer = "none" /\ NextRow.row = -1
      /\ NextRow.claims = worker.claims \ {worker.row}
  BY RowAtWork
<1>2. /\ outbox' \in [Rows -> Row] /\ outbox'[worker.row] = row1
      /\ \A k \in Rows : k # worker.row => outbox'[k] = outbox[k]
  BY <1>1 DEF OutboxInv, TypeOK
<1>3. TypeOK'
  BY <1>1, <1>2 DEF OutboxInv, TypeOK
<1>4. ClaimsInv'
  BY <1>1, <1>2 DEF OutboxInv, ClaimsInv, TypeOK, Worker
<1>5. PostsInv'
  <2> SUFFICES ASSUME NEW k \in Rows
               PROVE  outbox'[k].posts <= outbox'[k].attempts + faults'
    BY <1>1, <1>2, RowNumbers, DeliveryAssumption DEF PostsInv, Unrecorded, Row
  <2>1. /\ outbox[k].attempts \in Nat /\ outbox[k].posts \in Nat /\ faults \in Nat
        /\ row1.attempts \in Nat
    BY DeliveryAssumption DEF OutboxInv, TypeOK, Row
  <2>2. outbox[k].posts <= outbox[k].attempts + faults + IF Unrecorded(k) THEN 1 ELSE 0
    BY DEF OutboxInv, PostsInv
  <2>3. CASE k = worker.row
    BY <1>2, <2>1, <2>2, <2>3
  <2>4. CASE k # worker.row
    BY <1>2, <2>1, <2>2, <2>4 DEF Unrecorded
  <2>5. QED
    BY <2>3, <2>4
<1>6. QED
  BY <1>3, <1>4, <1>5 DEF OutboxInv

\* A card is posted: the group has it, the outbox does not know.
LEMMA CardPosted ==
  ASSUME OutboxInv, NEW k \in Rows, Post(k)
  PROVE  OutboxInv'
<1>1. PICK answer \in Sendings \union {"skip", "release"} :
        /\ worker' = [worker EXCEPT !.row = k, !.answer = answer]
        /\ outbox' = [outbox EXCEPT ![k].posts = @ + IF answer \in {"accepted", "lost"}
                                                     THEN 1 ELSE 0]
  BY DEF Post
<1>2. /\ worker.answer = "none" /\ k \in worker.claims
      /\ UNCHANGED <<access, stage, faults, changes>>
  BY DEF Post
<1> DEFINE card == IF answer \in {"accepted", "lost"} THEN 1 ELSE 0
           row1 == [outbox[k] EXCEPT !.posts = @ + card]
<1>3. card \in Nat /\ outbox[k] \in Row /\ outbox[k].posts \in Nat
  BY DEF OutboxInv, TypeOK, Row
<1>4. /\ row1 \in Row /\ row1.posts = outbox[k].posts + card
      /\ row1.attempts = outbox[k].attempts /\ row1.status = outbox[k].status
  <2> HIDE DEF card
  <2>1. outbox[k].posts + card \in Nat
    BY <1>3
  <2>2. QED
    BY <1>3, <2>1 DEF Row
<1>5. outbox' = [outbox EXCEPT ![k] = row1]
  BY <1>1
<1> HIDE DEF row1
<1>6. /\ outbox' \in [Rows -> Row] /\ outbox'[k] = row1
      /\ \A j \in Rows : j # k => outbox'[j] = outbox[j]
  BY <1>4, <1>5 DEF OutboxInv, TypeOK
<1>7. /\ worker' \in Worker /\ worker'.row = k /\ worker'.answer = answer
      /\ worker'.claims = worker.claims
  BY <1>1 DEF OutboxInv, TypeOK, Worker
<1>8. TypeOK'
  BY <1>2, <1>6, <1>7 DEF OutboxInv, TypeOK
<1>9. ClaimsInv'
  BY <1>2, <1>4, <1>6, <1>7 DEF OutboxInv, ClaimsInv, TypeOK, Worker
<1>10. PostsInv'
  <2> SUFFICES ASSUME NEW j \in Rows
               PROVE  outbox'[j].posts <=
                        outbox'[j].attempts + faults + IF Unrecorded(j)' THEN 1 ELSE 0
    BY <1>2 DEF PostsInv
  <2>1. ~Unrecorded(j)
    BY <1>2 DEF Unrecorded
  <2>2. outbox[j].posts <= outbox[j].attempts + faults + 0
    BY <2>1 DEF OutboxInv, PostsInv
  <2>3. outbox[j].attempts \in Nat /\ outbox[j].posts \in Nat /\ faults \in Nat
    BY DeliveryAssumption DEF OutboxInv, TypeOK, Row
  <2>4. CASE j = k
    BY <1>4, <1>6, <1>7, <2>2, <2>3, <2>4 DEF Unrecorded
  <2>5. CASE j # k
    BY <1>6, <1>7, <2>2, <2>3, <2>5 DEF Unrecorded
  <2>6. QED
    BY <2>4, <2>5
<1>11. QED
  BY <1>8, <1>9, <1>10 DEF OutboxInv

\* Every step keeps it.
LEMMA OutboxStep ==
  ASSUME OutboxInv, [Next]_vars
  PROVE  OutboxInv'
<1>types. TypeOK
  BY DEF OutboxInv
<1>1. ASSUME NEW k \in Rows, Queue(k) PROVE OutboxInv'
  <2>1. [outbox[k] EXCEPT !.status = "pending"] \in Row
    BY <1>types DEF TypeOK, Row, Undecided
  <2>2. outbox' \in [Rows -> Row]
    BY <1>1, <1>types, <2>1 DEF Queue, TypeOK
  <2>3. QED
    BY <1>1, <1>types, <2>2, RowsTouched DEF Queue, TypeOK, Row
<1>2. CASE AccessChanges
  <2>1. changes' \in 0..MaxChanges /\ access' \in {"active", "stopped", "over"}
    BY <1>2, <1>types, DeliveryAssumption DEF AccessChanges, TypeOK
  <2>2. QED
    BY <1>2, <1>types, <2>1, RowsTouched DEF AccessChanges, TypeOK
<1>3. CASE StageLeft
  BY <1>3, <1>types, RowsTouched DEF StageLeft, TypeOK
<1>4. CASE Claim
  <2> DEFINE claims == {k \in Rows : Claimable(k)}
  <2>1. /\ outbox' = [k \in Rows |-> [outbox[k] EXCEPT !.claimed = @ \/ k \in claims]]
        /\ worker' = [Resting EXCEPT !.claims = claims]
        /\ worker = Resting /\ UNCHANGED <<access, stage, faults, changes>>
    BY <1>4 DEF Claim
  <2>2. \A k \in claims : outbox[k].status \in Undecided
    BY DEF Claimable
  <2>3. claims \in SUBSET Rows
    OBVIOUS
  <2> HIDE DEF claims
  <2>4. /\ worker' \in Worker /\ worker'.claims = claims /\ worker'.answer = "none"
        /\ worker'.row = -1
    BY <2>1, <2>3 DEF Resting, Worker
  <2>5. /\ outbox' \in [Rows -> Row]
        /\ \A k \in Rows : /\ outbox'[k].attempts = outbox[k].attempts
                           /\ outbox'[k].posts = outbox[k].posts
                           /\ outbox'[k].status = outbox[k].status
    BY <1>types, <2>1 DEF TypeOK, Row
  <2>6. TypeOK'
    BY <1>types, <2>1, <2>4, <2>5 DEF TypeOK
  <2>7. ClaimsInv'
    BY <2>2, <2>3, <2>4, <2>5 DEF OutboxInv, ClaimsInv
  <2>8. PostsInv'
    BY <2>1, <2>4, <2>5 DEF OutboxInv, PostsInv, Unrecorded, Resting
  <2>9. QED
    BY <2>6, <2>7, <2>8 DEF OutboxInv
<1>5. ASSUME NEW k \in Rows, Post(k) PROVE OutboxInv'
  BY <1>5, CardPosted
<1>6. CASE Record
  <2> DEFINE row1 == [Attempted(outbox[worker.row], worker.answer) EXCEPT !.claimed = FALSE]
  <2>1. /\ worker.answer \in Sendings \union {"skip"} /\ worker' = NextRow
        /\ UNCHANGED <<access, stage, faults, changes>>
        /\ outbox' = [outbox EXCEPT ![worker.row] = row1]
    BY <1>6 DEF Record
  <2>2. /\ row1 \in Row /\ row1.posts = outbox[worker.row].posts /\ row1.status # "absent"
        /\ row1.status \in Undecided => row1.attempts < MaxAttempts
        /\ row1.attempts = outbox[worker.row].attempts
                           + IF worker.answer = "skip" THEN 0 ELSE 1
    BY <2>1, AttemptCounted
  <2> HIDE DEF row1
  <2>3. worker.answer # "none" /\ faults' \in 0..MaxFaults
    BY <1>types, <2>1 DEF Sendings, TypeOK
  <2>4. outbox[worker.row].attempts \in Nat /\ faults \in Nat
    BY <1>types, <2>3, RowAtWork, DeliveryAssumption DEF Row, TypeOK
  <2>5. outbox[worker.row].attempts + faults + (IF Unrecorded(worker.row) THEN 1 ELSE 0)
          <= row1.attempts + faults'
    BY <2>1, <2>2, <2>4 DEF Unrecorded
  <2>6. QED
    BY <2>1, <2>2, <2>3, <2>5, WorkerGoesOn
<1>7. CASE Release
  <2>1. /\ worker.answer = "release" /\ UNCHANGED <<access, stage, faults, changes>>
        /\ \/ /\ outbox' = [outbox EXCEPT ![worker.row].claimed = FALSE]
              /\ worker' = NextRow
           \/ worker' = Resting /\ UNCHANGED outbox
    BY <1>7 DEF Release
  <2>2. CASE worker' = Resting /\ UNCHANGED outbox
    BY <1>types, <2>1, <2>2, WorkerStops DEF TypeOK
  <2>3. CASE outbox' = [outbox EXCEPT ![worker.row].claimed = FALSE] /\ worker' = NextRow
    <3> DEFINE row1 == [outbox[worker.row] EXCEPT !.claimed = FALSE]
    <3>1. outbox[worker.row] \in Row /\ worker.row \in worker.claims /\ worker.row \in Rows
      BY <2>1, RowAtWork DEF OutboxInv, ClaimsInv
    <3>2. outbox[worker.row].status \in Undecided
          /\ outbox[worker.row].attempts < MaxAttempts
      BY <3>1 DEF OutboxInv, ClaimsInv
    <3>3. /\ row1 \in Row /\ row1.posts = outbox[worker.row].posts
          /\ row1.status = outbox[worker.row].status
          /\ row1.attempts = outbox[worker.row].attempts
      BY <3>1 DEF Row
    <3>4. outbox' = [outbox EXCEPT ![worker.row] = row1]
      BY <2>3
    <3> HIDE DEF row1
    <3>5. row1.status # "absent" /\ row1.attempts \in Nat /\ faults \in Nat
      BY <1>types, <3>1, <3>2, <3>3, DeliveryAssumption DEF Undecided, Row, TypeOK
    <3>6. ~Unrecorded(worker.row)
      BY <2>1 DEF Unrecorded
    <3>7. /\ faults' \in 0..MaxFaults /\ faults' = faults /\ worker.answer # "none"
          /\ outbox[worker.row].attempts + faults + (IF Unrecorded(worker.row) THEN 1 ELSE 0)
               <= row1.attempts + faults'
      BY <1>types, <2>1, <3>3, <3>5, <3>6 DEF TypeOK
    <3>8. QED
      BY <2>1, <2>3, <3>2, <3>3, <3>4, <3>5, <3>7, WorkerGoesOn
  <2>4. QED
    BY <2>1, <2>2, <2>3
<1>8. CASE RecordFails
  <2>1. /\ worker.answer \in Sendings \union {"skip"} /\ faults < MaxFaults
        /\ faults' = faults + 1 /\ UNCHANGED <<access, stage, changes>>
        /\ \/ /\ outbox' = [outbox EXCEPT ![worker.row].status = "retrying",
                                          ![worker.row].resting = TRUE,
                                          ![worker.row].claimed = FALSE]
              /\ worker' = NextRow
           \/ worker' = Resting /\ UNCHANGED outbox
    BY <1>8 DEF RecordFails
  <2>2. faults' \in 0..MaxFaults /\ worker.answer # "none" /\ faults \in Nat
    BY <1>types, <2>1, DeliveryAssumption DEF TypeOK, Sendings
  <2>3. CASE worker' = Resting /\ UNCHANGED outbox
    BY <2>1, <2>2, <2>3, WorkerStops
  <2>4. CASE /\ outbox' = [outbox EXCEPT ![worker.row].status = "retrying",
                                         ![worker.row].resting = TRUE,
                                         ![worker.row].claimed = FALSE]
             /\ worker' = NextRow
    <3> DEFINE row1 == [outbox[worker.row] EXCEPT !.status = "retrying", !.resting = TRUE,
                                                  !.claimed = FALSE]
    <3>1. outbox[worker.row] \in Row /\ worker.row \in worker.claims /\ worker.row \in Rows
      BY <2>2, RowAtWork DEF OutboxInv, ClaimsInv
    <3>2. outbox[worker.row].attempts < MaxAttempts
      BY <3>1 DEF OutboxInv, ClaimsInv
    <3>3. /\ row1 \in Row /\ row1.posts = outbox[worker.row].posts
          /\ row1.status = "retrying"
          /\ row1.attempts = outbox[worker.row].attempts
      BY <3>1 DEF Row, Undecided
    <3>4. outbox' = [outbox EXCEPT ![worker.row] = row1]
      BY <2>4
    <3> HIDE DEF row1
    <3>5. row1.attempts \in Nat
      BY <3>3, DeliveryAssumption DEF Row
    <3>6. outbox[worker.row].attempts + faults + (IF Unrecorded(worker.row) THEN 1 ELSE 0)
            <= row1.attempts + faults'
      BY <2>1, <2>2, <3>3, <3>5
    <3>7. QED
      BY <2>1, <2>2, <2>4, <3>2, <3>3, <3>4, <3>6, WorkerGoesOn
  <2>5. QED
    BY <2>1, <2>3, <2>4
<1>9. ASSUME NEW k \in Rows, LeaseEnds(k) \/ DelayEnds(k) PROVE OutboxInv'
  <2>1. /\ [outbox[k] EXCEPT !.claimed = FALSE] \in Row
        /\ [outbox[k] EXCEPT !.resting = FALSE] \in Row
    BY <1>types DEF TypeOK, Row
  <2>2. outbox' \in [Rows -> Row]
    BY <1>9, <1>types, <2>1 DEF LeaseEnds, DelayEnds, TypeOK
  <2>3. QED
    <3>1. \A j \in Rows : /\ outbox'[j].attempts = outbox[j].attempts
                          /\ outbox'[j].posts = outbox[j].posts
                          /\ outbox'[j].status = outbox[j].status
      BY <1>9, <1>types DEF LeaseEnds, DelayEnds, TypeOK, Row
    <3>2. QED
      BY <1>9, <1>types, <2>2, <3>1, RowsTouched DEF LeaseEnds, DelayEnds, TypeOK
<1>10. CASE Crash
  <2>1. faults' \in 0..MaxFaults
    BY <1>10, <1>types, DeliveryAssumption DEF Crash, TypeOK
  <2>2. QED
    BY <1>10, <2>1, WorkerStops DEF Crash
<1>11. CASE UNCHANGED vars
  BY <1>11, <1>types, RowsTouched DEF vars, TypeOK
<1>12. QED
  BY <1>1, <1>2, <1>3, <1>4, <1>5, <1>6, <1>7, <1>8, <1>9, <1>10, <1>11 DEF Next, Work

\* The invariant of the outbox and its worker.
LEMMA OutboxInvariant == Spec => []OutboxInv
BY InitOutbox, OutboxStep, PTL DEF Spec

\* The types of the outbox: attempts never pass lark_delivery_max_attempts.
THEOREM TypeCorrect == Spec => []TypeOK
<1>1. OutboxInv => TypeOK
  BY DEF OutboxInv
<1>2. QED
  BY <1>1, OutboxInvariant, PTL

\* The group sees a notification no more often than it was counted as tried, and
\* once more for every stop of the process or failed commit in between.
THEOREM PostsCounted == Spec => []PostsBounded
<1>1. OutboxInv => PostsBounded
  <2> SUFFICES ASSUME OutboxInv, NEW k \in Rows PROVE outbox[k].posts <= MaxAttempts + faults
    BY DEF PostsBounded
  <2>1. /\ outbox[k].attempts \in 0..MaxAttempts /\ outbox[k].posts \in Nat /\ faults \in Nat
        /\ MaxAttempts \in Nat
    BY DeliveryAssumption DEF OutboxInv, TypeOK, Row
  <2>2. outbox[k].posts <= outbox[k].attempts + faults + IF Unrecorded(k) THEN 1 ELSE 0
    BY DEF OutboxInv, PostsInv
  <2>3. Unrecorded(k) => outbox[k].attempts < MaxAttempts
    BY DEF Unrecorded, OutboxInv, ClaimsInv
  <2>4. QED
    BY <2>1, <2>2, <2>3
<1>2. QED
  BY <1>1, OutboxInvariant, PTL

=============================================================================
