--------------------------- MODULE SingleEditProofs ---------------------------
(***************************************************************************)
(* Theorems of SingleEdit, for any number of requests of a root, slots of  *)
(* the provider, attempts, restarts and exceptions.                        *)
(***************************************************************************)
EXTENDS SingleEdit, FiniteSetTheorems, TLAPS

-----------------------------------------------------------------------------
(* Natural numbers.                                                        *)

\* A set of natural numbers has a least element: the base of the induction below.
LEMMA LeastNumber ==
  ASSUME NEW S \in SUBSET Nat, S # {}
  PROVE  \E x \in S : \A y \in S : x <= y
<1>1. PICK x \in S : \A y \in S : <<y, x>> \notin OpToRel(<, Nat)
  BY WFMin, NatLessThanWellFounded
<1>2. \A y \in S : ~ (y < x)
  BY <1>1 DEF OpToRel
<1>3. QED
  BY <1>2

\* Greatest(S, m): m is the greatest number of S.
Greatest(S, m) == m \in S /\ \A n \in S : n <= m

\* A finite set of natural numbers has a greatest, by induction on its size.
LEMMA GreatestNumber ==
  ASSUME NEW S \in SUBSET Nat, IsFiniteSet(S), S # {}
  PROVE  \E m \in S : Greatest(S, m)
<1> DEFINE bad == {n \in Nat : \E T \in SUBSET Nat : /\ T # {} /\ IsFiniteSet(T)
                                                     /\ Cardinality(T) = n
                                                     /\ \A m \in T : ~Greatest(T, m)}
<1>1. bad = {}
  <2> SUFFICES ASSUME bad # {} PROVE FALSE
    OBVIOUS
  <2>1. PICK n \in bad : \A k \in bad : n <= k
    <3>1. bad \in SUBSET Nat
      OBVIOUS
    <3> HIDE DEF bad
    <3>2. QED
      BY <3>1, LeastNumber
  <2>2. PICK T \in SUBSET Nat : /\ T # {} /\ IsFiniteSet(T) /\ Cardinality(T) = n
                                /\ \A m \in T : ~Greatest(T, m)
    BY <2>1
  <2>3. PICK x \in T : TRUE
    BY <2>2
  <2> DEFINE rest == T \ {x}
  <2>4. IsFiniteSet(rest) /\ Cardinality(rest) = n - 1 /\ n \in Nat
    BY <2>1, <2>2, <2>3, FS_RemoveElement
  <2>5. rest # {}
    <3>1. rest = {} => Greatest(T, x)
      BY DEF Greatest
    <3>2. QED
      BY <2>2, <3>1
  <2>6. n - 1 \in Nat /\ n - 1 \notin bad
    <3>1. Cardinality(rest) \in Nat
      BY <2>4, FS_CardinalityType
    <3>2. QED
      BY <2>1, <2>4, <3>1
  <2>7. PICK m \in rest : Greatest(rest, m)
    <3>1. rest \in SUBSET Nat
      OBVIOUS
    <3> HIDE DEF rest
    <3>2. QED
      BY <2>4, <2>5, <2>6, <3>1
  <2>8. Greatest(T, IF x <= m THEN m ELSE x)
    BY <2>7 DEF Greatest
  <2>9. QED
    BY <2>2, <2>7, <2>8
<1>2. Cardinality(S) \in Nat
  BY FS_CardinalityType
<1>3. QED
  BY <1>1, <1>2

-----------------------------------------------------------------------------
(* Types.                                                                  *)

\* There is a newest version, whatever the requests have come to.
LEMMA NewestOfNumbers ==
  ASSUME row \in [Requests -> Row]
  PROVE  /\ Numbers \in SUBSET Nat /\ IsFiniteSet(Numbers)
         /\ Newest \in Numbers /\ \A n \in Numbers : n <= Newest
<1> DEFINE numbers == {row[r].number : r \in With("succeeded")}
<1>1. With("succeeded") \in SUBSET Requests /\ IsFiniteSet(With("succeeded"))
  BY FS_Subset, EditAssumption DEF With
<1>2. IsFiniteSet(numbers)
  <2> DEFINE numberOf == [r \in With("succeeded") |-> row[r].number]
  <2>1. numberOf \in Surjection(With("succeeded"), numbers)
    BY DEF Surjection
  <2> HIDE DEF numberOf, numbers
  <2>2. QED
    BY <1>1, <2>1, FS_Surjection
<1>3. numbers \in SUBSET Nat
  BY DEF With, Row
<1> HIDE DEF numbers
<1>4. Numbers = numbers \union {1}
  BY DEF Numbers, numbers
<1>5. Numbers \in SUBSET Nat /\ IsFiniteSet(Numbers) /\ Numbers # {}
  BY <1>2, <1>3, <1>4, FS_AddElement
<1>6. \E n \in Numbers : \A m \in Numbers : m <= n
  BY <1>5, GreatestNumber DEF Greatest
<1>7. QED
  BY <1>5, <1>6 DEF Newest

\* A round begins only while there are some left, and calls the service without a
\* claim for a direct request only; a run is of a request that is being processed,
\* and an accept that has not been committed is of none.
RunsInv ==
  \A r \in Requests :
    /\ run[r].pc = "call" => r \in Direct
    /\ run[r].pc = "input" => run[r].tries < MaxTries
    /\ run[r].pc \in {"off", "waiting"} => run[r].tries = 0
    /\ run[r].pc # "off" => row[r].status = "processing"
    /\ accepts[r] \in {"locked", "flushed"} => row[r].status = "absent"

TypeInv == TypeOK /\ RunsInv

\* Every step keeps the types.
LEMMA TypeStep ==
  ASSUME TypeInv, [Next]_vars
  PROVE  TypeInv'
<1> USE DEF TypeInv, TypeOK, RunsInv
<1>1. ASSUME NEW r \in Requests, AcceptRead(r) PROVE TypeInv'
  BY <1>1, NewestOfNumbers DEF AcceptRead, With, Row
<1>2. ASSUME NEW r \in Requests, AcceptFlush(r) PROVE TypeInv'
  BY <1>2 DEF AcceptFlush
<1>3. ASSUME NEW r \in Requests, AcceptCommit(r) PROVE TypeInv'
  BY <1>3 DEF AcceptCommit, Row, Run
<1>4. ASSUME NEW r \in Requests, StatusPoll(r) PROVE TypeInv'
  BY <1>4 DEF StatusPoll, Run
<1>5. ASSUME NEW r \in Requests, Begin(r) PROVE TypeInv'
  BY <1>5, EditAssumption DEF Begin, Goes, Run
<1>6. ASSUME NEW r \in Requests, Input(r) PROVE TypeInv'
  <2>1. run[r] \in Run /\ run[r].tries + 1 \in 0..MaxTries
    <3>1. run[r] \in Run /\ run[r].tries \in 0..MaxTries /\ run[r].tries < MaxTries
      BY <1>6 DEF Input, Run
    <3>2. QED
      BY <3>1, EditAssumption
  <2>2. \A pc \in {"call", "poll", "claim"} :
          [run[r] EXCEPT !.pc = pc, !.tries = @ + 1] \in Run
    BY <2>1 DEF Run
  <2>3. [run[r] EXCEPT !.pc = "fail"] \in Run
    BY DEF Run
  <2>4. run' \in [Requests -> Run] /\ \A q \in Requests : q # r => run'[q] = run[q]
    <3>1. \/ \E pc \in {"call", "poll", "claim"} :
               run' = [run EXCEPT ![r] = [run[r] EXCEPT !.pc = pc, !.tries = @ + 1]]
          \/ run' = [run EXCEPT ![r] = [run[r] EXCEPT !.pc = "fail"]]
      BY <1>6 DEF Input, Goes
    <3>2. QED
      BY <2>2, <2>3, <3>1
  <2>5. run'[r].pc \in {"call", "poll", "claim", "fail"} /\ (run'[r].pc = "call" => r \in Direct)
    BY <1>6 DEF Input, Goes, Run
  <2>6. row[r].status = "processing"
    BY <1>6 DEF Input
  <2>7. UNCHANGED <<row, accepts, charges, garbled, raced, stops, escapes>>
    BY <1>6 DEF Input
  <2>8. QED
    BY <2>4, <2>5, <2>6, <2>7
<1>7. ASSUME NEW r \in Requests, Claim(r) PROVE TypeInv'
  <2>1. /\ [row[r] EXCEPT !.submitting = TRUE] \in Row
        /\ [row[r] EXCEPT !.submitting = TRUE].status = row[r].status
    BY DEF Row
  <2> DEFINE row1 == [row[r] EXCEPT !.submitting = TRUE]
  <2>2. row' = row \/ row' = [row EXCEPT ![r] = row1]
    BY <1>7 DEF Claim
  <2>3. row' \in [Requests -> Row] /\ \A q \in Requests : row'[q].status = row[q].status
    BY <2>1, <2>2
  <2>4. \E pc \in {"fail", "submit"} : Goes(r, pc)
    BY <1>7 DEF Claim
  <2>5. /\ run' \in [Requests -> Run] /\ \A q \in Requests : q # r => run'[q] = run[q]
        /\ run'[r].pc \in {"fail", "submit"}
    BY <2>4 DEF Goes, Run
  <2>6. row[r].status = "processing"
    BY <1>7 DEF Claim
  <2>7. UNCHANGED <<accepts, charges, garbled, raced, stops, escapes>>
    BY <1>7 DEF Claim
  <2>8. QED
    BY <2>3, <2>5, <2>6, <2>7
<1>8. ASSUME NEW r \in Requests, Submit(r) PROVE TypeInv'
  <2>1. \E pc \in {"record", "fail", "clear", "clearLast"} : Goes(r, pc)
    BY <1>8 DEF Submit, Created, Lost, Refused, Garbled
  <2>2. /\ run' \in [Requests -> Run] /\ \A q \in Requests : q # r => run'[q] = run[q]
        /\ run'[r].pc \in {"record", "fail", "clear", "clearLast"}
    BY <2>1 DEF Goes, Run
  <2>3. charges' \in [Requests -> Nat] /\ garbled' \in [Requests -> Nat]
    <3>1. charges[r] + 0 \in Nat /\ charges[r] + 1 \in Nat /\ garbled[r] + 1 \in Nat
      OBVIOUS
    <3>2. QED
      BY <1>8, <3>1 DEF Submit, Created, Lost, Refused, Garbled, Charged
  <2>4. row[r].status = "processing" /\ UNCHANGED <<row, accepts, raced, stops, escapes>>
    BY <1>8 DEF Submit
  <2>5. QED
    BY <2>2, <2>3, <2>4
<1>9. ASSUME NEW r \in Requests, ClearClaim(r) PROVE TypeInv'
  <2>1. row' \in [Requests -> Row] /\ \A q \in Requests : row'[q].status = row[q].status
    BY <1>9 DEF ClearClaim, Row
  <2>2. \E pc \in {"input", "fail"} : Goes(r, pc) /\ (pc = "input" => run[r].tries < MaxTries)
    BY <1>9 DEF ClearClaim, TryAgain
  <2>3. /\ run' \in [Requests -> Run] /\ \A q \in Requests : q # r => run'[q] = run[q]
        /\ run'[r].pc \in {"input", "fail"}
        /\ run'[r].pc = "input" => run'[r].tries < MaxTries
    BY <2>2 DEF Goes, Run
  <2>4. row[r].status = "processing"
    BY <1>9 DEF ClearClaim
  <2>5. UNCHANGED <<accepts, charges, garbled, raced, stops, escapes>>
    BY <1>9 DEF ClearClaim
  <2>6. QED
    BY <2>1, <2>3, <2>4, <2>5
<1>10. ASSUME NEW r \in Requests, RecordTask(r) PROVE TypeInv'
  <2>1. /\ [row[r] EXCEPT !.task = TRUE, !.submitting = FALSE] \in Row
        /\ [row[r] EXCEPT !.task = TRUE, !.submitting = FALSE].status = row[r].status
    BY DEF Row
  <2>2. row' = [row EXCEPT ![r] = [row[r] EXCEPT !.task = TRUE, !.submitting = FALSE]]
    BY <1>10 DEF RecordTask
  <2>3. row' \in [Requests -> Row] /\ \A q \in Requests : row'[q].status = row[q].status
    BY <2>1, <2>2
  <2>4. /\ run' \in [Requests -> Run] /\ \A q \in Requests : q # r => run'[q] = run[q]
        /\ run'[r].pc = "poll"
    BY <1>10 DEF RecordTask, Goes, Run
  <2>5. row[r].status = "processing"
    BY <1>10 DEF RecordTask
  <2>6. UNCHANGED <<accepts, charges, garbled, raced, stops, escapes>>
    BY <1>10 DEF RecordTask
  <2>7. QED
    BY <2>3, <2>4, <2>5, <2>6
<1>11. ASSUME NEW r \in Requests, Poll(r) PROVE TypeInv'
  BY <1>11 DEF Poll, TryAgain, Goes, Run
<1>12. ASSUME NEW r \in Requests, ReadLatest(r) PROVE TypeInv'
  <2>1. Newest \in Nat
    BY NewestOfNumbers
  <2>2. [run[r] EXCEPT !.pc = "save", !.latest = Newest] \in Run
    BY <2>1 DEF Run
  <2>3. /\ run' \in [Requests -> Run] /\ \A q \in Requests : q # r => run'[q] = run[q]
        /\ run'[r].pc = "save"
    BY <1>12, <2>2 DEF ReadLatest, Run
  <2>4. row[r].status = "processing"
    BY <1>12 DEF ReadLatest
  <2>5. UNCHANGED <<row, accepts, charges, garbled, raced, stops, escapes>>
    BY <1>12 DEF ReadLatest
  <2>6. QED
    BY <2>3, <2>4, <2>5
<1>13. ASSUME NEW r \in Requests, Save(r) PROVE TypeInv'
  <2> DEFINE row1 == [row[r] EXCEPT !.status = "succeeded", !.number = run[r].latest + 1]
  <2>1. row1 \in Row
    <3>1. run[r].latest + 1 \in Nat
      BY DEF Run
    <3>2. QED
      BY <3>1 DEF Row
  <2>2. row' = [row EXCEPT ![r] = row1]
    BY <1>13 DEF Save
  <2>3. row' \in [Requests -> Row] /\ \A q \in Requests : q # r => row'[q] = row[q]
    BY <2>1, <2>2
  <2>4. /\ run' \in [Requests -> Run] /\ \A q \in Requests : q # r => run'[q] = run[q]
        /\ run'[r].pc = "off" /\ run'[r].tries = 0
    BY <1>13, EditAssumption DEF Save, Off, Run
  <2>5. accepts[r] \notin {"locked", "flushed"}
    BY <1>13 DEF Save
  <2>6. UNCHANGED <<accepts, charges, garbled, raced, stops, escapes>>
    BY <1>13 DEF Save
  <2>7. QED
    BY <2>3, <2>4, <2>5, <2>6
<1>14. ASSUME NEW r \in Requests, Fail(r) PROVE TypeInv'
  BY <1>14, EditAssumption DEF Fail, Off, Run, Row
<1>15. ASSUME NEW r \in Requests, Escape(r) PROVE TypeInv'
  BY <1>15, EditAssumption DEF Escape, Off, Run
<1>16. CASE Crash
  BY <1>16, EditAssumption DEF Crash, Off, Run
<1>17. CASE UNCHANGED vars
  BY <1>17 DEF vars
<1>18. ASSUME NEW r \in Requests, Call(r) PROVE TypeInv'
  <2>1. \E pc \in {"latest", "input", "fail"} :
          Goes(r, pc) /\ (pc = "input" => run[r].tries < MaxTries)
    BY <1>18 DEF Call, TryAgain
  <2>2. /\ run' \in [Requests -> Run] /\ \A q \in Requests : q # r => run'[q] = run[q]
        /\ run'[r].pc \in {"latest", "input", "fail"}
        /\ run'[r].pc = "input" => run'[r].tries < MaxTries
    BY <2>1 DEF Goes, Run
  <2>3. charges' \in [Requests -> Nat]
    <3>1. charges[r] + 0 \in Nat /\ charges[r] + 1 \in Nat
      OBVIOUS
    <3>2. QED
      BY <1>18, <3>1 DEF Call, Charged
  <2>4. row[r].status = "processing" /\ UNCHANGED <<row, accepts, garbled, raced, stops, escapes>>
    BY <1>18 DEF Call
  <2>5. QED
    BY <2>2, <2>3, <2>4
<1>19. QED
  BY <1>1, <1>2, <1>3, <1>4, <1>5, <1>6, <1>7, <1>8, <1>9, <1>10, <1>11, <1>12, <1>13,
     <1>14, <1>15, <1>16, <1>17, <1>18 DEF Next, RunStep

\* Initially.
LEMMA InitTypes == Init => TypeInv
<1>1. Absent \in Row /\ Absent.status = "absent"
  BY DEF Absent, Row
<1>2. Off \in Run /\ Off.pc = "off" /\ Off.tries = 0
  BY EditAssumption DEF Off, Run
<1>3. 0 \in 0..MaxStops /\ 0 \in 0..MaxEscapes /\ 0 \in Nat
  BY EditAssumption
<1> SUFFICES ASSUME Init PROVE TypeInv
  OBVIOUS
<1>4. row \in [Requests -> Row] /\ run \in [Requests -> Run]
  BY <1>1, <1>2 DEF Init
<1>5. accepts \in [Requests -> {"none", "locked", "flushed", "answered"}]
  BY DEF Init
<1>6. charges \in [Requests -> Nat] /\ garbled \in [Requests -> Nat]
  BY <1>3 DEF Init
<1>7. raced \in BOOLEAN /\ stops \in 0..MaxStops /\ escapes \in 0..MaxEscapes
  BY <1>3 DEF Init
<1>8. RunsInv
  BY <1>2 DEF Init, RunsInv
<1>9. QED
  BY <1>4, <1>5, <1>6, <1>7, <1>8 DEF TypeInv, TypeOK

\* Every reachable state is of its types, and only what is processed runs.
LEMMA TypeInvariant == Spec => []TypeInv
BY InitTypes, TypeStep, PTL DEF Spec

\* Rows, runs and rounds keep their types: there is always a newest version to
\* number the next one after, and no round beyond _MAX_PROVIDER_ATTEMPTS.
THEOREM TypeCorrect == Spec => []TypeOK
<1>1. TypeInv => TypeOK
  BY DEF TypeInv
<1>2. QED
  BY <1>1, TypeInvariant, PTL

-----------------------------------------------------------------------------
(* What the service charges.                                               *)

\* A Kie request for which nothing says that a task may exist, and one that is about
\* to make a task, or was refused, has none but those answered with an error; one
\* that makes a task has claimed it, and has not recorded one before.
Paid(r) ==
  /\ charges[r] <= 1 + garbled[r]
  /\ run[r].pc \in {"claim", "submit", "clear", "clearLast", "record"} => ~row[r].task
  /\ run[r].pc \in {"submit", "record"} => row[r].submitting
  /\ run[r].pc \in {"submit", "clear", "clearLast"} => charges[r] <= garbled[r]
  /\ ~row[r].submitting /\ ~row[r].task => charges[r] <= garbled[r]

PaidInv == \A r \in Requests \ Direct : Paid(r)

\* A step of one request.
RequestStep(r) ==
  AcceptRead(r) \/ AcceptFlush(r) \/ AcceptCommit(r) \/ StatusPoll(r) \/ RunStep(r) \/ Escape(r)

\* It leaves the others alone.
LEMMA OthersKept ==
  ASSUME TypeInv, NEW r \in Requests, RequestStep(r), NEW q \in Requests, q # r
  PROVE  /\ row'[q] = row[q] /\ run'[q] = run[q] /\ accepts'[q] = accepts[q]
         /\ charges'[q] = charges[q] /\ garbled'[q] = garbled[q]
<1> USE DEF TypeInv, TypeOK
<1>1. CASE AcceptRead(r) \/ AcceptFlush(r) \/ AcceptCommit(r) \/ StatusPoll(r)
  BY <1>1 DEF AcceptRead, AcceptFlush, AcceptCommit, StatusPoll
<1>2. CASE Begin(r) \/ Input(r) \/ Claim(r) \/ ClearClaim(r) \/ RecordTask(r) \/ Poll(r)
  BY <1>2 DEF Begin, Input, Claim, ClearClaim, RecordTask, Poll, TryAgain, Goes
<1>3. CASE Submit(r) \/ Call(r)
  BY <1>3 DEF Submit, Call, TryAgain, Created, Lost, Refused, Garbled, Charged, Goes
<1>4. CASE ReadLatest(r) \/ Save(r) \/ Fail(r) \/ Escape(r)
  BY <1>4 DEF ReadLatest, Save, Fail, Escape
<1>5. QED
  BY <1>1, <1>2, <1>3, <1>4 DEF RequestStep, RunStep

\* A step that does nothing about tasks, but may give a run up or begin a round.
LEMMA PaidKept ==
  ASSUME TypeInv, NEW r \in Requests \ Direct, Paid(r),
         row'[r].submitting = row[r].submitting, row'[r].task = row[r].task,
         charges'[r] = charges[r], garbled'[r] = garbled[r],
         run'[r].pc \notin {"claim", "submit", "clear", "clearLast", "record"}
  PROVE  Paid(r)'
BY DEF Paid

\* Every step keeps it.
LEMMA PaidStep ==
  ASSUME TypeInv, PaidInv, [Next]_vars
  PROVE  PaidInv'
<1> USE DEF TypeInv, TypeOK
<1>1. ASSUME NEW r \in Requests \ Direct, RequestStep(r) PROVE Paid(r)'
  <2>1. CASE AcceptRead(r) \/ AcceptFlush(r)
    <3>1. /\ row'[r].submitting = row[r].submitting /\ row'[r].task = row[r].task
          /\ UNCHANGED <<run, charges, garbled>>
      BY <2>1 DEF AcceptRead, AcceptFlush, Row
    <3>2. QED
      BY <3>1 DEF PaidInv, Paid
  <2>2. CASE AcceptCommit(r) \/ StatusPoll(r) \/ Begin(r) \/ Poll(r) \/ ReadLatest(r)
             \/ Save(r) \/ Fail(r) \/ Escape(r)
    <3>1. /\ row'[r].submitting = row[r].submitting /\ row'[r].task = row[r].task
          /\ UNCHANGED <<charges, garbled>>
      BY <2>2 DEF AcceptCommit, StatusPoll, Begin, Poll, ReadLatest, Save, Fail, Escape, Row
    <3>2. run'[r].pc \in {"waiting", "input", "latest", "fail", "save", "off"}
      BY <2>2 DEF AcceptCommit, StatusPoll, Begin, Poll, ReadLatest, Save, Fail, Escape,
         TryAgain, Goes, Off, Run
    <3>3. QED
      BY <3>1, <3>2, PaidKept DEF PaidInv
  <2>3. CASE Input(r)
    <3>1. /\ UNCHANGED <<row, charges, garbled>>
          /\ run'[r].pc = "claim" => ~row[r].task
          /\ run'[r].pc \in {"claim", "poll", "fail"}
      BY <2>3 DEF Input, Goes, Run
    <3>2. QED
      BY <3>1 DEF PaidInv, Paid
  <2>4. CASE Claim(r)
    <3>1. UNCHANGED <<charges, garbled>> /\ run[r].pc = "claim"
      BY <2>4 DEF Claim
    <3>2. CASE row[r].submitting
      <4>1. run'[r].pc = "fail" /\ row' = row
        BY <2>4, <3>2 DEF Claim, Goes, Run
      <4>2. QED
        BY <3>1, <4>1, PaidKept DEF PaidInv
    <3>3. CASE ~row[r].submitting
      <4>1. run'[r].pc = "submit" /\ row' = [row EXCEPT ![r].submitting = TRUE]
        BY <2>4, <3>3 DEF Claim, Goes, Run
      <4>2. row'[r].submitting /\ row'[r].task = row[r].task
        BY <4>1 DEF Row
      <4>3. QED
        BY <3>1, <3>3, <4>1, <4>2 DEF PaidInv, Paid
    <3>4. QED
      BY <3>2, <3>3
  <2>5. CASE Submit(r)
    <3>1. row' = row /\ run[r].pc = "submit" /\ charges[r] \in Nat /\ garbled[r] \in Nat
      BY <2>5 DEF Submit
    <3>2. ~row[r].task /\ row[r].submitting /\ charges[r] <= garbled[r]
      BY <3>1 DEF PaidInv, Paid
    <3>3. \/ /\ run'[r].pc \in {"record", "fail"}
             /\ charges'[r] \in {charges[r], charges[r] + 1} /\ garbled'[r] = garbled[r]
          \/ /\ run'[r].pc \in {"clear", "clearLast"}
             /\ charges'[r] = charges[r] /\ garbled'[r] = garbled[r]
          \/ /\ run'[r].pc \in {"clear", "clearLast"}
             /\ charges'[r] = charges[r] + 1 /\ garbled'[r] = garbled[r] + 1
      BY <2>5 DEF Submit, Created, Lost, Refused, Garbled, Charged, Goes, Run
    <3>4. QED
      BY <3>1, <3>2, <3>3 DEF Paid
  <2>6. CASE ClearClaim(r)
    <3>1. /\ UNCHANGED <<charges, garbled>> /\ row'[r].task = row[r].task
          /\ ~row'[r].submitting /\ run[r].pc \in {"clear", "clearLast"}
      BY <2>6 DEF ClearClaim, Row
    <3>2. run'[r].pc \in {"input", "fail"}
      BY <2>6 DEF ClearClaim, TryAgain, Goes, Run
    <3>3. QED
      BY <3>1, <3>2 DEF PaidInv, Paid
  <2>7. CASE RecordTask(r)
    <3>1. UNCHANGED <<charges, garbled>> /\ row'[r].task /\ run'[r].pc = "poll"
      BY <2>7 DEF RecordTask, Goes, Row, Run
    <3>2. QED
      BY <3>1 DEF PaidInv, Paid
  <2>8. ~Call(r)
    BY DEF Call, RunsInv
  <2>9. QED
    BY <1>1, <2>1, <2>2, <2>3, <2>4, <2>5, <2>6, <2>7, <2>8 DEF RequestStep, RunStep
<1>2. ASSUME NEW r \in Requests, RequestStep(r) PROVE PaidInv'
  <2>1. ASSUME NEW q \in Requests \ Direct, q # r PROVE Paid(q)'
    BY <1>2, <2>1, OthersKept DEF PaidInv, Paid
  <2>2. QED
    BY <1>1, <1>2, <2>1 DEF PaidInv
<1>3. CASE Crash
  <2>1. /\ UNCHANGED <<row, charges, garbled>>
        /\ \A r \in Requests : run'[r].pc \in {"off", "waiting"}
    BY <1>3 DEF Crash, Off
  <2>2. QED
    BY <2>1, PaidKept DEF PaidInv
<1>4. CASE UNCHANGED vars
  BY <1>4 DEF vars, PaidInv, Paid
<1>5. QED
  BY <1>2, <1>3, <1>4 DEF Next, RequestStep

\* Initially.
LEMMA InitPaid == Init => PaidInv
BY DEF Init, PaidInv, Paid, Absent, Off

\* A request of a Kie connection makes no second task of the image service, unless
\* the service answered the creation of the first with an error: the claim that is
\* committed before the call, and cleared only after an error, outlives rounds,
\* exceptions and restarts.
THEOREM ChargedAtMostOnce == Spec => []ChargedOnce
<1>1. Init => TypeInv /\ PaidInv
  BY InitTypes, InitPaid
<1>2. TypeInv /\ PaidInv /\ [Next]_vars => (TypeInv /\ PaidInv)'
  BY TypeStep, PaidStep
<1>3. PaidInv => ChargedOnce
  BY DEF PaidInv, Paid, ChargedOnce
<1>4. QED
  BY <1>1, <1>2, <1>3, PTL DEF Spec

-----------------------------------------------------------------------------
(* What any request is charged at most.                                    *)

\* What the runs that ended without a decision may have been charged.
Past == MaxTries * (stops + escapes)

\* Each round that calls the service has been counted before, and what was decided
\* does not run again.
Spent(r) ==
  /\ charges[r] <= Past + MaxTries
  /\ row[r].status \in {"absent", "processing"} => charges[r] <= Past + run[r].tries
  /\ run[r].pc \in {"call", "claim", "submit"} => charges[r] + 1 <= Past + run[r].tries

SpentInv == \A r \in Requests : Spent(r)

\* One stop or exception more.
LEMMA OneMore == \A n \in Nat : MaxTries * n \in Nat /\ MaxTries * (n + 1) = MaxTries * n + MaxTries
BY EditAssumption

\* A step that calls nothing, and forgets no round but to end the run.
LEMMA SpentKept ==
  ASSUME TypeInv, TypeInv', NEW r \in Requests, Spent(r),
         charges'[r] = charges[r], UNCHANGED <<stops, escapes>>,
         run[r].tries <= run'[r].tries \/ row'[r].status \in {"succeeded", "failed"},
         row'[r].status \in {"absent", "processing"} => row[r].status \in {"absent", "processing"},
         run'[r].pc \in {"call", "claim", "submit"} =>
           /\ row[r].status = "processing"
           /\ \/ run[r].tries + 1 <= run'[r].tries
              \/ run[r].pc \in {"call", "claim", "submit"} /\ run'[r].tries = run[r].tries
  PROVE  Spent(r)'
<1>1. /\ charges[r] \in Nat /\ run[r].tries \in Nat /\ MaxTries \in Nat
      /\ stops \in Nat /\ escapes \in Nat /\ row[r] \in Row
  BY EditAssumption DEF TypeInv, TypeOK, Run
<1>2. Past \in Nat /\ Past' = Past
  BY <1>1, OneMore DEF Past
<1>3. run'[r].tries \in 0..MaxTries /\ run[r].tries \in 0..MaxTries
  BY DEF TypeInv, TypeOK, Run
<1>4. QED
  BY <1>1, <1>2, <1>3 DEF Spent, Row

\* A run that ends without a decision, and a step of another: the bound goes up by
\* as many rounds as a run may have had.
LEMMA SpentMore ==
  ASSUME TypeInv, TypeInv', NEW r \in Requests, Spent(r),
         row'[r].status = row[r].status, charges'[r] = charges[r],
         \/ stops' = stops /\ escapes' = escapes + 1
         \/ stops' = stops + 1 /\ escapes' = escapes,
         run'[r] = run[r] \/ run'[r].pc \in {"off", "waiting"}
  PROVE  Spent(r)'
<1>1. /\ charges[r] \in Nat /\ run[r].tries \in 0..MaxTries /\ run'[r].tries \in 0..MaxTries
      /\ MaxTries \in Nat /\ stops \in Nat /\ escapes \in Nat
  BY EditAssumption DEF TypeInv, TypeOK, Run
<1>2. (stops + escapes)' = (stops + escapes) + 1 /\ stops + escapes \in Nat
  BY <1>1
<1>3. Past \in Nat /\ Past' = Past + MaxTries
  BY <1>2, OneMore DEF Past
<1>4. QED
  BY <1>1, <1>3 DEF Spent

\* A step of a request keeps what it has spent.
LEMMA SpentRequest ==
  ASSUME TypeInv, TypeInv', NEW r \in Requests, Spent(r), RequestStep(r)
  PROVE  Spent(r)'
<1> USE DEF TypeInv, TypeOK
<1>1. CASE AcceptRead(r) \/ AcceptFlush(r)
  <2>1. row'[r].status = row[r].status /\ UNCHANGED <<run, charges, stops, escapes>>
    BY <1>1 DEF AcceptRead, AcceptFlush, Row
  <2>2. QED
    BY <2>1 DEF Spent, Past
<1>2. CASE AcceptCommit(r)
  <2>1. /\ row[r].status = "absent" /\ UNCHANGED <<charges, stops, escapes>>
        /\ run'[r].tries = run[r].tries /\ run'[r].pc = "waiting"
    BY <1>2 DEF AcceptCommit, RunsInv, Run
  <2>2. QED
    BY <2>1, SpentKept DEF Run
<1>3. CASE StatusPoll(r) \/ Begin(r) \/ Poll(r) \/ ReadLatest(r) \/ ClearClaim(r) \/ RecordTask(r)
  <2>1. row'[r].status = row[r].status /\ UNCHANGED <<charges, stops, escapes>>
    BY <1>3 DEF StatusPoll, Begin, Poll, ReadLatest, ClearClaim, RecordTask, Row
  <2>2. /\ run'[r].tries = run[r].tries
        /\ run'[r].pc \in {"waiting", "input", "latest", "fail", "save", "poll"}
    BY <1>3 DEF StatusPoll, Begin, Poll, ReadLatest, ClearClaim, RecordTask, TryAgain, Goes, Run
  <2>3. QED
    BY <2>1, <2>2, SpentKept DEF Run
<1>4. CASE Input(r)
  <2>1. run[r].pc = "input" /\ UNCHANGED <<row, charges, stops, escapes>>
    BY <1>4 DEF Input
  <2>2. \/ run'[r].tries = run[r].tries + 1
        \/ run'[r].tries = run[r].tries /\ run'[r].pc = "fail"
    BY <1>4 DEF Input, Goes, Run
  <2>3. row[r].status = "processing"
    BY <2>1 DEF RunsInv
  <2>4. QED
    BY <2>1, <2>2, <2>3, SpentKept DEF Run
<1>5. CASE Claim(r)
  <2>1. /\ row'[r].status = row[r].status /\ run[r].pc = "claim"
        /\ UNCHANGED <<charges, stops, escapes>>
    BY <1>5 DEF Claim, Row
  <2>2. run'[r].tries = run[r].tries /\ run'[r].pc \in {"submit", "fail"}
    BY <1>5 DEF Claim, Goes, Run
  <2>3. row[r].status = "processing"
    BY <2>1 DEF RunsInv
  <2>4. QED
    BY <2>1, <2>2, <2>3, SpentKept DEF Run
<1>6. CASE Call(r) \/ Submit(r)
  <2>1. run[r].pc \in {"call", "submit"} /\ UNCHANGED <<row, stops, escapes>>
    BY <1>6 DEF Call, Submit
  <2>2. charges'[r] \in {charges[r], charges[r] + 1}
    BY <1>6 DEF Call, Submit, Created, Lost, Refused, Garbled, Charged
  <2>3. /\ run'[r].tries = run[r].tries
        /\ run'[r].pc \in {"latest", "input", "fail", "record", "clear", "clearLast"}
    BY <1>6 DEF Call, Submit, Created, Lost, Refused, Garbled, TryAgain, Goes, Run
  <2>4. charges[r] + 1 <= Past + run[r].tries
    BY <2>1 DEF Spent
  <2>5. Past' = Past /\ Past \in Nat
    BY <2>1, OneMore, EditAssumption DEF Past
  <2>6. charges[r] \in Nat /\ run[r].tries \in 0..MaxTries /\ MaxTries \in Nat
    BY EditAssumption DEF Run
  <2>7. QED
    BY <2>1, <2>2, <2>3, <2>4, <2>5, <2>6 DEF Spent
<1>7. CASE Save(r) \/ Fail(r)
  <2>1. /\ row'[r].status \in {"succeeded", "failed"} /\ run'[r].pc = "off"
        /\ UNCHANGED <<charges, stops, escapes>>
    BY <1>7 DEF Save, Fail, Row, Off
  <2>2. QED
    BY <2>1, SpentKept
<1>8. CASE Escape(r)
  <2>1. /\ UNCHANGED <<row, charges, stops>> /\ escapes' = escapes + 1
        /\ run'[r].pc = "off" /\ row[r].status = "processing"
    BY <1>8 DEF Escape, Off, RunsInv
  <2>2. QED
    BY <2>1, SpentMore
<1>9. QED
  BY <1>1, <1>2, <1>3, <1>4, <1>5, <1>6, <1>7, <1>8 DEF RequestStep, RunStep

\* Every step of the system does.
LEMMA SpentStep ==
  ASSUME TypeInv, TypeInv', SpentInv, [Next]_vars
  PROVE  SpentInv'
<1> USE DEF TypeInv, TypeOK
<1>1. ASSUME NEW r \in Requests, RequestStep(r), NEW q \in Requests PROVE Spent(q)'
  <2>1. CASE q = r
    BY <1>1, <2>1, SpentRequest DEF SpentInv
  <2>2. CASE q # r
    <3>1. /\ row'[q] = row[q] /\ run'[q] = run[q] /\ charges'[q] = charges[q]
      BY <1>1, <2>2, OthersKept
    <3>2. CASE Escape(r)
      <4>1. stops' = stops /\ escapes' = escapes + 1
        BY <3>2 DEF Escape
      <4>2. QED
        BY <3>1, <4>1, SpentMore DEF SpentInv
    <3>3. CASE ~Escape(r)
      <4>1. UNCHANGED <<stops, escapes>>
        BY <1>1, <3>3 DEF RequestStep, RunStep, AcceptRead, AcceptFlush, AcceptCommit,
           StatusPoll, Begin, Input, Call, Claim, Submit, ClearClaim, RecordTask, Poll,
           ReadLatest, Save, Fail
      <4>2. QED
        BY <3>1, <4>1 DEF SpentInv, Spent, Past
    <3>4. QED
      BY <3>2, <3>3
  <2>3. QED
    BY <2>1, <2>2
<1>2. CASE Crash
  <2>1. /\ UNCHANGED <<row, charges, escapes>> /\ stops' = stops + 1
        /\ \A r \in Requests : run'[r].pc \in {"off", "waiting"}
    BY <1>2 DEF Crash, Off
  <2>2. ASSUME NEW r \in Requests PROVE Spent(r)'
    BY <2>1, SpentMore DEF SpentInv
  <2>3. QED
    BY <2>2 DEF SpentInv
<1>3. CASE UNCHANGED vars
  BY <1>3 DEF vars, SpentInv, Spent, Past
<1>4. QED
  BY <1>1, <1>2, <1>3 DEF Next, RequestStep, SpentInv

\* However it is called, claimed or not, no request is charged more often than it
\* has rounds: _MAX_PROVIDER_ATTEMPTS, and as many for every restart and exception.
THEOREM AllChargesBounded == Spec => []ChargesBounded
<1>1. Init => TypeInv /\ SpentInv
  <2>1. ASSUME Init, NEW r \in Requests PROVE Spent(r)
    <3>1. stops + escapes = 0 /\ MaxTries * 0 = 0 /\ MaxTries \in Nat
      BY <2>1, EditAssumption DEF Init
    <3>2. charges[r] = 0 /\ run[r].pc = "off" /\ run[r].tries = 0
      BY <2>1 DEF Init, Off
    <3>3. QED
      BY <3>1, <3>2 DEF Spent, Past
  <2>2. QED
    BY <2>1, InitTypes DEF SpentInv
<1>2. TypeInv /\ SpentInv /\ [Next]_vars => (TypeInv /\ SpentInv)'
  BY TypeStep, SpentStep
<1>3. TypeInv /\ SpentInv => ChargesBounded
  <2>1. ASSUME TypeInv, SpentInv, NEW r \in Requests
        PROVE  charges[r] <= MaxTries * (1 + stops + escapes)
    <3>1. stops + escapes \in Nat /\ 1 + stops + escapes = (stops + escapes) + 1
      BY <2>1, EditAssumption DEF TypeInv, TypeOK
    <3>2. charges[r] <= Past + MaxTries
      BY <2>1 DEF SpentInv, Spent
    <3>3. MaxTries * ((stops + escapes) + 1) = Past + MaxTries
      BY <3>1, OneMore DEF Past
    <3>4. QED
      BY <3>1, <3>2, <3>3
  <2>2. QED
    BY <2>1 DEF ChargesBounded
<1>4. QED
  BY <1>1, <1>2, <1>3, PTL DEF Spec

-----------------------------------------------------------------------------
(* The numbers of the versions.                                            *)

\* As long as no two requests were processed at once: one is, at most, and the
\* number it has read, if it has, is the newest still.
NumbersInv ==
  ~raced =>
    /\ \A r, q \in With("processing") : r = q
    /\ Numbers = 1..(Cardinality(With("succeeded")) + 1)
    /\ \A r \in Requests : run[r].pc = "save" =>
                             run[r].latest = Cardinality(With("succeeded")) + 1

\* Numbers one after the other: the newest is the last.
LEMMA NewestIsLast ==
  ASSUME TypeInv, NEW n \in Nat, Numbers = 1..(n + 1)
  PROVE  Newest = n + 1
<1>1. n + 1 \in Numbers /\ \A m \in Numbers : m <= n + 1
  OBVIOUS
<1>2. Newest \in Numbers /\ n + 1 <= Newest
  BY <1>1, NewestOfNumbers DEF TypeInv, TypeOK
<1>3. QED
  BY <1>1, <1>2

\* The versions there are can be counted.
LEMMA SucceededFinite ==
  IsFiniteSet(With("succeeded")) /\ Cardinality(With("succeeded")) \in Nat
<1>1. With("succeeded") \in SUBSET Requests
  BY DEF With
<1>2. QED
  BY <1>1, FS_Subset, FS_CardinalityType, EditAssumption

\* A step that makes no version, and processes nothing new.
LEMMA NumbersKept ==
  ASSUME TypeInv, NumbersInv, raced' = raced,
         \A r \in Requests : /\ row'[r].number = row[r].number
                             /\ \/ row'[r].status = row[r].status
                                \/ row[r].status = "processing" /\ row'[r].status = "failed",
         \A r \in Requests : run'[r].pc = "save" =>
           \/ run[r].pc = "save" /\ run'[r].latest = run[r].latest
           \/ run'[r].latest = Newest
  PROVE  NumbersInv'
<1> SUFFICES ASSUME ~raced
             PROVE  (/\ \A r, q \in With("processing") : r = q
                     /\ Numbers = 1..(Cardinality(With("succeeded")) + 1)
                     /\ \A r \in Requests : run[r].pc = "save" =>
                                   run[r].latest = Cardinality(With("succeeded")) + 1)'
  BY DEF NumbersInv
<1>1. With("succeeded")' = With("succeeded") /\ With("processing")' \subseteq With("processing")
  BY DEF With
<1>2. Numbers' = Numbers
  BY <1>1 DEF Numbers, With
<1>3. Newest = Cardinality(With("succeeded")) + 1
  BY SucceededFinite, NewestIsLast DEF NumbersInv
<1>4. QED
  BY <1>1, <1>2, <1>3 DEF NumbersInv

\* The commit of a version: it gets the number after the last.
LEMMA NumberSaved ==
  ASSUME TypeInv, NumbersInv, NEW r \in Requests, Save(r)
  PROVE  NumbersInv'
<1> DEFINE done == With("succeeded")
           c == Cardinality(done)
<1>1. /\ run[r].pc = "save" /\ UNCHANGED raced
      /\ row' = [row EXCEPT ![r].status = "succeeded", ![r].number = run[r].latest + 1]
      /\ run' = [run EXCEPT ![r] = Off]
  BY DEF Save
<1> SUFFICES ASSUME ~raced
             PROVE  (/\ \A p, q \in With("processing") : p = q
                     /\ Numbers = 1..(Cardinality(With("succeeded")) + 1)
                     /\ \A q \in Requests : run[q].pc = "save" =>
                                   run[q].latest = Cardinality(With("succeeded")) + 1)'
  BY <1>1 DEF NumbersInv
<1>2. row[r].status = "processing" /\ run[r].latest = c + 1
  BY <1>1 DEF TypeInv, RunsInv, NumbersInv
<1>3. /\ row'[r].status = "succeeded" /\ row'[r].number = run[r].latest + 1
      /\ \A q \in Requests : q # r => row'[q] = row[q] /\ run'[q] = run[q]
      /\ run'[r].pc = "off"
  BY <1>1 DEF TypeInv, TypeOK, Row, Off
<1>4. With("succeeded")' = done \union {r} /\ r \notin done
  BY <1>2, <1>3 DEF With
<1>5. c \in Nat /\ IsFiniteSet(done)
  BY SucceededFinite
<1>6. Cardinality(With("succeeded")') = c + 1
  BY <1>4, <1>5, FS_AddElement
<1>7. Numbers' = Numbers \union {c + 2}
  <2>1. row'[r].number = c + 2
    BY <1>2, <1>3, <1>5
  <2>2. \A q \in done : row'[q].number = row[q].number
    BY <1>3, <1>4 DEF With
  <2>3. QED
    BY <1>4, <2>1, <2>2 DEF Numbers
<1>8. Numbers = 1..(c + 1)
  BY DEF NumbersInv
<1>9. Numbers' = 1..(c + 2)
  <2> HIDE DEF c
  <2>1. QED
    BY <1>5, <1>7, <1>8
<1>10. \A q \in Requests : run'[q].pc # "save"
  <2> SUFFICES ASSUME NEW q \in Requests, run'[q].pc = "save" PROVE FALSE
    OBVIOUS
  <2>1. q # r /\ run[q].pc = "save"
    BY <1>3
  <2>2. q \in With("processing") /\ r \in With("processing")
    BY <1>2, <2>1 DEF TypeInv, RunsInv, With
  <2>3. QED
    BY <2>1, <2>2 DEF NumbersInv
<1>11. \A p, q \in With("processing")' : p = q
  BY <1>3 DEF With, NumbersInv
<1>12. (c + 1) + 1 = c + 2
  BY <1>5
<1>13. QED
  BY <1>6, <1>9, <1>10, <1>11, <1>12

\* The commit of a new request: it is the only one, or it is a race.
LEMMA NumberAwaited ==
  ASSUME TypeInv, NumbersInv, NEW r \in Requests, AcceptCommit(r)
  PROVE  NumbersInv'
<1>1. /\ row' = [row EXCEPT ![r].status = "processing"]
      /\ run' = [run EXCEPT ![r].pc = "waiting"]
      /\ raced' = (raced \/ With("processing") # {})
      /\ row[r].status = "absent"
  BY DEF AcceptCommit, TypeInv, RunsInv
<1> SUFFICES ASSUME ~raced'
             PROVE  (/\ \A p, q \in With("processing") : p = q
                     /\ Numbers = 1..(Cardinality(With("succeeded")) + 1)
                     /\ \A q \in Requests : run[q].pc = "save" =>
                                   run[q].latest = Cardinality(With("succeeded")) + 1)'
  BY DEF NumbersInv
<1>2. ~raced /\ With("processing") = {}
  BY <1>1
<1>3. /\ \A q \in Requests : row'[q].number = row[q].number /\ (q # r => row'[q] = row[q])
      /\ row'[r].status = "processing"
  BY <1>1 DEF TypeInv, TypeOK, Row
<1>4. With("succeeded")' = With("succeeded") /\ With("processing")' = {r}
  BY <1>1, <1>2, <1>3 DEF With
<1>5. Numbers' = Numbers
  BY <1>3, <1>4 DEF Numbers, With
<1>6. \A q \in Requests : run'[q].pc = "save" => run[q].pc = "save" /\ run'[q] = run[q]
  BY <1>1 DEF TypeInv, TypeOK, Run
<1>7. QED
  BY <1>2, <1>4, <1>5, <1>6 DEF NumbersInv

\* Every step keeps the numbers in order.
LEMMA NumbersStep ==
  ASSUME TypeInv, NumbersInv, [Next]_vars
  PROVE  NumbersInv'
<1> USE DEF TypeInv, TypeOK
<1>1. ASSUME NEW r \in Requests, RequestStep(r), ~AcceptCommit(r), ~Save(r) PROVE NumbersInv'
  <2>1. raced' = raced
    BY <1>1 DEF RequestStep, RunStep, AcceptRead, AcceptFlush, StatusPoll, Begin, Input,
       Call, Claim, Submit, ClearClaim, RecordTask, Poll, ReadLatest, Fail, Escape
  <2>2. /\ row'[r].number = row[r].number
        /\ \/ row'[r].status = row[r].status
           \/ row[r].status = "processing" /\ row'[r].status = "failed"
    <3>1. CASE Fail(r)
      BY <1>1, <3>1 DEF Fail, RunsInv, Row
    <3>2. CASE AcceptRead(r) \/ Claim(r) \/ ClearClaim(r) \/ RecordTask(r)
      BY <3>2 DEF AcceptRead, Claim, ClearClaim, RecordTask, Row
    <3>3. CASE UNCHANGED row
      BY <3>3
    <3>4. QED
      BY <1>1, <3>1, <3>2, <3>3 DEF RequestStep, RunStep, AcceptFlush, StatusPoll, Begin,
         Input, Call, Submit, Poll, ReadLatest, Escape
  <2>3. run'[r].pc = "save" => \/ run[r].pc = "save" /\ run'[r].latest = run[r].latest
                              \/ run'[r].latest = Newest
    <3>1. CASE ReadLatest(r)
      BY <3>1 DEF ReadLatest, Run
    <3>2. CASE UNCHANGED run
      BY <3>2
    <3>3. CASE StatusPoll(r) \/ Begin(r) \/ Input(r) \/ Claim(r) \/ ClearClaim(r)
               \/ RecordTask(r) \/ Poll(r) \/ Fail(r) \/ Escape(r)
      BY <3>3 DEF StatusPoll, Begin, Input, Claim, ClearClaim, RecordTask, Poll, Fail, Escape,
         TryAgain, Goes, Run, Off
    <3>4. CASE Submit(r) \/ Call(r)
      BY <3>4 DEF Submit, Call, TryAgain, Created, Lost, Refused, Garbled, Goes, Run
    <3>5. QED
      BY <1>1, <3>1, <3>2, <3>3, <3>4 DEF RequestStep, RunStep, AcceptRead, AcceptFlush
  <2>4. QED
    BY <1>1, <2>1, <2>2, <2>3, OthersKept, NumbersKept
<1>2. ASSUME NEW r \in Requests, RequestStep(r) PROVE NumbersInv'
  BY <1>1, <1>2, NumberSaved, NumberAwaited
<1>3. CASE Crash
  <2>1. UNCHANGED <<row, raced>> /\ \A r \in Requests : run'[r].pc \in {"off", "waiting"}
    BY <1>3 DEF Crash, Off
  <2>2. QED
    BY <2>1, NumbersKept
<1>4. CASE UNCHANGED vars
  BY <1>4, NumbersKept DEF vars
<1>5. QED
  BY <1>2, <1>3, <1>4 DEF Next, RequestStep

\* Initially, there is the root.
LEMMA InitNumbers == Init => NumbersInv
<1> SUFFICES ASSUME Init PROVE NumbersInv
  OBVIOUS
<1>1. With("succeeded") = {} /\ With("processing") = {}
  BY DEF Init, With, Absent
<1>2. Numbers = 1..1
  BY <1>1 DEF Numbers
<1>3. Cardinality(With("succeeded")) + 1 = 1
  BY <1>1, FS_EmptySet
<1>4. \A r \in Requests : run[r].pc = "off"
  BY DEF Init, Off
<1>5. QED
  BY <1>1, <1>2, <1>3, <1>4 DEF NumbersInv

\* Versions of a root are numbered one after the other, without a gap and without
\* a double, whatever version each request edits, while it has one at a time.
THEOREM NumberedInOrder == Spec => []NumbersInOrder
<1>1. Init => TypeInv /\ NumbersInv
  BY InitTypes, InitNumbers
<1>2. TypeInv /\ NumbersInv /\ [Next]_vars => (TypeInv /\ NumbersInv)'
  BY TypeStep, NumbersStep
<1>3. NumbersInv => NumbersInOrder
  BY DEF NumbersInv, NumbersInOrder
<1>4. QED
  BY <1>1, <1>2, <1>3, PTL DEF Spec


-----------------------------------------------------------------------------
(* Each request of a Kie connection implements the abstract candidate.     *)

\* What a request has been charged, as its row and its run tell it: one task that
\* was answered from the moment it is to be recorded, none before it is submitted.
Billed(r) ==
  /\ garbled[r] <= charges[r]
  /\ row[r].task \/ run[r].pc \in {"record", "poll", "latest", "save"} =>
       charges[r] = 1 + garbled[r]

BilledInv == \A r \in Requests \ Direct : Billed(r)

\* Every step of a request keeps what it has been charged.
LEMMA BilledRequest ==
  ASSUME TypeInv, PaidInv, BilledInv, NEW r \in Requests \ Direct, RequestStep(r)
  PROVE  Billed(r)'
<1> USE DEF TypeInv, TypeOK
<1>1. CASE AcceptRead(r) \/ AcceptFlush(r)
  <2>1. row'[r].task = row[r].task /\ UNCHANGED <<run, charges, garbled>>
    BY <1>1 DEF AcceptRead, AcceptFlush, Row
  <2>2. QED
    BY <2>1 DEF BilledInv, Billed
<1>2. CASE AcceptCommit(r) \/ StatusPoll(r) \/ Begin(r) \/ Fail(r) \/ Escape(r)
  <2>1. row'[r].task = row[r].task /\ UNCHANGED <<charges, garbled>>
    BY <1>2 DEF AcceptCommit, StatusPoll, Begin, Fail, Escape, Row
  <2>2. run'[r].pc \in {"waiting", "input", "off"}
    BY <1>2 DEF AcceptCommit, StatusPoll, Begin, Fail, Escape, Goes, Off, Run
  <2>3. QED
    BY <2>1, <2>2 DEF BilledInv, Billed
<1>3. CASE Input(r)
  <2>1. /\ UNCHANGED <<row, charges, garbled>>
        /\ run'[r].pc = "poll" => row[r].task
        /\ run'[r].pc \in {"claim", "poll", "fail"}
    BY <1>3 DEF Input, Goes, Run
  <2>2. QED
    BY <2>1 DEF BilledInv, Billed
<1>4. CASE Claim(r) \/ ClearClaim(r)
  <2>1. row'[r].task = row[r].task /\ UNCHANGED <<charges, garbled>>
    BY <1>4 DEF Claim, ClearClaim, Row
  <2>2. run'[r].pc \in {"submit", "input", "fail"}
    BY <1>4 DEF Claim, ClearClaim, TryAgain, Goes, Run
  <2>3. QED
    BY <2>1, <2>2 DEF BilledInv, Billed
<1>5. CASE Submit(r)
  <2>1. /\ ~row[r].task /\ charges[r] <= garbled[r] /\ row' = row
        /\ charges[r] \in Nat /\ garbled[r] \in Nat
    BY <1>5 DEF Submit, PaidInv, Paid
  <2>2. charges[r] = garbled[r]
    <3>1. garbled[r] <= charges[r]
      BY DEF BilledInv, Billed
    <3>2. QED
      BY <2>1, <3>1
  <2>3. \/ /\ run'[r].pc = "record"
           /\ charges'[r] = charges[r] + 1 /\ garbled'[r] = garbled[r]
        \/ /\ run'[r].pc = "fail"
           /\ charges'[r] \in {charges[r], charges[r] + 1} /\ garbled'[r] = garbled[r]
        \/ /\ run'[r].pc \in {"clear", "clearLast"}
           /\ charges'[r] = charges[r] /\ garbled'[r] = garbled[r]
        \/ /\ run'[r].pc \in {"clear", "clearLast"}
           /\ charges'[r] = charges[r] + 1 /\ garbled'[r] = garbled[r] + 1
    BY <1>5 DEF Submit, Created, Lost, Refused, Garbled, Charged, Goes, Run
  <2>4. QED
    BY <2>1, <2>2, <2>3 DEF Billed
<1>6. CASE RecordTask(r) \/ Poll(r) \/ ReadLatest(r) \/ Save(r)
  <2>1. /\ run[r].pc \in {"record", "poll", "latest", "save"}
        /\ UNCHANGED <<charges, garbled>>
    BY <1>6 DEF RecordTask, Poll, ReadLatest, Save
  <2>2. QED
    BY <2>1 DEF BilledInv, Billed
<1>7. ~Call(r)
  BY DEF Call, RunsInv
<1>8. QED
  BY <1>1, <1>2, <1>3, <1>4, <1>5, <1>6, <1>7 DEF RequestStep, RunStep

\* Every step of the system does.
LEMMA BilledStep ==
  ASSUME TypeInv, PaidInv, BilledInv, [Next]_vars
  PROVE  BilledInv'
<1>1. ASSUME NEW r \in Requests, RequestStep(r) PROVE BilledInv'
  <2>1. ASSUME NEW q \in Requests \ Direct, q # r PROVE Billed(q)'
    BY <1>1, <2>1, OthersKept DEF BilledInv, Billed
  <2>2. r \notin Direct => Billed(r)'
    BY <1>1, BilledRequest
  <2>3. QED
    BY <2>1, <2>2 DEF BilledInv
<1>2. CASE Crash
  <2>1. /\ UNCHANGED <<row, charges, garbled>>
        /\ \A r \in Requests : run'[r].pc \in {"off", "waiting"}
    BY <1>2 DEF Crash, Off
  <2>2. QED
    BY <2>1 DEF BilledInv, Billed
<1>3. CASE UNCHANGED vars
  BY <1>3 DEF vars, BilledInv, Billed
<1>4. QED
  BY <1>1, <1>2, <1>3 DEF Next, RequestStep

\* A step that changes neither the status nor the charges is none of the abstract
\* candidate's.
LEMMA Stutters ==
  ASSUME NEW r \in Requests, row'[r].status = row[r].status,
         charges'[r] = charges[r], garbled'[r] = garbled[r]
  PROVE  PromisedStep(r)
BY DEF PromisedStep, Once!vars, Outcome

\* What a step of a request does to the abstract candidate: a submission may
\* charge, the two last transactions deliver and fail, nothing else is seen.
LEMMA StepPromised ==
  ASSUME TypeInv, PaidInv, BilledInv, NEW r \in Requests \ Direct, RequestStep(r)
  PROVE  PromisedStep(r)
<1> USE DEF TypeInv, TypeOK
<1>open. row[r].status \in {"absent", "processing"} => Outcome(r) = "open"
  BY DEF Outcome
<1>runs. run[r].pc # "off" => row[r].status = "processing"
  BY DEF RunsInv
<1>1. CASE Submit(r)
  <2>1. /\ run[r].pc = "submit" /\ charges[r] <= garbled[r] /\ row' = row
        /\ charges[r] \in Nat /\ garbled[r] \in Nat
    BY <1>1 DEF Submit, PaidInv, Paid
  <2>2. charges[r] = garbled[r]
    <3>1. garbled[r] <= charges[r]
      BY DEF BilledInv, Billed
    <3>2. QED
      BY <2>1, <3>1
  <2>3. \/ charges'[r] = charges[r] /\ garbled'[r] = garbled[r]
        \/ charges'[r] = charges[r] + 1 /\ garbled'[r] = garbled[r] + 1
        \/ charges'[r] = charges[r] + 1 /\ garbled'[r] = garbled[r]
    BY <1>1 DEF Submit, Created, Lost, Refused, Garbled, Charged
  <2>4. Outcome(r) = "open" /\ Outcome(r)' = Outcome(r)
    BY <2>1, <1>open, <1>runs DEF Outcome
  <2>5. charges[r] - garbled[r] = 0
    BY <2>1, <2>2
  <2>6. CASE garbled'[r] = garbled[r] + 1
    <3>1. (charges[r] - garbled[r])' = charges[r] - garbled[r]
      BY <2>1, <2>2, <2>3, <2>6
    <3>2. QED
      BY <2>4, <2>5, <2>6, <3>1 DEF PromisedStep, Once!Next, Once!Waste
  <2>7. CASE charges'[r] = charges[r] + 1 /\ garbled'[r] = garbled[r]
    <3>1. (charges[r] - garbled[r])' = 1
      BY <2>1, <2>2, <2>7
    <3>2. QED
      BY <2>4, <2>5, <2>7, <3>1 DEF PromisedStep, Once!Next, Once!Charge
  <2>8. CASE charges'[r] = charges[r] /\ garbled'[r] = garbled[r]
    <3>1. row'[r].status = row[r].status
      BY <2>1
    <3>2. QED
      BY <2>8, <3>1, Stutters
  <2>9. QED
    BY <2>3, <2>6, <2>7, <2>8
<1>2. CASE Save(r)
  <2>1. row'[r].status = "succeeded" /\ UNCHANGED <<charges, garbled>> /\ run[r].pc = "save"
    BY <1>2 DEF Save, Row
  <2>2. charges[r] - garbled[r] = 1 /\ (charges[r] - garbled[r])' = 1
    BY <2>1 DEF BilledInv, Billed
  <2>3. Outcome(r) = "open" /\ Outcome(r)' = "done"
    BY <2>1, <1>open, <1>runs DEF Outcome
  <2>4. QED
    BY <2>1, <2>2, <2>3 DEF PromisedStep, Once!Next, Once!Deliver
<1>3. CASE Fail(r)
  <2>1. row'[r].status = "failed" /\ UNCHANGED <<charges, garbled>> /\ run[r].pc = "fail"
    BY <1>3 DEF Fail, Row
  <2>2. Outcome(r) = "open" /\ Outcome(r)' = "failed"
    BY <2>1, <1>open, <1>runs DEF Outcome
  <2>3. QED
    BY <2>1, <2>2 DEF PromisedStep, Once!Next, Once!Fail
<1>4. CASE AcceptCommit(r)
  <2>1. /\ row[r].status = "absent" /\ row'[r].status = "processing"
        /\ UNCHANGED <<charges, garbled>>
    BY <1>4 DEF AcceptCommit, RunsInv, Row
  <2>2. Outcome(r)' = Outcome(r)
    BY <2>1 DEF Outcome
  <2>3. QED
    BY <2>1, <2>2 DEF PromisedStep, Once!vars
<1>5. CASE AcceptRead(r) \/ AcceptFlush(r) \/ StatusPoll(r) \/ Begin(r) \/ Input(r)
  <2>1. row'[r].status = row[r].status /\ UNCHANGED <<charges, garbled>>
    BY <1>5 DEF AcceptRead, AcceptFlush, StatusPoll, Begin, Input, Row
  <2>2. QED
    BY <2>1, Stutters
<1>6. CASE Claim(r) \/ ClearClaim(r) \/ RecordTask(r)
  <2>1. row'[r].status = row[r].status /\ UNCHANGED <<charges, garbled>>
    BY <1>6 DEF Claim, ClearClaim, RecordTask, Row
  <2>2. QED
    BY <2>1, Stutters
<1>7. CASE Poll(r) \/ ReadLatest(r) \/ Escape(r)
  <2>1. UNCHANGED <<row, charges, garbled>>
    BY <1>7 DEF Poll, ReadLatest, Escape
  <2>2. QED
    BY <2>1, Stutters
<1>8. ~Call(r)
  BY DEF Call, RunsInv
<1>9. QED
  BY <1>1, <1>2, <1>3, <1>4, <1>5, <1>6, <1>7, <1>8 DEF RequestStep, RunStep

\* Through rounds, exceptions and restarts each request of a Kie connection takes only steps of the
\* abstract candidate: it is charged once, decided once, and delivers what was
\* charged.
THEOREM PromiseKept == Spec => EditsKeepPromise
<1>1. Init => TypeInv /\ PaidInv /\ BilledInv
  <2>1. Init => BilledInv
    BY DEF Init, BilledInv, Billed, Absent, Off
  <2>2. QED
    BY <2>1, InitTypes, InitPaid
<1>2. TypeInv /\ PaidInv /\ BilledInv /\ [Next]_vars => (TypeInv /\ PaidInv /\ BilledInv)'
  BY TypeStep, PaidStep, BilledStep
<1>3. TypeInv /\ PaidInv /\ BilledInv /\ [Next]_vars =>
        \A r \in Requests \ Direct : PromisedStep(r)
  <2> SUFFICES ASSUME TypeInv, PaidInv, BilledInv, [Next]_vars, NEW r \in Requests \ Direct
               PROVE  PromisedStep(r)
    OBVIOUS
  <2>1. ASSUME NEW q \in Requests, RequestStep(q)
        PROVE  PromisedStep(r)
    <3>1. CASE r = q
      BY <2>1, <3>1, StepPromised
    <3>2. CASE r # q
      BY <2>1, <3>2, OthersKept, Stutters
    <3>3. QED
      BY <3>1, <3>2
  <2>2. CASE Crash
    BY <2>2, Stutters DEF Crash
  <2>3. CASE UNCHANGED vars
    BY <2>3, Stutters DEF vars
  <2>4. QED
    BY <2>1, <2>2, <2>3 DEF Next, RequestStep
<1>4. QED
  BY <1>1, <1>2, <1>3, PTL DEF Spec, EditsKeepPromise

=============================================================================
