----------------------------- MODULE SingleEdit -----------------------------
(***************************************************************************)
(* Single-image edits of one logo: the chain of versions that grows from   *)
(* its root, the requests that ask for the next version, and the tasks of  *)
(* the application that run them against the image service.                *)
(*                                                                         *)
(* A step is what happens between two awaits that let another task in: a   *)
(* transaction of its own, or a call of the service.                       *)
(***************************************************************************)
EXTENDS Integers, FiniteSets

CONSTANTS
  Requests,   \* single_image_edit_requests of the root
  Direct,     \* of these, the ones whose connection is not of KieGptImageProvider
  Slots,      \* of _provider_semaphore
  MaxTries,   \* _MAX_PROVIDER_ATTEMPTS
  MaxStops,   \* bound: stops of the process
  MaxEscapes  \* bound: transactions that raise

ASSUME EditAssumption ==
  /\ IsFiniteSet(Requests) /\ Direct \subseteq Requests /\ Slots \in Nat \ {0}
  /\ MaxTries \in Nat \ {0} /\ MaxStops \in Nat /\ MaxEscapes \in Nat

VARIABLES
  row,      \* the requests' rows, with the number of the version each produced
  accepts,  \* how far the customer's call has come
  run,      \* execute() of a request
  charges,  \* history: tasks of the service made, or images drawn, for the request
  garbled,  \* history: of these, answered with an error
  raced,    \* history: two requests of the root were being processed at once
  stops, escapes

vars == <<row, accepts, run, charges, garbled, raced, stops, escapes>>

-----------------------------------------------------------------------------

\* source and number are version_number of the version edited and of the one made.
Row == [status : {"absent", "processing", "succeeded", "failed"},
        source : Nat, submitting : BOOLEAN, task : BOOLEAN, number : Nat]
Absent == [status |-> "absent", source |-> 0, submitting |-> FALSE, task |-> FALSE,
           number |-> 0]

\* latest is the newest version_number that _persist_success has read.
Run == [pc : {"off", "waiting", "input", "call", "claim", "submit", "clear", "clearLast",
              "record", "poll", "latest", "save", "fail"},
        tries : 0..MaxTries, latest : Nat]
Off == [pc |-> "off", tries |-> 0, latest |-> 0]

With(status) == {r \in Requests : row[r].status = status}

\* The root is version 1.
Numbers == {1} \union {row[r].number : r \in With("succeeded")}
Newest == CHOOSE n \in Numbers : \A m \in Numbers : m <= n

Init ==
  /\ row = [r \in Requests |-> Absent]
  /\ accepts = [r \in Requests |-> "none"]
  /\ run = [r \in Requests |-> Off]
  /\ charges = [r \in Requests |-> 0]
  /\ garbled = [r \in Requests |-> 0]
  /\ raced = FALSE
  /\ stops = 0
  /\ escapes = 0

-----------------------------------------------------------------------------
(* The customer: accept, in a transaction the route commits.               *)

\* Under _accept_lock: no committed request of the root is being processed.
\* Any version of the customer will do as the source.
AcceptRead(r) ==
  /\ row[r].status = "absent" /\ accepts[r] = "none"
  /\ \A other \in Requests : accepts[other] # "locked"
  /\ With("processing") = {}
  /\ \E n \in Numbers : row' = [row EXCEPT ![r].source = n]
  /\ accepts' = [accepts EXCEPT ![r] = "locked"]
  /\ UNCHANGED <<run, charges, garbled, raced, stops, escapes>>

\* The flush begins a transaction, of which the database has one at a time; the
\* lock is let go.
AcceptFlush(r) ==
  /\ accepts[r] = "locked"
  /\ \A other \in Requests : accepts[other] # "flushed"
  /\ accepts' = [accepts EXCEPT ![r] = "flushed"]
  /\ UNCHANGED <<row, run, charges, garbled, raced, stops, escapes>>

\* create_single_image_edit commits and schedules.
AcceptCommit(r) ==
  /\ accepts[r] = "flushed"
  /\ row' = [row EXCEPT ![r].status = "processing"]
  /\ accepts' = [accepts EXCEPT ![r] = "answered"]
  /\ run' = [run EXCEPT ![r].pc = "waiting"]
  /\ raced' = (raced \/ With("processing") # {})
  /\ UNCHANGED <<charges, garbled, stops, escapes>>

\* status_for_customer: the page asks for a request until it is decided.
StatusPoll(r) ==
  /\ row[r].status = "processing"
  /\ run[r].pc = "off"
  /\ run' = [run EXCEPT ![r].pc = "waiting"]
  /\ UNCHANGED <<row, accepts, charges, garbled, raced, stops, escapes>>

-----------------------------------------------------------------------------
(* execute: at most MaxTries rounds of one request.                        *)

Holding == {r \in Requests : run[r].pc \notin {"off", "waiting"}}

Goes(r, pc) == run' = [run EXCEPT ![r].pc = pc]

\* Mutant: the number of rounds has no limit.
TryForever(r) == Goes(r, "input")

\* After a ProviderError: the next round, or the failure of the request.
TryAgain(r) == Goes(r, IF run[r].tries < MaxTries THEN "input" ELSE "fail")

Begin(r) ==
  /\ run[r].pc = "waiting"
  /\ Cardinality(Holding) < Slots
  /\ Goes(r, "input")
  /\ UNCHANGED <<row, accepts, charges, garbled, raced, stops, escapes>>

\* _provider_input; it fails for good when the connection was changed, its secret
\* or the source image is gone.  A recorded task is waited for again.
Input(r) ==
  /\ run[r].pc = "input"
  /\ \/ run' = [run EXCEPT ![r].pc = IF r \in Direct THEN "call"
                                     ELSE IF row[r].task THEN "poll" ELSE "claim",
                           ![r].tries = @ + 1]
     \/ Goes(r, "fail")
  /\ UNCHANGED <<row, accepts, charges, garbled, raced, stops, escapes>>

\* Mutant: a claim left by an earlier process is taken over.
ClaimAnyway(r) ==
  /\ run[r].pc = "claim"
  /\ row' = [row EXCEPT ![r].submitting = TRUE]
  /\ Goes(r, "submit")
  /\ UNCHANGED <<accepts, charges, garbled, raced, stops, escapes>>

\* _claim_provider_submission: a claim that was left says that a task may exist.
Claim(r) ==
  /\ run[r].pc = "claim"
  /\ \/ /\ row[r].submitting
        /\ Goes(r, "fail")
        /\ UNCHANGED row
     \/ /\ ~row[r].submitting
        /\ row' = [row EXCEPT ![r].submitting = TRUE]
        /\ Goes(r, "submit")
  /\ UNCHANGED <<accepts, charges, garbled, raced, stops, escapes>>

Charged(r, made) == charges' = [charges EXCEPT ![r] = @ + made]

\* provider.image_to_image of a direct connection: one request for one image, with
\* no claim and nothing recorded.  An error leaves open whether it was drawn.
Call(r) ==
  /\ run[r].pc = "call"
  /\ \/ Goes(r, "latest") /\ Charged(r, 1)
     \/ (TryAgain(r) \/ Goes(r, "fail")) /\ (Charged(r, 0) \/ Charged(r, 1))
  /\ UNCHANGED <<row, accepts, garbled, raced, stops, escapes>>

\* provider.submit.  Lost is "provider_submission_uncertain": a task may have been
\* made, and nothing is tried again.  Refused: an upload or the creation failed
\* with another code; Garbled: with an error answer (5xx, not JSON) to a creation
\* that went through all the same.
Created(r) ==
  /\ Goes(r, "record") /\ Charged(r, 1) /\ UNCHANGED garbled
Lost(r) ==
  /\ Goes(r, "fail") /\ (Charged(r, 0) \/ Charged(r, 1)) /\ UNCHANGED garbled
Refused(r) ==
  /\ (Goes(r, "clear") \/ Goes(r, "clearLast")) /\ Charged(r, 0) /\ UNCHANGED garbled
Garbled(r) ==
  /\ (Goes(r, "clear") \/ Goes(r, "clearLast")) /\ Charged(r, 1)
  /\ garbled' = [garbled EXCEPT ![r] = @ + 1]

Submit(r) ==
  /\ run[r].pc = "submit"
  /\ Created(r) \/ Lost(r) \/ Refused(r) \/ Garbled(r)
  /\ UNCHANGED <<row, accepts, raced, stops, escapes>>

\* _clear_provider_submission_claim; clearLast: the code is in
\* _TERMINAL_PROVIDER_FAILURES.
ClearClaim(r) ==
  /\ run[r].pc \in {"clear", "clearLast"}
  /\ row' = [row EXCEPT ![r].submitting = FALSE]
  /\ IF run[r].pc = "clear" THEN TryAgain(r) ELSE Goes(r, "fail")
  /\ UNCHANGED <<accepts, charges, garbled, raced, stops, escapes>>

\* _persist_provider_task_id
RecordTask(r) ==
  /\ run[r].pc = "record"
  /\ row' = [row EXCEPT ![r].task = TRUE, ![r].submitting = FALSE]
  /\ Goes(r, "poll")
  /\ UNCHANGED <<accepts, charges, garbled, raced, stops, escapes>>

\* wait_for_result and the check of the image: a valid one, or a failure that
\* ends the round, or the request.
Poll(r) ==
  /\ run[r].pc = "poll"
  /\ Goes(r, "latest") \/ TryAgain(r) \/ Goes(r, "fail")
  /\ UNCHANGED <<row, accepts, charges, garbled, raced, stops, escapes>>

\* Mutant: the new version is numbered after its source.
ReadSource(r) ==
  /\ run[r].pc = "latest"
  /\ run' = [run EXCEPT ![r].pc = "save", ![r].latest = row[r].source]
  /\ UNCHANGED <<row, accepts, charges, garbled, raced, stops, escapes>>

\* _persist_success, its reads.
ReadLatest(r) ==
  /\ run[r].pc = "latest"
  /\ run' = [run EXCEPT ![r].pc = "save", ![r].latest = Newest]
  /\ UNCHANGED <<row, accepts, charges, garbled, raced, stops, escapes>>

\* Its commit: the version and the row.
Save(r) ==
  /\ run[r].pc = "save"
  /\ row' = [row EXCEPT ![r].status = "succeeded", ![r].number = run[r].latest + 1]
  /\ run' = [run EXCEPT ![r] = Off]
  /\ UNCHANGED <<accepts, charges, garbled, raced, stops, escapes>>

\* _persist_failure
Fail(r) ==
  /\ run[r].pc = "fail"
  /\ row' = [row EXCEPT ![r].status = "failed"]
  /\ run' = [run EXCEPT ![r] = Off]
  /\ UNCHANGED <<accepts, charges, garbled, raced, stops, escapes>>

\* A transaction raises something execute does not catch: the task is over, its
\* slot is free, the row is as it was.
Escape(r) ==
  /\ run[r].pc \in {"input", "claim", "clear", "clearLast", "record", "latest", "save", "fail"}
  /\ escapes < MaxEscapes
  /\ escapes' = escapes + 1
  /\ run' = [run EXCEPT ![r] = Off]
  /\ UNCHANGED <<row, accepts, charges, garbled, raced, stops>>

\* Mutant: the next process waits to be asked.
CrashForgets ==
  /\ stops < MaxStops
  /\ stops' = stops + 1
  /\ run' = [r \in Requests |-> Off]
  /\ accepts' = [r \in Requests |-> IF accepts[r] = "answered" THEN "answered" ELSE "none"]
  /\ UNCHANGED <<row, charges, garbled, raced, escapes>>

\* Mutant: the next process takes up what has been decided, too.
CrashResumesAll ==
  /\ stops < MaxStops
  /\ stops' = stops + 1
  /\ run' = [r \in Requests |->
               IF row[r].status # "absent" THEN [Off EXCEPT !.pc = "waiting"] ELSE Off]
  /\ accepts' = [r \in Requests |-> IF accepts[r] = "answered" THEN "answered" ELSE "none"]
  /\ UNCHANGED <<row, charges, garbled, raced, escapes>>

\* The process stops; the next one begins with resume_pending.
Crash ==
  /\ stops < MaxStops
  /\ stops' = stops + 1
  /\ run' = [r \in Requests |->
               IF row[r].status = "processing" THEN [Off EXCEPT !.pc = "waiting"] ELSE Off]
  /\ accepts' = [r \in Requests |-> IF accepts[r] = "answered" THEN "answered" ELSE "none"]
  /\ UNCHANGED <<row, charges, garbled, raced, escapes>>

-----------------------------------------------------------------------------

RunStep(r) ==
  \/ Begin(r) \/ Input(r) \/ Call(r) \/ Claim(r) \/ Submit(r) \/ ClearClaim(r) \/ RecordTask(r)
  \/ Poll(r) \/ ReadLatest(r) \/ Save(r) \/ Fail(r)

Next ==
  \/ \E r \in Requests :
       \/ AcceptRead(r) \/ AcceptFlush(r) \/ AcceptCommit(r) \/ StatusPoll(r)
       \/ RunStep(r) \/ Escape(r)
  \/ Crash

Spec == Init /\ [][Next]_vars

\* The tasks of the application are not held up for ever: calls of the service
\* have timeouts.  That a page polls is not assumed.
FairSpec == Spec /\ \A r \in Requests : WF_vars(RunStep(r))

-----------------------------------------------------------------------------
(* Properties.                                                             *)

\* The types of every variable.
TypeOK ==
  /\ row \in [Requests -> Row]
  /\ accepts \in [Requests -> {"none", "locked", "flushed", "answered"}]
  /\ run \in [Requests -> Run]
  /\ charges \in [Requests -> Nat]
  /\ garbled \in [Requests -> Nat]
  /\ raced \in BOOLEAN
  /\ stops \in 0..MaxStops
  /\ escapes \in 0..MaxEscapes

\* Through rounds, exceptions and restarts, a request of a Kie connection makes no
\* second task of the image service, unless the service answered the creation of
\* the first with an error (_claim_provider_submission).  It follows from
\* EditsKeepPromise, below, which is what TLC checks.
ChargedOnce == \A r \in Requests \ Direct : charges[r] <= 1 + garbled[r]

\* What any request is charged at most, though a direct one claims nothing and is
\* charged again in every round: _MAX_PROVIDER_ATTEMPTS for its first run, and for
\* each restart and each exception that makes it run again.
ChargesBounded == \A r \in Requests : charges[r] <= MaxTries * (1 + stops + escapes)

\* As long as the root has one request at a time, whatever version each edits,
\* its versions are numbered one after the other (_persist_success).
NumbersInOrder ==
  ~raced => Numbers = 1..(Cardinality(With("succeeded")) + 1)

\* Every request is decided, through every restart (resume_pending); one whose
\* task was ended by an exception waits for its page to ask, or for a restart.
Settles ==
  \A r \in Requests :
    row[r].status = "processing" ~> row[r].status # "processing" \/ escapes > 0

\* A request seen as the abstract candidate; tasks whose creation was answered with
\* an error are wasted.
Outcome(r) == CASE row[r].status = "succeeded" -> "done"
                [] row[r].status = "failed" -> "failed"
                [] OTHER -> "open"

Once(r) == INSTANCE CandidateOnce
           WITH outcome <- Outcome(r), charged <- charges[r] - garbled[r], wasted <- garbled[r]

PromisedStep(r) == Once(r)!Next \/ UNCHANGED Once(r)!vars

\* Every request of a Kie connection keeps the abstract candidate's promise, through
\* rounds, exceptions and restarts: charged at most once, decided once, delivered
\* only for a charge.
EditsKeepPromise == [][\A r \in Requests \ Direct : PromisedStep(r)]_vars

\* single_edit_in_progress: "an edit of the current version is under way".
OneEditAtATime == Cardinality(With("processing")) <= 1

=============================================================================
