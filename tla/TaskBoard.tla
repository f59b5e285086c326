------------------------------ MODULE TaskBoard ------------------------------
(***************************************************************************)
(* What a customer and the administrators are promised of the customer's   *)
(* design tasks, without handlers, sessions, reminders or files: a key     *)
(* submits one task, which replaces the open one and at most that; only an *)
(* active customer's tasks are accepted and delivered, each once and in    *)
(* that order; a delivered image is one task's and stays.  A task that was *)
(* delivered after the customer had seen it open may be replaced, too.     *)
(***************************************************************************)
EXTENDS Naturals, Sequences

CONSTANTS
  Keys,    \* of submissions
  Images,  \* delivery images
  None     \* no image yet

VARIABLES
  board,   \* the tasks in the order they were submitted
  active   \* the customer is not stopped

vars == <<board, active>>

Init == board = <<>> /\ active = TRUE

Tasks == DOMAIN board
Unfinished ==
  {t \in Tasks : board[t].status \in {"waiting_assignment", "in_progress"}}

Submitted(key) == [status |-> "waiting_assignment", by |-> key, image |-> None]

Canceled(replaced) ==
  [t \in Tasks |-> IF t \in replaced THEN [board[t] EXCEPT !.status = "canceled"]
                                     ELSE board[t]]

Submit(key, replaced) ==
  /\ \A t \in Tasks : board[t].by # key
  /\ Unfinished \subseteq replaced
  /\ board' = Append(Canceled(replaced), Submitted(key))
  /\ UNCHANGED active

Accept(t) ==
  /\ active
  /\ board[t].status = "waiting_assignment"
  /\ board' = [board EXCEPT ![t].status = "in_progress"]
  /\ UNCHANGED active

Deliver(t, image) ==
  /\ active
  /\ board[t].status = "in_progress"
  /\ \A u \in Tasks : board[u].image # image
  /\ board' = [board EXCEPT ![t].status = "completed", ![t].image = image]
  /\ UNCHANGED active

Turn ==
  /\ active' = ~active
  /\ UNCHANGED board

Next ==
  \/ \E key \in Keys, replaced \in {{}} \union {{t} : t \in Tasks} : Submit(key, replaced)
  \/ \E t \in Tasks : Accept(t) \/ \E image \in Images : Deliver(t, image)
  \/ Turn

Spec == Init /\ [][Next]_vars

=============================================================================
