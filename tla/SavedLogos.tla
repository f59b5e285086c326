----------------------------- MODULE SavedLogos -----------------------------
(***************************************************************************)
(* The logos one customer has saved, and the keys under which the page     *)
(* sends each change, again when it has heard nothing: save_logo adds a    *)
(* saved logo, update_saved_logo moves one to another version of its logo. *)
(*                                                                         *)
(* A request reads outside a transaction; its commit writes the change and *)
(* the answer that a repetition of the key is given, both or neither.      *)
(***************************************************************************)
EXTENDS Naturals, FiniteSets

CONSTANTS
  Keys,       \* idempotency keys; each is used for one call
  Versions,   \* logo_versions of the customer
  NoVersion,
  Senders     \* requests under way

ASSUME SavedAssumption == NoVersion \notin Versions

VARIABLES
  call,      \* what the page asks for under each key
  saved,     \* saved_logos, by the key that created the row: its version
  answers,   \* endpoint_idempotency_records
  sending,   \* what a request has read
  given      \* history: the answers the page was given, by key

savedVars == <<call, saved, answers, sending, given>>

-----------------------------------------------------------------------------

\* row: the saved logo to be moved, for a save the one it would create.
Calls(k) == [op : {"save"}, row : {k}, version : Versions]
              \union [op : {"update"}, row : Keys, version : Versions]

\* What a request says of a saved logo: created (201), found as it was or moved
\* (200), missing (404), or that the version is saved already (409).
Says(word, row) == [word |-> word, row |-> row]
NoAnswer == [word |-> "nothing"]

\* read: the version of the saved logo it has loaded.
Unsent == [sent |-> FALSE]
Sent(k, answer, read) == [sent |-> TRUE, key |-> k, answer |-> answer, read |-> read]

Holding(version) == {f \in Keys : saved[f] = version}

SavedInit ==
  /\ call \in {c \in [Keys -> UNION {Calls(k) : k \in Keys}] : \A k \in Keys : c[k] \in Calls(k)}
  /\ saved = [f \in Keys |-> NoVersion]
  /\ answers = [k \in Keys |-> NoAnswer]
  /\ sending = [s \in Senders |-> Unsent]
  /\ given = [k \in Keys |-> {}]

-----------------------------------------------------------------------------

\* _replay has found no record of the key.  (One that is stored between this read and
\* the next makes the commit fail, as if it had been stored after both.)
Begins(s, k, answer, read) ==
  /\ sending[s] = Unsent
  /\ answers[k] = NoAnswer
  /\ sending' = [sending EXCEPT ![s] = Sent(k, answer, read)]
  /\ UNCHANGED <<call, saved, answers, given>>

SaveLogo(s, k) ==
  /\ call[k].op = "save"
  /\ \/ \E f \in Holding(call[k].version) : Begins(s, k, Says("found", f), saved[f])
     \/ Holding(call[k].version) = {} /\ Begins(s, k, Says("created", k), NoVersion)

\* update_saved_logo loads the saved logo ..
UpdateSavedLogo(s, k) ==
  LET row == call[k].row
  IN  /\ call[k].op = "update"
      /\ Begins(s, k, IF saved[row] = NoVersion THEN Says("missing", row) ELSE NoAnswer, saved[row])

\* .. and then looks for another one with that version.
LookForDuplicate(s) ==
  LET asked == call[sending[s].key]
      others == Holding(asked.version) \ {asked.row}
  IN  /\ sending[s] # Unsent /\ sending[s].answer = NoAnswer
      /\ sending' = [sending EXCEPT ![s].answer =
                       Says(IF others = {} THEN "moved" ELSE "exists", asked.row)]
      /\ UNCHANGED <<call, saved, answers, given>>

\* The page asks again for what was answered before.
Replay(k) ==
  /\ answers[k] # NoAnswer
  /\ given' = [given EXCEPT ![k] = @ \union {answers[k]}]
  /\ UNCHANGED <<call, saved, answers, sending>>

\* The table as the request would leave it: a column is written when it differs
\* from what was read.
Changed(s) ==
  LET version == call[sending[s].key].version
      says == sending[s].answer
  IN  IF says.word \in {"created", "moved"} /\ sending[s].read # version
      THEN [saved EXCEPT ![says.row] = version] ELSE saved

\* uq_saved_logos_customer_version
NoneTwice(rows) == \A f, g \in Keys : rows[f] = rows[g] /\ rows[f] # NoVersion => f = g

\* uq_endpoint_idempotency_scope
FirstAnswer(s) == answers[sending[s].key] = NoAnswer

\* Mutant: what changed nothing is not remembered.
RememberedChange(k, answer) ==
  IF answer.word \in {"created", "moved"} THEN [answers EXCEPT ![k] = answer] ELSE answers

\* _store_result, of a success or an error.
Remembered(k, answer) == [answers EXCEPT ![k] = answer]

\* The route's commit; what a unique key refuses is rolled back and answered 500.
SavedCommit(s) ==
  /\ sending[s] # Unsent /\ sending[s].answer # NoAnswer
  /\ IF FirstAnswer(s) /\ NoneTwice(Changed(s))
     THEN LET k == sending[s].key
          IN  /\ saved' = Changed(s)
              /\ answers' = Remembered(k, sending[s].answer)
              /\ given' = [given EXCEPT ![k] = @ \union {sending[s].answer}]
     ELSE UNCHANGED <<saved, answers, given>>
  /\ sending' = [sending EXCEPT ![s] = Unsent]
  /\ UNCHANGED call

\* The request dies, or its process does, before the commit.
SavedDies(s) ==
  /\ sending[s] # Unsent
  /\ sending' = [sending EXCEPT ![s] = Unsent]
  /\ UNCHANGED <<call, saved, answers, given>>

SavedNext ==
  \/ \E s \in Senders :
       \/ \E k \in Keys : SaveLogo(s, k) \/ UpdateSavedLogo(s, k)
       \/ LookForDuplicate(s) \/ SavedCommit(s) \/ SavedDies(s)
  \/ \E k \in Keys : Replay(k)

SavedSpec == SavedInit /\ [][SavedNext]_savedVars

-----------------------------------------------------------------------------
(* Properties.                                                             *)

\* The types of every variable; no version is saved twice.
SavedTypeOK ==
  /\ \A k \in Keys : call[k] \in Calls(k)
  /\ saved \in [Keys -> Versions \union {NoVersion}] /\ NoneTwice(saved)
  /\ \A k \in Keys : answers[k] \in {NoAnswer} \union
       [word : {"created", "found", "moved", "missing", "exists"}, row : Keys]
  /\ DOMAIN sending = Senders /\ DOMAIN given = Keys

\* However often a key is sent, at once or later, and whatever other keys have
\* changed since, the page is given one answer for it (EndpointIdempotencyRecord:
\* "A replayable response").
AnswerStands == \A k \in Keys : Cardinality(given[k]) <= 1

=============================================================================
