---------------------------- MODULE LarkSettings ----------------------------
(***************************************************************************)
(* Who is notified: the recipients, the rules of the events that mention   *)
(* somebody, and the administrators who change both at the same time.  The *)
(* rules are checked against the recipients when a request reads them and  *)
(* written when it commits.                                                *)
(***************************************************************************)
EXTENDS Integers, FiniteSets

CONSTANTS
  People,   \* ids of lark_recipients
  Events,   \* LARK_EVENTS without the GROUP_ONLY_EVENT
  Editors   \* requests under way

VARIABLES
  person,   \* the recipients' rows
  rule,     \* the rules' rows
  staged,   \* the recipients of the reminder snapshots
  edit,     \* what a request is to write
  clashed   \* history: a request committed after another did that it had not seen

larkVars == <<person, rule, staged, edit, clashed>>

-----------------------------------------------------------------------------

Rule == [enabled : BOOLEAN, all : BOOLEAN, ids : SUBSET People]
NoRule == [enabled |-> FALSE, all |-> FALSE, ids |-> {}]

\* What people and events become; behind: another commit came since it read.
NoEdit == [op |-> "none", people |-> {}, set |-> "absent", events |-> {},
           new |-> [e \in Events |-> NoRule], behind |-> FALSE]

LarkInit ==
  /\ person = [p \in People |-> "absent"]
  /\ rule = [e \in Events |-> NoRule]
  /\ staged = {}
  /\ edit = [a \in Editors |-> NoEdit]
  /\ clashed = FALSE

EnabledPeople(ids) == {p \in ids : person[p] = "enabled"}

Edits(a, request) ==
  /\ edit[a].op = "none"
  /\ edit' = [edit EXCEPT ![a] = request]
  /\ UNCHANGED <<person, rule, staged, clashed>>

EditPerson(a, p, status) ==
  Edits(a, [NoEdit EXCEPT !.op = "person", !.people = {p}, !.set = status])

-----------------------------------------------------------------------------
(* What a request checks.                                                  *)

CreateRecipient(a, p) ==
  person[p] = "absent" /\ \E status \in {"enabled", "disabled"} : EditPerson(a, p, status)

EnableRecipient(a, p) == person[p] = "disabled" /\ EditPerson(a, p, "enabled")

\* Mutant: the one to be disabled still counts.
DisableRecipientCounted(a, p) ==
  /\ person[p] = "enabled"
  /\ \A e \in Events :
       rule[e].enabled /\ p \in rule[e].ids /\ ~rule[e].all => EnabledPeople(rule[e].ids) # {}
  /\ EditPerson(a, p, "disabled")

\* update_recipient, _validate_enabled_rules
DisableRecipient(a, p) ==
  /\ person[p] = "enabled"
  /\ \A e \in Events :
       rule[e].enabled /\ p \in rule[e].ids /\ ~rule[e].all
         => EnabledPeople(rule[e].ids \ {p}) # {}
  /\ EditPerson(a, p, "disabled")

DeleteRecipient(a, p) ==
  /\ person[p] \in {"enabled", "disabled"}
  /\ \A e \in Events : p \notin rule[e].ids
  /\ p \notin staged
  /\ EditPerson(a, p, "deleted")

\* update_rule and, of all events, update_rules: an enabled rule lists enabled
\* recipients only, and one at least or everybody.
UpdateRules(a, events) ==
  \E new \in [Events -> Rule] :
    /\ \A e \in Events \ events : new[e] = NoRule
    /\ \A e \in events :
         new[e].enabled => /\ EnabledPeople(new[e].ids) = new[e].ids
                           /\ new[e].all \/ new[e].ids # {}
    /\ Edits(a, [NoEdit EXCEPT !.op = "rule", !.events = events, !.new = new])

-----------------------------------------------------------------------------

\* The others have not seen this commit.
Behind(a) == [b \in Editors |->
  IF b = a THEN NoEdit
  ELSE IF edit[b].op = "none" THEN NoEdit ELSE [edit[b] EXCEPT !.behind = TRUE]]

\* The route's commit; a recipient that is deleted by now is not written.
CommitEdit(a) ==
  /\ edit[a].op # "none"
  /\ person' = [p \in People |->
       IF p \in edit[a].people /\ person[p] # "deleted" THEN edit[a].set ELSE person[p]]
  /\ rule' = [e \in Events |-> IF e \in edit[a].events THEN edit[a].new[e] ELSE rule[e]]
  /\ edit' = Behind(a)
  /\ clashed' = (clashed \/ edit[a].behind)
  /\ UNCHANGED staged

\* snapshot_stage, of a task that enters a timed stage; a snapshot that lists nobody
\* changes nothing here.
StageSnapshot(e) ==
  /\ rule[e].enabled /\ EnabledPeople(rule[e].ids) # {}
  /\ staged' = staged \union EnabledPeople(rule[e].ids)
  /\ edit' = [a \in Editors |->
       IF edit[a].op = "none" THEN NoEdit ELSE [edit[a] EXCEPT !.behind = TRUE]]
  /\ UNCHANGED <<person, rule, clashed>>

LarkNext ==
  \/ \E a \in Editors :
       \/ \E p \in People : \/ CreateRecipient(a, p) \/ EnableRecipient(a, p)
                            \/ DisableRecipient(a, p) \/ DeleteRecipient(a, p)
       \/ \E events \in {{e} : e \in Events} \union {Events} : UpdateRules(a, events)
       \/ CommitEdit(a)
  \/ \E e \in Events : StageSnapshot(e)

LarkSpec == LarkInit /\ [][LarkNext]_larkVars

-----------------------------------------------------------------------------
(* Properties.                                                             *)

\* The types of every variable.
LarkTypeOK ==
  /\ person \in [People -> {"absent", "enabled", "disabled", "deleted"}]
  /\ rule \in [Events -> Rule]
  /\ staged \subseteq People
  /\ \A a \in Editors : /\ edit[a].op \in {"none", "person", "rule"}
                        /\ edit[a].people \subseteq People /\ edit[a].events \subseteq Events
                        /\ edit[a].new \in [Events -> Rule] /\ edit[a].behind \in BOOLEAN
  /\ clashed \in BOOLEAN

\* Unless two requests overlapped, an enabled rule has somebody to mention: those
\* who are disabled or deleted are never its last (_delivery_context would refuse
\* every message of the event).
EnabledRuleHasTarget ==
  ~clashed => \A e \in Events :
    rule[e].enabled => rule[e].all \/ EnabledPeople(rule[e].ids) # {}

=============================================================================
