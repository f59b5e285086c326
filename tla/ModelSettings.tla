---------------------------- MODULE ModelSettings ----------------------------
(***************************************************************************)
(* Model connections and the two published policies that are pinned to a   *)
(* version of one: administrators who edit, test and retire connections    *)
(* and publish policies at the same time, each in a request that reads,    *)
(* waits (a test for the image service) and commits.                       *)
(*                                                                         *)
(* A commit writes the columns its request changed from what it had read,  *)
(* whatever the row holds by then.                                         *)
(***************************************************************************)
EXTENDS Integers, FiniteSets

CONSTANTS
  Connections,
  Admins,      \* requests under way
  NoConnection,
  MaxVersion,  \* bound: updates of a connection are not begun above it
  MaxNumber    \* bound: policies of a scene

ASSUME ModelAssumption ==
  /\ IsFiniteSet(Connections) /\ IsFiniteSet(Admins) /\ NoConnection \notin Connections
  /\ MaxVersion \in Nat \ {0} /\ MaxNumber \in Nat \ {0}

VARIABLES
  conn,     \* the connections' rows
  policy,   \* the active policy of a scene
  ask,      \* what a request has read
  crossed   \* history: a connection was written, or a policy activated, from a
            \* read that the connection or the policies no longer agreed with

modelVars == <<conn, policy, ask, crossed>>

-----------------------------------------------------------------------------

Scenes == {"batch", "edit"}

\* verified: verified_capabilities_json has a real image_to_image test.  History:
\* config counts what updates made of the connection, tested is the config of the
\* last test that passed.
Connection == [state : {"absent", "live", "retired"}, version : Nat, verified : BOOLEAN,
               config : Nat, tested : Nat]
NewConnection == [state |-> "live", version |-> 1, verified |-> FALSE, config |-> 1,
                  tested |-> 0]

\* number is the policy's own version, version that of the connection it is pinned
\* to, config (history) what that was when it was published.
Policy == [number : Nat, conn : Connections \union {NoConnection}, version : Nat,
           config : Nat, legacy : BOOLEAN]
NoPolicy == [number |-> 0, conn |-> NoConnection, version |-> 0, config |-> 0,
             legacy |-> FALSE]

\* row: the connection as it was read; base: the policy to be activated; number:
\* the greatest number in use; uses: the scenes whose policy uses the connection.
NoRequest == [op |-> "none", conn |-> NoConnection, row |-> NewConnection,
              scene |-> "batch", base |-> NoPolicy, number |-> -1, uses |-> {}]

Request(op, c) == [NoRequest EXCEPT !.op = op, !.conn = c, !.row = conn[c]]

\* An older release may have left an edit policy, of a format that is to be upgraded.
ModelInit ==
  /\ ask = [a \in Admins |-> NoRequest]
  /\ crossed = FALSE
  /\ \/ /\ conn = [c \in Connections |-> [NewConnection EXCEPT !.state = "absent"]]
        /\ policy = [s \in Scenes |-> NoPolicy]
     \/ \E c \in Connections :
          /\ conn = [d \in Connections |->
               IF d = c THEN [NewConnection EXCEPT !.verified = TRUE, !.tested = 1]
               ELSE [NewConnection EXCEPT !.state = "absent"]]
          /\ policy = [s \in Scenes |->
               IF s = "edit" THEN [number |-> 1, conn |-> c, version |-> 1, config |-> 1,
                                   legacy |-> TRUE]
               ELSE NoPolicy]

-----------------------------------------------------------------------------
(* What a request reads.                                                   *)

Asks(a, request) ==
  /\ ask[a].op = "none"
  /\ ask' = [ask EXCEPT ![a] = request]
  /\ UNCHANGED <<conn, policy, crossed>>

AskUpdate(a, c) ==
  conn[c].state = "live" /\ conn[c].version < MaxVersion /\ Asks(a, Request("update", c))

\* test, up to the call of the image service.
AskTest(a, c) == conn[c].state = "live" /\ Asks(a, Request("test", c))

Uses(c) == {s \in Scenes : policy[s].conn = c}

\* A connection of an active policy is not deleted.
AskDelete(a, c) ==
  /\ conn[c].state = "live"
  /\ Uses(c) = {}
  /\ Asks(a, [Request("delete", c) EXCEPT !.uses = Uses(c)])

\* _compile_context and the validation of a policy: a retired connection is none.
Publishable(c) == conn[c].state = "live" /\ conn[c].verified

\* publish of either policy, to its validation.
AskPublish(a, c, s) ==
  /\ Publishable(c)
  /\ Asks(a, [Request("publish", c) EXCEPT !.scene = s,
                !.base = [number |-> 0, conn |-> c, version |-> conn[c].version,
                          config |-> conn[c].config, legacy |-> FALSE]])

\* ensure_active_upgrade, to _active_version; every edit and every visit of the
\* editor asks for it.
AskUpgrade(a) ==
  /\ policy["edit"].legacy
  /\ Asks(a, [NoRequest EXCEPT !.op = "publish", !.scene = "edit",
                !.base = [policy["edit"] EXCEPT !.legacy = FALSE]])

\* The next statement of both: max(version), of a scene whose newest policy is the
\* active one.
AskNumber(a) ==
  /\ ask[a].op = "publish" /\ ask[a].number = -1
  /\ policy[ask[a].scene].number < MaxNumber
  /\ ask' = [ask EXCEPT ![a].number = policy[ask[a].scene].number]
  /\ UNCHANGED <<conn, policy, crossed>>

-----------------------------------------------------------------------------
(* What a request writes.                                                  *)

Create(c) ==
  /\ conn[c].state = "absent"
  /\ conn' = [conn EXCEPT ![c] = NewConnection]
  /\ UNCHANGED <<policy, ask, crossed>>

Ends(a) == ask' = [ask EXCEPT ![a] = NoRequest]
Crosses(stale) == crossed' = (crossed \/ stale)

\* The row was written since the request read it.
StaleRow(a) == conn[ask[a].conn] # ask[a].row

\* Mutant: an update keeps the version.
UpdateInPlace(a) ==
  /\ ask[a].op = "update"
  /\ conn' = [conn EXCEPT ![ask[a].conn].verified = ~ask[a].row.verified /\ @,
                          ![ask[a].conn].config = @ + 1]
  /\ Crosses(StaleRow(a))
  /\ Ends(a)
  /\ UNCHANGED policy

Update(a) ==
  /\ ask[a].op = "update"
  /\ conn' = [conn EXCEPT ![ask[a].conn].version = ask[a].row.version + 1,
                          ![ask[a].conn].verified = ~ask[a].row.verified /\ @,
                          ![ask[a].conn].config = @ + 1]
  /\ Crosses(StaleRow(a))
  /\ Ends(a)
  /\ UNCHANGED policy

\* The test passed; its capabilities are new, they have its time.
TestPasses(a) ==
  /\ ask[a].op = "test"
  /\ conn' = [conn EXCEPT ![ask[a].conn].verified = TRUE,
                          ![ask[a].conn].tested = ask[a].row.config]
  /\ Crosses(StaleRow(a))
  /\ Ends(a)
  /\ UNCHANGED policy

\* _failed_test and _fallback
TestFails(a) ==
  /\ ask[a].op = "test"
  /\ conn' = [conn EXCEPT ![ask[a].conn].verified = ~ask[a].row.verified /\ @]
  /\ Crosses(StaleRow(a))
  /\ Ends(a)
  /\ UNCHANGED policy

\* Its secret is deleted with it.
Delete(a) ==
  /\ ask[a].op = "delete"
  /\ conn' = [conn EXCEPT ![ask[a].conn].state = "retired"]
  /\ Crosses(Uses(ask[a].conn) # ask[a].uses)
  /\ Ends(a)
  /\ UNCHANGED policy

Activated(a) ==
  policy' = [policy EXCEPT ![ask[a].scene] = [ask[a].base EXCEPT !.number = ask[a].number + 1]]

\* Mutant: the numbers of the policies are not unique.
PublishUnderAnyNumber(a) ==
  /\ ask[a].op = "publish" /\ ask[a].number # -1
  /\ Activated(a)
  /\ Crosses(conn[ask[a].base.conn].state # "live")
  /\ Ends(a)
  /\ UNCHANGED conn

\* The policy is inserted and activated; an insert under a number that is taken by
\* now raises.
Publish(a) ==
  /\ ask[a].op = "publish" /\ ask[a].number # -1
  /\ IF ask[a].number = policy[ask[a].scene].number
     THEN Activated(a) /\ Crosses(conn[ask[a].base.conn].state # "live")
     ELSE UNCHANGED <<policy, crossed>>
  /\ Ends(a)
  /\ UNCHANGED conn

ModelNext ==
  \/ \E c \in Connections : Create(c)
  \/ \E a \in Admins :
       \/ \E c \in Connections :
            \/ AskUpdate(a, c) \/ AskTest(a, c) \/ AskDelete(a, c)
            \/ \E s \in Scenes : AskPublish(a, c, s)
       \/ AskUpgrade(a) \/ AskNumber(a)
       \/ Update(a) \/ TestPasses(a) \/ TestFails(a) \/ Delete(a) \/ Publish(a)

ModelSpec == ModelInit /\ [][ModelNext]_modelVars

-----------------------------------------------------------------------------
(* Properties.                                                             *)

\* The types of every variable.
ModelTypeOK ==
  /\ conn \in [Connections -> Connection]
  /\ policy \in [Scenes -> Policy]
  /\ \A a \in Admins : /\ ask[a].op \in {"none", "update", "test", "delete", "publish"}
                       /\ ask[a].conn \in Connections \union {NoConnection}
                       /\ ask[a].row \in Connection /\ ask[a].base \in Policy
                       /\ ask[a].number \in Nat \union {-1}
                       /\ ask[a].uses \subseteq Scenes
  /\ crossed \in BOOLEAN

\* What _runtime_policy and the batches let run: the connection has the version the
\* policy is pinned to and is verified.
Runs(s) ==
  /\ policy[s].number > 0
  /\ conn[policy[s].conn].version = policy[s].version
  /\ conn[policy[s].conn].verified

\* Unless two administrators worked on one connection at once, a policy that runs
\* does so on the configuration it was published for, and that one passed its test.
RunsAsPublished ==
  ~crossed => \A s \in Scenes :
    Runs(s) => /\ conn[policy[s].conn].config = policy[s].config
               /\ conn[policy[s].conn].tested = policy[s].config

\* Unless a delete and a publish overlapped, the connection of a scene's active
\* policy is there (ModelConnectionInUseError).
ActiveKeepsConnection ==
  ~crossed => \A s \in Scenes :
    policy[s].number > 0 => conn[policy[s].conn].state = "live"

\* Publishes and upgrades that overlap never give two policies one number, nor
\* make an older number the active one.
PolicyMovesForward ==
  [][\A s \in Scenes : policy'[s] # policy[s] => policy'[s].number > policy[s].number]_modelVars

\* "Migrate one legacy active policy": what an upgrade replaces is what it migrated.
UpgradeKeepsPublished ==
  [][\A a \in Admins :
       ask[a].op = "publish" /\ ask[a].conn = NoConnection /\ ask'[a] # ask[a]
         => policy'["edit"] = policy["edit"] \/ policy["edit"].legacy]_modelVars

=============================================================================
