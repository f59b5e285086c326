---------------------------- MODULE CustomerAccess ----------------------------
(***************************************************************************)
(* One customer's access, edited by administrators at the same time, and   *)
(* the browser sessions that the access link is exchanged for.             *)
(*                                                                         *)
(* Every handler is a read and a commit: the services read their rows      *)
(* outside a transaction and the session commits, by primary key and only  *)
(* the columns that were changed, when the route returns.  Another handler *)
(* may commit in between.                                                  *)
(***************************************************************************)
EXTENDS Integers, FiniteSets

CONSTANTS
  Admins,      \* administrators' requests under way at the same time
  Sessions,    \* rows of customer_sessions, made one after the other
  Validity,    \* initial_validity_days, in ticks
  SessionAge,  \* SESSION_MAX_AGE_SECONDS, in ticks
  MaxTime      \* bound: ticks of the clock

ASSUME TimesAssumption == MaxTime \in Nat /\ Validity \in Nat \ {0} /\ SessionAge \in Nat \ {0}

VARIABLES
  now,        \* utc_now()
  customer,   \* access_state and access_expires_at of the customer
  handler,    \* what an administrator's request has read and is to write
  session,    \* the customer's sessions
  visit       \* what the request that carries a session is doing

-----------------------------------------------------------------------------

NoTime == 0           \* access_expires_at IS NULL: an access that is over, as 0 is
Times == 0..(MaxTime + Validity + SessionAge)

Lesser(a, b) == IF a <= b THEN a ELSE b

Access == [state : {"unstarted", "active", "stopped"}, expires : Times]

\* derive_status at a time
StatusOf(c, time) ==
  CASE c.state = "unstarted" -> "unstarted"
    [] c.state # "unstarted" /\ c.expires <= time -> "expired"
    [] c.state # "unstarted" /\ c.expires > time -> c.state

Status == StatusOf(customer, now)
Available == Status = "active"

\* A request of an administrator: the access and the sessions it has read.
Handler == [op : {"none", "enable", "extend", "stop", "resume"},
            at : Times, read : Access, expires : Times, live : SUBSET Sessions]

Unstarted == [state |-> "unstarted", expires |-> NoTime]
NoRequest == [op |-> "none", at |-> 0, read |-> Unstarted, expires |-> NoTime, live |-> {}]

\* revoked and left are both revoked_at, set by a stop and by the customer.
\* stopped and crossed are history: a stop of the access was committed after the
\* session's verification began; that verification and a stop overlapped.
Session == [state : {"none", "live", "revoked", "left"}, expires : Times,
            stopped : BOOLEAN, crossed : BOOLEAN]

\* seen is history: while the request was under way there was an instant at which
\* its session was valid and the access not stopped; admitted without it: wrong.
Visit == [pc : {"idle", "verifying", "asking"}, at : Times, seen : BOOLEAN, wrong : BOOLEAN]

NoSession == [state |-> "none", expires |-> NoTime, stopped |-> FALSE, crossed |-> FALSE]
NoVisit == [pc |-> "idle", at |-> 0, seen |-> FALSE, wrong |-> FALSE]

\* create_customer
Init ==
  /\ now = 1
  /\ customer \in {Unstarted, [state |-> "active", expires |-> 1 + Validity]}
  /\ handler = [a \in Admins |-> NoRequest]
  /\ session = [s \in Sessions |-> NoSession]
  /\ visit = [s \in Sessions |-> NoVisit]

-----------------------------------------------------------------------------
(* Administrators.                                                         *)

LiveSessions == {s \in Sessions : session[s].state = "live"}

Requested(a, op, expires) ==
  /\ handler[a].op = "none"
  /\ handler' = [handler EXCEPT ![a] =
       [op |-> op, at |-> now, read |-> customer, expires |-> expires, live |-> LiveSessions]]
  /\ UNCHANGED <<now, customer, session>>

EnableRead(a) == Status = "unstarted" /\ Requested(a, "enable", now + Validity)
StopRead(a) == Status = "active" /\ Requested(a, "stop", customer.expires)
ResumeRead(a) == Status = "stopped" /\ Requested(a, "resume", customer.expires)

\* update_expiration: an expired access keeps its state and may be prolonged.
ExtendRead(a) ==
  /\ customer.state # "unstarted"
  /\ \E time \in (now + 1)..(MaxTime + 1) : Requested(a, "extend", time)

\* A column is written when the value differs from the one that was read.
Written(read, new, current) == IF new = read THEN current ELSE new

NewState(a) ==
  CASE handler[a].op = "stop" -> "stopped"
    [] handler[a].op \in {"enable", "resume"} -> "active"
    [] handler[a].op = "extend" -> handler[a].read.state

\* Mutant: a stop leaves the sessions as they are.
RevokedNone(a) == session

\* The stop's UPDATE of the sessions it has read.
Revoked(a) ==
  [s \in Sessions |->
     IF s \in handler[a].live THEN [session[s] EXCEPT !.state = "revoked"] ELSE session[s]]

\* History: every session verified by now has lived to see a stop.
Outlived(sessions) ==
  [s \in Sessions |->
     IF sessions[s].state = "live" \/ visit[s].pc = "verifying"
     THEN [sessions[s] EXCEPT !.stopped = TRUE,
                              !.crossed = @ \/ visit[s].pc = "verifying"]
     ELSE sessions[s]]

Commit(a) ==
  /\ handler[a].op # "none"
  /\ customer' = [state |-> Written(handler[a].read.state, NewState(a), customer.state),
                  expires |-> Written(handler[a].read.expires, handler[a].expires,
                                      customer.expires)]
  /\ session' = IF handler[a].op = "stop" THEN Outlived(Revoked(a)) ELSE session
  /\ handler' = [handler EXCEPT ![a] = NoRequest]
  /\ UNCHANGED now

-----------------------------------------------------------------------------
(* Customers.                                                              *)

Stopping == \E a \in Admins : handler[a].op = "stop"

\* verify_access_token, issue_customer_session; the session is capped by the
\* expiry that was read.
VerifyRead(s) ==
  /\ session[s].state = "none"
  /\ visit[s].pc = "idle"
  /\ Available
  /\ session' = [session EXCEPT ![s].expires = Lesser(now + SessionAge, customer.expires),
                                ![s].crossed = Stopping]
  /\ visit' = [visit EXCEPT ![s].pc = "verifying", ![s].at = now]
  /\ UNCHANGED <<now, customer, handler>>

VerifyCommit(s) ==
  /\ visit[s].pc = "verifying"
  /\ session' = [session EXCEPT ![s].state = "live", ![s].crossed = @ \/ Stopping]
  /\ visit' = [visit EXCEPT ![s] = NoVisit]
  /\ UNCHANGED <<now, customer, handler>>

\* logout_customer
Logout(s) ==
  /\ session[s].state = "live"
  /\ session' = [session EXCEPT ![s].state = "left"]
  /\ UNCHANGED <<now, customer, handler, visit>>

\* The session is good and no stop is in force, by the time the request has read.
Valid(record, access, time) ==
  record.state = "live" /\ record.expires > time /\ access.state = "active"

\* Mutant: the state of the session is not looked at.
AskAnySession(s) ==
  /\ session[s].state # "none"
  /\ session[s].expires > now
  /\ visit[s].pc = "idle"
  /\ visit' = [visit EXCEPT ![s].pc = "asking", ![s].at = now,
                          ![s].seen = Valid(session[s], customer, now)]
  /\ UNCHANGED <<now, customer, handler, session>>

\* get_customer_principal reads the session, then the customer.
AskSession(s) ==
  /\ session[s].state = "live"
  /\ session[s].expires > now
  /\ visit[s].pc = "idle"
  /\ visit' = [visit EXCEPT ![s].pc = "asking", ![s].at = now,
                          ![s].seen = Valid(session[s], customer, now)]
  /\ UNCHANGED <<now, customer, handler, session>>

AskCustomer(s) ==
  /\ visit[s].pc = "asking"
  /\ visit' = [visit EXCEPT ![s] =
       [NoVisit EXCEPT !.wrong = visit[s].wrong
                          \/ (/\ StatusOf(customer, visit[s].at) = "active"
                              /\ ~visit[s].seen
                              /\ session[s].state # "left" /\ ~session[s].crossed)]]
  /\ UNCHANGED <<now, customer, handler, session>>

\* History: a request under way has met an instant at which it was entitled.
Watch ==
  visit' = [s \in Sessions |->
    [visit[s] EXCEPT !.seen = @ \/ (/\ visit[s].pc = "asking"
                                    /\ Valid(session'[s], customer', visit[s].at))]]

Tick ==
  /\ now < MaxTime
  /\ now' = now + 1
  /\ UNCHANGED <<customer, handler, session>>

-----------------------------------------------------------------------------

Read(a) == EnableRead(a) \/ StopRead(a) \/ ResumeRead(a) \/ ExtendRead(a)

AccessNext ==
  \/ \E a \in Admins : (Read(a) \/ Commit(a)) /\ Watch
  \/ Tick /\ Watch
  \/ \E s \in Sessions :
       VerifyRead(s) \/ VerifyCommit(s) \/ Logout(s) \/ AskSession(s) \/ AskCustomer(s)

accessVars == <<now, customer, handler, session, visit>>

AccessSpec == Init /\ [][AccessNext]_accessVars

-----------------------------------------------------------------------------
(* Properties.                                                             *)

\* The types of every variable.
AccessTypeOK ==
  /\ now \in Times
  /\ customer \in Access
  /\ handler \in [Admins -> Handler]
  /\ session \in [Sessions -> Session]
  /\ visit \in [Sessions -> Visit]

\* A stop of the access (CustomerAccessService.stop) ends every session there
\* is: one that lives on was being verified while the stop was under way.
SessionsEndWithStop ==
  \A s \in Sessions : session[s].state = "live" /\ session[s].stopped => session[s].crossed

\* get_customer_principal reads two rows at two instants, and a stop and a
\* resumption may fall between: a request it admits still met one instant at
\* which its session was good and the access not stopped, unless the session
\* had been verified across a stop or its customer logged out meanwhile.
AdmittedWasEntitled == \A s \in Sessions : ~visit[s].wrong

=============================================================================
