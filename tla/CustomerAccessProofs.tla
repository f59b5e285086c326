------------------------- MODULE CustomerAccessProofs -------------------------
(***************************************************************************)
(* Theorems of CustomerAccess, for any administrators, sessions and times. *)
(***************************************************************************)
EXTENDS CustomerAccess, TLAPS

-----------------------------------------------------------------------------
(* Types.                                                                  *)

\* The clock goes on to its bound only.
AccessTypeInv == AccessTypeOK /\ now \in 1..(MaxTime + 1)

\* The times that requests and sessions are given.
LEMMA TimesGiven ==
  ASSUME AccessTypeInv
  PROVE  /\ now + Validity \in Times /\ now + 1 \in Times
         /\ \A time \in (now + 1)..(MaxTime + 1) : time \in Times
         /\ \A expires \in Times : Lesser(now + SessionAge, expires) \in Times
         /\ NoTime \in Times
BY TimesAssumption DEF AccessTypeInv, Times, Lesser, NoTime

\* No request and no visit are of their types.
LEMMA NothingTypes ==
  NoRequest \in Handler /\ NoVisit \in Visit /\ NoSession \in Session /\ Unstarted \in Access
BY TimesAssumption
DEF NoRequest, Handler, Unstarted, Access, NoVisit, Visit, NoSession, Session, NoTime, Times

\* Initially.
LEMMA InitTypes == Init => AccessTypeInv
<1> SUFFICES ASSUME Init PROVE AccessTypeInv
  OBVIOUS
<1>1. 1 + Validity \in Times /\ 1 \in Times /\ 1 \in 1..(MaxTime + 1)
  BY TimesAssumption DEF Times
<1>2. customer \in Access
  BY <1>1, NothingTypes DEF Init, Access
<1>3. QED
  BY <1>1, <1>2, NothingTypes DEF Init, AccessTypeInv, AccessTypeOK

\* What a request commits.
LEMMA CommitTypes ==
  ASSUME AccessTypeInv, NEW a \in Admins, Commit(a)
  PROVE  customer' \in Access /\ session' \in [Sessions -> Session]
         /\ handler' \in [Admins -> Handler] /\ now' = now
<1>1. handler[a] \in Handler /\ handler[a].op # "none"
  BY DEF AccessTypeInv, AccessTypeOK, Commit
<1>2. handler[a].read \in Access /\ handler[a].expires \in Times
      /\ handler[a].op \in {"enable", "extend", "stop", "resume"}
  BY <1>1 DEF Handler
<1>3. NewState(a) \in {"unstarted", "active", "stopped"}
  BY <1>2 DEF NewState, Access
<1>4. customer' \in Access
  BY <1>2, <1>3 DEF Commit, Written, Access, AccessTypeInv, AccessTypeOK
<1>5. Revoked(a) \in [Sessions -> Session]
  BY DEF Revoked, Session, AccessTypeInv, AccessTypeOK
<1>6. Outlived(Revoked(a)) \in [Sessions -> Session]
  <2> DEFINE R == Revoked(a)
  <2> SUFFICES ASSUME NEW s \in Sessions
               PROVE  (IF R[s].state = "live" \/ visit[s].pc = "verifying"
                       THEN [R[s] EXCEPT !.stopped = TRUE,
                                         !.crossed = @ \/ visit[s].pc = "verifying"]
                       ELSE R[s]) \in Session
    BY DEF Outlived
  <2>1. R[s] \in Session
    BY <1>5
  <2> HIDE DEF R
  <2>2. QED
    BY <2>1 DEF Session
<1>7. session' \in [Sessions -> Session]
  BY <1>6 DEF Commit, AccessTypeInv, AccessTypeOK
<1>8. handler' \in [Admins -> Handler] /\ now' = now
  BY NothingTypes DEF Commit, AccessTypeInv, AccessTypeOK
<1>9. QED
  BY <1>4, <1>7, <1>8

\* A request that reads.
LEMMA ReadTypes ==
  ASSUME AccessTypeInv, NEW a \in Admins, Read(a)
  PROVE  handler' \in [Admins -> Handler] /\ UNCHANGED <<now, customer, session>>
<1>1. \A op \in {"enable", "stop", "resume", "extend"}, expires \in Times :
        [op |-> op, at |-> now, read |-> customer, expires |-> expires, live |-> LiveSessions]
          \in Handler
  BY DEF AccessTypeInv, AccessTypeOK, Handler, LiveSessions
<1>2. PICK op \in {"enable", "stop", "resume", "extend"}, expires \in Times :
        Requested(a, op, expires)
  BY TimesGiven DEF Read, EnableRead, StopRead, ResumeRead, ExtendRead, AccessTypeInv,
     AccessTypeOK, Access
<1>3. QED
  BY <1>1, <1>2 DEF Requested, AccessTypeInv, AccessTypeOK

\* Visits that only watch.
LEMMA WatchTypes ==
  ASSUME AccessTypeInv, Watch
  PROVE  /\ visit' \in [Sessions -> Visit]
         /\ \A s \in Sessions : /\ visit'[s].pc = visit[s].pc
                                /\ visit[s].seen => visit'[s].seen
                                /\ visit'[s].wrong = visit[s].wrong
<1> SUFFICES ASSUME NEW s \in Sessions
             PROVE  /\ visit'[s] \in Visit /\ visit'[s].pc = visit[s].pc
                    /\ visit[s].seen => visit'[s].seen
                    /\ visit'[s].wrong = visit[s].wrong
  BY DEF Watch
<1> DEFINE met == visit[s].pc = "asking" /\ Valid(session'[s], customer', visit[s].at)
<1>1. visit'[s] = [visit[s] EXCEPT !.seen = @ \/ met] /\ visit[s] \in Visit
  BY DEF Watch, AccessTypeInv, AccessTypeOK
<1> HIDE DEF met
<1>2. QED
  BY <1>1 DEF Visit

\* Every step keeps the types.
LEMMA TypeStep ==
  ASSUME AccessTypeInv, [AccessNext]_accessVars
  PROVE  AccessTypeInv'
<1> USE DEF AccessTypeInv, AccessTypeOK
<1>1. ASSUME NEW a \in Admins, Read(a), Watch PROVE AccessTypeInv'
  BY <1>1, ReadTypes, WatchTypes
<1>2. ASSUME NEW a \in Admins, Commit(a), Watch PROVE AccessTypeInv'
  BY <1>2, CommitTypes, WatchTypes
<1>3. CASE Tick /\ Watch
  <2>1. now' \in 1..(MaxTime + 1) /\ now' \in Times
    BY <1>3, TimesAssumption, TimesGiven DEF Tick
  <2>2. QED
    BY <1>3, <2>1, WatchTypes DEF Tick
<1>4. ASSUME NEW s \in Sessions, VerifyRead(s) PROVE AccessTypeInv'
  <2>1. Lesser(now + SessionAge, customer.expires) \in Times
    BY TimesGiven DEF Access
  <2>2. Stopping \in BOOLEAN
    BY DEF Stopping
  <2>3. [session[s] EXCEPT !.expires = Lesser(now + SessionAge, customer.expires),
                           !.crossed = Stopping] \in Session
    BY <2>1, <2>2 DEF Session
  <2>4. [visit[s] EXCEPT !.pc = "verifying", !.at = now] \in Visit
    BY DEF Visit
  <2>5. /\ session' = [session EXCEPT ![s] =
             [session[s] EXCEPT !.expires = Lesser(now + SessionAge, customer.expires),
                                !.crossed = Stopping]]
        /\ visit' = [visit EXCEPT ![s] = [visit[s] EXCEPT !.pc = "verifying", !.at = now]]
        /\ UNCHANGED <<now, customer, handler>>
    BY <1>4 DEF VerifyRead
  <2>6. QED
    BY <2>3, <2>4, <2>5
<1>5. ASSUME NEW s \in Sessions, VerifyCommit(s) PROVE AccessTypeInv'
  <2>1. Stopping \in BOOLEAN
    BY DEF Stopping
  <2>2. [session[s] EXCEPT !.state = "live", !.crossed = @ \/ Stopping] \in Session
    BY <2>1 DEF Session
  <2>3. QED
    BY <1>5, <2>2, NothingTypes DEF VerifyCommit
<1>6. ASSUME NEW s \in Sessions, Logout(s) PROVE AccessTypeInv'
  BY <1>6 DEF Logout, Session
<1>7. ASSUME NEW s \in Sessions, AskSession(s) PROVE AccessTypeInv'
  <2>1. Valid(session[s], customer, now) \in BOOLEAN
    BY DEF Valid
  <2>2. [visit[s] EXCEPT !.pc = "asking", !.at = now,
                         !.seen = Valid(session[s], customer, now)] \in Visit
    BY <2>1 DEF Visit
  <2>3. QED
    BY <1>7, <2>2 DEF AskSession
<1>8. ASSUME NEW s \in Sessions, AskCustomer(s) PROVE AccessTypeInv'
  <2>1. PICK wrong \in BOOLEAN : visit' = [visit EXCEPT ![s] = [NoVisit EXCEPT !.wrong = wrong]]
    BY <1>8 DEF AskCustomer, Visit
  <2>2. [NoVisit EXCEPT !.wrong = wrong] \in Visit
    BY NothingTypes DEF Visit
  <2>3. QED
    BY <1>8, <2>1, <2>2 DEF AskCustomer
<1>9. CASE UNCHANGED accessVars
  BY <1>9 DEF accessVars
<1>10. QED
  BY <1>1, <1>2, <1>3, <1>4, <1>5, <1>6, <1>7, <1>8, <1>9 DEF AccessNext

\* At any time, all variables have their types: the rows and the requests of
\* the customer's access (customer_access_service.py, customer_session_service.py).
THEOREM AccessTypesCorrect == AccessSpec => []AccessTypeOK
<1>1. AccessTypeInv /\ [AccessNext]_accessVars => AccessTypeInv'
  BY TypeStep
<1>2. AccessTypeInv => AccessTypeOK
  BY DEF AccessTypeInv
<1>3. QED
  BY InitTypes, <1>1, <1>2, PTL DEF AccessSpec

-----------------------------------------------------------------------------
(* Sessions and stops.                                                     *)

\* A session that a verification is making or has made, and that is in use.
Used(s) == session[s].state = "live" \/ visit[s].pc = "verifying"

\* A session that has lived to see a stop overlapped with it.
StopEnds ==
  \A s \in Sessions : Used(s) /\ session[s].stopped => session[s].crossed

\* One that is not yet verified has seen none.
UnusedUnstopped ==
  \A s \in Sessions :
    session[s].state = "none" /\ visit[s].pc # "verifying" => ~session[s].stopped

\* What a stop under way will not revoke was verified while it was.
StopMisses ==
  \A a \in Admins, s \in Sessions :
    handler[a].op = "stop" /\ session[s].state = "live" /\ s \notin handler[a].live
      => session[s].crossed

\* While the access is not active every session in use overlapped with a stop.
InactiveEnds ==
  customer.state # "active" => \A s \in Sessions : Used(s) => session[s].crossed

\* A request under way was entitled when it read its session, or never to be.
AskerEntitled ==
  \A s \in Sessions : visit[s].pc = "asking" => visit[s].seen \/ session[s].crossed

SessionInv ==
  /\ AccessTypeInv
  /\ StopEnds
  /\ UnusedUnstopped
  /\ StopMisses
  /\ InactiveEnds
  /\ AskerEntitled
  /\ AdmittedWasEntitled

\* Initially there is no session, no request and nobody asks.
LEMMA InitSessions == Init => SessionInv
<1> SUFFICES ASSUME Init PROVE SessionInv
  OBVIOUS
<1>1. \A s \in Sessions : /\ session[s].state = "none" /\ ~session[s].stopped
                          /\ visit[s].pc = "idle" /\ ~visit[s].wrong
  BY DEF Init, NoSession, NoVisit
<1>2. \A a \in Admins : handler[a].op = "none"
  BY DEF Init, NoRequest
<1>3. StopEnds /\ UnusedUnstopped /\ InactiveEnds
  BY <1>1 DEF StopEnds, UnusedUnstopped, InactiveEnds, Used
<1>4. StopMisses /\ AskerEntitled /\ AdmittedWasEntitled
  BY <1>1, <1>2 DEF StopMisses, AskerEntitled, AdmittedWasEntitled
<1>5. QED
  BY <1>3, <1>4, InitTypes DEF SessionInv

\* What a stop that commits makes of one session.
LEMMA StopCommits ==
  ASSUME AccessTypeInv, NEW a \in Admins, Commit(a), handler[a].op = "stop", NEW s \in Sessions
  PROVE  /\ session'[s].state = IF s \in handler[a].live THEN "revoked" ELSE session[s].state
         /\ session[s].crossed => session'[s].crossed
         /\ visit[s].pc = "verifying" => session'[s].crossed
         /\ session'[s].stopped
              => session[s].stopped \/ session'[s].state = "live" \/ visit[s].pc = "verifying"
<1> DEFINE R == Revoked(a)
<1>1. R[s] = IF s \in handler[a].live THEN [session[s] EXCEPT !.state = "revoked"] ELSE session[s]
  BY DEF Revoked
<1>2. session[s] \in Session
  BY DEF AccessTypeInv, AccessTypeOK
<1>3. /\ R[s] \in Session
      /\ R[s].state = IF s \in handler[a].live THEN "revoked" ELSE session[s].state
      /\ R[s].crossed = session[s].crossed /\ R[s].stopped = session[s].stopped
  BY <1>1, <1>2 DEF Session
<1>4. session'[s] = IF R[s].state = "live" \/ visit[s].pc = "verifying"
                    THEN [R[s] EXCEPT !.stopped = TRUE,
                                      !.crossed = @ \/ visit[s].pc = "verifying"]
                    ELSE R[s]
  BY DEF Commit, Outlived
<1> HIDE DEF R
<1>5. CASE R[s].state = "live" \/ visit[s].pc = "verifying"
  <2>1. /\ session'[s].state = R[s].state
        /\ session'[s].crossed = (R[s].crossed \/ visit[s].pc = "verifying")
    BY <1>3, <1>4, <1>5 DEF Session
  <2>2. QED
    BY <1>3, <1>5, <2>1
<1>6. CASE ~(R[s].state = "live" \/ visit[s].pc = "verifying")
  BY <1>3, <1>4, <1>6
<1>7. QED
  BY <1>5, <1>6

\* Any other request leaves the sessions, and stops nothing.
LEMMA OthersCommit ==
  ASSUME AccessTypeInv, NEW a \in Admins, Commit(a), handler[a].op # "stop"
  PROVE  session' = session /\ customer'.state \in {"active", customer.state}
<1>1. handler[a] \in Handler /\ handler[a].op # "none"
  BY DEF AccessTypeInv, AccessTypeOK, Commit
<1>2. CASE handler[a].op \in {"enable", "resume"}
  <2>1. NewState(a) = "active"
    BY <1>2 DEF NewState
  <2>2. QED
    BY <1>2, <2>1 DEF Commit, Written
<1>3. CASE handler[a].op = "extend"
  <2>1. NewState(a) = handler[a].read.state
    BY <1>3 DEF NewState
  <2>2. QED
    BY <1>3, <2>1 DEF Commit, Written
<1>4. QED
  BY <1>1, <1>2, <1>3 DEF Handler

\* A commit keeps the invariant.
LEMMA CommitKeeps ==
  ASSUME SessionInv, NEW a \in Admins, Commit(a), Watch
  PROVE  SessionInv'
<1> USE DEF SessionInv
<1>1. AccessTypeInv'
  BY TypeStep DEF AccessNext
<1>2. /\ \A b \in Admins : handler'[b].op = "stop" => b # a /\ handler'[b] = handler[b]
      /\ \A s \in Sessions : /\ visit'[s].pc = visit[s].pc
                             /\ visit[s].seen => visit'[s].seen
                             /\ visit'[s].wrong = visit[s].wrong
  BY WatchTypes DEF Commit, NoRequest, AccessTypeInv, AccessTypeOK
<1>3. AdmittedWasEntitled'
  BY <1>2 DEF AdmittedWasEntitled
<1>4. CASE handler[a].op = "stop"
  <2>1. \A s \in Sessions :
          /\ session'[s].state = IF s \in handler[a].live THEN "revoked" ELSE session[s].state
          /\ session[s].crossed => session'[s].crossed
          /\ visit[s].pc = "verifying" => session'[s].crossed
          /\ session'[s].stopped
               => session[s].stopped \/ session'[s].state = "live" \/ visit[s].pc = "verifying"
    BY <1>4, StopCommits
  <2>2. \A s \in Sessions : Used(s)' => session'[s].crossed
    BY <1>2, <1>4, <2>1 DEF Used, StopMisses
  <2>3. StopEnds' /\ InactiveEnds'
    BY <2>2 DEF StopEnds, InactiveEnds
  <2>4. UnusedUnstopped'
    BY <1>2, <2>1 DEF UnusedUnstopped
  <2>5. StopMisses'
    BY <1>2, <2>2 DEF StopMisses, Used
  <2>6. AskerEntitled'
    BY <1>2, <2>1 DEF AskerEntitled
  <2>7. QED
    BY <1>1, <1>3, <2>3, <2>4, <2>5, <2>6
<1>5. CASE handler[a].op # "stop"
  <2>1. session' = session /\ customer'.state \in {"active", customer.state}
    BY <1>5, OthersCommit
  <2>2. StopEnds' /\ UnusedUnstopped' /\ InactiveEnds'
    BY <1>2, <2>1 DEF StopEnds, UnusedUnstopped, InactiveEnds, Used
  <2>3. StopMisses' /\ AskerEntitled'
    BY <1>2, <2>1 DEF StopMisses, AskerEntitled
  <2>4. QED
    BY <1>1, <1>3, <2>2, <2>3
<1>6. QED
  BY <1>4, <1>5

\* A request that reads keeps it: a stop reads every live session.
LEMMA ReadKeeps ==
  ASSUME SessionInv, NEW a \in Admins, Read(a), Watch
  PROVE  SessionInv'
<1> USE DEF SessionInv
<1>1. AccessTypeInv'
  BY TypeStep DEF AccessNext
<1>2. \A s \in Sessions : /\ visit'[s].pc = visit[s].pc
                          /\ visit[s].seen => visit'[s].seen
                          /\ visit'[s].wrong = visit[s].wrong
  BY WatchTypes
<1>3. UNCHANGED <<customer, session>>
  BY ReadTypes
<1>4. handler'[a].live = LiveSessions /\ \A b \in Admins : b # a => handler'[b] = handler[b]
  <2>1. PICK op, expires : Requested(a, op, expires)
    BY DEF Read, EnableRead, StopRead, ResumeRead, ExtendRead
  <2>2. QED
    BY <2>1 DEF Requested, AccessTypeInv, AccessTypeOK
<1>5. StopEnds' /\ UnusedUnstopped' /\ InactiveEnds'
  BY <1>2, <1>3 DEF StopEnds, UnusedUnstopped, InactiveEnds, Used
<1>6. StopMisses'
  BY <1>3, <1>4 DEF StopMisses, LiveSessions
<1>7. AskerEntitled' /\ AdmittedWasEntitled'
  BY <1>2, <1>3 DEF AskerEntitled, AdmittedWasEntitled
<1>8. QED
  BY <1>1, <1>5, <1>6, <1>7

\* A verification keeps it: one under way while a stop is has overlapped with it,
\* and no verification begins while the access is not active.
LEMMA VerifyKeeps ==
  ASSUME SessionInv, NEW s \in Sessions, VerifyRead(s) \/ VerifyCommit(s)
  PROVE  SessionInv'
<1> USE DEF SessionInv
<1>1. AccessTypeInv'
  BY TypeStep DEF AccessNext
<1>2. /\ UNCHANGED <<now, customer, handler>>
      /\ \A t \in Sessions : t # s => session'[t] = session[t] /\ visit'[t] = visit[t]
  BY DEF VerifyRead, VerifyCommit, AccessTypeInv, AccessTypeOK
<1>3. session[s] \in Session /\ visit[s] \in Visit
  BY DEF AccessTypeInv, AccessTypeOK
<1>4. CASE VerifyRead(s)
  <2>1. /\ session'[s] = [session[s] EXCEPT !.expires = Lesser(now + SessionAge, customer.expires),
                                            !.crossed = Stopping]
        /\ visit'[s] = [visit[s] EXCEPT !.pc = "verifying", !.at = now]
        /\ session[s].state = "none" /\ visit[s].pc = "idle"
    BY <1>4 DEF VerifyRead, AccessTypeInv, AccessTypeOK
  <2>2. /\ session'[s].state = "none" /\ session'[s].stopped = session[s].stopped
        /\ visit'[s].pc = "verifying" /\ visit'[s].wrong = visit[s].wrong
    BY <1>3, <2>1 DEF Session, Visit
  <2>3. customer.state = "active"
    <3>1. /\ customer.expires \in Int /\ now \in Int
          /\ customer.state \in {"unstarted", "active", "stopped"}
      BY TimesAssumption DEF AccessTypeInv, AccessTypeOK, Access, Times
    <3>2. QED
      BY <1>4, <3>1 DEF VerifyRead, Available, Status, StatusOf
  <2>4. ~session[s].stopped
    BY <2>1 DEF UnusedUnstopped
  <2>5. StopEnds' /\ UnusedUnstopped' /\ InactiveEnds'
    BY <1>2, <2>2, <2>3, <2>4 DEF StopEnds, UnusedUnstopped, InactiveEnds, Used
  <2>6. StopMisses' /\ AskerEntitled' /\ AdmittedWasEntitled'
    BY <1>2, <2>2 DEF StopMisses, AskerEntitled, AdmittedWasEntitled
  <2>7. QED
    BY <1>1, <2>5, <2>6
<1>5. CASE VerifyCommit(s)
  <2>1. /\ session'[s] = [session[s] EXCEPT !.state = "live", !.crossed = @ \/ Stopping]
        /\ visit'[s] = NoVisit /\ visit[s].pc = "verifying"
    BY <1>5 DEF VerifyCommit, AccessTypeInv, AccessTypeOK
  <2>2. /\ session'[s].state = "live" /\ session'[s].stopped = session[s].stopped
        /\ session'[s].crossed = (session[s].crossed \/ Stopping)
    BY <1>3, <2>1 DEF Session
  <2>3. visit'[s].pc = "idle" /\ visit'[s].wrong = FALSE
    BY <2>1 DEF NoVisit
  <2>4. StopEnds' /\ UnusedUnstopped' /\ InactiveEnds'
    BY <1>2, <2>1, <2>2, <2>3 DEF StopEnds, UnusedUnstopped, InactiveEnds, Used
  <2>5. StopMisses'
    BY <1>2, <2>2 DEF StopMisses, Stopping
  <2>6. AskerEntitled' /\ AdmittedWasEntitled'
    BY <1>2, <2>3 DEF AskerEntitled, AdmittedWasEntitled
  <2>7. QED
    BY <1>1, <2>4, <2>5, <2>6
<1>6. QED
  BY <1>4, <1>5

\* A customer who leaves, and requests, keep it: a live session is entitled
\* while the access is active, and has otherwise overlapped with a stop.
LEMMA CustomerKeeps ==
  ASSUME SessionInv, NEW s \in Sessions, Logout(s) \/ AskSession(s) \/ AskCustomer(s)
  PROVE  SessionInv'
<1> USE DEF SessionInv
<1>1. AccessTypeInv'
  BY TypeStep DEF AccessNext
<1>2. /\ UNCHANGED <<now, customer, handler>>
      /\ \A t \in Sessions : t # s => session'[t] = session[t] /\ visit'[t] = visit[t]
  BY DEF Logout, AskSession, AskCustomer, AccessTypeInv, AccessTypeOK
<1>3. session[s] \in Session /\ visit[s] \in Visit
  BY DEF AccessTypeInv, AccessTypeOK
<1>4. /\ session'[s].stopped = session[s].stopped /\ session'[s].crossed = session[s].crossed
      /\ session'[s].state = session[s].state
           \/ (session[s].state = "live" /\ session'[s].state = "left")
      /\ visit'[s].pc = "verifying" <=> visit[s].pc = "verifying"
      /\ visit'[s].wrong = visit[s].wrong /\ (visit'[s].pc = "asking" =>
           visit'[s].seen \/ session'[s].crossed)
  <2>1. CASE Logout(s)
    <3>1. session'[s] = [session[s] EXCEPT !.state = "left"] /\ visit' = visit
          /\ session[s].state = "live"
      BY <2>1 DEF Logout, AccessTypeInv, AccessTypeOK
    <3>2. QED
      BY <1>3, <3>1 DEF Session, AskerEntitled
  <2>2. CASE AskSession(s)
    <3>1. /\ visit'[s] = [visit[s] EXCEPT !.pc = "asking", !.at = now,
                                          !.seen = Valid(session[s], customer, now)]
          /\ session' = session /\ session[s].state = "live" /\ session[s].expires > now
      BY <2>2 DEF AskSession, AccessTypeInv, AccessTypeOK
    <3>2. /\ visit'[s].pc = "asking" /\ visit'[s].wrong = visit[s].wrong
          /\ visit'[s].seen = Valid(session[s], customer, now)
      BY <1>3, <3>1 DEF Visit
    <3>3. Valid(session[s], customer, now) \/ session[s].crossed
      BY <3>1 DEF Valid, InactiveEnds, Used
    <3>4. visit[s].pc = "idle"
      BY <2>2 DEF AskSession
    <3>5. QED
      BY <3>1, <3>2, <3>3, <3>4
  <2>3. CASE AskCustomer(s)
    <3>1. PICK wrong \in BOOLEAN :
            /\ visit' = [visit EXCEPT ![s] = [NoVisit EXCEPT !.wrong = wrong]]
            /\ wrong => visit[s].wrong \/ (~visit[s].seen /\ ~session[s].crossed)
            /\ visit[s].wrong => wrong
      BY <1>3, <2>3 DEF AskCustomer, Visit
    <3>2. visit'[s].pc = "idle" /\ visit'[s].wrong = wrong
      BY <3>1 DEF NoVisit, AccessTypeInv, AccessTypeOK
    <3>3. visit[s].seen \/ session[s].crossed
      BY <2>3 DEF AskCustomer, AskerEntitled
    <3>4. wrong = visit[s].wrong
      BY <1>3, <3>1, <3>3 DEF Visit
    <3>5. QED
      BY <2>3, <3>2, <3>4 DEF AskCustomer
  <2>4. QED
    BY <2>1, <2>2, <2>3
<1>5. StopEnds' /\ UnusedUnstopped' /\ InactiveEnds'
  BY <1>2, <1>4 DEF StopEnds, UnusedUnstopped, InactiveEnds, Used
<1>6. StopMisses'
  BY <1>2, <1>4 DEF StopMisses
<1>7. AskerEntitled' /\ AdmittedWasEntitled'
  BY <1>2, <1>4 DEF AskerEntitled, AdmittedWasEntitled
<1>8. QED
  BY <1>1, <1>5, <1>6, <1>7

\* The clock, and steps that change nothing.
LEMMA RestKeeps ==
  ASSUME SessionInv, (Tick /\ Watch) \/ UNCHANGED accessVars
  PROVE  SessionInv'
<1> USE DEF SessionInv
<1>1. AccessTypeInv'
  BY TypeStep DEF AccessNext
<1>2. \A s \in Sessions : /\ visit'[s].pc = visit[s].pc
                          /\ visit[s].seen => visit'[s].seen
                          /\ visit'[s].wrong = visit[s].wrong
  BY WatchTypes DEF accessVars
<1>3. UNCHANGED <<customer, handler, session>>
  BY DEF Tick, accessVars
<1>4. StopEnds' /\ UnusedUnstopped' /\ InactiveEnds'
  BY <1>2, <1>3 DEF StopEnds, UnusedUnstopped, InactiveEnds, Used
<1>5. StopMisses' /\ AskerEntitled' /\ AdmittedWasEntitled'
  BY <1>2, <1>3 DEF StopMisses, AskerEntitled, AdmittedWasEntitled
<1>6. QED
  BY <1>1, <1>4, <1>5

\* Every step keeps it.
LEMMA SessionStep == SessionInv /\ [AccessNext]_accessVars => SessionInv'
<1> SUFFICES ASSUME SessionInv, [AccessNext]_accessVars PROVE SessionInv'
  OBVIOUS
<1>1. QED
  BY CommitKeeps, ReadKeeps, VerifyKeeps, CustomerKeeps, RestKeeps DEF AccessNext

\* A stop of the access (CustomerAccessService.stop) ends every session there
\* is: one that lives on was being verified while the stop was under way.
THEOREM StopEndsSessions == AccessSpec => []SessionsEndWithStop
<1>1. SessionInv => SessionsEndWithStop
  BY DEF SessionInv, StopEnds, Used, SessionsEndWithStop
<1>2. QED
  BY InitSessions, SessionStep, <1>1, PTL DEF AccessSpec

\* A request that get_customer_principal admits, though it reads the session and
\* the customer at two instants, met one at which its session was good and the
\* access not stopped, unless the session had been verified across a stop or its
\* customer logged out meanwhile.
THEOREM AdmittedEntitled == AccessSpec => []AdmittedWasEntitled
<1>1. SessionInv => AdmittedWasEntitled
  BY DEF SessionInv
<1>2. QED
  BY InitSessions, SessionStep, <1>1, PTL DEF AccessSpec

=============================================================================
