----------------------------- MODULE PartsProofs -----------------------------
(***************************************************************************)
(* Theorems of the server's smaller parts, for any threads, requests,      *)
(* people and rows: image files, saved logos, notification settings, model *)
(* settings, the rotation of style templates, the start on the database of *)
(* any release, however often it is stopped.                               *)
(***************************************************************************)
EXTENDS StyleRotation, ModelSettings, LarkSettings, AssetFiles, SavedLogos, Migrations,
        FiniteSetTheorems, NaturalsInduction, TLAPS

-----------------------------------------------------------------------------
(* AssetFiles.                                                             *)

\* Who writes the preview holds the lock; whoever opens it has found none.
WriterHoldsLock ==
  \A t \in Threads :
    /\ thread[t].pc \in {"open", "fill"} => lock = t
    /\ thread[t].pc = "open" => preview = "none"
    /\ thread[t].pc = "fill" => preview = "part"

FilesInv == FilesTypeOK /\ WriterHoldsLock

Doings == [pc : {"off", "look", "read", "wait", "open", "fill"}, warms : BOOLEAN]

\* Initially there are no files, and no thread is at work.
LEMMA FilesBegin == FilesInit => FilesInv
<1> SUFFICES ASSUME FilesInit PROVE FilesInv
  OBVIOUS
<1>1. [pc |-> "off", warms |-> FALSE] \in Doings
  BY DEF Doings
<1>2. thread \in [Threads -> Doings] /\ \A t \in Threads : thread[t].pc = "off"
  BY <1>1 DEF FilesInit
<1>3. image \in File /\ preview \in File /\ seen \subseteq File /\ recorded \in BOOLEAN
  BY DEF FilesInit, File
<1>4. mishaps \in 0..MaxMishaps /\ lock \in Threads \union {NoThread}
  BY FilesAssumption DEF FilesInit
<1>5. QED
  BY <1>2, <1>3, <1>4 DEF FilesInv, FilesTypeOK, WriterHoldsLock, Doings

\* A step of one thread leaves the others where they are.
LEMMA ThreadSteps ==
  ASSUME FilesTypeOK, NEW t \in Threads,
         NEW pc \in {"off", "look", "read", "wait", "open", "fill"},
         Goes(t, pc) \/ (pc = "off" /\ Leaves(t))
  PROVE  /\ thread' \in [Threads -> Doings] /\ thread'[t].pc = pc
         /\ \A u \in Threads \ {t} : thread'[u] = thread[u]
<1>1. thread \in [Threads -> Doings]
  BY DEF FilesTypeOK, Doings
<1>2. CASE Goes(t, pc)
  <2>1. [thread[t] EXCEPT !.pc = pc] \in Doings /\ [thread[t] EXCEPT !.pc = pc].pc = pc
    BY <1>1 DEF Doings
  <2>2. QED
    BY <1>1, <1>2, <2>1 DEF Goes
<1>3. CASE pc = "off" /\ Leaves(t)
  <2>1. [pc |-> "off", warms |-> FALSE] \in Doings
    BY DEF Doings
  <2>2. QED
    BY <1>1, <1>3, <2>1 DEF Leaves
<1>4. QED
  BY <1>2, <1>3

\* Every step keeps the lock with whoever writes.
LEMMA FilesStep == FilesInv /\ [FilesNext]_filesVars => FilesInv'
<1> SUFFICES ASSUME FilesInv, [FilesNext]_filesVars PROVE FilesInv'
  OBVIOUS
<1> USE FilesAssumption DEF FilesInv
<1>1. ASSUME NEW t \in Threads, CreateGeneratedLogo(t) PROVE FilesInv'
  BY <1>1 DEF CreateGeneratedLogo, FilesTypeOK, WriterHoldsLock, File
<1>2. ASSUME NEW t \in Threads, ReadGeneratedLogo(t) \/ Look(t) PROVE FilesInv'
  BY <1>2, ThreadSteps DEF Doings, ReadGeneratedLogo, Look, FilesTypeOK, WriterHoldsLock, File
<1>3. ASSUME NEW t \in Threads, ReadPreview(t) PROVE FilesInv'
  BY <1>3, ThreadSteps DEF Doings, ReadPreview, FilesTypeOK, WriterHoldsLock, File
<1>4. ASSUME NEW t \in Threads, LookAgain(t) PROVE FilesInv'
  <2>1. /\ lock = NoThread /\ UNCHANGED <<image, recorded, preview, seen, mishaps>>
        /\ \A u \in Threads : thread[u].pc \notin {"open", "fill"}
    BY <1>4 DEF LookAgain, WriterHoldsLock
  <2>2. PICK pc \in {"off", "open", "read"} :
          /\ Goes(t, pc) \/ (pc = "off" /\ Leaves(t))
          /\ lock' \in {t, NoThread}
          /\ pc = "open" => preview = "none" /\ lock' = t
    BY <1>4 DEF LookAgain
  <2>3. /\ thread' \in [Threads -> Doings] /\ thread'[t].pc = pc
        /\ \A u \in Threads \ {t} : thread'[u] = thread[u]
    BY <2>2, ThreadSteps
  <2>4. WriterHoldsLock'
    BY <2>1, <2>2, <2>3 DEF WriterHoldsLock
  <2>5. QED
    BY <2>1, <2>2, <2>3, <2>4 DEF FilesTypeOK, Doings
<1>5. ASSUME NEW t \in Threads, Open(t) PROVE FilesInv'
  <2>1. /\ lock = t /\ preview' = "part" /\ UNCHANGED <<image, recorded, lock, seen, mishaps>>
        /\ \A u \in Threads \ {t} : thread[u].pc \notin {"open", "fill"}
    BY <1>5 DEF Open, WriterHoldsLock
  <2>2. /\ thread' \in [Threads -> Doings] /\ thread'[t].pc = "fill"
        /\ \A u \in Threads \ {t} : thread'[u] = thread[u]
    BY <1>5, ThreadSteps DEF Open
  <2>3. WriterHoldsLock'
    BY <2>1, <2>2 DEF WriterHoldsLock
  <2>4. QED
    BY <2>1, <2>2, <2>3 DEF FilesTypeOK, Doings, File
<1>6. ASSUME NEW t \in Threads, Fill(t) \/ FillFails(t) PROVE FilesInv'
  <2>1. /\ thread[t].pc = "fill" /\ lock = t /\ lock' = NoThread /\ Leaves(t)
        /\ \A u \in Threads \ {t} : thread[u].pc \notin {"open", "fill"}
        /\ UNCHANGED <<image, recorded>> /\ preview' \in File /\ seen' \subseteq File
    BY <1>6 DEF Fill, FillFails, WriterHoldsLock, FilesTypeOK, File
  <2>2. /\ thread' \in [Threads -> Doings] /\ thread'[t].pc = "off"
        /\ \A u \in Threads \ {t} : thread'[u] = thread[u]
    BY <2>1, ThreadSteps
  <2>3. mishaps' \in 0..MaxMishaps
    BY <1>6 DEF Fill, FillFails, FilesTypeOK
  <2>4. WriterHoldsLock'
    BY <2>1, <2>2 DEF WriterHoldsLock
  <2>5. QED
    BY <2>1, <2>2, <2>3, <2>4 DEF FilesTypeOK, Doings
<1>7. CASE Record \/ Crash
  <2>1. CASE Record
    BY <2>1 DEF Record, FilesTypeOK, WriterHoldsLock, File
  <2>2. CASE Crash
    <3>1. [pc |-> "off", warms |-> FALSE] \in Doings
      BY DEF Doings
    <3>2. thread' \in [Threads -> Doings] /\ \A t \in Threads : thread'[t].pc = "off"
      BY <2>2, <3>1 DEF Crash
    <3>3. mishaps' \in 0..MaxMishaps
      BY <2>2 DEF Crash, FilesTypeOK
    <3>4. QED
      BY <2>2, <3>2, <3>3 DEF Crash, FilesTypeOK, WriterHoldsLock, Doings
  <2>3. QED
    BY <1>7, <2>1, <2>2
<1>8. CASE UNCHANGED filesVars
  BY <1>8 DEF filesVars, FilesTypeOK, WriterHoldsLock
<1>9. QED
  BY <1>1, <1>2, <1>3, <1>4, <1>5, <1>6, <1>7, <1>8 DEF FilesNext

\* At any time, all variables of the asset files have their types.
THEOREM FilesTypesCorrect == FilesSpec => []FilesTypeOK
<1>1. FilesInv => FilesTypeOK
  BY DEF FilesInv
<1>2. QED
  BY FilesBegin, FilesStep, <1>1, PTL DEF FilesSpec

\* However many threads ask for it at once, a preview that is whole is never
\* opened for writing again (read_thumbnail, write_thumbnail).
THEOREM WholePreviewStays == FilesSpec => PreviewStaysWhole
<1>1. FilesInv /\ [FilesNext]_filesVars => (preview = "whole" => preview' = "whole")
  BY DEF FilesInv, WriterHoldsLock, FilesNext, CreateGeneratedLogo, ReadGeneratedLogo, Look,
     ReadPreview, LookAgain, Open, Fill, FillFails, Record, Crash, filesVars
<1>2. FilesInv /\ [FilesNext]_filesVars => [preview = "whole" => preview' = "whole"]_filesVars
  BY <1>1
<1>3. QED
  BY FilesBegin, FilesStep, <1>2, PTL DEF FilesSpec, PreviewStaysWhole

-----------------------------------------------------------------------------
(* SavedLogos.                                                             *)

\* What a request may answer.
Answers == [word : {"created", "found", "moved", "missing", "exists"}, row : Keys]

\* Every row of the page's calls and of the requests is one of the keys'; a
\* request that has its answer has one of these.
SavedTypeInv ==
  /\ call \in [Keys -> [op : {"save", "update"}, row : Keys, version : Versions]]
  /\ \A k \in Keys : call[k].op = "save" => call[k].row = k
  /\ saved \in [Keys -> Versions \union {NoVersion}] /\ NoneTwice(saved)
  /\ answers \in [Keys -> Answers \union {NoAnswer}]
  /\ sending \in [Senders -> {Unsent} \union
       [sent : {TRUE}, key : Keys, answer : Answers \union {NoAnswer},
        read : Versions \union {NoVersion}]]
  /\ given \in [Keys -> SUBSET Answers]

\* What the page was given under a key is the answer that is stored for it.
GivenIsStored ==
  \A k \in Keys : \A answer \in given[k] : answers[k] # NoAnswer /\ answer = answers[k]

SavedInv == SavedTypeInv /\ GivenIsStored

\* Nothing is an answer; a request that was sent is told from one that was not.
LEMMA SavedDistinct ==
  /\ NoAnswer \notin Answers
  /\ \A k, answer, read : Sent(k, answer, read) # Unsent
<1>1. NoAnswer \notin Answers
  BY DEF NoAnswer, Answers
<1>2. \A k, answer, read : Sent(k, answer, read) # Unsent
  BY DEF Sent, Unsent
<1>3. QED
  BY <1>1, <1>2

\* Initially nothing is saved or answered.
LEMMA SavedBegins == SavedInit => SavedInv
<1> SUFFICES ASSUME SavedInit PROVE SavedInv
  OBVIOUS
<1>1. call \in [Keys -> [op : {"save", "update"}, row : Keys, version : Versions]]
      /\ \A k \in Keys : call[k].op = "save" => call[k].row = k
  <2>1. \A k \in Keys : call[k] \in Calls(k)
    BY DEF SavedInit
  <2>2. \A k \in Keys : Calls(k) \subseteq [op : {"save", "update"}, row : Keys, version : Versions]
    BY DEF Calls
  <2>3. \A k \in Keys : \A c \in Calls(k) : c.op = "save" => c.row = k
    BY DEF Calls
  <2>4. call \in [Keys -> UNION {Calls(k) : k \in Keys}]
    BY DEF SavedInit
  <2>5. QED
    BY <2>1, <2>2, <2>3, <2>4
<1>2. NoneTwice(saved)
  BY DEF SavedInit, NoneTwice
<1>3. QED
  BY <1>1, <1>2 DEF SavedInit, SavedInv, SavedTypeInv, GivenIsStored

\* A request that begins, with an answer or with the row it has loaded.
LEMMA SavedBeginsRequest ==
  ASSUME SavedInv, NEW s \in Senders, NEW k \in Keys, NEW answer \in Answers \union {NoAnswer},
         NEW read \in Versions \union {NoVersion}, Begins(s, k, answer, read)
  PROVE  SavedInv'
<1>1. Sent(k, answer, read) \in [sent : {TRUE}, key : Keys, answer : Answers \union {NoAnswer},
                                 read : Versions \union {NoVersion}]
  BY DEF Sent
<1>2. QED
  BY <1>1 DEF Begins, SavedInv, SavedTypeInv, GivenIsStored, NoneTwice

\* Every step keeps the answers.
LEMMA SavedStep == SavedInv /\ [SavedNext]_savedVars => SavedInv'
<1> SUFFICES ASSUME SavedInv, [SavedNext]_savedVars PROVE SavedInv'
  OBVIOUS
<1> USE DEF SavedInv
<1>1. ASSUME NEW s \in Senders, NEW k \in Keys, SaveLogo(s, k) PROVE SavedInv'
  <2>1. PICK answer \in Answers, read \in Versions \union {NoVersion} : Begins(s, k, answer, read)
    BY <1>1 DEF SaveLogo, Says, Answers, Holding, SavedTypeInv
  <2>2. QED
    BY <2>1, SavedBeginsRequest
<1>2. ASSUME NEW s \in Senders, NEW k \in Keys, UpdateSavedLogo(s, k) PROVE SavedInv'
  <2>1. Says("missing", call[k].row) \in Answers /\ call[k].row \in Keys
    BY DEF Says, Answers, SavedTypeInv
  <2>2. PICK answer \in Answers \union {NoAnswer}, read \in Versions \union {NoVersion} :
          Begins(s, k, answer, read)
    BY <1>2, <2>1 DEF UpdateSavedLogo, SavedTypeInv
  <2>3. QED
    BY <2>2, SavedBeginsRequest
<1>3. ASSUME NEW s \in Senders, LookForDuplicate(s) PROVE SavedInv'
  <2>1. PICK word \in {"moved", "exists"} :
          sending' = [sending EXCEPT ![s].answer = Says(word, call[sending[s].key].row)]
    BY <1>3 DEF LookForDuplicate
  <2>2. sending[s] # Unsent /\ UNCHANGED <<call, saved, answers, given>>
    BY <1>3 DEF LookForDuplicate
  <2>3. sending[s].key \in Keys
    BY <2>2 DEF SavedTypeInv
  <2>4. Says(word, call[sending[s].key].row) \in Answers
    BY <2>3 DEF Says, Answers, SavedTypeInv
  <2>5. sending' \in [Senders -> {Unsent} \union
          [sent : {TRUE}, key : Keys, answer : Answers \union {NoAnswer},
           read : Versions \union {NoVersion}]]
    BY <2>1, <2>2, <2>4 DEF SavedTypeInv
  <2>6. QED
    BY <2>2, <2>5 DEF SavedTypeInv, GivenIsStored, NoneTwice
<1>4. ASSUME NEW s \in Senders, SavedCommit(s) PROVE SavedInv'
  <2>1. /\ sending[s] # Unsent /\ sending[s].answer # NoAnswer
        /\ sending' = [sending EXCEPT ![s] = Unsent] /\ call' = call
    BY <1>4 DEF SavedCommit
  <2>2. sending[s].key \in Keys /\ sending[s].answer \in Answers
    BY <2>1 DEF SavedTypeInv
  <2>3. CASE FirstAnswer(s) /\ NoneTwice(Changed(s))
    <3> DEFINE k == sending[s].key
               answer == sending[s].answer
    <3>1. /\ saved' = Changed(s) /\ answers' = [answers EXCEPT ![k] = answer]
          /\ given' = [given EXCEPT ![k] = @ \union {answer}]
          /\ answers[k] = NoAnswer
      BY <1>4, <2>3 DEF SavedCommit, Remembered, FirstAnswer
    <3>2. saved' \in [Keys -> Versions \union {NoVersion}] /\ NoneTwice(saved')
      BY <2>2, <2>3, <3>1 DEF Changed, SavedTypeInv
    <3>3. given[k] = {}
      BY <2>2, <3>1 DEF GivenIsStored, SavedTypeInv
    <3>4. answers'[k] = answer /\ given'[k] = {answer} /\ answer # NoAnswer
      BY <2>1, <2>2, <3>1, <3>3 DEF SavedTypeInv
    <3>5. \A other \in Keys \ {k} : answers'[other] = answers[other] /\ given'[other] = given[other]
      BY <3>1 DEF SavedTypeInv
    <3>6. GivenIsStored'
      BY <3>4, <3>5 DEF GivenIsStored
    <3>7. QED
      BY <2>1, <2>2, <3>1, <3>2, <3>6 DEF SavedTypeInv, NoneTwice
  <2>4. CASE ~(FirstAnswer(s) /\ NoneTwice(Changed(s)))
    BY <1>4, <2>1, <2>4 DEF SavedCommit, SavedTypeInv, GivenIsStored, NoneTwice
  <2>5. QED
    BY <2>3, <2>4
<1>5. ASSUME NEW s \in Senders, SavedDies(s) PROVE SavedInv'
  BY <1>5 DEF SavedDies, SavedTypeInv, GivenIsStored, NoneTwice
<1>6. ASSUME NEW k \in Keys, Replay(k) PROVE SavedInv'
  <2>1. /\ answers[k] # NoAnswer /\ UNCHANGED <<call, saved, answers, sending>>
        /\ given' = [given EXCEPT ![k] = @ \union {answers[k]}]
    BY <1>6 DEF Replay
  <2>2. answers[k] \in Answers
    BY <2>1 DEF SavedTypeInv
  <2>3. given' \in [Keys -> SUBSET Answers]
    BY <2>1, <2>2 DEF SavedTypeInv
  <2>4. GivenIsStored'
    BY <2>1 DEF GivenIsStored, SavedTypeInv
  <2>5. QED
    BY <2>1, <2>3, <2>4 DEF SavedTypeInv, NoneTwice
<1>7. CASE UNCHANGED savedVars
  BY <1>7 DEF savedVars, SavedTypeInv, GivenIsStored, NoneTwice
<1>8. QED
  BY <1>1, <1>2, <1>3, <1>4, <1>5, <1>6, <1>7 DEF SavedNext

\* At any time, all variables of the saved logos have their types, and no version
\* is saved twice (uq_saved_logos_customer_version).
THEOREM SavedTypesCorrect == SavedSpec => []SavedTypeOK
<1>1. SavedInv => SavedTypeOK
  <2> SUFFICES ASSUME SavedInv PROVE SavedTypeOK
    OBVIOUS
  <2>1. \A k \in Keys : call[k] \in Calls(k)
    BY DEF SavedInv, SavedTypeInv, Calls
  <2>2. QED
    BY <2>1 DEF SavedInv, SavedTypeInv, SavedTypeOK, Answers
<1>2. QED
  BY SavedBegins, SavedStep, <1>1, PTL DEF SavedSpec

\* However often a key is sent, at once or later, and whatever other keys have
\* changed since, the page is given one answer for it (EndpointIdempotencyRecord:
\* "A replayable response").
THEOREM OneAnswerPerKey == SavedSpec => []AnswerStands
<1>1. SavedInv => AnswerStands
  <2> SUFFICES ASSUME SavedInv, NEW k \in Keys PROVE Cardinality(given[k]) <= 1
    BY DEF AnswerStands
  <2>1. given[k] \subseteq {answers[k]}
    BY DEF SavedInv, GivenIsStored
  <2>2. IsFiniteSet({answers[k]}) /\ Cardinality({answers[k]}) = 1
    BY FS_Singleton
  <2>3. QED
    BY <2>1, <2>2, FS_Subset
<1>2. QED
  BY SavedBegins, SavedStep, <1>1, PTL DEF SavedSpec

-----------------------------------------------------------------------------
(* LarkSettings.                                                           *)

\* What a request may hold.
EditRow == [op : {"none", "person", "rule"}, people : SUBSET People,
            set : {"absent", "enabled", "disabled", "deleted"}, events : SUBSET Events,
            new : [Events -> Rule], behind : BOOLEAN]

LarkTypeInv ==
  /\ person \in [People -> {"absent", "enabled", "disabled", "deleted"}]
  /\ rule \in [Events -> Rule]
  /\ staged \subseteq People
  /\ edit \in [Editors -> EditRow]
  /\ clashed \in BOOLEAN

\* A rule with somebody to mention, if it is enabled.
Mentions(r) == r.enabled => r.all \/ EnabledPeople(r.ids) # {}

\* Whoever is disabled, deleted or made disabled leaves every rule somebody; the
\* rules that are written have somebody.
EditMentions(a) ==
  /\ edit[a].op = "person" =>
       /\ edit[a].events = {}
       /\ edit[a].set # "enabled" =>
            \A e \in Events : rule[e].enabled /\ ~rule[e].all
                                => EnabledPeople(rule[e].ids \ edit[a].people) # {}
  /\ edit[a].op = "rule" =>
       edit[a].people = {} /\ \A e \in edit[a].events : Mentions(edit[a].new[e])

LarkInv ==
  /\ LarkTypeInv
  /\ ~clashed => /\ \A e \in Events : Mentions(rule[e])
                 /\ \A a \in Editors : edit[a].op # "none" /\ ~edit[a].behind => EditMentions(a)

\* The record of no request.
LEMMA NoEditType == NoEdit \in EditRow /\ NoRule \in Rule
BY DEF NoEdit, EditRow, NoRule, Rule

\* Initially there are no people and no rules.
LEMMA LarkBegins == LarkInit => LarkInv
<1> SUFFICES ASSUME LarkInit PROVE LarkInv
  OBVIOUS
<1>1. edit \in [Editors -> EditRow] /\ rule \in [Events -> Rule]
  BY NoEditType DEF LarkInit
<1>2. LarkTypeInv
  BY <1>1 DEF LarkInit, LarkTypeInv
<1>3. \A e \in Events : Mentions(rule[e])
  BY DEF LarkInit, Mentions, NoRule
<1>4. \A a \in Editors : edit[a].op = "none"
  BY DEF LarkInit, NoEdit
<1>5. QED
  BY <1>2, <1>3, <1>4 DEF LarkInv

\* A request that reads: what it is to write leaves every rule somebody.
LEMMA EditReads ==
  ASSUME LarkInv, NEW a \in Editors, NEW request \in EditRow, Edits(a, request),
         ~request.behind,
         request.op = "person" =>
           /\ request.events = {}
           /\ request.set # "enabled" /\ ~clashed =>
                \A e \in Events : rule[e].enabled /\ ~rule[e].all
                                    => EnabledPeople(rule[e].ids \ request.people) # {},
         request.op = "rule" =>
           request.people = {} /\ \A e \in request.events : Mentions(request.new[e])
  PROVE  LarkInv'
<1>1. UNCHANGED <<person, rule, staged, clashed>> /\ edit' = [edit EXCEPT ![a] = request]
  BY DEF Edits
<1>2. LarkTypeInv'
  BY <1>1 DEF LarkInv, LarkTypeInv
<1>3. edit'[a] = request /\ \A b \in Editors \ {a} : edit'[b] = edit[b]
  BY <1>1 DEF LarkInv, LarkTypeInv
<1>4. ASSUME ~clashed, NEW b \in Editors, edit'[b].op # "none", ~edit'[b].behind
      PROVE  EditMentions(b)'
  <2>1. CASE b = a
    BY <1>1, <1>3, <1>4, <2>1 DEF EditMentions, Mentions, EnabledPeople
  <2>2. CASE b # a
    BY <1>1, <1>3, <1>4, <2>2 DEF LarkInv, EditMentions, Mentions, EnabledPeople
  <2>3. QED
    BY <2>1, <2>2
<1>5. QED
  BY <1>1, <1>2, <1>4 DEF LarkInv, Mentions, EnabledPeople

\* A person's request, by what it has checked.
LEMMA EditsPerson ==
  ASSUME LarkInv, NEW a \in Editors, NEW p \in People,
         CreateRecipient(a, p) \/ EnableRecipient(a, p) \/ DisableRecipient(a, p)
           \/ DeleteRecipient(a, p)
  PROVE  LarkInv'
<1>1. PICK status \in {"enabled", "disabled", "deleted"} :
        /\ EditPerson(a, p, status)
        /\ status = "enabled" \/ person[p] # "enabled"
             \/ (status = "disabled" /\ DisableRecipient(a, p))
             \/ (status = "deleted" /\ \A e \in Events : p \notin rule[e].ids)
  BY DEF CreateRecipient, EnableRecipient, DisableRecipient, DeleteRecipient
<1> DEFINE request == [NoEdit EXCEPT !.op = "person", !.people = {p}, !.set = status]
<1>2. /\ request \in EditRow /\ request.op = "person" /\ request.people = {p}
      /\ request.set = status /\ request.events = {} /\ ~request.behind
  BY NoEditType DEF NoEdit, EditRow
<1>3. ASSUME ~clashed, status # "enabled", NEW e \in Events, rule[e].enabled, ~rule[e].all
      PROVE  EnabledPeople(rule[e].ids \ {p}) # {}
  <2>1. EnabledPeople(rule[e].ids) # {}
    BY <1>3 DEF LarkInv, Mentions
  <2>2. CASE p \notin rule[e].ids
    BY <2>1, <2>2 DEF EnabledPeople
  <2>3. CASE person[p] # "enabled"
    BY <2>1, <2>3 DEF EnabledPeople
  <2>4. CASE p \in rule[e].ids /\ DisableRecipient(a, p)
    BY <1>3, <2>4 DEF DisableRecipient
  <2>5. QED
    BY <1>1, <1>3, <2>2, <2>3, <2>4
<1>4. Edits(a, request)
  BY <1>1 DEF EditPerson
<1> HIDE DEF request
<1>5. QED
  BY <1>2, <1>3, <1>4, EditReads

\* A rules' request: an enabled rule lists enabled recipients, and one at least.
LEMMA EditsRules ==
  ASSUME LarkInv, NEW a \in Editors, NEW events \in SUBSET Events, UpdateRules(a, events)
  PROVE  LarkInv'
<1>1. PICK new \in [Events -> Rule] :
        /\ \A e \in events :
             new[e].enabled => /\ EnabledPeople(new[e].ids) = new[e].ids
                               /\ new[e].all \/ new[e].ids # {}
        /\ Edits(a, [NoEdit EXCEPT !.op = "rule", !.events = events, !.new = new])
  BY DEF UpdateRules
<1> DEFINE request == [NoEdit EXCEPT !.op = "rule", !.events = events, !.new = new]
<1>2. /\ request \in EditRow /\ request.op = "rule" /\ request.people = {}
      /\ request.events = events /\ request.new = new /\ ~request.behind
  BY NoEditType DEF NoEdit, EditRow
<1>3. \A e \in events : Mentions(new[e])
  BY <1>1 DEF Mentions
<1>4. Edits(a, request)
  BY <1>1
<1> HIDE DEF request
<1>5. QED
  BY <1>2, <1>3, <1>4, EditReads

\* A commit: what it has checked still holds, unless another came in between.
LEMMA EditCommits ==
  ASSUME LarkInv, NEW a \in Editors, CommitEdit(a)
  PROVE  LarkInv'
<1>1. edit[a] \in EditRow /\ edit[a].op \in {"person", "rule"} /\ clashed \in BOOLEAN
  BY DEF LarkInv, LarkTypeInv, CommitEdit, EditRow
<1>2. /\ edit[a].people \in SUBSET People /\ edit[a].events \in SUBSET Events
      /\ edit[a].set \in {"absent", "enabled", "disabled", "deleted"}
      /\ edit[a].new \in [Events -> Rule] /\ edit[a].behind \in BOOLEAN
  BY <1>1 DEF EditRow
<1>3. /\ clashed' = (clashed \/ edit[a].behind) /\ staged' = staged
      /\ edit' = Behind(a)
  BY DEF CommitEdit
<1>4. /\ person' \in [People -> {"absent", "enabled", "disabled", "deleted"}]
      /\ \A p \in People : person'[p] =
           IF p \in edit[a].people /\ person[p] # "deleted" THEN edit[a].set ELSE person[p]
  BY <1>2 DEF CommitEdit, LarkInv, LarkTypeInv
<1>5. /\ rule' \in [Events -> Rule]
      /\ \A e \in Events : rule'[e] = IF e \in edit[a].events THEN edit[a].new[e] ELSE rule[e]
  BY <1>2 DEF CommitEdit, LarkInv, LarkTypeInv
<1>6. ASSUME NEW b \in Editors
      PROVE  Behind(a)[b] \in EditRow /\ (Behind(a)[b].op # "none" => Behind(a)[b].behind)
  <2>1. CASE b = a \/ edit[b].op = "none"
    BY <2>1, NoEditType DEF Behind, NoEdit
  <2>2. CASE b # a /\ edit[b].op # "none"
    <3>1. Behind(a)[b] = [edit[b] EXCEPT !.behind = TRUE] /\ edit[b] \in EditRow
      BY <2>2 DEF Behind, LarkInv, LarkTypeInv
    <3>2. QED
      BY <3>1 DEF EditRow
  <2>3. QED
    BY <2>1, <2>2
<1>7. Behind(a) \in [Editors -> EditRow]
  BY <1>6 DEF Behind
<1>8. LarkTypeInv'
  BY <1>1, <1>2, <1>3, <1>4, <1>5, <1>7 DEF LarkInv, LarkTypeInv
<1>9. ASSUME ~clashed', NEW e \in Events, rule'[e].enabled, ~rule'[e].all
      PROVE  \E p \in rule'[e].ids : person'[p] = "enabled"
  <2>1. ~clashed /\ EditMentions(a) /\ Mentions(rule[e])
    BY <1>1, <1>3, <1>9 DEF LarkInv
  <2>2. rule[e] \in Rule /\ rule[e].ids \subseteq People
    BY DEF LarkInv, LarkTypeInv, Rule
  <2>3. CASE edit[a].op = "person"
    <3>1. rule'[e] = rule[e]
      BY <1>5, <2>1, <2>3 DEF EditMentions
    <3>2. PICK p \in rule[e].ids : /\ person[p] = "enabled"
                                   /\ edit[a].set = "enabled" \/ p \notin edit[a].people
      <4>1. CASE edit[a].set = "enabled"
        BY <1>9, <2>1, <3>1, <4>1 DEF Mentions, EnabledPeople
      <4>2. CASE edit[a].set # "enabled"
        BY <1>9, <2>1, <2>3, <3>1, <4>2 DEF EditMentions, EnabledPeople
      <4>3. QED
        BY <4>1, <4>2
    <3>3. person'[p] = "enabled"
      BY <1>4, <2>2, <3>2
    <3>4. QED
      BY <3>1, <3>2, <3>3
  <2>4. CASE edit[a].op = "rule"
    <3>1. edit[a].people = {} /\ \A f \in edit[a].events : Mentions(edit[a].new[f])
      BY <2>1, <2>4 DEF EditMentions
    <3>2. \A p \in People : person'[p] = person[p]
      BY <1>4, <3>1
    <3>3. Mentions(rule'[e]) /\ rule'[e].ids \subseteq People
      BY <1>5, <2>1, <3>1 DEF Rule
    <3>4. QED
      BY <1>9, <3>2, <3>3 DEF Mentions, EnabledPeople
  <2>5. QED
    BY <1>1, <2>3, <2>4
<1>10. ~clashed' => \A e \in Events : Mentions(rule[e])'
  BY <1>9 DEF Mentions, EnabledPeople
<1>11. \A b \in Editors : edit'[b].op # "none" => edit'[b].behind
  BY <1>3, <1>6
<1>12. QED
  BY <1>8, <1>10, <1>11 DEF LarkInv

\* A snapshot: those who are notified and the rules stay, whoever has read does so
\* again or is behind.
LEMMA EditMissesStage ==
  ASSUME LarkInv, NEW e \in Events, StageSnapshot(e)
  PROVE  LarkInv'
<1>1. UNCHANGED <<person, rule, clashed>> /\ staged' = staged \union EnabledPeople(rule[e].ids)
  BY DEF StageSnapshot
<1>2. ASSUME NEW b \in Editors
      PROVE  edit'[b] \in EditRow /\ (edit'[b].op # "none" => edit'[b].behind)
  <2>1. CASE edit[b].op = "none"
    BY <2>1, NoEditType DEF StageSnapshot, NoEdit
  <2>2. CASE edit[b].op # "none"
    <3>1. edit'[b] = [edit[b] EXCEPT !.behind = TRUE] /\ edit[b] \in EditRow
      BY <2>2 DEF StageSnapshot, LarkInv, LarkTypeInv
    <3>2. QED
      BY <3>1 DEF EditRow
  <2>3. QED
    BY <2>1, <2>2
<1>3. edit' \in [Editors -> EditRow]
  BY <1>2 DEF StageSnapshot
<1>4. rule[e].ids \subseteq People
  BY DEF LarkInv, LarkTypeInv, Rule
<1>5. LarkTypeInv'
  BY <1>1, <1>3, <1>4 DEF LarkInv, LarkTypeInv, EnabledPeople
<1>6. QED
  BY <1>1, <1>2, <1>5 DEF LarkInv, Mentions, EnabledPeople

LEMMA LarkStep == LarkInv /\ [LarkNext]_larkVars => LarkInv'
<1> SUFFICES ASSUME LarkInv, [LarkNext]_larkVars PROVE LarkInv'
  OBVIOUS
<1>1. ASSUME NEW a \in Editors, NEW p \in People,
             CreateRecipient(a, p) \/ EnableRecipient(a, p) \/ DisableRecipient(a, p)
               \/ DeleteRecipient(a, p)
      PROVE  LarkInv'
  BY <1>1, EditsPerson
<1>2. ASSUME NEW a \in Editors, NEW events \in {{e} : e \in Events} \union {Events},
             UpdateRules(a, events)
      PROVE  LarkInv'
  <2>1. events \in SUBSET Events
    OBVIOUS
  <2>2. QED
    BY <1>2, <2>1, EditsRules
<1>3. ASSUME NEW a \in Editors, CommitEdit(a) PROVE LarkInv'
  BY <1>3, EditCommits
<1>4. ASSUME NEW e \in Events, StageSnapshot(e) PROVE LarkInv'
  BY <1>4, EditMissesStage
<1>5. CASE UNCHANGED larkVars
  BY <1>5 DEF larkVars, LarkInv, LarkTypeInv, Mentions, EditMentions, EnabledPeople
<1>6. QED
  BY <1>1, <1>2, <1>3, <1>4, <1>5 DEF LarkNext

\* At any time, all variables of the notification settings have their types.
THEOREM LarkTypesCorrect == LarkSpec => []LarkTypeOK
<1>1. LarkInv => LarkTypeOK
  <2> SUFFICES ASSUME LarkInv PROVE LarkTypeOK
    OBVIOUS
  <2>1. \A a \in Editors : edit[a] \in EditRow
    BY DEF LarkInv, LarkTypeInv
  <2>2. QED
    BY <2>1 DEF LarkInv, LarkTypeInv, LarkTypeOK, EditRow
<1>2. QED
  BY LarkBegins, LarkStep, <1>1, PTL DEF LarkSpec

\* Unless two requests overlapped, whoever is disabled or deleted and whatever rules
\* are written, an enabled rule has somebody to mention (_validate_enabled_rules).
THEOREM RulesHaveTargets == LarkSpec => []EnabledRuleHasTarget
<1>1. LarkInv => EnabledRuleHasTarget
  BY DEF LarkInv, EnabledRuleHasTarget, Mentions
<1>2. QED
  BY LarkBegins, LarkStep, <1>1, PTL DEF LarkSpec

-----------------------------------------------------------------------------
(* ModelSettings.                                                          *)

\* What a request may hold.
AskRow == [op : {"none", "update", "test", "delete", "publish"},
           conn : Connections \union {NoConnection}, row : Connection, scene : Scenes,
           base : Policy, number : Nat \union {-1}, uses : SUBSET Scenes]

ModelTypeInv ==
  /\ conn \in [Connections -> Connection]
  /\ policy \in [Scenes -> Policy]
  /\ ask \in [Admins -> AskRow]
  /\ crossed \in BOOLEAN

\* The last test of a verified connection was of what it is now.
VerifiedIsTested == \A c \in Connections : conn[c].verified => conn[c].tested = conn[c].config

\* A policy is pinned to a version the connection has or had; of that version there
\* is one configuration.
Pinned(p) ==
  /\ p.conn \in Connections
  /\ conn[p.conn].state # "absent"
  /\ ~crossed => /\ p.version <= conn[p.conn].version
                 /\ p.version = conn[p.conn].version => p.config = conn[p.conn].config

PolicyPinned(s) ==
  /\ policy[s].legacy => policy[s].number > 0
  /\ policy[s].number > 0 =>
       /\ Pinned(policy[s])
       /\ ~crossed => conn[policy[s].conn].state = "live"

AskPinned(a) ==
  /\ ask[a].op \in {"update", "test", "delete"} => ask[a].conn \in Connections
  /\ ask[a].op = "delete" => ask[a].uses = {}
  /\ ask[a].op = "publish" => Pinned(ask[a].base)

ModelInv ==
  /\ ModelTypeInv
  /\ ~crossed => VerifiedIsTested
  /\ \A s \in Scenes : PolicyPinned(s)
  /\ \A a \in Admins : AskPinned(a)

\* The rows as they begin.
LEMMA NewTypes ==
  /\ NewConnection \in Connection /\ NoPolicy \in Policy /\ NoRequest \in AskRow
  /\ NewConnection.state = "live" /\ ~NewConnection.verified
  /\ NoRequest.op = "none" /\ NoPolicy.number = 0 /\ ~NoPolicy.legacy
<1>1. NewConnection \in Connection /\ NewConnection.state = "live" /\ ~NewConnection.verified
  BY DEF NewConnection, Connection
<1>2. NoPolicy \in Policy /\ NoPolicy.number = 0 /\ ~NoPolicy.legacy
  BY DEF NoPolicy, Policy
<1>3. NoRequest \in AskRow /\ NoRequest.op = "none"
  BY <1>1, <1>2 DEF NoRequest, AskRow, Scenes
<1>4. QED
  BY <1>1, <1>2, <1>3

\* Initially there are no connections, or the one an older policy uses.
LEMMA ModelBegins == ModelInit => ModelInv
<1> SUFFICES ASSUME ModelInit PROVE ModelInv
  OBVIOUS
<1> DEFINE absent == [NewConnection EXCEPT !.state = "absent"]
           old == [NewConnection EXCEPT !.verified = TRUE, !.tested = 1]
<1>1. /\ absent \in Connection /\ ~absent.verified
      /\ old \in Connection /\ old.state = "live" /\ old.version = 1 /\ old.config = 1
      /\ old.tested = 1
  BY DEF NewConnection, Connection
<1>2. /\ ask \in [Admins -> AskRow] /\ \A a \in Admins : ask[a].op = "none"
      /\ crossed = FALSE
  BY NewTypes DEF ModelInit
<1>3. CASE conn = [c \in Connections |-> absent] /\ policy = [s \in Scenes |-> NoPolicy]
  <2> HIDE DEF absent, old
  <2>1. ModelTypeInv
    BY <1>1, <1>2, <1>3, NewTypes DEF ModelTypeInv
  <2>2. VerifiedIsTested
    BY <1>1, <1>3 DEF VerifiedIsTested
  <2>3. \A s \in Scenes : PolicyPinned(s)
    BY <1>3, NewTypes DEF PolicyPinned
  <2>4. QED
    BY <1>2, <2>1, <2>2, <2>3 DEF ModelInv, AskPinned
<1>4. ASSUME NEW c \in Connections,
             conn = [d \in Connections |-> IF d = c THEN old ELSE absent],
             policy = [s \in Scenes |->
               IF s = "edit" THEN [number |-> 1, conn |-> c, version |-> 1, config |-> 1,
                                   legacy |-> TRUE]
               ELSE NoPolicy]
      PROVE  ModelInv
  <2> DEFINE legacy == [number |-> 1, conn |-> c, version |-> 1, config |-> 1, legacy |-> TRUE]
  <2>1. legacy \in Policy /\ legacy.conn = c /\ legacy.version = 1 /\ legacy.config = 1
          /\ legacy.number = 1
    BY DEF Policy
  <2>2. \A s \in Scenes : policy[s] = IF s = "edit" THEN legacy ELSE NoPolicy
    BY <1>4
  <2> HIDE DEF absent, old, legacy
  <2>3. ModelTypeInv
    BY <1>1, <1>2, <1>4, <2>1, NewTypes DEF ModelTypeInv, legacy
  <2>4. VerifiedIsTested
    BY <1>1, <1>4 DEF VerifiedIsTested
  <2>5. Pinned(legacy) /\ conn[c].state = "live"
    BY <1>1, <1>4, <2>1 DEF Pinned
  <2>6. \A s \in Scenes : PolicyPinned(s)
    BY <2>1, <2>2, <2>5, NewTypes DEF PolicyPinned
  <2>7. QED
    BY <1>2, <2>3, <2>4, <2>6 DEF ModelInv, AskPinned
<1>5. QED
  BY <1>3, <1>4 DEF ModelInit

\* A request that reads.
LEMMA ModelAsks ==
  ASSUME ModelInv, NEW a \in Admins, NEW request \in AskRow, Asks(a, request),
         request.op \in {"update", "test", "delete"} => request.conn \in Connections,
         request.op = "delete" => request.uses = {},
         request.op = "publish" => Pinned(request.base)
  PROVE  ModelInv'
<1>1. UNCHANGED <<conn, policy, crossed>> /\ ask' = [ask EXCEPT ![a] = request]
  BY DEF Asks
<1>2. ModelTypeInv'
  BY <1>1 DEF ModelInv, ModelTypeInv
<1>3. ask'[a] = request /\ \A b \in Admins \ {a} : ask'[b] = ask[b]
  BY <1>1 DEF ModelInv, ModelTypeInv
<1>4. ASSUME NEW b \in Admins PROVE AskPinned(b)'
  <2>1. CASE b = a
    BY <1>1, <1>3, <2>1 DEF AskPinned, Pinned
  <2>2. CASE b # a
    BY <1>1, <1>3, <2>2 DEF ModelInv, AskPinned, Pinned
  <2>3. QED
    BY <2>1, <2>2
<1>5. (~crossed => VerifiedIsTested)' /\ \A s \in Scenes : PolicyPinned(s)'
  BY <1>1 DEF ModelInv, VerifiedIsTested, PolicyPinned, Pinned
<1>6. QED
  BY <1>2, <1>4, <1>5 DEF ModelInv

\* A connection is written: what is pinned to it stays so.
LEMMA ConnWrites ==
  ASSUME ModelInv, NEW c \in Connections, NEW row \in Connection,
         conn' = [conn EXCEPT ![c] = row], UNCHANGED policy,
         ask' \in [Admins -> AskRow],
         \A b \in Admins : ask'[b] = ask[b] \/ ask'[b].op = "none",
         crossed' \in BOOLEAN, crossed => crossed',
         row.state = "absent" => conn[c].state = "absent",
         ~crossed' =>
           /\ row.verified => row.tested = row.config
           /\ \/ conn[c].state = "absent"
              \/ row.version = conn[c].version /\ row.config = conn[c].config
              \/ row.version > conn[c].version
           /\ row.state = "live" \/ conn[c].state # "live" \/ Uses(c) = {}
  PROVE  ModelInv'
<1>1. /\ conn[c] \in Connection /\ conn'[c] = row
      /\ \A d \in Connections \ {c} : conn'[d] = conn[d]
  BY DEF ModelInv, ModelTypeInv
<1>2. ModelTypeInv'
  BY DEF ModelInv, ModelTypeInv
<1>3. ~crossed' => VerifiedIsTested'
  BY <1>1 DEF ModelInv, VerifiedIsTested
<1>4. ASSUME NEW p \in Policy, Pinned(p) PROVE Pinned(p)'
  <2>1. p.version \in Nat /\ conn[c].version \in Nat /\ row.version \in Nat
    BY <1>1 DEF Policy, Connection
  <2>2. CASE p.conn = c
    BY <1>1, <1>4, <2>1, <2>2 DEF Pinned
  <2>3. CASE p.conn # c
    BY <1>1, <1>4, <2>3 DEF Pinned
  <2>4. QED
    BY <2>2, <2>3
<1>5. ASSUME NEW s \in Scenes PROVE PolicyPinned(s)'
  <2>1. policy[s] \in Policy /\ policy'[s] = policy[s] /\ PolicyPinned(s)
    BY DEF ModelInv, ModelTypeInv
  <2>2. ASSUME policy[s].number > 0, ~crossed' PROVE conn'[policy[s].conn].state = "live"
    <3>1. conn[policy[s].conn].state = "live" /\ policy[s].conn \in Connections
      BY <2>1, <2>2 DEF PolicyPinned, Pinned
    <3>2. QED
      BY <1>1, <2>2, <3>1 DEF Uses
  <2>3. QED
    BY <1>4, <2>1, <2>2 DEF PolicyPinned
<1>6. ASSUME NEW b \in Admins PROVE AskPinned(b)'
  <2>1. ask[b] \in AskRow /\ ask[b].base \in Policy /\ AskPinned(b)
    BY DEF ModelInv, ModelTypeInv, AskRow
  <2>2. CASE ask'[b] = ask[b]
    BY <1>4, <2>1, <2>2 DEF AskPinned
  <2>3. CASE ask'[b].op = "none"
    BY <2>3 DEF AskPinned
  <2>4. QED
    BY <2>2, <2>3
<1>7. QED
  BY <1>2, <1>3, <1>5, <1>6 DEF ModelInv

\* What a request about a connection has read.
LEMMA RequestType ==
  ASSUME ModelInv, NEW c \in Connections, NEW op \in {"update", "test", "delete", "publish"}
  PROVE  /\ Request(op, c) \in AskRow /\ Request(op, c).op = op /\ Request(op, c).conn = c
         /\ Request(op, c).uses = {}
<1>1. conn[c] \in Connection
  BY DEF ModelInv, ModelTypeInv
<1> DEFINE row == conn[c]
<1> HIDE DEF row
<1>2. Request(op, c) = [NoRequest EXCEPT !.op = op, !.conn = c, !.row = row]
  BY DEF Request, row
<1>3. row \in Connection /\ NoRequest \in AskRow /\ NoRequest.uses = {}
  BY <1>1, NewTypes DEF row, NoRequest
<1>4. QED
  BY <1>2, <1>3 DEF AskRow

\* All reads: an update, a test, a delete, a publish, an upgrade, its number.
LEMMA ModelReads ==
  ASSUME ModelInv, NEW a \in Admins,
         \/ \E c \in Connections : \/ AskUpdate(a, c) \/ AskTest(a, c) \/ AskDelete(a, c)
                                   \/ \E s \in Scenes : AskPublish(a, c, s)
         \/ AskUpgrade(a) \/ AskNumber(a)
  PROVE  ModelInv'
<1>1. ASSUME NEW c \in Connections, AskUpdate(a, c) \/ AskTest(a, c) PROVE ModelInv'
  <2>1. PICK op \in {"update", "test"} : Asks(a, Request(op, c))
    BY <1>1 DEF AskUpdate, AskTest
  <2>2. QED
    BY <2>1, RequestType, ModelAsks
<1>2. ASSUME NEW c \in Connections, AskDelete(a, c) PROVE ModelInv'
  <2> DEFINE request == [Request("delete", c) EXCEPT !.uses = Uses(c)]
  <2>1. Uses(c) = {} /\ Asks(a, request)
    BY <1>2 DEF AskDelete
  <2>2. /\ request \in AskRow /\ request.op = "delete" /\ request.conn = c
        /\ request.uses = {}
    BY <2>1, RequestType DEF AskRow
  <2> HIDE DEF request
  <2>3. QED
    BY <2>1, <2>2, ModelAsks
<1>3. ASSUME NEW c \in Connections, NEW s \in Scenes, AskPublish(a, c, s) PROVE ModelInv'
  <2> DEFINE base == [number |-> 0, conn |-> c, version |-> conn[c].version,
                      config |-> conn[c].config, legacy |-> FALSE]
             request == [Request("publish", c) EXCEPT !.scene = s, !.base = base]
  <2>1. Asks(a, request) /\ conn[c].state = "live" /\ conn[c] \in Connection
    BY <1>3 DEF AskPublish, Publishable, ModelInv, ModelTypeInv
  <2>2. base \in Policy /\ Pinned(base)
    BY <2>1 DEF Policy, Pinned, Connection
  <2> HIDE DEF base
  <2>3. request \in AskRow /\ request.op = "publish" /\ request.base = base
    <3> DEFINE asked == Request("publish", c)
    <3>1. asked \in AskRow /\ asked.op = "publish"
      BY RequestType
    <3>2. request = [asked EXCEPT !.scene = s, !.base = base]
      OBVIOUS
    <3> HIDE DEF asked, request
    <3>3. QED
      BY <2>2, <3>1, <3>2 DEF AskRow
  <2> HIDE DEF request
  <2>4. QED
    BY <2>1, <2>2, <2>3, ModelAsks
<1>4. ASSUME AskUpgrade(a) PROVE ModelInv'
  <2> DEFINE base == [policy["edit"] EXCEPT !.legacy = FALSE]
             request == [NoRequest EXCEPT !.op = "publish", !.scene = "edit", !.base = base]
  <2>1. /\ Asks(a, request) /\ policy["edit"].legacy /\ "edit" \in Scenes
        /\ policy["edit"] \in Policy /\ PolicyPinned("edit")
    BY <1>4 DEF AskUpgrade, Scenes, ModelInv, ModelTypeInv
  <2>2. /\ base \in Policy /\ base.conn = policy["edit"].conn
        /\ base.version = policy["edit"].version /\ base.config = policy["edit"].config
    BY <2>1 DEF Policy
  <2>3. Pinned(base)
    BY <2>1, <2>2 DEF PolicyPinned, Pinned
  <2> HIDE DEF base
  <2>4. request \in AskRow /\ request.op = "publish" /\ request.base = base
    BY <2>1, <2>2, NewTypes DEF AskRow
  <2> HIDE DEF request
  <2>5. QED
    BY <2>1, <2>3, <2>4, ModelAsks
<1>5. ASSUME AskNumber(a) PROVE ModelInv'
  <2>1. /\ UNCHANGED <<conn, policy, crossed>> /\ ask[a].op = "publish"
        /\ ask' = [ask EXCEPT ![a].number = policy[ask[a].scene].number]
    BY <1>5 DEF AskNumber
  <2>2. ask[a] \in AskRow /\ AskPinned(a) /\ ask[a].scene \in Scenes
    BY DEF ModelInv, ModelTypeInv, AskRow
  <2>3. policy[ask[a].scene].number \in Nat
    BY <2>2 DEF ModelInv, ModelTypeInv, Policy
  <2> DEFINE row == [ask[a] EXCEPT !.number = policy[ask[a].scene].number]
  <2>4. /\ row \in AskRow /\ row.op = ask[a].op /\ row.base = ask[a].base
        /\ ask' = [ask EXCEPT ![a] = row]
    BY <2>1, <2>2, <2>3 DEF AskRow
  <2> HIDE DEF row
  <2>5. ModelTypeInv'
    BY <2>1, <2>4 DEF ModelInv, ModelTypeInv
  <2>6. ask'[a] = row /\ \A b \in Admins \ {a} : ask'[b] = ask[b]
    BY <2>4 DEF ModelInv, ModelTypeInv
  <2>7. ASSUME NEW b \in Admins PROVE AskPinned(b)'
    <3>1. CASE b = a
      BY <2>1, <2>2, <2>4, <2>6, <3>1 DEF AskPinned, Pinned
    <3>2. CASE b # a
      BY <2>1, <2>6, <3>2 DEF ModelInv, AskPinned, Pinned
    <3>3. QED
      BY <3>1, <3>2
  <2>8. (~crossed => VerifiedIsTested)' /\ \A s \in Scenes : PolicyPinned(s)'
    BY <2>1 DEF ModelInv, VerifiedIsTested, PolicyPinned, Pinned
  <2>9. QED
    BY <2>5, <2>7, <2>8 DEF ModelInv
<1>6. QED
  BY <1>1, <1>2, <1>3, <1>4, <1>5

\* A request that ends.
LEMMA RequestEnds ==
  ASSUME ModelInv, NEW a \in Admins, Ends(a)
  PROVE  /\ ask' \in [Admins -> AskRow]
         /\ \A b \in Admins : ask'[b] = IF b = a THEN NoRequest ELSE ask[b]
BY NewTypes DEF Ends, ModelInv, ModelTypeInv

\* All writes of a connection; those that do not cross another are of the row as it
\* was read.
LEMMA ModelWrites ==
  ASSUME ModelInv, NEW a \in Admins,
         Update(a) \/ TestPasses(a) \/ TestFails(a) \/ Delete(a)
  PROVE  ModelInv'
<1> DEFINE c == ask[a].conn
<1>1. /\ ask[a] \in AskRow /\ AskPinned(a) /\ c \in Connections
      /\ ask[a].row \in Connection /\ conn[c] \in Connection
      /\ UNCHANGED policy /\ Ends(a) /\ crossed \in BOOLEAN
  BY DEF ModelInv, ModelTypeInv, AskPinned, AskRow, Update, TestPasses, TestFails, Delete
<1>2. /\ ask' \in [Admins -> AskRow]
      /\ \A b \in Admins : ask'[b] = ask[b] \/ ask'[b].op = "none"
  BY <1>1, RequestEnds, NewTypes
<1>3. ~crossed => (conn[c].verified => conn[c].tested = conn[c].config)
  BY <1>1 DEF ModelInv, VerifiedIsTested
<1> DEFINE verified == ~ask[a].row.verified /\ conn[c].verified
<1>4. CASE Update(a)
  <2> DEFINE row == [conn[c] EXCEPT !.version = ask[a].row.version + 1,
                                    !.verified = verified, !.config = @ + 1]
  <2>1. conn' = [conn EXCEPT ![c] = row] /\ crossed' = (crossed \/ conn[c] # ask[a].row)
    BY <1>4 DEF Update, Crosses, StaleRow
  <2>2. /\ ask[a].row.version \in Nat /\ conn[c].version \in Nat /\ conn[c].config \in Nat
        /\ verified \in BOOLEAN
    BY <1>1 DEF Connection
  <2> HIDE DEF verified, c
  <2>3. /\ row \in Connection /\ row.state = conn[c].state
        /\ row.version = ask[a].row.version + 1 /\ row.verified = verified
    <3> DEFINE old == conn[c]
               version == ask[a].row.version + 1
               config == conn[c].config + 1
    <3>1. old \in Connection /\ version \in Nat /\ config \in Nat
      BY <1>1, <2>2
    <3>2. row = [old EXCEPT !.version = version, !.verified = verified, !.config = config]
      OBVIOUS
    <3> HIDE DEF old, version, config, row
    <3>3. row \in Connection /\ row.state = old.state /\ row.version = version
            /\ row.verified = verified
      BY <2>2, <3>1, <3>2 DEF Connection
    <3>4. QED
      BY <3>3 DEF old, version
  <2> HIDE DEF row
  <2>4. ~crossed' => ask[a].row = conn[c] /\ ~verified
    BY <2>1 DEF verified
  <2>5. ~crossed' => row.version > conn[c].version /\ ~row.verified
    BY <2>2, <2>3, <2>4
  <2>6. QED
    BY <1>1, <1>2, <2>1, <2>3, <2>5, ConnWrites
<1>5. CASE TestPasses(a)
  <2> DEFINE row == [conn[c] EXCEPT !.verified = TRUE, !.tested = ask[a].row.config]
  <2>1. conn' = [conn EXCEPT ![c] = row] /\ crossed' = (crossed \/ conn[c] # ask[a].row)
    BY <1>5 DEF TestPasses, Crosses, StaleRow
  <2>2. /\ row \in Connection /\ row.state = conn[c].state
        /\ row.version = conn[c].version /\ row.config = conn[c].config
        /\ row.tested = ask[a].row.config
    BY <1>1 DEF Connection
  <2> HIDE DEF row, c
  <2>3. QED
    BY <1>1, <1>2, <2>1, <2>2, ConnWrites
<1>6. CASE TestFails(a)
  <2> DEFINE row == [conn[c] EXCEPT !.verified = verified]
  <2>1. conn' = [conn EXCEPT ![c] = row] /\ crossed' = (crossed \/ conn[c] # ask[a].row)
    BY <1>6 DEF TestFails, Crosses, StaleRow
  <2>2. /\ row \in Connection /\ row.state = conn[c].state
        /\ row.version = conn[c].version /\ row.config = conn[c].config
        /\ row.verified = verified
    BY <1>1 DEF Connection
  <2>3. ~crossed' => ~row.verified
    BY <2>1, <2>2
  <2> HIDE DEF row, c
  <2>4. QED
    BY <1>1, <1>2, <2>1, <2>2, <2>3, ConnWrites
<1>7. CASE Delete(a)
  <2> DEFINE row == [conn[c] EXCEPT !.state = "retired"]
  <2>1. conn' = [conn EXCEPT ![c] = row] /\ crossed' = (crossed \/ Uses(c) # ask[a].uses)
          /\ ask[a].uses = {}
    BY <1>1, <1>7 DEF Delete, Crosses, AskPinned
  <2>2. /\ row \in Connection /\ row.state = "retired"
        /\ row.version = conn[c].version /\ row.config = conn[c].config
        /\ row.verified = conn[c].verified /\ row.tested = conn[c].tested
    BY <1>1 DEF Connection
  <2> HIDE DEF row, c
  <2>3. QED
    BY <1>1, <1>2, <1>3, <2>1, <2>2, ConnWrites
<1>8. QED
  BY <1>4, <1>5, <1>6, <1>7

\* A connection is created.
LEMMA ModelCreates ==
  ASSUME ModelInv, NEW c \in Connections, Create(c)
  PROVE  ModelInv'
<1>1. /\ conn[c].state = "absent" /\ conn' = [conn EXCEPT ![c] = NewConnection]
      /\ UNCHANGED <<policy, ask, crossed>>
  BY DEF Create
<1>2. ask \in [Admins -> AskRow] /\ crossed \in BOOLEAN
  BY DEF ModelInv, ModelTypeInv
<1>3. QED
  BY <1>1, <1>2, NewTypes, ConnWrites

\* A policy is activated, or its number was taken.
LEMMA ModelPublishes ==
  ASSUME ModelInv, NEW a \in Admins, Publish(a)
  PROVE  ModelInv'
<1> DEFINE s == ask[a].scene
           base == ask[a].base
           row == [base EXCEPT !.number = ask[a].number + 1]
<1>1. /\ ask[a] \in AskRow /\ AskPinned(a) /\ ask[a].op = "publish" /\ ask[a].number # -1
      /\ UNCHANGED conn /\ Ends(a) /\ crossed \in BOOLEAN
  BY DEF ModelInv, ModelTypeInv, Publish
<1>2. s \in Scenes /\ base \in Policy /\ Pinned(base) /\ ask[a].number \in Nat
  BY <1>1 DEF AskRow, AskPinned
<1>3. /\ row \in Policy /\ row.number = ask[a].number + 1 /\ row.conn = base.conn
      /\ row.version = base.version /\ row.config = base.config
  BY <1>2 DEF Policy
<1>4. \/ /\ policy' = [policy EXCEPT ![s] = row]
         /\ crossed' = (crossed \/ conn[base.conn].state # "live")
      \/ UNCHANGED <<policy, crossed>>
  BY DEF Publish, Activated, Crosses
<1>5. /\ ask' \in [Admins -> AskRow]
      /\ \A b \in Admins : ask'[b] = ask[b] \/ ask'[b].op = "none"
  BY <1>1, RequestEnds, NewTypes
<1> HIDE DEF row, base, s
<1>6. /\ policy' \in [Scenes -> Policy] /\ crossed' \in BOOLEAN /\ (crossed => crossed')
      /\ \A z \in Scenes :
           \/ policy'[z] = policy[z]
           \/ policy'[z] = row /\ (~crossed' => conn[base.conn].state = "live")
  BY <1>1, <1>3, <1>4 DEF ModelInv, ModelTypeInv
<1>7. ModelTypeInv' /\ (~crossed' => VerifiedIsTested')
  BY <1>1, <1>5, <1>6 DEF ModelInv, ModelTypeInv, VerifiedIsTested
<1>8. ASSUME NEW p, Pinned(p) PROVE Pinned(p)'
  BY <1>1, <1>6, <1>8 DEF Pinned
<1>9. ASSUME NEW z \in Scenes PROVE PolicyPinned(z)'
  <2>1. CASE policy'[z] = policy[z]
    <3>1. PolicyPinned(z)
      BY DEF ModelInv
    <3>2. QED
      BY <1>1, <1>6, <1>8, <2>1, <3>1 DEF PolicyPinned
  <2>2. CASE policy'[z] = row /\ (~crossed' => conn[base.conn].state = "live")
    <3>1. Pinned(row)
      BY <1>2, <1>3 DEF Pinned
    <3>2. row.number > 0
      BY <1>2, <1>3
    <3>3. QED
      BY <1>1, <1>3, <1>8, <2>2, <3>1, <3>2 DEF PolicyPinned
  <2>3. QED
    BY <1>6, <2>1, <2>2
<1>10. ASSUME NEW b \in Admins PROVE AskPinned(b)'
  <2>1. AskPinned(b)
    BY DEF ModelInv
  <2>2. QED
    BY <1>5, <1>8, <2>1 DEF AskPinned
<1>11. QED
  BY <1>7, <1>9, <1>10 DEF ModelInv

LEMMA ModelStep == ModelInv /\ [ModelNext]_modelVars => ModelInv'
<1> SUFFICES ASSUME ModelInv, [ModelNext]_modelVars PROVE ModelInv'
  OBVIOUS
<1>1. ASSUME NEW c \in Connections, Create(c) PROVE ModelInv'
  BY <1>1, ModelCreates
<1>2. ASSUME NEW a \in Admins,
             \/ \E c \in Connections : \/ AskUpdate(a, c) \/ AskTest(a, c) \/ AskDelete(a, c)
                                       \/ \E s \in Scenes : AskPublish(a, c, s)
             \/ AskUpgrade(a) \/ AskNumber(a)
      PROVE  ModelInv'
  BY <1>2, ModelReads
<1>3. ASSUME NEW a \in Admins, Update(a) \/ TestPasses(a) \/ TestFails(a) \/ Delete(a)
      PROVE  ModelInv'
  BY <1>3, ModelWrites
<1>4. ASSUME NEW a \in Admins, Publish(a) PROVE ModelInv'
  BY <1>4, ModelPublishes
<1>5. CASE UNCHANGED modelVars
  BY <1>5 DEF modelVars, ModelInv, ModelTypeInv, VerifiedIsTested, PolicyPinned, AskPinned,
              Pinned
<1>6. QED
  BY <1>1, <1>2, <1>3, <1>4, <1>5 DEF ModelNext

\* At any time, all variables of the model settings have their types.
THEOREM ModelTypesCorrect == ModelSpec => []ModelTypeOK
<1>1. ModelInv => ModelTypeOK
  <2> SUFFICES ASSUME ModelInv PROVE ModelTypeOK
    OBVIOUS
  <2>1. \A a \in Admins : ask[a] \in AskRow
    BY DEF ModelInv, ModelTypeInv
  <2>2. QED
    BY <2>1 DEF ModelInv, ModelTypeInv, ModelTypeOK, AskRow
<1>2. QED
  BY ModelBegins, ModelStep, <1>1, PTL DEF ModelSpec

\* Unless two administrators worked on one connection at once, through any updates,
\* tests, deletes and publishes a policy that runs does so on the configuration it
\* was published for, and that one passed its test (the version it is pinned to).
THEOREM PoliciesRunAsPublished == ModelSpec => []RunsAsPublished
<1>1. ModelInv => RunsAsPublished
  BY DEF ModelInv, RunsAsPublished, Runs, PolicyPinned, Pinned, VerifiedIsTested
<1>2. QED
  BY ModelBegins, ModelStep, <1>1, PTL DEF ModelSpec

\* Unless a delete and a publish overlapped, the connection of an active policy is
\* there (ModelConnectionInUseError).
THEOREM PoliciesKeepConnection == ModelSpec => []ActiveKeepsConnection
<1>1. ModelInv => ActiveKeepsConnection
  BY DEF ModelInv, ActiveKeepsConnection, PolicyPinned
<1>2. QED
  BY ModelBegins, ModelStep, <1>1, PTL DEF ModelSpec

\* Whatever overlaps, the active policy of a scene is replaced by one of a greater
\* number only (version is unique in both tables of policies).
THEOREM PoliciesMoveForward == ModelSpec => PolicyMovesForward
<1>1. ASSUME ModelInv, [ModelNext]_modelVars, NEW s \in Scenes, policy'[s] # policy[s]
      PROVE  policy'[s].number > policy[s].number
  <2>1. PICK a \in Admins : Publish(a)
    BY <1>1 DEF ModelNext, modelVars, Create, Asks, AskUpdate, AskTest, AskDelete, AskPublish,
                AskUpgrade, AskNumber, Update, TestPasses, TestFails, Delete
  <2> DEFINE row == [ask[a].base EXCEPT !.number = ask[a].number + 1]
  <2>2. /\ ask[a].number = policy[ask[a].scene].number
        /\ policy' = [policy EXCEPT ![ask[a].scene] = row]
    BY <1>1, <2>1 DEF Publish, Activated
  <2>3. ask[a].scene \in Scenes /\ ask[a].base \in Policy
    BY <1>1 DEF ModelInv, ModelTypeInv, AskRow
  <2>4. row.number = ask[a].number + 1
    BY <2>3 DEF Policy
  <2> HIDE DEF row
  <2>5. s = ask[a].scene /\ policy'[s] = row
    BY <1>1, <2>2, <2>3 DEF ModelInv, ModelTypeInv
  <2>6. policy[s].number \in Nat
    BY <1>1 DEF ModelInv, ModelTypeInv, Policy
  <2>7. QED
    BY <2>2, <2>4, <2>5, <2>6
<1>2. ModelInv /\ [ModelNext]_modelVars =>
        [\A s \in Scenes : policy'[s] # policy[s]
                             => policy'[s].number > policy[s].number]_modelVars
  BY <1>1
<1>3. QED
  BY ModelBegins, ModelStep, <1>2, PTL DEF ModelSpec, PolicyMovesForward

-----------------------------------------------------------------------------
(* Sums over finite sets.                                                  *)

\* A set of natural numbers has a least element; proofs by induction take the
\* least number for which the claim fails.
LEMMA LeastNatural ==
  ASSUME NEW N \in SUBSET Nat, N # {}
  PROVE  \E x \in N : \A y \in N : x <= y
<1>1. PICK x \in N : \A y \in N : <<y, x>> \notin OpToRel(<, Nat)
  BY WFMin, NatLessThanWellFounded
<1>2. \A y \in N : ~ (y < x)
  BY <1>1 DEF OpToRel
<1>3. QED
  BY <1>2

\* Of subsets of a finite set one is the smallest; proofs by induction on a set take
\* the smallest subset for which the claim fails.
LEMMA LeastSubset ==
  ASSUME NEW S, IsFiniteSet(S), NEW B \in SUBSET SUBSET S, B # {}
  PROVE  \E T \in B : \A U \in SUBSET T : U # T => U \notin B
<1> DEFINE sizes == {Cardinality(T) : T \in B}
<1>1. \A T \in SUBSET S : IsFiniteSet(T) /\ Cardinality(T) \in Nat
  BY FS_Subset, FS_CardinalityType
<1>2. PICK n \in sizes : \A m \in sizes : n <= m
  <2>1. sizes \in SUBSET Nat /\ sizes # {}
    BY <1>1
  <2> HIDE DEF sizes
  <2>2. QED
    BY <2>1, LeastNatural
<1>3. PICK T \in B : Cardinality(T) = n
  BY <1>2
<1>4. ASSUME NEW U \in SUBSET T, U # T PROVE U \notin B
  <2>1. IsFiniteSet(T) /\ Cardinality(T) \in Nat /\ Cardinality(U) \in Nat
    BY <1>1, <1>3
  <2>2. Cardinality(U) < Cardinality(T)
    BY <1>4, <2>1, FS_Subset
  <2>3. QED
    BY <1>2, <1>3, <2>1, <2>2
<1>5. QED
  BY <1>3, <1>4

\* The sum over a set, by the sums over its subsets.
Accumulates(f, S, g) ==
  [s \in SUBSET S |-> IF s = {} THEN 0
                      ELSE LET x == CHOOSE x \in s : TRUE IN f[x] + g[s \ {x}]]
SumsOf(f, S) == CHOOSE g : g = Accumulates(f, S, g)

\* The recursion of SumFunctionOnSet is well defined on a finite set.
LEMMA SumsExist ==
  ASSUME NEW f, NEW S, IsFiniteSet(S)
  PROVE  SumsOf(f, S) = Accumulates(f, S, SumsOf(f, S))
<1> DEFINE To(n, g) == \A s \in SUBSET S : Cardinality(s) <= n => g[s] = Accumulates(f, S, g)[s]
           bad == {n \in Nat : ~ \E g : To(n, g)}
<1>1. \A s \in SUBSET S : IsFiniteSet(s) /\ Cardinality(s) \in Nat
  BY FS_Subset, FS_CardinalityType
<1>2. bad = {}
  <2>1. SUFFICES ASSUME bad # {} PROVE FALSE
    OBVIOUS
  <2>2. PICK n \in bad : \A m \in bad : n <= m
    <3>1. bad \in SUBSET Nat
      OBVIOUS
    <3> HIDE DEF bad
    <3>2. QED
      BY <2>1, <3>1, LeastNatural
  <2>3. CASE n = 0
    <3> DEFINE none == [s \in SUBSET S |-> 0]
    <3>1. \A s \in SUBSET S : Cardinality(s) <= 0 => s = {}
      BY <1>1, FS_EmptySet
    <3>2. To(0, none)
      BY <3>1 DEF Accumulates
    <3>3. QED
      BY <2>2, <2>3, <3>2
  <2>4. CASE n # 0
    <3>1. n - 1 \in Nat /\ n - 1 \notin bad
      BY <2>2, <2>4
    <3>2. PICK g : To(n - 1, g)
      BY <3>1
    <3> DEFINE next == Accumulates(f, S, g)
    <3>3. ASSUME NEW s \in SUBSET S, Cardinality(s) <= n
          PROVE  next[s] = Accumulates(f, S, next)[s]
      <4>1. CASE s = {}
        BY <4>1 DEF Accumulates
      <4>2. CASE s # {}
        <5> DEFINE x == CHOOSE x \in s : TRUE
        <5>1. x \in s
          BY <4>2
        <5>2. s \ {x} \in SUBSET S /\ Cardinality(s \ {x}) <= n - 1
          <6>1. IsFiniteSet(s) /\ Cardinality(s) \in Nat /\ n \in Nat
            BY <1>1, <2>2
          <6>2. Cardinality(s \ {x}) = Cardinality(s) - 1
            BY <5>1, <6>1, FS_RemoveElement
          <6>3. QED
            BY <3>3, <6>1, <6>2
        <5>3. g[s \ {x}] = next[s \ {x}]
          BY <3>2, <5>2
        <5> HIDE DEF next
        <5>4. Accumulates(f, S, next)[s] = f[x] + next[s \ {x}]
          BY <4>2 DEF Accumulates
        <5>5. next[s] = f[x] + g[s \ {x}]
          BY <4>2 DEF Accumulates, next
        <5>6. QED
          BY <5>3, <5>4, <5>5
      <4>3. QED
        BY <4>1, <4>2
    <3>4. To(n, next)
      BY <3>3
    <3>5. QED
      BY <2>2, <3>4
  <2>5. QED
    BY <2>3, <2>4
<1>3. PICK g : To(Cardinality(S), g)
  <2>1. Cardinality(S) \in Nat
    BY FS_CardinalityType
  <2>2. QED
    BY <1>2, <2>1
<1> DEFINE h == Accumulates(f, S, g)
<1>4. \A s \in SUBSET S : g[s] = h[s]
  BY <1>3, FS_Subset
<1>5. h = Accumulates(f, S, h)
  <2>1. ASSUME NEW s \in SUBSET S PROVE h[s] = Accumulates(f, S, h)[s]
    <3>1. CASE s = {}
      BY <3>1 DEF Accumulates
    <3>2. CASE s # {}
      <4> DEFINE x == CHOOSE x \in s : TRUE
      <4>1. s \ {x} \in SUBSET S
        OBVIOUS
      <4>2. g[s \ {x}] = h[s \ {x}]
        BY <1>4, <4>1
      <4>3. h[s] = f[x] + g[s \ {x}]
        BY <3>2 DEF Accumulates
      <4> HIDE DEF h
      <4>4. Accumulates(f, S, h)[s] = f[x] + h[s \ {x}]
        BY <3>2 DEF Accumulates
      <4>5. QED
        BY <4>2, <4>3, <4>4
    <3>3. QED
      BY <3>1, <3>2
  <2>2. h = [s \in SUBSET S |-> h[s]]
    BY DEF Accumulates
  <2>3. Accumulates(f, S, h) = [s \in SUBSET S |-> Accumulates(f, S, h)[s]]
    BY DEF Accumulates
  <2> HIDE DEF h
  <2>4. QED
    BY <2>1, <2>2, <2>3
<1> HIDE DEF h
<1>6. QED
  BY <1>5 DEF SumsOf

\* The sum over no elements, and over some: the chosen one and the rest.
LEMMA SumSteps ==
  ASSUME NEW f, NEW S, IsFiniteSet(S)
  PROVE  /\ SumFunctionOnSet(f, {}) = 0
         /\ S # {} => LET x == CHOOSE x \in S : TRUE
                      IN  SumFunctionOnSet(f, S) = f[x] + SumFunctionOnSet(f, S \ {x})
<1>1. ASSUME NEW T PROVE SumFunctionOnSet(f, T) = SumsOf(f, T)[T]
  BY DEF SumFunctionOnSet, FoldFunctionOnSet, MapThenFoldSet, SumsOf, Accumulates
<1>2. ASSUME NEW T \in SUBSET S, NEW U \in SUBSET T
      PROVE  SumsOf(f, T)[U] = IF U = {} THEN 0
                               ELSE LET x == CHOOSE x \in U : TRUE
                                    IN  f[x] + SumsOf(f, T)[U \ {x}]
  <2>1. SumsOf(f, T) = Accumulates(f, T, SumsOf(f, T))
    BY FS_Subset, SumsExist
  <2>2. QED
    BY <2>1 DEF Accumulates
<1>3. ASSUME NEW T \in SUBSET S, NEW U \in SUBSET T PROVE SumsOf(f, T)[U] = SumsOf(f, S)[U]
  <2> DEFINE bad == {V \in SUBSET T : SumsOf(f, T)[V] # SumsOf(f, S)[V]}
  <2>1. bad = {}
    <3>1. SUFFICES ASSUME bad # {} PROVE FALSE
      OBVIOUS
    <3>2. PICK V \in bad : \A W \in SUBSET V : W # V => W \notin bad
      <4>1. bad \in SUBSET SUBSET T /\ IsFiniteSet(T)
        BY FS_Subset
      <4> HIDE DEF bad
      <4>2. QED
        BY <3>1, <4>1, LeastSubset
    <3>3. V # {} /\ V \in SUBSET T /\ V \in SUBSET S
      BY <1>2, <3>2
    <3> DEFINE x == CHOOSE x \in V : TRUE
    <3>4. x \in V /\ V \ {x} \notin bad /\ V \ {x} \in SUBSET T
      BY <3>2, <3>3
    <3>5. SumsOf(f, T)[V] = f[x] + SumsOf(f, T)[V \ {x}]
      BY <1>2, <3>3
    <3>6. SumsOf(f, S)[V] = f[x] + SumsOf(f, S)[V \ {x}]
      BY <1>2, <3>3
    <3> HIDE DEF x
    <3>7. QED
      BY <3>2, <3>4, <3>5, <3>6
  <2>2. QED
    BY <2>1
<1>4. SumFunctionOnSet(f, {}) = 0
  BY <1>1, <1>2
<1>5. ASSUME S # {}
      PROVE  LET x == CHOOSE x \in S : TRUE
             IN  SumFunctionOnSet(f, S) = f[x] + SumFunctionOnSet(f, S \ {x})
  <2> DEFINE x == CHOOSE x \in S : TRUE
  <2>1. SumsOf(f, S)[S] = f[x] + SumsOf(f, S)[S \ {x}]
    BY <1>2, <1>5
  <2>2. SumsOf(f, S \ {x})[S \ {x}] = SumsOf(f, S)[S \ {x}]
    BY <1>3
  <2> HIDE DEF x
  <2>3. SumFunctionOnSet(f, S) = f[x] + SumFunctionOnSet(f, S \ {x})
    BY <1>1, <2>1, <2>2
  <2>4. QED
    BY <2>3 DEF x
<1>6. QED
  BY <1>4, <1>5

LEMMA SumEmpty == \A f : SumFunctionOnSet(f, {}) = 0
<1>1. ASSUME NEW f PROVE SumFunctionOnSet(f, {}) = 0
  <2>1. IsFiniteSet({})
    BY FS_EmptySet
  <2>2. QED
    BY <2>1, SumSteps
<1>2. QED
  BY <1>1

\* A sum of natural numbers.
LEMMA SumNat ==
  ASSUME NEW f, NEW S, IsFiniteSet(S), \A x \in S : f[x] \in Nat
  PROVE  \A T \in SUBSET S : SumFunctionOnSet(f, T) \in Nat
<1> DEFINE bad == {T \in SUBSET S : SumFunctionOnSet(f, T) \notin Nat}
<1>1. SUFFICES ASSUME bad # {} PROVE FALSE
  OBVIOUS
<1>2. PICK T \in bad : \A U \in SUBSET T : U # T => U \notin bad
  <2>1. bad \in SUBSET SUBSET S
    OBVIOUS
  <2> HIDE DEF bad
  <2>2. QED
    BY <1>1, <2>1, LeastSubset
<1>3. IsFiniteSet(T) /\ T # {} /\ T \in SUBSET S
  <2>1. T \in SUBSET S /\ IsFiniteSet(T)
    BY <1>2, FS_Subset
  <2>2. SumFunctionOnSet(f, {}) \in Nat
    BY SumEmpty
  <2>3. QED
    BY <1>2, <2>1, <2>2
<1> DEFINE x == CHOOSE x \in T : TRUE
<1>4. x \in T /\ SumFunctionOnSet(f, T) = f[x] + SumFunctionOnSet(f, T \ {x})
  BY <1>3, SumSteps
<1>5. f[x] \in Nat /\ SumFunctionOnSet(f, T \ {x}) \in Nat
  BY <1>2, <1>3, <1>4
<1> HIDE DEF x
<1>6. QED
  BY <1>2, <1>4, <1>5

\* In a sum of natural numbers any element may come first.
LEMMA SumRemove ==
  ASSUME NEW f, NEW S, IsFiniteSet(S), \A x \in S : f[x] \in Nat
  PROVE  \A T \in SUBSET S : \A y \in T :
           SumFunctionOnSet(f, T) = f[y] + SumFunctionOnSet(f, T \ {y})
<1> DEFINE bad == {T \in SUBSET S : \E y \in T :
                     SumFunctionOnSet(f, T) # f[y] + SumFunctionOnSet(f, T \ {y})}
<1>1. SUFFICES ASSUME bad # {} PROVE FALSE
  OBVIOUS
<1>2. PICK T \in bad : \A U \in SUBSET T : U # T => U \notin bad
  <2>1. bad \in SUBSET SUBSET S
    OBVIOUS
  <2> HIDE DEF bad
  <2>2. QED
    BY <1>1, <2>1, LeastSubset
<1>3. PICK y \in T : SumFunctionOnSet(f, T) # f[y] + SumFunctionOnSet(f, T \ {y})
  BY <1>2
<1>4. IsFiniteSet(T) /\ T # {} /\ T \in SUBSET S
  BY <1>2, <1>3, FS_Subset
<1> DEFINE x == CHOOSE x \in T : TRUE
<1>5. x \in T /\ SumFunctionOnSet(f, T) = f[x] + SumFunctionOnSet(f, T \ {x})
  BY <1>4, SumSteps
<1> HIDE DEF x
<1>6. x # y
  BY <1>3, <1>5
<1>7. /\ SumFunctionOnSet(f, T \ {x}) = f[y] + SumFunctionOnSet(f, (T \ {x}) \ {y})
      /\ SumFunctionOnSet(f, T \ {y}) = f[x] + SumFunctionOnSet(f, (T \ {y}) \ {x})
  BY <1>2, <1>4, <1>5, <1>6
<1>8. (T \ {x}) \ {y} = (T \ {y}) \ {x}
  OBVIOUS
<1>9. f[x] \in Nat /\ f[y] \in Nat /\ SumFunctionOnSet(f, (T \ {x}) \ {y}) \in Nat
  BY <1>4, <1>5, SumNat
<1>10. QED
  BY <1>3, <1>5, <1>7, <1>8, <1>9

\* The sum of sums.
LEMMA SumPlus ==
  ASSUME NEW f, NEW g, NEW h, NEW S, IsFiniteSet(S),
         \A x \in S : f[x] \in Nat /\ g[x] \in Nat /\ h[x] = f[x] + g[x]
  PROVE  SumFunctionOnSet(h, S) = SumFunctionOnSet(f, S) + SumFunctionOnSet(g, S)
<1> DEFINE bad == {T \in SUBSET S :
              SumFunctionOnSet(h, T) # SumFunctionOnSet(f, T) + SumFunctionOnSet(g, T)}
<1>1. SUFFICES ASSUME bad # {} PROVE FALSE
  OBVIOUS
<1>2. PICK T \in bad : \A U \in SUBSET T : U # T => U \notin bad
  <2>1. bad \in SUBSET SUBSET S
    OBVIOUS
  <2> HIDE DEF bad
  <2>2. QED
    BY <1>1, <2>1, LeastSubset
<1>3. T # {}
  <2>1. /\ SumFunctionOnSet(f, {}) = 0 /\ SumFunctionOnSet(g, {}) = 0
        /\ SumFunctionOnSet(h, {}) = 0
    BY SumEmpty
  <2>2. SumFunctionOnSet(h, {}) = SumFunctionOnSet(f, {}) + SumFunctionOnSet(g, {})
    BY <2>1
  <2>3. QED
    BY <1>2, <2>2, Zenon
<1>4. PICK y \in T : TRUE
  BY <1>3
<1>5. T \in SUBSET S /\ T \ {y} \in SUBSET S /\ T \ {y} \notin bad
  BY <1>2, <1>4
<1>6. \A x \in S : h[x] \in Nat
  OBVIOUS
<1>7. /\ SumFunctionOnSet(f, T) = f[y] + SumFunctionOnSet(f, T \ {y})
      /\ SumFunctionOnSet(g, T) = g[y] + SumFunctionOnSet(g, T \ {y})
      /\ SumFunctionOnSet(h, T) = h[y] + SumFunctionOnSet(h, T \ {y})
  BY <1>4, <1>5, <1>6, SumRemove
<1>8. /\ SumFunctionOnSet(f, T \ {y}) \in Nat /\ SumFunctionOnSet(g, T \ {y}) \in Nat
      /\ SumFunctionOnSet(h, T \ {y}) \in Nat
  BY <1>5, <1>6, SumNat
<1>9. h[y] = f[y] + g[y] /\ f[y] \in Nat /\ g[y] \in Nat
  BY <1>4, <1>5
<1>10. QED
  BY <1>2, <1>5, <1>7, <1>8, <1>9

\* The sum of the c-fold.
LEMMA SumTimes ==
  ASSUME NEW f, NEW g, NEW S, IsFiniteSet(S), NEW c \in Nat,
         \A x \in S : f[x] \in Nat /\ g[x] = c * f[x]
  PROVE  SumFunctionOnSet(g, S) = c * SumFunctionOnSet(f, S)
<1> DEFINE bad == {T \in SUBSET S : SumFunctionOnSet(g, T) # c * SumFunctionOnSet(f, T)}
<1>1. SUFFICES ASSUME bad # {} PROVE FALSE
  OBVIOUS
<1>2. PICK T \in bad : \A U \in SUBSET T : U # T => U \notin bad
  <2>1. bad \in SUBSET SUBSET S
    OBVIOUS
  <2> HIDE DEF bad
  <2>2. QED
    BY <1>1, <2>1, LeastSubset
<1>3. T # {}
  <2>1. /\ SumFunctionOnSet(f, {}) = 0 /\ SumFunctionOnSet(g, {}) = 0 /\ c * 0 = 0
    BY SumEmpty
  <2>2. QED
    BY <1>2, <2>1
<1>4. PICK y \in T : TRUE
  BY <1>3
<1>5. T \in SUBSET S /\ T \ {y} \in SUBSET S /\ T \ {y} \notin bad
  BY <1>2, <1>4
<1>6. \A x \in S : g[x] \in Nat
  OBVIOUS
<1>7. /\ SumFunctionOnSet(f, T) = f[y] + SumFunctionOnSet(f, T \ {y})
      /\ SumFunctionOnSet(g, T) = g[y] + SumFunctionOnSet(g, T \ {y})
  BY <1>4, <1>5, <1>6, SumRemove
<1>8. SumFunctionOnSet(f, T \ {y}) \in Nat /\ SumFunctionOnSet(g, T \ {y}) \in Nat
  BY <1>5, <1>6, SumNat
<1>9. g[y] = c * f[y] /\ f[y] \in Nat
  BY <1>4, <1>5
<1>10. \A a, b \in Nat : c * (a + b) = c * a + c * b
  OBVIOUS
<1>11. QED
  BY <1>2, <1>5, <1>7, <1>8, <1>9, <1>10

\* A sum of ones and zeros counts the ones; elsewhere the sum is that of the rest.
LEMMA SumCounts ==
  ASSUME NEW f, NEW S, IsFiniteSet(S), NEW O \in SUBSET S,
         \A x \in S : f[x] = IF x \in O THEN 1 ELSE 0
  PROVE  SumFunctionOnSet(f, S) = Cardinality(O)
<1> DEFINE bad == {T \in SUBSET S : SumFunctionOnSet(f, T) # Cardinality(O \intersect T)}
<1>1. SUFFICES ASSUME bad # {} PROVE FALSE
  <2>1. O \intersect S = O
    OBVIOUS
  <2>2. QED
    BY <2>1
<1>2. PICK T \in bad : \A U \in SUBSET T : U # T => U \notin bad
  <2>1. bad \in SUBSET SUBSET S
    OBVIOUS
  <2> HIDE DEF bad
  <2>2. QED
    BY <1>1, <2>1, LeastSubset
<1>3. T # {}
  <2>1. O \intersect {} = {}
    OBVIOUS
  <2>2. QED
    BY <1>2, <2>1, SumEmpty, FS_EmptySet
<1>4. PICK y \in T : TRUE
  BY <1>3
<1>5. T \in SUBSET S /\ T \ {y} \in SUBSET S /\ T \ {y} \notin bad
  BY <1>2, <1>4
<1>6. \A x \in S : f[x] \in Nat
  OBVIOUS
<1>7. SumFunctionOnSet(f, T) = f[y] + SumFunctionOnSet(f, T \ {y})
  BY <1>4, <1>5, <1>6, SumRemove
<1>8. /\ IsFiniteSet(O \intersect T) /\ Cardinality(O \intersect T) \in Nat
      /\ O \intersect (T \ {y}) = (O \intersect T) \ {y}
  BY <1>5, FS_Subset, FS_CardinalityType
<1>9. Cardinality((O \intersect T) \ {y})
        = IF y \in O THEN Cardinality(O \intersect T) - 1 ELSE Cardinality(O \intersect T)
  BY <1>4, <1>8, FS_RemoveElement
<1>10. SumFunctionOnSet(f, T \ {y}) = Cardinality((O \intersect T) \ {y})
  BY <1>5, <1>8
<1>11. f[y] = IF y \in O THEN 1 ELSE 0
  BY <1>4, <1>5
<1>12. SumFunctionOnSet(f, T) # Cardinality(O \intersect T)
  BY <1>2
<1>13. QED
  BY <1>7, <1>8, <1>9, <1>10, <1>11, <1>12

\* Elements that are zero add nothing.
LEMMA SumOfSome ==
  ASSUME NEW f, NEW g, NEW S, IsFiniteSet(S), NEW P \in SUBSET S,
         \A x \in S : g[x] \in Nat, \A x \in S \ P : g[x] = 0, \A x \in P : g[x] = f[x]
  PROVE  SumFunctionOnSet(g, S) = SumFunctionOnSet(f, P)
<1> DEFINE bad == {T \in SUBSET S :
                     SumFunctionOnSet(g, T) # SumFunctionOnSet(f, P \intersect T)}
<1>1. SUFFICES ASSUME bad # {} PROVE FALSE
  <2>1. P \intersect S = P
    OBVIOUS
  <2>2. QED
    BY <2>1
<1>2. PICK T \in bad : \A U \in SUBSET T : U # T => U \notin bad
  <2>1. bad \in SUBSET SUBSET S
    OBVIOUS
  <2> HIDE DEF bad
  <2>2. QED
    BY <1>1, <2>1, LeastSubset
<1>3. T # {}
  <2>1. P \intersect {} = {}
    OBVIOUS
  <2>2. QED
    BY <1>2, <2>1, SumEmpty
<1>4. PICK y \in T : TRUE
  BY <1>3
<1>5. T \in SUBSET S /\ T \ {y} \in SUBSET S /\ T \ {y} \notin bad
  BY <1>2, <1>4
<1>6. SumFunctionOnSet(g, T) = g[y] + SumFunctionOnSet(g, T \ {y})
  BY <1>4, <1>5, SumRemove
<1>7. SumFunctionOnSet(g, T \ {y}) = SumFunctionOnSet(f, (P \intersect T) \ {y})
  <2>1. P \intersect (T \ {y}) = (P \intersect T) \ {y}
    OBVIOUS
  <2>2. QED
    BY <1>5, <2>1
<1>8. IsFiniteSet(P) /\ \A x \in P : f[x] \in Nat
  BY FS_Subset
<1>9. CASE y \in P
  <2>1. P \intersect T \in SUBSET P /\ y \in P \intersect T
    BY <1>4, <1>9
  <2>2. SumFunctionOnSet(f, P \intersect T) = f[y] + SumFunctionOnSet(f, (P \intersect T) \ {y})
    BY <1>8, <2>1, SumRemove
  <2>3. QED
    BY <1>2, <1>6, <1>7, <1>9, <2>2
<1>10. CASE y \notin P
  <2>1. (P \intersect T) \ {y} = P \intersect T /\ g[y] = 0
    BY <1>4, <1>5, <1>10
  <2>2. SumFunctionOnSet(g, T \ {y}) \in Nat
    BY <1>5, SumNat
  <2>3. QED
    BY <1>2, <1>6, <1>7, <2>1, <2>2
<1>11. QED
  BY <1>9, <1>10

\* A sum of numbers below c.
LEMMA SumBelow ==
  ASSUME NEW f, NEW S, IsFiniteSet(S), NEW c \in Nat, \A x \in S : f[x] \in Nat /\ f[x] < c
  PROVE  \A T \in SUBSET S : T # {} => SumFunctionOnSet(f, T) < c * Cardinality(T)
<1> DEFINE bad == {T \in SUBSET S :
                     T # {} /\ ~(SumFunctionOnSet(f, T) < c * Cardinality(T))}
<1>1. SUFFICES ASSUME bad # {} PROVE FALSE
  OBVIOUS
<1>2. PICK T \in bad : \A U \in SUBSET T : U # T => U \notin bad
  <2>1. bad \in SUBSET SUBSET S
    OBVIOUS
  <2> HIDE DEF bad
  <2>2. QED
    BY <1>1, <2>1, LeastSubset
<1>3. T # {} /\ T \in SUBSET S /\ IsFiniteSet(T) /\ Cardinality(T) \in Nat
  BY <1>2, FS_Subset, FS_CardinalityType
<1>4. PICK y \in T : TRUE
  BY <1>3
<1>5. T \ {y} \notin bad /\ T \ {y} \in SUBSET S /\ f[y] \in Nat /\ f[y] < c
  BY <1>2, <1>3, <1>4
<1>6. /\ SumFunctionOnSet(f, T) = f[y] + SumFunctionOnSet(f, T \ {y})
      /\ SumFunctionOnSet(f, T \ {y}) \in Nat
  BY <1>3, <1>4, <1>5, SumRemove, SumNat
<1>7. IsFiniteSet(T \ {y}) /\ Cardinality(T \ {y}) = Cardinality(T) - 1
        /\ Cardinality(T \ {y}) \in Nat
  BY <1>3, <1>4, FS_RemoveElement, FS_CardinalityType
<1>8. c * Cardinality(T) = c * Cardinality(T \ {y}) + c /\ c * Cardinality(T \ {y}) \in Nat
  <2>1. \A n \in Nat : c * (n + 1) = c * n + c /\ c * n \in Nat
    OBVIOUS
  <2>2. Cardinality(T) = Cardinality(T \ {y}) + 1
    BY <1>3, <1>7
  <2>3. QED
    BY <1>7, <2>1, <2>2
<1>9. SumFunctionOnSet(f, T \ {y}) <= c * Cardinality(T \ {y})
  <2>1. CASE T \ {y} = {}
    BY <1>6, <1>8, <2>1, SumEmpty
  <2>2. CASE T \ {y} # {}
    BY <1>5, <1>6, <1>8, <2>2
  <2>3. QED
    BY <2>1, <2>2
<1>10. QED
  BY <1>2, <1>5, <1>6, <1>8, <1>9

\* Quotient and remainder are unique.
LEMMA Quotient ==
  ASSUME NEW T \in Nat, T > 0, NEW q \in Nat, NEW p \in Nat, NEW r \in 0..(T - 1),
         NEW s \in 0..(T - 1), T * q + r = T * p + s
  PROVE  q = p /\ r = s
<1>1. ASSUME NEW x \in Nat, NEW y \in Nat, NEW u \in 0..(T - 1), NEW v \in 0..(T - 1), x < y
      PROVE  T * x + u < T * y + v
  <2>1. PICK d \in Nat : y = x + 1 + d
    BY <1>1, y - x - 1 \in Nat
  <2>2. T * y = T * x + T + T * d /\ T * d \in Nat /\ T * x \in Nat
    BY <2>1
  <2>3. QED
    BY <2>2
<1>2. ~(q < p) /\ ~(p < q)
  <2>1. T * q + r \in Nat /\ T * p + s \in Nat
    OBVIOUS
  <2>2. QED
    BY <1>1, <2>1
<1>3. QED
  BY <1>2

\* The next remainder.
LEMMA NextRemainder ==
  ASSUME NEW x \in Nat, NEW T \in Nat, T > 0
  PROVE  (x + 1) % T = IF x % T = T - 1 THEN 0 ELSE (x % T) + 1
<1>1. /\ x = T * (x \div T) + (x % T) /\ x \div T \in Nat /\ x % T \in 0..(T - 1)
      /\ x + 1 = T * ((x + 1) \div T) + ((x + 1) % T) /\ (x + 1) \div T \in Nat
      /\ (x + 1) % T \in 0..(T - 1)
  BY SMT
<1> DEFINE q == x \div T
           r == x % T
           p == (x + 1) \div T
           s == (x + 1) % T
<1>2. q \in Nat /\ p \in Nat /\ r \in 0..(T - 1) /\ s \in 0..(T - 1)
      /\ T * p + s = T * q + (r + 1)
  BY <1>1
<1> HIDE DEF q, r, p, s
<1>3. CASE r = T - 1
  <2>1. T * p + s = T * (q + 1) + 0
    BY <1>2, <1>3
  <2>2. 0 \in 0..(T - 1) /\ q + 1 \in Nat
    BY <1>2
  <2>3. s = 0
    BY <1>2, <2>1, <2>2, Quotient
  <2>4. QED
    BY <1>3, <2>3 DEF s, r
<1>4. CASE r # T - 1
  <2>1. r + 1 \in 0..(T - 1)
    BY <1>2, <1>4
  <2>2. s = r + 1
    BY <1>2, <2>1, Quotient
  <2>3. QED
    BY <1>4, <2>2 DEF s, r
<1>5. QED
  BY <1>3, <1>4

-----------------------------------------------------------------------------
(* The elements of a finite set in a strict order.                         *)

\* before[x] are those before x; of the first n there are n.
LEMMA FirstOnes ==
  ASSUME NEW S, IsFiniteSet(S), NEW before \in [S -> SUBSET S],
         \A x \in S : x \notin before[x],
         \A x, y \in S : x \in before[y] => before[x] \subseteq before[y],
         \A x, y \in S : x # y => x \in before[y] \/ y \in before[x],
         NEW n \in 0..Cardinality(S)
  PROVE  Cardinality({x \in S : Cardinality(before[x]) < n}) = n
<1> DEFINE size == Cardinality(S)
           rank == [x \in S |-> Cardinality(before[x])]
           first == {x \in S : rank[x] < n}
<1>1. size \in Nat
  BY FS_CardinalityType
<1>2. ASSUME NEW x \in S PROVE IsFiniteSet(before[x]) /\ rank[x] \in 0..(size - 1)
  <2>1. before[x] \in SUBSET S /\ before[x] # S
    OBVIOUS
  <2>2. /\ IsFiniteSet(before[x]) /\ Cardinality(before[x]) <= size
        /\ Cardinality(before[x]) # size /\ Cardinality(before[x]) \in Nat
    BY <2>1, FS_Subset, FS_CardinalityType
  <2>3. QED
    BY <1>1, <2>2
<1>3. ASSUME NEW x \in S, NEW y \in S, x \in before[y] PROVE rank[x] < rank[y]
  <2>1. before[x] \in SUBSET before[y] /\ before[x] # before[y]
    BY <1>3
  <2>2. /\ Cardinality(before[x]) <= Cardinality(before[y])
        /\ Cardinality(before[x]) # Cardinality(before[y])
    BY <1>2, <2>1, FS_Subset
  <2>3. rank[x] \in Nat /\ rank[y] \in Nat
    BY <1>2
  <2>4. QED
    BY <2>2, <2>3
<1>4. rank \in [S -> 0..(size - 1)] /\ \A x \in S : rank[x] \in Nat
  BY <1>2
<1> HIDE DEF rank
<1>5. \A x, y \in S : rank[x] = rank[y] => x = y
  BY <1>3, <1>4
<1>6. rank \in Surjection(S, 0..(size - 1))
  <2>1. rank \in Injection(S, 0..(size - 1))
    BY <1>4, <1>5 DEF Injection, IsInjective
  <2>2. IsFiniteSet(0..(size - 1)) /\ Cardinality(0..(size - 1)) = size
    <3>1. size - 1 \in Int
      BY <1>1
    <3>2. /\ IsFiniteSet(0..(size - 1))
          /\ Cardinality(0..(size - 1)) = IF 0 > size - 1 THEN 0 ELSE (size - 1) - 0 + 1
      BY <3>1, FS_Interval
    <3>3. QED
      BY <1>1, <3>2
  <2>3. QED
    BY <2>1, <2>2, FS_Injection
<1> DEFINE some == [x \in first |-> rank[x]]
<1>7. some \in Injection(first, 0..(n - 1))
  <2>1. some \in [first -> 0..(n - 1)]
    BY <1>4
  <2>2. \A x, y \in first : some[x] = some[y] => x = y
    BY <1>5
  <2> HIDE DEF some, first
  <2>3. QED
    BY <2>1, <2>2 DEF Injection, IsInjective
<1>8. some \in Surjection(first, 0..(n - 1))
  <2>1. ASSUME NEW m \in 0..(n - 1) PROVE \E x \in first : some[x] = m
    <3>1. m \in 0..(size - 1)
      BY <1>1
    <3>2. PICK x \in S : rank[x] = m
      BY <1>6, <3>1 DEF Surjection
    <3>3. QED
      BY <3>2
  <2> HIDE DEF some, first
  <2>2. QED
    BY <1>7, <2>1 DEF Surjection, Injection
<1>9. IsFiniteSet(0..(n - 1)) /\ Cardinality(0..(n - 1)) = n
  <2>1. /\ IsFiniteSet(0..(n - 1))
        /\ Cardinality(0..(n - 1)) = IF 0 > n - 1 THEN 0 ELSE (n - 1) - 0 + 1
    BY FS_Interval
  <2>2. QED
    BY <2>1
<1> HIDE DEF some
<1>10. Cardinality(first) = n
  BY <1>7, <1>8, <1>9, FS_Injection
<1>11. first = {x \in S : Cardinality(before[x]) < n}
  BY DEF rank
<1>12. QED
  BY <1>10, <1>11

-----------------------------------------------------------------------------
(* StyleRotation.                                                          *)

\* What a policy has of its styles.
PolicyTypes == count \in [Styles -> 0..MaxCount] /\ templates \in [Styles -> 1..MaxTemplates]

\* An allocation as AllocationFair has it.
Fair(selected, images) ==
  /\ SumFunctionOnSet(images, Styles) = Count(Enabled)
  /\ \A s \in Styles : images[s] >= 1 <=> s \in selected
  /\ \A s \in selected :
       LET off == (images[s] - 1) * Count(selected) - Spare(selected) * count[s]
       IN  -Count(selected) < off /\ off < Count(selected)

\* The counts of styles.
LEMMA Counts ==
  ASSUME PolicyTypes
  PROVE  /\ IsFiniteSet(Styles) /\ \A s \in Styles : count[s] \in Nat
         /\ \A S \in SUBSET Styles : Count(S) \in Nat /\ \A s \in S : count[s] <= Count(S)
<1>1. IsFiniteSet(Styles) /\ \A s \in Styles : count[s] \in Nat
  BY RotationAssumption DEF PolicyTypes
<1>2. \A S \in SUBSET Styles : Count(S) \in Nat
  BY <1>1, SumNat DEF Count
<1>3. ASSUME NEW S \in SUBSET Styles, NEW s \in S PROVE count[s] <= Count(S)
  <2>1. Count(S) = count[s] + Count(S \ {s})
    BY <1>1, SumRemove DEF Count
  <2>2. Count(S \ {s}) \in Nat /\ count[s] \in Nat
    BY <1>1, <1>2
  <2>3. QED
    BY <2>1, <2>2
<1>4. QED
  BY <1>1, <1>2, <1>3

\* _style_allocation gives away every image, in whole shares and the remainders'
\* extra ones, of which there are fewer than remainders.
LEMMA AllocationIsFair ==
  ASSUME PolicyTypes, NEW selected \in SUBSET Enabled, selected # {},
         Cardinality(selected) <= Count(Enabled)
  PROVE  /\ Allocation(selected) \in [Styles -> Nat]
         /\ Fair(selected, Allocation(selected))
<1> DEFINE c == Count(selected)
           spare == Spare(selected)
           share == [s \in selected |-> Share(selected, s)]
           rest == [s \in selected |-> Remainder(selected, s)]
           shares == SumFunctionOnSet(share, selected)
           rests == SumFunctionOnSet(rest, selected)
           extra == spare - shares
           partial == {s \in selected : rest[s] > 0}
           before == [s \in selected |->
                        {t \in selected : rest[t] > rest[s] \/ (rest[t] = rest[s] /\ t < s)}]
           first == {s \in selected : Cardinality(before[s]) < extra}
<1>1. /\ selected \in SUBSET Styles /\ Enabled \in SUBSET Styles /\ IsFiniteSet(Styles)
      /\ \A s \in Styles : s \in Nat
      /\ IsFiniteSet(selected) /\ Cardinality(selected) \in Nat
      /\ \A s \in selected : count[s] \in Nat
  <2>1. selected \in SUBSET Styles /\ Enabled \in SUBSET Styles
    BY DEF Enabled
  <2>2. QED
    BY <2>1, Counts, FS_Subset, FS_CardinalityType, RotationAssumption
<1>2. c \in Nat /\ c > 0 /\ spare \in Nat /\ Count(Enabled) \in Nat
      /\ Count(Enabled) = Cardinality(selected) + spare
  <2>1. PICK s \in selected : TRUE
    OBVIOUS
  <2>2. count[s] > 0 /\ count[s] \in Nat
    BY <1>1 DEF Enabled
  <2>3. c \in Nat /\ count[s] <= c /\ Count(Enabled) \in Nat
    BY <1>1, Counts
  <2>4. QED
    BY <1>1, <2>2, <2>3 DEF Spare
<1>3. ASSUME NEW s \in selected
      PROVE  /\ share[s] \in Nat /\ rest[s] \in Nat /\ rest[s] < c
             /\ spare * count[s] \in Nat /\ spare * count[s] = c * share[s] + rest[s]
  <2> DEFINE x == spare * count[s]
  <2>1. share[s] = x \div c /\ rest[s] = x % c
    BY DEF Share, Remainder
  <2>2. count[s] \in Nat
    BY <1>1
  <2> HIDE DEF c, spare, share, rest
  <2>3. x \in Nat
    BY <1>2, <2>2
  <2> HIDE DEF x
  <2>4. x \div c \in Nat /\ x % c \in Nat /\ x % c < c /\ x = c * (x \div c) + (x % c)
    BY <1>2, <2>3
  <2>5. QED
    BY <2>1, <2>3, <2>4 DEF x
<1> HIDE DEF share, rest
<1>4. shares \in Nat /\ rests \in Nat
  BY <1>1, <1>3, SumNat
<1>5. c * extra = rests /\ extra \in Nat
  <2> DEFINE parts == [s \in selected |-> spare * count[s]]
             scaled == [s \in selected |-> c * share[s]]
  <2>1. SumFunctionOnSet(parts, selected) = spare * c
    <3>1. \A s \in selected : count[s] \in Nat /\ parts[s] = spare * count[s]
      BY <1>1
    <3> HIDE DEF parts, spare
    <3>2. SumFunctionOnSet(parts, selected) = spare * SumFunctionOnSet(count, selected)
      BY <1>1, <1>2, <3>1, SumTimes
    <3>3. QED
      BY <3>2 DEF Count
  <2>2. SumFunctionOnSet(scaled, selected) = c * shares
    <3>1. \A s \in selected : share[s] \in Nat /\ scaled[s] = c * share[s]
      BY <1>3
    <3> HIDE DEF scaled, c
    <3>2. QED
      BY <1>1, <1>2, <3>1, SumTimes
  <2>3. SumFunctionOnSet(parts, selected) = SumFunctionOnSet(scaled, selected) + rests
    <3>1. \A s \in selected : /\ scaled[s] \in Nat /\ rest[s] \in Nat
                              /\ parts[s] = scaled[s] + rest[s]
      <4> HIDE DEF c, spare
      <4>1. QED
        BY <1>2, <1>3
    <3> HIDE DEF scaled, parts
    <3>2. QED
      BY <1>1, <3>1, SumPlus
  <2> HIDE DEF parts, scaled, shares, rests, c, spare
  <2>4. spare * c = c * shares + rests
    BY <2>1, <2>2, <2>3
  <2>5. c * (spare - shares) = rests
    BY <1>2, <1>4, <2>4
  <2>6. spare - shares >= 0
    <3>1. SUFFICES ASSUME spare - shares < 0 PROVE FALSE
      BY <1>2, <1>4
    <3>2. c * (spare - shares) < 0
      BY <1>2, <1>4, <3>1
    <3>3. QED
      BY <1>4, <2>5, <3>2
  <2>7. QED
    BY <1>2, <1>4, <2>5, <2>6
<1> HIDE DEF shares, rests, c, spare
<1>6. /\ partial = {} => extra = 0
      /\ partial # {} => extra < Cardinality(partial)
      /\ Cardinality(partial) \in Nat /\ Cardinality(partial) <= Cardinality(selected)
  <2>1. partial \in SUBSET selected
    OBVIOUS
  <2>2. rests = SumFunctionOnSet(rest, partial)
    <3>1. \A s \in selected \ partial : rest[s] = 0
      BY <1>3
    <3> HIDE DEF partial
    <3>2. QED
      BY <1>1, <1>3, <2>1, <3>1, SumOfSome DEF rests
  <2>3. Cardinality(partial) \in Nat /\ Cardinality(partial) <= Cardinality(selected)
    BY <1>1, <2>1, FS_Subset, FS_CardinalityType
  <2> HIDE DEF partial
  <2>4. ASSUME partial = {} PROVE extra = 0
    <3>1. c * extra = 0
      BY <1>5, <2>2, <2>4, SumEmpty
    <3>2. QED
      BY <1>2, <1>5, <3>1
  <2>5. ASSUME partial # {} PROVE extra < Cardinality(partial)
    <3>1. rests < c * Cardinality(partial)
      BY <1>1, <1>2, <1>3, <2>1, <2>2, <2>5, SumBelow
    <3>2. c * extra < c * Cardinality(partial)
      BY <1>5, <3>1
    <3> HIDE DEF extra
    <3>3. QED
      BY <1>2, <1>5, <2>3, <3>2
  <2>6. QED
    BY <2>3, <2>4, <2>5

<1> HIDE DEF extra
<1>7. Cardinality(first) = extra
  <2>1. before \in [selected -> SUBSET selected]
    OBVIOUS
  <2>2. \A x, y \in selected :
          x \in before[y] <=> rest[x] > rest[y] \/ (rest[x] = rest[y] /\ x < y)
    OBVIOUS
  <2>3. \A x \in selected : x \in Nat /\ rest[x] \in Nat
    BY <1>1, <1>3
  <2>4. extra \in 0..Cardinality(selected)
    BY <1>1, <1>5, <1>6
  <2> HIDE DEF before
  <2>5. \A x \in selected : x \notin before[x]
    BY <2>2, <2>3
  <2>6. ASSUME NEW x \in selected, NEW y \in selected, x \in before[y]
        PROVE  before[x] \subseteq before[y]
    <3>1. ASSUME NEW z \in before[x] PROVE z \in before[y]
      <4>1. z \in selected
        BY <2>1
      <4>2. QED
        BY <2>2, <2>3, <2>6, <3>1, <4>1
    <3>2. QED
      BY <3>1
  <2>7. \A x, y \in selected : x # y => x \in before[y] \/ y \in before[x]
    BY <2>2, <2>3
  <2>8. QED
    BY <1>1, <2>1, <2>4, <2>5, <2>6, <2>7, FirstOnes
<1>8. ASSUME NEW s \in first PROVE rest[s] > 0
  <2>1. SUFFICES ASSUME ~(rest[s] > 0) PROVE FALSE
    OBVIOUS
  <2>2. s \in selected /\ partial \in SUBSET before[s] /\ IsFiniteSet(before[s])
    <3>1. s \in selected /\ before[s] \in SUBSET selected
      OBVIOUS
    <3>2. ASSUME NEW t \in partial PROVE t \in before[s]
      <4>1. t \in selected /\ rest[t] \in Nat /\ rest[s] \in Nat /\ rest[t] > 0
        BY <1>3, <3>1
      <4>2. rest[t] > rest[s]
        BY <2>1, <4>1
      <4>3. QED
        BY <3>1, <4>1, <4>2
    <3>3. QED
      BY <1>1, <3>1, <3>2, FS_Subset
  <2>3. Cardinality(before[s]) < extra /\ Cardinality(before[s]) \in Nat
    BY <2>2, FS_CardinalityType
  <2>4. Cardinality(partial) <= Cardinality(before[s])
    BY <2>2, FS_Subset
  <2> HIDE DEF partial, before
  <2>5. QED
    BY <1>5, <1>6, <2>3, <2>4
<1> DEFINE images == Allocation(selected)
           one == [s \in selected |-> 1]
           more == [s \in selected |-> IF s \in first THEN 1 ELSE 0]
<1>9. /\ images = [s \in Styles |-> images[s]]
      /\ \A s \in Styles \ selected : images[s] = 0
      /\ \A s \in selected : images[s] = one[s] + (share[s] + more[s])
  <2>1. \A s \in selected : before[s] =
          {t \in selected : \/ Remainder(selected, t) > Remainder(selected, s)
                            \/ Remainder(selected, t) = Remainder(selected, s) /\ t < s}
    <3>1. \A s \in selected : rest[s] = Remainder(selected, s)
      BY DEF rest
    <3>2. \A s \in selected : before[s] =
            {t \in selected : rest[t] > rest[s] \/ (rest[t] = rest[s] /\ t < s)}
      OBVIOUS
    <3> HIDE DEF before
    <3>3. QED
      BY <3>1, <3>2
  <2>2. images = [s \in Styles |->
          IF s \notin Enabled THEN 0
          ELSE IF s \notin selected THEN 0
          ELSE 1 + Share(selected, s) + (IF Cardinality(before[s]) < extra THEN 1 ELSE 0)]
    BY <1>1, <2>1 DEF Allocation, extra, shares, share, spare
  <2> HIDE DEF images, before
  <2>3. \A s \in Styles \ selected : images[s] = 0
    BY <2>2
  <2>4. ASSUME NEW s \in selected PROVE images[s] = one[s] + (share[s] + more[s])
    <3>1. s \in Styles /\ s \in Enabled /\ share[s] = Share(selected, s) /\ share[s] \in Nat
      BY <1>1, <1>3 DEF share
    <3>2. images[s] = 1 + share[s] + (IF s \in first THEN 1 ELSE 0)
      BY <2>2, <3>1
    <3>3. more[s] = (IF s \in first THEN 1 ELSE 0) /\ one[s] = 1
      OBVIOUS
    <3> HIDE DEF first, more, one
    <3>4. QED
      BY <3>1, <3>2, <3>3
  <2>5. images = [s \in Styles |-> images[s]]
    BY <2>2
  <2>6. QED
    BY <2>3, <2>4, <2>5
<1> HIDE DEF images, first
<1>10. ASSUME NEW s \in selected
       PROVE  one[s] = 1 /\ more[s] \in {0, 1} /\ (more[s] = 1 => s \in first)
  OBVIOUS
<1>11. images \in [Styles -> Nat]
  <2>1. ASSUME NEW s \in Styles PROVE images[s] \in Nat
    <3>1. CASE s \in selected
      <4> HIDE DEF one, more
      <4>1. QED
        BY <1>3, <1>9, <1>10, <3>1
    <3>2. CASE s \notin selected
      BY <1>9, <3>2
    <3>3. QED
      BY <3>1, <3>2
  <2>2. QED
    BY <1>9, <2>1
<1>12. SumFunctionOnSet(images, Styles) = Count(Enabled)
  <2> DEFINE both == [s \in selected |-> share[s] + more[s]]
  <2>1. SumFunctionOnSet(images, Styles) = SumFunctionOnSet(images, selected)
    BY <1>1, <1>9, <1>11, SumOfSome
  <2>2. SumFunctionOnSet(images, selected)
          = SumFunctionOnSet(one, selected) + SumFunctionOnSet(both, selected)
    <3>1. ASSUME NEW s \in selected
          PROVE  one[s] \in Nat /\ both[s] \in Nat /\ images[s] = one[s] + both[s]
      <4>1. both[s] = share[s] + more[s]
        OBVIOUS
      <4> HIDE DEF one, more, both
      <4>2. QED
        BY <1>3, <1>9, <1>10, <4>1
    <3> HIDE DEF both, one
    <3>2. QED
      BY <1>1, <3>1, SumPlus
  <2>3. SumFunctionOnSet(both, selected) = shares + SumFunctionOnSet(more, selected)
    <3>1. \A s \in selected : share[s] \in Nat /\ more[s] \in Nat
                              /\ both[s] = share[s] + more[s]
      BY <1>3, <1>10
    <3> HIDE DEF both, more
    <3>2. QED
      BY <1>1, <3>1, SumPlus DEF shares
  <2>4. SumFunctionOnSet(one, selected) = Cardinality(selected)
    <3>1. \A s \in selected : one[s] = IF s \in selected THEN 1 ELSE 0
      OBVIOUS
    <3> HIDE DEF one
    <3>2. QED
      BY <1>1, <3>1, SumCounts
  <2>5. SumFunctionOnSet(more, selected) = extra
    <3>1. first \in SUBSET selected /\ \A s \in selected : more[s] = IF s \in first THEN 1 ELSE 0
      BY DEF first
    <3> HIDE DEF more
    <3>2. QED
      BY <1>1, <1>7, <3>1, SumCounts
  <2> HIDE DEF one, more, both
  <2>6. shares + extra = spare
    BY <1>2, <1>4 DEF extra
  <2>7. QED
    BY <1>1, <1>2, <1>4, <1>5, <2>1, <2>2, <2>3, <2>4, <2>5, <2>6
<1>13. ASSUME NEW s \in Styles PROVE images[s] >= 1 <=> s \in selected
  <2>1. CASE s \in selected
    <3> HIDE DEF one, more
    <3>1. QED
      BY <1>3, <1>9, <1>10, <2>1
  <2>2. CASE s \notin selected
    BY <1>9, <2>2
  <2>3. QED
    BY <2>1, <2>2
<1>14. ASSUME NEW s \in selected
       PROVE  LET off == (images[s] - 1) * c - spare * count[s]
              IN  -c < off /\ off < c
  <2> HIDE DEF one
  <2>1. images[s] - 1 = share[s] + more[s]
    BY <1>3, <1>9, <1>10
  <2>2. CASE more[s] = 1
    <3> HIDE DEF more
    <3>1. rest[s] > 0
      BY <1>8, <1>10, <2>2
    <3>2. (share[s] + 1) * c = c * share[s] + c
      BY <1>2, <1>3
    <3>3. (images[s] - 1) * c - spare * count[s] = c - rest[s]
      BY <1>2, <1>3, <2>1, <2>2, <3>2
    <3>4. QED
      BY <1>2, <1>3, <3>1, <3>3
  <2>3. CASE more[s] = 0
    <3> HIDE DEF more
    <3>1. share[s] * c = c * share[s]
      BY <1>2, <1>3
    <3>2. (images[s] - 1) * c - spare * count[s] = -rest[s]
      BY <1>2, <1>3, <2>1, <2>3, <3>1
    <3>3. QED
      BY <1>2, <1>3, <3>2
  <2>4. QED
    BY <1>10, <2>2, <2>3
<1>15. Fair(selected, images)
  BY <1>12, <1>13, <1>14 DEF Fair, c, spare
<1>16. QED
  BY <1>11, <1>15 DEF images

\* One more for the templates before the cursor n.
Mark(t, n) == IF t < n THEN 1 ELSE 0

\* How often the offsets r, r + 1, ..., r + n - 1 take template t of T.
Taken(r, n, T, t) == Cardinality({i \in 0..(n - 1) : (r + i) % T = t})

\* One offset more.
LEMMA TakenNext ==
  ASSUME NEW T \in Nat, T > 0, NEW r \in 0..(T - 1), NEW n \in Nat, NEW t \in 0..(T - 1)
  PROVE  /\ Taken(r, n, T, t) \in Nat /\ Taken(r, 0, T, t) = 0
         /\ Taken(r, n + 1, T, t)
              = Taken(r, n, T, t) + (IF (r + n) % T = t THEN 1 ELSE 0)
<1> DEFINE Those(m) == {i \in 0..(m - 1) : (r + i) % T = t}
<1>1. ASSUME NEW m \in Nat PROVE IsFiniteSet(Those(m)) /\ Cardinality(Those(m)) \in Nat
  <2>1. IsFiniteSet(0..(m - 1))
    BY FS_Interval
  <2>2. Those(m) \in SUBSET (0..(m - 1))
    OBVIOUS
  <2>3. QED
    BY <2>1, <2>2, FS_Subset, FS_CardinalityType
<1>2. Those(0) = {} /\ n \notin Those(n)
  OBVIOUS
<1>3. 0..((n + 1) - 1) = (0..(n - 1)) \union {n}
  OBVIOUS
<1>4. /\ Taken(r, n, T, t) = Cardinality(Those(n)) /\ Taken(r, 0, T, t) = Cardinality(Those(0))
      /\ Taken(r, n + 1, T, t) = Cardinality(Those(n + 1))
  BY DEF Taken
<1>5. Cardinality(Those(0)) = 0
  BY <1>2, FS_EmptySet
<1>6. CASE (r + n) % T = t
  <2>1. Those(n + 1) = Those(n) \union {n}
    BY <1>3, <1>6
  <2> HIDE DEF Those
  <2>2. Cardinality(Those(n + 1)) = Cardinality(Those(n)) + 1
    BY <1>1, <1>2, <2>1, FS_AddElement
  <2>3. QED
    BY <1>1, <1>4, <1>5, <1>6, <2>2
<1>7. CASE (r + n) % T # t
  <2>1. Those(n + 1) = Those(n)
    BY <1>3, <1>7
  <2> HIDE DEF Those
  <2>2. QED
    BY <1>1, <1>4, <1>5, <1>7, <2>1
<1>8. QED
  BY <1>6, <1>7

\* However many images a request takes, with those before the cursor taken once more
\* all are taken equally often, but for those before the cursor it leaves.
LEMMA TakesTurns ==
  ASSUME NEW T \in Nat, T > 0, NEW r \in 0..(T - 1), NEW n \in Nat
  PROVE  \E q \in Nat : \A t \in 0..(T - 1) :
           Mark(t, r) + Taken(r, n, T, t) = q + Mark(t, (r + n) % T)
<1> DEFINE Even(m, q) == \A t \in 0..(T - 1) :
                           Mark(t, r) + Taken(r, m, T, t) = q + Mark(t, (r + m) % T)
           bad == {m \in Nat : ~ \E q \in Nat : Even(m, q)}
<1>1. bad = {}
  <2>1. SUFFICES ASSUME bad # {} PROVE FALSE
    OBVIOUS
  <2>2. PICK m \in bad : \A k \in bad : m <= k
    <3>1. bad \in SUBSET Nat
      OBVIOUS
    <3> HIDE DEF bad
    <3>2. QED
      BY <2>1, <3>1, LeastNatural
  <2>3. CASE m = 0
    <3>1. (r + 0) % T = r
      <4>1. r \in Nat /\ r < T /\ r + 0 = r
        OBVIOUS
      <4>2. QED
        BY <4>1
    <3>2. ASSUME NEW t \in 0..(T - 1)
          PROVE  Mark(t, r) + Taken(r, 0, T, t) = 0 + Mark(t, (r + 0) % T)
      <4>1. Taken(r, 0, T, t) = 0
        BY TakenNext
      <4>2. Mark(t, r) \in Nat
        BY DEF Mark
      <4>3. QED
        BY <3>1, <4>1, <4>2
    <3>3. Even(0, 0)
      BY <3>2
    <3>4. QED
      BY <2>2, <2>3, <3>3
  <2>4. CASE m # 0
    <3>1. m - 1 \in Nat /\ m - 1 \notin bad /\ m \in Nat
      BY <2>2, <2>4
    <3>2. PICK q \in Nat : Even(m - 1, q)
      BY <3>1
    <3> DEFINE c == (r + (m - 1)) % T
               d == (r + m) % T
    <3>3. c \in 0..(T - 1) /\ d = IF c = T - 1 THEN 0 ELSE c + 1
      <4> DEFINE x == r + (m - 1)
      <4>1. x \in Nat /\ x + 1 = r + m
        BY <3>1
      <4> HIDE DEF x
      <4>2. x % T \in 0..(T - 1) /\ (x + 1) % T = IF x % T = T - 1 THEN 0 ELSE (x % T) + 1
        BY <4>1, NextRemainder
      <4>3. QED
        BY <4>1, <4>2 DEF x
    <3>4. ASSUME NEW t \in 0..(T - 1)
          PROVE  Mark(t, r) + Taken(r, m, T, t)
                   = (IF c = T - 1 THEN q + 1 ELSE q) + Mark(t, d)
      <4>1. /\ Taken(r, m - 1, T, t) \in Nat
            /\ Taken(r, (m - 1) + 1, T, t)
                 = Taken(r, m - 1, T, t) + (IF c = t THEN 1 ELSE 0)
        BY <3>1, TakenNext
      <4>2. (m - 1) + 1 = m
        BY <3>1
      <4>3. Mark(t, r) + Taken(r, m - 1, T, t) = q + Mark(t, c)
        BY <3>2
      <4> HIDE DEF c, d
      <4>4. /\ Mark(t, c) = IF t < c THEN 1 ELSE 0
            /\ Mark(t, d) = IF t < d THEN 1 ELSE 0
            /\ Mark(t, r) \in Nat
        BY DEF Mark
      <4>5. Mark(t, r) + Taken(r, m, T, t) = q + Mark(t, c) + (IF c = t THEN 1 ELSE 0)
        BY <4>1, <4>2, <4>3, <4>4
      <4>6. QED
        BY <3>3, <4>4, <4>5
    <3> DEFINE p == IF c = T - 1 THEN q + 1 ELSE q
    <3>5. p \in Nat /\ Even(m, p)
      BY <3>4
    <3>6. QED
      BY <2>2, <3>5
  <2>5. QED
    BY <2>3, <2>4
<1>2. QED
  BY <1>1

\* What Commit keeps of the images a style's templates had.
LEMMA AheadIs ==
  ASSUME NEW s \in Styles, PolicyTypes, NEW total \in [Templates -> Nat], NEW q \in Nat,
         NEW c \in 0..(templates[s] - 1),
         \A t \in 0..(templates[s] - 1) : total[t] = q + Mark(t, c)
  PROVE  /\ Ahead(s, total) \in [Templates -> Nat]
         /\ \A t \in 0..(templates[s] - 1) : Ahead(s, total)[t] = Mark(t, c)
<1> DEFINE own == 0..(templates[s] - 1)
           last == templates[s] - 1
           totals == {total[u] : u \in own}
<1>1. /\ templates[s] \in Nat /\ templates[s] > 0 /\ MaxTemplates \in Nat
      /\ templates[s] <= MaxTemplates
  BY RotationAssumption DEF PolicyTypes
<1>2. own \subseteq Templates /\ last \in own
  BY <1>1 DEF Templates
<1>3. Min(totals) = q
  <2>1. \A t \in own : Mark(t, c) \in Nat
    BY DEF Mark
  <2>2. Mark(last, c) = 0
    BY <1>1 DEF Mark
  <2>3. q \in totals
    BY <1>2, <2>2
  <2>4. \A x \in totals : q <= x /\ x \in Nat
    BY <2>1
  <2> HIDE DEF totals
  <2>5. \A x \in totals : (\A y \in totals : x <= y) => x = q
    BY <2>3, <2>4
  <2>6. QED
    BY <2>3, <2>4, <2>5 DEF Min
<1>4. Ahead(s, total) = [t \in Templates |-> IF t \in own THEN total[t] - q ELSE 0]
  BY <1>3 DEF Ahead
<1> HIDE DEF totals
<1>5. ASSUME NEW t \in own PROVE total[t] - q = Mark(t, c) /\ Mark(t, c) \in Nat
  BY <1>2 DEF Mark
<1>6. QED
  BY <1>2, <1>4, <1>5

\* Types of every variable; a cursor, and one that was read, points at a template.
RotationTypeInv ==
  /\ PolicyTypes
  /\ cursor \in [Styles -> Nat]
  /\ \A s \in Styles : cursor[s] \in 0..(templates[s] - 1)
  /\ batch \in [Batches -> Batch]
  /\ \A b \in Batches : \A s \in Styles : batch[b].read[s] \in 0..(templates[s] - 1)
  /\ uses \in [Styles -> [Templates -> Nat]]
  /\ skewed \in BOOLEAN

\* What was allocated to a batch under way.
FairInv == \A b \in Batches :
  batch[b].pc # "none" /\ batch[b].selected # {} => Fair(batch[b].selected, batch[b].images)

\* One transaction writes at a time.
OneWrites == \A b, c \in Batches : batch[b].pc = "flushed" /\ batch[c].pc = "flushed" => b = c

\* The templates before the offset n were used once more than the others.
InTurn(s, n) == \A t \in 0..(templates[s] - 1) : uses[s][t] = Mark(t, n)

\* Those before the cursor were; while a transaction moves the cursor, those before the
\* one it read.
TurnInv ==
  \A s \in Styles :
    /\ (\A b \in Batches : batch[b].pc = "flushed" => batch[b].images[s] = 0)
         => InTurn(s, cursor[s])
    /\ \A b \in Batches : batch[b].pc = "flushed" /\ batch[b].images[s] > 0
         => InTurn(s, batch[b].read[s]) /\ cursor[s] = Moved(b, s)

RotationInv == RotationTypeInv /\ FairInv /\ OneWrites /\ (~skewed => TurnInv)

\* A request that has not read.
LEMMA NoBatchType ==
  /\ NoBatch \in Batch /\ NoBatch.pc = "none" /\ NoBatch.selected = {}
  /\ \A s \in Styles : NoBatch.read[s] = 0
BY DEF NoBatch, Batch

\* Initially no template was used.
LEMMA RotationBegins == RotationInit => RotationInv
<1> SUFFICES ASSUME RotationInit PROVE RotationInv
  OBVIOUS
<1>1. /\ PolicyTypes /\ skewed = FALSE
      /\ \A s \in Styles : templates[s] \in Nat /\ templates[s] > 0
  BY RotationAssumption DEF RotationInit, PolicyTypes
<1>2. cursor \in [Styles -> Nat] /\ \A s \in Styles : cursor[s] = 0
  BY DEF RotationInit
<1>3. batch \in [Batches -> Batch] /\ \A b \in Batches : batch[b] = NoBatch
  BY NoBatchType DEF RotationInit
<1>4. uses \in [Styles -> [Templates -> Nat]]
        /\ \A s \in Styles : \A t \in Templates : uses[s][t] = 0
  BY DEF RotationInit
<1>5. RotationTypeInv
  <2>1. \A s \in Styles : 0 \in 0..(templates[s] - 1)
    BY <1>1
  <2>2. \A s \in Styles : cursor[s] \in 0..(templates[s] - 1)
    BY <1>2, <2>1
  <2>3. \A b \in Batches : \A s \in Styles : batch[b].read[s] \in 0..(templates[s] - 1)
    BY <1>3, <2>1, NoBatchType
  <2>4. QED
    BY <1>1, <1>2, <1>3, <1>4, <2>2, <2>3 DEF RotationTypeInv
<1>6. FairInv /\ OneWrites
  BY <1>3, NoBatchType DEF FairInv, OneWrites
<1>7. ASSUME NEW s \in Styles PROVE InTurn(s, cursor[s])
  <2>1. 0..(templates[s] - 1) \subseteq Templates
    BY <1>1, RotationAssumption DEF PolicyTypes, Templates
  <2>2. QED
    BY <1>2, <1>4, <2>1 DEF InTurn, Mark
<1>8. TurnInv
  BY <1>3, <1>7, NoBatchType DEF TurnInv
<1>9. QED
  BY <1>5, <1>6, <1>8 DEF RotationInv

\* A request reads the policy and the cursors.
LEMMA RotationReads ==
  ASSUME RotationInv, NEW b \in Batches, NEW selected \in SUBSET Styles,
         NEW images \in [Styles -> Nat], Reads(b, selected, images),
         selected # {} => Fair(selected, images)
  PROVE  RotationInv'
<1> DEFINE row == [pc |-> "read", selected |-> selected, images |-> images, read |-> cursor]
<1>1. /\ batch' = [batch EXCEPT ![b] = row]
      /\ UNCHANGED <<count, templates, cursor, uses, skewed>>
  BY DEF Reads
<1>2. row \in Batch
  BY DEF Batch, RotationInv, RotationTypeInv
<1>3. row.pc = "read" /\ row.selected = selected /\ row.images = images /\ row.read = cursor
  OBVIOUS
<1> HIDE DEF row
<1>4. batch'[b] = row /\ \A c \in Batches \ {b} : batch'[c] = batch[c]
  BY <1>1 DEF RotationInv, RotationTypeInv
<1>5. RotationTypeInv'
  <2>1. batch' \in [Batches -> Batch]
    BY <1>1, <1>2 DEF RotationInv, RotationTypeInv
  <2>2. \A c \in Batches : \A s \in Styles : batch'[c].read[s] \in 0..(templates[s] - 1)
    BY <1>3, <1>4 DEF RotationInv, RotationTypeInv
  <2>3. QED
    BY <1>1, <2>1, <2>2 DEF RotationInv, RotationTypeInv, PolicyTypes
<1>6. FairInv'
  <2>1. ASSUME NEW c \in Batches, batch'[c].pc # "none", batch'[c].selected # {}
        PROVE  Fair(batch'[c].selected, batch'[c].images)
    BY <1>3, <1>4, <2>1 DEF RotationInv, FairInv
  <2>2. QED
    BY <1>1, <2>1 DEF FairInv, Fair, Count, Spare, Enabled
<1>7. \A c \in Batches : /\ batch'[c].pc = "flushed" <=> c # b /\ batch[c].pc = "flushed"
                         /\ c # b => batch'[c] = batch[c]
  BY <1>3, <1>4
<1>8. batch[b].pc # "flushed"
  BY DEF Reads
<1>9. OneWrites'
  BY <1>7 DEF RotationInv, OneWrites
<1>10. ~skewed' => TurnInv'
  BY <1>1, <1>7, <1>8 DEF RotationInv, TurnInv, InTurn, Moved
<1>11. QED
  BY <1>5, <1>6, <1>9, <1>10 DEF RotationInv

\* An accept that reads: its allocation is fair; a replenishment: one image.
LEMMA RotationAccepts ==
  ASSUME RotationInv, NEW b \in Batches, AcceptBatch(b) \/ Replenish(b)
  PROVE  RotationInv'
<1>1. PolicyTypes /\ \A s \in Styles : count[s] \in Nat
  BY Counts DEF RotationInv, RotationTypeInv
<1>2. ASSUME NEW selected \in SUBSET Enabled, Cardinality(selected) <= Count(Enabled),
             Reads(b, selected, Allocation(selected))
      PROVE  RotationInv'
  <2>1. selected \in SUBSET Styles
    BY DEF Enabled
  <2>2. CASE selected # {}
    BY <1>1, <1>2, <2>1, <2>2, AllocationIsFair, RotationReads
  <2>3. CASE selected = {}
    <3>1. Allocation(selected) = [s \in Styles |-> IF s \notin Enabled THEN 0 ELSE count[s]]
      BY <2>3 DEF Allocation
    <3>2. Allocation(selected) \in [Styles -> Nat]
      BY <1>1, <3>1
    <3>3. QED
      BY <1>2, <2>1, <2>3, <3>2, RotationReads
  <2>4. QED
    BY <2>2, <2>3
<1>3. ASSUME NEW s \in Enabled, Reads(b, {}, [t \in Styles |-> IF t = s THEN 1 ELSE 0])
      PROVE  RotationInv'
  <2>1. [t \in Styles |-> IF t = s THEN 1 ELSE 0] \in [Styles -> Nat]
    OBVIOUS
  <2>2. QED
    BY <1>3, <2>1, RotationReads
<1>4. QED
  BY <1>2, <1>3 DEF AcceptBatch, Replenish

\* The cursor where a request leaves it.
LEMMA MovedType ==
  ASSUME RotationInv, NEW b \in Batches, NEW s \in Styles
  PROVE  /\ Moved(b, s) \in 0..(templates[s] - 1) /\ Moved(b, s) \in Nat
         /\ batch[b].images[s] \in Nat
         /\ batch[b].images[s] = 0 => Moved(b, s) = batch[b].read[s]
<1>1. /\ templates[s] \in Nat /\ templates[s] > 0 /\ batch[b] \in Batch
      /\ batch[b].read[s] \in 0..(templates[s] - 1)
  BY RotationAssumption DEF RotationInv, RotationTypeInv, PolicyTypes
<1>2. batch[b].images[s] \in Nat
  BY <1>1 DEF Batch
<1> DEFINE x == batch[b].read[s] + batch[b].images[s]
<1>3. x \in Nat /\ Moved(b, s) = x % templates[s]
  BY <1>1, <1>2 DEF Moved
<1>4. ASSUME batch[b].images[s] = 0 PROVE x = batch[b].read[s] /\ x < templates[s]
  BY <1>1, <1>4
<1> HIDE DEF x
<1>5. x % templates[s] \in 0..(templates[s] - 1)
        /\ (x < templates[s] => x % templates[s] = x)
  BY <1>1, <1>3
<1>6. QED
  BY <1>1, <1>2, <1>3, <1>4, <1>5

\* A flush moves the cursors of the styles it takes images of.
LEMMA RotationFlushes ==
  ASSUME RotationInv, NEW b \in Batches, Flush(b)
  PROVE  RotationInv'
<1>1. /\ batch[b].pc = "read" /\ \A c \in Batches : batch[c].pc # "flushed"
      /\ cursor' = [s \in Styles |->
           IF Moved(b, s) = batch[b].read[s] THEN cursor[s] ELSE Moved(b, s)]
      /\ skewed' = (skewed \/ \E s \in Styles : /\ batch[b].images[s] > 0
                                               /\ batch[b].read[s] # cursor[s])
      /\ batch' = [batch EXCEPT ![b].pc = "flushed"]
      /\ UNCHANGED <<count, templates, uses>>
  BY DEF Flush
<1> DEFINE row == [batch[b] EXCEPT !.pc = "flushed"]
<1>2. batch[b] \in Batch /\ batch' = [batch EXCEPT ![b] = row]
  BY <1>1 DEF RotationInv, RotationTypeInv
<1>3. /\ row \in Batch /\ row.pc = "flushed" /\ row.selected = batch[b].selected
      /\ row.images = batch[b].images /\ row.read = batch[b].read
  BY <1>2 DEF Batch
<1> HIDE DEF row
<1>4. batch'[b] = row /\ \A c \in Batches \ {b} : batch'[c] = batch[c]
  BY <1>2 DEF RotationInv, RotationTypeInv
<1>5. \A c \in Batches : /\ batch'[c].images = batch[c].images
                         /\ batch'[c].read = batch[c].read
                         /\ batch'[c].selected = batch[c].selected
                         /\ batch'[c].pc = "flushed" <=> c = b
  BY <1>1, <1>3, <1>4
<1>6. ASSUME NEW s \in Styles
      PROVE  /\ cursor'[s] = IF Moved(b, s) = batch[b].read[s] THEN cursor[s] ELSE Moved(b, s)
             /\ cursor'[s] \in 0..(templates[s] - 1) /\ cursor'[s] \in Nat
  BY <1>1, MovedType DEF RotationInv, RotationTypeInv
<1>7. RotationTypeInv'
  <2>1. batch' \in [Batches -> Batch]
    BY <1>2, <1>3 DEF RotationInv, RotationTypeInv
  <2>2. \A c \in Batches : \A s \in Styles : batch'[c].read[s] \in 0..(templates[s] - 1)
    BY <1>5 DEF RotationInv, RotationTypeInv
  <2>3. cursor' \in [Styles -> Nat]
    BY <1>1, <1>6
  <2>4. skewed' \in BOOLEAN
    BY <1>1 DEF RotationInv, RotationTypeInv
  <2>5. QED
    BY <1>1, <1>6, <2>1, <2>2, <2>3, <2>4 DEF RotationInv, RotationTypeInv, PolicyTypes
<1>8. FairInv'
  <2>1. ASSUME NEW c \in Batches, batch'[c].pc # "none", batch'[c].selected # {}
        PROVE  Fair(batch'[c].selected, batch'[c].images)
    <3>1. batch[c].pc # "none"
      BY <1>1, <1>4, <2>1
    <3>2. QED
      BY <1>5, <2>1, <3>1 DEF RotationInv, FairInv
  <2>2. QED
    BY <1>1, <2>1 DEF FairInv, Fair, Count, Spare, Enabled
<1>9. OneWrites'
  BY <1>5 DEF OneWrites
<1>10. ASSUME ~skewed', NEW s \in Styles
       PROVE  /\ batch[b].images[s] = 0 => InTurn(s, cursor'[s])
              /\ batch[b].images[s] > 0 => InTurn(s, batch[b].read[s]) /\ cursor'[s] = Moved(b, s)
  <2>1. InTurn(s, cursor[s])
    BY <1>1, <1>10 DEF RotationInv, TurnInv
  <2>2. QED
    BY <1>1, <1>6, <1>10, <2>1, MovedType
<1>11. ~skewed' => TurnInv'
  BY <1>1, <1>5, <1>10 DEF TurnInv, InTurn, Moved
<1>12. QED
  BY <1>7, <1>8, <1>9, <1>11 DEF RotationInv

\* A request that has written ends: no transaction writes, and of a batch that is
\* committed the templates were used in turn.
LEMMA RotationEnds ==
  ASSUME RotationInv, NEW b \in Batches, batch[b].pc = "flushed",
         batch' = [batch EXCEPT ![b] = NoBatch], UNCHANGED <<count, templates, cursor>>,
         skewed' \in BOOLEAN, uses' \in [Styles -> [Templates -> Nat]],
         ~skewed' => \A s \in Styles : InTurn(s, cursor[s])'
  PROVE  RotationInv'
<1>1. batch'[b] = NoBatch /\ \A c \in Batches \ {b} : batch'[c] = batch[c]
  BY DEF RotationInv, RotationTypeInv
<1>2. \A c \in Batches : batch'[c].pc # "flushed"
  BY <1>1, NoBatchType DEF RotationInv, OneWrites
<1>3. RotationTypeInv'
  <2>1. batch' \in [Batches -> Batch]
    BY NoBatchType DEF RotationInv, RotationTypeInv
  <2>2. \A s \in Styles : 0 \in 0..(templates[s] - 1)
    BY RotationAssumption DEF RotationInv, RotationTypeInv, PolicyTypes
  <2>3. \A c \in Batches : \A s \in Styles : batch'[c].read[s] \in 0..(templates[s] - 1)
    BY <1>1, <2>2, NoBatchType DEF RotationInv, RotationTypeInv
  <2>4. QED
    BY <2>1, <2>3 DEF RotationInv, RotationTypeInv, PolicyTypes
<1>4. FairInv'
  <2>1. ASSUME NEW c \in Batches, batch'[c].pc # "none", batch'[c].selected # {}
        PROVE  Fair(batch'[c].selected, batch'[c].images)
    BY <1>1, <2>1, NoBatchType DEF RotationInv, FairInv
  <2>2. QED
    BY <2>1 DEF FairInv, Fair, Count, Spare, Enabled
<1>5. OneWrites' /\ (~skewed' => TurnInv')
  BY <1>2 DEF OneWrites, TurnInv
<1>6. QED
  BY <1>3, <1>4, <1>5 DEF RotationInv

\* A commit: a style's templates were used in turn up to its cursor.
LEMMA RotationCommits ==
  ASSUME RotationInv, NEW b \in Batches, Commit(b)
  PROVE  RotationInv'
<1>1. /\ batch[b].pc = "flushed" /\ batch' = [batch EXCEPT ![b] = NoBatch]
      /\ UNCHANGED <<count, templates, cursor, skewed>> /\ skewed \in BOOLEAN
      /\ uses' = IF skewed THEN uses
                 ELSE [s \in Styles |->
                         Ahead(s, [t \in Templates |-> uses[s][t] + Takes(b, s, t)])]
  BY DEF Commit, RotationInv, RotationTypeInv
<1>2. CASE skewed
  <2>1. uses' \in [Styles -> [Templates -> Nat]] /\ skewed'
    BY <1>1, <1>2 DEF RotationInv, RotationTypeInv
  <2>2. QED
    BY <1>1, <2>1, RotationEnds
<1>3. CASE ~skewed
  <2>1. ASSUME NEW s \in Styles
        PROVE  /\ uses'[s] \in [Templates -> Nat]
               /\ \A t \in 0..(templates[s] - 1) : uses'[s][t] = Mark(t, cursor[s])
    <3> DEFINE T == templates[s]
               n == batch[b].images[s]
               r == batch[b].read[s]
               total == [t \in Templates |-> uses[s][t] + Takes(b, s, t)]
    <3>1. /\ T \in Nat /\ T > 0 /\ r \in 0..(T - 1) /\ n \in Nat
          /\ cursor[s] \in 0..(T - 1) /\ 0..(T - 1) \subseteq Templates
          /\ PolicyTypes /\ \A t \in Templates : uses[s][t] \in Nat
      <4>1. T \in 1..MaxTemplates /\ PolicyTypes /\ \A t \in Templates : uses[s][t] \in Nat
        BY DEF RotationInv, RotationTypeInv, PolicyTypes
      <4>2. MaxTemplates \in Nat
        BY RotationAssumption
      <4>3. r \in 0..(T - 1) /\ cursor[s] \in 0..(T - 1)
        BY DEF RotationInv, RotationTypeInv
      <4>4. n \in Nat
        BY MovedType
      <4> HIDE DEF T
      <4>5. QED
        BY <4>1, <4>2, <4>3, <4>4 DEF Templates
    <3>2. \A t : Takes(b, s, t) = Taken(r, n, T, t)
      BY DEF Takes, Taken
    <3>3. uses'[s] = Ahead(s, total)
      BY <1>1, <1>3
    <3>4. \A t \in Templates : Takes(b, s, t) \in Nat
      <4>1. ASSUME NEW t \in Templates PROVE Takes(b, s, t) \in Nat
        <5> DEFINE those == {i \in 0..(n - 1) : (r + i) % T = t}
        <5>1. IsFiniteSet(0..(n - 1)) /\ those \in SUBSET (0..(n - 1))
          <6> HIDE DEF n
          <6>1. n - 1 \in Int
            BY <3>1
          <6>2. IsFiniteSet(0..(n - 1))
            BY <6>1, FS_Interval
          <6>3. those \in SUBSET (0..(n - 1))
            OBVIOUS
          <6>4. QED
            BY <6>2, <6>3
        <5>2. Cardinality(those) \in Nat
          BY <5>1, FS_Subset, FS_CardinalityType
        <5>3. QED
          BY <5>2 DEF Takes
      <4>2. QED
        BY <4>1
    <3>5. total \in [Templates -> Nat]
      BY <3>1, <3>4
    <3>6. PICK q \in Nat : \A t \in 0..(T - 1) : total[t] = q + Mark(t, cursor[s])
      <4>1. CASE n = 0
        <5>1. InTurn(s, cursor[s])
          BY <1>1, <1>3, <4>1 DEF RotationInv, OneWrites, TurnInv
        <5>2. ASSUME NEW t \in 0..(T - 1) PROVE total[t] = 0 + Mark(t, cursor[s])
          <6>1. total[t] = uses[s][t] + Taken(r, n, T, t) /\ uses[s][t] = Mark(t, cursor[s])
            BY <3>1, <3>2, <5>1 DEF InTurn
          <6> HIDE DEF total, T, n, r
          <6>5. T \in Nat /\ T > 0 /\ r \in 0..(T - 1) /\ t \in 0..(T - 1) /\ 0 \in Nat
            BY <3>1
          <6>2. Taken(r, 0, T, t) = 0
            BY ONLY <6>5, TakenNext
          <6>3. Mark(t, cursor[s]) \in Nat
            BY DEF Mark
          <6>4. QED
            BY <4>1, <6>1, <6>2, <6>3
        <5> HIDE DEF total
        <5>3. QED
          BY <5>2
      <4>2. CASE n # 0
        <5>1. InTurn(s, r) /\ cursor[s] = (r + n) % T
          BY <1>1, <1>3, <3>1, <4>2 DEF RotationInv, TurnInv, Moved
        <5>2. PICK q \in Nat : \A t \in 0..(T - 1) :
                Mark(t, r) + Taken(r, n, T, t) = q + Mark(t, (r + n) % T)
          <6> HIDE DEF T, n, r
          <6>1. QED
            BY <3>1, TakesTurns
        <5>3. \A t \in 0..(T - 1) : total[t] = Mark(t, r) + Taken(r, n, T, t)
          BY <3>1, <3>2, <5>1 DEF InTurn
        <5>4. QED
          BY <5>1, <5>2, <5>3
      <4>3. QED
        BY <4>1, <4>2
    <3> HIDE DEF total
    <3>7. cursor[s] \in 0..(templates[s] - 1)
      BY <3>1
    <3>8. /\ Ahead(s, total) \in [Templates -> Nat]
          /\ \A t \in 0..(templates[s] - 1) : Ahead(s, total)[t] = Mark(t, cursor[s])
      BY <3>1, <3>5, <3>6, <3>7, AheadIs
    <3>9. QED
      BY <3>3, <3>8
  <2>2. uses' \in [Styles -> [Templates -> Nat]]
    <3>1. uses' = [s \in Styles |->
                     Ahead(s, [t \in Templates |-> uses[s][t] + Takes(b, s, t)])]
      BY <1>1, <1>3
    <3>2. QED
      BY <2>1, <3>1
  <2>3. \A s \in Styles : InTurn(s, cursor[s])'
    BY <1>1, <2>1 DEF InTurn
  <2>4. QED
    BY <1>1, <2>2, <2>3, RotationEnds
<1>4. QED
  BY <1>1, <1>2, <1>3

LEMMA RotationStep == RotationInv /\ [RotationNext]_rotationVars => RotationInv'
<1> SUFFICES ASSUME RotationInv, [RotationNext]_rotationVars PROVE RotationInv'
  OBVIOUS
<1>1. ASSUME NEW b \in Batches, AcceptBatch(b) \/ Replenish(b) PROVE RotationInv'
  BY <1>1, RotationAccepts
<1>2. ASSUME NEW b \in Batches, Flush(b) PROVE RotationInv'
  BY <1>2, RotationFlushes
<1>3. ASSUME NEW b \in Batches, Commit(b) PROVE RotationInv'
  BY <1>3, RotationCommits
<1>4. ASSUME NEW b \in Batches, Refuse(b) PROVE RotationInv'
  BY <1>4, RotationEnds DEF Refuse, RotationInv, RotationTypeInv
<1>5. CASE UNCHANGED rotationVars
  BY <1>5 DEF rotationVars, RotationInv, RotationTypeInv, PolicyTypes, FairInv, Fair, Count,
              Spare, Enabled, OneWrites, TurnInv, InTurn, Moved
<1>6. QED
  BY <1>1, <1>2, <1>3, <1>4, <1>5 DEF RotationNext

\* At any time, all variables of the rotation have their types; a cursor points at a
\* template.
THEOREM RotationTypesCorrect == RotationSpec => []RotationTypeOK
<1>1. RotationInv => RotationTypeOK
  <2> SUFFICES ASSUME RotationInv PROVE RotationTypeOK
    OBVIOUS
  <2>1. \A s \in Styles : cursor[s] \in Templates /\ cursor[s] < templates[s]
    BY RotationAssumption DEF RotationInv, RotationTypeInv, PolicyTypes, Templates
  <2>2. QED
    BY <2>1 DEF RotationInv, RotationTypeInv, PolicyTypes, RotationTypeOK
<1>2. QED
  BY RotationBegins, RotationStep, <1>1, PTL DEF RotationSpec

\* Whatever counts and selections, a batch has every image it is to have: each
\* selected style one at least and of the rest its share, up to one image.
THEOREM BatchesAllocated == RotationSpec => []AllocationFair
<1>1. RotationInv => AllocationFair
  <2> SUFFICES ASSUME RotationInv, NEW b \in Batches, batch[b].pc = "read",
                      batch[b].selected # {}
               PROVE  Fair(batch[b].selected, batch[b].images)
    BY DEF AllocationFair, Fair
  <2>1. QED
    BY DEF RotationInv, FairInv
<1>2. QED
  BY RotationBegins, RotationStep, <1>1, PTL DEF RotationSpec

\* Unless two requests overlapped or one was refused, a style's templates take turns
\* through batches of any size (rotate_complete_template_combinations).
THEOREM TurnsTaken == RotationSpec => []TemplatesTakeTurns
<1>1. RotationInv => TemplatesTakeTurns
  <2> SUFFICES ASSUME RotationInv, ~skewed, NEW s \in Styles,
                      NEW t \in 0..(templates[s] - 1), NEW u \in 0..(templates[s] - 1)
               PROVE  uses[s][t] <= uses[s][u] + 1
    BY DEF TemplatesTakeTurns
  <2>1. PICK n : InTurn(s, n)
    <3>1. CASE \A b \in Batches : batch[b].pc = "flushed" => batch[b].images[s] = 0
      BY <3>1 DEF RotationInv, TurnInv
    <3>2. ASSUME NEW b \in Batches, batch[b].pc = "flushed", batch[b].images[s] # 0
          PROVE  InTurn(s, batch[b].read[s])
      <4>1. batch[b].images[s] > 0
        BY <3>2, MovedType
      <4>2. QED
        BY <3>2, <4>1 DEF RotationInv, TurnInv
    <3>3. QED
      BY <3>1, <3>2
  <2>2. QED
    BY <2>1 DEF InTurn, Mark
<1>2. QED
  BY RotationBegins, RotationStep, <1>1, PTL DEF RotationSpec

-----------------------------------------------------------------------------
(* Migrations: lists of statements.                                        *)

\* What a version is to leave, but for the indexes that may be lacking, and what all
\* up to it are.
Left(v) == Made[v] \ MayLack
LeftUpTo(n) == UNION {Left(v) : v \in 1..n}

IsList(s) == \E S : s \in Seq(S)

\* What is on a list when it is executed to the end, whatever it finds.
Gets(s, x) ==
  \/ s.does \in {"add", "index", "rename"} /\ x \in s.things
  \/ s.does \in {"model", "rename"} /\ x = Table(s.table)
Given(s, x) == \E i \in DOMAIN s : Gets(s[i], x)

\* A table is dropped after its rows were copied, and then renamed.
Follows(a, b) ==
  /\ a.does = "copy" <=> b.does = "drop"
  /\ a.does = "drop" <=> b.does = "rename"
  /\ b.does \in {"drop", "rename"} => a.table = b.table
Ordered(s) == \A i \in DOMAIN s : i + 1 \in DOMAIN s => Follows(s[i], s[i + 1])

\* What is dropped with a table, of things, is made again.
Whole(s, things) ==
  \A i \in DOMAIN s : s[i].does = "drop" =>
    \A x \in things : x[1] = s[i].table => \E j \in DOMAIN s : j > i /\ Gets(s[j], x)

\* The statements of the versions.
Words == {"add", "index", "unindex", "model", "write", "create", "copy", "drop", "rename"}
Known(s) ==
  /\ s.does \in Words
  /\ s.does = "unindex" => s.things = {OpenByDomain}

\* A list that can stand before and after others.
Block(s, things) ==
  /\ IsList(s) /\ Ordered(s) /\ Whole(s, things)
  /\ s # << >> => s[1].does \notin {"drop", "rename"} /\ s[Len(s)].does \notin {"copy", "drop"}
  /\ \A i \in DOMAIN s : Known(s[i])

LEMMA ListIs ==
  ASSUME NEW s, IsList(s)
  PROVE  /\ Len(s) \in Nat /\ DOMAIN s = 1..Len(s)
         /\ s # << >> <=> Len(s) > 0
BY DEF IsList

LEMMA ListEmpty == ASSUME NEW s, IsList(s), Len(s) = 0 PROVE s = << >>
BY ListIs

LEMMA ListJoins ==
  ASSUME NEW a, NEW b, IsList(a), IsList(b)
  PROVE  /\ IsList(a \o b) /\ Len(a \o b) = Len(a) + Len(b)
         /\ \A i \in DOMAIN a : (a \o b)[i] = a[i]
         /\ \A i \in DOMAIN b : (a \o b)[Len(a) + i] = b[i]
         /\ \A i \in DOMAIN (a \o b) :
              i \in DOMAIN a \/ (i - Len(a) \in DOMAIN b /\ (a \o b)[i] = b[i - Len(a)])
<1>1. PICK S : a \in Seq(S)
  BY DEF IsList
<1>2. PICK T : b \in Seq(T)
  BY DEF IsList
<1>3. a \in Seq(S \union T) /\ b \in Seq(S \union T)
  BY <1>1, <1>2
<1>4. a \o b \in Seq(S \union T)
  BY <1>3
<1> QED
  BY <1>3, <1>4 DEF IsList

LEMMA ListEnds ==
  ASSUME NEW s, IsList(s), s # << >>
  PROVE  /\ IsList(Tail(s)) /\ Len(Tail(s)) = Len(s) - 1 /\ Head(s) = s[1]
         /\ \A i \in DOMAIN Tail(s) : i + 1 \in DOMAIN s /\ Tail(s)[i] = s[i + 1]
         /\ \A i \in DOMAIN s : i = 1 \/ (i - 1 \in DOMAIN Tail(s) /\ Tail(s)[i - 1] = s[i])
<1>1. PICK S : s \in Seq(S)
  BY DEF IsList
<1>2. Tail(s) \in Seq(S)
  BY <1>1
<1> QED
  BY <1>1, <1>2 DEF IsList

LEMMA ListGrows ==
  ASSUME NEW s, NEW e, IsList(s)
  PROVE  /\ IsList(Append(s, e)) /\ Len(Append(s, e)) = Len(s) + 1
         /\ \A i \in DOMAIN s : Append(s, e)[i] = s[i]
         /\ Append(s, e)[Len(s) + 1] = e
<1>1. PICK S : s \in Seq(S)
  BY DEF IsList
<1>2. s \in Seq(S \union {e}) /\ e \in S \union {e}
  BY <1>1
<1>3. Append(s, e) \in Seq(S \union {e})
  BY <1>2
<1> QED
  BY <1>2, <1>3 DEF IsList

LEMMA GivenJoins ==
  ASSUME NEW a, NEW b, NEW x, IsList(a), IsList(b), Given(a, x) \/ Given(b, x)
  PROVE  Given(a \o b, x)
<1>1. DOMAIN (a \o b) = 1..(Len(a) + Len(b)) /\ DOMAIN a = 1..Len(a) /\ DOMAIN b = 1..Len(b)
      /\ Len(a) \in Nat /\ Len(b) \in Nat
  BY ListIs, ListJoins
<1>2. CASE Given(a, x)
  BY <1>1, <1>2, ListJoins DEF Given
<1>3. CASE Given(b, x)
  <2>1. PICK i \in DOMAIN b : Gets(b[i], x)
    BY <1>3 DEF Given
  <2>2. Len(a) + i \in DOMAIN (a \o b) /\ (a \o b)[Len(a) + i] = b[i]
    BY <1>1, ListJoins
  <2> QED
    BY <2>1, <2>2 DEF Given
<1> QED
  BY <1>2, <1>3

\* Blocks can be put together.
LEMMA BlockJoins ==
  ASSUME NEW a, NEW b, NEW things, Block(a, things), Block(b, things)
  PROVE  Block(a \o b, things)
<1> DEFINE s == a \o b
           n == Len(a)
<1>1. /\ IsList(a) /\ IsList(b) /\ IsList(s)
      /\ n \in Nat /\ Len(b) \in Nat /\ Len(s) = n + Len(b)
      /\ DOMAIN a = 1..n /\ DOMAIN b = 1..Len(b) /\ DOMAIN s = 1..(n + Len(b))
      /\ \A i \in 1..n : s[i] = a[i]
      /\ \A i \in DOMAIN b : s[n + i] = b[i]
      /\ \A i \in DOMAIN s : i \in 1..n \/ (i - n \in DOMAIN b /\ s[i] = b[i - n])
  BY ListIs, ListJoins DEF Block
<1>a. (a # << >> <=> n > 0) /\ (b # << >> <=> Len(b) > 0) /\ (s # << >> <=> n + Len(b) > 0)
  BY <1>1, ListIs
<1> HIDE DEF s
<1>2. Ordered(s)
  <2> SUFFICES ASSUME NEW i \in DOMAIN s, i + 1 \in DOMAIN s PROVE Follows(s[i], s[i + 1])
    BY DEF Ordered
  <2>1. CASE i + 1 \in 1..n
    <3>1. i \in DOMAIN a /\ i + 1 \in DOMAIN a /\ s[i] = a[i] /\ s[i + 1] = a[i + 1]
      BY <1>1, <2>1
    <3> QED
      BY <3>1 DEF Block, Ordered
  <2>2. CASE i \notin 1..n
    <3>1. i - n \in DOMAIN b /\ s[i] = b[i - n]
      BY <1>1, <2>2
    <3>2. (i - n) + 1 \in DOMAIN b /\ s[i + 1] = b[(i - n) + 1]
      BY <1>1, <2>2
    <3> QED
      BY <3>1, <3>2 DEF Block, Ordered
  <2>3. CASE i = n /\ i \in 1..n
    <3>1. s[i] = a[n] /\ s[i + 1] = b[1] /\ a # << >> /\ b # << >>
      BY <1>1, <1>a, <2>3
    <3>2. a[n].does \notin {"copy", "drop"} /\ b[1].does \notin {"drop", "rename"}
      BY <3>1 DEF Block
    <3> QED
      BY <3>1, <3>2 DEF Follows
  <2> QED
    BY <1>1, <2>1, <2>2, <2>3
<1>3. Whole(s, things)
  <2> SUFFICES ASSUME NEW i \in DOMAIN s, s[i].does = "drop", NEW x \in things,
                      x[1] = s[i].table
               PROVE  \E j \in DOMAIN s : j > i /\ Gets(s[j], x)
    BY DEF Whole
  <2>1. CASE i \in 1..n
    <3>1. PICK j \in DOMAIN a : j > i /\ Gets(a[j], x)
      BY <1>1, <2>1 DEF Block, Whole
    <3> QED
      BY <1>1, <3>1
  <2>2. CASE i \notin 1..n
    <3>1. i - n \in DOMAIN b /\ s[i] = b[i - n]
      BY <1>1, <2>2
    <3>2. PICK j \in DOMAIN b : j > i - n /\ Gets(b[j], x)
      BY <3>1 DEF Block, Whole
    <3>3. n + j \in DOMAIN s /\ n + j > i /\ s[n + j] = b[j]
      BY <1>1, <3>2
    <3> QED
      BY <3>2, <3>3
  <2> QED
    BY <2>1, <2>2
<1>4. s # << >> => s[1].does \notin {"drop", "rename"} /\ s[Len(s)].does \notin {"copy", "drop"}
  <2>1. CASE n = 0 /\ Len(b) = 0
    BY <1>a, <2>1
  <2>2. CASE n > 0 /\ Len(b) = 0
    <3>1. s[1] = a[1] /\ s[Len(s)] = a[n]
      BY <1>1, <2>2
    <3> QED
      BY <1>a, <2>2, <3>1 DEF Block
  <2>3. CASE n = 0 /\ Len(b) > 0
    <3>1. s[1] = b[1] /\ s[Len(s)] = b[Len(b)]
      BY <1>1, <2>3
    <3> QED
      BY <1>a, <2>3, <3>1 DEF Block
  <2>4. CASE n > 0 /\ Len(b) > 0
    <3>1. s[1] = a[1] /\ s[Len(s)] = b[Len(b)]
      BY <1>1, <2>4
    <3> QED
      BY <1>a, <2>4, <3>1 DEF Block
  <2> QED
    BY <1>1, <2>1, <2>2, <2>3, <2>4
<1>5. \A i \in DOMAIN s : Known(s[i])
  BY <1>1 DEF Block
<1> QED
  BY <1>1, <1>2, <1>3, <1>4, <1>5 DEF Block, s

-----------------------------------------------------------------------------
(* Migrations: the lists of the versions.                                  *)

\* Without a rebuild nothing is lost.
PlainWords == {"add", "index", "model", "write", "unindex"}
Plain(s) == IsList(s) /\ \A i \in DOMAIN s : s[i].does \in PlainWords /\ Known(s[i])

LEMMA PlainBlock ==
  ASSUME NEW s, NEW things, Plain(s)
  PROVE  Block(s, things)
<1>1. IsList(s) /\ \A i \in DOMAIN s : s[i].does \in PlainWords /\ Known(s[i])
  BY DEF Plain
<1>2. s # << >> => 1 \in DOMAIN s /\ Len(s) \in DOMAIN s
  BY <1>1, ListIs
<1> QED
  BY <1>1, <1>2 DEF PlainWords, Block, Ordered, Follows, Whole

LEMMA PlainJoins ==
  ASSUME NEW a, NEW b, Plain(a), Plain(b)
  PROVE  Plain(a \o b)
<1>1. IsList(a) /\ IsList(b)
  BY DEF Plain
<1>2. /\ IsList(a \o b)
      /\ \A i \in DOMAIN a : (a \o b)[i] = a[i]
      /\ \A i \in DOMAIN (a \o b) :
           i \in DOMAIN a \/ (i - Len(a) \in DOMAIN b /\ (a \o b)[i] = b[i - Len(a)])
  BY <1>1, ListJoins
<1> QED
  BY <1>2 DEF Plain

\* The pieces of the versions, and what they give.
LEMMA AddsGive ==
  ASSUME NEW t, NEW v, NEW n \in Nat
  PROVE  /\ Plain(Adds(t, v, n))
         /\ \A x \in Things(t, v, n) : Given(Adds(t, v, n), x)
<1> DEFINE s == Adds(t, v, n)
<1>1. s \in Seq({Add(<<t, v, i>>) : i \in 1..n})
  BY DEF Adds
<1>2. DOMAIN s = 1..n /\ \A i \in 1..n : s[i] = Add(<<t, v, i>>)
  BY DEF Adds
<1>3. \A x : Add(x).does = "add" /\ x \in Add(x).things /\ Add(x).things = {x}
  BY DEF Add, Statement
<1> HIDE DEF s
<1>7. ASSUME NEW i \in 1..n PROVE s[i].does \in PlainWords /\ Known(s[i])
  <2>1. s[i].does = "add" /\ s[i].things = {<<t, v, i>>}
    BY <1>2, <1>3
  <2> QED
    BY <2>1 DEF Words, PlainWords, Known
<1>4. Plain(s)
  BY <1>1, <1>2, <1>7 DEF Plain, IsList
<1>5. ASSUME NEW i \in 1..n PROVE Given(s, <<t, v, i>>)
  <2>1. Gets(s[i], <<t, v, i>>) /\ i \in DOMAIN s
    BY <1>2, <1>3, <1>5 DEF Gets
  <2> QED
    BY <2>1 DEF Given
<1> QED
  BY <1>4, <1>5 DEF s, Things

LEMMA AddGives ==
  ASSUME NEW x
  PROVE  Plain(<<Add(x)>>) /\ Given(<<Add(x)>>, x)
<1>1. Add(x).does = "add" /\ Add(x).things = {x}
  BY DEF Add, Statement
<1>2. <<Add(x)>> \in Seq({Add(x)}) /\ DOMAIN <<Add(x)>> = {1} /\ <<Add(x)>>[1] = Add(x)
  OBVIOUS
<1> HIDE DEF Add
<1>3. Known(Add(x)) /\ Add(x).does \in PlainWords /\ Gets(Add(x), x)
  BY <1>1 DEF PlainWords, Words, Known, Gets
<1>4. IsList(<<Add(x)>>)
  BY <1>2 DEF IsList
<1> QED
  BY <1>2, <1>3, <1>4 DEF Plain, Given

LEMMA ModelsGive ==
  ASSUME NEW tables, IsList(tables)
  PROVE  /\ Plain(FromModels(tables))
         /\ \A i \in DOMAIN tables : Given(FromModels(tables), Table(tables[i]))
<1> DEFINE s == FromModels(tables)
           n == Len(tables)
<1>1. n \in Nat /\ DOMAIN tables = 1..n
  BY ListIs
<1>2. DOMAIN s = 1..(2 * n) /\ s \in Seq({s[i] : i \in 1..(2 * n)})
  BY <1>1 DEF FromModels
<1>3. \A i \in 1..n : 2 * i - 1 \in 1..(2 * n) /\ s[2 * i - 1] = Creates(tables[i])
  <2> SUFFICES ASSUME NEW i \in 1..n
               PROVE  2 * i - 1 \in 1..(2 * n) /\ s[2 * i - 1] = Creates(tables[i])
    OBVIOUS
  <2>1. 2 * i - 1 \in 1..(2 * n) /\ (2 * i - 1) % 2 = 1 /\ ((2 * i - 1) + 1) \div 2 = i
    BY <1>1
  <2> QED
    BY <2>1 DEF FromModels
<1>4. \A i \in 1..(2 * n) : \E t : s[i] = Creates(t) \/ s[i] = Indexes(t)
  BY DEF FromModels
<1> HIDE DEF s
<1>5. \A t : Creates(t).does = "model" /\ Creates(t).table = t /\ Indexes(t).does = "index"
  BY DEF Creates, Indexes, Statement
<1>6. \A i \in 1..(2 * n) : s[i].does \in PlainWords /\ Known(s[i])
  <2> SUFFICES ASSUME NEW i \in 1..(2 * n) PROVE s[i].does \in PlainWords /\ Known(s[i])
    OBVIOUS
  <2>1. s[i].does \in {"model", "index"}
    BY <1>4, <1>5
  <2> QED
    BY <2>1 DEF PlainWords, Words, Known
<1>7. Plain(s)
  BY <1>2, <1>6 DEF Plain, IsList
<1>8. ASSUME NEW i \in 1..n PROVE Given(s, Table(tables[i]))
  <2>1. 2 * i - 1 \in DOMAIN s /\ s[2 * i - 1] = Creates(tables[i])
    BY <1>2, <1>3
  <2>2. Gets(s[2 * i - 1], Table(tables[i]))
    BY <1>5, <2>1 DEF Gets
  <2> QED
    BY <2>1, <2>2 DEF Given
<1> QED
  BY <1>1, <1>7, <1>8 DEF s

LEMMA SqlGives ==
  ASSUME NEW tables, IsList(tables)
  PROVE  /\ Plain(FromSql(tables))
         /\ \A i \in DOMAIN tables : Given(FromSql(tables), Table(tables[i]))
<1> DEFINE s == FromSql(tables)
           n == Len(tables)
<1>1. n \in Nat /\ DOMAIN tables = 1..n
  BY ListIs
<1>2. s \in Seq({Add(Table(tables[i])) : i \in 1..n})
  BY <1>1 DEF FromSql
<1>3. \A x : Add(x).does = "add" /\ Add(x).things = {x}
  BY DEF Add, Statement
<1>4. DOMAIN s = 1..n /\ \A i \in 1..n : s[i] = Add(Table(tables[i]))
  BY <1>1 DEF FromSql
<1> HIDE DEF s
<1>5. Plain(s)
  BY <1>2, <1>3, <1>4 DEF Plain, IsList, PlainWords, Words, Known
<1>6. ASSUME NEW i \in 1..n PROVE Given(s, Table(tables[i]))
  BY <1>3, <1>4, <1>6 DEF Given, Gets
<1> QED
  BY <1>1, <1>5, <1>6 DEF s

LEMMA WritePlain == Plain(Write)
<1> DEFINE s == Statement("write", "", {})
<1>1. s.does = "write"
  BY DEF Statement
<1>2. <<s>> \in Seq({s}) /\ DOMAIN <<s>> = {1} /\ <<s>>[1] = s
  OBVIOUS
<1>3. Write = <<s>>
  BY DEF Write
<1> HIDE DEF s
<1> QED
  BY <1>1, <1>2, <1>3 DEF Plain, IsList, PlainWords, Words, Known

LEMMA EmptyPlain == Plain(<< >>)
<1>1. << >> \in Seq({}) /\ DOMAIN << >> = {}
  OBVIOUS
<1> QED
  BY <1>1 DEF Plain, IsList

LEMMA UnindexPlain == Plain(<<Statement("unindex", "tasks", {OpenByDomain})>>)
<1> DEFINE s == Statement("unindex", "tasks", {OpenByDomain})
<1>1. s.does = "unindex" /\ s.things = {OpenByDomain}
  BY DEF Statement
<1>2. <<s>> \in Seq({s}) /\ DOMAIN <<s>> = {1} /\ <<s>>[1] = s
  OBVIOUS
<1> HIDE DEF s
<1>3. Plain(<<s>>)
  BY <1>1, <1>2 DEF Plain, IsList, PlainWords, Words, Known
<1> QED
  BY <1>3 DEF s

\* A rebuild that lists all things of its table.
LEMMA RebuildGives ==
  ASSUME NEW t, NEW columns, NEW indexes, NEW things,
         \A x \in things : x[1] = t => x \in {Table(t)} \union columns \union indexes
  PROVE  /\ Block(Rebuild(t, columns, indexes), things)
         /\ \A x \in columns \union indexes : Given(Rebuild(t, columns, indexes), x)
<1> DEFINE s == Rebuild(t, columns, indexes)
<1>1. /\ s[1].does = "create" /\ s[2].does = "copy" /\ s[3].does = "drop"
      /\ s[4].does = "rename" /\ s[5].does = "index"
      /\ s[1].table = t /\ s[2].table = t /\ s[3].table = t /\ s[4].table = t
      /\ s[4].things = columns /\ s[5].things = indexes
  BY DEF Rebuild, Statement
<1>2. DOMAIN s = 1..5 /\ Len(s) = 5 /\ s # << >>
  BY DEF Rebuild
<1>3. IsList(s)
  <2> DEFINE S == {s[i] : i \in 1..5}
  <2>1. s \in Seq(S)
    BY <1>2 DEF Rebuild
  <2> QED
    BY <2>1 DEF IsList
<1> HIDE DEF s
<1>4. \A x \in {Table(t)} \union columns : Gets(s[4], x)
  BY <1>1 DEF Gets
<1>5. \A x \in indexes : Gets(s[5], x)
  BY <1>1 DEF Gets
<1>6. Whole(s, things)
  <2> SUFFICES ASSUME NEW i \in 1..5, s[i].does = "drop", NEW x \in things, x[1] = s[i].table
               PROVE  \E j \in 1..5 : j > i /\ Gets(s[j], x)
    BY <1>2 DEF Whole
  <2>1. i = 3 /\ x \in {Table(t)} \union columns \union indexes
    BY <1>1
  <2> QED
    BY <1>4, <1>5, <2>1
<1>7. Ordered(s)
  <2> SUFFICES ASSUME NEW i \in 1..4 PROVE Follows(s[i], s[i + 1])
    BY <1>2 DEF Ordered
  <2>1. i = 1 \/ i = 2 \/ i = 3 \/ i = 4
    OBVIOUS
  <2>2. Follows(s[1], s[2]) /\ Follows(s[2], s[3]) /\ Follows(s[3], s[4]) /\ Follows(s[4], s[5])
    BY <1>1 DEF Follows
  <2> QED
    BY <2>1, <2>2
<1>8. \A i \in DOMAIN s : Known(s[i])
  <2>1. \A i \in 1..5 : i = 1 \/ i = 2 \/ i = 3 \/ i = 4 \/ i = 5
    OBVIOUS
  <2> QED
    BY <1>1, <1>2, <2>1 DEF Known, Words
<1>9. Block(s, things)
  BY <1>1, <1>2, <1>3, <1>6, <1>7, <1>8 DEF Block
<1>10. \A x \in columns \union indexes : Given(s, x)
  BY <1>2, <1>4, <1>5 DEF Given
<1> QED
  BY <1>9, <1>10 DEF s

-----------------------------------------------------------------------------
(* Migrations: what each version gives.                                    *)

PlainGives(s, things) == Plain(s) /\ \A x \in things : Given(s, x)

LEMMA GivesJoin ==
  ASSUME NEW a, NEW b, NEW S, NEW T, PlainGives(a, S), PlainGives(b, T)
  PROVE  PlainGives(a \o b, S \union T)
<1>1. Plain(a) /\ Plain(b) /\ IsList(a) /\ IsList(b)
  BY DEF PlainGives, Plain
<1>2. Plain(a \o b)
  BY <1>1, PlainJoins
<1>3. \A x : Given(a, x) \/ Given(b, x) => Given(a \o b, x)
  BY <1>1, GivenJoins
<1> QED
  BY <1>2, <1>3 DEF PlainGives

LEMMA AddsDo ==
  ASSUME NEW t, NEW v, NEW n \in Nat
  PROVE  PlainGives(Adds(t, v, n), Things(t, v, n))
BY AddsGive DEF PlainGives

LEMMA WriteDoes == PlainGives(Write, {})
BY WritePlain DEF PlainGives

\* Models and CREATE TABLEs, by the tables they list.
LEMMA ModelsDo ==
  ASSUME NEW tables, IsList(tables), NEW S, \A t \in S : \E i \in DOMAIN tables : tables[i] = t
  PROVE  /\ PlainGives(FromModels(tables), {Table(t) : t \in S})
         /\ PlainGives(FromSql(tables), {Table(t) : t \in S})
<1>1. \A t \in S : Given(FromModels(tables), Table(t)) /\ Given(FromSql(tables), Table(t))
  BY ModelsGive, SqlGives
<1> QED
  BY <1>1, ModelsGive, SqlGives DEF PlainGives

LEMMA V1Gives == PlainGives(V0001, Made[1])
<1> DEFINE tables == <<"customers", "connections", "assets", "audit", "outbox">>
<1>1. tables \in Seq({"customers", "connections", "assets", "audit", "outbox"}) /\ DOMAIN tables = 1..5
  OBVIOUS
<1>2. \A t \in {"customers", "connections", "assets", "audit", "outbox"} : \E i \in 1..5 : tables[i] = t
  OBVIOUS
<1>3. IsList(tables) /\ V0001 = FromModels(tables)
  BY <1>1 DEF IsList, V0001
<1>4. Made[1] = {Table(t) : t \in {"customers", "connections", "assets", "audit", "outbox"}}
  BY DEF Made
<1> HIDE DEF tables
<1> QED
  BY <1>1, <1>2, <1>3, <1>4, ModelsDo

LEMMA V4Gives == PlainGives(V0004, Made[4])
<1> DEFINE tables == <<"edit_policies", "edit_state">>
<1>1. tables \in Seq({"edit_policies", "edit_state"}) /\ DOMAIN tables = 1..2
  OBVIOUS
<1>2. \A t \in {"edit_policies", "edit_state"} : \E i \in 1..2 : tables[i] = t
  OBVIOUS
<1>3. IsList(tables) /\ V0004 = FromModels(tables)
  BY <1>1 DEF IsList, V0004
<1>4. Made[4] = {Table(t) : t \in {"edit_policies", "edit_state"}}
  BY DEF Made
<1> HIDE DEF tables
<1> QED
  BY <1>1, <1>2, <1>3, <1>4, ModelsDo

LEMMA V5Gives == PlainGives(V0005, Made[5])
<1> DEFINE tables == <<"tasks", "requests", "jobs", "versions">>
<1>1. tables \in Seq({"tasks", "requests", "jobs", "versions"}) /\ DOMAIN tables = 1..4
  OBVIOUS
<1>2. \A t \in {"tasks", "requests", "jobs", "versions"} : \E i \in 1..4 : tables[i] = t
  OBVIOUS
<1>3. IsList(tables) /\ V0005 = FromModels(tables)
  BY <1>1 DEF IsList, V0005
<1>4. Made[5] = {Table(t) : t \in {"tasks", "requests", "jobs", "versions"}}
  BY DEF Made
<1> HIDE DEF tables
<1> QED
  BY <1>1, <1>2, <1>3, <1>4, ModelsDo

LEMMA V10Gives == PlainGives(V0010, Made[10])
BY AddsDo, GivesJoin DEF V0010, Made

LEMMA V13Gives == PlainGives(V0013, Made[13])
BY AddsDo, GivesJoin DEF V0013, Made

LEMMA V15Gives == PlainGives(V0015, Made[15])
BY AddsDo, GivesJoin DEF V0015, Made

LEMMA V16Gives == PlainGives(V0016, Made[16])
BY AddsDo, GivesJoin DEF V0016, Made

LEMMA V17Gives == PlainGives(V0017, Made[17])
<1>1. \A t, n : n \in Nat => PlainGives(Adds(t, 17, n), Things(t, 17, n))
  BY AddsDo
<1> QED
  BY <1>1, GivesJoin DEF V0017, Made

LEMMA V20Gives == PlainGives(V0020, Made[20])
BY AddsDo, GivesJoin DEF V0020, Made

LEMMA V21Gives == PlainGives(V0021, Made[21])
BY AddsDo, GivesJoin DEF V0021, Made

LEMMA V24Gives == PlainGives(V0024, Made[24])
BY AddsDo, GivesJoin DEF V0024, Made

LEMMA GivesLess ==
  ASSUME NEW s, NEW S, NEW T, PlainGives(s, S), T \subseteq S
  PROVE  PlainGives(s, T)
BY DEF PlainGives

LEMMA UnindexDoes == PlainGives(<<Statement("unindex", "tasks", {OpenByDomain})>>, {})
BY UnindexPlain DEF PlainGives

LEMMA OpenDoes == PlainGives(<<Add(OpenByDomain)>>, {OpenByDomain})
BY AddGives DEF PlainGives

LEMMA V2Gives == PlainGives(V0002, Made[2])
<1> DEFINE tables == <<"secrets">>
           made == {Table(t) : t \in {"secrets"}}
<1>1. tables \in Seq({"secrets"}) /\ DOMAIN tables = 1..1
  OBVIOUS
<1>2. \A t \in {"secrets"} : \E i \in 1..1 : tables[i] = t
  OBVIOUS
<1>3. IsList(tables)
  BY <1>1 DEF IsList
<1> HIDE DEF tables
<1>4. PlainGives(FromModels(tables), made)
  BY <1>1, <1>2, <1>3, ModelsDo
<1>5. PlainGives(Adds("connections", 2, 3) \o FromModels(tables), Things("connections", 2, 3) \union made)
  BY <1>4, AddsDo, GivesJoin
<1>6. Made[2] = Things("connections", 2, 3) \union made
  BY DEF Made
<1> QED
  BY <1>5, <1>6 DEF V0002, tables

LEMMA V3Gives == PlainGives(V0003, Made[3])
<1> DEFINE tables == <<"batch_policies", "batch_state", "cursors">>
           made == {Table(t) : t \in {"batch_policies", "batch_state", "cursors"}}
<1>1. tables \in Seq({"batch_policies", "batch_state", "cursors"}) /\ DOMAIN tables = 1..3
  OBVIOUS
<1>2. \A t \in {"batch_policies", "batch_state", "cursors"} : \E i \in 1..3 : tables[i] = t
  OBVIOUS
<1>3. IsList(tables)
  BY <1>1 DEF IsList
<1> HIDE DEF tables
<1>4. PlainGives(FromModels(tables), made)
  BY <1>1, <1>2, <1>3, ModelsDo
<1>5. PlainGives(Adds("assets", 3, 1) \o FromModels(tables), Things("assets", 3, 1) \union made)
  BY <1>4, AddsDo, GivesJoin
<1>6. Made[3] = Things("assets", 3, 1) \union made
  BY DEF Made
<1> QED
  BY <1>5, <1>6 DEF V0003, tables

LEMMA V8Gives == PlainGives(V0008, Made[8])
<1> DEFINE tables == <<"administrators", "links", "admin_sessions", "sessions">>
           made == {Table(t) : t \in {"administrators", "links", "admin_sessions", "sessions"}}
<1>1. tables \in Seq({"administrators", "links", "admin_sessions", "sessions"}) /\ DOMAIN tables = 1..4
  OBVIOUS
<1>2. \A t \in {"administrators", "links", "admin_sessions", "sessions"} : \E i \in 1..4 : tables[i] = t
  OBVIOUS
<1>3. IsList(tables)
  BY <1>1 DEF IsList
<1> HIDE DEF tables
<1>4. PlainGives(FromModels(tables), made)
  BY <1>1, <1>2, <1>3, ModelsDo
<1>5. PlainGives(Adds("customers", 8, 4) \o Write \o FromModels(tables),
                 (Things("customers", 8, 4) \union {}) \union made)
  <2>1. PlainGives(Adds("customers", 8, 4), Things("customers", 8, 4))
    BY AddsDo
  <2> QED
    BY <1>4, <2>1, WriteDoes, GivesJoin
<1>6. Made[8] \subseteq (Things("customers", 8, 4) \union {}) \union made
  BY DEF Made
<1>7. V0008 = Adds("customers", 8, 4) \o Write \o FromModels(tables)
  BY DEF V0008, tables
<1> QED
  BY <1>5, <1>6, <1>7, GivesLess

LEMMA V9Gives == PlainGives(V0009, Made[9])
<1> DEFINE tables == <<"saved", "records">>
           made == {Table(t) : t \in {"saved", "records"}}
<1>1. tables \in Seq({"saved", "records"}) /\ DOMAIN tables = 1..2
  OBVIOUS
<1>2. \A t \in {"saved", "records"} : \E i \in 1..2 : tables[i] = t
  OBVIOUS
<1>3. IsList(tables)
  BY <1>1 DEF IsList
<1> HIDE DEF tables
<1>4. PlainGives(FromModels(tables), made)
  BY <1>1, <1>2, <1>3, ModelsDo
<1>5. PlainGives(FromModels(tables) \o Adds("tasks", 9, 7) \o <<Add(OpenByDomain)>>,
                 (made \union Things("tasks", 9, 7)) \union {OpenByDomain})
  <2>1. PlainGives(Adds("tasks", 9, 7), Things("tasks", 9, 7))
    BY AddsDo
  <2> QED
    BY <1>4, <2>1, OpenDoes, GivesJoin
<1>6. Made[9] \subseteq (made \union Things("tasks", 9, 7)) \union {OpenByDomain}
  BY DEF Made
<1>7. V0009 = FromModels(tables) \o Adds("tasks", 9, 7) \o <<Add(OpenByDomain)>>
  BY DEF V0009, tables
<1> QED
  BY <1>5, <1>6, <1>7, GivesLess

LEMMA V12Gives == PlainGives(V0012, Made[12])
<1> DEFINE tables == <<"channel", "people", "rules", "snapshots", "deliveries">>
           made == {Table(t) : t \in {"channel", "people", "rules", "snapshots", "deliveries"}}
<1>1. tables \in Seq({"channel", "people", "rules", "snapshots", "deliveries"}) /\ DOMAIN tables = 1..5
  OBVIOUS
<1>2. \A t \in {"channel", "people", "rules", "snapshots", "deliveries"} : \E i \in 1..5 : tables[i] = t
  OBVIOUS
<1>3. IsList(tables)
  BY <1>1 DEF IsList
<1> HIDE DEF tables
<1>4. PlainGives(FromSql(tables), made)
  BY <1>1, <1>2, <1>3, ModelsDo
<1>5. PlainGives(FromSql(tables) \o Adds("outbox", 12, 4) \o Write,
                 (made \union Things("outbox", 12, 4)) \union {})
  BY <1>4, AddsDo, WriteDoes, GivesJoin
<1>6. Made[12] \subseteq (made \union Things("outbox", 12, 4)) \union {}
  BY DEF Made
<1>7. V0012 = FromSql(tables) \o Adds("outbox", 12, 4) \o Write
  BY DEF V0012, tables
<1> QED
  BY <1>5, <1>6, <1>7, GivesLess

LEMMA V11Gives == PlainGives(V0011, Made[11])
<1> DEFINE s == <<Statement("unindex", "tasks", {OpenByDomain})>>
<1>1. PlainGives(s, {})
  BY UnindexDoes
<1>2. V0011 = s \o Write \o Write \o Adds("tasks", 11, 1)
  BY DEF V0011
<1> HIDE DEF s
<1>3. PlainGives(s \o Write \o Write \o Adds("tasks", 11, 1),
                 (({} \union {}) \union {}) \union Things("tasks", 11, 1))
  BY <1>1, WriteDoes, AddsDo, GivesJoin
<1>4. Made[11] \subseteq (({} \union {}) \union {}) \union Things("tasks", 11, 1)
  BY DEF Made
<1> QED
  BY <1>2, <1>3, <1>4, GivesLess

LEMMA V14Gives == PlainGives(V0014, Made[14])
<1>1. PlainGives(Adds("requests", 14, 2) \o Write, Things("requests", 14, 2) \union {})
  BY AddsDo, WriteDoes, GivesJoin
<1>2. Made[14] \subseteq Things("requests", 14, 2) \union {}
  BY DEF Made
<1> QED
  BY <1>1, <1>2, GivesLess DEF V0014

LEMMA V23Gives == PlainGives(V0023, Made[23])
<1>1. PlainGives(Adds("tasks", 23, 2) \o Write, Things("tasks", 23, 2) \union {})
  BY AddsDo, WriteDoes, GivesJoin
<1>2. Made[23] \subseteq Things("tasks", 23, 2) \union {}
  BY DEF Made
<1> QED
  BY <1>1, <1>2, GivesLess DEF V0023

LEMMA V19Gives == PlainGives(V0019, Made[19])
BY WriteDoes DEF V0019, Made

\* The index of v0022 comes with the column only.
LEMMA V22Gives ==
  Plain(V0022) /\ \A x \in Left(22) : x \in view.things \/ Given(V0022, x)
<1> DEFINE column == <<"connections", 22, 1>>
<1>1. CASE column \in view.things
  <2>1. \A x \in Left(22) : x = column
    <3> SUFFICES ASSUME NEW i \in 1..2, <<"connections", 22, i>> # <<"connections", 22, 2>>
                 PROVE  i = 1
      BY DEF Left, Made, Things, MayLack
    <3> QED
      OBVIOUS
  <2>2. V0022 = << >>
    BY <1>1 DEF V0022
  <2> QED
    BY <1>1, <2>1, <2>2, EmptyPlain
<1>2. CASE column \notin view.things
  <2>1. V0022 = Adds("connections", 22, 2)
    BY <1>2 DEF V0022
  <2>2. Left(22) \subseteq Things("connections", 22, 2)
    BY DEF Left, Made
  <2> QED
    BY <2>1, <2>2, AddsGive
<1> QED
  BY <1>1, <1>2

-----------------------------------------------------------------------------
(* Migrations: the rebuilt tables.                                         *)

\* What the versions up to v0018 make of the tables that are rebuilt.
VersionsThings == {Table("versions")} \union Things("versions", 6, 2)
JobsThings(v) ==
  {Table("jobs")} \union Things("jobs", 7, 2)
    \union IF v < 18 THEN {}
           ELSE Things("jobs", 15, 2) \union Things("jobs", 17, 1) \union Things("jobs", 18, 1)
AssetsThings ==
  {Table("assets")} \union Things("assets", 3, 1) \union Things("assets", 17, 2)
    \union Things("assets", 18, 1)
RequestsThings ==
  {Table("requests")} \union Things("requests", 14, 2) \union Things("requests", 17, 4)
    \union Things("requests", 18, 1)

LEMMA ThingsOf ==
  /\ \A t, v, n : \A x \in Things(t, v, n) : x[1] = t
  /\ \A t : Table(t)[1] = t
BY DEF Things, Table

LEMMA EarlyThings ==
  \A v \in 1..7 : \A x \in Made[v] :
    /\ x[1] = "versions" => x \in VersionsThings
    /\ x[1] = "jobs" => x \in JobsThings(7) \intersect JobsThings(18)
    /\ x[1] = "assets" => x \in AssetsThings
    /\ x[1] = "requests" => x \in RequestsThings
<1> DEFINE Fits(v) == \A x \in Made[v] :
             /\ x[1] = "versions" => x \in VersionsThings
             /\ x[1] = "jobs" => x \in JobsThings(7) \intersect JobsThings(18)
             /\ x[1] = "assets" => x \in AssetsThings
             /\ x[1] = "requests" => x \in RequestsThings
<1>1. Fits(1) BY ThingsOf DEF Made, AssetsThings
<1>2. Fits(2) BY ThingsOf DEF Made
<1>3. Fits(3) BY ThingsOf DEF Made, AssetsThings
<1>4. Fits(4) BY ThingsOf DEF Made
<1>5. Fits(5) BY ThingsOf DEF Made, VersionsThings, JobsThings, RequestsThings
<1>6. Fits(6) BY ThingsOf DEF Made, VersionsThings
<1>7. Fits(7) BY ThingsOf DEF Made, JobsThings
<1> HIDE DEF Fits
<1>8. \A v \in 1..7 : Fits(v)
  BY <1>1, <1>2, <1>3, <1>4, <1>5, <1>6, <1>7
<1> QED
  BY <1>8 DEF Fits

LEMMA LateThings ==
  \A v \in 8..18 : \A x \in Made[v] :
    /\ x[1] = "jobs" => x \in JobsThings(18)
    /\ x[1] = "assets" => x \in AssetsThings
    /\ x[1] = "requests" => x \in RequestsThings
<1> DEFINE Fits(v) == \A x \in Made[v] :
             /\ x[1] = "jobs" => x \in JobsThings(18)
             /\ x[1] = "assets" => x \in AssetsThings
             /\ x[1] = "requests" => x \in RequestsThings
<1>8. Fits(8) BY ThingsOf DEF Made
<1>9. Fits(9) BY ThingsOf DEF Made
<1>10. Fits(10) BY ThingsOf DEF Made
<1>11. Fits(11) BY ThingsOf DEF Made
<1>12. Fits(12) BY ThingsOf DEF Made
<1>13. Fits(13) BY ThingsOf DEF Made
<1>14. Fits(14) BY ThingsOf DEF Made, RequestsThings
<1>15. Fits(15) BY ThingsOf DEF Made, JobsThings
<1>16. Fits(16) BY ThingsOf DEF Made
<1>17. Fits(17) BY ThingsOf DEF Made, JobsThings, AssetsThings, RequestsThings
<1>18. Fits(18) BY ThingsOf DEF Made, JobsThings, AssetsThings, RequestsThings
<1> HIDE DEF Fits
<1>1. \A v \in 8..18 : v = 8 \/ v = 9 \/ v = 10 \/ v = 11 \/ v = 12 \/ v = 13 \/ v = 14
                       \/ v = 15 \/ v = 16 \/ v = 17 \/ v = 18
  OBVIOUS
<1>2. \A v \in 8..18 : Fits(v)
  BY <1>1, <1>8, <1>9, <1>10, <1>11, <1>12, <1>13, <1>14, <1>15, <1>16, <1>17, <1>18
<1> QED
  BY <1>2 DEF Fits

\* The connection sees made, or the list gives it; and of all, nothing is lost.
Makes(s, made, all) ==
  Block(s, all) /\ \A x \in made : x \in view.things \/ Given(s, x)

LEMMA MakesJoin ==
  ASSUME NEW a, NEW b, NEW S, NEW T, NEW all, Makes(a, S, all), Makes(b, T, all)
  PROVE  Makes(a \o b, S \union T, all)
<1>1. Block(a, all) /\ Block(b, all) /\ IsList(a) /\ IsList(b)
  BY DEF Makes, Block
<1>2. Block(a \o b, all)
  BY <1>1, BlockJoins
<1>3. \A x : Given(a, x) \/ Given(b, x) => Given(a \o b, x)
  BY <1>1, GivenJoins
<1> QED
  BY <1>2, <1>3 DEF Makes

LEMMA PlainMakes ==
  ASSUME NEW s, NEW made, NEW all, PlainGives(s, made)
  PROVE  Makes(s, made, all)
BY PlainBlock DEF PlainGives, Makes

LEMMA EmptyMakes ==
  ASSUME NEW made, NEW all, made \subseteq view.things
  PROVE  Makes(<< >>, made, all)
BY PlainBlock, EmptyPlain DEF Makes

LEMMA UpToSplits ==
  \A n \in 1..24 : LeftUpTo(n) = LeftUpTo(n - 1) \union Left(n)
<1> SUFFICES ASSUME NEW n \in 1..24 PROVE LeftUpTo(n) = LeftUpTo(n - 1) \union Left(n)
  OBVIOUS
<1>1. 1..n = (1..(n - 1)) \union {n}
  OBVIOUS
<1> QED
  BY <1>1 DEF LeftUpTo

LEMMA UpToFits ==
  /\ \A x \in LeftUpTo(6) : x[1] = "versions" => x \in VersionsThings
  /\ \A x \in LeftUpTo(7) : x[1] = "jobs" => x \in JobsThings(7)
  /\ \A x \in LeftUpTo(18) : /\ x[1] = "jobs" => x \in JobsThings(18)
                             /\ x[1] = "assets" => x \in AssetsThings
                             /\ x[1] = "requests" => x \in RequestsThings
<1>1. \A n \in 1..24 : \A x \in LeftUpTo(n) : \E v \in 1..n : x \in Made[v]
  BY DEF LeftUpTo, Left
<1>2. \A x \in LeftUpTo(6) : \E v \in 1..7 : x \in Made[v]
  BY <1>1
<1>3. \A x \in LeftUpTo(7) : \E v \in 1..7 : x \in Made[v]
  BY <1>1
<1>4. \A x \in LeftUpTo(18) : (\E v \in 1..7 : x \in Made[v]) \/ \E v \in 8..18 : x \in Made[v]
  <2> SUFFICES ASSUME NEW x \in LeftUpTo(18)
               PROVE  (\E v \in 1..7 : x \in Made[v]) \/ \E v \in 8..18 : x \in Made[v]
    OBVIOUS
  <2>1. PICK v \in 1..18 : x \in Made[v]
    BY <1>1
  <2>2. v \in 1..7 \/ v \in 8..18
    OBVIOUS
  <2> QED
    BY <2>1, <2>2
<1> QED
  BY <1>2, <1>3, <1>4, EarlyThings, LateThings

LEMMA V6Makes == Makes(V0006, Left(6), LeftUpTo(6))
<1> DEFINE tables == <<"edits">>
           made == {Table(t) : t \in {"edits"}}
           column == <<"versions", 6, 1>>
           index == <<"versions", 6, 2>>
           rebuild == IF column \in view.things THEN << >>
                      ELSE Rebuild("versions", {column}, {index})
<1>1. tables \in Seq({"edits"}) /\ DOMAIN tables = 1..1
  OBVIOUS
<1>2. \A t \in {"edits"} : \E i \in 1..1 : tables[i] = t
  OBVIOUS
<1>3. IsList(tables)
  BY <1>1 DEF IsList
<1>4. V0006 = FromModels(tables) \o rebuild
  BY DEF V0006
<1>5. Left(6) \subseteq made \union {column}
  BY DEF Left, Made, Things, MayLack
<1> HIDE DEF tables
<1>6. Makes(FromModels(tables), made, LeftUpTo(6))
  BY <1>1, <1>2, <1>3, ModelsDo, PlainMakes
<1>7. Makes(rebuild, {column}, LeftUpTo(6))
  <2>1. CASE column \in view.things
    BY <2>1, EmptyMakes
  <2>2. CASE column \notin view.things
    <3>1. VersionsThings = {Table("versions")} \union {column} \union {index}
      BY DEF VersionsThings, Things
    <3>2. \A x \in LeftUpTo(6) : x[1] = "versions" => x \in {Table("versions")} \union {column} \union {index}
      BY <3>1, UpToFits
    <3>3. /\ Block(Rebuild("versions", {column}, {index}), LeftUpTo(6))
          /\ \A x \in {column} \union {index} : Given(Rebuild("versions", {column}, {index}), x)
      <4> HIDE DEF column, index
      <4> QED
        BY <3>2, RebuildGives
    <3> QED
      BY <2>2, <3>3 DEF Makes
  <2> QED
    BY <2>1, <2>2
<1> HIDE DEF rebuild, column, index, made
<1>8. Makes(FromModels(tables) \o rebuild, made \union {column}, LeftUpTo(6))
  BY <1>6, <1>7, MakesJoin
<1> QED
  BY <1>4, <1>5, <1>8 DEF Makes

LEMMA V7Makes == Makes(V0007, Left(7), LeftUpTo(7))
<1> DEFINE column == <<"jobs", 7, 1>>
           index == <<"jobs", 7, 2>>
<1>1. V0007 = IF column \in view.things THEN << >> ELSE Rebuild("jobs", {column}, {index})
  BY DEF V0007
<1>2. Left(7) \subseteq {column}
  BY DEF Left, Made, Things, MayLack
<1>3. JobsThings(7) = {Table("jobs")} \union {column} \union {index}
  BY DEF JobsThings, Things
<1>4. \A x \in LeftUpTo(7) : x[1] = "jobs" => x \in {Table("jobs")} \union {column} \union {index}
  BY <1>3, UpToFits
<1> HIDE DEF column, index
<1>5. CASE column \in view.things
  <2>1. Left(7) \subseteq view.things
    BY <1>2, <1>5
  <2> QED
    BY <1>1, <1>5, <2>1, EmptyMakes
<1>6. CASE column \notin view.things
  <2>1. /\ Block(Rebuild("jobs", {column}, {index}), LeftUpTo(7))
        /\ \A x \in {column} \union {index} : Given(Rebuild("jobs", {column}, {index}), x)
    BY <1>4, RebuildGives
  <2> QED
    BY <1>1, <1>2, <1>6, <2>1 DEF Makes
<1> QED
  BY <1>5, <1>6

\* The rebuild of v0018 makes the indexes again that there were.
LEMMA RepairedMakes ==
  ASSUME NEW t, NEW columns, NEW indexes,
         \A x \in LeftUpTo(18) : x[1] = t =>
           x \in {Table(t)} \union (columns \union {<<t, 18, 1>>})
                 \union (indexes \intersect view.things),
         columns \subseteq view.things
  PROVE  Makes(Repaired(t, columns, indexes), {<<t, 18, 1>>}, LeftUpTo(18))
<1> DEFINE key == <<t, 18, 1>>
           all == columns \union {key}
           were == indexes \intersect view.things
<1>1. Repaired(t, columns, indexes) =
        IF key \in view.things THEN << >> ELSE Rebuild(t, all, were)
  BY DEF Repaired
<1>2. \A x \in LeftUpTo(18) : x[1] = t => x \in {Table(t)} \union all \union were
  OBVIOUS
<1> HIDE DEF key, all, were
<1>3. /\ Block(Rebuild(t, all, were), LeftUpTo(18))
      /\ \A x \in all \union were : Given(Rebuild(t, all, were), x)
  BY ONLY <1>2, RebuildGives
<1>4. Makes(Repaired(t, columns, indexes), {key}, LeftUpTo(18))
  BY <1>1, <1>3, EmptyMakes DEF Makes, all
<1> QED
  BY <1>4 DEF key

\* What may be lacking is left by none.
LEMMA LeftLacks == \A n : \A x \in LeftUpTo(n) : x \notin MayLack
BY DEF LeftUpTo, Left

LEMMA V18Makes ==
  ASSUME LeftUpTo(17) \subseteq view.things
  PROVE  Makes(V0018, Left(18), LeftUpTo(18))
<1>1. \A v \in 1..17 : Left(v) \subseteq view.things
  BY DEF LeftUpTo
<1>2. \A v \in {3, 7, 14, 15, 17} : Left(v) \subseteq view.things
  BY <1>1
<1>3. /\ {<<"assets", 3, 1>>, <<"assets", 17, 1>>} \subseteq view.things
      /\ Things("requests", 14, 2) \union Things("requests", 17, 4) \subseteq view.things
      /\ {<<"jobs", 7, 1>>} \union Things("jobs", 15, 2) \union Things("jobs", 17, 1)
           \subseteq view.things
  BY <1>2 DEF Left, Made, Things, MayLack
<1>9. <<"assets", 17, 1>> \in view.things /\ <<"assets", 17, 2>> \in view.things
  BY <1>2 DEF Left, Made, Things, MayLack
<1>4. Makes(RepairedAssets, {<<"assets", 18, 1>>}, LeftUpTo(18))
  <2> DEFINE columns == {<<"assets", 3, 1>>, <<"assets", 17, 1>>}
             indexes == {<<"assets", 17, 2>>}
  <2>1. \A x \in AssetsThings :
          x \in {Table("assets")} \union (columns \union {<<"assets", 18, 1>>})
                \union (indexes \intersect view.things)
    BY <1>9 DEF AssetsThings, Things
  <2>2. \A x \in LeftUpTo(18) : x[1] = "assets" =>
          x \in {Table("assets")} \union (columns \union {<<"assets", 18, 1>>})
                \union (indexes \intersect view.things)
    BY <2>1, UpToFits
  <2>3. columns \subseteq view.things /\ RepairedAssets = Repaired("assets", columns, indexes)
    BY <1>3 DEF RepairedAssets
  <2> HIDE DEF columns, indexes
  <2> QED
    BY <2>2, <2>3, RepairedMakes
<1>5. Makes(RepairedRequests, {<<"requests", 18, 1>>}, LeftUpTo(18))
  <2> DEFINE columns == Things("requests", 14, 2) \union Things("requests", 17, 4)
  <2>1. \A x \in LeftUpTo(18) : x[1] = "requests" =>
          x \in {Table("requests")} \union (columns \union {<<"requests", 18, 1>>})
                \union ({} \intersect view.things)
    BY UpToFits DEF RequestsThings, Things
  <2>2. columns \subseteq view.things /\ RepairedRequests = Repaired("requests", columns, {})
    BY <1>3 DEF RepairedRequests
  <2> HIDE DEF columns
  <2> QED
    BY <2>1, <2>2, RepairedMakes
<1>6. Makes(RepairedJobs, {<<"jobs", 18, 1>>}, LeftUpTo(18))
  <2> DEFINE columns == {<<"jobs", 7, 1>>} \union Things("jobs", 15, 2) \union Things("jobs", 17, 1)
             indexes == {<<"jobs", 7, 2>>}
  <2>1. \A x \in JobsThings(18) : x = <<"jobs", 7, 2>>
          \/ x \in {Table("jobs")} \union (columns \union {<<"jobs", 18, 1>>})
    BY DEF JobsThings, Things
  <2>2. \A x \in LeftUpTo(18) : x[1] = "jobs" =>
          x \in {Table("jobs")} \union (columns \union {<<"jobs", 18, 1>>})
                \union (indexes \intersect view.things)
    BY <2>1, UpToFits, LeftLacks DEF MayLack
  <2>3. columns \subseteq view.things /\ RepairedJobs = Repaired("jobs", columns, indexes)
    BY <1>3 DEF RepairedJobs
  <2> HIDE DEF columns, indexes
  <2> QED
    BY <2>2, <2>3, RepairedMakes
<1>7. Left(18) \subseteq {<<"assets", 18, 1>>} \union {<<"requests", 18, 1>>}
                         \union {<<"jobs", 18, 1>>}
  BY DEF Left, Made, Things, MayLack
<1>8. Makes(V0018, {<<"assets", 18, 1>>} \union {<<"requests", 18, 1>>}
                         \union {<<"jobs", 18, 1>>}, LeftUpTo(18))
  BY <1>4, <1>5, <1>6, MakesJoin DEF V0018
<1> QED
  BY <1>7, <1>8 DEF Makes

LEMMA ReleasesAre == Releases = 1..24
BY DEF Releases, Made

LEMMA MadeMakes ==
  ASSUME NEW s, NEW v, NEW all, PlainGives(s, Made[v])
  PROVE  Makes(s, Left(v), all)
BY PlainMakes, GivesLess DEF Left

LEMMA V22Makes == \A all : Makes(V0022, Left(22), all)
BY V22Gives, PlainBlock DEF Makes

\* What a version does to a database that has what the versions before it made.
LEMMA UpgradeMakes ==
  ASSUME NEW v \in Releases, LeftUpTo(v - 1) \subseteq view.things
  PROVE  Makes(Upgrade(v), Left(v), LeftUpTo(v))
<1> DEFINE Fits(n) == Makes(Upgrade(n), Left(n), LeftUpTo(n))
<1>1. Fits(1)
  <2>1. Upgrade(1) = V0001
    BY DEF Upgrade
  <2> QED
    BY V1Gives, MadeMakes, <2>1
<1>2. Fits(2)
  <2>1. Upgrade(2) = V0002
    BY DEF Upgrade
  <2> QED
    BY V2Gives, MadeMakes, <2>1
<1>3. Fits(3)
  <2>1. Upgrade(3) = V0003
    BY DEF Upgrade
  <2> QED
    BY V3Gives, MadeMakes, <2>1
<1>4. Fits(4)
  <2>1. Upgrade(4) = V0004
    BY DEF Upgrade
  <2> QED
    BY V4Gives, MadeMakes, <2>1
<1>5. Fits(5)
  <2>1. Upgrade(5) = V0005
    BY DEF Upgrade
  <2> QED
    BY V5Gives, MadeMakes, <2>1
<1>6. Fits(6)
  <2>1. Upgrade(6) = V0006
    BY DEF Upgrade
  <2> QED
    BY V6Makes, <2>1
<1>7. Fits(7)
  <2>1. Upgrade(7) = V0007
    BY DEF Upgrade
  <2> QED
    BY V7Makes, <2>1
<1>8. Fits(8)
  <2>1. Upgrade(8) = V0008
    BY DEF Upgrade
  <2> QED
    BY V8Gives, MadeMakes, <2>1
<1>9. Fits(9)
  <2>1. Upgrade(9) = V0009
    BY DEF Upgrade
  <2> QED
    BY V9Gives, MadeMakes, <2>1
<1>10. Fits(10)
  <2>1. Upgrade(10) = V0010
    BY DEF Upgrade
  <2> QED
    BY V10Gives, MadeMakes, <2>1
<1>11. Fits(11)
  <2>1. Upgrade(11) = V0011
    BY DEF Upgrade
  <2> QED
    BY V11Gives, MadeMakes, <2>1
<1>12. Fits(12)
  <2>1. Upgrade(12) = V0012
    BY DEF Upgrade
  <2> QED
    BY V12Gives, MadeMakes, <2>1
<1>13. Fits(13)
  <2>1. Upgrade(13) = V0013
    BY DEF Upgrade
  <2> QED
    BY V13Gives, MadeMakes, <2>1
<1>14. Fits(14)
  <2>1. Upgrade(14) = V0014
    BY DEF Upgrade
  <2> QED
    BY V14Gives, MadeMakes, <2>1
<1>15. Fits(15)
  <2>1. Upgrade(15) = V0015
    BY DEF Upgrade
  <2> QED
    BY V15Gives, MadeMakes, <2>1
<1>16. Fits(16)
  <2>1. Upgrade(16) = V0016
    BY DEF Upgrade
  <2> QED
    BY V16Gives, MadeMakes, <2>1
<1>17. Fits(17)
  <2>1. Upgrade(17) = V0017
    BY DEF Upgrade
  <2> QED
    BY V17Gives, MadeMakes, <2>1
<1>18. v = 18 => Fits(18)
  <2>1. Upgrade(18) = V0018
    BY DEF Upgrade
  <2> SUFFICES ASSUME v = 18 PROVE Makes(V0018, Left(18), LeftUpTo(18))
    BY <2>1
  <2> QED
    BY V18Makes
<1>19. Fits(19)
  <2>1. Upgrade(19) = V0019
    BY DEF Upgrade
  <2> QED
    BY V19Gives, MadeMakes, <2>1
<1>20. Fits(20)
  <2>1. Upgrade(20) = V0020
    BY DEF Upgrade
  <2> QED
    BY V20Gives, MadeMakes, <2>1
<1>21. Fits(21)
  <2>1. Upgrade(21) = V0021
    BY DEF Upgrade
  <2> QED
    BY V21Gives, MadeMakes, <2>1
<1>22. Fits(22)
  <2>1. Upgrade(22) = V0022
    BY DEF Upgrade
  <2> QED
    BY V22Makes, <2>1
<1>23. Fits(23)
  <2>1. Upgrade(23) = V0023
    BY DEF Upgrade
  <2> QED
    BY V23Gives, MadeMakes, <2>1
<1>24. Fits(24)
  <2>1. Upgrade(24) = V0024
    BY DEF Upgrade
  <2> QED
    BY V24Gives, MadeMakes, <2>1
<1> HIDE DEF Fits
<1>25. v \in 1..24
  BY ReleasesAre
<1>26. CASE v \in 1..12
  <2>1. v = 1 \/ v = 2 \/ v = 3 \/ v = 4 \/ v = 5 \/ v = 6 \/ v = 7 \/ v = 8 \/ v = 9 \/ v = 10 \/ v = 11 \/ v = 12
    BY <1>26
  <2>2. Fits(v)
    BY <2>1, <1>1, <1>2, <1>3, <1>4, <1>5, <1>6, <1>7, <1>8, <1>9, <1>10, <1>11, <1>12
  <2> QED
    BY <2>2 DEF Fits
<1>27. CASE v \in 13..24
  <2>1. v = 13 \/ v = 14 \/ v = 15 \/ v = 16 \/ v = 17 \/ v = 18 \/ v = 19 \/ v = 20 \/ v = 21 \/ v = 22 \/ v = 23 \/ v = 24
    BY <1>27
  <2>2. Fits(v)
    BY <2>1, <1>13, <1>14, <1>15, <1>16, <1>17, <1>18, <1>19, <1>20, <1>21, <1>22, <1>23, <1>24
  <2> QED
    BY <2>2 DEF Fits
<1> QED
  BY <1>25, <1>26, <1>27

-----------------------------------------------------------------------------
(* Migrations: the database after a statement, and the invariant.          *)

IsDatabase(d) ==
  d = [things |-> d.things, rows |-> d.rows, temps |-> d.temps, copied |-> d.copied,
       ledger |-> d.ledger]

\* What the file keeps, wherever the start is stopped.
Kept(d) ==
  /\ IsDatabase(d) /\ held \subseteq d.rows
  /\ \E n \in 0..24 : d.ledger = 1..n /\ LeftUpTo(n) \subseteq d.things

\* The statements of version v that are left, and what is still to come back.
Doing(v) ==
  /\ IsList(todo) /\ Ordered(todo) /\ Whole(todo, LeftUpTo(v))
  /\ \A i \in DOMAIN todo :
       IF i = Len(todo) THEN todo[i].does = "record" /\ todo[i].things = {v} ELSE Known(todo[i])
  /\ \A x \in LeftUpTo(v) : x \in view.things \/ Given(todo, x)
  /\ \A t \in held :
       t \in view.rows \/ (t \in view.copied /\ todo[1].does = "rename" /\ todo[1].table = t)
  /\ todo[1].does = "drop" /\ todo[1].table \in held => todo[1].table \in view.copied
  /\ todo[1].does \in {"drop", "rename"} => writing

Upgrading ==
  /\ IsDatabase(view)
  /\ ~writing => file = view
  /\ IF todo = << >> THEN Kept(view)
     ELSE \E v \in Releases : view.ledger = 1..(v - 1) /\ Doing(v)

MigrationsInv == Kept(file) /\ (start = "up" => Upgrading)

\* What the statements do, field by field.
LEMMA AfterAdds ==
  ASSUME NEW s, NEW d, IsDatabase(d), s.does \in {"add", "index"}
  PROVE  /\ IsDatabase(After(s, d)) /\ After(s, d).things = d.things \union s.things
         /\ After(s, d).rows = d.rows /\ After(s, d).copied = d.copied
         /\ After(s, d).ledger = d.ledger
<1>1. After(s, d) = [d EXCEPT !.things = d.things \union s.things]
  BY DEF After
<1> QED
  BY <1>1 DEF IsDatabase

LEMMA AfterUnindex ==
  ASSUME NEW s, NEW d, IsDatabase(d), s.does = "unindex"
  PROVE  /\ IsDatabase(After(s, d)) /\ After(s, d).things = d.things \ s.things
         /\ After(s, d).rows = d.rows /\ After(s, d).copied = d.copied
         /\ After(s, d).ledger = d.ledger
<1>1. After(s, d) = [d EXCEPT !.things = d.things \ s.things]
  BY DEF After
<1> QED
  BY <1>1 DEF IsDatabase

LEMMA AfterModel ==
  ASSUME NEW s, NEW d, IsDatabase(d), s.does = "model"
  PROVE  /\ IsDatabase(After(s, d)) /\ Table(s.table) \in After(s, d).things
         /\ \/ After(s, d).things = d.things
            \/ After(s, d).things =
                 d.things \union {Table(s.table)} \union (Model(s.table) \ ModelIndexes)
         /\ After(s, d).rows = d.rows /\ After(s, d).copied = d.copied
         /\ After(s, d).ledger = d.ledger
<1>1. CASE Table(s.table) \in d.things
  <2>1. After(s, d) = d
    BY <1>1 DEF After
  <2> QED
    BY <1>1, <2>1
<1>2. CASE Table(s.table) \notin d.things
  <2>1. After(s, d) =
          [d EXCEPT !.things = d.things \union {Table(s.table)}
                                 \union (Model(s.table) \ ModelIndexes)]
    BY <1>2 DEF After
  <2> QED
    BY <2>1 DEF IsDatabase
<1> QED
  BY <1>1, <1>2

LEMMA AfterOthers ==
  ASSUME NEW s, NEW d, IsDatabase(d), s.does \in {"write", "create"}
  PROVE  /\ IsDatabase(After(s, d)) /\ After(s, d).things = d.things
         /\ After(s, d).rows = d.rows /\ After(s, d).copied = d.copied
         /\ After(s, d).ledger = d.ledger
<1>1. CASE s.does = "write"
  <2>1. After(s, d) = d
    BY <1>1 DEF After
  <2> QED
    BY <2>1
<1>2. CASE s.does = "create"
  <2>1. After(s, d) = [d EXCEPT !.temps = d.temps \union {s.table}]
    BY <1>2 DEF After
  <2> QED
    BY <2>1 DEF IsDatabase
<1> QED
  BY <1>1, <1>2

LEMMA AfterRecord ==
  ASSUME NEW s, NEW d, IsDatabase(d), s.does = "record"
  PROVE  /\ IsDatabase(After(s, d)) /\ After(s, d).things = d.things
         /\ After(s, d).rows = d.rows /\ After(s, d).copied = d.copied
         /\ After(s, d).ledger = d.ledger \union s.things
<1>1. After(s, d) = [d EXCEPT !.ledger = d.ledger \union s.things]
  BY DEF After
<1> QED
  BY <1>1 DEF IsDatabase

LEMMA AfterCopy ==
  ASSUME NEW s, NEW d, IsDatabase(d), s.does = "copy"
  PROVE  /\ IsDatabase(After(s, d)) /\ After(s, d).things = d.things
         /\ After(s, d).rows = d.rows /\ After(s, d).ledger = d.ledger
         /\ s.table \in d.rows => s.table \in After(s, d).copied
<1>1. After(s, d) = [d EXCEPT !.copied = d.copied \union ({s.table} \intersect d.rows)]
  BY DEF After
<1> QED
  BY <1>1 DEF IsDatabase

LEMMA AfterDrop ==
  ASSUME NEW s, NEW d, IsDatabase(d), s.does = "drop"
  PROVE  /\ IsDatabase(After(s, d))
         /\ After(s, d).things = {x \in d.things : x[1] # s.table}
         /\ After(s, d).rows = d.rows \ {s.table} /\ After(s, d).copied = d.copied
         /\ After(s, d).ledger = d.ledger
<1> DEFINE left == {x \in d.things : x[1] # s.table}
           rows == d.rows \ {s.table}
<1>1. After(s, d) = [d EXCEPT !.things = left, !.rows = rows]
  BY DEF After
<1> HIDE DEF left, rows
<1>2. After(s, d) = [things |-> left, rows |-> rows, temps |-> d.temps,
                     copied |-> d.copied, ledger |-> d.ledger]
  BY <1>1 DEF IsDatabase
<1>3. /\ IsDatabase(After(s, d)) /\ After(s, d).things = left /\ After(s, d).rows = rows
      /\ After(s, d).copied = d.copied /\ After(s, d).ledger = d.ledger
  BY <1>2 DEF IsDatabase
<1> QED
  BY <1>3 DEF left, rows

LEMMA AfterRename ==
  ASSUME NEW s, NEW d, IsDatabase(d), s.does = "rename"
  PROVE  /\ IsDatabase(After(s, d))
         /\ After(s, d).things = d.things \union {Table(s.table)} \union s.things
         /\ After(s, d).rows = d.rows \union ({s.table} \intersect d.copied)
         /\ After(s, d).ledger = d.ledger
<1> DEFINE things == d.things \union {Table(s.table)} \union s.things
           rows == d.rows \union ({s.table} \intersect d.copied)
           temps == d.temps \ {s.table}
           copied == d.copied \ {s.table}
<1>1. After(s, d) = [d EXCEPT !.things = things, !.rows = rows, !.temps = temps,
                              !.copied = copied]
  BY DEF After
<1> HIDE DEF things, rows, temps, copied
<1>2. After(s, d) = [things |-> things, rows |-> rows, temps |-> temps,
                     copied |-> copied, ledger |-> d.ledger]
  BY <1>1 DEF IsDatabase
<1>3. /\ IsDatabase(After(s, d)) /\ After(s, d).things = things /\ After(s, d).rows = rows
      /\ After(s, d).ledger = d.ledger
  BY <1>2 DEF IsDatabase
<1> QED
  BY <1>3 DEF things, rows

\* A thing names the version that makes it; a table names none.
LEMMA MadeBy == \A v \in Releases : \A x \in Made[v] : x[2] \in {0, v}
<1> DEFINE Fits(v) == \A x \in Made[v] : x[2] \in {0, v}
<1>25. \A t, v, n : \A x \in Things(t, v, n) : x[2] = v
  BY DEF Things
<1>26. \A t : Table(t)[2] = 0
  BY DEF Table
<1>1. Fits(1) BY <1>25, <1>26 DEF Made
<1>2. Fits(2) BY <1>25, <1>26 DEF Made
<1>3. Fits(3) BY <1>25, <1>26 DEF Made
<1>4. Fits(4) BY <1>25, <1>26 DEF Made
<1>5. Fits(5) BY <1>25, <1>26 DEF Made
<1>6. Fits(6) BY <1>25, <1>26 DEF Made
<1>7. Fits(7) BY <1>25, <1>26 DEF Made
<1>8. Fits(8) BY <1>25, <1>26 DEF Made
<1>9. Fits(9) BY <1>25, <1>26 DEF Made
<1>10. Fits(10) BY <1>25, <1>26 DEF Made
<1>11. Fits(11) BY <1>25, <1>26 DEF Made
<1>12. Fits(12) BY <1>25, <1>26 DEF Made
<1>13. Fits(13) BY <1>25, <1>26 DEF Made
<1>14. Fits(14) BY <1>25, <1>26 DEF Made
<1>15. Fits(15) BY <1>25, <1>26 DEF Made
<1>16. Fits(16) BY <1>25, <1>26 DEF Made
<1>17. Fits(17) BY <1>25, <1>26 DEF Made
<1>18. Fits(18) BY <1>25, <1>26 DEF Made
<1>19. Fits(19) BY <1>25, <1>26 DEF Made
<1>20. Fits(20) BY <1>25, <1>26 DEF Made
<1>21. Fits(21) BY <1>25, <1>26 DEF Made
<1>22. Fits(22) BY <1>25, <1>26 DEF Made
<1>23. Fits(23) BY <1>25, <1>26 DEF Made
<1>24. Fits(24) BY <1>25, <1>26 DEF Made
<1> HIDE DEF Fits
<1>27. \A v \in 1..12 : Fits(v)
  <2>1. \A v \in 1..12 : v = 1 \/ v = 2 \/ v = 3 \/ v = 4 \/ v = 5 \/ v = 6
                        \/ v = 7 \/ v = 8 \/ v = 9 \/ v = 10 \/ v = 11 \/ v = 12
    OBVIOUS
  <2> QED
    BY <2>1, <1>1, <1>2, <1>3, <1>4, <1>5, <1>6, <1>7, <1>8, <1>9, <1>10, <1>11, <1>12
<1>28. \A v \in 13..24 : Fits(v)
  <2>1. \A v \in 13..24 : v = 13 \/ v = 14 \/ v = 15 \/ v = 16 \/ v = 17 \/ v = 18
                         \/ v = 19 \/ v = 20 \/ v = 21 \/ v = 22 \/ v = 23 \/ v = 24
    OBVIOUS
  <2> QED
    BY <2>1, <1>13, <1>14, <1>15, <1>16, <1>17, <1>18,
       <1>19, <1>20, <1>21, <1>22, <1>23, <1>24
<1>29. \A v \in Releases : v \in 1..12 \/ v \in 13..24
  BY ReleasesAre
<1> QED
  BY <1>27, <1>28, <1>29 DEF Fits

LEMMA ThingsAfter ==
  ASSUME NEW s, NEW d, IsDatabase(d), Known(s)
  PROVE  /\ IsDatabase(After(s, d)) /\ After(s, d).ledger = d.ledger
         /\ \A x : x # OpenByDomain =>
              /\ Gets(s, x) => x \in After(s, d).things
              /\ x \in d.things => x \in After(s, d).things \/ (s.does = "drop" /\ x[1] = s.table)
<1> DEFINE r == After(s, d)
<1>1. CASE s.does \in {"add", "index"}
  <2>1. r.things = d.things \union s.things /\ IsDatabase(r) /\ r.ledger = d.ledger
    BY <1>1, AfterAdds
  <2> QED
    BY <1>1, <2>1 DEF Gets
<1>2. CASE s.does = "unindex"
  <2>1. s.things = {OpenByDomain} /\ r.things = d.things \ s.things
        /\ IsDatabase(r) /\ r.ledger = d.ledger
    BY <1>2, AfterUnindex DEF Known
  <2> QED
    BY <1>2, <2>1 DEF Gets
<1>3. CASE s.does = "model"
  <2>1. /\ IsDatabase(r) /\ r.ledger = d.ledger /\ Table(s.table) \in r.things
        /\ d.things \subseteq r.things
    BY <1>3, AfterModel
  <2> QED
    BY <1>3, <2>1 DEF Gets
<1>4. CASE s.does \in {"write", "create"}
  <2>1. r.things = d.things /\ IsDatabase(r) /\ r.ledger = d.ledger
    BY <1>4, AfterOthers
  <2> QED
    BY <1>4, <2>1 DEF Gets
<1>5. CASE s.does = "copy"
  <2>1. r.things = d.things /\ IsDatabase(r) /\ r.ledger = d.ledger
    BY <1>5, AfterCopy
  <2> QED
    BY <1>5, <2>1 DEF Gets
<1>6. CASE s.does = "drop"
  <2>1. r.things = {x \in d.things : x[1] # s.table} /\ IsDatabase(r) /\ r.ledger = d.ledger
    BY <1>6, AfterDrop
  <2> QED
    BY <1>6, <2>1 DEF Gets
<1>7. CASE s.does = "rename"
  <2>1. /\ r.things = d.things \union {Table(s.table)} \union s.things
        /\ IsDatabase(r) /\ r.ledger = d.ledger
    BY <1>7, AfterRename
  <2> QED
    BY <1>7, <2>1 DEF Gets
<1> QED
  BY <1>1, <1>2, <1>3, <1>4, <1>5, <1>6, <1>7 DEF Known, Words

LEMMA RowsAfter ==
  ASSUME NEW s, NEW d, IsDatabase(d), Known(s)
  PROVE  /\ \A t \in d.rows : t \in After(s, d).rows \/ (s.does = "drop" /\ t = s.table)
         /\ s.does = "drop" => \A t \in d.copied : t \in After(s, d).copied
         /\ s.does = "rename" => \A t \in d.copied : t = s.table => t \in After(s, d).rows
         /\ s.does = "copy" /\ s.table \in d.rows => s.table \in After(s, d).copied
<1>1. CASE s.does \in {"add", "index"}
  BY <1>1, AfterAdds
<1>2. CASE s.does = "unindex"
  BY <1>2, AfterUnindex
<1>3. CASE s.does = "model"
  BY <1>3, AfterModel
<1>4. CASE s.does \in {"write", "create"}
  BY <1>4, AfterOthers
<1>5. CASE s.does = "copy"
  BY <1>5, AfterCopy
<1>6. CASE s.does = "drop"
  BY <1>6, AfterDrop
<1>7. CASE s.does = "rename"
  BY <1>7, AfterRename
<1> QED
  BY <1>1, <1>2, <1>3, <1>4, <1>5, <1>6, <1>7 DEF Known, Words

\* What is left of a list keeps what the invariant says of it.
LEMMA TailKeeps ==
  ASSUME NEW s, NEW v, IsList(s), s # << >>, Ordered(s), Whole(s, LeftUpTo(v)),
         \A i \in DOMAIN s :
           IF i = Len(s) THEN s[i].does = "record" /\ s[i].things = {v} ELSE Known(s[i])
  PROVE  LET rest == Tail(s)
         IN  /\ IsList(rest) /\ Ordered(rest) /\ Whole(rest, LeftUpTo(v))
             /\ \A i \in DOMAIN rest :
                  IF i = Len(rest) THEN rest[i].does = "record" /\ rest[i].things = {v}
                  ELSE Known(rest[i])
             /\ \A x : Given(s, x) => Gets(s[1], x) \/ Given(rest, x)
<1> DEFINE rest == Tail(s)
<1>1. /\ IsList(rest) /\ Len(rest) = Len(s) - 1 /\ DOMAIN rest \subseteq Nat /\ DOMAIN s \subseteq Nat
      /\ Len(s) \in Nat
      /\ \A i \in DOMAIN rest : i + 1 \in DOMAIN s /\ rest[i] = s[i + 1]
      /\ \A i \in DOMAIN s : i = 1 \/ (i - 1 \in DOMAIN rest /\ rest[i - 1] = s[i])
      /\ \A i \in DOMAIN s : i >= 1
  <2>1. IsList(rest)
    BY ListEnds
  <2> QED
    BY <2>1, ListEnds, ListIs
<1> HIDE DEF rest
<1>2. Ordered(rest)
  <2> SUFFICES ASSUME NEW i \in DOMAIN rest, i + 1 \in DOMAIN rest
               PROVE  Follows(rest[i], rest[i + 1])
    BY DEF Ordered
  <2>1. i + 1 \in DOMAIN s /\ (i + 1) + 1 \in DOMAIN s
        /\ rest[i] = s[i + 1] /\ rest[i + 1] = s[(i + 1) + 1]
    BY <1>1
  <2> QED
    BY <2>1 DEF Ordered
<1>3. ASSUME NEW i \in DOMAIN rest, NEW x, NEW j \in DOMAIN s, j > i + 1, Gets(s[j], x)
      PROVE  \E l \in DOMAIN rest : l > i /\ Gets(rest[l], x)
  <2>1. j - 1 \in DOMAIN rest /\ rest[j - 1] = s[j] /\ j - 1 > i
    BY <1>1, <1>3
  <2> QED
    BY <1>3, <2>1
<1>4. Whole(rest, LeftUpTo(v))
  <2> SUFFICES ASSUME NEW i \in DOMAIN rest, rest[i].does = "drop", NEW x \in LeftUpTo(v),
                      x[1] = rest[i].table
               PROVE  \E j \in DOMAIN rest : j > i /\ Gets(rest[j], x)
    BY DEF Whole
  <2>1. i + 1 \in DOMAIN s /\ rest[i] = s[i + 1]
    BY <1>1
  <2>2. PICK j \in DOMAIN s : j > i + 1 /\ Gets(s[j], x)
    BY <2>1 DEF Whole
  <2> QED
    BY <1>3, <2>2
<1>6. \A i \in DOMAIN rest :
        IF i = Len(rest) THEN rest[i].does = "record" /\ rest[i].things = {v}
        ELSE Known(rest[i])
  <2> SUFFICES ASSUME NEW i \in DOMAIN rest
               PROVE  IF i = Len(rest) THEN rest[i].does = "record" /\ rest[i].things = {v}
                      ELSE Known(rest[i])
    OBVIOUS
  <2>1. i + 1 \in DOMAIN s /\ rest[i] = s[i + 1] /\ (i = Len(rest) <=> i + 1 = Len(s))
    BY <1>1
  <2> QED
    BY <2>1
<1>7. \A x : Given(s, x) => Gets(s[1], x) \/ Given(rest, x)
  <2> SUFFICES ASSUME NEW x, Given(s, x) PROVE Gets(s[1], x) \/ Given(rest, x)
    OBVIOUS
  <2>1. PICK i \in DOMAIN s : Gets(s[i], x)
    BY DEF Given
  <2>2. CASE i = 1
    BY <2>1, <2>2
  <2>3. CASE i # 1
    <3>1. i - 1 \in DOMAIN rest /\ rest[i - 1] = s[i]
      BY <1>1, <2>3
    <3> QED
      BY <2>1, <3>1 DEF Given
  <2> QED
    BY <2>2, <2>3
<1> QED
  BY <1>1, <1>2, <1>4, <1>6, <1>7 DEF rest

LEMMA OpenIsLeft == \A n \in 0..24 : OpenByDomain \notin LeftUpTo(n)
<1>1. OpenByDomain[1] = "tasks" /\ OpenByDomain[2] = 9 /\ OpenByDomain[3] = 8
  BY DEF OpenByDomain
<1>2. /\ \A t, v, n : \A x \in Things(t, v, n) : x[2] = v
      /\ \A x \in Things("tasks", 9, 7) : x[3] # 8
      /\ \A t : Table(t)[2] = 0
  BY DEF Things, Table
<1>3. OpenByDomain \notin Made[9]
  BY <1>1, <1>2 DEF Made
<1>4. \A v \in Releases : OpenByDomain \notin Made[v]
  BY <1>1, <1>3, MadeBy, ReleasesAre
<1>5. \A n \in 0..24 : \A v \in 1..n : v \in Releases
  BY ReleasesAre
<1> QED
  BY <1>4, <1>5 DEF LeftUpTo, Left

-----------------------------------------------------------------------------
(* Migrations: the steps.                                                  *)

LEMMA KeptAtStart == MigrationsInit => MigrationsInv
<1> SUFFICES ASSUME MigrationsInit PROVE MigrationsInv
  OBVIOUS
<1>1. PICK n \in {0} \union Releases :
        file = Database(Schema(n) \union {x \in {OpenByDomain} : n \in 9..10},
                        Tables(Schema(n)), 1..n)
  BY DEF MigrationsInit
<1>2. /\ file.things = Schema(n) \union {x \in {OpenByDomain} : n \in 9..10}
      /\ file.ledger = 1..n /\ IsDatabase(file)
  BY <1>1 DEF Database, IsDatabase
<1>3. n \in 0..24
  BY ReleasesAre
<1>4. LeftUpTo(n) \subseteq file.things
  BY <1>2 DEF LeftUpTo, Left, Schema
<1> QED
  BY <1>2, <1>3, <1>4 DEF MigrationsInit, MigrationsInv, Kept

LEMMA BeginsKeeps ==
  ASSUME MigrationsInv, BeginsMigration
  PROVE  MigrationsInv'
<1>1. Kept(view) /\ IsDatabase(view) /\ (~writing => file = view) /\ Kept(file)
  BY DEF MigrationsInv, Upgrading, BeginsMigration
<1>2. PICK n \in 0..24 : view.ledger = 1..n /\ LeftUpTo(n) \subseteq view.things
  BY <1>1 DEF Kept
<1>3. PICK v \in Pending : /\ \A w \in Pending : v <= w
                           /\ todo' = Append(Upgrade(v), Statement("record", "", {v}))
  BY DEF BeginsMigration
<1>4. v \in Releases /\ v = n + 1
  <2>1. Pending = (1..24) \ (1..n) /\ v \in 1..24
    BY <1>2, ReleasesAre DEF Pending
  <2>2. n < v /\ n + 1 \in Pending
    BY <2>1
  <2>3. v <= n + 1
    BY <1>3, <2>2
  <2>4. n \in Int /\ v \in Int
    BY <2>1
  <2> QED
    BY <2>1, <2>2, <2>3, <2>4, ReleasesAre
<1> DEFINE s == Upgrade(v)
           last == Statement("record", "", {v})
<1>5. Makes(s, Left(v), LeftUpTo(v))
  BY <1>1, <1>2, <1>4, UpgradeMakes DEF Kept
<1>6. Block(s, LeftUpTo(v)) /\ IsList(s)
  BY <1>5 DEF Makes, Block
<1>7. last.does = "record" /\ last.things = {v}
  BY DEF Statement
<1> HIDE DEF s, last
<1>8. /\ IsList(todo') /\ Len(todo') = Len(s) + 1 /\ Len(s) \in Nat
      /\ DOMAIN todo' = 1..(Len(s) + 1) /\ DOMAIN s = 1..Len(s)
      /\ \A i \in DOMAIN s : todo'[i] = s[i]
      /\ todo'[Len(s) + 1] = last
  <2>1. todo' = Append(s, last)
    BY <1>3 DEF s, last
  <2>2. IsList(todo') /\ Len(todo') = Len(s) + 1
    BY <1>6, <2>1, ListGrows
  <2> QED
    BY <1>6, <2>1, <2>2, ListGrows, ListIs
<1>9. todo' # << >>
  BY <1>8, ListIs
<1>10. \A i \in DOMAIN todo' : i = Len(s) + 1 \/ i \in DOMAIN s
  BY <1>8
<1>11. Ordered(todo')
  <2> SUFFICES ASSUME NEW i \in DOMAIN todo', i + 1 \in DOMAIN todo'
               PROVE  Follows(todo'[i], todo'[i + 1])
    BY DEF Ordered
  <2>1. CASE i + 1 \in DOMAIN s
    <3>1. i \in DOMAIN s
      BY <1>8, <2>1
    <3> QED
      BY <1>6, <1>8, <2>1, <3>1 DEF Block, Ordered
  <2>2. CASE i = Len(s) /\ i + 1 = Len(s) + 1
    <3>1. s # << >> /\ todo'[i] = s[Len(s)] /\ todo'[i + 1] = last
      BY <1>6, <1>8, <2>2, ListIs
    <3>2. s[Len(s)].does \notin {"copy", "drop"}
      BY <1>6, <3>1 DEF Block
    <3> QED
      BY <1>7, <3>1, <3>2 DEF Follows
  <2> QED
    BY <1>8, <2>1, <2>2
<1>12. Whole(todo', LeftUpTo(v))
  BY <1>6, <1>7, <1>8, <1>10 DEF Block, Whole
<1>14. \A i \in DOMAIN todo' :
         IF i = Len(todo') THEN todo'[i].does = "record" /\ todo'[i].things = {v}
         ELSE Known(todo'[i])
  BY <1>6, <1>7, <1>8, <1>10 DEF Block
<1>15. \A x \in LeftUpTo(v) : x \in view.things \/ Given(todo', x)
  <2>1. LeftUpTo(v) = LeftUpTo(n) \union Left(v)
    BY <1>4, UpToSplits, ReleasesAre
  <2>2. \A x \in Left(v) : x \in view.things \/ Given(s, x)
    BY <1>5 DEF Makes
  <2>3. \A x : Given(s, x) => Given(todo', x)
    BY <1>8 DEF Given
  <2> QED
    BY <1>2, <2>1, <2>2, <2>3
<1>16. todo'[1].does \notin {"drop", "rename"}
  <2>1. CASE s = << >>
    BY <1>6, <1>7, <1>8, <2>1, ListIs
  <2>2. CASE s # << >>
    <3>1. todo'[1] = s[1]
      BY <1>6, <1>8, <2>2, ListIs
    <3> QED
      BY <1>6, <2>2, <3>1 DEF Block
  <2> QED
    BY <2>1, <2>2
<1>17. UNCHANGED <<file, view, writing, start, held>>
  BY DEF BeginsMigration
<1>18. Doing(v)'
  BY <1>1, <1>8, <1>11, <1>12, <1>14, <1>15, <1>16, <1>17 DEF Doing, Kept
<1>19. Upgrading'
  <2>1. view'.ledger = 1..(v - 1)
    BY <1>2, <1>4, <1>17
  <2>2. IsDatabase(view)' /\ (~writing => file = view)'
    BY <1>1, <1>17 DEF IsDatabase
  <2> QED
    BY <1>4, <1>9, <1>18, <2>1, <2>2 DEF Upgrading
<1>20. Kept(file)'
  BY <1>1, <1>17 DEF Kept, IsDatabase
<1> QED
  BY <1>19, <1>20 DEF MigrationsInv

\* The last statement, the line in the ledger.
LEMMA RecordKeeps ==
  ASSUME MigrationsInv, Executes, NEW v \in Releases, view.ledger = 1..(v - 1), Doing(v),
         Len(todo) = 1
  PROVE  MigrationsInv'
<1> DEFINE s == todo[1]
<1>1. /\ IsList(todo) /\ todo # << >> /\ Head(todo) = s /\ DOMAIN todo = {1}
      /\ IsList(todo') /\ todo' = Tail(todo) /\ todo' = << >>
  <2>1. IsList(todo) /\ todo # << >> /\ todo' = Tail(todo)
    BY DEF Executes, Doing
  <2>2. IsList(Tail(todo)) /\ Len(Tail(todo)) = 0 /\ Head(todo) = s
    BY <2>1, ListEnds
  <2>4. DOMAIN todo = {1}
    BY <2>1, ListIs
  <2>5. Tail(todo) = << >>
    BY ONLY <2>2, ListEmpty, Zenon
  <2> QED
    BY <2>1, <2>2, <2>4, <2>5
<1>2. s.does = "record" /\ s.things = {v}
  BY <1>1 DEF Doing
<1>3. /\ view' = After(s, view) /\ writing' = TRUE /\ file' = file
      /\ UNCHANGED <<start, held>>
  BY <1>1, <1>2 DEF Executes, Opens
<1>4. IsDatabase(view) /\ Kept(file)
  BY DEF MigrationsInv, Upgrading, Executes
<1>5. /\ IsDatabase(view') /\ view'.things = view.things /\ view'.rows = view.rows
      /\ view'.ledger = (1..(v - 1)) \union {v}
  <2> HIDE DEF s
  <2> QED
    BY <1>2, <1>3, <1>4, AfterRecord
<1>6. view'.ledger = 1..v /\ v \in 0..24
  BY <1>5, ReleasesAre
<1>7. \A x : ~Given(todo, x)
  BY <1>1, <1>2 DEF Given, Gets
<1>8. LeftUpTo(v) \subseteq view'.things /\ held' \subseteq view'.rows
  BY <1>2, <1>3, <1>5, <1>7 DEF Doing
<1>9. Kept(view)'
  BY <1>5, <1>6, <1>8 DEF Kept
<1>10. Kept(file)'
  BY <1>3, <1>4 DEF Kept, IsDatabase
<1> QED
  BY <1>1, <1>3, <1>5, <1>9, <1>10 DEF MigrationsInv, Upgrading

\* A statement before it.
LEMMA StatementKeeps ==
  ASSUME MigrationsInv, Executes, NEW v \in Releases, view.ledger = 1..(v - 1), Doing(v),
         Len(todo) > 1
  PROVE  MigrationsInv'
<1> DEFINE s == todo[1]
           rest == Tail(todo)
<1>1. IsList(todo) /\ todo # << >>
  BY DEF Executes, Doing
<1>2. /\ Len(todo) \in Nat /\ DOMAIN todo = 1..Len(todo) /\ 1 \in DOMAIN todo /\ 2 \in DOMAIN todo
      /\ IsList(rest) /\ Len(rest) = Len(todo) - 1 /\ Head(todo) = s
      /\ rest # << >> /\ rest[1] = todo[2]
  <2>1. IsList(rest) /\ Len(rest) = Len(todo) - 1 /\ Head(todo) = s
        /\ \A i \in DOMAIN todo : i = 1 \/ (i - 1 \in DOMAIN rest /\ rest[i - 1] = todo[i])
    BY <1>1, ListEnds
  <2>2. Len(todo) \in Nat /\ DOMAIN todo = 1..Len(todo)
    BY <1>1, ListIs
  <2>3. 1 \in DOMAIN todo /\ 2 \in DOMAIN todo
    BY <2>2
  <2>4. rest[2 - 1] = todo[2] /\ 2 - 1 = 1
    BY <2>1, <2>3
  <2>5. rest # << >> <=> Len(rest) > 0
    BY ONLY <2>1, ListIs
  <2> QED
    BY <2>1, <2>2, <2>3, <2>4, <2>5
<1>3. Known(s)
  <2>1. 1 # Len(todo)
    BY <1>2
  <2> QED
    BY <1>2, <2>1 DEF Doing
<1>4. /\ IsList(rest) /\ Ordered(rest) /\ Whole(rest, LeftUpTo(v))
      /\ \A i \in DOMAIN rest :
           IF i = Len(rest) THEN rest[i].does = "record" /\ rest[i].things = {v}
           ELSE Known(rest[i])
      /\ \A x : Given(todo, x) => Gets(s, x) \/ Given(rest, x)
  BY <1>1, TailKeeps DEF Doing
<1>5. Follows(s, rest[1])
  <2>1. 1 + 1 = 2
    OBVIOUS
  <2> QED
    BY <1>2, <2>1 DEF Doing, Ordered
<1>6. /\ view' = After(s, view) /\ writing' = (writing \/ Opens(s)) /\ todo' = rest
      /\ file' = IF writing' THEN file ELSE view'
      /\ start = "up" /\ UNCHANGED <<start, held>>
  BY <1>2 DEF Executes
<1>7. IsDatabase(view) /\ Kept(file) /\ (~writing => file = view)
  BY <1>6 DEF MigrationsInv, Upgrading
<1> HIDE DEF s, rest
<1>8. /\ IsDatabase(view') /\ view'.ledger = view.ledger
      /\ \A x : x # OpenByDomain =>
           /\ Gets(s, x) => x \in view'.things
           /\ x \in view.things => x \in view'.things \/ (s.does = "drop" /\ x[1] = s.table)
  BY <1>3, <1>6, <1>7, ThingsAfter
<1>9. /\ \A t \in view.rows : t \in view'.rows \/ (s.does = "drop" /\ t = s.table)
      /\ s.does = "drop" => \A t \in view.copied : t \in view'.copied
      /\ s.does = "rename" => \A t \in view.copied : t = s.table => t \in view'.rows
      /\ s.does = "copy" /\ s.table \in view.rows => s.table \in view'.copied
  BY <1>3, <1>6, <1>7, RowsAfter
<1>10. \A x \in LeftUpTo(v) : x # OpenByDomain
  BY OpenIsLeft, ReleasesAre
\* Whatever is dropped is still to come.
<1>12. \A x \in LeftUpTo(v) : s.does = "drop" /\ x[1] = s.table => Given(rest, x)
  <2> SUFFICES ASSUME NEW x \in LeftUpTo(v), s.does = "drop", x[1] = s.table
               PROVE  Given(rest, x)
    OBVIOUS
  <2>1. PICK j \in DOMAIN todo : j > 1 /\ Gets(todo[j], x)
    BY <1>2 DEF Doing, Whole, s
  <2>2. j - 1 \in DOMAIN rest /\ rest[j - 1] = todo[j]
    BY <1>1, <2>1, ListEnds DEF rest
  <2> QED
    BY <2>1, <2>2 DEF Given
<1>13. \A x \in LeftUpTo(v) : x \in view'.things \/ Given(rest, x)
  <2> SUFFICES ASSUME NEW x \in LeftUpTo(v) PROVE x \in view'.things \/ Given(rest, x)
    OBVIOUS
  <2>1. x \in view.things \/ Gets(s, x) \/ Given(rest, x)
    BY <1>4 DEF Doing
  <2> QED
    BY <1>8, <1>10, <1>12, <2>1
<1>15. \A t \in held :
         t \in view'.rows \/ (t \in view'.copied /\ rest[1].does = "rename" /\ rest[1].table = t)
  <2> SUFFICES ASSUME NEW t \in held, t \notin view'.rows
               PROVE  t \in view'.copied /\ rest[1].does = "rename" /\ rest[1].table = t
    OBVIOUS
  <2>1. t \in view.rows \/ (t \in view.copied /\ s.does = "rename" /\ s.table = t)
    BY DEF Doing, s
  <2>2. s.does = "drop" /\ t = s.table
    BY <1>9, <2>1
  <2>3. t \in view.copied
    BY <2>2 DEF Doing, s
  <2> QED
    BY <1>5, <1>9, <2>2, <2>3 DEF Follows
<1>16. rest[1].does = "drop" /\ rest[1].table \in held => rest[1].table \in view'.copied
  <2> SUFFICES ASSUME rest[1].does = "drop", rest[1].table \in held
               PROVE  rest[1].table \in view'.copied
    OBVIOUS
  <2>1. s.does = "copy" /\ s.table = rest[1].table
    BY <1>5 DEF Follows
  <2>2. s.table \in view.rows
    BY <2>1 DEF Doing, s
  <2> QED
    BY <1>9, <2>1, <2>2
<1>17. rest[1].does \in {"drop", "rename"} => writing'
  <2>1. s.does = "copy" => writing'
    BY <1>6 DEF Opens
  <2>2. s.does = "drop" => writing'
    BY <1>6 DEF Doing, s
  <2> QED
    BY <1>5, <2>1, <2>2 DEF Follows
<1>18. Doing(v)'
  BY <1>4, <1>6, <1>13, <1>15, <1>16, <1>17 DEF Doing
<1>19. Upgrading'
  <2>1. ~writing' => file' = view'
    BY <1>6
  <2> QED
    BY <1>2, <1>6, <1>8, <1>18, <2>1 DEF Upgrading
<1>20. Kept(file)'
  <2>1. CASE writing'
    BY <1>6, <1>7, <2>1 DEF Kept, IsDatabase
  <2>2. CASE ~writing'
    <3>1. ~writing /\ file = view /\ file' = view' /\ s.does \notin {"drop", "rename"}
      BY <1>6, <1>7, <2>2 DEF Doing, s
    <3>3. \A t \in held : t \in view'.rows
      BY <1>7, <1>9, <3>1 DEF Kept
    <3>4. PICK n \in 0..24 : file.ledger = 1..n /\ LeftUpTo(n) \subseteq file.things
      BY <1>7 DEF Kept
    <3>5. LeftUpTo(n) \subseteq view'.things
      BY <1>8, <3>1, <3>4, OpenIsLeft
    <3> QED
      BY <1>6, <1>8, <3>1, <3>3, <3>4, <3>5 DEF Kept
  <2> QED
    BY <2>1, <2>2
<1> QED
  BY <1>19, <1>20 DEF MigrationsInv

LEMMA ExecutesKeeps ==
  ASSUME MigrationsInv, Executes
  PROVE  MigrationsInv'
<1>1. Upgrading /\ todo # << >>
  BY DEF MigrationsInv, Executes
<1>2. PICK v \in Releases : view.ledger = 1..(v - 1) /\ Doing(v)
  BY <1>1 DEF Upgrading
<1>3. Len(todo) \in Nat /\ Len(todo) > 0
  BY <1>1, <1>2, ListIs DEF Doing
<1>4. CASE Len(todo) = 1
  BY <1>2, <1>4, RecordKeeps
<1>5. CASE Len(todo) > 1
  BY <1>2, <1>5, StatementKeeps
<1> QED
  BY <1>3, <1>4, <1>5

LEMMA KeptAtEveryStep ==
  MigrationsInv /\ [MigrationsNext]_startVars => MigrationsInv'
<1> SUFFICES ASSUME MigrationsInv, [MigrationsNext]_startVars PROVE MigrationsInv'
  OBVIOUS
<1>1. CASE Starts
  <2>1. /\ view' = file /\ file' = file /\ todo' = << >> /\ writing' = FALSE /\ held' = held
        /\ Kept(file)
    BY <1>1 DEF Starts, MigrationsInv
  <2>2. Kept(file)' /\ Kept(view)' /\ IsDatabase(view)'
    BY <2>1 DEF Kept, IsDatabase
  <2> QED
    BY <2>1, <2>2 DEF MigrationsInv, Upgrading
<1>2. CASE BeginsMigration
  BY <1>2, BeginsKeeps
<1>3. CASE Executes
  BY <1>3, ExecutesKeeps
<1>4. CASE StatementFails \/ Killed
  <2>1. file' = file /\ held' = held /\ start' = "down" /\ Kept(file)
    BY <1>4 DEF StatementFails, Killed, MigrationsInv
  <2> QED
    BY <2>1 DEF MigrationsInv, Kept, IsDatabase
<1>5. CASE Serves
  <2>1. file' = view /\ held' = held /\ start' = "serving" /\ Kept(view)
    BY <1>5 DEF Serves, MigrationsInv, Upgrading
  <2> QED
    BY <2>1 DEF MigrationsInv, Kept, IsDatabase
<1>6. CASE UNCHANGED startVars
  BY <1>6 DEF startVars, MigrationsInv, Upgrading, Kept, IsDatabase, Doing
<1> QED
  BY <1>1, <1>2, <1>3, <1>4, <1>5, <1>6 DEF MigrationsNext

\* Wherever the start of a new release is stopped, the file has every row it had, and
\* everything that a version in its ledger is to have made, but for three indexes.
THEOREM UpgradeKeeps == MigrationsSpec => []UpgradeLosesNothing
<1>1. MigrationsInv => UpgradeLosesNothing
  <2> SUFFICES ASSUME Kept(file) PROVE UpgradeLosesNothing
    BY DEF MigrationsInv
  <2>1. PICK n \in 0..24 : file.ledger = 1..n /\ LeftUpTo(n) \subseteq file.things
    BY DEF Kept
  <2>2. \A v \in 1..n : Left(v) \subseteq file.things
    BY <2>1 DEF LeftUpTo
  <2>3. held \subseteq file.rows
    BY DEF Kept
  <2> QED
    BY <2>1, <2>2, <2>3 DEF UpgradeLosesNothing, Left
<1> QED
  BY KeptAtStart, KeptAtEveryStep, <1>1, PTL DEF MigrationsSpec

=============================================================================
