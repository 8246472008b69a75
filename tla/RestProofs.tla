----------------------------- MODULE RestProofs -----------------------------
(***************************************************************************)
(* The safety properties of Rest for any number of requests and processes, *)
(* both backends, and whatever the cloud and the containers do.            *)
(***************************************************************************)
EXTENDS Rest, SequenceTheorems, TLAPS

Statuses == {"none", "ALLOCATING", "ALLOCATED", "SWAPPING_OUT", "SWAPPED_OUT", "CLOSED", "FAILED"}
Codes == {200, 400, 500}
Args == {"given", "missing"}
Described == [kind : Kinds \cup {"none"}, name : Names \cup {None}, args : {"none", "given", "missing"}]
NoSuccess(s) == \A i \in 1..Len(s) : s[i] # 200

Types ==
  /\ backend \in {"docker", "fargate"}
  /\ exists \in BOOLEAN
  /\ req \in [Requests -> Described]
  /\ pc \in [Requests -> {"new", "queued", "listing", "swapping", "creating", "done"}]
  /\ answers \in [Requests -> Seq(Codes)]
  /\ active \in [Names -> Requests \cup {None}]
  /\ swapped \in [Names -> Requests \cup {None}]
  /\ status \in [Requests -> Statuses]
  /\ moving \in Requests \cup {None}
  /\ closing \in SUBSET Requests
  /\ handle \in [Requests -> BOOLEAN]
  /\ address \in [Requests -> BOOLEAN]
  /\ callback \in [Requests -> BOOLEAN]
  /\ cb \in [Requests -> [Threads -> Stages]]
  /\ list \in [Requests -> [active : SUBSET Names, swapped : SUBSET Names]]
  /\ fault \in {"none", "task", "callback"}
  /\ raced \in SUBSET Requests

\* The maps hold objects of their names, in the statuses of the maps.
Mapped ==
  /\ \A n \in Names : active[n] # None =>
       /\ req[active[n]].name = n
       /\ status[active[n]] \in {"ALLOCATING", "ALLOCATED", "SWAPPING_OUT", "CLOSED"}
  /\ \A n \in Names : swapped[n] # None => status[swapped[n]] = "SWAPPED_OUT"
  /\ moving # None => status[moving] = "SWAPPED_OUT" /\ req[moving].name \in Names

\* A process object exists from the task of its create request on; one that is
\* being closed has its last status.
Objects(r) ==
  /\ IF status[r] = "none"
     THEN /\ ~callback[r] /\ ~handle[r] /\ ~address[r]
          /\ \A t \in Threads : cb[r][t] = "none"
          /\ pc[r] # "creating"
     ELSE /\ req[r].kind = "create" /\ req[r].args = "given" /\ req[r].name \in Names
          /\ pc[r] \in {"creating", "done"}
  /\ r \in closing => status[r] = "CLOSED"

\* A call of created_callback that got past its check had everything it needs.
Informed(r) ==
  /\ handle[r] /\ backend = "docker" => address[r]
  /\ \A t \in Threads :
       /\ cb[r][t] \notin {"none", "check"} => handle[r] /\ status[r] # "ALLOCATING"
       /\ cb[r][t] \in {"task", "eni"} => backend = "fargate"
       /\ cb[r][t] = "call" => address[r]
  /\ cb[r]["backend"] # "none" => handle[r]
  /\ cb[r]["io"] # "none" => status[r] # "ALLOCATING"
  /\ r \in raced => handle[r] /\ status[r] # "ALLOCATING"

\* How far a request is tells whether its client was answered; requests about
\* one process name it.
Told(r) ==
  /\ pc[r] = "new" => answers[r] = <<>> /\ req[r].kind = "none"
  /\ req[r].kind \in {"create", "delete", "swap"} => req[r].name \in Names
  /\ pc[r] = "queued" => IF req[r].args = "missing" THEN Len(answers[r]) = 1 ELSE answers[r] = <<>>
  /\ pc[r] = "listing" => answers[r] = <<>> /\ req[r].kind = "list"
  /\ pc[r] = "swapping" => answers[r] = <<>> /\ req[r].kind = "swap"
  /\ pc[r] # "done" /\ req[r].args = "missing" => req[r].kind = "create"
  /\ pc[r] = "done" /\ status[r] = "none" =>
       Len(answers[r]) \in {0, 1} \/ (answers[r] = <<400, 200>> /\ req[r].kind = "list")

\* As long as created_callback has not begun in two threads at a time, one of
\* them finds the callback and answers, and the callback goes with the answer.
CalledOnce(r) ==
  r \notin raced /\ status[r] # "none" =>
    /\ cb[r]["backend"] = "none" \/ cb[r]["io"] = "none"
    /\ \A t \in Threads :
         /\ cb[r][t] \in {"task", "eni", "call", "fail"} => callback[r] /\ answers[r] = <<>>
         /\ cb[r][t] = "clear" => Len(answers[r]) = 1
    /\ Len(answers[r]) \in {0, 1}
    /\ answers[r] # <<>> /\ callback[r] => \E t \in Threads : cb[r][t] = "clear"
    /\ status[r] = "ALLOCATING" \/ ~handle[r] => answers[r] = <<>> \/ status[r] = "FAILED"
    /\ status[r] = "FAILED" => ~callback[r]

\* A client that is told of a process is told by created_callback.
Answered(r) ==
  req[r].kind = "create" /\ (\E i \in 1..Len(answers[r]) : answers[r][i] = 200) =>
    handle[r] /\ address[r] /\ status[r] \notin {"none", "ALLOCATING"}

\* What holds of each request and its process.
Each(r) == Objects(r) /\ Informed(r) /\ Told(r) /\ CalledOnce(r) /\ Answered(r)

\* What a listing has read of the first map stays true of undisturbed names.
Listed ==
  \A r \in Requests : pc[r] = "listing" => \A n \in Names \ disturbed[r] :
    /\ active[n] # None => n \in list[r].active
    /\ n \in list[r].active => \/ active[n] # None
                               \/ \E q \in Requests : req[q].name = n /\ status[q] \in {"CLOSED", "FAILED"}

Inv ==
  /\ Types
  /\ Mapped
  /\ \A r \in Requests : Each(r)
  /\ Listed
  /\ fault = "callback" => raced # {}

\* A step leaves a request and its process alone.
Same(q) ==
  /\ req'[q] = req[q] /\ pc'[q] = pc[q] /\ answers'[q] = answers[q] /\ status'[q] = status[q]
  /\ handle'[q] = handle[q] /\ address'[q] = address[q] /\ callback'[q] = callback[q]
  /\ cb'[q] = cb[q] /\ (q \in raced' <=> q \in raced)
  /\ (q \in closing' <=> q \in closing)

-----------------------------------------------------------------------------
(* What the steps have in common.                                           *)

\* A request that is left alone keeps its invariant.
LEMMA SameKeeps ==
  ASSUME NEW q \in Requests, Each(q), Same(q), backend' = backend
  PROVE  Each(q)'
<1> USE DEF Same
<1>1. Objects(q)'  BY DEF Each, Objects
<1>2. Informed(q)'  BY DEF Each, Informed
<1>3. Told(q)'  BY DEF Each, Told
<1>4. CalledOnce(q)'  BY DEF Each, CalledOnce
<1>5. Answered(q)'  BY DEF Each, Answered
<1> QED  BY <1>1, <1>2, <1>3, <1>4, <1>5 DEF Each

\* A step about one request: the rest of the invariant is about that request.
LEMMA OneKeeps ==
  ASSUME Inv, NEW r \in Requests, backend' = backend,
         \A q \in Requests \ {r} : Same(q), Each(r)',
         Types', Mapped', Listed', fault' = "callback" => raced' # {}
  PROVE  Inv'
<1>1. ASSUME NEW q \in Requests PROVE Each(q)'
  <2>1. CASE q = r  BY <2>1
  <2>2. CASE q # r
    <3>1. Same(q)  BY <2>2
    <3>2. Each(q)  BY DEF Inv
    <3> QED  BY <3>1, <3>2, SameKeeps
  <2> QED  BY <2>1, <2>2
<1> QED  BY <1>1 DEF Inv

\* What an answer does to the answers of a client.
LEMMA Appended ==
  ASSUME NEW s \in Seq(Codes), NEW a \in Codes
  PROVE  /\ Append(s, a) \in Seq(Codes)
         /\ Len(Append(s, a)) = Len(s) + 1
         /\ Append(s, a) # <<>>
         /\ \A i \in 1..Len(Append(s, a)) : Append(s, a)[i] = 200 =>
              a = 200 \/ \E j \in 1..Len(s) : s[j] = 200
<1>1. Append(s, a) \in Seq(Codes) /\ Len(Append(s, a)) = Len(s) + 1 /\ Len(s) \in Nat
  BY DEF Codes
<1>2. \A i \in 1..Len(s) + 1 : Append(s, a)[i] = IF i <= Len(s) THEN s[i] ELSE a
  BY <1>1
<1>3. Append(s, a) # <<>>
  BY <1>1
<1> QED  BY <1>1, <1>2, <1>3

\* What Answer does.
LEMMA AnswerGives ==
  ASSUME Types, NEW r \in Requests, NEW a \in Codes, Answer(r, a)
  PROVE  /\ answers' \in [Requests -> Seq(Codes)]
         /\ pc' \in [Requests -> {"new", "queued", "listing", "swapping", "creating", "done"}]
         /\ pc'[r] = "done"
         /\ answers'[r] # <<>> /\ Len(answers[r]) \in Nat /\ Len(answers'[r]) = Len(answers[r]) + 1
         /\ answers[r] = <<>> => Len(answers'[r]) = 1
         /\ \A i \in 1..Len(answers'[r]) : answers'[r][i] = 200 =>
              a = 200 \/ \E j \in 1..Len(answers[r]) : answers[r][j] = 200
         /\ \A q \in Requests \ {r} : pc'[q] = pc[q] /\ answers'[q] = answers[q]
<1>1. answers[r] \in Seq(Codes)  BY DEF Types
<1>2. answers'[r] = Append(answers[r], a)  BY DEF Types, Answer
<1>3. Append(answers[r], a) \in Seq(Codes)  BY <1>1, Appended
<1>4. answers' \in [Requests -> Seq(Codes)]  BY <1>3 DEF Types, Answer
<1>5. /\ pc' \in [Requests -> {"new", "queued", "listing", "swapping", "creating", "done"}]
      /\ pc'[r] = "done"
      /\ \A q \in Requests \ {r} : pc'[q] = pc[q] /\ answers'[q] = answers[q]
  BY DEF Types, Answer
<1>6. Len(answers[r]) \in Nat /\ (answers[r] = <<>> => Len(answers[r]) = 0)
  BY <1>1
<1> QED  BY <1>1, <1>2, <1>4, <1>5, <1>6, Appended

\* The maps of processes are left alone.
LEMMA MappedSame ==
  ASSUME Types, Mapped, active' = active, swapped' = swapped, moving' = moving, status' = status,
         \A q \in Requests : status[q] # "none" => req'[q] = req[q]
  PROVE  Mapped'
<1>1. ASSUME NEW n \in Names, active'[n] # None
      PROVE  /\ req'[active'[n]].name = n
             /\ status'[active'[n]] \in {"ALLOCATING", "ALLOCATED", "SWAPPING_OUT", "CLOSED"}
  <2>1. active[n] \in Requests  BY <1>1 DEF Types
  <2>2. status[active[n]] # "none"  BY <1>1 DEF Mapped
  <2> QED  BY <1>1, <2>1, <2>2 DEF Mapped
<1>2. ASSUME NEW n \in Names, swapped'[n] # None PROVE status'[swapped'[n]] = "SWAPPED_OUT"
  BY <1>2 DEF Mapped
<1>3. ASSUME moving' # None PROVE status'[moving'] = "SWAPPED_OUT" /\ req'[moving'].name \in Names
  BY <1>3 DEF Mapped, Types
<1> QED  BY <1>1, <1>2, <1>3 DEF Mapped

\* What listings have read is left alone.
LEMMA ListedSame ==
  ASSUME Types, Listed, active' = active, list' = list, disturbed' = disturbed,
         \A q \in Requests : pc'[q] = "listing" => pc[q] = "listing",
         \A q \in Requests : status[q] \in {"CLOSED", "FAILED"} =>
           status'[q] = status[q] /\ req'[q].name = req[q].name
  PROVE  Listed'
<1> SUFFICES ASSUME NEW q \in Requests, pc'[q] = "listing", NEW n \in Names \ disturbed[q]
             PROVE  /\ active[n] # None => n \in list[q].active
                    /\ n \in list[q].active => \/ active[n] # None
                                               \/ \E p \in Requests : req'[p].name = n /\ status'[p] \in {"CLOSED", "FAILED"}
  BY DEF Listed
<1>1. /\ active[n] # None => n \in list[q].active
      /\ n \in list[q].active => \/ active[n] # None
                                 \/ \E p \in Requests : req[p].name = n /\ status[p] \in {"CLOSED", "FAILED"}
  BY DEF Listed
<1> QED  BY <1>1

-----------------------------------------------------------------------------
(* One lemma per step.                                                    *)

\* Workers::create_application answers.
LEMMA RunCreateAppKeeps ==
  ASSUME RestAssumption, Inv, NEW r \in Requests, RunCreateApp(r)
  PROVE  Inv'
<1>1. Types /\ Mapped /\ Listed /\ Each(r) /\ (fault = "callback" => raced # {})
  BY DEF Inv
<1>2. /\ Answer(r, IF exists THEN 500 ELSE 200) /\ exists' = TRUE
      /\ pc[r] = "queued" /\ req[r].kind = "app" /\ status[r] = "none" /\ req[r].args # "missing"
      /\ backend' = backend /\ req' = req /\ active' = active /\ swapped' = swapped /\ status' = status
      /\ moving' = moving /\ closing' = closing /\ handle' = handle /\ address' = address
      /\ callback' = callback /\ cb' = cb
      /\ list' = list /\ fault' = fault /\ raced' = raced /\ disturbed' = disturbed
  BY <1>1 DEF RunCreateApp, Exclusive, maps, creation, Each, Objects, Told
<1>3. /\ answers' \in [Requests -> Seq(Codes)]
      /\ pc' \in [Requests -> {"new", "queued", "listing", "swapping", "creating", "done"}]
      /\ pc'[r] = "done"
      /\ answers[r] = <<>> /\ Len(answers'[r]) = 1
      /\ \A q \in Requests \ {r} : pc'[q] = pc[q] /\ answers'[q] = answers[q]
  <2>1. answers[r] = <<>>  BY <1>1, <1>2 DEF Each, Told
  <2>2. (IF exists THEN 500 ELSE 200) \in Codes  BY DEF Codes
  <2> QED  BY <1>1, <1>2, <2>1, <2>2, AnswerGives
<1>4. Types'
  BY <1>1, <1>2, <1>3 DEF Types, Kinds, Stages, Statuses, Threads
<1>5. \A q \in Requests \ {r} : Same(q)
  BY <1>1, <1>2, <1>3 DEF Types, Same
<1>6. Mapped'
  BY <1>1, <1>2, <1>3, MappedSame
<1>7. Listed'
  BY <1>1, <1>2, <1>3, ListedSame
<1>8. Each(r)'
  <2>1. Objects(r)'  BY <1>1, <1>2, <1>3 DEF Types, Threads, Each, Objects, Informed, Told, CalledOnce, Answered
  <2>2. Informed(r)'  BY <1>1, <1>2, <1>3 DEF Types, Threads, Each, Objects, Informed
  <2>3. Told(r)'  BY <1>1, <1>2, <1>3 DEF Types, Threads, Each, Objects, Informed, Told, CalledOnce, Answered
  <2>4. CalledOnce(r)'
    BY <1>1, <1>2, <1>3 DEF Types, Threads, Each, Objects, Informed, Told, CalledOnce, Answered
  <2>5. Answered(r)'
    BY <1>1, <1>2, <1>3 DEF Types, Threads, Each, Objects, Informed, Told, CalledOnce, Answered
  <2> QED  BY <2>1, <2>2, <2>3, <2>4, <2>5 DEF Each
<1>9. backend' = backend /\ (fault' = "callback" => raced' # {})
  BY <1>1, <1>2, <1>3
<1> QED  BY <1>4, <1>5, <1>6, <1>7, <1>8, <1>9, OneKeeps

\* Workers::create_process does not find the application.
LEMMA RunCreateUnknownKeeps ==
  ASSUME RestAssumption, Inv, NEW r \in Requests, RunCreateUnknown(r)
  PROVE  Inv'
<1>1. Types /\ Mapped /\ Listed /\ Each(r) /\ (fault = "callback" => raced # {})
  BY DEF Inv
<1>2. /\ pc[r] = "queued" /\ req[r].kind = "create" /\ status[r] = "none"
      /\ pc' = [pc EXCEPT ![r] = "done"]
      /\ backend' = backend /\ exists' = exists /\ req' = req /\ answers' = answers /\ active' = active
      /\ swapped' = swapped /\ status' = status /\ moving' = moving /\ closing' = closing
      /\ handle' = handle /\ address' = address
      /\ callback' = callback /\ cb' = cb /\ list' = list /\ fault' = fault /\ raced' = raced
      /\ disturbed' = disturbed
  BY <1>1 DEF RunCreateUnknown, Exclusive, maps, creation, Each, Objects
<1>3. Len(answers[r]) \in {0, 1}
  <2>1. CASE answers[r] = <<>>  BY <2>1
  <2>2. CASE answers[r] # <<>>
    <3>1. Len(answers[r]) = 1  BY <2>2, <1>1, <1>2 DEF Each, Told
    <3> QED  BY <3>1
  <2> QED  BY <2>1, <2>2
<1>4. Types'
  BY <1>1, <1>2, <1>3 DEF Types, Kinds, Stages, Statuses, Threads
<1>5. \A q \in Requests \ {r} : Same(q)
  BY <1>1, <1>2, <1>3 DEF Types, Same
<1>6. Mapped'
  BY <1>1, <1>2, <1>3, MappedSame
<1>7. Listed'
  BY <1>1, <1>2, <1>3, ListedSame
<1>8. Each(r)'
  <2>1. Objects(r)'  BY <1>1, <1>2, <1>3 DEF Types, Threads, Each, Objects, Informed, Told, CalledOnce, Answered
  <2>2. Informed(r)'  BY <1>1, <1>2, <1>3 DEF Types, Threads, Each, Objects, Informed
  <2>3. Told(r)'  BY <1>1, <1>2, <1>3 DEF Types, Threads, Each, Objects, Informed, Told, CalledOnce, Answered
  <2>4. CalledOnce(r)'
    BY <1>1, <1>2, <1>3 DEF Types, Threads, Each, Objects, Informed, Told, CalledOnce, Answered
  <2>5. Answered(r)'
    BY <1>1, <1>2, <1>3 DEF Types, Threads, Each, Objects, Informed, Told, CalledOnce, Answered
  <2> QED  BY <2>1, <2>2, <2>3, <2>4, <2>5 DEF Each
<1>9. backend' = backend /\ (fault' = "callback" => raced' # {})
  BY <1>1, <1>2, <1>3
<1> QED  BY <1>4, <1>5, <1>6, <1>7, <1>8, <1>9, OneKeeps

\* Application::add_process throws.
LEMMA RunCreateThrowsKeeps ==
  ASSUME RestAssumption, Inv, NEW r \in Requests, RunCreateThrows(r)
  PROVE  Inv'
<1>1. Types /\ Mapped /\ Listed /\ Each(r) /\ (fault = "callback" => raced # {})
  BY DEF Inv
<1>2. /\ fault' = "task"
      /\ backend' = backend /\ exists' = exists /\ req' = req /\ pc' = pc /\ answers' = answers
      /\ active' = active /\ swapped' = swapped /\ status' = status /\ moving' = moving
      /\ closing' = closing /\ handle' = handle
      /\ address' = address /\ callback' = callback /\ cb' = cb /\ list' = list /\ raced' = raced
      /\ disturbed' = disturbed
  BY <1>1 DEF RunCreateThrows, Exclusive, maps, creation
<1>3. Types'
  BY <1>1, <1>2 DEF Types, Kinds, Stages, Statuses, Threads
<1>4. \A q \in Requests \ {r} : Same(q)
  BY <1>1, <1>2 DEF Types, Same
<1>5. Mapped'
  BY <1>1, <1>2, MappedSame
<1>6. Listed'
  BY <1>1, <1>2, ListedSame
<1>7. Each(r)'
  <2>1. Objects(r)'  BY <1>1, <1>2 DEF Types, Threads, Each, Objects, Informed, Told, CalledOnce, Answered
  <2>2. Informed(r)'  BY <1>1, <1>2 DEF Types, Threads, Each, Objects, Informed
  <2>3. Told(r)'  BY <1>1, <1>2 DEF Types, Threads, Each, Objects, Informed, Told, CalledOnce, Answered
  <2>4. CalledOnce(r)'  BY <1>1, <1>2 DEF Types, Threads, Each, Objects, Informed, Told, CalledOnce, Answered
  <2>5. Answered(r)'  BY <1>1, <1>2 DEF Types, Threads, Each, Objects, Informed, Told, CalledOnce, Answered
  <2> QED  BY <2>1, <2>2, <2>3, <2>4, <2>5 DEF Each
<1>8. backend' = backend /\ (fault' = "callback" => raced' # {})
  BY <1>1, <1>2
<1> QED  BY <1>3, <1>4, <1>5, <1>6, <1>7, <1>8, OneKeeps

\* Application::add_process adds a process object.
LEMMA RunCreateKeeps ==
  ASSUME RestAssumption, Inv, NEW r \in Requests, RunCreate(r)
  PROVE  Inv'
<1>1. Types /\ Mapped /\ Listed /\ Each(r) /\ (fault = "callback" => raced # {})
  BY DEF Inv
<1>2. /\ pc[r] = "queued" /\ req[r].kind = "create" /\ status[r] = "none" /\ req[r].args = "given"
      /\ req[r].name \in Names /\ active[req[r].name] = None
      /\ \A q \in Requests : pc[q] # "listing"
      /\ active' = [active EXCEPT ![req[r].name] = r]
      /\ status' = [status EXCEPT ![r] = "ALLOCATING"]
      /\ callback' = [callback EXCEPT ![r] = TRUE]
      /\ pc' = [pc EXCEPT ![r] = "creating"]
      /\ backend' = backend /\ exists' = exists /\ req' = req /\ answers' = answers /\ swapped' = swapped
      /\ moving' = moving /\ closing' = closing /\ handle' = handle /\ address' = address /\ cb' = cb
      /\ list' = list
      /\ fault' = fault /\ raced' = raced /\ disturbed' = disturbed
  BY <1>1 DEF RunCreate, Exclusive, maps, creation, Each, Objects, Told
<1>3. Types'
  BY <1>1, <1>2 DEF Types, Kinds, Stages, Statuses, Threads
<1>4. \A q \in Requests \ {r} : Same(q)
  BY <1>1, <1>2 DEF Types, Same
<1>5. Mapped'
  <2>1. ASSUME NEW n \in Names, active'[n] # None
        PROVE  /\ req'[active'[n]].name = n
               /\ status'[active'[n]] \in {"ALLOCATING", "ALLOCATED", "SWAPPING_OUT", "CLOSED"}
    <3>1. CASE n = req[r].name  BY <3>1, <1>1, <1>2 DEF Types
    <3>2. CASE n # req[r].name
      <4>1. active'[n] = active[n] /\ active[n] \in Requests  BY <3>2, <2>1, <1>1, <1>2 DEF Types
      <4>2. active[n] # r  BY <2>1, <4>1, <1>1, <1>2 DEF Mapped
      <4> QED  BY <2>1, <4>1, <4>2, <1>1, <1>2 DEF Mapped, Types
    <3> QED  BY <3>1, <3>2
  <2>2. ASSUME NEW n \in Names, swapped'[n] # None PROVE status'[swapped'[n]] = "SWAPPED_OUT"
    <3>1. swapped[n] \in Requests /\ swapped[n] # r  BY <2>2, <1>1, <1>2 DEF Mapped, Types
    <3> QED  BY <2>2, <3>1, <1>1, <1>2 DEF Mapped, Types
  <2>3. ASSUME moving' # None PROVE status'[moving'] = "SWAPPED_OUT" /\ req'[moving'].name \in Names
    <3>1. moving \in Requests /\ moving # r  BY <2>3, <1>1, <1>2 DEF Mapped, Types
    <3> QED  BY <2>3, <3>1, <1>1, <1>2 DEF Mapped, Types
  <2> QED  BY <2>1, <2>2, <2>3 DEF Mapped
<1>6. Listed'
  BY <1>1, <1>2 DEF Listed, Types
<1>7. Each(r)'
  <2>1. Objects(r)'  BY <1>1, <1>2 DEF Types, Threads, Each, Objects, Informed, Told, CalledOnce, Answered
  <2>2. Informed(r)'  BY <1>1, <1>2 DEF Types, Threads, Each, Objects, Informed
  <2>3. Told(r)'  BY <1>1, <1>2 DEF Types, Threads, Each, Objects, Informed, Told, CalledOnce, Answered
  <2>4. CalledOnce(r)'  BY <1>1, <1>2 DEF Types, Threads, Each, Objects, Informed, Told, CalledOnce, Answered
  <2>5. Answered(r)'  BY <1>1, <1>2 DEF Types, Threads, Each, Objects, Informed, Told, CalledOnce, Answered
  <2> QED  BY <2>1, <2>2, <2>3, <2>4, <2>5 DEF Each
<1>8. backend' = backend /\ (fault' = "callback" => raced' # {})
  BY <1>1, <1>2
<1> QED  BY <1>3, <1>4, <1>5, <1>6, <1>7, <1>8, OneKeeps

\* Workers::delete_process removes a process that is swapped.
LEMMA RunDeleteKeeps ==
  ASSUME RestAssumption, Inv, NEW r \in Requests, RunDelete(r)
  PROVE  Inv'
<1>1. Types /\ Mapped /\ Listed /\ Each(r) /\ (fault = "callback" => raced # {})
  BY DEF Inv
<1>2. /\ pc[r] = "queued" /\ req[r].kind = "delete" /\ status[r] = "none" /\ req[r].args # "missing"
      /\ req[r].name \in Names
      /\ Answer(r, 400) \/ Answer(r, 200)
      /\ swapped' = swapped \/ swapped' = [swapped EXCEPT ![req[r].name] = None]
      /\ backend' = backend /\ exists' = exists /\ req' = req /\ active' = active /\ status' = status
      /\ moving' = moving /\ closing' = closing /\ handle' = handle /\ address' = address
      /\ callback' = callback /\ cb' = cb
      /\ list' = list /\ fault' = fault /\ raced' = raced /\ disturbed' = disturbed
  BY <1>1 DEF RunDelete, Exclusive, maps, creation, Each, Objects, Told
<1>3. /\ answers' \in [Requests -> Seq(Codes)]
      /\ pc' \in [Requests -> {"new", "queued", "listing", "swapping", "creating", "done"}]
      /\ pc'[r] = "done"
      /\ answers[r] = <<>> /\ Len(answers'[r]) = 1
      /\ \A q \in Requests \ {r} : pc'[q] = pc[q] /\ answers'[q] = answers[q]
  <2>1. answers[r] = <<>>  BY <1>1, <1>2 DEF Each, Told
  <2>2. 200 \in Codes /\ 400 \in Codes  BY DEF Codes
  <2> QED  BY <1>1, <1>2, <2>1, <2>2, AnswerGives
<1>4. Types'
  BY <1>1, <1>2, <1>3 DEF Types, Kinds, Stages, Statuses, Threads
<1>5. \A q \in Requests \ {r} : Same(q)
  BY <1>1, <1>2, <1>3 DEF Types, Same
<1>6. Mapped'
  <2>1. ASSUME NEW n \in Names, swapped'[n] # None PROVE status'[swapped'[n]] = "SWAPPED_OUT"
    <3>1. swapped'[n] = swapped[n]  BY <2>1, <1>1, <1>2 DEF Types
    <3> QED  BY <2>1, <3>1, <1>1, <1>2 DEF Mapped
  <2> QED  BY <2>1, <1>1, <1>2 DEF Mapped
<1>7. Listed'
  BY <1>1, <1>2, <1>3, ListedSame
<1>8. Each(r)'
  <2>1. Objects(r)'  BY <1>1, <1>2, <1>3 DEF Types, Threads, Each, Objects, Informed, Told, CalledOnce, Answered
  <2>2. Informed(r)'  BY <1>1, <1>2, <1>3 DEF Types, Threads, Each, Objects, Informed
  <2>3. Told(r)'  BY <1>1, <1>2, <1>3 DEF Types, Threads, Each, Objects, Informed, Told, CalledOnce, Answered
  <2>4. CalledOnce(r)'
    BY <1>1, <1>2, <1>3 DEF Types, Threads, Each, Objects, Informed, Told, CalledOnce, Answered
  <2>5. Answered(r)'
    BY <1>1, <1>2, <1>3 DEF Types, Threads, Each, Objects, Informed, Told, CalledOnce, Answered
  <2> QED  BY <2>1, <2>2, <2>3, <2>4, <2>5 DEF Each
<1>9. backend' = backend /\ (fault' = "callback" => raced' # {})
  BY <1>1, <1>2, <1>3
<1> QED  BY <1>4, <1>5, <1>6, <1>7, <1>8, <1>9, OneKeeps

\* Workers::swap_process looks for the process ...
LEMMA RunSwapKeeps ==
  ASSUME RestAssumption, Inv, NEW r \in Requests, RunSwap(r)
  PROVE  Inv'
<1>1. Types /\ Mapped /\ Listed /\ Each(r) /\ (fault = "callback" => raced # {})
  BY DEF Inv
<1>2. /\ pc[r] = "queued" /\ req[r].kind = "swap" /\ status[r] = "none" /\ req[r].args # "missing"
      /\ req[r].name \in Names /\ answers[r] = <<>>
      /\ Answer(r, 400) \/ (pc' = [pc EXCEPT ![r] = "swapping"] /\ answers' = answers)
      /\ backend' = backend /\ exists' = exists /\ req' = req /\ active' = active /\ swapped' = swapped
      /\ status' = status /\ moving' = moving /\ closing' = closing /\ handle' = handle
      /\ address' = address /\ callback' = callback /\ cb' = cb /\ list' = list /\ fault' = fault
      /\ raced' = raced /\ disturbed' = disturbed
  BY <1>1 DEF RunSwap, Exclusive, maps, creation, Each, Objects, Told
<1>3. /\ answers' \in [Requests -> Seq(Codes)]
      /\ pc' \in [Requests -> {"new", "queued", "listing", "swapping", "creating", "done"}]
      /\ (pc'[r] = "done" /\ Len(answers'[r]) = 1) \/ (pc'[r] = "swapping" /\ answers'[r] = <<>>)
      /\ \A q \in Requests \ {r} : pc'[q] = pc[q] /\ answers'[q] = answers[q]
  <2>1. CASE Answer(r, 400)
    <3>1. 400 \in Codes  BY DEF Codes
    <3> QED  BY <1>1, <1>2, <2>1, <3>1, AnswerGives
  <2>2. CASE pc' = [pc EXCEPT ![r] = "swapping"] /\ answers' = answers
    BY <1>1, <1>2, <2>2 DEF Types
  <2> QED  BY <1>2, <2>1, <2>2
<1>4. Types'
  BY <1>1, <1>2, <1>3 DEF Types
<1>5. \A q \in Requests \ {r} : Same(q)
  BY <1>2, <1>3 DEF Same
<1>6. Mapped'
  BY <1>1, <1>2, MappedSame
<1>7. Listed'
  <2>1. \A q \in Requests : pc'[q] = "listing" => pc[q] = "listing"  BY <1>3
  <2> QED  BY <1>1, <1>2, <2>1, ListedSame
<1>8. Each(r)'
  <2>1. Objects(r)'  BY <1>1, <1>2, <1>3 DEF Each, Objects
  <2>2. Informed(r)'  BY <1>1, <1>2 DEF Each, Informed
  <2>3. Told(r)'  BY <1>1, <1>2, <1>3 DEF Each, Told
  <2>4. CalledOnce(r)'  BY <1>2 DEF CalledOnce
  <2>5. Answered(r)'  BY <1>2 DEF Answered
  <2> QED  BY <2>1, <2>2, <2>3, <2>4, <2>5 DEF Each
<1>9. backend' = backend /\ (fault' = "callback" => raced' # {})
  BY <1>1, <1>2
<1> QED  BY <1>4, <1>5, <1>6, <1>7, <1>8, <1>9, OneKeeps

\* ... and begins to swap one that is connected.
LEMMA SwapLockedKeeps ==
  ASSUME RestAssumption, Inv, NEW r \in Requests, SwapLocked(r)
  PROVE  Inv'
<1>1. Types /\ Mapped /\ Listed /\ Each(r) /\ (fault = "callback" => raced # {})
  BY DEF Inv
<1>2. /\ pc[r] = "swapping" /\ req[r].kind = "swap" /\ status[r] = "none" /\ req[r].args # "missing"
      /\ req[r].name \in Names
      /\ Answer(r, 400) \/ Answer(r, 200)
      /\ \/ status' = status
         \/ /\ active[req[r].name] # None /\ status[active[req[r].name]] = "ALLOCATED"
            /\ status' = [status EXCEPT ![active[req[r].name]] = "SWAPPING_OUT"]
      /\ backend' = backend /\ exists' = exists /\ req' = req /\ active' = active /\ swapped' = swapped
      /\ moving' = moving /\ closing' = closing /\ handle' = handle /\ address' = address
      /\ callback' = callback /\ cb' = cb /\ list' = list /\ fault' = fault /\ raced' = raced
      /\ disturbed' = disturbed
  <2>1. status[r] = "none" /\ req[r].kind = "swap" /\ req[r].args # "missing" /\ req[r].name \in Names
    BY <1>1 DEF SwapLocked, Each, Objects, Told
  <2>2. status \in [Requests -> Statuses] /\ None \notin Requests  BY <1>1 DEF Types, RestAssumption
  <2>3. [status EXCEPT ![None] = "SWAPPING_OUT"] = status  BY <2>2
  <2> QED  BY <2>1, <2>3 DEF SwapLocked, creation
<1>3. /\ answers' \in [Requests -> Seq(Codes)]
      /\ pc' \in [Requests -> {"new", "queued", "listing", "swapping", "creating", "done"}]
      /\ pc'[r] = "done"
      /\ answers[r] = <<>> /\ Len(answers'[r]) = 1
      /\ \A q \in Requests \ {r} : pc'[q] = pc[q] /\ answers'[q] = answers[q]
  <2>1. answers[r] = <<>>  BY <1>1, <1>2 DEF Each, Told
  <2>2. 200 \in Codes /\ 400 \in Codes  BY DEF Codes
  <2> QED  BY <1>1, <1>2, <2>1, <2>2, AnswerGives
<1>4. Each(r)' /\ Types' /\ Listed'
  <2>1. status'[r] = "none" /\ status' \in [Requests -> Statuses]
    BY <1>1, <1>2 DEF Types, Statuses
  <2>2. Objects(r)'  BY <2>1, <1>1, <1>2, <1>3 DEF Each, Objects
  <2>3. Informed(r)'  BY <2>1, <1>1, <1>2, <1>3 DEF Each, Objects, Informed, Threads
  <2>4. Told(r)'  BY <2>1, <1>1, <1>2, <1>3 DEF Each, Told
  <2>5. CalledOnce(r)'  BY <2>1 DEF CalledOnce
  <2>6. Answered(r)'  BY <1>2 DEF Answered
  <2>7. Types'  BY <2>1, <1>1, <1>2, <1>3 DEF Types
  <2>8. \A q \in Requests : status[q] \in {"CLOSED", "FAILED"} => status'[q] = status[q]
    BY <1>1, <1>2 DEF Types
  <2>9. Listed'  BY <2>8, <1>1, <1>2, <1>3, ListedSame
  <2> QED  BY <2>2, <2>3, <2>4, <2>5, <2>6, <2>7, <2>9 DEF Each
<1>5. CASE status' = status
  <2>1. \A q \in Requests \ {r} : Same(q)  BY <1>5, <1>1, <1>2, <1>3 DEF Same
  <2>2. Mapped'  BY <1>5, <1>1, <1>2, MappedSame
  <2> QED  BY <2>1, <2>2, <1>1, <1>2, <1>4, OneKeeps
<1>6. CASE status' # status
  <2>1. PICK o \in Requests :
          o # r /\ status[o] = "ALLOCATED" /\ status' = [status EXCEPT ![o] = "SWAPPING_OUT"]
    BY <1>6, <1>1, <1>2 DEF Types
  <2>2. \A q \in Requests \ {r, o} : Same(q)  BY <2>1, <1>1, <1>2, <1>3 DEF Same, Types
  <2>3. Each(o)'
    <3>1. /\ Each(o) /\ status'[o] = "SWAPPING_OUT"
          /\ req'[o] = req[o] /\ pc'[o] = pc[o] /\ answers'[o] = answers[o]
      BY <2>1, <1>1, <1>2, <1>3 DEF Types, Inv
    <3>2. Objects(o)'  BY <2>1, <3>1, <1>2 DEF Each, Objects
    <3>3. Informed(o)'  BY <2>1, <3>1, <1>2 DEF Each, Informed
    <3>4. Told(o)'  BY <2>1, <3>1, <1>2 DEF Each, Told
    <3>5. CalledOnce(o)'  BY <2>1, <3>1, <1>2 DEF Each, CalledOnce
    <3>6. Answered(o)'  BY <2>1, <3>1, <1>2 DEF Each, Answered
    <3> QED  BY <3>2, <3>3, <3>4, <3>5, <3>6 DEF Each
  <2>4. Mapped'
    <3>1. \A q \in Requests : q # o => status'[q] = status[q]  BY <2>1, <1>1 DEF Types
    <3>2. status'[o] = "SWAPPING_OUT"  BY <2>1, <1>1 DEF Types
    <3>3. ASSUME NEW n \in Names, active[n] # None
          PROVE  status'[active[n]] \in {"ALLOCATING", "ALLOCATED", "SWAPPING_OUT", "CLOSED"}
      <4>1. active[n] \in Requests  BY <3>3, <1>1 DEF Types
      <4> QED  BY <4>1, <3>1, <3>2, <3>3, <1>1 DEF Mapped
    <3>4. ASSUME NEW n \in Names, swapped[n] # None PROVE status'[swapped[n]] = "SWAPPED_OUT"
      <4>1. swapped[n] \in Requests  BY <3>4, <1>1 DEF Types
      <4> QED  BY <4>1, <2>1, <3>1, <3>4, <1>1 DEF Mapped
    <3>5. ASSUME moving # None PROVE status'[moving] = "SWAPPED_OUT"
      <4>1. moving \in Requests  BY <3>5, <1>1 DEF Types
      <4> QED  BY <4>1, <2>1, <3>1, <3>5, <1>1 DEF Mapped
    <3> QED  BY <3>3, <3>4, <3>5, <1>1, <1>2 DEF Mapped
  <2>5. \A q \in Requests : Each(q)'
    <3>1. ASSUME NEW q \in Requests, q # r, q # o PROVE Each(q)'
      BY <3>1, <2>2, <1>2, SameKeeps DEF Inv
    <3> QED  BY <3>1, <2>3, <1>4
  <2> QED  BY <2>4, <2>5, <1>4, <1>1, <1>2 DEF Inv
<1> QED  BY <1>5, <1>6

\* Workers::list_processes answers twice.
LEMMA ListUnknownKeeps ==
  ASSUME RestAssumption, Inv, NEW r \in Requests, ListUnknown(r)
  PROVE  Inv'
<1>1. Types /\ Mapped /\ Listed /\ Each(r) /\ (fault = "callback" => raced # {})
  BY DEF Inv
<1>2. /\ pc[r] = "queued" /\ req[r].kind = "list" /\ status[r] = "none" /\ answers[r] = <<>>
      /\ answers' = [answers EXCEPT ![r] = @ \o <<400, 200>>]
      /\ pc' = [pc EXCEPT ![r] = "done"]
      /\ backend' = backend /\ exists' = exists /\ req' = req /\ active' = active /\ swapped' = swapped
      /\ status' = status /\ moving' = moving /\ closing' = closing /\ handle' = handle
      /\ address' = address /\ callback' = callback
      /\ cb' = cb /\ list' = list /\ fault' = fault /\ raced' = raced /\ disturbed' = disturbed
  BY <1>1 DEF ListUnknown, maps, creation, Each, Objects, Told
<1>3. /\ answers' \in [Requests -> Seq(Codes)]
      /\ answers'[r] = <<400, 200>>
      /\ \A q \in Requests \ {r} : pc'[q] = pc[q] /\ answers'[q] = answers[q]
  <2>1. <<>> \o <<400, 200>> = <<400, 200>>  OBVIOUS
  <2>2. <<400, 200>> \in Seq(Codes)  BY DEF Codes
  <2> QED  BY <1>1, <1>2, <2>1, <2>2 DEF Types
<1>4. Types'
  BY <1>1, <1>2, <1>3 DEF Types, Kinds, Stages, Statuses, Threads
<1>5. \A q \in Requests \ {r} : Same(q)
  BY <1>1, <1>2, <1>3 DEF Types, Same
<1>6. Mapped'
  BY <1>1, <1>2, <1>3, MappedSame
<1>7. Listed'
  BY <1>1, <1>2, <1>3, ListedSame
<1>8. Each(r)'
  <2>1. Objects(r)'  BY <1>1, <1>2, <1>3 DEF Types, Threads, Each, Objects, Informed, Told, CalledOnce, Answered
  <2>2. Informed(r)'  BY <1>1, <1>2, <1>3 DEF Types, Threads, Each, Objects, Informed
  <2>3. Told(r)'  BY <1>1, <1>2, <1>3 DEF Types, Threads, Each, Objects, Informed, Told, CalledOnce, Answered
  <2>4. CalledOnce(r)'
    BY <1>1, <1>2, <1>3 DEF Types, Threads, Each, Objects, Informed, Told, CalledOnce, Answered
  <2>5. Answered(r)'
    BY <1>1, <1>2, <1>3 DEF Types, Threads, Each, Objects, Informed, Told, CalledOnce, Answered
  <2> QED  BY <2>1, <2>2, <2>3, <2>4, <2>5 DEF Each
<1>9. backend' = backend /\ (fault' = "callback" => raced' # {})
  BY <1>1, <1>2, <1>3
<1> QED  BY <1>4, <1>5, <1>6, <1>7, <1>8, <1>9, OneKeeps

\* A listing reads the first map.
LEMMA ListActiveKeeps ==
  ASSUME RestAssumption, Inv, NEW r \in Requests, ListActive(r)
  PROVE  Inv'
<1>1. Types /\ Mapped /\ Listed /\ Each(r) /\ (fault = "callback" => raced # {})
  BY DEF Inv
<1>2. /\ pc[r] = "queued" /\ req[r].kind = "list" /\ status[r] = "none" /\ answers[r] = <<>>
      /\ list' = [list EXCEPT ![r].active = {n \in Names : active[n] # None}]
      /\ \A q \in Requests \ {r} : disturbed'[q] = disturbed[q]
      /\ pc' = [pc EXCEPT ![r] = "listing"]
      /\ backend' = backend /\ exists' = exists /\ req' = req /\ answers' = answers /\ active' = active
      /\ swapped' = swapped /\ status' = status /\ moving' = moving /\ closing' = closing
      /\ handle' = handle /\ address' = address
      /\ callback' = callback /\ cb' = cb /\ fault' = fault /\ raced' = raced
  BY <1>1 DEF ListActive, maps, creation, Each, Objects, Told, Types
<1>3. /\ list' \in [Requests -> [active : SUBSET Names, swapped : SUBSET Names]]
      /\ list'[r].active = {n \in Names : active[n] # None}
      /\ \A q \in Requests \ {r} : list'[q] = list[q]
  <2>1. list[r] \in [active : SUBSET Names, swapped : SUBSET Names]  BY <1>1 DEF Types
  <2>2. list' = [list EXCEPT ![r] = [list[r] EXCEPT !.active = {n \in Names : active[n] # None}]]
    BY <1>2
  <2>3. [list[r] EXCEPT !.active = {n \in Names : active[n] # None}]
          = [active |-> {n \in Names : active[n] # None}, swapped |-> list[r].swapped]
    BY <2>1, SMTT(30)
  <2> QED  BY <1>1, <2>1, <2>2, <2>3 DEF Types
<1>4. Types'
  BY <1>1, <1>2, <1>3 DEF Types, Kinds, Stages, Statuses, Threads
<1>5. \A q \in Requests \ {r} : Same(q)
  BY <1>1, <1>2, <1>3 DEF Types, Same
<1>6. Mapped'
  BY <1>1, <1>2, <1>3, MappedSame
<1>7. Listed'
  <2> SUFFICES ASSUME NEW q \in Requests, pc'[q] = "listing", NEW n \in Names \ disturbed'[q]
               PROVE  /\ active[n] # None => n \in list'[q].active
                      /\ n \in list'[q].active =>
                           \/ active[n] # None
                           \/ \E p \in Requests : req[p].name = n /\ status[p] \in {"CLOSED", "FAILED"}
    BY <1>2 DEF Listed
  <2>1. CASE q = r  BY <2>1, <1>3
  <2>2. CASE q # r
    <3>1. pc[q] = "listing" /\ n \in Names \ disturbed[q] /\ list'[q] = list[q]
      BY <2>2, <1>1, <1>2, <1>3 DEF Types
    <3> QED  BY <3>1, <1>1 DEF Listed
  <2> QED  BY <2>1, <2>2
<1>8. Each(r)'
  <2>1. Objects(r)'  BY <1>1, <1>2, <1>3 DEF Types, Threads, Each, Objects, Informed, Told, CalledOnce, Answered
  <2>2. Informed(r)'  BY <1>1, <1>2, <1>3 DEF Types, Threads, Each, Objects, Informed
  <2>3. Told(r)'  BY <1>1, <1>2, <1>3 DEF Types, Threads, Each, Objects, Informed, Told, CalledOnce, Answered
  <2>4. CalledOnce(r)'
    BY <1>1, <1>2, <1>3 DEF Types, Threads, Each, Objects, Informed, Told, CalledOnce, Answered
  <2>5. Answered(r)'
    BY <1>1, <1>2, <1>3 DEF Types, Threads, Each, Objects, Informed, Told, CalledOnce, Answered
  <2> QED  BY <2>1, <2>2, <2>3, <2>4, <2>5 DEF Each
<1>9. backend' = backend /\ (fault' = "callback" => raced' # {})
  BY <1>1, <1>2, <1>3
<1> QED  BY <1>4, <1>5, <1>6, <1>7, <1>8, <1>9, OneKeeps

\* A listing reads the second map and answers.
LEMMA ListSwappedKeeps ==
  ASSUME RestAssumption, Inv, NEW r \in Requests, ListSwapped(r)
  PROVE  Inv'
<1>1. Types /\ Mapped /\ Listed /\ Each(r) /\ (fault = "callback" => raced # {})
  BY DEF Inv
<1>2. /\ pc[r] = "listing" /\ req[r].kind = "list" /\ status[r] = "none" /\ answers[r] = <<>>
      /\ Answer(r, 200)
      /\ list' = [list EXCEPT ![r].swapped = {n \in Names : swapped[n] # None}]
      /\ backend' = backend /\ exists' = exists /\ req' = req /\ active' = active /\ swapped' = swapped
      /\ status' = status /\ moving' = moving /\ closing' = closing /\ handle' = handle
      /\ address' = address /\ callback' = callback
      /\ cb' = cb /\ fault' = fault /\ raced' = raced /\ disturbed' = disturbed
  BY <1>1 DEF ListSwapped, maps, creation, Each, Objects, Told
<1>3. /\ answers' \in [Requests -> Seq(Codes)]
      /\ pc' \in [Requests -> {"new", "queued", "listing", "swapping", "creating", "done"}]
      /\ pc'[r] = "done"
      /\ answers[r] = <<>> /\ Len(answers'[r]) = 1
      /\ \A q \in Requests \ {r} : pc'[q] = pc[q] /\ answers'[q] = answers[q]
  <2>1. answers[r] = <<>>  BY <1>1, <1>2 DEF Each, Told
  <2>2. (200) \in Codes  BY DEF Codes
  <2> QED  BY <1>1, <1>2, <2>1, <2>2, AnswerGives
<1>4. /\ list' \in [Requests -> [active : SUBSET Names, swapped : SUBSET Names]]
      /\ list'[r].swapped = {n \in Names : swapped[n] # None}
      /\ \A q \in Requests \ {r} : list'[q] = list[q]
  <2>1. list[r] \in [active : SUBSET Names, swapped : SUBSET Names]  BY <1>1 DEF Types
  <2>2. list' = [list EXCEPT ![r] = [list[r] EXCEPT !.swapped = {n \in Names : swapped[n] # None}]]
    BY <1>2
  <2>3. [list[r] EXCEPT !.swapped = {n \in Names : swapped[n] # None}]
          = [active |-> list[r].active, swapped |-> {n \in Names : swapped[n] # None}]
    BY <2>1
  <2> QED  BY <1>1, <2>1, <2>2, <2>3 DEF Types
<1>5. Types'
  BY <1>1, <1>2, <1>3, <1>4 DEF Types, Kinds, Stages, Statuses, Threads
<1>6. \A q \in Requests \ {r} : Same(q)
  BY <1>1, <1>2, <1>3, <1>4 DEF Types, Same
<1>7. Mapped'
  BY <1>1, <1>2, <1>3, <1>4, MappedSame
<1>8. Listed'
  <2> SUFFICES ASSUME NEW q \in Requests, pc'[q] = "listing", NEW n \in Names \ disturbed[q]
               PROVE  /\ active[n] # None => n \in list'[q].active
                      /\ n \in list'[q].active =>
                           \/ active[n] # None
                           \/ \E p \in Requests : req[p].name = n /\ status[p] \in {"CLOSED", "FAILED"}
    BY <1>2 DEF Listed
  <2>1. pc[q] = "listing" /\ list'[q] = list[q]  BY <1>3, <1>4
  <2> QED  BY <2>1, <1>1 DEF Listed
<1>9. Each(r)'
  <2>1. Objects(r)'
    BY <1>1, <1>2, <1>3, <1>4 DEF Types, Threads, Each, Objects, Informed, Told, CalledOnce, Answered
  <2>2. Informed(r)'  BY <1>1, <1>2, <1>3, <1>4 DEF Types, Threads, Each, Objects, Informed
  <2>3. Told(r)'
    BY <1>1, <1>2, <1>3, <1>4 DEF Types, Threads, Each, Objects, Informed, Told, CalledOnce, Answered
  <2>4. CalledOnce(r)'
    BY <1>1, <1>2, <1>3, <1>4 DEF Types, Threads, Each, Objects, Informed, Told, CalledOnce, Answered
  <2>5. Answered(r)'
    BY <1>1, <1>2, <1>3, <1>4 DEF Types, Threads, Each, Objects, Informed, Told, CalledOnce, Answered
  <2> QED  BY <2>1, <2>2, <2>3, <2>4, <2>5 DEF Each
<1>10. backend' = backend /\ (fault' = "callback" => raced' # {})
  BY <1>1, <1>2, <1>3, <1>4
<1> QED  BY <1>5, <1>6, <1>7, <1>8, <1>9, <1>10, OneKeeps

\* The backend has started the container.
LEMMA AllocatedKeeps ==
  ASSUME RestAssumption, Inv, NEW r \in Requests, Allocated(r)
  PROVE  Inv'
<1>1. Types /\ Mapped /\ Listed /\ Each(r) /\ (fault = "callback" => raced # {})
  BY DEF Inv
<1>2. /\ status[r] # "none" /\ ~handle[r] /\ status[r] # "FAILED"
      /\ handle' = [handle EXCEPT ![r] = TRUE]
      /\ address' = [address EXCEPT ![r] = backend = "docker"]
      /\ cb' = [cb EXCEPT ![r] = [cb[r] EXCEPT !["backend"] = "check"]]
      /\ raced' = IF cb[r]["io"] = "check" THEN raced \cup {r} ELSE raced
      /\ backend' = backend /\ exists' = exists /\ req' = req /\ pc' = pc /\ answers' = answers
      /\ active' = active /\ swapped' = swapped /\ status' = status /\ moving' = moving
      /\ closing' = closing /\ callback' = callback
      /\ list' = list /\ fault' = fault /\ disturbed' = disturbed
  BY <1>1 DEF Allocated, Open, Threads, maps, creation, Types
<1>3. \A t \in Threads : cb[r][t] \in {"none", "check"}
  BY <1>1, <1>2 DEF Each, Informed, Types, Stages, Threads
<1>4. handle'[r] = TRUE /\ (backend = "docker" => address'[r])
  BY <1>1, <1>2 DEF Types
<1>5. Types'
  BY <1>1, <1>2, <1>3, <1>4 DEF Types, Kinds, Stages, Statuses, Threads
<1>6. \A q \in Requests \ {r} : Same(q)
  BY <1>1, <1>2, <1>3, <1>4 DEF Types, Same
<1>7. Mapped'
  BY <1>1, <1>2, <1>3, <1>4, MappedSame
<1>8. Listed'
  BY <1>1, <1>2, <1>3, <1>4, ListedSame
<1>9. Each(r)'
  <2>1. Objects(r)'
    BY <1>1, <1>2, <1>3, <1>4 DEF Types, Threads, Each, Objects, Informed, Told, CalledOnce, Answered
  <2>2. Informed(r)'  BY <1>1, <1>2, <1>3, <1>4 DEF Types, Threads, Each, Objects, Informed
  <2>3. Told(r)'
    BY <1>1, <1>2, <1>3, <1>4 DEF Types, Threads, Each, Objects, Informed, Told, CalledOnce, Answered
  <2>4. CalledOnce(r)'
    BY <1>1, <1>2, <1>3, <1>4 DEF Types, Threads, Each, Objects, Informed, Told, CalledOnce, Answered
  <2>5. Answered(r)'
    BY <1>1, <1>2, <1>3, <1>4 DEF Types, Threads, Each, Objects, Informed, Told, CalledOnce, Answered
  <2> QED  BY <2>1, <2>2, <2>3, <2>4, <2>5 DEF Each
<1>10. backend' = backend /\ (fault' = "callback" => raced' # {})
  BY <1>1, <1>2, <1>3, <1>4
<1> QED  BY <1>5, <1>6, <1>7, <1>8, <1>9, <1>10, OneKeeps

\* The backend has not started the container.
LEMMA NotAllocatedKeeps ==
  ASSUME RestAssumption, Inv, NEW r \in Requests, NotAllocated(r)
  PROVE  Inv'
<1>1. Types /\ Mapped /\ Listed /\ Each(r) /\ (fault = "callback" => raced # {})
  BY DEF Inv
<1>2. /\ status[r] = "ALLOCATING" /\ ~handle[r]
      /\ active' = [active EXCEPT ![req[r].name] = None]
      /\ status' = [status EXCEPT ![r] = "FAILED"]
      /\ callback' = [callback EXCEPT ![r] = FALSE]
      /\ Answer(r, 500)
      /\ backend' = backend /\ exists' = exists /\ req' = req /\ swapped' = swapped /\ moving' = moving
      /\ closing' = closing
      /\ handle' = handle /\ address' = address /\ cb' = cb /\ list' = list /\ fault' = fault
      /\ raced' = raced /\ disturbed' = disturbed
  BY <1>1 DEF NotAllocated, maps, creation
<1>3. /\ answers' \in [Requests -> Seq(Codes)]
      /\ pc' \in [Requests -> {"new", "queued", "listing", "swapping", "creating", "done"}]
      /\ pc'[r] = "done"
      /\ answers[r] = <<>> /\ Len(answers'[r]) = 1
      /\ \A q \in Requests \ {r} : pc'[q] = pc[q] /\ answers'[q] = answers[q]
  <2>1. answers[r] = <<>>  BY <1>1, <1>2 DEF Each, Informed, CalledOnce, Statuses, Types
  <2>2. (500) \in Codes  BY DEF Codes
  <2> QED  BY <1>1, <1>2, <2>1, <2>2, AnswerGives
<1>4. \A i \in 1..Len(answers'[r]) : answers'[r][i] # 200
  <2>1. 500 \in Codes  BY DEF Codes
  <2>2. \A j \in 1..Len(answers[r]) : answers[r][j] # 200  BY <1>3
  <2> QED  BY <2>1, <2>2, <1>1, <1>2, AnswerGives, SMTT(30)
<1>5. req[r].name \in Names /\ (\A q \in Requests \ {r} : status'[q] = status[q]) /\ status'[r] = "FAILED"
  BY <1>1, <1>2 DEF Types, Each, Objects
<1>6. Types'
  BY <1>1, <1>2, <1>3, <1>4, <1>5 DEF Types, Kinds, Stages, Statuses, Threads
<1>7. \A q \in Requests \ {r} : Same(q)
  BY <1>1, <1>2, <1>3, <1>4, <1>5 DEF Types, Same
<1>8. Mapped'
  <2>1. ASSUME NEW n \in Names, active'[n] # None
        PROVE  /\ req'[active'[n]].name = n
               /\ status'[active'[n]] \in {"ALLOCATING", "ALLOCATED", "SWAPPING_OUT", "CLOSED"}
    <3>1. n # req[r].name /\ active'[n] = active[n]  BY <2>1, <1>1, <1>2, <1>5 DEF Types
    <3>2. active[n] \in Requests /\ req[active[n]].name = n  BY <2>1, <3>1, <1>1 DEF Mapped, Types
    <3>3. active[n] # r  BY <3>1, <3>2
    <3> QED  BY <2>1, <3>1, <3>2, <3>3, <1>1, <1>2, <1>5 DEF Mapped
  <2>2. ASSUME NEW n \in Names, swapped'[n] # None PROVE status'[swapped'[n]] = "SWAPPED_OUT"
    <3>1. swapped[n] \in Requests /\ swapped[n] # r  BY <2>2, <1>1, <1>2 DEF Mapped, Types
    <3> QED  BY <2>2, <3>1, <1>1, <1>2, <1>5 DEF Mapped
  <2>3. ASSUME moving' # None PROVE status'[moving'] = "SWAPPED_OUT" /\ req'[moving'].name \in Names
    <3>1. moving \in Requests /\ moving # r  BY <2>3, <1>1, <1>2 DEF Mapped, Types
    <3> QED  BY <2>3, <3>1, <1>1, <1>2, <1>5 DEF Mapped
  <2> QED  BY <2>1, <2>2, <2>3 DEF Mapped
<1>9. Listed'
  <2> SUFFICES ASSUME NEW q \in Requests, pc'[q] = "listing", NEW n \in Names \ disturbed[q]
               PROVE  /\ active'[n] # None => n \in list[q].active
                      /\ n \in list[q].active =>
                           \/ active'[n] # None
                           \/ \E p \in Requests : req[p].name = n /\ status'[p] \in {"CLOSED", "FAILED"}
    BY <1>2 DEF Listed
  <2>1. pc[q] = "listing"  BY <1>3
  <2>2. n # req[r].name => active'[n] = active[n]  BY <1>1, <1>2, <1>5 DEF Types
  <2>3. n = req[r].name => active'[n] = None  BY <1>1, <1>2, <1>5 DEF Types
  <2>4. \A p \in Requests : status[p] \in {"CLOSED", "FAILED"} => status'[p] \in {"CLOSED", "FAILED"}
    BY <1>5
  <2>5. /\ active[n] # None => n \in list[q].active
        /\ n \in list[q].active =>
             \/ active[n] # None
             \/ \E p \in Requests : req[p].name = n /\ status[p] \in {"CLOSED", "FAILED"}
    BY <2>1, <1>1 DEF Listed
  <2> QED  BY <2>2, <2>3, <2>4, <2>5, <1>2, <1>5
<1>10. Each(r)'
  <2>1. Objects(r)'
    BY <1>1, <1>2, <1>3, <1>4, <1>5 DEF Types, Threads, Each, Objects, Informed, Told, CalledOnce, Answered
  <2>2. Informed(r)'  BY <1>1, <1>2, <1>3, <1>4, <1>5 DEF Types, Threads, Each, Objects, Informed
  <2>3. Told(r)'
    BY <1>1, <1>2, <1>3, <1>4, <1>5 DEF Types, Threads, Each, Objects, Informed, Told, CalledOnce, Answered
  <2>4. CalledOnce(r)'
    BY <1>1, <1>2, <1>3, <1>4, <1>5 DEF Types, Threads, Each, Objects, Informed, Told, CalledOnce, Answered
  <2>5. Answered(r)'
    BY <1>1, <1>2, <1>3, <1>4, <1>5 DEF Types, Threads, Each, Objects, Informed, Told, CalledOnce, Answered
  <2> QED  BY <2>1, <2>2, <2>3, <2>4, <2>5 DEF Each
<1>11. backend' = backend /\ (fault' = "callback" => raced' # {})
  BY <1>1, <1>2, <1>3, <1>4, <1>5
<1> QED  BY <1>6, <1>7, <1>8, <1>9, <1>10, <1>11, OneKeeps

\* The process has registered.
LEMMA ConnectedKeeps ==
  ASSUME RestAssumption, Inv, NEW r \in Requests, Connected(r)
  PROVE  Inv'
<1>1. Types /\ Mapped /\ Listed /\ Each(r) /\ (fault = "callback" => raced # {})
  BY DEF Inv
<1>2. /\ status[r] = "ALLOCATING"
      /\ status' = [status EXCEPT ![r] = "ALLOCATED"]
      /\ cb' = [cb EXCEPT ![r] = [cb[r] EXCEPT !["io"] = "check"]]
      /\ raced' = IF cb[r]["backend"] = "check" THEN raced \cup {r} ELSE raced
      /\ backend' = backend /\ exists' = exists /\ req' = req /\ pc' = pc /\ answers' = answers
      /\ active' = active /\ swapped' = swapped /\ moving' = moving /\ closing' = closing
      /\ handle' = handle /\ address' = address
      /\ callback' = callback /\ list' = list /\ fault' = fault /\ disturbed' = disturbed
  BY <1>1 DEF Connected, Open, Threads, maps, creation, Types
<1>3. (\A q \in Requests \ {r} : status'[q] = status[q]) /\ status'[r] = "ALLOCATED"
  BY <1>1, <1>2 DEF Types
<1>4. Types'
  BY <1>1, <1>2, <1>3 DEF Types, Kinds, Stages, Statuses, Threads
<1>5. \A q \in Requests \ {r} : Same(q)
  BY <1>1, <1>2, <1>3 DEF Types, Same
<1>6. Mapped'
  <2>1. ASSUME NEW n \in Names, active'[n] # None
        PROVE  /\ req'[active'[n]].name = n
               /\ status'[active'[n]] \in {"ALLOCATING", "ALLOCATED", "SWAPPING_OUT", "CLOSED"}
    <3>1. active[n] \in Requests  BY <2>1, <1>1, <1>2 DEF Types
    <3> QED  BY <2>1, <3>1, <1>1, <1>2, <1>3 DEF Mapped
  <2>2. ASSUME NEW n \in Names, swapped'[n] # None PROVE status'[swapped'[n]] = "SWAPPED_OUT"
    <3>1. swapped[n] \in Requests /\ swapped[n] # r  BY <2>2, <1>1, <1>2 DEF Mapped, Types
    <3> QED  BY <2>2, <3>1, <1>1, <1>2, <1>3 DEF Mapped
  <2>3. ASSUME moving' # None PROVE status'[moving'] = "SWAPPED_OUT" /\ req'[moving'].name \in Names
    <3>1. moving \in Requests /\ moving # r  BY <2>3, <1>1, <1>2 DEF Mapped, Types
    <3> QED  BY <2>3, <3>1, <1>1, <1>2, <1>3 DEF Mapped
  <2> QED  BY <2>1, <2>2, <2>3 DEF Mapped
<1>7. Listed'
  BY <1>1, <1>2, <1>3, ListedSame
<1>8. Each(r)'
  <2>1. Objects(r)'  BY <1>1, <1>2, <1>3 DEF Types, Threads, Each, Objects, Informed, Told, CalledOnce, Answered
  <2>2. Informed(r)'  BY <1>1, <1>2, <1>3 DEF Types, Threads, Each, Objects, Informed
  <2>3. Told(r)'  BY <1>1, <1>2, <1>3 DEF Types, Threads, Each, Objects, Informed, Told, CalledOnce, Answered
  <2>4. CalledOnce(r)'
    BY <1>1, <1>2, <1>3 DEF Types, Threads, Each, Objects, Informed, Told, CalledOnce, Answered
  <2>5. Answered(r)'
    BY <1>1, <1>2, <1>3 DEF Types, Threads, Each, Objects, Informed, Told, CalledOnce, Answered
  <2> QED  BY <2>1, <2>2, <2>3, <2>4, <2>5 DEF Each
<1>9. backend' = backend /\ (fault' = "callback" => raced' # {})
  BY <1>1, <1>2, <1>3
<1> QED  BY <1>4, <1>5, <1>6, <1>7, <1>8, <1>9, OneKeeps

\* created_callback looks whether the process is complete.
LEMMA CheckKeeps ==
  ASSUME RestAssumption, Inv, NEW r \in Requests, NEW t \in Threads, Check(r, t)
  PROVE  Inv'
<1>1. Types /\ Mapped /\ Listed /\ Each(r) /\ (fault = "callback" => raced # {})
  BY DEF Inv
<1>2. /\ cb[r][t] = "check"
      /\ cb' = [cb EXCEPT ![r] = [cb[r] EXCEPT ![t] =
              IF ~callback[r] \/ ~handle[r] \/ status[r] # "ALLOCATED" THEN "none"
              ELSE IF backend = "docker" THEN "call" ELSE "task"]]
      /\ backend' = backend /\ exists' = exists /\ req' = req /\ pc' = pc /\ answers' = answers
      /\ active' = active /\ swapped' = swapped /\ status' = status /\ moving' = moving
      /\ closing' = closing /\ handle' = handle
      /\ address' = address /\ callback' = callback /\ list' = list /\ fault' = fault /\ raced' = raced
      /\ disturbed' = disturbed
  BY <1>1 DEF Check, maps, creation, Types
<1>3. Types'
  BY <1>1, <1>2 DEF Types, Kinds, Stages, Statuses, Threads
<1>4. \A q \in Requests \ {r} : Same(q)
  BY <1>1, <1>2 DEF Types, Same
<1>5. Mapped'
  BY <1>1, <1>2, MappedSame
<1>6. Listed'
  BY <1>1, <1>2, ListedSame
<1>7. Each(r)'
  <2>1. Objects(r)'  BY <1>1, <1>2 DEF Types, Threads, Each, Objects, Informed, Told, CalledOnce, Answered
  <2>2. Informed(r)'  BY <1>1, <1>2 DEF Types, Threads, Each, Objects, Informed
  <2>3. Told(r)'  BY <1>1, <1>2 DEF Types, Threads, Each, Objects, Informed, Told, CalledOnce, Answered
  <2>4. CalledOnce(r)'  BY <1>1, <1>2 DEF Types, Threads, Each, Objects, Informed, Told, CalledOnce, Answered
  <2>5. Answered(r)'  BY <1>1, <1>2 DEF Types, Threads, Each, Objects, Informed, Told, CalledOnce, Answered
  <2> QED  BY <2>1, <2>2, <2>3, <2>4, <2>5 DEF Each
<1>8. backend' = backend /\ (fault' = "callback" => raced' # {})
  BY <1>1, <1>2
<1> QED  BY <1>3, <1>4, <1>5, <1>6, <1>7, <1>8, OneKeeps

\* Fargate is asked for the interface of a task.
LEMMA DescribeTaskKeeps ==
  ASSUME RestAssumption, Inv, NEW r \in Requests, NEW t \in Threads, DescribeTask(r, t)
  PROVE  Inv'
<1>1. Types /\ Mapped /\ Listed /\ Each(r) /\ (fault = "callback" => raced # {})
  BY DEF Inv
<1>2. /\ cb[r][t] = "task"
      /\ \/ cb' = [cb EXCEPT ![r] = [cb[r] EXCEPT ![t] = "eni"]]
         \/ cb' = [cb EXCEPT ![r] = [cb[r] EXCEPT ![t] = "fail"]]
      /\ backend' = backend /\ exists' = exists /\ req' = req /\ pc' = pc /\ answers' = answers
      /\ active' = active /\ swapped' = swapped /\ status' = status /\ moving' = moving
      /\ closing' = closing /\ handle' = handle
      /\ address' = address /\ callback' = callback /\ list' = list /\ fault' = fault /\ raced' = raced
      /\ disturbed' = disturbed
  BY <1>1 DEF DescribeTask, maps, creation, Types
<1>3. cb' \in [Requests -> [Threads -> Stages]]
  <2>1. cb[r] \in [Threads -> Stages] /\ "eni" \in Stages /\ "call" \in Stages /\ "fail" \in Stages
    BY <1>1 DEF Types, Stages
  <2>2. PICK x \in Stages : cb' = [cb EXCEPT ![r] = [cb[r] EXCEPT ![t] = x]]  BY <2>1, <1>2
  <2>3. [cb[r] EXCEPT ![t] = x] \in [Threads -> Stages]  BY <2>1
  <2> QED  BY <2>2, <2>3, <1>1, <1>2 DEF Types
<1>4. Types'
  BY <1>1, <1>2, <1>3 DEF Types, Kinds, Stages, Statuses, Threads
<1>5. \A q \in Requests \ {r} : Same(q)
  BY <1>1, <1>2, <1>3 DEF Types, Same
<1>6. Mapped'
  BY <1>1, <1>2, <1>3, MappedSame
<1>7. Listed'
  BY <1>1, <1>2, <1>3, ListedSame
<1>8. Each(r)'
  <2>1. Objects(r)'  BY <1>1, <1>2, <1>3 DEF Types, Threads, Each, Objects, Informed, Told, CalledOnce, Answered
  <2>2. Informed(r)'  BY <1>1, <1>2, <1>3 DEF Types, Threads, Each, Objects, Informed
  <2>3. Told(r)'  BY <1>1, <1>2, <1>3 DEF Types, Threads, Each, Objects, Informed, Told, CalledOnce, Answered
  <2>4. CalledOnce(r)'
    BY <1>1, <1>2, <1>3 DEF Types, Threads, Each, Objects, Informed, Told, CalledOnce, Answered
  <2>5. Answered(r)'
    BY <1>1, <1>2, <1>3 DEF Types, Threads, Each, Objects, Informed, Told, CalledOnce, Answered
  <2> QED  BY <2>1, <2>2, <2>3, <2>4, <2>5 DEF Each
<1>9. backend' = backend /\ (fault' = "callback" => raced' # {})
  BY <1>1, <1>2, <1>3
<1> QED  BY <1>4, <1>5, <1>6, <1>7, <1>8, <1>9, OneKeeps

\* Fargate is asked for the address of an interface.
LEMMA DescribeEniKeeps ==
  ASSUME RestAssumption, Inv, NEW r \in Requests, NEW t \in Threads, DescribeEni(r, t)
  PROVE  Inv'
<1>1. Types /\ Mapped /\ Listed /\ Each(r) /\ (fault = "callback" => raced # {})
  BY DEF Inv
<1>2. /\ cb[r][t] = "eni"
      /\ \/ cb' = [cb EXCEPT ![r] = [cb[r] EXCEPT ![t] = "call"]] /\ address' = [address EXCEPT ![r] = TRUE]
         \/ cb' = [cb EXCEPT ![r] = [cb[r] EXCEPT ![t] = "fail"]] /\ address' = address
      /\ backend' = backend /\ exists' = exists /\ req' = req /\ pc' = pc /\ answers' = answers
      /\ active' = active /\ swapped' = swapped /\ status' = status /\ moving' = moving
      /\ closing' = closing /\ handle' = handle
      /\ callback' = callback /\ list' = list /\ fault' = fault /\ raced' = raced /\ disturbed' = disturbed
  BY <1>1 DEF DescribeEni, maps, creation, Types
<1>3. cb' \in [Requests -> [Threads -> Stages]] /\ address' \in [Requests -> BOOLEAN]
  <2>1. cb[r] \in [Threads -> Stages] /\ "eni" \in Stages /\ "call" \in Stages /\ "fail" \in Stages
    BY <1>1 DEF Types, Stages
  <2>2. PICK x \in Stages : cb' = [cb EXCEPT ![r] = [cb[r] EXCEPT ![t] = x]]  BY <2>1, <1>2
  <2>3. [cb[r] EXCEPT ![t] = x] \in [Threads -> Stages]  BY <2>1
  <2> QED  BY <2>2, <2>3, <1>1, <1>2 DEF Types
<1>4. Types'
  BY <1>1, <1>2, <1>3 DEF Types, Kinds, Stages, Statuses, Threads
<1>5. \A q \in Requests \ {r} : Same(q)
  BY <1>1, <1>2, <1>3 DEF Types, Same
<1>6. Mapped'
  BY <1>1, <1>2, <1>3, MappedSame
<1>7. Listed'
  BY <1>1, <1>2, <1>3, ListedSame
<1>8. Each(r)'
  <2>1. Objects(r)'  BY <1>1, <1>2, <1>3 DEF Types, Threads, Each, Objects, Informed, Told, CalledOnce, Answered
  <2>2. Informed(r)'  BY <1>1, <1>2, <1>3 DEF Types, Threads, Each, Objects, Informed
  <2>3. Told(r)'  BY <1>1, <1>2, <1>3 DEF Types, Threads, Each, Objects, Informed, Told, CalledOnce, Answered
  <2>4. CalledOnce(r)'
    BY <1>1, <1>2, <1>3 DEF Types, Threads, Each, Objects, Informed, Told, CalledOnce, Answered
  <2>5. Answered(r)'
    BY <1>1, <1>2, <1>3 DEF Types, Threads, Each, Objects, Informed, Told, CalledOnce, Answered
  <2> QED  BY <2>1, <2>2, <2>3, <2>4, <2>5 DEF Each
<1>9. backend' = backend /\ (fault' = "callback" => raced' # {})
  BY <1>1, <1>2, <1>3
<1> QED  BY <1>4, <1>5, <1>6, <1>7, <1>8, <1>9, OneKeeps

\* The creation callback is removed.
LEMMA ClearKeeps ==
  ASSUME RestAssumption, Inv, NEW r \in Requests, NEW t \in Threads, Clear(r, t)
  PROVE  Inv'
<1>1. Types /\ Mapped /\ Listed /\ Each(r) /\ (fault = "callback" => raced # {})
  BY DEF Inv
<1>2. /\ cb[r][t] = "clear"
      /\ callback' = [callback EXCEPT ![r] = FALSE]
      /\ cb' = [cb EXCEPT ![r] = [cb[r] EXCEPT ![t] = "none"]]
      /\ backend' = backend /\ exists' = exists /\ req' = req /\ pc' = pc /\ answers' = answers
      /\ active' = active /\ swapped' = swapped /\ status' = status /\ moving' = moving
      /\ closing' = closing /\ handle' = handle
      /\ address' = address /\ list' = list /\ fault' = fault /\ raced' = raced /\ disturbed' = disturbed
  BY <1>1 DEF Clear, maps, creation, Types
<1>3. Types'
  BY <1>1, <1>2 DEF Types, Kinds, Stages, Statuses, Threads
<1>4. \A q \in Requests \ {r} : Same(q)
  BY <1>1, <1>2 DEF Types, Same
<1>5. Mapped'
  BY <1>1, <1>2, MappedSame
<1>6. Listed'
  BY <1>1, <1>2, ListedSame
<1>7. Each(r)'
  <2>1. Objects(r)'  BY <1>1, <1>2 DEF Types, Threads, Each, Objects, Informed, Told, CalledOnce, Answered
  <2>2. Informed(r)'  BY <1>1, <1>2 DEF Types, Threads, Each, Objects, Informed
  <2>3. Told(r)'  BY <1>1, <1>2 DEF Types, Threads, Each, Objects, Informed, Told, CalledOnce, Answered
  <2>4. CalledOnce(r)'  BY <1>1, <1>2 DEF Types, Threads, Each, Objects, Informed, Told, CalledOnce, Answered
  <2>5. Answered(r)'  BY <1>1, <1>2 DEF Types, Threads, Each, Objects, Informed, Told, CalledOnce, Answered
  <2> QED  BY <2>1, <2>2, <2>3, <2>4, <2>5 DEF Each
<1>8. backend' = backend /\ (fault' = "callback" => raced' # {})
  BY <1>1, <1>2
<1> QED  BY <1>3, <1>4, <1>5, <1>6, <1>7, <1>8, OneKeeps

\* The creation callback answers.
LEMMA CalledBackKeeps ==
  ASSUME RestAssumption, Inv, NEW r \in Requests, NEW t \in Threads, callback[r], CallBack(r, t)
  PROVE  Inv'
<1>1. Types /\ Mapped /\ Listed /\ Each(r) /\ (fault = "callback" => raced # {})
  BY DEF Inv
<1>2. /\ cb[r][t] \in {"call", "fail"} /\ callback[r]
      /\ Answer(r, IF cb[r][t] = "call" THEN 200 ELSE 500)
      /\ (IF cb[r][t] = "call" THEN 200 ELSE 500) \in Codes
      /\ cb' = [cb EXCEPT ![r] = [cb[r] EXCEPT ![t] = "clear"]]
      /\ backend' = backend /\ exists' = exists /\ req' = req /\ active' = active /\ swapped' = swapped
      /\ status' = status /\ moving' = moving /\ closing' = closing /\ handle' = handle
      /\ address' = address /\ callback' = callback
      /\ list' = list /\ fault' = fault /\ raced' = raced /\ disturbed' = disturbed
  BY <1>1 DEF CallBack, maps, creation, Types, Codes
<1>3. req[r].kind = "create" /\ status[r] \notin {"none", "ALLOCATING"} /\ handle[r] /\ pc[r] \in {"creating", "done"}
  BY <1>1, <1>2 DEF Each, Objects, Informed, Threads
<1>4. /\ answers' \in [Requests -> Seq(Codes)]
      /\ pc' \in [Requests -> {"new", "queued", "listing", "swapping", "creating", "done"}]
      /\ pc'[r] = "done" /\ answers'[r] # <<>>
      /\ answers[r] = <<>> => Len(answers'[r]) = 1
      /\ \A i \in 1..Len(answers'[r]) : answers'[r][i] = 200 =>
           cb[r][t] = "call" \/ \E j \in 1..Len(answers[r]) : answers[r][j] = 200
      /\ \A q \in Requests \ {r} : pc'[q] = pc[q] /\ answers'[q] = answers[q]
  <2> DEFINE a == IF cb[r][t] = "call" THEN 200 ELSE 500
  <2>1. a \in Codes /\ (a = 200 => cb[r][t] = "call") /\ Answer(r, a)  BY <1>2
  <2> HIDE DEF a
  <2> QED  BY <2>1, <1>1, AnswerGives
<1>5. cb' \in [Requests -> [Threads -> Stages]] /\ cb'[r] = [cb[r] EXCEPT ![t] = "clear"]
  <2>1. cb[r] \in [Threads -> Stages] /\ "clear" \in Stages  BY <1>1 DEF Types, Stages
  <2> QED  BY <2>1, <1>1, <1>2 DEF Types
<1>6. \A s \in Threads : cb'[r][s] = IF s = t THEN "clear" ELSE cb[r][s]
  BY <1>1, <1>5 DEF Types
<1>7. Types'
  BY <1>1, <1>2, <1>3, <1>4, <1>5, <1>6 DEF Types, Kinds, Stages, Statuses, Threads
<1>8. \A q \in Requests \ {r} : Same(q)
  BY <1>1, <1>2, <1>3, <1>4, <1>5, <1>6 DEF Types, Same
<1>9. Mapped'
  BY <1>1, <1>2, <1>3, <1>4, <1>5, <1>6, MappedSame
<1>10. Listed'
  BY <1>1, <1>2, <1>3, <1>4, <1>5, <1>6, ListedSame
<1>11. Each(r)'
  <2>1. Objects(r)'
    BY <1>1, <1>2, <1>3, <1>4 DEF Each, Objects
  <2>2. Informed(r)'
    BY <1>1, <1>2, <1>3, <1>6 DEF Each, Informed, Threads
  <2>3. Told(r)'
    BY <1>1, <1>2, <1>3, <1>4 DEF Each, Objects, Told
  <2>4. CalledOnce(r)'
    <3>1. ASSUME r \notin raced
          PROVE  /\ answers[r] = <<>> /\ Len(answers'[r]) = 1 /\ status[r] # "FAILED"
                 /\ \A s \in Threads : s # t => cb[r][s] = "none"
                 /\ \A s \in Threads : cb'[r][s] \in {"none", "clear"}
      BY <3>1, <1>1, <1>2, <1>3, <1>4, <1>6 DEF Each, CalledOnce, Threads
    <3>2. cb'[r][t] = "clear"  BY <1>6
    <3>3. r \notin raced => cb'[r]["backend"] = "none" \/ cb'[r]["io"] = "none"
      BY <3>1, <1>6 DEF Threads
    <3>4. SUFFICES ASSUME r \notin raced
                   PROVE  CalledOnce(r)'
      BY <1>2 DEF CalledOnce
    <3>5. /\ Len(answers'[r]) \in {0, 1}
          /\ \E s \in Threads : cb'[r][s] = "clear"
          /\ \A s \in Threads : cb'[r][s] \notin {"task", "eni", "call", "fail"}
      BY <3>1, <3>2, <3>4
    <3> QED  BY <3>1, <3>3, <3>4, <3>5, <1>2, <1>3 DEF CalledOnce
  <2>5. Answered(r)'
    BY <1>1, <1>2, <1>3, <1>4 DEF Each, Informed, Answered
  <2> QED  BY <2>1, <2>2, <2>3, <2>4, <2>5 DEF Each
<1>12. backend' = backend /\ (fault' = "callback" => raced' # {})
  BY <1>1, <1>2, <1>3, <1>4, <1>5, <1>6
<1> QED  BY <1>7, <1>8, <1>9, <1>10, <1>11, <1>12, OneKeeps

\* The creation callback is called when it is not there.
LEMMA NotCalledBackKeeps ==
  ASSUME RestAssumption, Inv, NEW r \in Requests, NEW t \in Threads, ~callback[r], CallBack(r, t)
  PROVE  Inv'
<1>1. Types /\ Mapped /\ Listed /\ Each(r) /\ (fault = "callback" => raced # {})
  BY DEF Inv
<1>2. /\ cb[r][t] \in {"call", "fail"} /\ ~callback[r]
      /\ r \in raced
      /\ backend' = backend /\ exists' = exists /\ req' = req /\ pc' = pc /\ answers' = answers
      /\ active' = active /\ swapped' = swapped /\ status' = status /\ moving' = moving
      /\ closing' = closing /\ handle' = handle
      /\ address' = address /\ callback' = callback /\ cb' = cb /\ list' = list /\ raced' = raced
      /\ disturbed' = disturbed
  BY <1>1 DEF CallBack, maps, creation, Types, Each, Objects, CalledOnce
<1>3. fault' = "callback"
  BY DEF CallBack
<1>4. Types'
  BY <1>1, <1>2, <1>3 DEF Types, Kinds, Stages, Statuses, Threads
<1>5. \A q \in Requests \ {r} : Same(q)
  BY <1>1, <1>2, <1>3 DEF Types, Same
<1>6. Mapped'
  BY <1>1, <1>2, <1>3, MappedSame
<1>7. Listed'
  BY <1>1, <1>2, <1>3, ListedSame
<1>8. Each(r)'
  <2>1. Objects(r)'  BY <1>1, <1>2, <1>3 DEF Types, Threads, Each, Objects, Informed, Told, CalledOnce, Answered
  <2>2. Informed(r)'  BY <1>1, <1>2, <1>3 DEF Types, Threads, Each, Objects, Informed
  <2>3. Told(r)'  BY <1>1, <1>2, <1>3 DEF Types, Threads, Each, Objects, Informed, Told, CalledOnce, Answered
  <2>4. CalledOnce(r)'
    BY <1>1, <1>2, <1>3 DEF Types, Threads, Each, Objects, Informed, Told, CalledOnce, Answered
  <2>5. Answered(r)'
    BY <1>1, <1>2, <1>3 DEF Types, Threads, Each, Objects, Informed, Told, CalledOnce, Answered
  <2> QED  BY <2>1, <2>2, <2>3, <2>4, <2>5 DEF Each
<1>9. backend' = backend /\ (fault' = "callback" => raced' # {})
  BY <1>1, <1>2, <1>3
<1> QED  BY <1>4, <1>5, <1>6, <1>7, <1>8, <1>9, OneKeeps

\* A request arrives, from whatever handler: it is about nothing the maps hold.
LEMMA ArrivesGives ==
  ASSUME RestAssumption, Inv, NEW r \in Requests, NEW kind \in Kinds, NEW n \in Names \cup {None},
         NEW args \in Args, Arrives(r, kind, n, args)
  PROVE  /\ pc[r] = "new" /\ status[r] = "none" /\ answers[r] = <<>>
         /\ req' \in [Requests -> Described]
         /\ req'[r].kind = kind /\ req'[r].name = n /\ req'[r].args = args
         /\ \A q \in Requests \ {r} : req'[q] = req[q]
         /\ Mapped'
         /\ backend' = backend /\ exists' = exists /\ active' = active /\ swapped' = swapped /\ status' = status
         /\ moving' = moving /\ closing' = closing /\ handle' = handle /\ address' = address
         /\ callback' = callback /\ cb' = cb
         /\ list' = list /\ fault' = fault /\ raced' = raced /\ disturbed' = disturbed
<1>1. Types /\ Mapped /\ Each(r)  BY DEF Inv
<1>2. /\ pc[r] = "new" /\ req' = [req EXCEPT ![r] = [kind |-> kind, name |-> n, args |-> args]]
      /\ backend' = backend /\ exists' = exists /\ active' = active /\ swapped' = swapped /\ status' = status
      /\ moving' = moving /\ closing' = closing /\ handle' = handle /\ address' = address
      /\ callback' = callback /\ cb' = cb
      /\ list' = list /\ fault' = fault /\ raced' = raced /\ disturbed' = disturbed
  BY DEF Arrives, maps, creation
<1>3. status[r] = "none" /\ answers[r] = <<>>  BY <1>1, <1>2 DEF Each, Objects, Told
<1>4. /\ req' \in [Requests -> Described]
      /\ req'[r].kind = kind /\ req'[r].name = n /\ req'[r].args = args
      /\ \A q \in Requests \ {r} : req'[q] = req[q]
  BY <1>1, <1>2 DEF Types, Args, Described
<1>5. Mapped'  BY <1>1, <1>2, <1>3, <1>4, MappedSame
<1> QED  BY <1>2, <1>3, <1>4, <1>5

\* A request has arrived, and its client is not answered or answered once.
LEMMA ArrivedKeeps ==
  ASSUME RestAssumption, Inv, NEW r \in Requests, NEW kind \in Kinds, NEW n \in Names \cup {None},
         NEW args \in Args, Arrives(r, kind, n, args),
         kind \in {"create", "delete", "swap"} => n \in Names,
         \A q \in Requests \ {r} : pc'[q] = pc[q] /\ answers'[q] = answers[q],
         answers' \in [Requests -> Seq(Codes)],
         pc' \in [Requests -> {"new", "queued", "listing", "swapping", "creating", "done"}],
         \/ pc'[r] = "queued" /\ args = "given" /\ answers'[r] = <<>>
         \/ pc'[r] = "queued" /\ args = "missing" /\ kind = "create" /\ Len(answers'[r]) = 1
         \/ pc'[r] = "done" /\ kind # "create" /\ Len(answers'[r]) = 1,
         kind = "create" => NoSuccess(answers'[r])
  PROVE  Inv'
<1>1. Types /\ Listed /\ Each(r) /\ (fault = "callback" => raced # {})
  BY DEF Inv
<1>2. /\ pc[r] = "new" /\ status[r] = "none"
      /\ req' \in [Requests -> Described]
      /\ req'[r].kind = kind /\ req'[r].name = n /\ req'[r].args = args
      /\ \A q \in Requests \ {r} : req'[q] = req[q]
      /\ Mapped'
      /\ backend' = backend /\ exists' = exists /\ active' = active /\ swapped' = swapped /\ status' = status
      /\ moving' = moving /\ closing' = closing /\ handle' = handle /\ address' = address
      /\ callback' = callback /\ cb' = cb
      /\ list' = list /\ fault' = fault /\ raced' = raced /\ disturbed' = disturbed
  <2>1. pc[r] = "new" /\ status[r] = "none"  BY ArrivesGives
  <2>2. req' \in [Requests -> Described]  BY ArrivesGives
  <2>4. req'[r].kind = kind /\ req'[r].name = n /\ req'[r].args = args
    <3>1. req' = [req EXCEPT ![r] = [kind |-> kind, name |-> n, args |-> args]]  BY DEF Arrives
    <3> QED  BY <3>1, <1>1 DEF Types
  <2>3. (\A q \in Requests \ {r} : req'[q] = req[q]) /\ Mapped'  BY ArrivesGives
  <2> QED  BY <2>1, <2>2, <2>3, <2>4 DEF Arrives, maps, creation
<1>3. Types'  BY <1>1, <1>2 DEF Types
<1>4. \A q \in Requests \ {r} : Same(q)  BY <1>2 DEF Same
<1>5. Listed'  BY <1>1, <1>2, ListedSame
<1>6. Each(r)'
  <2>1. Objects(r)'  BY <1>1, <1>2 DEF Each, Objects
  <2>2. Informed(r)'  BY <1>1, <1>2 DEF Each, Informed
  <2>3. Told(r)'
    <3>1. pc'[r] = "done" => Len(answers'[r]) \in {0, 1}  OBVIOUS
    <3> QED  BY <3>1, <1>2 DEF Told
  <2>4. CalledOnce(r)'  BY <1>2 DEF CalledOnce
  <2>5. Answered(r)'  BY <1>2 DEF Answered, NoSuccess
  <2> QED  BY <2>1, <2>2, <2>3, <2>4, <2>5 DEF Each
<1> QED  BY <1>1, <1>2, <1>3, <1>4, <1>5, <1>6, OneKeeps

\* A request for an application arrives.
LEMMA CreateAppKeeps ==
  ASSUME RestAssumption, Inv, NEW r \in Requests, NEW args \in {"given", "missing"}, CreateApp(r, args)
  PROVE  Inv'
<1>1. Types /\ "app" \in Kinds /\ 500 \in Codes /\ None \in Names \cup {None} /\ args \in Args
  BY DEF Inv, Kinds, Codes, Args
<1>2. Arrives(r, "app", None, args)  BY DEF CreateApp
<1>3. answers[r] = <<>>  BY <1>1, <1>2, ArrivesGives
<1>4. CASE args = "missing"
  <2>1. Answer(r, 500)  BY <1>4 DEF CreateApp
  <2>2. /\ answers' \in [Requests -> Seq(Codes)] /\ Len(answers'[r]) = 1 /\ pc'[r] = "done"
        /\ pc' \in [Requests -> {"new", "queued", "listing", "swapping", "creating", "done"}]
        /\ \A q \in Requests \ {r} : pc'[q] = pc[q] /\ answers'[q] = answers[q]
    BY <2>1, <1>1, <1>3, AnswerGives
  <2> QED  BY <2>2, <1>1, <1>2, ArrivedKeeps
<1>5. CASE args = "given"
  <2>1. pc' = [pc EXCEPT ![r] = "queued"] /\ answers' = answers  BY <1>5 DEF CreateApp
  <2>2. /\ answers' \in [Requests -> Seq(Codes)] /\ answers'[r] = <<>> /\ pc'[r] = "queued"
        /\ pc' \in [Requests -> {"new", "queued", "listing", "swapping", "creating", "done"}]
        /\ \A q \in Requests \ {r} : pc'[q] = pc[q] /\ answers'[q] = answers[q]
    BY <2>1, <1>1, <1>3 DEF Types
  <2> QED  BY <2>2, <1>1, <1>2, <1>5, ArrivedKeeps
<1> QED  BY <1>4, <1>5

\* A request for a process arrives, and is queued even when it is refused.
LEMMA CreateProcessKeeps ==
  ASSUME RestAssumption, Inv, NEW r \in Requests, NEW n \in Names, NEW args \in {"given", "missing"},
         CreateProcess(r, n, args)
  PROVE  Inv'
<1>1. Types /\ "create" \in Kinds /\ 500 \in Codes /\ n \in Names \cup {None} /\ args \in Args
  BY DEF Inv, Kinds, Codes, Args
<1>2. Arrives(r, "create", n, args)  BY DEF CreateProcess
<1>3. answers[r] = <<>>  BY <1>1, <1>2, ArrivesGives
<1>4. /\ pc' \in [Requests -> {"new", "queued", "listing", "swapping", "creating", "done"}]
      /\ pc'[r] = "queued" /\ \A q \in Requests \ {r} : pc'[q] = pc[q]
  BY <1>1 DEF CreateProcess, Types
<1>5. CASE args = "missing"
  <2>1. answers' = [answers EXCEPT ![r] = Append(@, 500)]  BY <1>5 DEF CreateProcess
  <2>2. Append(<<>>, 500) = <<500>> /\ <<500>> \in Seq(Codes)  BY <1>1
  <2>3. /\ answers' \in [Requests -> Seq(Codes)] /\ answers'[r] = <<500>>
        /\ \A q \in Requests \ {r} : answers'[q] = answers[q]
    BY <2>1, <2>2, <1>1, <1>3 DEF Types
  <2>4. Len(answers'[r]) = 1 /\ NoSuccess(answers'[r])
    BY <2>3 DEF NoSuccess
  <2>5. /\ answers' \in [Requests -> Seq(Codes)]
        /\ \A q \in Requests \ {r} : pc'[q] = pc[q] /\ answers'[q] = answers[q]
    BY <2>3, <1>4
  <2> QED  BY <2>4, <2>5, <1>1, <1>2, <1>4, <1>5, ArrivedKeeps
<1>6. CASE args = "given"
  <2>1. answers' = answers  BY <1>6 DEF CreateProcess
  <2>2. /\ answers' \in [Requests -> Seq(Codes)] /\ answers'[r] = <<>>
        /\ \A q \in Requests \ {r} : answers'[q] = answers[q]
        /\ NoSuccess(answers'[r])
    BY <2>1, <1>1, <1>3 DEF Types, NoSuccess
  <2> QED  BY <2>2, <1>1, <1>2, <1>4, <1>6, ArrivedKeeps
<1> QED  BY <1>5, <1>6

\* Any other request arrives.
LEMMA OtherKeeps ==
  ASSUME RestAssumption, Inv, NEW r \in Requests, NEW kind \in {"delete", "swap", "list"},
         NEW n \in Names \cup {None}, kind # "list" => n \in Names, Other(r, kind, n)
  PROVE  Inv'
<1>1. Types /\ kind \in Kinds /\ "given" \in Args  BY DEF Inv, Kinds, Args
<1>2. Arrives(r, kind, n, "given")  BY DEF Other
<1>3. answers[r] = <<>>  BY <1>1, <1>2, ArrivesGives
<1>4. /\ pc' \in [Requests -> {"new", "queued", "listing", "swapping", "creating", "done"}]
      /\ pc'[r] = "queued" /\ answers'[r] = <<>> /\ answers' \in [Requests -> Seq(Codes)]
      /\ \A q \in Requests \ {r} : pc'[q] = pc[q] /\ answers'[q] = answers[q]
  BY <1>1, <1>3 DEF Other, Types
<1> QED  BY <1>1, <1>2, <1>4, ArrivedKeeps

\* A process is confirmed to be swapped, and leaves the first map.
LEMMA SwapConfirmedKeeps ==
  ASSUME RestAssumption, Inv, NEW n \in Names, SwapConfirmed(n)
  PROVE  Inv'
<1>1. Types /\ Mapped /\ Listed /\ (fault = "callback" => raced # {})
  BY DEF Inv
<1>2. PICK r \in Requests : r = active[n]  BY <1>1 DEF SwapConfirmed, Types
<1>3. /\ status[r] = "SWAPPING_OUT" /\ req[r].name = n
      /\ moving' = r
      /\ active' = [active EXCEPT ![n] = None]
      /\ status' = [status EXCEPT ![r] = "SWAPPED_OUT"]
      /\ Disturb(n)
      /\ backend' = backend /\ exists' = exists /\ req' = req /\ pc' = pc /\ answers' = answers
      /\ swapped' = swapped /\ closing' = closing /\ handle' = handle /\ address' = address
      /\ callback' = callback /\ cb' = cb /\ list' = list /\ fault' = fault /\ raced' = raced
  BY <1>1, <1>2 DEF SwapConfirmed, maps, creation, Mapped
<1>4. status'[r] = "SWAPPED_OUT" /\ \A q \in Requests \ {r} : status'[q] = status[q]
  BY <1>1, <1>3 DEF Types
<1>5. Types'  BY <1>1, <1>3 DEF Types, Statuses
<1>6. \A q \in Requests \ {r} : Same(q)  BY <1>3, <1>4 DEF Same
<1>7. Each(r)'
  <2>1. Each(r)  BY DEF Inv
  <2>2. Objects(r)'  BY <2>1, <1>3, <1>4 DEF Each, Objects
  <2>3. Informed(r)'  BY <2>1, <1>3, <1>4 DEF Each, Informed
  <2>4. Told(r)'  BY <2>1, <1>3, <1>4 DEF Each, Told
  <2>5. CalledOnce(r)'  BY <2>1, <1>3, <1>4 DEF Each, CalledOnce
  <2>6. Answered(r)'  BY <2>1, <1>3, <1>4 DEF Each, Answered
  <2> QED  BY <2>2, <2>3, <2>4, <2>5, <2>6 DEF Each
<1>8. Mapped'
  <2>1. ASSUME NEW m \in Names, active'[m] # None
        PROVE  /\ req'[active'[m]].name = m
               /\ status'[active'[m]] \in {"ALLOCATING", "ALLOCATED", "SWAPPING_OUT", "CLOSED"}
    <3>1. m # n /\ active'[m] = active[m]  BY <2>1, <1>1, <1>3 DEF Types
    <3>2. active[m] \in Requests /\ req[active[m]].name = m  BY <2>1, <3>1, <1>1 DEF Mapped, Types
    <3>3. active[m] # r  BY <3>1, <3>2, <1>3
    <3> QED  BY <2>1, <3>1, <3>2, <3>3, <1>1, <1>3, <1>4 DEF Mapped
  <2>2. ASSUME NEW m \in Names, swapped'[m] # None PROVE status'[swapped'[m]] = "SWAPPED_OUT"
    <3>1. swapped[m] \in Requests /\ swapped[m] # r  BY <2>2, <1>1, <1>3 DEF Mapped, Types
    <3> QED  BY <2>2, <3>1, <1>1, <1>3, <1>4 DEF Mapped
  <2>3. moving' # None => status'[moving'] = "SWAPPED_OUT" /\ req'[moving'].name \in Names
    BY <1>3, <1>4
  <2> QED  BY <2>1, <2>2, <2>3 DEF Mapped
<1>9. Listed'
  <2> SUFFICES ASSUME NEW q \in Requests, pc[q] = "listing", NEW m \in Names \ disturbed'[q]
               PROVE  /\ active'[m] # None => m \in list[q].active
                      /\ m \in list[q].active =>
                           \/ active'[m] # None
                           \/ \E p \in Requests : req[p].name = m /\ status'[p] \in {"CLOSED", "FAILED"}
    BY <1>3 DEF Listed
  <2>1. m \in Names \ disturbed[q] /\ m # n  BY <1>3 DEF Disturb
  <2>2. active'[m] = active[m]  BY <2>1, <1>1, <1>3 DEF Types
  <2>3. \A p \in Requests : status[p] \in {"CLOSED", "FAILED"} => status'[p] = status[p]
    BY <1>3, <1>4
  <2>4. /\ active[m] # None => m \in list[q].active
        /\ m \in list[q].active =>
             \/ active[m] # None
             \/ \E p \in Requests : req[p].name = m /\ status[p] \in {"CLOSED", "FAILED"}
    BY <2>1, <1>1 DEF Listed
  <2> QED  BY <2>2, <2>3, <2>4
<1> QED  BY <1>1, <1>3, <1>5, <1>6, <1>7, <1>8, <1>9, OneKeeps

\* A process that was swapped enters the second map.
LEMMA SwapStoredKeeps ==
  ASSUME RestAssumption, Inv, SwapStored
  PROVE  Inv'
<1>1. Types /\ Mapped /\ Listed /\ (fault = "callback" => raced # {})
  BY DEF Inv
<1>2. moving \in Requests /\ status[moving] = "SWAPPED_OUT" /\ req[moving].name \in Names
  BY <1>1 DEF SwapStored, Types, Mapped
<1>3. PICK n \in Names : n = req[moving].name  BY <1>2
<1>4. /\ swapped' = [swapped EXCEPT ![n] = IF @ = None THEN moving ELSE @]
      /\ moving' = None
      /\ Disturb(n)
      /\ backend' = backend /\ exists' = exists /\ req' = req /\ pc' = pc /\ answers' = answers
      /\ active' = active /\ status' = status /\ closing' = closing /\ handle' = handle /\ address' = address
      /\ callback' = callback /\ cb' = cb /\ list' = list /\ fault' = fault /\ raced' = raced
  BY <1>3 DEF SwapStored, maps, creation
<1>5. Types'  BY <1>1, <1>2, <1>4 DEF Types
<1>6. \A q \in Requests : Same(q)  BY <1>4 DEF Same
<1>7. \A q \in Requests : Each(q)'  BY <1>4, <1>6, SameKeeps DEF Inv
<1>8. Mapped'
  <2>1. ASSUME NEW m \in Names, swapped'[m] # None PROVE status'[swapped'[m]] = "SWAPPED_OUT"
    BY <2>1, <1>1, <1>2, <1>4 DEF Mapped, Types
  <2>2. ASSUME NEW m \in Names, active'[m] # None
        PROVE  /\ req'[active'[m]].name = m
               /\ status'[active'[m]] \in {"ALLOCATING", "ALLOCATED", "SWAPPING_OUT", "CLOSED"}
    BY <2>2, <1>1, <1>4 DEF Mapped
  <2> QED  BY <2>1, <2>2, <1>4 DEF Mapped
<1>9. Listed'
  <2> SUFFICES ASSUME NEW q \in Requests, pc[q] = "listing", NEW m \in Names \ disturbed'[q]
               PROVE  /\ active[m] # None => m \in list[q].active
                      /\ m \in list[q].active =>
                           \/ active[m] # None
                           \/ \E p \in Requests : req[p].name = m /\ status[p] \in {"CLOSED", "FAILED"}
    BY <1>4 DEF Listed
  <2>1. m \in Names \ disturbed[q]  BY <1>4 DEF Disturb
  <2> QED  BY <2>1, <1>1 DEF Listed
<1> QED  BY <1>1, <1>4, <1>5, <1>7, <1>8, <1>9 DEF Inv

\* The connection of a process ends, and the process is locked ...
LEMMA ConnectionEndsKeeps ==
  ASSUME RestAssumption, Inv, NEW n \in Names, ConnectionEnds(n)
  PROVE  Inv'
<1>1. Types /\ Mapped /\ Listed /\ (fault = "callback" => raced # {})
  BY DEF Inv
<1>2. PICK r \in Requests : r = active[n]  BY <1>1 DEF ConnectionEnds, Types
<1>3. /\ status[r] \in {"ALLOCATED", "SWAPPING_OUT"} /\ req[r].name = n
      /\ status' = [status EXCEPT ![r] = "CLOSED"]
      /\ closing' = closing \cup {r}
      /\ backend' = backend /\ exists' = exists /\ req' = req /\ pc' = pc /\ answers' = answers
      /\ active' = active /\ swapped' = swapped /\ moving' = moving /\ handle' = handle
      /\ address' = address /\ callback' = callback /\ cb' = cb /\ list' = list /\ fault' = fault
      /\ raced' = raced /\ disturbed' = disturbed
  BY <1>1, <1>2 DEF ConnectionEnds, creation, Mapped
<1>4. status'[r] = "CLOSED" /\ \A q \in Requests \ {r} : status'[q] = status[q]
  BY <1>1, <1>3 DEF Types
<1>5. Types'  BY <1>1, <1>3 DEF Types, Statuses
<1>6. \A q \in Requests \ {r} : Same(q)  BY <1>3, <1>4 DEF Same
<1>7. Each(r)'
  <2>1. Each(r)  BY DEF Inv
  <2>2. Objects(r)'  BY <2>1, <1>3, <1>4 DEF Each, Objects
  <2>3. Informed(r)'  BY <2>1, <1>3, <1>4 DEF Each, Informed
  <2>4. Told(r)'  BY <2>1, <1>3, <1>4 DEF Each, Told
  <2>5. CalledOnce(r)'  BY <2>1, <1>3, <1>4 DEF Each, CalledOnce
  <2>6. Answered(r)'  BY <2>1, <1>3, <1>4 DEF Each, Answered
  <2> QED  BY <2>2, <2>3, <2>4, <2>5, <2>6 DEF Each
<1>8. Mapped'
  <2>1. ASSUME NEW m \in Names, active[m] # None
        PROVE  status'[active[m]] \in {"ALLOCATING", "ALLOCATED", "SWAPPING_OUT", "CLOSED"}
    <3>1. active[m] \in Requests  BY <2>1, <1>1 DEF Types
    <3> QED  BY <2>1, <3>1, <1>1, <1>4 DEF Mapped
  <2>2. ASSUME NEW m \in Names, swapped[m] # None PROVE status'[swapped[m]] = "SWAPPED_OUT"
    <3>1. swapped[m] \in Requests /\ swapped[m] # r  BY <2>2, <1>1, <1>3 DEF Mapped, Types
    <3> QED  BY <2>2, <3>1, <1>1, <1>4 DEF Mapped
  <2>3. moving # None => status'[moving] = "SWAPPED_OUT"
    <3>1. moving # None => moving \in Requests /\ moving # r  BY <1>1, <1>3 DEF Mapped, Types
    <3> QED  BY <3>1, <1>1, <1>4 DEF Mapped
  <2> QED  BY <2>1, <2>2, <2>3, <1>1, <1>3 DEF Mapped
<1>9. Listed'
  <2>1. \A q \in Requests : status[q] \in {"CLOSED", "FAILED"} => status'[q] = status[q]
    BY <1>3, <1>4
  <2> QED  BY <2>1, <1>1, <1>3, ListedSame
<1> QED  BY <1>1, <1>3, <1>5, <1>6, <1>7, <1>8, <1>9, OneKeeps

\* ... and leaves the map.
LEMMA ClosedEraseKeeps ==
  ASSUME RestAssumption, Inv, NEW r \in Requests, ClosedErase(r)
  PROVE  Inv'
<1>1. Types /\ Mapped /\ Listed /\ Each(r) /\ (fault = "callback" => raced # {})
  BY DEF Inv
<1>2. /\ r \in closing /\ status[r] = "CLOSED"
      /\ closing' = closing \ {r}
      /\ \/ active' = [active EXCEPT ![req[r].name] = None] /\ swapped' = swapped
         \/ swapped' = [swapped EXCEPT ![req[r].name] = None] /\ active' = active
      /\ backend' = backend /\ exists' = exists /\ req' = req /\ pc' = pc /\ answers' = answers
      /\ status' = status /\ moving' = moving /\ handle' = handle /\ address' = address
      /\ callback' = callback /\ cb' = cb /\ list' = list /\ fault' = fault /\ raced' = raced
      /\ disturbed' = disturbed
  BY <1>1 DEF ClosedErase, creation, Each, Objects
<1>3. Types'  BY <1>1, <1>2 DEF Types
<1>4. \A q \in Requests \ {r} : Same(q)  BY <1>2 DEF Same
<1>5. Each(r)'
  <2>1. r \notin closing'  BY <1>2
  <2>2. Objects(r)'  BY <2>1, <1>1, <1>2 DEF Each, Objects
  <2>3. Informed(r)'  BY <1>1, <1>2 DEF Each, Informed
  <2>4. Told(r)'  BY <1>1, <1>2 DEF Each, Told
  <2>5. CalledOnce(r)'  BY <1>1, <1>2 DEF Each, CalledOnce
  <2>6. Answered(r)'  BY <1>1, <1>2 DEF Each, Answered
  <2> QED  BY <2>2, <2>3, <2>4, <2>5, <2>6 DEF Each
<1>6. \A m \in Names : /\ active'[m] # None => active'[m] = active[m]
                       /\ swapped'[m] # None => swapped'[m] = swapped[m]
                       /\ active'[m] # active[m] => m = req[r].name
  BY <1>1, <1>2 DEF Types
<1>7. Mapped'
  <2>1. ASSUME NEW m \in Names, active'[m] # None
        PROVE  req[active'[m]].name = m /\
               status[active'[m]] \in {"ALLOCATING", "ALLOCATED", "SWAPPING_OUT", "CLOSED"}
    <3>1. active'[m] = active[m]  BY <2>1, <1>6
    <3> QED  BY <2>1, <3>1, <1>1 DEF Mapped
  <2>2. ASSUME NEW m \in Names, swapped'[m] # None PROVE status[swapped'[m]] = "SWAPPED_OUT"
    <3>1. swapped'[m] = swapped[m]  BY <2>2, <1>6
    <3> QED  BY <2>2, <3>1, <1>1 DEF Mapped
  <2> QED  BY <2>1, <2>2, <1>1, <1>2 DEF Mapped
<1>8. Listed'
  <2> SUFFICES ASSUME NEW q \in Requests, pc[q] = "listing", NEW m \in Names \ disturbed[q]
               PROVE  /\ active'[m] # None => m \in list[q].active
                      /\ m \in list[q].active =>
                           \/ active'[m] # None
                           \/ \E p \in Requests : req[p].name = m /\ status[p] \in {"CLOSED", "FAILED"}
    BY <1>2 DEF Listed
  <2>1. /\ active[m] # None => m \in list[q].active
        /\ m \in list[q].active =>
             \/ active[m] # None
             \/ \E p \in Requests : req[p].name = m /\ status[p] \in {"CLOSED", "FAILED"}
    BY <1>1 DEF Listed
  <2> QED  BY <2>1, <1>2, <1>6
<1> QED  BY <1>1, <1>2, <1>3, <1>4, <1>5, <1>7, <1>8, OneKeeps

\* Initially nothing has happened.
LEMMA InitGivesInv ==
  ASSUME RestAssumption, Init
  PROVE  Inv
<1>1. Types
  <2>1. <<>> \in Seq(Codes)  OBVIOUS
  <2>2. NoList \in [active : SUBSET Names, swapped : SUBSET Names]  BY DEF NoList
  <2>3. [kind |-> "none", name |-> None, args |-> "none"] \in Described  BY DEF Described
  <2> QED  BY <2>1, <2>2, <2>3 DEF Init, Types, RestAssumption, Statuses, Stages
<1>2. Mapped  BY DEF Init, Mapped
<1>3. ASSUME NEW r \in Requests PROVE Each(r)
  <2>1. Objects(r)  BY DEF Init, Objects
  <2>2. Informed(r)  BY DEF Init, Informed, Threads
  <2>3. Told(r)  BY DEF Init, Told
  <2>4. CalledOnce(r)  BY DEF Init, CalledOnce
  <2>5. Answered(r)  BY DEF Init, Answered
  <2> QED  BY <2>1, <2>2, <2>3, <2>4, <2>5 DEF Each
<1>4. Listed  BY DEF Init, Listed
<1> QED  BY <1>1, <1>2, <1>3, <1>4 DEF Init, Inv

\* Every step keeps the invariant.
LEMMA NextKeeps ==
  ASSUME RestAssumption, Inv, [Next]_vars
  PROVE  Inv'
<1>1. CASE UNCHANGED vars
  <2>1. Types'  BY <1>1 DEF vars, Inv, Types
  <2>2. Mapped'  BY <1>1 DEF vars, Inv, Mapped
  <2>3. \A q \in Requests : Same(q)  BY <1>1 DEF vars, Same
  <2>4. \A q \in Requests : Each(q)'  BY <1>1, <2>3, SameKeeps DEF Inv, vars
  <2>5. Listed'  BY <1>1 DEF vars, Inv, Listed
  <2> QED  BY <1>1, <2>1, <2>2, <2>4, <2>5 DEF Inv, vars
<1>2. ASSUME NEW r \in Requests, NEW args \in {"given", "missing"}, CreateApp(r, args) PROVE Inv'
  BY <1>2, CreateAppKeeps
<1>3. ASSUME NEW r \in Requests, NEW n \in Names, NEW args \in {"given", "missing"}, CreateProcess(r, n, args)
      PROVE  Inv'
  BY <1>3, CreateProcessKeeps
<1>4. ASSUME NEW r \in Requests, NEW n \in Names, NEW kind \in {"delete", "swap"}, Other(r, kind, n)
      PROVE  Inv'
  <2>1. kind \in {"delete", "swap", "list"} /\ n \in Names \cup {None}  OBVIOUS
  <2> QED  BY <1>4, <2>1, OtherKeeps
<1>5. ASSUME NEW r \in Requests, Other(r, "list", None) PROVE Inv'
  <2>1. "list" \in {"delete", "swap", "list"} /\ None \in Names \cup {None}  OBVIOUS
  <2> QED  BY <1>5, <2>1, OtherKeeps
<1>6. ASSUME NEW r \in Requests, Run(r) PROVE Inv'
  BY <1>6, RunCreateAppKeeps, RunCreateUnknownKeeps, RunCreateThrowsKeeps, RunCreateKeeps, RunDeleteKeeps,
     RunSwapKeeps, SwapLockedKeeps, ListUnknownKeeps, ListActiveKeeps, ListSwappedKeeps DEF Run
<1>7. ASSUME NEW r \in Requests, Allocated(r) \/ NotAllocated(r) \/ Connected(r) \/ ClosedErase(r)
      PROVE  Inv'
  BY <1>7, AllocatedKeeps, NotAllocatedKeeps, ConnectedKeeps, ClosedEraseKeeps
<1>8. ASSUME NEW r \in Requests, NEW t \in Threads, Created(r, t) PROVE Inv'
  BY <1>8, CheckKeeps, DescribeTaskKeeps, DescribeEniKeeps, CalledBackKeeps, NotCalledBackKeeps, ClearKeeps
     DEF Created
<1>9. ASSUME NEW n \in Names, SwapConfirmed(n) \/ ConnectionEnds(n) PROVE Inv'
  BY <1>9, SwapConfirmedKeeps, ConnectionEndsKeeps
<1>10. ASSUME SwapStored PROVE Inv'
  BY <1>10, SwapStoredKeeps
<1> QED  BY <1>1, <1>2, <1>3, <1>4, <1>5, <1>6, <1>7, <1>8, <1>9, <1>10 DEF Next

-----------------------------------------------------------------------------
(* Theorems.                                                                *)

\* The invariant holds in every state.
THEOREM InvAlways == Spec => []Inv
<1>1. Init => Inv  BY InitGivesInv, RestAssumption
<1>2. Inv /\ [Next]_vars => Inv'  BY NextKeeps, RestAssumption
<1> QED  BY <1>1, <1>2, PTL DEF Spec

\* A client is answered once, and the creation callback is there when it is
\* called, but for the listing of an application that is not there and for
\* created_callback begun in two threads at a time (http.cpp:189,
\* process.cpp:236-257); whatever Fargate answers and however long it takes.
THEOREM AnsweredOnceAlways == Spec => []AnsweredOnce
<1>1. ASSUME Inv PROVE AnsweredOnce
  <2>1. TypeOK
    <3>1. \A n \in Names : active[n] # None => req[active[n]].name = n  BY <1>1 DEF Inv, Mapped
    <3>2. \A n \in Names : swapped[n] # None => status[swapped[n]] = "SWAPPED_OUT"  BY <1>1 DEF Inv, Mapped
    <3>3. \A r \in Requests : \A t \in Threads : cb[r][t] \in Stages  BY <1>1 DEF Inv, Types
    <3>4. \A r \in Requests : /\ pc[r] \in {"new", "queued", "listing", "swapping", "creating", "done"}
                              /\ status[r] # "none" => req[r].kind = "create"
      BY <1>1 DEF Inv, Types, Each, Objects
    <3>5. fault \in {"none", "task", "callback"}  BY <1>1 DEF Inv, Types
    <3>6. \A r \in Requests : r \in closing => status[r] = "CLOSED"  BY <1>1 DEF Inv, Each, Objects
    <3> QED  BY <3>1, <3>2, <3>3, <3>4, <3>5, <3>6 DEF TypeOK, Phases
  <2>2. ASSUME NEW r \in Requests, Len(answers[r]) > 1
        PROVE  (answers[r] = <<400, 200>> /\ req[r].kind = "list") \/ r \in raced
    <3>1. Each(r) /\ pc[r] \in {"new", "queued", "listing", "swapping", "creating", "done"}
      BY <1>1 DEF Inv, Types
    <3>2. Len(answers[r]) \notin {0, 1} /\ answers[r] # <<>>
      <4>1. answers[r] \in Seq(Codes)  BY <1>1 DEF Inv, Types
      <4>2. PICK k \in Nat : k = Len(answers[r])  BY <4>1, LenProperties
      <4>3. k > 1  BY <4>2, <2>2
      <4>4. k \notin {0, 1}  BY <4>3
      <4>5. answers[r] = <<>> => k = 0  BY <4>2
      <4> QED  BY <4>2, <4>4, <4>5
    <3>3. CASE status[r] = "none"  BY <3>1, <3>2, <3>3 DEF Each, Objects, Told
    <3>4. CASE status[r] # "none"  BY <3>1, <3>2, <3>4 DEF Each, CalledOnce
    <3> QED  BY <3>3, <3>4
  <2> QED  BY <1>1, <2>1, <2>2 DEF AnsweredOnce, Inv
<1> QED  BY <1>1, InvAlways, PTL

\* A client that is told of a new process gets its address, with either
\* backend (process.cpp:241, backend.cpp:240).
THEOREM ProcessHasAddressAlways == Spec => []ProcessHasAddress
<1>1. ASSUME Inv PROVE ProcessHasAddress
  <2> SUFFICES ASSUME NEW r \in Requests, req[r].kind = "create",
                      200 \in {answers[r][i] : i \in DOMAIN answers[r]}
               PROVE  address[r] /\ status[r] # "ALLOCATING"
    BY DEF ProcessHasAddress
  <2>1. answers[r] \in Seq(Codes)  BY <1>1 DEF Inv, Types
  <2>2. \E i \in 1..Len(answers[r]) : answers[r][i] = 200  BY <2>1
  <2>3. Answered(r)  BY <1>1 DEF Inv, Each
  <2> QED  BY <2>2, <2>3 DEF Answered
<1> QED  BY <1>1, InvAlways, PTL

\* A listing ends with its second read.
LEMMA OnlyListSwapped ==
  ASSUME Inv, Next, NEW r \in Requests, pc[r] = "listing", pc'[r] = "done"
  PROVE  ListSwapped(r)
<1>1. pc \in [Requests -> {"new", "queued", "listing", "swapping", "creating", "done"}]  BY DEF Inv, Types
<1>2. ASSUME NEW q \in Requests, pc[q] # "listing", NEW x, pc' = [pc EXCEPT ![q] = x] PROVE FALSE
  BY <1>1, <1>2
<1>3. ASSUME pc' = pc PROVE FALSE  BY <1>3
<1>4. ASSUME NEW q \in Requests, NEW kind, NEW n, NEW args, Arrives(q, kind, n, args) PROVE pc[q] # "listing"
  BY <1>4 DEF Arrives
<1>5. ASSUME NEW q \in Requests, NEW args, CreateApp(q, args) PROVE FALSE
  <2>1. pc[q] # "listing"  BY <1>4, <1>5 DEF CreateApp
  <2>2. pc' = [pc EXCEPT ![q] = "done"] \/ pc' = [pc EXCEPT ![q] = "queued"]
    BY <1>5 DEF CreateApp, Answer
  <2> QED  BY <1>2, <2>1, <2>2
<1>6. ASSUME NEW q \in Requests, NEW n, NEW args, CreateProcess(q, n, args) PROVE FALSE
  BY <1>2, <1>4, <1>6 DEF CreateProcess
<1>7. ASSUME NEW q \in Requests, NEW kind, NEW n, Other(q, kind, n) PROVE FALSE
  BY <1>2, <1>4, <1>7 DEF Other
<1>8. ASSUME NEW q \in Requests, Run(q) PROVE ListSwapped(r)
  <2>1. ASSUME ListSwapped(q) PROVE q = r  BY <1>1, <2>1 DEF ListSwapped, Answer
  <2>2. ASSUME RunCreateApp(q) PROVE FALSE  BY <1>2, <2>2 DEF RunCreateApp, Exclusive, Answer
  <2>3. ASSUME RunCreateUnknown(q) PROVE FALSE  BY <1>2, <2>3 DEF RunCreateUnknown, Exclusive
  <2>4. ASSUME RunCreateThrows(q) PROVE FALSE  BY <1>3, <2>4 DEF RunCreateThrows
  <2>5. ASSUME RunCreate(q) PROVE FALSE  BY <1>2, <2>5 DEF RunCreate, Exclusive
  <2>6. ASSUME RunDelete(q) PROVE FALSE  BY <1>2, <2>6 DEF RunDelete, Exclusive, Answer
  <2>7. ASSUME RunSwap(q) PROVE FALSE  BY <1>2, <2>7 DEF RunSwap, Exclusive, Answer
  <2>8. ASSUME ListUnknown(q) PROVE FALSE  BY <1>2, <2>8 DEF ListUnknown
  <2>9. ASSUME ListActive(q) PROVE FALSE  BY <1>2, <2>9 DEF ListActive
  <2>10. ASSUME SwapLocked(q) PROVE FALSE  BY <1>2, <2>10 DEF SwapLocked, Answer
  <2> QED  BY <1>8, <2>1, <2>2, <2>3, <2>4, <2>5, <2>6, <2>7, <2>8, <2>9, <2>10 DEF Run
<1>9. ASSUME NEW q \in Requests, Allocated(q) \/ Connected(q) \/ ClosedErase(q) PROVE FALSE
  BY <1>3, <1>9 DEF Allocated, Connected, ClosedErase
<1>10. ASSUME NEW q \in Requests, NotAllocated(q) PROVE FALSE
  <2>1. Each(q)  BY DEF Inv
  <2>2. pc[q] # "listing"  BY <1>10, <2>1 DEF NotAllocated, Each, Objects
  <2> QED  BY <1>2, <1>10, <2>2 DEF NotAllocated, Answer
<1>11. ASSUME NEW q \in Requests, NEW t \in Threads, Created(q, t) PROVE FALSE
  <2>1. ASSUME Check(q, t) \/ DescribeTask(q, t) \/ DescribeEni(q, t) \/ Clear(q, t) PROVE FALSE
    BY <1>3, <2>1 DEF Check, DescribeTask, DescribeEni, Clear
  <2>2. ASSUME CallBack(q, t) PROVE FALSE
    <3>1. Each(q)  BY DEF Inv
    <3>2. pc[q] # "listing"  BY <2>2, <3>1 DEF CallBack, Each, Objects
    <3> QED  BY <1>2, <1>3, <2>2, <3>2 DEF CallBack, Answer
  <2> QED  BY <1>11, <2>1, <2>2 DEF Created
<1>12. ASSUME NEW n \in Names, SwapConfirmed(n) \/ ConnectionEnds(n) PROVE FALSE
  BY <1>3, <1>12 DEF SwapConfirmed, ConnectionEnds
<1>13. ASSUME SwapStored PROVE FALSE  BY <1>3, <1>13 DEF SwapStored
<1> QED  BY <1>5, <1>6, <1>7, <1>8, <1>9, <1>10, <1>11, <1>12, <1>13 DEF Next

\* A listing shows a process where it is, once, unless an I/O thread moves it
\* at that time: no request that changes the maps runs between the two reads
\* (worker.cpp:131-137).
THEOREM ListExactAlways == Spec => ListExact
<1>1. ASSUME Inv, Next, NEW r \in Requests, pc[r] = "listing", pc'[r] = "done", NEW n \in Names \ disturbed[r]
      PROVE  /\ active[n] # None => n \in list'[r].active
             /\ n \in list'[r].active =>
                  \/ active[n] # None
                  \/ \E q \in Requests : req[q].name = n /\ status[q] \in {"CLOSED", "FAILED"}
  <2>1. list[r] \in [active : SUBSET Names, swapped : SUBSET Names]  BY <1>1 DEF Inv, Types
  <2>2. list' = [list EXCEPT ![r].swapped = {m \in Names : swapped[m] # None}]
    BY <1>1, OnlyListSwapped DEF ListSwapped
  <2>3. list'[r].active = list[r].active
    BY <2>1, <2>2, <1>1 DEF Inv, Types
  <2>4. /\ active[n] # None => n \in list[r].active
        /\ n \in list[r].active =>
             \/ active[n] # None
             \/ \E q \in Requests : req[q].name = n /\ status[q] \in {"CLOSED", "FAILED"}
    BY <1>1 DEF Inv, Listed
  <2> QED  BY <2>3, <2>4
<1>2. Inv /\ [Next]_vars =>
        [\A r \in Requests : (pc[r] = "listing" /\ pc'[r] = "done") =>
           \A n \in Names \ disturbed[r] :
             /\ active[n] # None => n \in list'[r].active
             /\ n \in list'[r].active =>
                  \/ active[n] # None
                  \/ \E q \in Requests : req[q].name = n /\ status[q] \in {"CLOSED", "FAILED"}]_vars
  BY <1>1
<1> QED  BY <1>2, InvAlways, PTL DEF Spec, ListExact

=============================================================================
