---------------------------- MODULE ServingProofs ----------------------------
(***************************************************************************)
(* The safety properties of Serving for any number of processes and        *)
(* requests, whatever containers and the Docker daemon do.                 *)
(***************************************************************************)
EXTENDS Serving, SequenceTheorems, TLAPS

Codes == {0, 1, 200, 201, 204, 404, 409, 500}
Described == [kind : Kinds \cup {None}, name : Names \cup {None}, container : Requests \cup {None}]
Stages == Calls \cup {"new", "done"}

Types ==
  /\ req \in [Requests -> Described]
  /\ pc \in [Requests -> Stages]
  /\ code \in [Requests -> Codes]
  /\ answers \in [Requests -> Seq(Codes)]
  /\ cont \in [Requests -> {None, "created", "running", "gone"}]
  /\ image \in BOOLEAN
  /\ table \in [Names -> Requests \cup {None, Moved}]
  /\ phase \in {"up", "stopping", "stopped"}
  /\ killing \in SUBSET Requests

\* How far a request is, by what its client was told, what the daemon answered
\* and how far its container is.
Each(r) ==
  /\ pc[r] = "new" => req[r].kind = None /\ req[r].name = None /\ cont[r] = None
  /\ pc[r] # "done" => answers[r] = <<>>
  /\ Len(answers[r]) \in {0, 1}
  /\ pc[r] \in {"create", "start", "inspect"} => req[r].kind = "create"
  /\ pc[r] = "stop" => req[r].kind = "kill"
  /\ req[r].kind \in {"create", "kill"} => req[r].name \in Names
  /\ cont[r] # None => req[r].kind = "create"
  /\ pc[r] = "create" => cont[r] = IF code[r] = 201 THEN "created" ELSE None
  /\ pc[r] = "start" => \/ code[r] = 0 /\ cont[r] = "created"
                        \/ code[r] = 204 /\ cont[r] = "running"
                        \/ code[r] = 204 /\ cont[r] = "gone" /\ req[r].name \in ended
                        \/ code[r] = 500 /\ cont[r] = "created" /\ req[r].name \in failed
  /\ pc[r] = "inspect" => \/ cont[r] = "running"
                          \/ cont[r] = "gone" /\ req[r].name \in ended \cup overlap \cup late
  /\ pc[r] = "inspect" /\ code[r] = NoPort => cont[r] = "gone"
  /\ cont[r] = "created" => pc[r] \in {"create", "start"} \/ req[r].name \in failed

\* A container that was entered into the table.
Entered(c) == req[c].kind = "create" /\ pc[c] \in {"inspect", "done"} /\ cont[c] \in {"running", "gone"}

\* Entries, kills and the shutdown refer to such containers.
Links ==
  /\ \A n \in Names : table[n] \in Requests => Entered(table[n]) /\ req[table[n]].name = n
  /\ \A n \in Names : table[n] = Moved => phase # "up"
  /\ \A r \in Requests : pc[r] = "stop" =>
       req[r].container \in Requests /\ Entered(req[r].container) /\ req[req[r].container].name = req[r].name
  /\ \A c \in killing : Entered(c)

\* The daemon has one container of a name.
Unique ==
  \A c, d \in Requests : (/\ cont[c] \in {"created", "running"} /\ cont[d] \in {"created", "running"}
                          /\ req[c].name = req[d].name) => c = d

\* While a kill is open no other request for its process is, or it is noted.
Alone ==
  \A q, r \in Requests :
    (pc[q] = "stop" /\ pc[r] \in Calls /\ req[q].name = req[r].name /\ q # r) => req[q].name \in overlap

\* A container that runs is entered, or its start is being answered.
RunningEntered ==
  \A c \in Requests : (cont[c] = "running" /\ Orderly(req[c].name) /\ phase = "up") =>
    table[req[c].name] = c \/ pc[c] = "start"

\* An entry is a container that runs, or is being killed.
EntryRuns ==
  \A n \in Names : (Orderly(n) /\ phase = "up" /\ table[n] # None) =>
    cont[table[n]] = "running" \/ \E r \in Requests : pc[r] = "stop" /\ req[r].name = n

\* A kill is about the entry it found, which runs until the daemon has stopped it.
KillExact ==
  \A r \in Requests : (pc[r] = "stop" /\ Orderly(req[r].name) /\ phase = "up") =>
    /\ table[req[r].name] = req[r].container
    /\ \/ code[r] = 0 /\ cont[req[r].container] = "running"
       \/ code[r] = 204 /\ cont[req[r].container] = "gone"

Faults ==
  /\ \A n \in Names : (fault \cap {<<"exists", n>>, <<"port", n>>} # {} /\ Orderly(n)) => n \in late
  /\ \A n \in Names : (<<"missing", n>> \in fault /\ Orderly(n)) =>
       \A c \in Requests : req[c].name = n /\ cont[c] = "running" => answers[c] = <<>>

\* After the shutdown has begun, what runs is being stopped, or was being created.
Stopping ==
  /\ phase = "up" => late = {}
  /\ phase # "up" =>
    /\ \A r \in Requests : pc[r] \in {"create", "start", "inspect"} => req[r].name \in late
    /\ \A c \in Requests : (cont[c] = "running" /\ Orderly(req[c].name)) =>
         c \in killing \/ req[c].name \in late
    /\ phase = "stopped" => killing = {}

Inv ==
  /\ Types /\ (\A r \in Requests : Each(r)) /\ Links /\ Unique /\ Alone
  /\ RunningEntered /\ EntryRuns /\ KillExact /\ Faults /\ Stopping

\* A step leaves a request and its container alone.
Same(q) ==
  req'[q] = req[q] /\ pc'[q] = pc[q] /\ code'[q] = code[q] /\ answers'[q] = answers[q] /\ cont'[q] = cont[q]

\* An answer of the daemon that needs no other change.
Harmless(r, x) ==
  /\ pc[r] = "create" => x # 201 /\ code[r] = 0
  /\ pc[r] = "start" => x = 500 /\ code[r] = 0 /\ req[r].name \in failed'
  /\ pc[r] = "inspect" => x # NoPort \/ cont[r] = "gone"
  /\ pc[r] = "stop" => req[r].name \in failed' \/ ~Orderly(req[r].name) \/ phase # "up"

\* A request whose answer needs no other change.
Closable(r) ==
  /\ pc[r] \in Calls
  /\ pc[r] = "create" => code[r] # 201
  /\ pc[r] = "start" => code[r] = 500
  /\ pc[r] = "stop" => ~Orderly(req[r].name) \/ phase # "up"

-----------------------------------------------------------------------------
(* What the steps have in common.                                           *)

\* What happened is not forgotten.
LEMMA OrderlyBefore ==
  ASSUME ended \subseteq ended', overlap \subseteq overlap', failed \subseteq failed', NEW n, Orderly(n)'
  PROVE  Orderly(n)
BY DEF Orderly

\* A request that is left alone keeps its invariant.
LEMMA SameKeeps ==
  ASSUME NEW q \in Requests, Each(q), Same(q),
         ended \subseteq ended', overlap \subseteq overlap', failed \subseteq failed', late \subseteq late'
  PROVE  Each(q)'
BY DEF Each, Same

\* A step about one request: the others keep theirs.
LEMMA OneKeeps ==
  ASSUME Inv, NEW r \in Requests, \A q \in Requests \ {r} : Same(q), Each(r)',
         ended \subseteq ended', overlap \subseteq overlap', failed \subseteq failed', late \subseteq late'
  PROVE  \A q \in Requests : Each(q)'
<1>1. ASSUME NEW q \in Requests, q # r PROVE Each(q)'
  BY <1>1, SameKeeps DEF Inv
<1> QED  BY <1>1

\* What Answer does.
LEMMA AnswerGives ==
  ASSUME Types, NEW r \in Requests, NEW a \in Codes, Answer(r, a), answers[r] = <<>>
  PROVE  /\ answers' \in [Requests -> Seq(Codes)] /\ pc' \in [Requests -> Stages] /\ code' \in [Requests -> Codes]
         /\ pc'[r] = "done" /\ code'[r] = 0 /\ answers'[r] = <<a>> /\ Len(answers'[r]) = 1
         /\ \A q \in Requests \ {r} : pc'[q] = pc[q] /\ code'[q] = code[q] /\ answers'[q] = answers[q]
<1>1. Append(<<>>, a) = <<a>> /\ <<a>> \in Seq(Codes) /\ Len(<<a>>) = 1  OBVIOUS
<1>2. "done" \in Stages /\ 0 \in Codes  BY DEF Stages, Codes
<1>3. answers' = [answers EXCEPT ![r] = <<a>>]  BY <1>1 DEF Answer
<1> QED  BY <1>1, <1>2, <1>3 DEF Types, Answer

\* What Call does.
LEMMA CallGives ==
  ASSUME Types, NEW r \in Requests, NEW call \in Calls, Call(r, call)
  PROVE  /\ answers' = answers /\ pc' \in [Requests -> Stages] /\ code' \in [Requests -> Codes]
         /\ pc'[r] = call /\ code'[r] = 0
         /\ \A q \in Requests \ {r} : pc'[q] = pc[q] /\ code'[q] = code[q] /\ answers'[q] = answers[q]
<1>1. call \in Stages /\ 0 \in Codes  BY DEF Stages, Codes
<1> QED  BY <1>1 DEF Types, Call

\* Nothing refers to the container of a request before it is entered.
LEMMA NotLinked ==
  ASSUME Links, NEW r \in Requests, pc[r] \notin {"inspect", "done"}
  PROVE  /\ \A q \in Requests : pc[q] = "stop" => req[q].container # r
         /\ \A n \in Names : table[n] # r
         /\ r \notin killing
BY DEF Links, Entered

-----------------------------------------------------------------------------
(* One lemma per step.                                                      *)

\* The daemon answers, and nothing else changes.
LEMMA CodeKeeps ==
  ASSUME ServingAssumption, Inv, NEW r \in Requests, NEW x \in Codes,
         code' = [code EXCEPT ![r] = x], failed \subseteq failed', image' \in BOOLEAN,
         req' = req, pc' = pc, answers' = answers, cont' = cont, table' = table, phase' = phase,
         killing' = killing, fault' = fault, ended' = ended, overlap' = overlap, late' = late,
         Harmless(r, x)
  PROVE  Inv'
<1>1. /\ Types /\ Each(r) /\ Links /\ Unique /\ Alone
      /\ RunningEntered /\ EntryRuns /\ KillExact /\ Faults /\ Stopping
  BY DEF Inv
<1>2. code' \in [Requests -> Codes] /\ code'[r] = x /\ \A q \in Requests \ {r} : code'[q] = code[q]
  BY <1>1 DEF Types
<1>3. Types'  BY <1>1, <1>2 DEF Types
<1>4. \A q \in Requests : Each(q)'
  <2>1. \A q \in Requests \ {r} : Same(q)  BY <1>2 DEF Same
  <2>2. Each(r)'  BY <1>1, <1>2 DEF Each, Harmless
  <2> QED  BY <2>1, <2>2, OneKeeps
<1>5. \A n : Orderly(n)' => Orderly(n) /\ n \notin failed'  BY DEF Orderly
<1>6. Links' /\ Unique' /\ Alone'  BY <1>1 DEF Links, Entered, Unique, Alone
<1>7. RunningEntered' /\ EntryRuns'  BY <1>1, <1>5 DEF RunningEntered, EntryRuns
<1>8. KillExact'
  <2> SUFFICES ASSUME NEW q \in Requests, pc[q] = "stop", Orderly(req[q].name)', phase = "up"
               PROVE  /\ table[req[q].name] = req[q].container
                      /\ \/ code'[q] = 0 /\ cont[req[q].container] = "running"
                         \/ code'[q] = 204 /\ cont[req[q].container] = "gone"
    BY DEF KillExact
  <2>1. q # r  BY <1>5 DEF Harmless
  <2> QED  BY <2>1, <1>1, <1>2, <1>5 DEF KillExact
<1>9. Faults' /\ Stopping'  BY <1>1, <1>5 DEF Faults, Stopping
<1> QED  BY <1>3, <1>4, <1>6, <1>7, <1>8, <1>9 DEF Inv

\* A request is answered, and nothing else changes.
LEMMA EndKeeps ==
  ASSUME ServingAssumption, Inv, NEW r \in Requests, NEW a \in Codes,
         Answer(r, a), Closable(r),
         req' = req, cont' = cont, image' = image, table' = table, phase' = phase,
         killing' = killing, fault' = fault, ended' = ended, overlap' = overlap, failed' = failed, late' = late,
         fault = {}
  PROVE  Inv'
<1>1. /\ Types /\ Each(r) /\ Links /\ Unique /\ Alone
      /\ RunningEntered /\ EntryRuns /\ KillExact /\ Faults /\ Stopping
  BY DEF Inv
<1>2. /\ pc[r] \notin {"new", "done"} /\ "done" \notin Calls /\ answers[r] = <<>>
  BY <1>1 DEF Calls, Each, Closable
<1>3. /\ answers' \in [Requests -> Seq(Codes)] /\ pc' \in [Requests -> Stages] /\ code' \in [Requests -> Codes]
      /\ pc'[r] = "done" /\ code'[r] = 0 /\ Len(answers'[r]) = 1
      /\ \A q \in Requests \ {r} : pc'[q] = pc[q] /\ code'[q] = code[q] /\ answers'[q] = answers[q]
  BY <1>1, <1>2, AnswerGives
<1>4. Types'  BY <1>1, <1>3 DEF Types
<1>5. \A q \in Requests : Each(q)'
  <2>1. \A q \in Requests \ {r} : Same(q)  BY <1>3 DEF Same
  <2>2. Each(r)'
    <3>1. cont[r] = "created" => req[r].name \in failed  BY <1>1, <1>2 DEF Each, None, Closable
    <3> QED  BY <3>1, <1>1, <1>3 DEF Each
  <2> QED  BY <2>1, <2>2, OneKeeps
<1>6. \A n : Orderly(n)' <=> Orderly(n)  BY DEF Orderly
<1>7. Links'
  <2>1. \A c \in Requests : Entered(c) => Entered(c)'  BY <1>3 DEF Entered
  <2>2. \A q \in Requests : pc'[q] = "stop" => pc[q] = "stop"  BY <1>3
  <2>3. killing \subseteq Requests  BY <1>1 DEF Types
  <2> QED  BY <2>1, <2>2, <2>3, <1>1 DEF Links
<1>8. Unique'  BY <1>1 DEF Unique
<1>9. Alone'
  <2>1. \A q \in Requests : pc'[q] \in Calls => pc[q] = pc'[q]  BY <1>3, <1>2
  <2>2. \A q \in Requests : pc'[q] = "stop" => pc[q] = "stop"  BY <1>3
  <2> QED  BY <2>1, <2>2, <1>1 DEF Alone
<1>10. RunningEntered'
  <2>1. pc[r] = "start" => cont[r] # "running"  BY <1>1 DEF Each, Closable
  <2> QED  BY <2>1, <1>1, <1>3, <1>6 DEF RunningEntered
<1>11. EntryRuns'
  <2> SUFFICES ASSUME NEW n \in Names, Orderly(n), phase = "up", table[n] # None, cont[table[n]] # "running"
               PROVE  \E q \in Requests : pc'[q] = "stop" /\ req[q].name = n
    BY <1>6 DEF EntryRuns
  <2>1. PICK q \in Requests : pc[q] = "stop" /\ req[q].name = n  BY <1>1 DEF EntryRuns
  <2>2. q # r  BY <2>1 DEF Closable
  <2> QED  BY <2>1, <2>2, <1>3
<1>12. KillExact'
  <2>1. \A q \in Requests : pc'[q] = "stop" => pc[q] = "stop" /\ code'[q] = code[q]  BY <1>3
  <2> QED  BY <2>1, <1>1, <1>6 DEF KillExact
<1>13. Faults'  BY DEF Faults
<1>14. Stopping'  BY <1>1, <1>3, <1>6 DEF Stopping
<1> QED  BY <1>4, <1>5, <1>7, <1>8, <1>10, <1>11, <1>12, <1>13, <1>14, <1>9 DEF Inv

\* The server ends, and nothing else changes.
LEMMA FaultKeeps ==
  ASSUME ServingAssumption, Inv, Faults',
         req' = req, pc' = pc, code' = code, answers' = answers, cont' = cont, image' = image, table' = table,
         phase' = phase, killing' = killing, ended' = ended, overlap' = overlap, failed' = failed, late' = late
  PROVE  Inv'
<1>1. /\ Types /\ (\A r \in Requests : Each(r)) /\ Links /\ Unique /\ Alone
      /\ RunningEntered /\ EntryRuns /\ KillExact /\ Stopping
  BY DEF Inv
<1>2. \A n : Orderly(n)' <=> Orderly(n)  BY DEF Orderly
<1>3. Types'  BY <1>1 DEF Types
<1>4. \A q \in Requests : Each(q)'
  <2>1. \A q \in Requests : Same(q)  BY DEF Same
  <2> QED  BY <1>1, <2>1, SameKeeps
<1>5. Links' /\ Unique' /\ Alone'  BY <1>1 DEF Links, Entered, Unique, Alone
<1>6. RunningEntered' /\ EntryRuns' /\ KillExact'  BY <1>1, <1>2 DEF RunningEntered, EntryRuns, KillExact
<1>7. Stopping'  BY <1>1, <1>2 DEF Stopping
<1> QED  BY <1>3, <1>4, <1>5, <1>6, <1>7 DEF Inv

\* The daemon creates a container, or refuses to.
LEMMA DaemonCreateKeeps ==
  ASSUME ServingAssumption, Inv, NEW r \in Requests, DaemonCreate(r)
  PROVE  Inv'
<1>1. /\ Types /\ Each(r) /\ Links /\ Unique /\ Alone
      /\ RunningEntered /\ EntryRuns /\ KillExact /\ Faults /\ Stopping
  BY DEF Inv
<1>2. /\ pc[r] = "create" /\ code[r] = 0
      /\ req' = req /\ pc' = pc /\ answers' = answers /\ image' = image /\ table' = table /\ phase' = phase
      /\ killing' = killing /\ fault' = fault /\ ended' = ended /\ overlap' = overlap /\ failed' = failed /\ late' = late
  BY DEF DaemonCreate, history
<1>3. ASSUME NEW x \in {404, 409}, code' = [code EXCEPT ![r] = x], cont' = cont PROVE Inv'
  <2>1. x \in Codes /\ failed \subseteq failed' /\ image' \in BOOLEAN
    BY <1>1, <1>2, <1>3 DEF Codes, Types
  <2>2. Harmless(r, x)  BY <1>2, <1>3 DEF Harmless
  <2> QED  BY <1>2, <1>3, <2>1, <2>2, CodeKeeps, ZenonT(60)
<1>4. ASSUME ~Taken(req[r].name), code' = [code EXCEPT ![r] = 201], cont' = [cont EXCEPT ![r] = "created"]
      PROVE  Inv'
  <2>1. /\ cont'[r] = "created" /\ (\A q \in Requests \ {r} : cont'[q] = cont[q])
        /\ code'[r] = 201 /\ (\A q \in Requests \ {r} : code'[q] = code[q])
        /\ cont[r] = None
    BY <1>1, <1>2, <1>4 DEF Types, Each
  <2>2. /\ \A q \in Requests : pc[q] = "stop" => req[q].container # r
        /\ \A n \in Names : table[n] # r
        /\ r \notin killing
    BY <1>1, <1>2, NotLinked
  <2>3. Types'  BY <1>1, <1>2, <1>4 DEF Types, Codes
  <2>4. \A q \in Requests : Each(q)'
    <3>1. \A q \in Requests \ {r} : Same(q)  BY <1>2, <2>1 DEF Same
    <3>2. Each(r)'  BY <1>1, <1>2, <2>1 DEF Each
    <3> QED  BY <1>2, <3>1, <3>2, OneKeeps
  <2>5. \A n : Orderly(n)' <=> Orderly(n)  BY <1>2 DEF Orderly
  <2>6. Links'
    <3>1. \A c \in Requests : Entered(c) => Entered(c)'  BY <1>2, <2>1 DEF Entered
    <3>2. killing \subseteq Requests  BY <1>1 DEF Types
    <3> QED  BY <3>1, <3>2, <1>1, <1>2 DEF Links
  <2>7. Unique'
    <3>1. \A c \in Requests \ {r} : cont[c] \in {"created", "running"} => req[c].name # req[r].name
      BY <1>4 DEF Taken
    <3> QED  BY <3>1, <2>1, <1>1, <1>2 DEF Unique
  <2>8. Alone'  BY <1>1, <1>2 DEF Alone
  <2>9. RunningEntered'  BY <1>1, <1>2, <2>1, <2>5 DEF RunningEntered
  <2>10. EntryRuns'
    <3>1. \A n \in Names : table[n] # None /\ phase = "up" => cont'[table[n]] = cont[table[n]]
      BY <1>1, <2>1, <2>2 DEF Links, Types
    <3> QED  BY <3>1, <1>1, <1>2, <2>5 DEF EntryRuns
  <2>11. KillExact'
    <3>1. \A q \in Requests : pc[q] = "stop" => /\ cont'[req[q].container] = cont[req[q].container]
                                               /\ code'[q] = code[q]
      BY <1>1, <1>2, <2>1, <2>2 DEF Links
    <3> QED  BY <3>1, <1>1, <1>2, <2>5 DEF KillExact
  <2>12. Faults' /\ Stopping'  BY <1>1, <1>2, <2>1, <2>5 DEF Faults, Stopping
  <2> QED  BY <2>3, <2>4, <2>6, <2>7, <2>8, <2>9, <2>10, <2>11, <2>12 DEF Inv
<1> QED  BY <1>3, <1>4 DEF DaemonCreate

\* The daemon starts a container.
LEMMA DaemonStartKeeps ==
  ASSUME ServingAssumption, Inv, NEW r \in Requests, DaemonStart(r)
  PROVE  Inv'
<1>1. /\ Types /\ Each(r) /\ Links /\ Unique /\ Alone
      /\ RunningEntered /\ EntryRuns /\ KillExact /\ Faults /\ Stopping
  BY DEF Inv
<1>2. /\ pc[r] = "start" /\ code[r] = 0
      /\ code' = [code EXCEPT ![r] = 204] /\ cont' = [cont EXCEPT ![r] = "running"]
      /\ req' = req /\ pc' = pc /\ answers' = answers /\ image' = image /\ table' = table /\ phase' = phase
      /\ killing' = killing /\ fault' = fault /\ ended' = ended /\ overlap' = overlap /\ failed' = failed /\ late' = late
  BY DEF DaemonStart, history
<1>3. /\ cont'[r] = "running" /\ (\A q \in Requests \ {r} : cont'[q] = cont[q])
      /\ code'[r] = 204 /\ (\A q \in Requests \ {r} : code'[q] = code[q])
      /\ cont[r] = "created" /\ answers[r] = <<>>
  BY <1>1, <1>2 DEF Types, Each
<1>4. /\ \A q \in Requests : pc[q] = "stop" => req[q].container # r
      /\ \A n \in Names : table[n] # r
      /\ r \notin killing
  BY <1>1, <1>2, NotLinked
<1>5. Types'  BY <1>1, <1>2 DEF Types, Codes
<1>6. \A q \in Requests : Each(q)'
  <2>1. \A q \in Requests \ {r} : Same(q)  BY <1>2, <1>3 DEF Same
  <2>2. Each(r)'  BY <1>1, <1>2, <1>3 DEF Each, None
  <2> QED  BY <1>2, <2>1, <2>2, OneKeeps
<1>7. \A n : Orderly(n)' <=> Orderly(n)  BY <1>2 DEF Orderly
<1>8. Links'
  <2>1. \A c \in Requests : Entered(c) => Entered(c)'  BY <1>2, <1>3 DEF Entered
  <2>2. killing \subseteq Requests  BY <1>1 DEF Types
  <2> QED  BY <2>1, <2>2, <1>1, <1>2 DEF Links
<1>9. Unique'
  <2>1. \A c \in Requests : cont'[c] \in {"created", "running"} => cont[c] \in {"created", "running"}
    BY <1>3
  <2> QED  BY <2>1, <1>1, <1>2 DEF Unique
<1>10. Alone'  BY <1>1, <1>2 DEF Alone
<1>11. RunningEntered'  BY <1>1, <1>2, <1>3, <1>7 DEF RunningEntered
<1>12. EntryRuns'
  <2>1. \A n \in Names : table[n] # None /\ phase = "up" => cont'[table[n]] = cont[table[n]]
    BY <1>1, <1>3, <1>4 DEF Links, Types
  <2> QED  BY <2>1, <1>1, <1>2, <1>7 DEF EntryRuns
<1>13. KillExact'
  <2>1. \A q \in Requests : pc[q] = "stop" => /\ cont'[req[q].container] = cont[req[q].container]
                                              /\ code'[q] = code[q]
    BY <1>1, <1>2, <1>3, <1>4 DEF Links
  <2> QED  BY <2>1, <1>1, <1>2, <1>7 DEF KillExact
<1>14. Faults'  BY <1>1, <1>2, <1>3, <1>7 DEF Faults
<1>15. Stopping'  BY <1>1, <1>2, <1>3, <1>7 DEF Stopping
<1> QED  BY <1>5, <1>6, <1>8, <1>9, <1>10, <1>11, <1>12, <1>13, <1>14, <1>15 DEF Inv

\* The daemon looks for a container.
LEMMA DaemonInspectKeeps ==
  ASSUME ServingAssumption, Inv, NEW r \in Requests, DaemonInspect(r)
  PROVE  Inv'
<1>1. /\ pc[r] = "inspect"
      /\ req' = req /\ pc' = pc /\ answers' = answers /\ cont' = cont /\ image' = image /\ table' = table
      /\ phase' = phase /\ killing' = killing /\ fault' = fault /\ ended' = ended /\ overlap' = overlap /\ failed' = failed
      /\ late' = late
  BY DEF DaemonInspect, history
<1>2. PICK x \in Codes : code' = [code EXCEPT ![r] = x] /\ (x # NoPort \/ cont[r] = "gone")
  <2>1. PICK x \in IF cont[r] = "running" THEN {200} ELSE {NoPort, 404} : code' = [code EXCEPT ![r] = x]
    BY DEF DaemonInspect
  <2>2. cont[r] \in {"running", "gone"}  BY <1>1 DEF Inv, Each
  <2>3. x \in Codes  BY DEF Codes, NoPort
  <2>4. x # NoPort \/ cont[r] = "gone"
    <3>1. CASE cont[r] = "running"
      <4>1. x = 200  BY <3>1
      <4> QED  BY <4>1 DEF NoPort
    <3> QED  BY <3>1, <2>2
  <2> QED  BY <2>1, <2>3, <2>4
<1>3. failed \subseteq failed' /\ image' \in BOOLEAN  BY <1>1 DEF Inv, Types
<1>4. Harmless(r, x)  BY <1>1, <1>2 DEF Harmless
<1> QED  BY <1>1, <1>2, <1>3, <1>4, CodeKeeps

\* The daemon pulls an image.
LEMMA DaemonPullKeeps ==
  ASSUME ServingAssumption, Inv, NEW r \in Requests, DaemonPull(r)
  PROVE  Inv'
<1>1. /\ pc[r] = "pull" /\ image' \in BOOLEAN
      /\ req' = req /\ pc' = pc /\ answers' = answers /\ cont' = cont /\ table' = table /\ phase' = phase
      /\ killing' = killing /\ fault' = fault /\ ended' = ended /\ overlap' = overlap /\ failed' = failed /\ late' = late
  BY DEF DaemonPull, history, Inv, Types
<1>2. PICK x \in Codes : code' = [code EXCEPT ![r] = x]  BY DEF DaemonPull, Codes
<1>3. Harmless(r, x) /\ failed \subseteq failed'  BY <1>1 DEF Harmless
<1> QED  BY <1>1, <1>2, <1>3, CodeKeeps

\* The daemon reports an error.
LEMMA DaemonFailsKeeps ==
  ASSUME ServingAssumption, Inv, NEW r \in Requests, DaemonFails(r)
  PROVE  Inv'
<1>1. /\ code[r] = 0 /\ code' = [code EXCEPT ![r] = 500]
      /\ failed \subseteq failed' /\ req[r].name \in failed' /\ image' \in BOOLEAN
      /\ req' = req /\ pc' = pc /\ answers' = answers /\ cont' = cont /\ image' = image /\ table' = table
      /\ phase' = phase /\ killing' = killing /\ fault' = fault /\ ended' = ended /\ overlap' = overlap /\ late' = late
  BY DEF DaemonFails, Inv, Types
<1>2. PICK x \in Codes : x = 500  BY DEF Codes
<1>3. code' = [code EXCEPT ![r] = x]  BY <1>1, <1>2
<1>4. Harmless(r, x)  BY <1>1, <1>2, <1>3 DEF Harmless, NoPort
<1> QED  BY <1>1, <1>3, <1>4, CodeKeeps

\* The daemon has stopped a container, or does not know it.
LEMMA DaemonStopKeeps ==
  ASSUME ServingAssumption, Inv, NEW r \in Requests, DaemonStop(r)
  PROVE  Inv'
<1>1. /\ Types /\ Each(r) /\ Links /\ Unique /\ Alone
      /\ RunningEntered /\ EntryRuns /\ KillExact /\ Faults /\ Stopping
  BY DEF Inv
<1>2. /\ pc[r] = "stop" /\ code[r] = 0
      /\ req' = req /\ pc' = pc /\ answers' = answers /\ image' = image /\ table' = table /\ phase' = phase
      /\ killing' = killing /\ fault' = fault /\ ended' = ended /\ overlap' = overlap /\ failed' = failed /\ late' = late
  BY DEF DaemonStop, history
<1>3. PICK c \in Requests : c = req[r].container /\ Entered(c) /\ req[c].name = req[r].name
  BY <1>1, <1>2 DEF Links
<1>4. ASSUME cont[c] # "running", code' = [code EXCEPT ![r] = 404], cont' = cont PROVE Inv'
  <2>1. PICK x \in Codes : x = 404  BY DEF Codes
  <2>2. code' = [code EXCEPT ![r] = x] /\ failed \subseteq failed' /\ image' \in BOOLEAN
    BY <1>1, <1>2, <1>4, <2>1 DEF Types
  <2>3. ~Orderly(req[r].name) \/ phase # "up"
    BY <1>1, <1>2, <1>3, <1>4 DEF KillExact
  <2>4. Harmless(r, x)  BY <1>2, <2>3 DEF Harmless
  <2> QED  BY <1>2, <1>4, <2>2, <2>4, CodeKeeps
<1>5. ASSUME cont[c] = "running", cont' = [cont EXCEPT ![c] = "gone"],
             code' = [q \in Requests |-> IF pc[q] = "stop" /\ code[q] = 0 /\ req[q].container = c
                                         THEN 204 ELSE code[q]]
      PROVE  Inv'
  <2>1. /\ cont'[c] = "gone" /\ (\A q \in Requests \ {c} : cont'[q] = cont[q])
        /\ \A q \in Requests : code'[q] = IF pc[q] = "stop" /\ code[q] = 0 /\ req[q].container = c
                                          THEN 204 ELSE code[q]
        /\ code'[r] = 204
        /\ req[c].kind = "create" /\ pc[c] \in {"inspect", "done"}
    BY <1>1, <1>2, <1>3, <1>5 DEF Types, Entered
  <2>2. Types'
    <3>1. code' \in [Requests -> Codes]  BY <1>1, <1>5 DEF Types, Codes
    <3> QED  BY <3>1, <1>1, <1>2, <1>5 DEF Types
  <2>3. ASSUME NEW q \in Requests PROVE Each(q)'
    <3>1. Each(q)  BY DEF Inv
    <3>2. CASE q = c
      <4>1. pc[c] = "inspect" => req[c].name \in overlap  BY <1>1, <1>2, <1>3 DEF Alone, Calls
      <4>2. code'[c] = code[c]  BY <2>1
      <4> QED  BY <3>1, <3>2, <4>1, <4>2, <2>1, <1>2, <1>5 DEF Each
    <3>3. CASE q # c
      <4>1. pc[q] # "stop" => code'[q] = code[q]  BY <2>1
      <4> QED  BY <3>1, <3>3, <4>1, <2>1, <1>2 DEF Each
    <3> QED  BY <3>2, <3>3
  <2>4. \A n : Orderly(n)' <=> Orderly(n)  BY <1>2 DEF Orderly
  <2>5. Links'
    <3>1. \A d \in Requests : Entered(d) => Entered(d)'  BY <1>2, <2>1 DEF Entered
    <3>2. killing \subseteq Requests  BY <1>1 DEF Types
    <3> QED  BY <3>1, <3>2, <1>1, <1>2 DEF Links
  <2>6. Unique'
    <3>1. \A d \in Requests : cont'[d] \in {"created", "running"} => cont[d] \in {"created", "running"}
      BY <2>1
    <3> QED  BY <3>1, <1>1, <1>2 DEF Unique
  <2>7. Alone'  BY <1>1, <1>2 DEF Alone
  <2>8. \A d \in Requests : cont'[d] = "running" => cont[d] = "running"  BY <2>1
  <2>9. RunningEntered'  BY <2>8, <2>4, <1>1, <1>2 DEF RunningEntered
  <2>10. EntryRuns'
    <3> SUFFICES ASSUME NEW n \in Names, Orderly(n), phase = "up", table[n] # None, cont'[table[n]] # "running"
                 PROVE  \E q \in Requests : pc[q] = "stop" /\ req[q].name = n
      BY <1>2, <2>4 DEF EntryRuns
    <3>1. table[n] \in Requests /\ req[table[n]].name = n  BY <1>1 DEF Types, Links
    <3>2. CASE table[n] = c  BY <3>1, <3>2, <1>2, <1>3
    <3>3. CASE table[n] # c  BY <3>1, <3>3, <2>1, <1>1 DEF EntryRuns
    <3> QED  BY <3>2, <3>3
  <2>11. KillExact'
    <3> SUFFICES ASSUME NEW q \in Requests, pc[q] = "stop", Orderly(req[q].name), phase = "up"
                 PROVE  /\ table[req[q].name] = req[q].container
                        /\ \/ code'[q] = 0 /\ cont'[req[q].container] = "running"
                           \/ code'[q] = 204 /\ cont'[req[q].container] = "gone"
      BY <1>2, <2>4 DEF KillExact
    <3>1. /\ table[req[q].name] = req[q].container
          /\ \/ code[q] = 0 /\ cont[req[q].container] = "running"
             \/ code[q] = 204 /\ cont[req[q].container] = "gone"
          /\ req[q].container \in Requests
      BY <1>1 DEF KillExact, Links
    <3>2. CASE req[q].container = c  BY <3>1, <3>2, <2>1, <1>5
    <3>3. CASE req[q].container # c  BY <3>1, <3>3, <2>1
    <3> QED  BY <3>1, <3>2, <3>3
  <2>12. Faults'  BY <2>8, <2>4, <1>1, <1>2 DEF Faults
  <2>13. Stopping'  BY <2>8, <2>4, <1>1, <1>2 DEF Stopping
  <2> QED  BY <2>2, <2>3, <2>5, <2>6, <2>7, <2>9, <2>10, <2>11, <2>12, <2>13 DEF Inv
<1> QED  BY <1>3, <1>4, <1>5 DEF DaemonStop

\* A container ends by itself.
LEMMA ContainerEndsKeeps ==
  ASSUME ServingAssumption, Inv, NEW r \in Requests, ContainerEnds(r)
  PROVE  Inv'
<1>1. /\ Types /\ Each(r) /\ Links /\ Unique /\ Alone
      /\ RunningEntered /\ EntryRuns /\ KillExact /\ Faults /\ Stopping
  BY DEF Inv
<1>2. /\ cont[r] = "running" /\ cont' = [cont EXCEPT ![r] = "gone"] /\ ended' = ended \cup {req[r].name}
      /\ req' = req /\ pc' = pc /\ code' = code /\ answers' = answers /\ image' = image /\ table' = table
      /\ phase' = phase /\ killing' = killing /\ fault' = fault /\ overlap' = overlap /\ failed' = failed /\ late' = late
  BY DEF ContainerEnds
<1>3. cont'[r] = "gone" /\ (\A q \in Requests \ {r} : cont'[q] = cont[q])
  BY <1>1, <1>2 DEF Types
<1>4. Types'  BY <1>1, <1>2 DEF Types
<1>5. \A q \in Requests : Each(q)'
  <2>1. \A q \in Requests \ {r} : Same(q)  BY <1>2, <1>3 DEF Same
  <2>2. Each(r)'  BY <1>1, <1>2, <1>3 DEF Each, None
  <2> QED  BY <1>2, <2>1, <2>2, OneKeeps
<1>6. \A n : Orderly(n)' => Orderly(n) /\ n # req[r].name  BY <1>2 DEF Orderly
<1>7. \A d \in Requests : cont'[d] = "running" => cont[d] = "running"  BY <1>3
<1>8. Links'
  <2>1. \A d \in Requests : Entered(d) => Entered(d)'  BY <1>2, <1>3 DEF Entered
  <2>2. killing \subseteq Requests  BY <1>1 DEF Types
  <2> QED  BY <2>1, <2>2, <1>1, <1>2 DEF Links
<1>9. Unique'
  <2>1. \A d \in Requests : cont'[d] \in {"created", "running"} => cont[d] \in {"created", "running"}
    BY <1>3
  <2> QED  BY <2>1, <1>1, <1>2 DEF Unique
<1>10. Alone'  BY <1>1, <1>2 DEF Alone
<1>11. RunningEntered'  BY <1>1, <1>2, <1>6, <1>7 DEF RunningEntered
<1>12. EntryRuns'
  <2>1. \A n \in Names : table[n] # None /\ phase = "up" /\ n # req[r].name => cont'[table[n]] = cont[table[n]]
    BY <1>1, <1>3 DEF Links, Types
  <2> QED  BY <2>1, <1>1, <1>2, <1>6 DEF EntryRuns
<1>13. KillExact'
  <2>1. \A q \in Requests : pc[q] = "stop" /\ req[q].name # req[r].name =>
                              cont'[req[q].container] = cont[req[q].container]
    BY <1>1, <1>2, <1>3 DEF Links
  <2> QED  BY <2>1, <1>1, <1>2, <1>6 DEF KillExact
<1>14. Faults'  BY <1>1, <1>2, <1>6, <1>7 DEF Faults
<1>15. Stopping'  BY <1>1, <1>2, <1>6, <1>7 DEF Stopping
<1> QED  BY <1>4, <1>5, <1>8, <1>9, <1>10, <1>11, <1>12, <1>13, <1>14, <1>15 DEF Inv

\* A request to create a container, or for an image, arrives.
LEMMA NewKeeps ==
  ASSUME ServingAssumption, Inv, NEW r \in Requests, NEW kind \in {"create", "cache"}, NEW n, NEW c,
         pc[r] = "new", phase = "up", fault = {},
         req' = [req EXCEPT ![r] = [kind |-> kind, name |-> n, container |-> c]],
         c \in Requests \cup {None}, IF kind = "create" THEN n \in Names ELSE n = None,
         pc' \in [Requests -> Stages], code' \in [Requests -> Codes], answers' \in [Requests -> Seq(Codes)],
         \A q \in Requests \ {r} : pc'[q] = pc[q] /\ code'[q] = code[q] /\ answers'[q] = answers[q],
         code'[r] = 0, pc'[r] \in {"create", "pull", "done"}, pc'[r] = "create" => kind = "create",
         IF pc'[r] = "done" THEN Len(answers'[r]) = 1 ELSE answers'[r] = <<>>,
         pc'[r] # "done" => \A q \in Requests : pc[q] = "stop" /\ req[q].name = n => n \in overlap',
         cont' = cont, image' = image, table' = table, phase' = phase, killing' = killing, fault' = fault,
         ended' = ended, overlap \subseteq overlap', failed' = failed, late' = late
  PROVE  Inv'
<1>1. /\ Types /\ Each(r) /\ Links /\ Unique /\ Alone
      /\ RunningEntered /\ EntryRuns /\ KillExact /\ Faults /\ Stopping
  BY DEF Inv
<1>2. cont[r] = None /\ 0 # 201 /\ Len(<<>>) = 0  BY <1>1 DEF Each
<1>3. /\ req' \in [Requests -> Described]
      /\ req'[r].kind = kind /\ req'[r].name = n /\ req'[r].container = c
      /\ \A q \in Requests \ {r} : req'[q] = req[q]
  <2>1. [kind |-> kind, name |-> n, container |-> c] \in Described  BY DEF Described, Kinds
  <2> QED  BY <2>1, <1>1 DEF Types
<1>4. Types'  BY <1>1, <1>3 DEF Types
<1>5. \A q \in Requests : Each(q)'
  <2>1. \A q \in Requests \ {r} : Same(q)  BY <1>3 DEF Same
  <2>2. Each(r)'
    <3>1. Len(answers'[r]) \in {0, 1}  BY <1>2
    <3> QED  BY <3>1, <1>2, <1>3 DEF Each, None
  <2> QED  BY <2>1, <2>2, OneKeeps
<1>6. \A m : Orderly(m)' => Orderly(m)  BY DEF Orderly
<1>7. \A d \in Requests : Entered(d) => d # r /\ Entered(d)'  BY <1>3 DEF Entered
<1>8. Links'
  <2>1. killing \subseteq Requests  BY <1>1 DEF Types
  <2>2. \A m \in Names : table[m] \in Requests => Entered(table[m])' /\ req'[table[m]].name = m
    BY <1>1, <1>3, <1>7 DEF Links
  <2>3. ASSUME NEW q \in Requests, pc'[q] = "stop"
        PROVE  \E d \in Requests : d = req'[q].container /\ Entered(d)' /\ req'[d].name = req'[q].name
    <3>1. q # r /\ pc[q] = "stop" /\ req'[q] = req[q]  BY <2>3, <1>3
    <3>2. PICK d \in Requests : d = req[q].container /\ Entered(d) /\ req[d].name = req[q].name
      BY <3>1, <1>1 DEF Links
    <3>3. Entered(d)' /\ d # r  BY <3>2, <1>7
    <3> QED  BY <3>1, <3>2, <3>3, <1>3
  <2> QED  BY <2>1, <2>2, <2>3, <1>1, <1>7 DEF Links, Entered
<1>9. Unique'
  <2>1. \A d \in Requests : cont[d] \in {"created", "running"} => d # r  BY <1>2 DEF None
  <2> QED  BY <2>1, <1>1, <1>3 DEF Unique
<1>10. Alone'
  <2>1. pc'[r] # "stop" /\ "done" \notin Calls  BY DEF Calls
  <2>2. \A q \in Requests : pc'[q] = "stop" => q # r /\ pc[q] = "stop" /\ req'[q] = req[q]  BY <2>1, <1>3
  <2> SUFFICES ASSUME NEW q \in Requests, NEW p \in Requests, pc'[q] = "stop", pc'[p] \in Calls,
                      req'[q].name = req'[p].name, q # p
               PROVE  req'[q].name \in overlap'
    BY DEF Alone
  <2>3. CASE p = r  BY <2>1, <2>2, <2>3, <1>3
  <2>4. CASE p # r  BY <2>2, <2>4, <1>1, <1>3, ZenonT(60) DEF Alone
  <2> QED  BY <2>3, <2>4
<1>11. RunningEntered'
  <2>1. \A d \in Requests : cont[d] = "running" => d # r  BY <1>2 DEF None
  <2> QED  BY <2>1, <1>1, <1>3, <1>6, SMTT(30) DEF RunningEntered
<1>12. EntryRuns'
  <2> SUFFICES ASSUME NEW m \in Names, Orderly(m), table[m] # None, cont[table[m]] # "running"
               PROVE  \E q \in Requests : pc'[q] = "stop" /\ req'[q].name = m
    BY <1>6 DEF EntryRuns
  <2>1. PICK q \in Requests : pc[q] = "stop" /\ req[q].name = m  BY <1>1 DEF EntryRuns
  <2>2. q # r  BY <2>1
  <2> QED  BY <2>1, <2>2, <1>3
<1>13. KillExact'
  <2>1. \A q \in Requests : pc'[q] = "stop" => q # r /\ pc[q] = "stop" /\ req'[q] = req[q] /\ code'[q] = code[q]
    BY <1>3
  <2> SUFFICES ASSUME NEW q \in Requests, pc'[q] = "stop", Orderly(req'[q].name)
               PROVE  /\ table[req'[q].name] = req'[q].container
                      /\ \/ code'[q] = 0 /\ cont[req'[q].container] = "running"
                         \/ code'[q] = 204 /\ cont[req'[q].container] = "gone"
    BY DEF KillExact, Orderly
  <2> QED  BY <2>1, <1>1, SMTT(30) DEF KillExact
<1>14. Faults' /\ Stopping'  BY <1>1 DEF Faults, Stopping
<1> QED  BY <1>4, <1>5, <1>8, <1>9, <1>10, <1>11, <1>12, <1>13, <1>14 DEF Inv

\* A request to create a container arrives: it is refused, or the daemon is asked.
LEMMA CreateKeeps ==
  ASSUME ServingAssumption, Inv, NEW r \in Requests, NEW n \in Names, Create(r, n)
  PROVE  Inv'
<1>1. Types /\ Each(r)  BY DEF Inv
<1>2. /\ pc[r] = "new" /\ phase = "up" /\ fault = {} /\ answers[r] = <<>>
      /\ req' = [req EXCEPT ![r] = [kind |-> "create", name |-> n, container |-> r]]
      /\ cont' = cont /\ image' = image /\ table' = table /\ phase' = phase /\ killing' = killing /\ fault' = fault
      /\ ended' = ended /\ failed' = failed /\ late' = late
  BY <1>1 DEF Create, Arrives, Up, Each
<1>3. CASE Answer(r, 500) /\ overlap' = overlap
  <2>1. PICK a \in Codes : a = 500  BY DEF Codes
  <2>2. Answer(r, a)  BY <1>3, <2>1
  <2>3. /\ answers' \in [Requests -> Seq(Codes)] /\ pc' \in [Requests -> Stages] /\ code' \in [Requests -> Codes]
        /\ pc'[r] = "done" /\ code'[r] = 0 /\ Len(answers'[r]) = 1
        /\ \A q \in Requests \ {r} : pc'[q] = pc[q] /\ code'[q] = code[q] /\ answers'[q] = answers[q]
    BY <2>2, <1>1, <1>2, AnswerGives
  <2> QED  BY <2>3, <1>2, <1>3, NewKeeps
<1>4. CASE Call(r, "create") /\ NoteOverlap(r, "create", n)
  <2>1. "create" \in Calls  BY DEF Calls
  <2>2. /\ answers' = answers /\ pc' \in [Requests -> Stages] /\ code' \in [Requests -> Codes]
        /\ pc'[r] = "create" /\ code'[r] = 0
        /\ \A q \in Requests \ {r} : pc'[q] = pc[q] /\ code'[q] = code[q] /\ answers'[q] = answers[q]
    BY <2>1, <1>1, <1>4, CallGives
  <2>3. \A q \in Requests : pc[q] = "stop" /\ req[q].name = n => n \in overlap'
    <3> SUFFICES ASSUME NEW q \in Requests, pc[q] = "stop", req[q].name = n PROVE n \in overlap'  OBVIOUS
    <3>1. Each(q)  BY DEF Inv
    <3>2. q \in Open(n) /\ req[q].kind = "kill"  BY <3>1 DEF Open, Calls, Each
    <3> QED  BY <3>2, <1>4 DEF NoteOverlap
  <2>4. overlap \subseteq overlap' /\ answers' \in [Requests -> Seq(Codes)]
    BY <1>1, <1>4, <2>2 DEF NoteOverlap, Types
  <2> QED  BY <2>2, <2>3, <2>4, <1>2, NewKeeps
<1> QED  BY <1>3, <1>4 DEF Create

\* A request for an image arrives.
LEMMA CacheImageKeeps ==
  ASSUME ServingAssumption, Inv, NEW r \in Requests, CacheImage(r)
  PROVE  Inv'
<1>1. Types /\ Each(r)  BY DEF Inv
<1>2. /\ pc[r] = "new" /\ phase = "up" /\ fault = {} /\ answers[r] = <<>> /\ Call(r, "pull")
      /\ req' = [req EXCEPT ![r] = [kind |-> "cache", name |-> None, container |-> None]]
      /\ cont' = cont /\ image' = image /\ table' = table /\ phase' = phase /\ killing' = killing /\ fault' = fault
      /\ ended' = ended /\ overlap' = overlap /\ failed' = failed /\ late' = late
  BY <1>1 DEF CacheImage, Arrives, Up, Each, history
<1>3. "pull" \in Calls  BY DEF Calls
<1>4. /\ answers' = answers /\ pc' \in [Requests -> Stages] /\ code' \in [Requests -> Codes]
      /\ pc'[r] = "pull" /\ code'[r] = 0
      /\ \A q \in Requests \ {r} : pc'[q] = pc[q] /\ code'[q] = code[q] /\ answers'[q] = answers[q]
  BY <1>1, <1>2, <1>3, CallGives
<1>5. \A q \in Requests : pc[q] = "stop" => req[q].name # None
  <2> SUFFICES ASSUME NEW q \in Requests, pc[q] = "stop" PROVE req[q].name # None  OBVIOUS
  <2>1. Each(q)  BY DEF Inv
  <2> QED  BY <2>1 DEF Each, ServingAssumption, None
<1>6. overlap \subseteq overlap' /\ answers' \in [Requests -> Seq(Codes)]  BY <1>1, <1>2, <1>4 DEF Types
<1> QED  BY <1>2, <1>4, <1>5, <1>6, NewKeeps

\* A container has been inspected.
LEMMA InspectedKeeps ==
  ASSUME ServingAssumption, Inv, NEW r \in Requests, Inspected(r)
  PROVE  Inv'
<1>1. /\ Types /\ Each(r) /\ Faults /\ Stopping  BY DEF Inv
<1>2. /\ pc[r] = "inspect" /\ fault = {}
      /\ req' = req /\ cont' = cont /\ image' = image /\ table' = table /\ phase' = phase /\ killing' = killing
      /\ ended' = ended /\ overlap' = overlap /\ failed' = failed /\ late' = late
  BY DEF Inspected, Up, history
<1>3. CASE code[r] # NoPort
  <2>1. PICK a \in Codes : a = IF code[r] = 200 THEN 200 ELSE 500  BY DEF Codes
  <2>2. Answer(r, a) /\ fault' = fault  BY <1>3, <2>1 DEF Inspected
  <2>3. Closable(r)  BY <1>2 DEF Closable, Calls
  <2> QED  BY <1>2, <2>2, <2>3, EndKeeps
<1>4. CASE code[r] = NoPort
  <2>1. /\ fault' = {<<"port", req[r].name>>}
        /\ pc' = pc /\ code' = code /\ answers' = answers
    BY <1>2, <1>4 DEF Inspected
  <2>2. \A n : Orderly(n)' <=> Orderly(n)  BY <1>2 DEF Orderly
  <2>3. Orderly(req[r].name) => req[r].name \in late  BY <1>1, <1>2, <1>4 DEF Each, Orderly
  <2>4. Faults'
    <3>1. \A n \in Names : fault' \cap {<<"exists", n>>, <<"port", n>>} # {} => n = req[r].name  BY <2>1
    <3>2. \A n \in Names : <<"missing", n>> \notin fault'  BY <2>1
    <3> QED  BY <3>1, <3>2, <2>2, <2>3, <1>2 DEF Faults
  <2> QED  BY <1>2, <2>1, <2>4, FaultKeeps
<1> QED  BY <1>3, <1>4

\* The daemon has given no answer.
LEMMA NoResponseKeeps ==
  ASSUME ServingAssumption, Inv, NEW r \in Requests, NoResponse(r)
  PROVE  Inv'
<1>1. /\ fault' = {<<"response", req[r].name>>}
      /\ req' = req /\ pc' = pc /\ code' = code /\ answers' = answers /\ cont' = cont /\ image' = image
      /\ table' = table /\ phase' = phase /\ killing' = killing
      /\ ended' = ended /\ overlap' = overlap /\ failed' = failed /\ late' = late
  BY DEF NoResponse, Up, history
<1>2. \A n : <<"exists", n>> \notin fault' /\ <<"port", n>> \notin fault' /\ <<"missing", n>> \notin fault'
  BY <1>1
<1>3. Faults'  BY <1>2 DEF Faults
<1> QED  BY <1>1, <1>3, FaultKeeps

\* An image has been pulled.
LEMMA CachedKeeps ==
  ASSUME ServingAssumption, Inv, NEW r \in Requests, Cached(r)
  PROVE  Inv'
<1>1. /\ pc[r] = "pull" /\ fault = {} /\ Answer(r, IF code[r] \in {200, 404} THEN code[r] ELSE 500)
      /\ req' = req /\ cont' = cont /\ image' = image /\ table' = table /\ phase' = phase /\ killing' = killing
      /\ fault' = fault /\ ended' = ended /\ overlap' = overlap /\ failed' = failed /\ late' = late
  BY DEF Cached, Up, history
<1>2. PICK a \in Codes : a = IF code[r] \in {200, 404} THEN code[r] ELSE 500  BY DEF Codes, Inv, Types
<1>3. Answer(r, a) /\ Closable(r)  BY <1>1, <1>2 DEF Closable, Calls
<1> QED  BY <1>1, <1>3, EndKeeps

\* A container has been created, and is to be started.
LEMMA CreatedKeeps ==
  ASSUME ServingAssumption, Inv, NEW r \in Requests, Created(r)
  PROVE  Inv'
<1>1. /\ Types /\ Each(r) /\ Links /\ Unique /\ Alone
      /\ RunningEntered /\ EntryRuns /\ KillExact /\ Faults /\ Stopping
  BY DEF Inv
<1>2. /\ pc[r] = "create" /\ fault = {}
      /\ req' = req /\ cont' = cont /\ image' = image /\ table' = table /\ phase' = phase /\ killing' = killing
      /\ fault' = fault /\ ended' = ended /\ overlap' = overlap /\ failed' = failed /\ late' = late
  BY DEF Created, Up, history
<1>3. CASE code[r] # 201
  <2>1. PICK a \in Codes : a = 500  BY DEF Codes
  <2>2. Answer(r, a) /\ Closable(r)  BY <1>2, <1>3, <2>1 DEF Created, Closable, Calls
  <2> QED  BY <1>2, <2>2, EndKeeps
<1>4. CASE code[r] = 201
  <2>1. "start" \in Calls /\ Call(r, "start")  BY <1>4 DEF Created, Calls
  <2>2. /\ answers' = answers /\ pc' \in [Requests -> Stages] /\ code' \in [Requests -> Codes]
        /\ pc'[r] = "start" /\ code'[r] = 0
        /\ \A q \in Requests \ {r} : pc'[q] = pc[q] /\ code'[q] = code[q] /\ answers'[q] = answers[q]
    BY <2>1, <1>1, CallGives
  <2>3. Types'  BY <1>1, <1>2, <2>2 DEF Types
  <2>4. \A q \in Requests : Each(q)'
    <3>1. \A q \in Requests \ {r} : Same(q)  BY <1>2, <2>2 DEF Same
    <3>2. Each(r)'  BY <1>1, <1>2, <1>4, <2>2 DEF Each, None
    <3> QED  BY <1>2, <3>1, <3>2, OneKeeps
  <2>5. \A n : Orderly(n)' <=> Orderly(n)  BY <1>2 DEF Orderly
  <2>6. \A q \in Requests : /\ pc'[q] = "stop" <=> pc[q] = "stop"
                            /\ pc'[q] = "stop" => code'[q] = code[q]
                            /\ pc'[q] \in Calls <=> pc[q] \in Calls
                            /\ pc[q] = "start" => pc'[q] = "start"
    BY <1>2, <2>2 DEF Calls
  <2>7. Links'
    <3>1. \A d \in Requests : Entered(d) => Entered(d)'  BY <1>2, <2>2 DEF Entered
    <3>2. killing \subseteq Requests  BY <1>1 DEF Types
    <3> QED  BY <3>1, <3>2, <2>6, <1>1, <1>2 DEF Links
  <2>8. Unique' /\ Alone'  BY <1>1, <1>2, <2>6 DEF Unique, Alone
  <2>9. RunningEntered' /\ EntryRuns'  BY <1>1, <1>2, <2>5, <2>6 DEF RunningEntered, EntryRuns
  <2>10. KillExact'  BY <1>1, <1>2, <2>5, <2>6 DEF KillExact
  <2>11. Faults' /\ Stopping'  BY <1>1, <1>2, <2>2, <2>5 DEF Faults, Stopping
  <2> QED  BY <2>3, <2>4, <2>7, <2>8, <2>9, <2>10, <2>11 DEF Inv
<1> QED  BY <1>3, <1>4

\* A container that was started is entered, unless an entry is there.
LEMMA StartedKeeps ==
  ASSUME ServingAssumption, Inv, NEW r \in Requests, Started(r)
  PROVE  Inv'
<1>1. /\ Types /\ Each(r) /\ Links /\ Unique /\ Alone
      /\ RunningEntered /\ EntryRuns /\ KillExact /\ Faults /\ Stopping
  BY DEF Inv
<1>2. /\ pc[r] = "start" /\ fault = {} /\ code[r] # 0 /\ req[r].name \in Names
      /\ req' = req /\ cont' = cont /\ image' = image /\ phase' = phase /\ killing' = killing /\ ended' = ended
      /\ overlap' = overlap /\ failed' = failed /\ late' = late
  BY <1>1 DEF Started, Up, history, Each
<1>3. CASE code[r] # 204
  <2>1. PICK a \in Codes : a = 500  BY DEF Codes
  <2>2. code[r] = 500  BY <1>1, <1>2, <1>3 DEF Each
  <2>3. Answer(r, a) /\ Closable(r) /\ table' = table /\ fault' = fault
    BY <1>2, <1>3, <2>1, <2>2 DEF Started, Closable, Calls
  <2> QED  BY <1>2, <2>3, EndKeeps
<1>4. CASE code[r] = 204 /\ table[req[r].name] # None
  <2>1. /\ fault' = {<<"exists", req[r].name>>} /\ req[r].name \in Names
        /\ pc' = pc /\ code' = code /\ answers' = answers /\ table' = table
    BY <1>2, <1>4 DEF Started
  <2>2. \A n : Orderly(n)' <=> Orderly(n)  BY <1>2 DEF Orderly
  <2>8. Orderly(req[r].name) => req[r].name \in late
    <3> SUFFICES ASSUME Orderly(req[r].name) PROVE req[r].name \in late  OBVIOUS
    <3>1. CASE phase # "up"  BY <3>1, <1>1, <1>2 DEF Stopping
    <3>2. CASE phase = "up"
      <4>1. cont[r] = "running"  BY <1>1, <1>2, <1>4 DEF Each, Orderly
      <4>2. PICK d \in Requests : d = table[req[r].name] /\ req[d].name = req[r].name /\ d # r
        <5>1. table[req[r].name] # r  BY <1>1, <1>2, NotLinked
        <5>2. table[req[r].name] \in Requests  BY <3>2, <1>1, <1>2, <1>4 DEF Links, Types
        <5> QED  BY <5>1, <5>2, <1>1, <1>2 DEF Links
      <4>3. cont[d] # "running"  BY <4>1, <4>2, <1>1 DEF Unique
      <4>4. PICK q \in Requests : pc[q] = "stop" /\ req[q].name = req[r].name
        BY <3>2, <4>2, <4>3, <1>1, <1>2, <1>4 DEF EntryRuns
      <4>5. q # r /\ pc[r] \in Calls  BY <4>4, <1>2 DEF Calls
      <4>6. req[q].name \in overlap  BY <4>4, <4>5, <1>1 DEF Alone
      <4> QED  BY <4>4, <4>6 DEF Orderly
    <3> QED  BY <3>1, <3>2
  <2>9. Faults'
    <3>1. \A n \in Names : fault' \cap {<<"exists", n>>, <<"port", n>>} # {} => n = req[r].name  BY <2>1
    <3>2. \A n \in Names : <<"missing", n>> \notin fault'  BY <2>1
    <3> QED  BY <3>1, <3>2, <2>2, <2>8, <1>2 DEF Faults
  <2> QED  BY <1>2, <2>1, <2>9, FaultKeeps
<1>5. CASE code[r] = 204 /\ table[req[r].name] = None
  <2>1. /\ table' = [table EXCEPT ![req[r].name] = r] /\ Call(r, "inspect") /\ fault' = fault
        /\ "inspect" \in Calls
    BY <1>5 DEF Started, Add, Calls
  <2>2. /\ answers' = answers /\ pc' \in [Requests -> Stages] /\ code' \in [Requests -> Codes]
        /\ pc'[r] = "inspect" /\ code'[r] = 0
        /\ \A q \in Requests \ {r} : pc'[q] = pc[q] /\ code'[q] = code[q] /\ answers'[q] = answers[q]
    BY <2>1, <1>1, CallGives
  <2>3. /\ table'[req[r].name] = r
        /\ \A n \in Names : n # req[r].name => table'[n] = table[n]
    BY <2>1, <1>1, <1>2 DEF Types
  <2>4. Types'  BY <1>1, <1>2, <2>1, <2>2 DEF Types
  <2>5. \A q \in Requests : Each(q)'
    <3>1. \A q \in Requests \ {r} : Same(q)  BY <1>2, <2>2 DEF Same
    <3>2. Each(r)'  BY <1>1, <1>2, <1>5, <2>2 DEF Each, NoPort
    <3> QED  BY <1>2, <3>1, <3>2, OneKeeps
  <2>6. \A n : Orderly(n)' <=> Orderly(n)  BY <1>2 DEF Orderly
  <2>7. \A q \in Requests : /\ pc'[q] = "stop" <=> pc[q] = "stop"
                            /\ pc'[q] = "stop" => code'[q] = code[q]
                            /\ pc'[q] \in Calls <=> pc[q] \in Calls
                            /\ q # r /\ pc[q] = "start" => pc'[q] = "start"
    BY <1>2, <2>2 DEF Calls
  <2>8. \A d \in Requests : Entered(d) => Entered(d)'  BY <1>2, <2>2 DEF Entered
  <2>9. Entered(r)' /\ (Orderly(req[r].name) => cont[r] = "running")
    BY <1>1, <1>2, <1>5, <2>2 DEF Entered, Each, Orderly
  <2>10. Links'
    <3>1. killing \subseteq Requests  BY <1>1 DEF Types
    <3>2. ASSUME NEW n \in Names
          PROVE  /\ table'[n] \in Requests => \E d \in Requests : d = table'[n] /\ Entered(d)' /\ req[d].name = n
                 /\ table'[n] = Moved => phase # "up"
      <4>1. CASE n = req[r].name  BY <4>1, <2>3, <2>9 DEF ServingAssumption, Moved
      <4>2. CASE n # req[r].name  BY <4>2, <2>3, <2>8, <1>1 DEF Links
      <4> QED  BY <4>1, <4>2
    <3> QED  BY <3>1, <3>2, <2>7, <2>8, <1>1, <1>2 DEF Links
  <2>11. Unique' /\ Alone'  BY <1>1, <1>2, <2>7 DEF Unique, Alone
  <2>12. RunningEntered'
    <3> SUFFICES ASSUME NEW d \in Requests, cont[d] = "running", Orderly(req[d].name), phase = "up"
                 PROVE  table'[req[d].name] = d \/ pc'[d] = "start"
      BY <1>2, <2>6 DEF RunningEntered
    <3>1. CASE d = r  BY <3>1, <2>3
    <3>2. CASE d # r
      <4>1. req[d].name # req[r].name  BY <3>2, <2>9, <1>1 DEF Unique
      <4>2. Each(d)  BY DEF Inv
      <4>3. req[d].name \in Names  BY <4>2 DEF Each, None
      <4> QED  BY <3>2, <4>1, <4>3, <2>3, <2>7, <1>1 DEF RunningEntered
    <3> QED  BY <3>1, <3>2
  <2>13. EntryRuns'
    <3> SUFFICES ASSUME NEW n \in Names, Orderly(n), phase = "up", table'[n] # None
                 PROVE  cont[table'[n]] = "running" \/ \E q \in Requests : pc[q] = "stop" /\ req[q].name = n
      BY <1>2, <2>6, <2>7 DEF EntryRuns
    <3>1. CASE n = req[r].name  BY <3>1, <2>3, <2>9
    <3>2. CASE n # req[r].name  BY <3>2, <2>3, <1>1 DEF EntryRuns
    <3> QED  BY <3>1, <3>2
  <2>14. KillExact'
    <3> SUFFICES ASSUME NEW q \in Requests, pc[q] = "stop", Orderly(req[q].name), phase = "up"
                 PROVE  /\ table'[req[q].name] = req[q].container
                        /\ \/ code[q] = 0 /\ cont[req[q].container] = "running"
                           \/ code[q] = 204 /\ cont[req[q].container] = "gone"
      BY <1>2, <2>6, <2>7 DEF KillExact
    <3>1. q # r /\ pc[r] \in Calls  BY <1>2 DEF Calls
    <3>2. req[q].name # req[r].name  BY <3>1, <1>1 DEF Alone, Orderly
    <3>3. Each(q)  BY DEF Inv
    <3>4. req[q].name \in Names  BY <3>3 DEF Each
    <3> QED  BY <3>2, <3>4, <2>3, <1>1 DEF KillExact
  <2>15. Faults'  BY <1>2, <2>1 DEF Faults
  <2>16. Stopping'  BY <1>1, <1>2, <2>2, <2>6 DEF Stopping
  <2> QED  BY <2>4, <2>5, <2>10, <2>11, <2>12, <2>13, <2>14, <2>15, <2>16 DEF Inv
<1> QED  BY <1>3, <1>4, <1>5

\* A kill arrives for a process that has no entry: the server ends.
LEMMA KillMissingKeeps ==
  ASSUME ServingAssumption, Inv, NEW r \in Requests, NEW n \in Names, Kill(r, n), table[n] = None
  PROVE  Inv'
<1>1. /\ Types /\ Each(r) /\ Links /\ Unique /\ Alone
      /\ RunningEntered /\ EntryRuns /\ KillExact /\ Faults /\ Stopping
  BY DEF Inv
<1>2. /\ pc[r] = "new" /\ phase = "up" /\ fault = {} /\ answers[r] = <<>> /\ cont[r] = None
      /\ req' = [req EXCEPT ![r] = [kind |-> "kill", name |-> n, container |-> None]]
      /\ overlap \subseteq overlap' /\ Answer(r, 404) /\ fault' = {<<"missing", n>>}
      /\ cont' = cont /\ image' = image /\ table' = table /\ phase' = phase /\ killing' = killing /\ ended' = ended
      /\ failed' = failed /\ late' = late
  BY <1>1 DEF Kill, Arrives, Up, Each, NoteOverlap
<1>3. PICK a \in Codes : a = 404  BY DEF Codes
<1>4. /\ answers' \in [Requests -> Seq(Codes)] /\ pc' \in [Requests -> Stages] /\ code' \in [Requests -> Codes]
      /\ pc'[r] = "done" /\ code'[r] = 0 /\ Len(answers'[r]) = 1
      /\ \A q \in Requests \ {r} : pc'[q] = pc[q] /\ code'[q] = code[q] /\ answers'[q] = answers[q]
  <2>1. Answer(r, a)  BY <1>2, <1>3
  <2> QED  BY <2>1, <1>1, <1>2, AnswerGives
<1>5. /\ req' \in [Requests -> Described]
      /\ req'[r].kind = "kill" /\ req'[r].name = n /\ req'[r].container = None
      /\ \A q \in Requests \ {r} : req'[q] = req[q]
  <2>1. [kind |-> "kill", name |-> n, container |-> None] \in Described  BY DEF Described, Kinds
  <2> QED  BY <2>1, <1>1, <1>2 DEF Types
<1>6. Types'  BY <1>1, <1>2, <1>4, <1>5 DEF Types
<1>7. \A m : Orderly(m)' => Orderly(m)  BY <1>2 DEF Orderly
<1>8. \A d \in Requests : Entered(d) => d # r /\ Entered(d)'  BY <1>2, <1>4, <1>5 DEF Entered
<1>9. \A q \in Requests : Each(q)'
  <2>1. \A q \in Requests \ {r} : Same(q)  BY <1>2, <1>4, <1>5 DEF Same
  <2>2. Each(r)'
    <3>1. Len(answers'[r]) \in {0, 1}  BY <1>2, <1>4
    <3> QED  BY <3>1, <1>2, <1>4, <1>5 DEF Each, None
  <2> QED  BY <2>1, <2>2, <1>2, OneKeeps
<1>10. Unique'
  <2>1. \A d \in Requests : cont[d] \in {"created", "running"} => d # r  BY <1>2 DEF None
  <2> QED  BY <2>1, <1>1, <1>2, <1>5 DEF Unique
<1>11. RunningEntered'
  <2>1. \A d \in Requests : cont[d] = "running" => d # r  BY <1>2 DEF None
  <2> QED  BY <2>1, <1>1, <1>2, <1>4, <1>5, <1>7, ZenonT(60) DEF RunningEntered
<1>12. Alone'
  <2>1. \A q \in Requests : pc'[q] \in Calls => q # r /\ pc'[q] = pc[q]  BY <1>4 DEF Calls
  <2>2. "stop" \in Calls  BY DEF Calls
  <2> QED  BY <2>1, <2>2, <1>1, <1>2, <1>5 DEF Alone
<1>13. Links'
  <2>1. killing \subseteq Requests  BY <1>1 DEF Types
  <2>2. \A m \in Names : table[m] \in Requests => Entered(table[m])' /\ req'[table[m]].name = m
    BY <1>1, <1>2, <1>5, <1>8 DEF Links
  <2>3. ASSUME NEW q \in Requests, pc'[q] = "stop"
        PROVE  \E d \in Requests : d = req'[q].container /\ Entered(d)' /\ req'[d].name = req'[q].name
    <3>1. q # r /\ pc[q] = "stop" /\ req'[q] = req[q]  BY <2>3, <1>4, <1>5
    <3>2. PICK d \in Requests : d = req[q].container /\ Entered(d) /\ req[d].name = req[q].name
      BY <3>1, <1>1 DEF Links
    <3>3. Entered(d)' /\ d # r  BY <3>2, <1>8
    <3> QED  BY <3>1, <3>2, <3>3, <1>5
  <2> QED  BY <2>1, <2>2, <2>3, <1>1, <1>2, <1>8 DEF Links, Entered
<1>14. KillExact'
  <2> SUFFICES ASSUME NEW q \in Requests, pc'[q] = "stop", Orderly(req'[q].name)
               PROVE  /\ table[req'[q].name] = req'[q].container
                      /\ \/ code'[q] = 0 /\ cont[req'[q].container] = "running"
                         \/ code'[q] = 204 /\ cont[req'[q].container] = "gone"
    BY <1>2 DEF KillExact, Orderly
  <2>1. q # r /\ pc[q] = "stop" /\ req'[q] = req[q] /\ code'[q] = code[q]  BY <1>4, <1>5
  <2> QED  BY <2>1, <1>1, <1>2 DEF KillExact
<1>15. EntryRuns'
  <2> SUFFICES ASSUME NEW m \in Names, Orderly(m), table[m] # None, cont[table[m]] # "running"
               PROVE  \E q \in Requests : pc'[q] = "stop" /\ req'[q].name = m
    BY <1>2, <1>7 DEF EntryRuns
  <2>1. PICK q \in Requests : pc[q] = "stop" /\ req[q].name = m  BY <1>1, <1>2 DEF EntryRuns
  <2>2. q # r  BY <2>1, <1>2
  <2> QED  BY <2>1, <2>2, <1>4, <1>5
<1>16. Faults'
  <2>1. \A m \in Names : <<"missing", m>> \in fault' => m = n  BY <1>2
  <2>2. \A m \in Names : <<"exists", m>> \notin fault'  BY <1>2
  <2>3. ASSUME Orderly(n), NEW d \in Requests, req'[d].name = n, cont[d] = "running" PROVE answers'[d] = <<>>
    <3>1. d # r  BY <2>3, <1>2 DEF None
    <3>2. req[d].name = n /\ Each(d)  BY <2>3, <3>1, <1>5 DEF Inv
    <3>3. table[n] # d  BY DEF ServingAssumption, None
    <3>4. pc[d] = "start"  BY <2>3, <3>2, <3>3, <1>1, <1>2 DEF RunningEntered
    <3> QED  BY <3>1, <3>2, <3>4, <1>4 DEF Each
  <2> QED  BY <2>1, <2>2, <2>3, <1>2, <1>7 DEF Faults
<1>17. Stopping'  BY <1>1, <1>2 DEF Stopping
<1> QED  BY <1>6, <1>9, <1>12, <1>13, <1>14, <1>15, <1>16, <1>17, <1>10, <1>11 DEF Inv

\* A kill arrives for a process that has an entry.
LEMMA KillFoundKeeps ==
  ASSUME ServingAssumption, Inv, NEW r \in Requests, NEW n \in Names, Kill(r, n), table[n] # None
  PROVE  Inv'
<1>1. /\ Types /\ Each(r) /\ Links /\ Unique /\ Alone
      /\ RunningEntered /\ EntryRuns /\ KillExact /\ Faults /\ Stopping
  BY DEF Inv
<1>2. /\ pc[r] = "new" /\ phase = "up" /\ fault = {} /\ answers[r] = <<>> /\ cont[r] = None
      /\ req' = [req EXCEPT ![r] = [kind |-> "kill", name |-> n, container |-> table[n]]]
      /\ overlap \subseteq overlap' /\ NoteOverlap(r, "kill", n) /\ Call(r, "stop")
      /\ cont' = cont /\ image' = image /\ table' = table /\ phase' = phase /\ killing' = killing /\ fault' = fault
      /\ ended' = ended /\ failed' = failed /\ late' = late
  BY <1>1 DEF Kill, Arrives, Up, Each, NoteOverlap
<1>3. PICK c \in Requests : c = table[n] /\ Entered(c) /\ req[c].name = n
  BY <1>1, <1>2 DEF Types, Links
<1>4. /\ answers' = answers /\ answers' \in [Requests -> Seq(Codes)]
      /\ pc' \in [Requests -> Stages] /\ code' \in [Requests -> Codes]
      /\ pc'[r] = "stop" /\ code'[r] = 0 /\ Len(<<>>) = 0
      /\ \A q \in Requests \ {r} : pc'[q] = pc[q] /\ code'[q] = code[q] /\ answers'[q] = answers[q]
  <2>1. "stop" \in Calls  BY DEF Calls
  <2> QED  BY <2>1, <1>1, <1>2, CallGives DEF Types
<1>5. /\ req' \in [Requests -> Described]
      /\ req'[r].kind = "kill" /\ req'[r].name = n /\ req'[r].container = c
      /\ \A q \in Requests \ {r} : req'[q] = req[q]
  <2>1. [kind |-> "kill", name |-> n, container |-> c] \in Described  BY DEF Described, Kinds
  <2> QED  BY <2>1, <1>1, <1>2, <1>3 DEF Types
<1>6. Types'  BY <1>1, <1>2, <1>4, <1>5 DEF Types
<1>7. \A m : Orderly(m)' => Orderly(m)  BY <1>2 DEF Orderly
<1>8. \A d \in Requests : Entered(d) => d # r /\ Entered(d)'  BY <1>2, <1>4, <1>5 DEF Entered
<1>9. \A q \in Requests : Each(q)'
  <2>1. \A q \in Requests \ {r} : Same(q)  BY <1>2, <1>4, <1>5 DEF Same
  <2>2. Each(r)'
    <3>1. Len(answers'[r]) \in {0, 1}  BY <1>2, <1>4
    <3> QED  BY <3>1, <1>2, <1>4, <1>5 DEF Each, None
  <2> QED  BY <2>1, <2>2, <1>2, OneKeeps
<1>10. Unique'
  <2>1. \A d \in Requests : cont[d] \in {"created", "running"} => d # r  BY <1>2 DEF None
  <2> QED  BY <2>1, <1>1, <1>2, <1>5 DEF Unique
<1>11. RunningEntered'
  <2>1. \A d \in Requests : cont[d] = "running" => d # r  BY <1>2 DEF None
  <2> QED  BY <2>1, <1>1, <1>2, <1>4, <1>5, <1>7, ZenonT(60) DEF RunningEntered
<1>12. \A q \in Requests : pc[q] \in Calls /\ req[q].name = n => n \in overlap'
  BY <1>2 DEF NoteOverlap, Open
<1>13. Alone'
  <2> SUFFICES ASSUME NEW q \in Requests, NEW p \in Requests, pc'[q] = "stop", pc'[p] \in Calls,
                      req'[q].name = req'[p].name, q # p
               PROVE  req'[q].name \in overlap'
    BY DEF Alone
  <2>1. CASE p = r
    <3>1. pc[q] = "stop" /\ req[q].name = n /\ "stop" \in Calls  BY <2>1, <1>4, <1>5 DEF Calls
    <3> QED  BY <3>1, <2>1, <1>5, <1>12
  <2>2. CASE q = r  BY <2>2, <1>4, <1>5, <1>12
  <2>3. CASE p # r /\ q # r
    <3>1. pc[q] = "stop" /\ pc[p] \in Calls /\ req'[q] = req[q] /\ req[q].name = req[p].name
      BY <2>3, <1>4, <1>5
    <3>2. req[q].name \in overlap  BY <3>1, <1>1 DEF Alone
    <3> QED  BY <3>1, <3>2, <1>2
  <2> QED  BY <2>1, <2>2, <2>3
<1>14. Links'
  <2>1. killing \subseteq Requests  BY <1>1 DEF Types
  <2>2. \A m \in Names : table[m] \in Requests => Entered(table[m])' /\ req'[table[m]].name = m
    BY <1>1, <1>2, <1>5, <1>8 DEF Links
  <2>3. ASSUME NEW q \in Requests, pc'[q] = "stop"
        PROVE  \E d \in Requests : d = req'[q].container /\ Entered(d)' /\ req'[d].name = req'[q].name
    <3>1. CASE q = r  BY <3>1, <1>3, <1>5, <1>8
    <3>2. CASE q # r
      <4>1. pc[q] = "stop" /\ req'[q] = req[q]  BY <2>3, <3>2, <1>4, <1>5
      <4>2. PICK d \in Requests : d = req[q].container /\ Entered(d) /\ req[d].name = req[q].name
        BY <4>1, <1>1 DEF Links
      <4>3. Entered(d)' /\ d # r  BY <4>2, <1>8
      <4> QED  BY <4>1, <4>2, <4>3, <1>5
    <3> QED  BY <3>1, <3>2
  <2> QED  BY <2>1, <2>2, <2>3, <1>1, <1>2, <1>8 DEF Links, Entered
<1>15. \A q \in Requests : pc[q] = "stop" /\ req[q].name = n => n \in overlap'
  BY <1>12 DEF Calls
<1>16. KillExact'
  <2> SUFFICES ASSUME NEW q \in Requests, pc'[q] = "stop", Orderly(req'[q].name), req'[q].name \notin overlap'
               PROVE  /\ table[req'[q].name] = req'[q].container
                      /\ \/ code'[q] = 0 /\ cont[req'[q].container] = "running"
                         \/ code'[q] = 204 /\ cont[req'[q].container] = "gone"
    BY <1>2 DEF KillExact, Orderly
  <2>1. CASE q = r
    <3>1. cont[c] = "running"
      BY <2>1, <1>1, <1>2, <1>3, <1>5, <1>15 DEF EntryRuns
    <3> QED  BY <3>1, <2>1, <1>3, <1>4, <1>5
  <2>2. CASE q # r
    <3>1. pc[q] = "stop" /\ req'[q] = req[q] /\ code'[q] = code[q]  BY <2>2, <1>4, <1>5
    <3> QED  BY <3>1, <1>1, <1>2 DEF KillExact
  <2> QED  BY <2>1, <2>2
<1>17. EntryRuns'
  <2> SUFFICES ASSUME NEW m \in Names, Orderly(m), table[m] # None, cont[table[m]] # "running"
               PROVE  \E q \in Requests : pc'[q] = "stop" /\ req'[q].name = m
    BY <1>2, <1>7 DEF EntryRuns
  <2>1. PICK q \in Requests : pc[q] = "stop" /\ req[q].name = m  BY <1>1, <1>2 DEF EntryRuns
  <2>2. q # r  BY <2>1, <1>2
  <2> QED  BY <2>1, <2>2, <1>4, <1>5
<1>18. Faults' /\ Stopping'  BY <1>1, <1>2 DEF Faults, Stopping
<1> QED  BY <1>6, <1>9, <1>13, <1>14, <1>16, <1>17, <1>10, <1>11, <1>18 DEF Inv

\* A container has been stopped: its entry goes.
LEMMA KilledKeeps ==
  ASSUME ServingAssumption, Inv, NEW r \in Requests, Killed(r)
  PROVE  Inv'
<1>1. /\ Types /\ Each(r) /\ Links /\ Unique /\ Alone
      /\ RunningEntered /\ EntryRuns /\ KillExact /\ Faults /\ Stopping
  BY DEF Inv
<1>2. /\ pc[r] = "stop" /\ fault = {} /\ code[r] # 0 /\ req[r].name \in Names /\ answers[r] = <<>>
      /\ req' = req /\ cont' = cont /\ image' = image /\ phase' = phase /\ killing' = killing /\ fault' = fault
      /\ ended' = ended /\ overlap' = overlap /\ failed' = failed /\ late' = late
  BY <1>1 DEF Killed, Up, history, Each
<1>3. CASE code[r] # 204
  <2>1. PICK a \in Codes : a = 500  BY DEF Codes
  <2>2. ~Orderly(req[r].name) \/ phase # "up"  BY <1>1, <1>2, <1>3 DEF KillExact
  <2>3. Answer(r, a) /\ Closable(r) /\ table' = table
    BY <1>2, <1>3, <2>1, <2>2 DEF Killed, Closable, Calls
  <2> QED  BY <1>2, <2>3, EndKeeps
<1>4. CASE code[r] = 204
  <2>1. Answer(r, 200) /\ table' = [table EXCEPT ![req[r].name] = None]
    BY <1>4 DEF Killed
  <2>2. /\ answers' \in [Requests -> Seq(Codes)] /\ pc' \in [Requests -> Stages] /\ code' \in [Requests -> Codes]
        /\ pc'[r] = "done" /\ code'[r] = 0 /\ Len(answers'[r]) = 1
        /\ \A q \in Requests \ {r} : pc'[q] = pc[q] /\ code'[q] = code[q] /\ answers'[q] = answers[q]
    <3>1. PICK a \in Codes : a = 200  BY DEF Codes
    <3>2. Answer(r, a)  BY <2>1, <3>1
    <3> QED  BY <3>2, <1>1, <1>2, AnswerGives
  <2>3. /\ table'[req[r].name] = None
        /\ \A n \in Names : n # req[r].name => table'[n] = table[n]
    BY <2>1, <1>1, <1>2 DEF Types
  <2>4. Types'  BY <1>1, <1>2, <2>1, <2>2 DEF Types
  <2>5. \A q \in Requests : Each(q)'
    <3>1. \A q \in Requests \ {r} : Same(q)  BY <1>2, <2>2 DEF Same
    <3>2. Each(r)'  BY <1>1, <1>2, <2>2 DEF Each, None
    <3> QED  BY <1>2, <3>1, <3>2, OneKeeps
  <2>6. \A n : Orderly(n)' <=> Orderly(n)  BY <1>2 DEF Orderly
  <2>7. \A q \in Requests : /\ pc'[q] = "stop" => pc[q] = "stop" /\ q # r /\ code'[q] = code[q]
                            /\ pc'[q] \in Calls => pc[q] \in Calls
                            /\ pc[q] = "start" => pc'[q] = "start"
                            /\ pc[q] = "stop" /\ q # r => pc'[q] = "stop"
                            /\ pc'[q] \in {"create", "start", "inspect"} => pc[q] = pc'[q]
    BY <1>2, <2>2 DEF Calls
  <2>8. \A d \in Requests : Entered(d) => Entered(d)'  BY <1>2, <2>2 DEF Entered
  <2>9. Links'
    <3>1. killing \subseteq Requests  BY <1>1 DEF Types
    <3>2. ASSUME NEW n \in Names
          PROVE  /\ table'[n] \in Requests => \E d \in Requests : d = table'[n] /\ Entered(d)' /\ req[d].name = n
                 /\ table'[n] = Moved => phase # "up"
      <4>1. CASE n = req[r].name  BY <4>1, <2>3 DEF ServingAssumption, Moved, None
      <4>2. CASE n # req[r].name  BY <4>2, <2>3, <2>8, <1>1 DEF Links
      <4> QED  BY <4>1, <4>2
    <3> QED  BY <3>1, <3>2, <2>7, <2>8, <1>1, <1>2 DEF Links
  <2>10. Unique' /\ Alone'  BY <1>1, <1>2, <2>7 DEF Unique, Alone
  <2>11. RunningEntered'
    <3> SUFFICES ASSUME NEW d \in Requests, cont[d] = "running", Orderly(req[d].name), phase = "up"
                 PROVE  table'[req[d].name] = d \/ pc'[d] = "start"
      BY <1>2, <2>6 DEF RunningEntered
    <3>1. table[req[d].name] = d \/ pc[d] = "start"  BY <1>1 DEF RunningEntered
    <3>2. CASE req[d].name = req[r].name
      <4>1. cont[req[r].container] = "gone" /\ table[req[r].name] = req[r].container
        BY <3>2, <1>1, <1>2, <1>4 DEF KillExact
      <4> QED  BY <3>1, <3>2, <4>1, <2>7
    <3>3. CASE req[d].name # req[r].name
      <4>1. Each(d)  BY DEF Inv
      <4>2. req[d].name \in Names  BY <4>1 DEF Each, None
      <4> QED  BY <3>1, <3>3, <4>2, <2>3, <2>7
    <3> QED  BY <3>2, <3>3
  <2>12. EntryRuns'
    <3> SUFFICES ASSUME NEW n \in Names, Orderly(n), phase = "up", table'[n] # None, cont[table'[n]] # "running"
                 PROVE  \E q \in Requests : pc'[q] = "stop" /\ req[q].name = n
      BY <1>2, <2>6 DEF EntryRuns
    <3>1. n # req[r].name /\ table'[n] = table[n]  BY <2>3
    <3>2. PICK q \in Requests : pc[q] = "stop" /\ req[q].name = n  BY <3>1, <1>1 DEF EntryRuns
    <3> QED  BY <3>1, <3>2, <2>7
  <2>13. KillExact'
    <3> SUFFICES ASSUME NEW q \in Requests, pc'[q] = "stop", Orderly(req[q].name), phase = "up"
                 PROVE  /\ table'[req[q].name] = req[q].container
                        /\ \/ code'[q] = 0 /\ cont[req[q].container] = "running"
                           \/ code'[q] = 204 /\ cont[req[q].container] = "gone"
      BY <1>2, <2>6 DEF KillExact
    <3>1. pc[q] = "stop" /\ q # r /\ code'[q] = code[q] /\ pc[r] \in Calls  BY <2>7, <1>2 DEF Calls
    <3>2. req[q].name # req[r].name  BY <3>1, <1>1 DEF Alone, Orderly
    <3>3. Each(q)  BY DEF Inv
    <3>4. req[q].name \in Names  BY <3>1, <3>3 DEF Each
    <3> QED  BY <3>1, <3>2, <3>4, <2>3, <1>1 DEF KillExact
  <2>14. Faults'  BY <1>2 DEF Faults
  <2>15. Stopping'  BY <1>1, <1>2, <2>6, <2>7 DEF Stopping
  <2> QED  BY <2>4, <2>5, <2>9, <2>10, <2>11, <2>12, <2>13, <2>14, <2>15 DEF Inv
<1> QED  BY <1>3, <1>4

\* The server is told to stop, and takes what the table holds.
LEMMA ShutdownKeeps ==
  ASSUME ServingAssumption, Inv, Shutdown
  PROVE  Inv'
<1>1. /\ Types /\ (\A r \in Requests : Each(r)) /\ Links /\ Unique /\ Alone
      /\ RunningEntered /\ EntryRuns /\ KillExact /\ Faults /\ Stopping
  BY DEF Inv
<1>2. /\ phase = "up" /\ fault = {} /\ phase' = "stopping"
      /\ killing' = {table[n] : n \in Names} \ {None}
      /\ table' = [n \in Names |-> IF table[n] = None THEN None ELSE Moved]
      /\ late' = {n \in Names : \E r \in Open(n) : req[r].kind = "create"}
      /\ req' = req /\ pc' = pc /\ code' = code /\ answers' = answers /\ cont' = cont /\ image' = image
      /\ fault' = fault /\ ended' = ended /\ overlap' = overlap /\ failed' = failed
  BY DEF Shutdown, Up
<1>3. \A c \in killing' : c \in Requests /\ Entered(c)  BY <1>1, <1>2 DEF Types, Links
<1>4. \A n \in Names : table'[n] \in {None, Moved} /\ table'[n] \notin Requests
  BY <1>2 DEF ServingAssumption, None, Moved
<1>5. Types'
  <2>1. killing' \in SUBSET Requests  BY <1>3
  <2>2. table' \in [Names -> Requests \cup {None, Moved}]  BY <1>2
  <2> QED  BY <2>1, <2>2, <1>1, <1>2 DEF Types
<1>6. \A q \in Requests : Each(q)'
  <2>1. \A q \in Requests : Same(q)  BY <1>2 DEF Same
  <2>2. late \subseteq late'  BY <1>1, <1>2 DEF Stopping
  <2> QED  BY <2>1, <2>2, <1>1, <1>2, SameKeeps
<1>7. Links'  BY <1>1, <1>2, <1>3, <1>4 DEF Links, Entered
<1>8. Unique' /\ Alone'  BY <1>1, <1>2 DEF Unique, Alone
<1>9. RunningEntered' /\ EntryRuns' /\ KillExact'  BY <1>2 DEF RunningEntered, EntryRuns, KillExact
<1>10. Faults'  BY <1>2 DEF Faults
<1>11. Stopping'
  <2>1. ASSUME NEW r \in Requests, pc[r] \in {"create", "start", "inspect"} PROVE req[r].name \in late'
    <3>1. req[r].kind = "create" /\ req[r].name \in Names  BY <2>1, <1>1 DEF Each
    <3>2. r \in Open(req[r].name)  BY <2>1 DEF Open, Calls
    <3> QED  BY <3>1, <3>2, <1>2
  <2>2. ASSUME NEW c \in Requests, cont[c] = "running", Orderly(req[c].name)
        PROVE  c \in killing' \/ req[c].name \in late'
    <3>1. req[c].name \in Names  BY <2>2, <1>1 DEF Each, None
    <3>2. table[req[c].name] = c \/ pc[c] = "start"  BY <2>2, <1>1, <1>2 DEF RunningEntered
    <3>3. c # None  BY DEF ServingAssumption, None
    <3> QED  BY <3>1, <3>2, <3>3, <2>1, <1>2
  <2>3. \A n : Orderly(n)' <=> Orderly(n)  BY <1>2 DEF Orderly
  <2> QED  BY <2>1, <2>2, <2>3, <1>2 DEF Stopping
<1> QED  BY <1>5, <1>6, <1>7, <1>8, <1>9, <1>10, <1>11 DEF Inv

\* A container has been stopped in the shutdown, or the daemon has failed to.
LEMMA KillAllKeeps ==
  ASSUME ServingAssumption, Inv, NEW r \in Requests, KillAll(r)
  PROVE  Inv'
<1>1. /\ Types /\ Each(r) /\ Links /\ Unique /\ Alone
      /\ RunningEntered /\ EntryRuns /\ KillExact /\ Faults /\ Stopping
  BY DEF Inv
<1>2. /\ phase = "stopping" /\ fault = {} /\ r \in killing /\ killing' = killing \ {r}
      /\ failed \subseteq failed'
      /\ \/ cont' = [cont EXCEPT ![r] = "gone"] /\ failed' = failed
         \/ req[r].name \in failed' /\ cont' = cont
      /\ req' = req /\ pc' = pc /\ code' = code /\ answers' = answers /\ image' = image /\ table' = table
      /\ phase' = phase /\ fault' = fault /\ ended' = ended /\ overlap' = overlap /\ late' = late
  BY DEF KillAll, Up
<1>3. Entered(r)  BY <1>1, <1>2 DEF Links
<1>4. /\ cont' \in [Requests -> {None, "created", "running", "gone"}]
      /\ \A q \in Requests \ {r} : cont'[q] = cont[q]
      /\ cont'[r] = "gone" \/ (cont'[r] = cont[r] /\ req[r].name \in failed')
  BY <1>1, <1>2 DEF Types
<1>5. Types'  BY <1>1, <1>2, <1>4 DEF Types
<1>6. \A q \in Requests : Each(q)'
  <2>1. \A q \in Requests \ {r} : Same(q)  BY <1>2, <1>4 DEF Same
  <2>2. Each(r)'  BY <1>1, <1>2, <1>3, <1>4 DEF Each, Entered, None, Stopping
  <2> QED  BY <1>2, <2>1, <2>2, OneKeeps
<1>7. \A n : Orderly(n)' => Orderly(n) /\ n \notin failed'  BY <1>2 DEF Orderly
<1>8. Links'
  <2>1. \A d \in Requests : Entered(d) => Entered(d)'  BY <1>2, <1>4 DEF Entered
  <2>2. killing \subseteq Requests  BY <1>1 DEF Types
  <2> QED  BY <2>1, <2>2, <1>1, <1>2 DEF Links
<1>9. Unique'
  <2>1. \A d \in Requests : cont'[d] \in {"created", "running"} => cont[d] \in {"created", "running"}
    BY <1>4
  <2> QED  BY <2>1, <1>1, <1>2 DEF Unique
<1>10. Alone'  BY <1>1, <1>2 DEF Alone
<1>11. RunningEntered' /\ EntryRuns' /\ KillExact'  BY <1>2 DEF RunningEntered, EntryRuns, KillExact
<1>12. Faults'  BY <1>2 DEF Faults
<1>13. Stopping'
  <2>1. ASSUME NEW c \in Requests, cont'[c] = "running", Orderly(req[c].name)'
        PROVE  c \in killing' \/ req[c].name \in late
    <3>1. c # r  BY <2>1, <1>2, <1>4, <1>7
    <3>2. cont[c] = "running" /\ Orderly(req[c].name)  BY <2>1, <3>1, <1>2, <1>4, <1>7
    <3> QED  BY <3>1, <3>2, <1>1, <1>2 DEF Stopping
  <2> QED  BY <2>1, <1>1, <1>2 DEF Stopping
<1> QED  BY <1>5, <1>6, <1>8, <1>9, <1>10, <1>11, <1>12, <1>13 DEF Inv

\* The shutdown has ended.
LEMMA StoppedKeeps ==
  ASSUME ServingAssumption, Inv, Stopped
  PROVE  Inv'
<1>1. /\ Types /\ (\A r \in Requests : Each(r)) /\ Links /\ Unique /\ Alone
      /\ RunningEntered /\ EntryRuns /\ KillExact /\ Faults /\ Stopping
  BY DEF Inv
<1>2. /\ phase = "stopping" /\ killing = {} /\ phase' = "stopped" /\ fault = {}
      /\ req' = req /\ pc' = pc /\ code' = code /\ answers' = answers /\ cont' = cont /\ image' = image
      /\ table' = table /\ killing' = killing /\ fault' = fault /\ ended' = ended /\ overlap' = overlap /\ failed' = failed
      /\ late' = late
  BY DEF Stopped, Up, history
<1>3. Types'  BY <1>1, <1>2 DEF Types
<1>4. \A q \in Requests : Each(q)'
  <2>1. \A q \in Requests : Same(q)  BY <1>2 DEF Same
  <2> QED  BY <2>1, <1>1, <1>2, SameKeeps
<1>5. Links' /\ Unique' /\ Alone'  BY <1>1, <1>2 DEF Links, Entered, Unique, Alone
<1>6. RunningEntered' /\ EntryRuns' /\ KillExact'  BY <1>2 DEF RunningEntered, EntryRuns, KillExact
<1>7. Faults'  BY <1>2 DEF Faults
<1>8. Stopping'
  <2>1. \A n : Orderly(n)' <=> Orderly(n)  BY <1>2 DEF Orderly
  <2> QED  BY <2>1, <1>1, <1>2 DEF Stopping
<1> QED  BY <1>3, <1>4, <1>5, <1>6, <1>7, <1>8 DEF Inv

\* Initially nothing has happened.
LEMMA InitGivesInv ==
  ASSUME ServingAssumption, Init
  PROVE  Inv
<1>1. Types
  <2>1. [kind |-> None, name |-> None, container |-> None] \in Described  BY DEF Described
  <2>2. <<>> \in Seq(Codes) /\ "new" \in Stages /\ 0 \in Codes  BY DEF Stages, Codes
  <2> QED  BY <2>1, <2>2 DEF Init, Types
<1>2. ASSUME NEW r \in Requests PROVE Each(r)  BY DEF Init, Each, None
<1>3. Links  BY DEF Init, Links, ServingAssumption, None, Moved
<1>4. Unique /\ Alone  BY DEF Init, Unique, Alone, None
<1>5. RunningEntered /\ EntryRuns /\ KillExact  BY DEF Init, RunningEntered, EntryRuns, KillExact, None
<1>6. Faults /\ Stopping  BY DEF Init, Faults, Stopping
<1> QED  BY <1>1, <1>2, <1>3, <1>4, <1>5, <1>6 DEF Inv

\* Every step keeps the invariant.
LEMMA NextKeeps ==
  ASSUME ServingAssumption, Inv, [Next]_vars
  PROVE  Inv'
<1>1. CASE UNCHANGED vars
  <2>1. \A q \in Requests : Same(q)  BY <1>1 DEF vars, Same
  <2>2. \A q \in Requests : Each(q)'  BY <2>1, <1>1, SameKeeps DEF Inv, vars
  <2>3. Types'  BY <1>1 DEF vars, Inv, Types
  <2>4. Links' /\ Unique' /\ Alone'  BY <1>1 DEF vars, Inv, Links, Entered, Unique, Alone
  <2>5. RunningEntered' /\ EntryRuns' /\ KillExact'
    BY <1>1 DEF vars, Inv, RunningEntered, EntryRuns, KillExact, Orderly
  <2>6. Faults' /\ Stopping'  BY <1>1 DEF vars, Inv, Faults, Stopping, Orderly
  <2> QED  BY <2>2, <2>3, <2>4, <2>5, <2>6 DEF Inv
<1>2. ASSUME NEW r \in Requests, NEW n \in Names, Create(r, n) \/ Kill(r, n) PROVE Inv'
  BY <1>2, CreateKeeps, KillMissingKeeps, KillFoundKeeps
<1>3. ASSUME NEW r \in Requests, CacheImage(r) PROVE Inv'  BY <1>3, CacheImageKeeps
<1>4. ASSUME NEW r \in Requests, Daemon(r) PROVE Inv'
  BY <1>4, DaemonCreateKeeps, DaemonStartKeeps, DaemonInspectKeeps, DaemonStopKeeps, DaemonPullKeeps DEF Daemon
<1>5. ASSUME NEW r \in Requests, DaemonFails(r) \/ NoResponse(r) \/ ContainerEnds(r) \/ KillAll(r) PROVE Inv'
  BY <1>5, DaemonFailsKeeps, NoResponseKeeps, ContainerEndsKeeps, KillAllKeeps
<1>6. ASSUME NEW r \in Requests, Handle(r) PROVE Inv'
  BY <1>6, CreatedKeeps, StartedKeeps, InspectedKeeps, KilledKeeps, CachedKeeps DEF Handle
<1>7. ASSUME Shutdown \/ Stopped PROVE Inv'  BY <1>7, ShutdownKeeps, StoppedKeeps
<1> QED  BY <1>1, <1>2, <1>3, <1>4, <1>5, <1>6, <1>7 DEF Next

-----------------------------------------------------------------------------
(* Theorems.                                                                *)

\* The invariant holds in every state.
THEOREM InvAlways == Spec => []Inv
<1>1. Init => Inv  BY InitGivesInv, ServingAssumption
<1>2. Inv /\ [Next]_vars => Inv'  BY NextKeeps, ServingAssumption
<1> QED  BY <1>1, <1>2, PTL DEF Spec

\* Nobody is answered twice and a container that was created is started; and
\* the table is exact for processes to which nothing unusual happened
\* (server.cpp:115, 196, 264).
THEOREM TableExactAlways == Spec => []TableExact
<1>1. ASSUME Inv PROVE TableExact
  <2>1. /\ Types /\ (\A r \in Requests : Each(r)) /\ Links /\ RunningEntered /\ EntryRuns
    BY <1>1 DEF Inv
  <2>2. TypeOK
    <3>1. ASSUME NEW r \in Requests PROVE Len(answers[r]) <= (IF pc[r] = "done" THEN 1 ELSE 0)
      <4>1. Len(answers[r]) \in {0, 1} /\ (pc[r] # "done" => answers[r] = <<>>)  BY <2>1 DEF Each
      <4>2. CASE pc[r] = "done"
        <5>1. CASE Len(answers[r]) = 0  BY <4>2, <5>1
        <5>2. CASE Len(answers[r]) = 1  BY <4>2, <5>2
        <5> QED  BY <4>1, <5>1, <5>2
      <4>3. CASE pc[r] # "done"
        <5>1. answers[r] = <<>>  BY <4>1, <4>3
        <5>2. Len(answers[r]) = 0  BY <5>1
        <5> QED  BY <4>3, <5>2
      <4> QED  BY <4>2, <4>3
    <3>2. ASSUME NEW r \in Requests
          PROVE  /\ pc[r] \in Calls \cup {"new", "done"}
                 /\ cont[r] # None => req[r].kind = "create"
                 /\ pc[r] = "stop" => req[r].container \in Requests
      BY <2>1 DEF Types, Stages, Each, Links
    <3>3. \A n \in Names : table[n] \in Requests \cup {None, Moved}  BY <2>1 DEF Types
    <3>4. killing \subseteq Requests /\ phase \in {"up", "stopping", "stopped"}  BY <2>1 DEF Types
    <3> QED  BY <3>1, <3>2, <3>3, <3>4 DEF TypeOK
  <2>3. NoneLeftCreated  BY <2>1 DEF NoneLeftCreated, Each
  <2>4. ASSUME NEW n \in Names, Orderly(n), phase = "up", NEW c \in Requests, req[c].name = n, cont[c] = "running"
        PROVE  table[n] = c \/ pc[c] = "start"
    BY <2>1, <2>4 DEF RunningEntered
  <2>5. ASSUME NEW n \in Names, Orderly(n), phase = "up", table[n] # None
        PROVE  cont[table[n]] = "running" \/ \E r \in Open(n) : req[r].kind = "kill"
    <3>1. ASSUME NEW r \in Requests, pc[r] = "stop", req[r].name = n PROVE r \in Open(n) /\ req[r].kind = "kill"
      BY <3>1, <2>1 DEF Open, Calls, Each
    <3> QED  BY <2>1, <2>5, <3>1 DEF EntryRuns
  <2> QED  BY <2>2, <2>3, <2>4, <2>5 DEF TableExact
<1> QED  BY <1>1, InvAlways, PTL

\* The server ends for an entry that is there, or that is missing, only for
\* the reasons that FaultsExplained lists (containers.cpp:15, server.cpp:242).
THEOREM FaultsExplainedAlways == Spec => []FaultsExplained
<1>1. ASSUME Inv PROVE FaultsExplained
  <2>1. Faults  BY <1>1 DEF Inv
  <2>2. <<>> # <<200>>  OBVIOUS
  <2> QED  BY <2>1, <2>2 DEF Faults, FaultsExplained
<1> QED  BY <1>1, InvAlways, PTL

\* When the server has stopped no container runs that it should have stopped
\* (server.cpp:214).
THEOREM ShutdownKillsAllAlways == Spec => []ShutdownKillsAll
<1>1. ASSUME Inv PROVE ShutdownKillsAll
  BY <1>1 DEF Inv, Stopping, ShutdownKillsAll
<1> QED  BY <1>1, InvAlways, PTL

=============================================================================
