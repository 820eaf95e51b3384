--------------------------- MODULE TaskClientsProofs ---------------------------
(***************************************************************************)
(* Theorems about TaskClients, for any clients, any capacity of the        *)
(* channel and any number of restarts.                                     *)
(*                                                                         *)
(* The invariant says of each client where its call is and that the call   *)
(* belongs to the daemon that runs (Placed), that a start_task on its way  *)
(* has not made a task yet (Fresh), that what the client was or is being   *)
(* told is not ahead of the status of its task (Told), and that a client   *)
(* whose task is in the daemon that runs knows it (Owns).                  *)
(***************************************************************************)
EXTENDS TaskClients, SequenceTheorems, TLAPS

Ended == {"Succeeded", "Failed", "Cancelled"}

\* A status r that was told earlier, when the tasks have the statuses s.
Behind(r, s) ==
  /\ r.task_id \in TaskId
  /\ s[r.task_id] # "Absent"
  /\ TaskStateLabel(r.state) = "Running" => s[r.task_id] # "Queued"
  /\ TaskStateLabel(r.state) = "Failed" => s[r.task_id] \in Ended
  /\ TaskStateLabel(r.state) = "Succeeded" => s[r.task_id] = "Succeeded"
  /\ TaskStateLabel(r.state) = "Cancelled" => s[r.task_id] = "Cancelled"

\* The call of c is with the service.
InService(c) == c \in Places(waiters) \/ c \in Places(channel) \/ cancelling = c

Placed(c) ==
  /\ c \in Places(waiters) => c \notin Places(channel) /\ c # cancelling
  /\ c \in Places(channel) => c # cancelling
  /\ InService(c) => step[c] \in {"calling", "gone"}
  /\ InService(c) \/ step[c] = "calling" => /\ up
                                            /\ request[c].generation = generation
                                            /\ request[c].op # "None"
  /\ IF step[c] = "calling" THEN reply[c].kind # "none" <=> ~InService(c)
                            ELSE reply[c] = NoReply
  /\ request[c].generation <= generation
  /\ step[c] = "idle" => request[c].op = "None"
  /\ request[c].op \in {"GetTask", "CancelTask"} => request[c].task_id \in TaskId
  /\ request[c].op = "CancelTask" => command[c] = "cancel"
  /\ command[c] = "cancel" /\ step[c] # "failed" => request[c].op = "CancelTask"
  /\ step[c] = "sleeping" => command[c] = "run"
  /\ request[c].op = "StartTask" => command[c] = "run"
  /\ cancelling = c => /\ request[c].op = "CancelTask"
                       /\ status[request[c].task_id] = "Running"
                       /\ request[c].task_id \in requested

Fresh(c) ==
  \/ step[c] = "idle"
  \/ (c \in Places(waiters) \/ c \in Places(channel)) /\ request[c].op = "StartTask"
  => \A e \in started : e.client # c

Told(c) ==
  /\ step[c] = "sleeping" => view[c].task_id \in TaskId
  /\ step[c] = "reported" /\ command[c] = "run" => view[c].state \in {3, 4, 5}
  /\ up /\ request[c].generation = generation =>
       /\ reply[c].kind = "ok" => Behind(reply[c], status)
       /\ step[c] \in {"sleeping", "reported"} => Behind(view[c], status)
       /\ request[c].op = "CancelTask" /\ reply[c].kind = "ok" =>
            /\ reply[c].task_id = request[c].task_id
            /\ TaskStateLabel(reply[c].state) = "Running" => request[c].task_id \in requested
       /\ request[c].op = "CancelTask" /\ step[c] = "reported" =>
            /\ view[c].task_id = request[c].task_id
            /\ TaskStateLabel(view[c].state) = "Running" => request[c].task_id \in requested

Owns(c) ==
  \A e \in started :
    e.client = c /\ e.generation = generation /\ up =>
      /\ status[e.task_id] # "Absent"
      /\ command[c] = "run"
      /\ request[c].generation = generation
      /\ step[c] \in {"calling", "sleeping", "reported", "gone"}
      /\ step[c] = "calling" /\ request[c].op = "GetTask" => request[c].task_id = e.task_id
      /\ step[c] = "calling" /\ reply[c].kind # "none" =>
           reply[c].kind = "ok" /\ reply[c].task_id = e.task_id
      /\ step[c] \in {"sleeping", "reported"} => view[c].task_id = e.task_id

Good(c) == Placed(c) /\ Fresh(c) /\ Told(c) /\ Owns(c)

\* The tasks: only a task that failed may still report, and one whose cancellation
\* was requested while it ran does not succeed.
TasksSound ==
  /\ \A t \in lost : status[t] = "Failed"
  /\ \A t \in requested : status[t] \in {"Running", "Cancelled", "Failed"}

IInv ==
  /\ TypeOK
  /\ TasksSound
  /\ OneTaskPerRun
  /\ \A e \in started : e.generation <= generation
  /\ \A c \in Client : Good(c)

-----------------------------------------------------------------------------
(***************************************************************************)
(* Sequences without repetition.                                           *)
(***************************************************************************)

LEMMA WithoutFacts ==
  ASSUME NEW S, NEW q \in Seq(S), Distinct(q), NEW i \in DOMAIN q
  PROVE  /\ Without(q, i) \in Seq(S)
         /\ Distinct(Without(q, i))
         /\ Places(Without(q, i)) = Places(q) \ {q[i]}
<1> DEFINE n == Len(q)
<1>1. n \in Nat /\ DOMAIN q = 1..n /\ i \in 1..n
  OBVIOUS
<1>2. \A j \in 1..(n - 1) : (IF j < i THEN q[j] ELSE q[j + 1]) \in S
  BY <1>1
<1>3. Without(q, i) \in [1..(n - 1) -> S]
  BY <1>2 DEF Without
<1>4. Without(q, i) \in Seq(S) /\ DOMAIN Without(q, i) = 1..(n - 1)
  BY <1>1, <1>3
<1>5. \A j \in 1..(n - 1) : Without(q, i)[j] = IF j < i THEN q[j] ELSE q[j + 1]
  BY DEF Without
<1>6. Distinct(Without(q, i))
  <2> SUFFICES ASSUME NEW j \in 1..(n - 1), NEW k \in 1..(n - 1),
                      Without(q, i)[j] = Without(q, i)[k]
               PROVE  j = k
    BY <1>4 DEF Distinct
  <2> DEFINE at(m) == IF m < i THEN m ELSE m + 1
  <2>1. at(j) \in 1..n /\ at(k) \in 1..n
    BY <1>1
  <2>2. q[at(j)] = q[at(k)]
    BY <1>5
  <2>3. at(j) = at(k)
    BY <1>1, <2>1, <2>2 DEF Distinct
  <2> QED BY <1>1, <2>3
<1>7. ASSUME NEW x \in Places(Without(q, i))  PROVE x \in Places(q) \ {q[i]}
  BY <1>1, <1>4, <1>5 DEF Places, Distinct
<1>8. ASSUME NEW x \in Places(q) \ {q[i]}  PROVE x \in Places(Without(q, i))
  <2>1. PICK k \in 1..n : x = q[k]
    BY <1>1 DEF Places
  <2>2. k # i
    BY <1>8, <2>1
  <2>3. CASE k < i
    BY <1>1, <1>4, <1>5, <2>1, <2>3 DEF Places
  <2>4. CASE k > i
    <3>1. k - 1 \in 1..(n - 1) /\ ~(k - 1 < i) /\ (k - 1) + 1 = k
      BY <1>1, <2>4
    <3>2. Without(q, i)[k - 1] = x
      BY <1>5, <2>1, <3>1
    <3> QED BY <1>4, <3>1, <3>2 DEF Places
  <2> QED BY <1>1, <2>2, <2>3, <2>4
<1> QED BY <1>4, <1>6, <1>7, <1>8

LEMMA AppendFacts ==
  ASSUME NEW S, NEW q \in Seq(S), Distinct(q), NEW x \in S, x \notin Places(q)
  PROVE  /\ Append(q, x) \in Seq(S)
         /\ Distinct(Append(q, x))
         /\ Places(Append(q, x)) = Places(q) \cup {x}
         /\ Len(Append(q, x)) = Len(q) + 1
<1> DEFINE n == Len(q)
<1>1. n \in Nat /\ DOMAIN q = 1..n
  OBVIOUS
<1>2. /\ Append(q, x) \in Seq(S)
      /\ Len(Append(q, x)) = n + 1
      /\ DOMAIN Append(q, x) = 1..(n + 1)
      /\ Append(q, x)[n + 1] = x
      /\ \A j \in 1..n : Append(q, x)[j] = q[j]
  BY <1>1
<1>3. \A j \in 1..n : q[j] # x
  BY <1>1 DEF Places
<1>4. Distinct(Append(q, x))
  BY <1>1, <1>2, <1>3 DEF Distinct
<1>5. Places(Append(q, x)) = Places(q) \cup {x}
  BY <1>1, <1>2 DEF Places
<1> QED BY <1>2, <1>4, <1>5

LEMMA TailFacts ==
  ASSUME NEW S, NEW q \in Seq(S), Distinct(q), q # <<>>
  PROVE  /\ Head(q) \in S
         /\ Head(q) \in Places(q)
         /\ Tail(q) \in Seq(S)
         /\ Distinct(Tail(q))
         /\ Places(Tail(q)) = Places(q) \ {Head(q)}
         /\ Len(Tail(q)) = Len(q) - 1
<1> DEFINE n == Len(q)
<1>1. n \in Nat /\ n > 0 /\ DOMAIN q = 1..n /\ Head(q) = q[1] /\ q[1] \in S
  OBVIOUS
<1>2. /\ Tail(q) \in Seq(S)
      /\ Len(Tail(q)) = n - 1
      /\ DOMAIN Tail(q) = 1..(n - 1)
      /\ \A j \in 1..(n - 1) : Tail(q)[j] = q[j + 1]
  BY <1>1
<1>3. Distinct(Tail(q))
  BY <1>1, <1>2 DEF Distinct
<1>4. ASSUME NEW x \in Places(Tail(q))  PROVE x \in Places(q) \ {Head(q)}
  BY <1>1, <1>2 DEF Places, Distinct
<1>5. ASSUME NEW x \in Places(q) \ {Head(q)}  PROVE x \in Places(Tail(q))
  <2>1. PICK k \in 1..n : x = q[k]
    BY <1>1 DEF Places
  <2>2. k - 1 \in 1..(n - 1) /\ (k - 1) + 1 = k
    BY <1>1, <1>5, <2>1
  <2> QED BY <1>2, <2>1, <2>2 DEF Places
<1>6. Head(q) \in Places(q)
  BY <1>1 DEF Places
<1>7. Places(Tail(q)) = Places(q) \ {Head(q)}
  BY <1>4, <1>5
<1> QED BY <1>1, <1>2, <1>3, <1>6, <1>7

-----------------------------------------------------------------------------
(***************************************************************************)
(* The tasks.                                                              *)
(***************************************************************************)

TaskTypes == /\ status \in [TaskId -> Service!Status]
             /\ requested \subseteq TaskId /\ lost \subseteq TaskId

\* How the status of a task may change while its daemon lives.
Moves(s, s2) ==
  \A t \in TaskId :
    /\ s[t] # "Absent" => s2[t] # "Absent"
    /\ s[t] \notin {"Absent", "Queued"} => s2[t] \notin {"Absent", "Queued"}
    /\ s[t] \in Ended => s2[t] \in Ended
    /\ s[t] \in {"Succeeded", "Cancelled"} => s2[t] = s[t]

\* What holds after a step of the tasks.
TasksKept == /\ TaskTypes' /\ TasksSound'
             /\ Moves(status, status') /\ requested \subseteq requested'

LEMMA BehindKeeps ==
  ASSUME NEW s, NEW s2, NEW r, Behind(r, s), Moves(s, s2)
  PROVE  Behind(r, s2)
BY DEF Behind, Moves, Ended

LEMMA StartSomeFacts ==
  ASSUME NEW s, Service!StartSome(s)
  PROVE  /\ status' \in [TaskId -> Service!Status]
         /\ \A t \in TaskId : \/ status'[t] = s[t]
                              \/ s[t] = "Queued" /\ status'[t] = "Running"
BY DEF Service!StartSome

LEMMA SubmitKeeps ==
  ASSUME TaskTypes, TasksSound, NEW t \in TaskId, Service!Submit(t)
  PROVE  TasksKept /\ status'[t] \in {"Queued", "Running"}
<1> DEFINE s == [status EXCEPT ![t] = "Queued"]
<1>1. status[t] = "Absent" /\ requested' = requested /\ lost' = lost
  BY DEF Service!Submit
<1>2. s[t] = "Queued" /\ \A u \in TaskId \ {t} : s[u] = status[u]
  BY DEF TaskTypes
<1>3. /\ status' \in [TaskId -> Service!Status]
      /\ \A u \in TaskId : \/ status'[u] = s[u]
                           \/ s[u] = "Queued" /\ status'[u] = "Running"
  BY StartSomeFacts DEF Service!Submit
<1>4. t \notin requested /\ t \notin lost
  BY <1>1 DEF TasksSound
<1> HIDE DEF s
<1>5. Moves(status, status')
  BY <1>1, <1>2, <1>3 DEF Moves, Ended
<1>6. TasksSound'
  BY <1>1, <1>2, <1>3, <1>4 DEF TasksSound, TaskTypes
<1> QED BY <1>1, <1>2, <1>3, <1>5, <1>6 DEF TasksKept, TaskTypes

LEMMA CancelQueuedKeeps ==
  ASSUME TaskTypes, TasksSound, NEW t \in TaskId, Service!CancelQueued(t)
  PROVE  TasksKept /\ status'[t] = "Cancelled"
BY DEF Service!CancelQueued, TasksKept, TaskTypes, TasksSound, Moves, Ended, Service!Status

LEMMA RequestCancelKeeps ==
  ASSUME TaskTypes, TasksSound, NEW t \in TaskId, Service!RequestCancel(t)
  PROVE  TasksKept
BY DEF Service!RequestCancel, TasksKept, TaskTypes, TasksSound, Moves, Ended, Service!Status

LEMMA ReportKeeps ==
  ASSUME TaskTypes, TasksSound, NEW t \in TaskId, Service!Report(t)
  PROVE  TasksKept
<1>1. PICK verdict \in Service!Result(t) : Service!StartSome([status EXCEPT ![t] = verdict])
  BY DEF Service!Report
<1> DEFINE s == [status EXCEPT ![t] = verdict]
<1>2. /\ status[t] = "Running" \/ t \in lost
      /\ lost' = lost \ {t}
      /\ requested' = requested
  BY DEF Service!Report
<1>3. verdict \in Ended /\ (t \in requested => verdict = "Cancelled")
  BY DEF Service!Result, Ended
<1>4. status[t] \in {"Running", "Failed"}
  BY <1>2 DEF TasksSound
<1>5. s[t] = verdict /\ \A u \in TaskId \ {t} : s[u] = status[u]
  BY DEF TaskTypes
<1>6. /\ status' \in [TaskId -> Service!Status]
      /\ \A u \in TaskId : \/ status'[u] = s[u]
                           \/ s[u] = "Queued" /\ status'[u] = "Running"
  BY <1>1, StartSomeFacts
<1> HIDE DEF s
<1>7. Moves(status, status')
  BY <1>3, <1>4, <1>5, <1>6 DEF Moves, Ended
<1>8. TasksSound'
  BY <1>2, <1>3, <1>5, <1>6 DEF TasksSound, TaskTypes, Ended
<1> QED BY <1>2, <1>6, <1>7, <1>8 DEF TasksKept, TaskTypes

LEMMA GiveUpKeeps ==
  ASSUME TaskTypes, TasksSound, NEW t \in TaskId, Service!GiveUp(t)
  PROVE  TasksKept
BY DEF Service!GiveUp, TasksKept, TaskTypes, TasksSound, Moves, Ended, Service!Status

LEMMA StartKeeps ==
  ASSUME TaskTypes, TasksSound, Service!Start
  PROVE  TasksKept
<1>1. requested' = requested /\ lost' = lost
  BY DEF Service!Start
<1>2. /\ status' \in [TaskId -> Service!Status]
      /\ \A u \in TaskId : \/ status'[u] = status[u]
                           \/ status[u] = "Queued" /\ status'[u] = "Running"
  BY StartSomeFacts DEF Service!Start
<1> QED BY <1>1, <1>2 DEF TasksKept, TaskTypes, TasksSound, Moves, Ended

-----------------------------------------------------------------------------
(***************************************************************************)
(* The clients.  A step concerns at most one of them, unless the daemon    *)
(* ends or starts; the others stand aside.                                 *)
(***************************************************************************)

Aside(d) ==
  /\ command'[d] = command[d] /\ step'[d] = step[d] /\ request'[d] = request[d]
  /\ reply'[d] = reply[d] /\ view'[d] = view[d]
  /\ d \in Places(waiters') <=> d \in Places(waiters)
  /\ d \in Places(channel') <=> d \in Places(channel)
  /\ cancelling' = d <=> cancelling = d
  /\ up' = up /\ generation' = generation
  /\ \A e \in started' : e \in started \/ e.client # d
  /\ cancelling = d => status' = status

LEMMA AsideKeeps ==
  ASSUME NEW d \in Client, TypeOK, Good(d), Aside(d), TasksKept
  PROVE  Good(d)'
<1>1. Placed(d)'
  <2>1. Placed(d)
    BY DEF Good
  <2>2. InService(d)' <=> InService(d)
    BY DEF InService, Aside
  <2>3. requested \subseteq requested'
    BY DEF TasksKept
  <2> QED BY <2>1, <2>2, <2>3 DEF Placed, Aside
<1>2. Fresh(d)'
  BY DEF Good, Fresh, Aside
<1>3. Told(d)'
  <2>1. Told(d)
    BY DEF Good
  <2>2. requested \subseteq requested'
    BY DEF TasksKept
  <2>3. /\ Behind(reply[d], status) => Behind(reply[d], status')
        /\ Behind(view[d], status) => Behind(view[d], status')
    BY BehindKeeps DEF TasksKept
  <2> QED BY <2>1, <2>2, <2>3 DEF Told, Aside
<1>4. Owns(d)'
  <2> SUFFICES ASSUME NEW e \in started', e.client = d, e.generation = generation, up
               PROVE  /\ status'[e.task_id] # "Absent"
                      /\ command[d] = "run"
                      /\ request[d].generation = generation
                      /\ step[d] \in {"calling", "sleeping", "reported", "gone"}
                      /\ step[d] = "calling" /\ request[d].op = "GetTask" =>
                           request[d].task_id = e.task_id
                      /\ step[d] = "calling" /\ reply[d].kind # "none" =>
                           reply[d].kind = "ok" /\ reply[d].task_id = e.task_id
                      /\ step[d] \in {"sleeping", "reported"} => view[d].task_id = e.task_id
    BY DEF Owns, Aside
  <2>1. e \in started /\ e.task_id \in TaskId
    BY DEF Aside, TypeOK
  <2>2. status[e.task_id] # "Absent" => status'[e.task_id] # "Absent"
    BY <2>1 DEF TasksKept, Moves
  <2>3. Owns(d)
    BY DEF Good
  <2> QED BY <2>1, <2>2, <2>3 DEF Owns
<1> QED BY <1>1, <1>2, <1>3, <1>4 DEF Good

LEMMA SameTasks ==
  ASSUME TypeOK, TasksSound, UNCHANGED taskVars
  PROVE  TasksKept
BY DEF taskVars, TasksKept, TaskTypes, TypeOK, TasksSound, Moves

\* A call: c, which is nowhere in the service, joins those that wait for room.
LEMMA CallKeeps ==
  ASSUME IInv, NEW c \in Client, NEW op \in {"StartTask", "GetTask", "CancelTask"},
         NEW t \in TaskId \cup {None},
         step[c] \in {"idle", "sleeping"},
         \A d \in Client : d # c => command'[d] = command[d],
         Call(c, op, t)
  PROVE  /\ \A d \in Client : d # c => Good(d)'
         /\ ~InService(c)
         /\ waiters' \in Seq(Client) /\ Distinct(waiters')
         /\ up => Places(waiters') = Places(waiters) \cup {c}
         /\ TasksKept
<1>1. ~InService(c)
  BY DEF IInv, Good, Placed
<1>2. waiters \in Seq(Client) /\ Distinct(waiters)
  BY DEF IInv, TypeOK
<1>3. /\ waiters' \in Seq(Client) /\ Distinct(waiters')
      /\ up => Places(waiters') = Places(waiters) \cup {c}
      /\ ~up => waiters' = waiters
  <2>1. c \notin Places(waiters)
    BY <1>1 DEF InService
  <2>2. CASE up
    <3>1. waiters' = Append(waiters, c)
      BY <2>2 DEF Call
    <3> QED BY <1>2, <2>1, <2>2, <3>1, AppendFacts
  <2>3. CASE ~up
    BY <1>2, <2>3 DEF Call
  <2> QED BY <2>2, <2>3
<1>4. TasksKept
  BY SameTasks DEF IInv, Call
<1>5. ASSUME NEW d \in Client, d # c  PROVE Good(d)'
  <2>1. TypeOK /\ Good(d)
    BY DEF IInv
  <2>2. d \in Places(waiters') <=> d \in Places(waiters)
    BY <1>3, <1>5
  <2>3. /\ step'[d] = step[d] /\ request'[d] = request[d] /\ reply'[d] = reply[d]
        /\ view'[d] = view[d]
    BY <1>5, <2>1 DEF Call, TypeOK
  <2>4. Aside(d)
    BY <1>5, <2>2, <2>3 DEF Aside, Call, taskVars, daemonVars
  <2> QED BY <1>4, <2>1, <2>4, AsideKeeps
<1> QED BY <1>1, <1>3, <1>4, <1>5

\* What an action must show when it concerns one client, c.
LEMMA FromParts ==
  ASSUME IInv, NEW c \in Client, TypeOK', TasksKept, generation' = generation,
         OneTaskPerRun', \A e \in started' : e \in started \/ e.generation = generation,
         \A d \in Client : d # c => Good(d)',
         Placed(c)', Fresh(c)', Told(c)', Owns(c)'
  PROVE  IInv'
<1>1. \A d \in Client : Good(d)'
  BY DEF Good
<1>2. \A e \in started' : e.generation <= generation'
  BY DEF IInv, TypeOK
<1> QED BY <1>1, <1>2 DEF IInv, TasksKept

LEMMA ExecuteKeeps ==
  ASSUME IInv, NEW c \in Client, NEW name, NEW op, NEW t,
         \/ name = "run" /\ op = "StartTask" /\ t = None
         \/ name = "cancel" /\ op = "CancelTask" /\ t \in TaskId
         \/ name = "task-status" /\ op = "GetTask" /\ t \in TaskId,
         Execute(c, name, op, t)
  PROVE  IInv'
<1>1. /\ step[c] = "idle" /\ Call(c, op, t)
      /\ command' = [command EXCEPT ![c] = name]
  BY DEF Execute
<1>2. /\ op \in {"StartTask", "GetTask", "CancelTask"}
      /\ t \in TaskId \cup {None}
      /\ name \in {"run", "cancel", "task-status"}
  OBVIOUS
<1>3. TypeOK /\ Good(c) /\ OneTaskPerRun
  BY DEF IInv
<1>4. \A d \in Client : d # c => command'[d] = command[d]
  BY <1>1, <1>3 DEF TypeOK
<1>5. /\ \A d \in Client : d # c => Good(d)'
      /\ ~InService(c)
      /\ waiters' \in Seq(Client) /\ Distinct(waiters')
      /\ up => Places(waiters') = Places(waiters) \cup {c}
      /\ TasksKept
  BY <1>1, <1>2, <1>4, CallKeeps
<1>6. /\ reply' = reply /\ channel' = channel /\ cancelling' = cancelling
      /\ up' = up /\ generation' = generation /\ started' = started
      /\ status' = status /\ requested' = requested /\ lost' = lost
  BY <1>1 DEF Call, taskVars, daemonVars
<1>7. /\ reply[c] = NoReply /\ \A e \in started : e.client # c
      /\ request[c].op = "None" /\ request[c].generation <= generation
  BY <1>1, <1>3 DEF Good, Placed, Fresh
<1>8. command'[c] = name
  BY <1>1, <1>3 DEF TypeOK
<1>9. CASE up
  <2> DEFINE r == [op |-> op, task_id |-> t, generation |-> generation]
  <2>1. /\ step' = [step EXCEPT ![c] = "calling"]
        /\ request' = [request EXCEPT ![c] = r]
        /\ view' = view
    BY <1>1, <1>9 DEF Call
  <2>2. r \in Request /\ r.op = op /\ r.task_id = t /\ r.generation = generation
    BY <1>2, <1>3, TaskClientsBounds DEF Request, TypeOK
  <2> HIDE DEF r
  <2>3. step'[c] = "calling" /\ request'[c] = r
    BY <1>3, <2>1 DEF TypeOK
  <2>4. TypeOK'
    BY <1>1, <1>2, <1>3, <1>5, <1>6, <2>1, <2>2 DEF TypeOK
  <2>5. Placed(c)'
    BY <1>2, <1>3, <1>5, <1>6, <1>7, <1>8, <1>9, <2>2, <2>3
       DEF Placed, InService, NoReply, TypeOK
  <2>6. Fresh(c)' /\ Owns(c)'
    BY <1>6, <1>7 DEF Fresh, Owns
  <2>7. Told(c)'
    BY <1>6, <1>7, <2>3 DEF Told, NoReply
  <2> QED BY <1>3, <1>5, <1>6, <2>4, <2>5, <2>6, <2>7, FromParts DEF OneTaskPerRun
<1>10. CASE ~up
  <2>1. /\ step' = [step EXCEPT ![c] = "failed"]
        /\ view' = [view EXCEPT ![c] = NoReply]
        /\ request' = request /\ waiters' = waiters
    BY <1>1, <1>10 DEF Call
  <2>2. step'[c] = "failed"
    BY <1>3, <2>1 DEF TypeOK
  <2>3. NoReply \in Reply
    BY DEF NoReply, Reply
  <2>4. TypeOK'
    BY <1>1, <1>2, <1>3, <1>6, <2>1, <2>3 DEF TypeOK
  <2>5. Placed(c)'
    BY <1>5, <1>6, <1>7, <2>1, <2>2, <1>10 DEF Placed, InService
  <2>6. Fresh(c)' /\ Told(c)' /\ Owns(c)'
    BY <1>6, <1>7, <1>10, <2>2 DEF Fresh, Told, Owns
  <2> QED BY <1>3, <1>5, <1>6, <2>4, <2>5, <2>6, FromParts DEF OneTaskPerRun
<1> QED BY <1>9, <1>10

LEMMA PollKeeps ==
  ASSUME IInv, NEW c \in Client, Poll(c)
  PROVE  IInv'
<1> DEFINE t == view[c].task_id
<1>1. step[c] = "sleeping" /\ Call(c, "GetTask", t) /\ command' = command
  BY DEF Poll
<1>2. TypeOK /\ Good(c) /\ OneTaskPerRun
  BY DEF IInv
<1>3. t \in TaskId /\ t \in TaskId \cup {None}
  BY <1>1, <1>2 DEF Good, Told
<1> HIDE DEF t
<1>4. /\ \A d \in Client : d # c => Good(d)'
      /\ ~InService(c)
      /\ waiters' \in Seq(Client) /\ Distinct(waiters')
      /\ up => Places(waiters') = Places(waiters) \cup {c}
      /\ TasksKept
  BY <1>1, <1>3, CallKeeps
<1>5. /\ reply' = reply /\ channel' = channel /\ cancelling' = cancelling
      /\ up' = up /\ generation' = generation /\ started' = started
      /\ status' = status /\ requested' = requested /\ lost' = lost
  BY <1>1 DEF Call, taskVars, daemonVars
<1>6. /\ reply[c] = NoReply /\ Placed(c)
      /\ request[c].generation <= generation
  BY <1>1, <1>2 DEF Good, Placed
<1>7. CASE up
  <2> DEFINE r == [op |-> "GetTask", task_id |-> t, generation |-> generation]
  <2>1. /\ step' = [step EXCEPT ![c] = "calling"]
        /\ request' = [request EXCEPT ![c] = r]
        /\ view' = view
    BY <1>1, <1>7 DEF Call
  <2>2. r \in Request /\ r.op = "GetTask" /\ r.task_id = t /\ r.generation = generation
    BY <1>2, <1>3, TaskClientsBounds DEF Request, TypeOK
  <2> HIDE DEF r
  <2>3. step'[c] = "calling" /\ request'[c] = r
    BY <1>2, <2>1 DEF TypeOK
  <2>4. TypeOK'
    BY <1>1, <1>2, <1>4, <1>5, <2>1, <2>2 DEF TypeOK
  <2>5. Placed(c)'
    BY <1>1, <1>2, <1>3, <1>4, <1>5, <1>6, <1>7, <2>2, <2>3
       DEF Placed, InService, NoReply, TypeOK
  <2>6. Fresh(c)' /\ Told(c)'
    BY <1>5, <1>6, <2>2, <2>3 DEF Fresh, Told, NoReply
  <2>7. Owns(c)'
    <3>1. Owns(c)
      BY <1>2 DEF Good
    <3> QED BY <1>1, <1>5, <1>6, <2>2, <2>3, <3>1 DEF Owns, t, NoReply
  <2> QED BY <1>2, <1>4, <1>5, <2>4, <2>5, <2>6, <2>7, FromParts DEF OneTaskPerRun
<1>8. CASE ~up
  <2>1. /\ step' = [step EXCEPT ![c] = "failed"]
        /\ view' = [view EXCEPT ![c] = NoReply]
        /\ request' = request /\ waiters' = waiters
    BY <1>1, <1>8 DEF Call
  <2>2. step'[c] = "failed"
    BY <1>2, <2>1 DEF TypeOK
  <2>3. NoReply \in Reply
    BY DEF NoReply, Reply
  <2>4. TypeOK'
    BY <1>1, <1>2, <1>5, <2>1, <2>3 DEF TypeOK
  <2>5. Placed(c)'
    BY <1>1, <1>4, <1>5, <1>6, <2>1, <2>2, <1>8 DEF Placed, InService
  <2>6. Fresh(c)' /\ Told(c)' /\ Owns(c)'
    BY <1>4, <1>5, <1>8, <2>1, <2>2 DEF Fresh, Told, Owns, InService
  <2> QED BY <1>2, <1>4, <1>5, <2>4, <2>5, <2>6, FromParts DEF OneTaskPerRun
<1> QED BY <1>7, <1>8

\* Steps that concern a client alone leave the others as they are.
LEMMA OthersAside ==
  ASSUME IInv, NEW c \in Client, TasksKept,
         \A d \in Client : d # c => /\ command'[d] = command[d] /\ step'[d] = step[d]
                                    /\ request'[d] = request[d] /\ reply'[d] = reply[d]
                                    /\ view'[d] = view[d],
         Places(waiters') \ {c} = Places(waiters) \ {c},
         Places(channel') \ {c} = Places(channel) \ {c},
         cancelling' = cancelling \/ {cancelling, cancelling'} \subseteq {c, NoClient},
         up' = up /\ generation' = generation,
         \A e \in started' : e \in started \/ e.client = c,
         cancelling = NoClient \/ status' = status
  PROVE  \A d \in Client : d # c => Good(d)'
<1> SUFFICES ASSUME NEW d \in Client, d # c  PROVE Good(d)'
  OBVIOUS
<1>1. cancelling' = d <=> cancelling = d
  BY ClientAssumption
<1>2. Aside(d)
  BY <1>1, ClientAssumption DEF Aside
<1> QED BY <1>2, AsideKeeps DEF IInv

LEMMA ReadKeeps ==
  ASSUME IInv, NEW c \in Client, Read(c)
  PROVE  IInv'
<1> DEFINE r == reply[c]
<1>1. /\ step[c] = "calling" /\ r.kind # "none"
      /\ reply' = [reply EXCEPT ![c] = NoReply]
      /\ command' = command /\ request' = request /\ waiters' = waiters /\ channel' = channel
      /\ cancelling' = cancelling /\ up' = up /\ generation' = generation /\ started' = started
      /\ status' = status /\ requested' = requested /\ lost' = lost
  BY DEF Read, channelVars, taskVars, daemonVars
<1>2. TypeOK /\ OneTaskPerRun /\ Placed(c) /\ Fresh(c) /\ Told(c) /\ Owns(c)
  BY DEF IInv, Good
<1>3. ~InService(c) /\ up /\ request[c].generation = generation
  BY <1>1, <1>2 DEF Placed
<1>4. PICK s \in {"failed", "reported", "sleeping"}, v \in Reply :
        /\ step' = [step EXCEPT ![c] = s]
        /\ view' = [view EXCEPT ![c] = v]
        /\ s # "failed" => v = r /\ r.kind = "ok"
        /\ s = "reported" => command[c] # "run" \/ IsTerminalTaskState(r.state)
        /\ s = "sleeping" => command[c] = "run"
        /\ s = "failed" => r.kind = "error"
  <2>1. NoReply \in Reply /\ r \in Reply
    BY <1>2 DEF NoReply, Reply, TypeOK
  <2>2. CASE r.kind = "error"
    BY <2>1, <2>2 DEF Read
  <2>3. CASE r.kind = "ok" /\ (command[c] # "run" \/ IsTerminalTaskState(r.state))
    <3>1. step' = [step EXCEPT ![c] = "reported"] /\ view' = [view EXCEPT ![c] = r]
      BY <2>3 DEF Read
    <3> QED BY <2>1, <2>3, <3>1
  <2>4. CASE r.kind = "ok" /\ ~(command[c] # "run" \/ IsTerminalTaskState(r.state))
    <3>1. step' = [step EXCEPT ![c] = "sleeping"] /\ view' = [view EXCEPT ![c] = r]
      BY <2>4 DEF Read
    <3> QED BY <2>1, <2>4, <3>1
  <2>5. r.kind \in {"ok", "error"}
    BY <1>1, <2>1 DEF Reply
  <2> QED BY <2>2, <2>3, <2>4, <2>5
<1> HIDE DEF r
<1>5. step'[c] = s /\ view'[c] = v /\ reply'[c] = NoReply
  BY <1>1, <1>2, <1>4 DEF TypeOK
<1>6. TasksKept
  BY <1>1, SameTasks DEF IInv, taskVars
<1>7. \A d \in Client : d # c => Good(d)'
  <2>1. \A d \in Client : d # c => /\ command'[d] = command[d] /\ step'[d] = step[d]
                                   /\ request'[d] = request[d] /\ reply'[d] = reply[d]
                                   /\ view'[d] = view[d]
    BY <1>1, <1>2, <1>4 DEF TypeOK
  <2> QED BY <1>1, <1>6, <2>1, OthersAside
<1>8. TypeOK'
  <2>1. NoReply \in Reply
    BY DEF NoReply, Reply
  <2> QED BY <1>1, <1>2, <1>4, <2>1 DEF TypeOK
<1>9. Placed(c)'
  BY <1>1, <1>2, <1>3, <1>4, <1>5 DEF Placed, InService
<1>10. Fresh(c)'
  BY <1>1, <1>3, <1>5 DEF Fresh, InService
<1>11. r.kind = "ok" => Behind(r, status)
  BY <1>2, <1>3 DEF Told, r
<1>12. Told(c)'
  <2>1. s = "sleeping" => v.task_id \in TaskId
    BY <1>4, <1>11 DEF Behind
  <2>2. s = "reported" /\ command[c] = "run" => v.state \in {3, 4, 5}
    BY <1>4 DEF IsTerminalTaskState
  <2>3. s \in {"sleeping", "reported"} => Behind(v, status)
    BY <1>4, <1>11
  <2>4. request[c].op = "CancelTask" /\ s = "reported" =>
          /\ v.task_id = request[c].task_id
          /\ TaskStateLabel(v.state) = "Running" => request[c].task_id \in requested
    BY <1>2, <1>3, <1>4 DEF Told, r
  <2> QED BY <1>1, <1>5, <2>1, <2>2, <2>3, <2>4 DEF Told, NoReply
<1>13. Owns(c)'
  BY <1>1, <1>2, <1>3, <1>4, <1>5 DEF Owns, r
<1> QED BY <1>1, <1>2, <1>6, <1>7, <1>8, <1>9, <1>10, <1>12, <1>13, FromParts
        DEF OneTaskPerRun

LEMMA InterruptKeeps ==
  ASSUME IInv, NEW c \in Client, Interrupt(c)
  PROVE  IInv'
<1>1. /\ step[c] \in {"calling", "sleeping"}
      /\ step' = [step EXCEPT ![c] = "gone"]
      /\ reply' = [reply EXCEPT ![c] = NoReply]
      /\ view' = [view EXCEPT ![c] = NoReply]
      /\ command' = command /\ request' = request /\ waiters' = waiters /\ channel' = channel
      /\ cancelling' = cancelling /\ up' = up /\ generation' = generation /\ started' = started
      /\ status' = status /\ requested' = requested /\ lost' = lost
  BY DEF Interrupt, channelVars, taskVars, daemonVars
<1>2. TypeOK /\ OneTaskPerRun /\ Placed(c) /\ Fresh(c) /\ Told(c) /\ Owns(c)
  BY DEF IInv, Good
<1>3. step'[c] = "gone" /\ reply'[c] = NoReply
  BY <1>1, <1>2 DEF TypeOK
<1>4. TasksKept
  BY <1>1, SameTasks DEF IInv, taskVars
<1>5. \A d \in Client : d # c => Good(d)'
  <2>1. \A d \in Client : d # c => /\ command'[d] = command[d] /\ step'[d] = step[d]
                                   /\ request'[d] = request[d] /\ reply'[d] = reply[d]
                                   /\ view'[d] = view[d]
    BY <1>1, <1>2 DEF TypeOK
  <2> QED BY <1>1, <1>4, <2>1, OthersAside
<1>6. TypeOK'
  <2>1. NoReply \in Reply
    BY DEF NoReply, Reply
  <2> QED BY <1>1, <1>2, <2>1 DEF TypeOK
<1>7. Placed(c)'
  BY <1>1, <1>2, <1>3 DEF Placed, InService
<1>8. Fresh(c)'
  BY <1>1, <1>2, <1>3 DEF Fresh
<1>9. Told(c)'
  BY <1>1, <1>3 DEF Told, NoReply
<1>10. Owns(c)'
  BY <1>1, <1>2, <1>3 DEF Owns
<1> QED BY <1>1, <1>2, <1>4, <1>5, <1>6, <1>7, <1>8, <1>9, <1>10, FromParts DEF OneTaskPerRun

LEMMA PushKeeps ==
  ASSUME IInv, NEW c \in Client, Push(c)
  PROVE  IInv'
<1>1. /\ channel' = Append(channel, c)
      /\ command' = command /\ step' = step /\ request' = request /\ reply' = reply
      /\ view' = view
      /\ cancelling' = cancelling /\ up' = up /\ generation' = generation /\ started' = started
      /\ status' = status /\ requested' = requested /\ lost' = lost
  BY DEF Push, clientVars, taskVars, daemonVars
<1>2. TypeOK /\ OneTaskPerRun /\ Placed(c) /\ Fresh(c) /\ Told(c) /\ Owns(c)
  BY DEF IInv, Good
<1>3. PICK i \in DOMAIN waiters : /\ waiters[i] = c
                                  /\ i + Len(channel) <= Capacity
                                  /\ waiters' = Without(waiters, i)
  BY DEF Push
<1>4. /\ waiters' \in Seq(Client) /\ Distinct(waiters')
      /\ Places(waiters') = Places(waiters) \ {c}
  <2>1. waiters \in Seq(Client) /\ Distinct(waiters)
    BY <1>2 DEF TypeOK
  <2> QED BY <1>3, <2>1, WithoutFacts
<1>5. c \in Places(waiters) /\ c \notin Places(channel) /\ c # cancelling
  BY <1>2, <1>3 DEF Placed, Places
<1>6. /\ channel' \in Seq(Client) /\ Distinct(channel')
      /\ Places(channel') = Places(channel) \cup {c}
      /\ Len(channel') <= Capacity
  <2>1. channel \in Seq(Client) /\ Distinct(channel) /\ waiters \in Seq(Client)
    BY <1>2 DEF TypeOK
  <2>2. Len(channel') = Len(channel) + 1
    BY <1>1, <1>5, <2>1, AppendFacts
  <2>3. i \in Nat /\ i >= 1 /\ Len(channel) \in Nat
    BY <2>1
  <2>4. Len(channel') <= Capacity
    BY <1>3, <2>2, <2>3, CapacityAssumption
  <2> QED BY <1>1, <1>5, <2>1, <2>4, AppendFacts
<1>7. TasksKept
  BY <1>1, SameTasks DEF IInv, taskVars
<1>8. \A d \in Client : d # c => Good(d)'
  <2>1. \A d \in Client : d # c => /\ command'[d] = command[d] /\ step'[d] = step[d]
                                   /\ request'[d] = request[d] /\ reply'[d] = reply[d]
                                   /\ view'[d] = view[d]
    BY <1>1
  <2>2. /\ Places(waiters') \ {c} = Places(waiters) \ {c}
        /\ Places(channel') \ {c} = Places(channel) \ {c}
    BY <1>4, <1>6
  <2> QED BY <1>1, <1>7, <2>1, <2>2, OthersAside
<1>9. TypeOK'
  BY <1>1, <1>2, <1>4, <1>6 DEF TypeOK
<1>10. c \notin Places(waiters') /\ c \in Places(channel')
  BY <1>4, <1>6
<1>11. Placed(c)'
  <2>1. InService(c) /\ InService(c)'
    BY <1>5, <1>10 DEF InService
  <2> QED BY <1>1, <1>2, <1>5, <1>10, <2>1 DEF Placed
<1>12. Fresh(c)'
  BY <1>1, <1>2, <1>5 DEF Fresh
<1>13. Told(c)'
  BY <1>1, <1>2 DEF Told
<1>14. Owns(c)'
  BY <1>1, <1>2 DEF Owns
<1> QED BY <1>1, <1>2, <1>7, <1>8, <1>9, <1>11, <1>12, <1>13, <1>14, FromParts
        DEF OneTaskPerRun

LEMMA DropHandlerKeeps ==
  ASSUME IInv, NEW c \in Client, DropHandler(c)
  PROVE  IInv'
<1>1. /\ step[c] = "gone"
      /\ command' = command /\ step' = step /\ request' = request /\ reply' = reply
      /\ view' = view /\ channel' = channel
      /\ cancelling' = cancelling /\ up' = up /\ generation' = generation /\ started' = started
      /\ status' = status /\ requested' = requested /\ lost' = lost
  BY DEF DropHandler, clientVars, taskVars, daemonVars
<1>2. TypeOK /\ OneTaskPerRun /\ Placed(c) /\ Fresh(c) /\ Told(c) /\ Owns(c)
  BY DEF IInv, Good
<1>3. PICK i \in DOMAIN waiters : waiters[i] = c /\ waiters' = Without(waiters, i)
  BY DEF DropHandler
<1>4. /\ waiters' \in Seq(Client) /\ Distinct(waiters')
      /\ Places(waiters') = Places(waiters) \ {c}
  <2>1. waiters \in Seq(Client) /\ Distinct(waiters)
    BY <1>2 DEF TypeOK
  <2> QED BY <1>3, <2>1, WithoutFacts
<1>5. TasksKept
  BY <1>1, SameTasks DEF IInv, taskVars
<1>6. \A d \in Client : d # c => Good(d)'
  <2>1. \A d \in Client : d # c => /\ command'[d] = command[d] /\ step'[d] = step[d]
                                   /\ request'[d] = request[d] /\ reply'[d] = reply[d]
                                   /\ view'[d] = view[d]
    BY <1>1
  <2>2. Places(waiters') \ {c} = Places(waiters) \ {c}
    BY <1>4
  <2> QED BY <1>1, <1>5, <2>1, <2>2, OthersAside
<1>7. TypeOK'
  BY <1>1, <1>2, <1>4 DEF TypeOK
<1>8. Placed(c)'
  <2>1. InService(c)' => InService(c)
    BY <1>1, <1>4 DEF InService
  <2>2. c \notin Places(waiters')
    BY <1>4
  <2> QED BY <1>1, <1>2, <2>1, <2>2 DEF Placed
<1>9. Fresh(c)'
  BY <1>1, <1>2, <1>4 DEF Fresh
<1>10. Told(c)'
  BY <1>1, <1>2 DEF Told
<1>11. Owns(c)'
  BY <1>1, <1>2 DEF Owns
<1> QED BY <1>1, <1>2, <1>5, <1>6, <1>7, <1>8, <1>9, <1>10, <1>11, FromParts
        DEF OneTaskPerRun

-----------------------------------------------------------------------------
(***************************************************************************)
(* The actor.                                                              *)
(***************************************************************************)

LEMMA RespondFacts ==
  ASSUME TypeOK, NEW c \in Client, NEW r \in Reply, Respond(c, r)
  PROVE  /\ reply' \in [Client -> Reply]
         /\ \A d \in Client : d # c => reply'[d] = reply[d]
         /\ step[c] = "calling" => reply'[c] = r
         /\ step[c] # "calling" => reply'[c] = NoReply
<1>1. NoReply \in Reply
  BY DEF NoReply, Reply
<1> QED BY <1>1 DEF Respond, TypeOK

LEMMA StatusReplyFacts ==
  ASSUME NEW t \in TaskId, NEW s, s[t] \in Service!Status, s[t] # "Absent"
  PROVE  /\ StatusReply(t, s) \in Reply
         /\ StatusReply(t, s).kind = "ok"
         /\ StatusReply(t, s).task_id = t
         /\ TaskStateLabel(StatusReply(t, s).state) = s[t]
         /\ Behind(StatusReply(t, s), s)
<1>1. /\ ToProtoTaskState(s[t]) \in 1..5
      /\ TaskStateLabel(ToProtoTaskState(s[t])) = s[t]
  BY DEF ToProtoTaskState, TaskStateLabel, Service!Status
<1> DEFINE n == ToProtoTaskState(s[t])
<1>2. n \in 0..5 /\ TaskStateLabel(n) = s[t]
  BY <1>1
<1> HIDE DEF n
<1>3. /\ StatusReply(t, s) \in Reply
      /\ StatusReply(t, s).kind = "ok"
      /\ StatusReply(t, s).task_id = t
      /\ StatusReply(t, s).state = n
  BY <1>2 DEF StatusReply, Reply, n
<1> QED BY <1>2, <1>3 DEF Behind, Ended

LEMMA FailureFacts == Failure \in Reply /\ Failure.kind = "error"
BY DEF Failure, Reply

\* The actor takes the oldest command out of the channel.
TakesFrom(c) ==
  /\ cancelling = NoClient
  /\ c \in Client /\ c \in Places(channel)
  /\ channel' \in Seq(Client) /\ Distinct(channel') /\ Len(channel') <= Capacity
  /\ Places(channel') = Places(channel) \ {c}
  /\ command' = command /\ step' = step /\ request' = request /\ view' = view
  /\ waiters' = waiters /\ up' = up /\ generation' = generation

LEMMA TakesFacts ==
  ASSUME IInv, NEW c \in Client, TakesFrom(c)
  PROVE  /\ TypeOK /\ OneTaskPerRun /\ Placed(c) /\ Fresh(c) /\ Told(c) /\ Owns(c)
         /\ c \notin Places(waiters) /\ c \notin Places(channel')
         /\ up /\ request[c].generation = generation
         /\ step[c] \in {"calling", "gone"}
<1>1. /\ TypeOK /\ OneTaskPerRun /\ Placed(c) /\ Fresh(c) /\ Told(c) /\ Owns(c)
  BY DEF IInv, Good
<1> QED BY <1>1 DEF Placed, InService, TakesFrom

\* What the handling of a command must show.
LEMMA HandledFromParts ==
  ASSUME IInv, NEW c \in Client, TakesFrom(c), TasksKept,
         reply' \in [Client -> Reply], \A d \in Client : d # c => reply'[d] = reply[d],
         cancelling' \in {c, NoClient},
         started' \subseteq [client : Client, generation : 1..(MaxRestarts + 1), task_id : TaskId],
         \A e \in started' : \/ e \in started
                             \/ e.client = c /\ e.generation = generation,
         OneTaskPerRun',
         Placed(c)', Told(c)', Owns(c)'
  PROVE  IInv'
<1>1. TypeOK'
  BY DEF IInv, TypeOK, TakesFrom, TasksKept, TaskTypes
<1>2. \A d \in Client : d # c => Good(d)'
  <2>1. \A d \in Client : d # c => /\ command'[d] = command[d] /\ step'[d] = step[d]
                                   /\ request'[d] = request[d] /\ reply'[d] = reply[d]
                                   /\ view'[d] = view[d]
    BY DEF TakesFrom
  <2>2. Places(channel') \ {c} = Places(channel) \ {c}
    BY DEF TakesFrom
  <2> QED BY <2>1, <2>2, OthersAside DEF TakesFrom
<1>3. Fresh(c)'
  BY TakesFacts DEF Fresh, TakesFrom
<1> QED BY <1>1, <1>2, <1>3, FromParts DEF TakesFrom

LEMMA StartTaskKeeps ==
  ASSUME IInv, NEW c \in Client, TakesFrom(c), request[c].op = "StartTask", StartTask(c)
  PROVE  IInv'
<1>1. /\ TypeOK /\ OneTaskPerRun /\ Placed(c) /\ Fresh(c)
      /\ c \notin Places(waiters) /\ c \notin Places(channel')
      /\ up /\ request[c].generation = generation
      /\ step[c] \in {"calling", "gone"}
  BY TakesFacts
<1>2. \A e \in started : e.client # c
  BY <1>1 DEF Fresh, TakesFrom
<1> DEFINE new(t) == [client |-> c, generation |-> generation, task_id |-> t]
<1>3. PICK t \in TaskId : /\ Service!Submit(t)
                          /\ started' = started \cup {new(t)}
                          /\ Respond(c, StatusReply(t, status'))
  BY DEF StartTask
<1> DEFINE e0 == new(t)
           r  == StatusReply(t, status')
<1>4. /\ e0 \in [client : Client, generation : 1..(MaxRestarts + 1), task_id : TaskId]
      /\ e0.client = c /\ e0.generation = generation /\ e0.task_id = t
  BY <1>1 DEF TypeOK
<1>5. started' = started \cup {e0}
  BY <1>3
<1> HIDE DEF e0
<1>6. TasksKept /\ status'[t] \in {"Queued", "Running"}
  BY <1>1, <1>3, SubmitKeeps DEF IInv, TypeOK, TaskTypes
<1>7. status'[t] \in Service!Status /\ status'[t] # "Absent"
  BY <1>6 DEF Service!Status
<1>8. /\ r \in Reply /\ r.kind = "ok" /\ r.task_id = t
      /\ TaskStateLabel(r.state) = status'[t] /\ Behind(r, status')
  BY <1>7, StatusReplyFacts
<1>9. Respond(c, r)
  BY <1>3
<1> HIDE DEF r
<1>10. /\ reply' \in [Client -> Reply]
       /\ \A d \in Client : d # c => reply'[d] = reply[d]
       /\ step[c] = "calling" => reply'[c] = r
       /\ step[c] # "calling" => reply'[c] = NoReply
  BY <1>1, <1>8, <1>9, RespondFacts
<1>11. cancelling' = cancelling
  BY DEF StartTask
<1>12. OneTaskPerRun'
  BY <1>1, <1>2, <1>4, <1>5 DEF OneTaskPerRun
<1>13. Placed(c)'
  BY <1>1, <1>8, <1>10, <1>11, ClientAssumption DEF Placed, InService, TakesFrom
<1>14. Told(c)'
  BY <1>1, <1>8, <1>10 DEF Told, TakesFrom, NoReply
<1>15. Owns(c)'
  <2> SUFFICES ASSUME NEW e \in started', e.client = c
               PROVE  /\ status'[e.task_id] # "Absent"
                      /\ command'[c] = "run"
                      /\ request'[c].generation = generation'
                      /\ step'[c] \in {"calling", "gone"}
                      /\ request'[c].op = "StartTask"
                      /\ step'[c] = "calling" => reply'[c].kind = "ok" /\ reply'[c].task_id = e.task_id
    BY DEF Owns
  <2>1. e = e0
    BY <1>2, <1>5
  <2> QED BY <1>1, <1>4, <1>7, <1>8, <1>10, <2>1 DEF Placed, TakesFrom
<1>16. started' \subseteq [client : Client, generation : 1..(MaxRestarts + 1), task_id : TaskId]
  BY <1>1, <1>4, <1>5 DEF TypeOK
<1>17. \A e \in started' : e \in started \/ (e.client = c /\ e.generation = generation)
  BY <1>4, <1>5
<1>18. cancelling' \in {c, NoClient}
  BY <1>11 DEF TakesFrom
<1> QED BY <1>6, <1>10, <1>12, <1>13, <1>14, <1>15, <1>16, <1>17, <1>18, HandledFromParts

LEMMA LookKeeps ==
  ASSUME IInv, NEW c \in Client, TakesFrom(c),
         NEW t \in TaskId, t = request[c].task_id,
         \/ request[c].op = "GetTask"
         \/ request[c].op = "CancelTask" /\ status[t] \notin {"Queued", "Running"},
         Look(c, t)
  PROVE  IInv'
<1>1. /\ TypeOK /\ OneTaskPerRun /\ Placed(c) /\ Owns(c)
      /\ c \notin Places(waiters) /\ c \notin Places(channel')
      /\ up /\ request[c].generation = generation
      /\ step[c] \in {"calling", "gone"}
  BY TakesFacts
<1>2. /\ cancelling' = cancelling /\ started' = started
      /\ status' = status /\ requested' = requested /\ lost' = lost
  BY DEF Look, taskVars
<1>3. PICK r \in Reply : /\ Respond(c, r)
                         /\ status[t] = "Absent" => r.kind = "error"
                         /\ status[t] # "Absent" => /\ r.kind = "ok" /\ r.task_id = t
                                                    /\ TaskStateLabel(r.state) = status[t]
                                                    /\ Behind(r, status)
  <2>1. CASE status[t] = "Absent"
    <3>1. Respond(c, Failure)
      BY <2>1 DEF Look
    <3> QED BY <2>1, <3>1, FailureFacts
  <2>2. CASE status[t] # "Absent"
    <3>1. Respond(c, StatusReply(t, status))
      BY <2>2 DEF Look
    <3>2. status[t] \in Service!Status
      BY <1>1 DEF TypeOK
    <3> QED BY <2>2, <3>1, <3>2, StatusReplyFacts
  <2> QED BY <2>1, <2>2
<1>4. r.kind \in {"ok", "error"}
  BY <1>3
<1>5. /\ reply' \in [Client -> Reply]
      /\ \A d \in Client : d # c => reply'[d] = reply[d]
      /\ step[c] = "calling" => reply'[c] = r
      /\ step[c] # "calling" => reply'[c] = NoReply
  BY <1>1, <1>3, RespondFacts
<1>6. TasksKept
  BY <1>1, <1>2, SameTasks DEF IInv, taskVars
<1>7. Placed(c)'
  BY <1>1, <1>2, <1>4, <1>5, ClientAssumption DEF Placed, InService, TakesFrom
<1>8. Told(c)'
  BY <1>1, <1>2, <1>3, <1>5 DEF Told, TakesFrom, NoReply
<1>9. Owns(c)'
  BY <1>1, <1>2, <1>3, <1>5 DEF Owns, Placed, TakesFrom
<1>10. /\ cancelling' \in {c, NoClient} /\ OneTaskPerRun'
       /\ started' \subseteq [client : Client, generation : 1..(MaxRestarts + 1), task_id : TaskId]
  BY <1>1, <1>2 DEF TakesFrom, OneTaskPerRun, TypeOK
<1> QED BY <1>2, <1>5, <1>6, <1>7, <1>8, <1>9, <1>10, HandledFromParts

LEMMA CancelTaskKeeps ==
  ASSUME IInv, NEW c \in Client, TakesFrom(c),
         NEW t \in TaskId, t = request[c].task_id,
         request[c].op = "CancelTask", CancelTask(c, t)
  PROVE  IInv'
<1>1. /\ TypeOK /\ OneTaskPerRun /\ Placed(c) /\ Owns(c) /\ Told(c)
      /\ c \notin Places(waiters) /\ c \notin Places(channel')
      /\ up /\ request[c].generation = generation
      /\ step[c] \in {"calling", "gone"}
      /\ TaskTypes /\ TasksSound
  BY TakesFacts DEF IInv, TypeOK, TaskTypes
<1>2. ASSUME started' = started
      PROVE  /\ Owns(c)' /\ OneTaskPerRun'
             /\ started' \subseteq [client : Client, generation : 1..(MaxRestarts + 1),
                                    task_id : TaskId]
  BY <1>1, <1>2 DEF Owns, Placed, TakesFrom, OneTaskPerRun, TypeOK
<1>3. CASE /\ Service!CancelQueued(t)
           /\ Respond(c, StatusReply(t, status'))
           /\ UNCHANGED <<cancelling, started>>
  <2> DEFINE r == StatusReply(t, status')
  <2>1. TasksKept /\ status'[t] = "Cancelled"
    BY <1>1, <1>3, CancelQueuedKeeps
  <2>2. status'[t] \in Service!Status /\ status'[t] # "Absent"
    BY <2>1 DEF Service!Status
  <2>3. /\ r \in Reply /\ r.kind = "ok" /\ r.task_id = t
        /\ TaskStateLabel(r.state) = status'[t] /\ Behind(r, status')
    BY <2>2, StatusReplyFacts
  <2>4. Respond(c, r)
    BY <1>3
  <2> HIDE DEF r
  <2>5. /\ reply' \in [Client -> Reply]
        /\ \A d \in Client : d # c => reply'[d] = reply[d]
        /\ step[c] = "calling" => reply'[c] = r
        /\ step[c] # "calling" => reply'[c] = NoReply
    BY <1>1, <2>3, <2>4, RespondFacts
  <2>6. cancelling' = cancelling /\ started' = started
    BY <1>3
  <2>7. Placed(c)'
    BY <1>1, <2>3, <2>5, <2>6, ClientAssumption DEF Placed, InService, TakesFrom
  <2>8. Told(c)'
    BY <1>1, <2>1, <2>3, <2>5 DEF Told, TakesFrom, NoReply
  <2>9. cancelling' \in {c, NoClient}
    BY <2>6 DEF TakesFrom
  <2> QED BY <1>2, <2>1, <2>5, <2>6, <2>7, <2>8, <2>9, HandledFromParts
<1>4. CASE /\ Service!RequestCancel(t)
           /\ cancelling' = c
           /\ UNCHANGED <<reply, started>>
  <2>1. /\ status[t] = "Running" /\ status' = status /\ t \in requested'
        /\ cancelling' = c /\ reply' = reply /\ started' = started
    BY <1>4 DEF Service!RequestCancel
  <2>2. TasksKept
    BY <1>1, <1>4, RequestCancelKeeps
  <2>3. reply[c].kind = "none"
    BY <1>1 DEF Placed, InService, TakesFrom, NoReply
  <2>4. Placed(c)'
    BY <1>1, <2>1, <2>3 DEF Placed, InService, TakesFrom
  <2>5. Told(c)'
    BY <1>1, <2>1, <2>3 DEF Told, TakesFrom
  <2>6. reply' \in [Client -> Reply]
    BY <1>1, <2>1 DEF TypeOK
  <2> QED BY <1>2, <2>1, <2>2, <2>4, <2>5, <2>6, HandledFromParts
<1>5. CASE status[t] \notin {"Queued", "Running"} /\ Look(c, t)
  BY <1>5, LookKeeps
<1> QED BY <1>3, <1>4, <1>5 DEF CancelTask

LEMMA HandleKeeps ==
  ASSUME IInv, Handle
  PROVE  IInv'
<1> DEFINE c == Head(channel)
           t == request[c].task_id
<1>1. TypeOK
  BY DEF IInv
<1>2. c \in Client /\ TakesFrom(c)
  <2>1. /\ channel \in Seq(Client) /\ Distinct(channel) /\ Len(channel) <= Capacity
        /\ channel # <<>> /\ channel' = Tail(channel)
    BY <1>1 DEF TypeOK, Handle
  <2>2. /\ Head(channel) \in Client
        /\ Head(channel) \in Places(channel)
        /\ Tail(channel) \in Seq(Client)
        /\ Distinct(Tail(channel))
        /\ Places(Tail(channel)) = Places(channel) \ {Head(channel)}
        /\ Len(Tail(channel)) = Len(channel) - 1
    BY <2>1, TailFacts
  <2>3. Len(channel') <= Capacity
    BY <2>1, <2>2, CapacityAssumption
  <2> QED BY <2>1, <2>2, <2>3 DEF TakesFrom, Handle, daemonVars
<1>3. \/ request[c].op = "StartTask" /\ StartTask(c)
      \/ request[c].op = "GetTask" /\ Look(c, t)
      \/ request[c].op = "CancelTask" /\ CancelTask(c, t)
  BY DEF Handle
<1> HIDE DEF c
<1>4. request[c].op \in {"GetTask", "CancelTask"} => t \in TaskId
  BY <1>2, TakesFacts DEF Placed
<1> HIDE DEF t
<1>5. t = request[c].task_id
  BY DEF t
<1>6. CASE request[c].op = "StartTask" /\ StartTask(c)
  BY <1>2, <1>6, StartTaskKeeps
<1>7. CASE request[c].op = "GetTask" /\ Look(c, t)
  BY <1>2, <1>4, <1>5, <1>7, LookKeeps
<1>8. CASE request[c].op = "CancelTask" /\ CancelTask(c, t)
  BY <1>2, <1>4, <1>5, <1>8, CancelTaskKeeps
<1> QED BY <1>3, <1>6, <1>7, <1>8

LEMMA CancelReturnsKeeps ==
  ASSUME IInv, CancelReturns
  PROVE  IInv'
<1>1. TypeOK /\ cancelling \in Client
  BY DEF IInv, TypeOK, CancelReturns
<1>2. PICK c \in Client : c = cancelling
  BY <1>1
<1> DEFINE t == request[c].task_id
<1>3. /\ cancelling' = NoClient
      /\ command' = command /\ step' = step /\ request' = request /\ view' = view
      /\ waiters' = waiters /\ channel' = channel
      /\ status' = status /\ requested' = requested /\ lost' = lost
      /\ up' = up /\ generation' = generation /\ started' = started
  BY DEF CancelReturns, channelVars, taskVars, daemonVars
<1>4. TypeOK /\ OneTaskPerRun /\ Placed(c) /\ Fresh(c) /\ Told(c) /\ Owns(c)
  BY DEF IInv, Good
<1>5. /\ t \in TaskId /\ status[t] = "Running" /\ t \in requested
      /\ request[c].op = "CancelTask" /\ command[c] = "cancel"
      /\ c \notin Places(waiters) /\ c \notin Places(channel)
      /\ up /\ request[c].generation = generation
      /\ step[c] \in {"calling", "gone"}
  BY <1>2, <1>4 DEF Placed, InService
<1>6. PICK r \in Reply : /\ Respond(c, r)
                         /\ r.kind \in {"ok", "error"}
                         /\ r.kind = "ok" => /\ r.task_id = t
                                             /\ TaskStateLabel(r.state) = "Running"
                                             /\ Behind(r, status)
  <2>1. status[t] \in Service!Status /\ status[t] # "Absent"
    BY <1>5 DEF Service!Status
  <2>2. Respond(c, StatusReply(t, status)) \/ Respond(c, Failure)
    <3>1. PICK ok \in BOOLEAN :
            Respond(c, IF ok THEN StatusReply(t, status) ELSE Failure)
      BY <1>2 DEF CancelReturns
    <3>2. CASE ok = TRUE
      BY <3>1, <3>2
    <3>3. CASE ok = FALSE
      BY <3>1, <3>3
    <3> QED BY <3>2, <3>3
  <2>3. CASE Respond(c, StatusReply(t, status))
    BY <1>5, <2>1, <2>3, StatusReplyFacts
  <2>4. CASE Respond(c, Failure)
    BY <2>4, FailureFacts
  <2> QED BY <2>2, <2>3, <2>4
<1> HIDE DEF t
<1>7. t = request[c].task_id
  BY DEF t
<1>8. /\ reply' \in [Client -> Reply]
      /\ \A d \in Client : d # c => reply'[d] = reply[d]
      /\ step[c] = "calling" => reply'[c] = r
      /\ step[c] # "calling" => reply'[c] = NoReply
  BY <1>2, <1>4, <1>6, RespondFacts
<1>9. TasksKept
  BY <1>3, <1>4, SameTasks DEF IInv, taskVars
<1>10. TypeOK'
  BY <1>3, <1>4, <1>8 DEF TypeOK
<1>11. \A d \in Client : d # c => Good(d)'
  BY <1>2, <1>3, <1>8, <1>9, OthersAside
<1>12. Placed(c)'
  BY <1>2, <1>3, <1>4, <1>5, <1>6, <1>8, ClientAssumption DEF Placed, InService
<1>13. Fresh(c)'
  BY <1>3, <1>4 DEF Fresh
<1>14. Told(c)'
  BY <1>3, <1>4, <1>5, <1>6, <1>7, <1>8 DEF Told, NoReply
<1>15. Owns(c)'
  BY <1>3, <1>4, <1>5 DEF Owns
<1> QED BY <1>2, <1>3, <1>4, <1>9, <1>10, <1>11, <1>12, <1>13, <1>14, <1>15, FromParts
        DEF OneTaskPerRun

LEMMA EventKeeps ==
  ASSUME IInv, Event
  PROVE  IInv'
<1>1. /\ cancelling = NoClient /\ cancelling' = cancelling
      /\ command' = command /\ step' = step /\ request' = request /\ reply' = reply
      /\ view' = view /\ waiters' = waiters /\ channel' = channel
      /\ up' = up /\ generation' = generation /\ started' = started
  BY DEF Event, clientVars, channelVars, daemonVars
<1>2. TaskTypes /\ TasksSound /\ TypeOK
  BY DEF IInv, TypeOK, TaskTypes
<1>3. TasksKept
  BY <1>2, StartKeeps, ReportKeeps, GiveUpKeeps DEF Event
<1>4. TypeOK'
  BY <1>1, <1>2, <1>3 DEF TypeOK, TasksKept, TaskTypes
<1>5. ASSUME NEW d \in Client  PROVE Good(d)'
  <2>1. Aside(d)
    BY <1>1, ClientAssumption DEF Aside
  <2> QED BY <1>3, <2>1, AsideKeeps DEF IInv
<1>6. OneTaskPerRun' /\ \A e \in started' : e.generation <= generation'
  BY <1>1 DEF IInv, OneTaskPerRun
<1> QED BY <1>3, <1>4, <1>5, <1>6 DEF IInv, TasksKept

-----------------------------------------------------------------------------
(***************************************************************************)
(* The daemon.                                                             *)
(***************************************************************************)

LEMMA CrashKeeps ==
  ASSUME IInv, Crash
  PROVE  IInv'
<1>1. /\ up' = FALSE
      /\ step' = [c \in Client |-> IF step[c] = "calling" THEN "failed" ELSE step[c]]
      /\ reply' = [c \in Client |-> NoReply]
      /\ view' = [c \in Client |-> IF step[c] = "calling" THEN NoReply ELSE view[c]]
      /\ waiters' = <<>> /\ channel' = <<>> /\ cancelling' = NoClient
      /\ status' = [t \in TaskId |-> "Absent"] /\ requested' = {} /\ lost' = {}
      /\ command' = command /\ request' = request /\ generation' = generation
      /\ started' = started
  BY DEF Crash
<1>2. TypeOK
  BY DEF IInv
<1>3. TypeOK'
  <2>1. NoReply \in Reply
    BY DEF NoReply, Reply
  <2>2. /\ step' \in [Client -> {"idle", "calling", "sleeping", "reported", "failed", "gone"}]
        /\ reply' \in [Client -> Reply] /\ view' \in [Client -> Reply]
    BY <1>1, <1>2, <2>1 DEF TypeOK
  <2>3. waiters' \in Seq(Client) /\ Distinct(waiters') /\ Len(channel') <= Capacity
    BY <1>1, CapacityAssumption DEF Distinct
  <2>4. status' \in [TaskId -> Service!Status]
    BY <1>1 DEF Service!Status
  <2> QED BY <1>1, <1>2, <2>2, <2>3, <2>4 DEF TypeOK
<1>4. TasksSound'
  BY <1>1 DEF TasksSound
<1>5. ASSUME NEW d \in Client  PROVE Good(d)'
  <2>1. Placed(d) /\ Fresh(d) /\ Told(d)
    BY DEF IInv, Good
  <2>2. ~InService(d)'
    BY <1>1, ClientAssumption DEF InService, Places
  <2>3. /\ step'[d] # "calling" /\ reply'[d] = NoReply
        /\ step'[d] \in {"idle", "sleeping", "reported"} =>
             step'[d] = step[d] /\ view'[d] = view[d]
    BY <1>1
  <2>4. Placed(d)'
    BY <1>1, <2>1, <2>2, <2>3 DEF Placed, InService
  <2>5. Fresh(d)'
    BY <1>1, <2>1, <2>2, <2>3 DEF Fresh, InService
  <2>6. Told(d)' /\ Owns(d)'
    BY <1>1, <2>1, <2>3 DEF Told, Owns
  <2> QED BY <2>4, <2>5, <2>6 DEF Good
<1>6. OneTaskPerRun' /\ \A e \in started' : e.generation <= generation'
  BY <1>1 DEF IInv, OneTaskPerRun
<1> QED BY <1>3, <1>4, <1>5, <1>6 DEF IInv

LEMMA RestartKeeps ==
  ASSUME IInv, Restart
  PROVE  IInv'
<1>1. /\ ~up /\ up' = TRUE
      /\ generation <= MaxRestarts /\ generation' = generation + 1
      /\ command' = command /\ step' = step /\ request' = request /\ reply' = reply
      /\ view' = view /\ waiters' = waiters /\ channel' = channel
      /\ cancelling' = cancelling
      /\ status' = status /\ requested' = requested /\ lost' = lost
      /\ started' = started
  BY DEF Restart, clientVars, channelVars, taskVars
<1>2. TypeOK /\ generation \in Nat
  BY TaskClientsBounds DEF IInv, TypeOK
<1>3. TypeOK'
  <2>1. generation' \in 1..(MaxRestarts + 1)
    BY <1>1, <1>2, TaskClientsBounds
  <2> QED BY <1>1, <1>2, <2>1 DEF TypeOK
<1>4. TasksSound'
  BY <1>1 DEF IInv, TasksSound
<1>5. \A e \in started : e.generation \in Nat /\ e.generation <= generation
  BY <1>2, TaskClientsBounds DEF IInv, TypeOK
<1>6. ASSUME NEW d \in Client  PROVE Good(d)'
  <2>1. Placed(d) /\ Fresh(d) /\ Told(d)
    BY DEF IInv, Good
  <2>2. ~InService(d) /\ step[d] # "calling"
    BY <1>1, <2>1 DEF Placed
  <2>3. request[d].generation \in Nat /\ request[d].generation <= generation
    BY <1>2, <2>1, TaskClientsBounds DEF Placed, TypeOK, Request
  <2>4. request[d].generation # generation' /\ request[d].generation <= generation'
    BY <1>1, <1>2, <2>3
  <2>5. Placed(d)'
    BY <1>1, <2>1, <2>2, <2>4 DEF Placed, InService
  <2>6. Fresh(d)'
    BY <1>1, <2>1 DEF Fresh
  <2>7. Told(d)'
    BY <1>1, <2>1, <2>4 DEF Told
  <2>8. Owns(d)'
    BY <1>1, <1>2, <1>5 DEF Owns
  <2> QED BY <2>5, <2>6, <2>7, <2>8 DEF Good
<1>7. OneTaskPerRun' /\ \A e \in started' : e.generation <= generation'
  BY <1>1, <1>2, <1>5 DEF IInv, OneTaskPerRun
<1> QED BY <1>3, <1>4, <1>6, <1>7 DEF IInv

-----------------------------------------------------------------------------
(***************************************************************************)
(* The invariant and the properties that follow from it.                   *)
(***************************************************************************)

LEMMA InitIsGood == Init => IInv
<1> SUFFICES ASSUME Init  PROVE IInv
  OBVIOUS
<1> USE DEF Init
<1>1. TypeOK
  <2>1. NoReply \in Reply
    BY DEF NoReply, Reply
  <2> DEFINE r == [op |-> "None", task_id |-> None, generation |-> 0]
  <2>2. r \in Request
    BY TaskClientsBounds DEF Request
  <2>3. request \in [Client -> Request]
    BY <2>2
  <2>4. /\ waiters \in Seq(Client) /\ Distinct(waiters)
        /\ channel \in Seq(Client) /\ Distinct(channel) /\ Len(channel) <= Capacity
    BY CapacityAssumption DEF Distinct
  <2>5. generation \in 1..(MaxRestarts + 1)
    BY TaskClientsBounds
  <2>6. status \in [TaskId -> Service!Status] /\ requested \subseteq TaskId /\ lost \subseteq TaskId
    BY DEF Service!Init, Service!Status
  <2> QED BY <2>1, <2>3, <2>4, <2>5, <2>6 DEF TypeOK
<1>2. TasksSound
  BY DEF TasksSound, Service!Init
<1>3. ASSUME NEW d \in Client  PROVE Good(d)
  <2>1. ~InService(d)
    BY ClientAssumption DEF InService, Places
  <2>2. /\ step[d] = "idle" /\ reply[d] = NoReply
        /\ request[d].op = "None" /\ request[d].generation = 0
    OBVIOUS
  <2>3. Placed(d)
    BY <2>1, <2>2 DEF Placed, InService
  <2>4. Fresh(d) /\ Told(d) /\ Owns(d)
    BY <2>2 DEF Fresh, Told, Owns
  <2> QED BY <2>3, <2>4 DEF Good
<1> QED BY <1>1, <1>2, <1>3 DEF IInv, OneTaskPerRun

LEMMA StutterKeeps ==
  ASSUME IInv, UNCHANGED vars
  PROVE  IInv'
<1>1. TypeOK' /\ TasksSound' /\ OneTaskPerRun' /\ \A e \in started' : e.generation <= generation'
  BY DEF IInv, TypeOK, TasksSound, OneTaskPerRun, vars, clientVars, channelVars, taskVars, daemonVars
<1>2. TasksKept
  BY SameTasks DEF IInv, vars
<1>3. ASSUME NEW d \in Client  PROVE Good(d)'
  <2>1. Aside(d)
    BY DEF Aside, vars, clientVars, channelVars, taskVars, daemonVars
  <2> QED BY <1>2, <2>1, AsideKeeps DEF IInv
<1> QED BY <1>1, <1>3 DEF IInv

LEMMA NextKeeps == IInv /\ [Next]_vars => IInv'
<1> SUFFICES ASSUME IInv, [Next]_vars  PROVE IInv'
  OBVIOUS
<1>1. ASSUME NEW c \in Client, ExecuteRun(c)  PROVE IInv'
  BY <1>1, ExecuteKeeps DEF ExecuteRun
<1>2. ASSUME NEW c \in Client, NEW t \in TaskId, ExecuteCancel(c, t)  PROVE IInv'
  BY <1>2, ExecuteKeeps DEF ExecuteCancel
<1>3. ASSUME NEW c \in Client, NEW t \in TaskId, ExecuteTaskStatus(c, t)  PROVE IInv'
  BY <1>3, ExecuteKeeps DEF ExecuteTaskStatus
<1>4. ASSUME NEW c \in Client, Read(c) \/ Poll(c) \/ Interrupt(c)  PROVE IInv'
  BY <1>4, ReadKeeps, PollKeeps, InterruptKeeps
<1>5. ASSUME NEW c \in Client, Push(c) \/ DropHandler(c)  PROVE IInv'
  BY <1>5, PushKeeps, DropHandlerKeeps
<1>6. CASE Handle \/ CancelReturns \/ Event
  BY <1>6, HandleKeeps, CancelReturnsKeeps, EventKeeps
<1>7. CASE Crash \/ Restart
  BY <1>7, CrashKeeps, RestartKeeps
<1>8. CASE UNCHANGED vars
  BY <1>8, StutterKeeps
<1> QED BY <1>1, <1>2, <1>3, <1>4, <1>5, <1>6, <1>7, <1>8 DEF Next

\* The invariant, which the theorems below rest on: where the calls are, what
\* clients were told of their tasks, and what the service may still do with them.
THEOREM ClientsInvariance == Spec => []IInv
<1>1. Init => IInv
  BY InitIsGood
<1>2. IInv /\ [Next]_vars => IInv'
  BY NextKeeps
<1> QED BY <1>1, <1>2, PTL DEF Spec

\* The variables have their types, the channel keeps its bound, and no client is
\* twice in it or among the handlers that wait.
THEOREM ClientsTypes == Spec => []TypeOK
<1>1. IInv => TypeOK
  BY DEF IInv
<1> QED BY <1>1, ClientsInvariance, PTL

\* A call that has not failed is in exactly one place until it is answered, however
\* handlers, the actor, interrupted clients and ends of the daemon interleave.
THEOREM NoCallIsLost == Spec => []NoCallLost
<1>1. IInv => NoCallLost
  <2> SUFFICES ASSUME IInv, NEW c \in Client
               PROVE  IF step[c] = "calling"
                      THEN \E place \in {"waiting", "queued", "handled", "answered"} :
                             /\ c \in Places(waiters) <=> place = "waiting"
                             /\ c \in Places(channel) <=> place = "queued"
                             /\ c = cancelling <=> place = "handled"
                             /\ reply[c].kind # "none" <=> place = "answered"
                      ELSE reply[c] = NoReply
    BY DEF NoCallLost
  <2>1. Placed(c)
    BY DEF IInv, Good
  <2> QED BY <2>1 DEF Placed, InService
<1> QED BY <1>1, ClientsInvariance, PTL

\* One `shargon run` makes at most one task, whatever fails and restarts.
THEOREM RunsMakeOneTask == Spec => []OneTaskPerRun
<1>1. IInv => OneTaskPerRun
  BY DEF IInv
<1> QED BY <1>1, ClientsInvariance, PTL

\* A client that was not interrupted knows the task it left with the daemon.
THEOREM NoOrphans == Spec => []OrphansOnlyOfInterrupted
<1>1. IInv => OrphansOnlyOfInterrupted
  <2> SUFFICES ASSUME IInv, NEW e \in started, e.generation = generation, up
               PROVE  /\ step[e.client] \in {"calling", "sleeping", "reported", "gone"}
                      /\ step[e.client] \in {"sleeping", "reported"} =>
                           view[e.client].task_id = e.task_id
                      /\ step[e.client] = "calling" /\ request[e.client].op = "GetTask" =>
                           request[e.client].task_id = e.task_id
    BY DEF OrphansOnlyOfInterrupted
  <2>1. e.client \in Client /\ Owns(e.client)
    BY DEF IInv, Good, TypeOK
  <2> QED BY <2>1 DEF Owns
<1> QED BY <1>1, ClientsInvariance, PTL

\* `shargon run` reports a verdict on its own task, and the daemon stands by it.
THEOREM VerdictsStand == Spec => []ReportsItsTask
<1>1. IInv => ReportsItsTask
  <2> SUFFICES ASSUME IInv, NEW e \in started, e.generation = generation, up,
                      step[e.client] = "reported"
               PROVE  /\ view[e.client].task_id = e.task_id
                      /\ \/ TaskStateLabel(view[e.client].state) = status[e.task_id]
                         \/ /\ TaskStateLabel(view[e.client].state) = "Failed"
                            /\ status[e.task_id] \in {"Succeeded", "Cancelled"}
                      /\ status[e.task_id] \in {"Succeeded", "Failed", "Cancelled"}
    BY DEF ReportsItsTask
  <2> DEFINE c == e.client
  <2>1. c \in Client /\ Owns(c) /\ Told(c)
    BY DEF IInv, Good, TypeOK
  <2>2. /\ view[c].task_id = e.task_id /\ command[c] = "run"
        /\ request[c].generation = generation
    BY <2>1 DEF Owns
  <2>3. view[c].state \in {3, 4, 5} /\ Behind(view[c], status)
    BY <2>1, <2>2 DEF Told
  <2>4. TaskStateLabel(view[c].state) \in {"Succeeded", "Failed", "Cancelled"}
    BY <2>3 DEF TaskStateLabel
  <2> QED BY <2>2, <2>3, <2>4 DEF Behind, Ended
<1> QED BY <1>1, ClientsInvariance, PTL

\* A task whose cancellation a client was told of does not succeed.
THEOREM CancellationsStand == Spec => []CancelHonoured
<1>1. IInv => CancelHonoured
  <2> SUFFICES ASSUME IInv, NEW c \in Client, step[c] = "reported", command[c] = "cancel",
                      request[c].generation = generation, up
               PROVE  /\ TaskStateLabel(view[c].state) = "Running" =>
                           status[request[c].task_id] \in {"Running", "Cancelled", "Failed"}
                      /\ TaskStateLabel(view[c].state) = "Cancelled" =>
                           status[request[c].task_id] = "Cancelled"
    BY DEF CancelHonoured
  <2>1. Placed(c) /\ Told(c) /\ TasksSound
    BY DEF IInv, Good
  <2>2. request[c].op = "CancelTask"
    BY <2>1 DEF Placed
  <2> QED BY <2>1, <2>2 DEF Told, Behind, TasksSound
<1> QED BY <1>1, ClientsInvariance, PTL

=============================================================================
