-------------------------- MODULE BackendLoopsProofs --------------------------
(***************************************************************************)
(* The proof that the loops of the actor do what NspawnBackend has as one  *)
(* step, for any pool and any queue.  What a loop has done after some of   *)
(* its turns is the invariant; that it is the only thing NspawnBackend     *)
(* allows is a part of it, so that no induction over the queue is needed.  *)
(***************************************************************************)
EXTENDS BackendLoops, FiniteSetTheorems, SequenceTheorems, TLAPS

-----------------------------------------------------------------------------
(***************************************************************************)
(* schedule_queued_tasks.                                                  *)
(***************************************************************************)

\* The first k queued tasks have been paired with the first k idle machines, and
\* every pick that NspawnBackend allows begins with these pairs.
Paired(ms, q, k, pick) ==
  /\ pick \in [1..k -> Backend!IdleMachines(ms)]
  /\ \A i, j \in 1..k : i < j => pick[i] < pick[j]
  /\ \A m \in Backend!IdleMachines(ms) \ Backend!Picked(pick), i \in 1..k : pick[i] < m
  /\ \A p \in Backend!Picks(ms, q) : k <= Len(p) /\ \A i \in 1..k : p[i] = pick[i]

\* One more pair: the machine m for the task behind the first k.
Extend(pick, k, m) == [i \in 1..(k + 1) |-> IF i <= k THEN pick[i] ELSE m]

\* What the members of Picks are.
LEMMA PickFacts ==
  ASSUME NEW ms, NEW q \in Seq(TaskId), NEW p
  PROVE  p \in Backend!Picks(ms, q) <=>
           /\ \E n \in 0..Len(q) : p \in [1..n -> Backend!IdleMachines(ms)]
           /\ \A i, j \in DOMAIN p : i < j => p[i] < p[j]
           /\ \A m \in Backend!IdleMachines(ms) \ Backend!Picked(p) :
                Len(p) = Len(q) /\ \A i \in DOMAIN p : p[i] < m
<1>1. (\E S \in {[1..n -> Backend!IdleMachines(ms)] : n \in 0..Len(q)} : p \in S)
        <=> \E n \in 0..Len(q) : p \in [1..n -> Backend!IdleMachines(ms)]
  OBVIOUS
<1>2. QED BY <1>1, Zenon DEF Backend!Picks

\* The length of a pick.
LEMMA PickLength ==
  ASSUME NEW S, NEW n \in Nat, NEW p \in [1..n -> S]
  PROVE  Len(p) = n /\ DOMAIN p = 1..n
OBVIOUS

LEMMA IdleAreNumbers ==
  ASSUME NEW ms
  PROVE  Backend!IdleMachines(ms) \subseteq Nat
BY DEF Backend!IdleMachines, Backend!MachineId

\* Before the first turn nothing is paired.
LEMMA PairedFirst ==
  ASSUME NEW ms, NEW q \in Seq(TaskId)
  PROVE  Paired(ms, q, 0, <<>>)
<1>1. <<>> \in [1..0 -> Backend!IdleMachines(ms)]
  OBVIOUS
<1>2. ASSUME NEW p \in Backend!Picks(ms, q)
      PROVE  0 <= Len(p)
  <2>1. PICK n \in 0..Len(q) : p \in [1..n -> Backend!IdleMachines(ms)]
    BY PickFacts
  <2>2. Len(p) = n
    BY <2>1
  <2>3. QED BY <2>1, <2>2
<1>3. QED BY <1>1, <1>2 DEF Paired

\* A turn pairs the next task with the least machine that is left.
LEMMA PairedNext ==
  ASSUME NEW ms, NEW q \in Seq(TaskId), NEW k \in Nat, k < Len(q), NEW pick, Paired(ms, q, k, pick),
         NEW m \in Backend!IdleMachines(ms) \ Backend!Picked(pick),
         \A o \in Backend!IdleMachines(ms) \ Backend!Picked(pick) : m <= o
  PROVE  Paired(ms, q, k + 1, Extend(pick, k, m))
<1> DEFINE Idle == Backend!IdleMachines(ms)
           next == [i \in 1..(k + 1) |-> IF i <= k THEN pick[i] ELSE m]
<1>1. /\ pick \in [1..k -> Idle]
      /\ \A i, j \in 1..k : i < j => pick[i] < pick[j]
      /\ \A o \in Idle \ Backend!Picked(pick), i \in 1..k : pick[i] < o
      /\ \A p \in Backend!Picks(ms, q) : k <= Len(p) /\ \A i \in 1..k : p[i] = pick[i]
  BY DEF Paired
<1>2. Idle \subseteq Nat
  BY IdleAreNumbers
<1>3. next \in [1..(k + 1) -> Idle]
  BY <1>1
<1>4. \A i \in 1..k : next[i] = pick[i]
  OBVIOUS
<1>5. next[k + 1] = m
  OBVIOUS
<1>6. Backend!Picked(next) = Backend!Picked(pick) \cup {m}
  <2>1. DOMAIN next = 1..(k + 1) /\ DOMAIN pick = 1..k
    BY <1>1
  <2>2. {next[i] : i \in 1..(k + 1)} = {pick[i] : i \in 1..k} \cup {m}
    BY <1>4, <1>5
  <2>3. QED BY <2>1, <2>2 DEF Backend!Picked
<1>7. \A i, j \in 1..(k + 1) : i < j => next[i] < next[j]
  <2> SUFFICES ASSUME NEW i \in 1..(k + 1), NEW j \in 1..(k + 1), i < j
               PROVE  next[i] < next[j]
    OBVIOUS
  <2>1. i \in 1..k /\ next[i] = pick[i]
    BY <1>4
  <2>2. CASE j \in 1..k
    BY <1>1, <1>4, <2>1, <2>2
  <2>3. CASE j = k + 1
    BY <1>1, <1>5, <2>1, <2>3
  <2>4. QED BY <2>2, <2>3
<1>8. \A o \in Idle \ Backend!Picked(next), i \in 1..(k + 1) : next[i] < o
  <2> SUFFICES ASSUME NEW o \in Idle \ Backend!Picked(next), NEW i \in 1..(k + 1)
               PROVE  next[i] < o
    OBVIOUS
  <2>1. o \in Idle \ Backend!Picked(pick) /\ o # m /\ m <= o
    BY <1>6
  <2>2. CASE i \in 1..k
    BY <1>1, <1>4, <2>1, <2>2
  <2>3. CASE i = k + 1
    <3>1. o \in Nat /\ m \in Nat
      BY <1>2, <2>1
    <3>2. QED BY <1>5, <2>1, <2>3, <3>1
  <2>4. QED BY <2>2, <2>3
<1>9. ASSUME NEW p \in Backend!Picks(ms, q)
      PROVE  k + 1 <= Len(p) /\ \A i \in 1..(k + 1) : p[i] = next[i]
  <2>1. PICK n \in 0..Len(q) : p \in [1..n -> Idle]
    BY PickFacts
  <2>2. /\ \A i, j \in 1..n : i < j => p[i] < p[j]
        /\ \A o \in Idle \ Backend!Picked(p) : n = Len(q) /\ \A i \in 1..n : p[i] < o
        /\ Len(p) = n /\ DOMAIN p = 1..n
    <3>1. Len(p) = n /\ DOMAIN p = 1..n
      BY <2>1
    <3>2. QED BY <3>1, PickFacts
  <2>3. k <= n /\ \A i \in 1..k : p[i] = pick[i]
    BY <1>1, <2>2
  <2>4. Backend!Picked(p) = {p[i] : i \in 1..n} /\ Backend!Picked(pick) = {pick[i] : i \in 1..k}
    BY <1>1, <2>2 DEF Backend!Picked
  \* The machine m is among those of p, behind the first k ...
  <2>5. k + 1 <= n
    <3> SUFFICES ASSUME n = k PROVE FALSE
      BY <2>3
    <3>1. Backend!Picked(p) = Backend!Picked(pick)
      BY <2>3, <2>4
    <3>2. QED BY <2>2, <3>1
  <2>6. p[k + 1] \in Idle /\ p[k + 1] \notin Backend!Picked(pick)
    <3>1. p[k + 1] \in Idle
      BY <2>1, <2>5
    <3>2. \A i \in 1..k : p[i] # p[k + 1]
      BY <1>2, <2>1, <2>2, <2>5
    <3>3. QED BY <2>3, <2>4, <3>1, <3>2
  <2>7. m <= p[k + 1]
    BY <2>6
  \* ... and no later than at k + 1, since p is in order.
  <2>8. p[k + 1] = m
    <3>1. CASE m \in Backend!Picked(p)
      <4>1. PICK j \in 1..n : p[j] = m
        BY <2>4, <3>1
      <4>2. j > k
        BY <2>3, <2>4, <4>1
      <4>3. CASE j = k + 1
        BY <4>1, <4>3
      <4>4. CASE j > k + 1
        <5>1. p[k + 1] < m
          BY <2>2, <2>5, <4>1, <4>4
        <5>2. p[k + 1] \in Nat /\ m \in Nat
          BY <1>2, <2>6
        <5>3. QED BY <2>7, <5>1, <5>2
      <4>5. QED BY <4>2, <4>3, <4>4
    <3>2. CASE m \notin Backend!Picked(p)
      <4>1. p[k + 1] < m
        BY <2>2, <2>5, <3>2
      <4>2. p[k + 1] \in Nat /\ m \in Nat
        BY <1>2, <2>6
      <4>3. QED BY <2>7, <4>1, <4>2
    <3>3. QED BY <3>1, <3>2
  <2>9. QED BY <1>4, <1>5, <2>2, <2>3, <2>5, <2>8
<1>10. QED BY <1>3, <1>7, <1>8, <1>9 DEF Paired, Extend

\* When tasks or machines have run out, what was paired is the one pick there is.
LEMMA PairedLast ==
  ASSUME NEW ms, NEW q \in Seq(TaskId), NEW k \in 0..Len(q), NEW pick, Paired(ms, q, k, pick),
         k = Len(q) \/ Backend!IdleMachines(ms) \subseteq Backend!Picked(pick)
  PROVE  Backend!Picks(ms, q) = {pick}
<1> DEFINE Idle == Backend!IdleMachines(ms)
<1>1. /\ pick \in [1..k -> Idle]
      /\ \A i, j \in 1..k : i < j => pick[i] < pick[j]
      /\ \A m \in Idle \ Backend!Picked(pick), i \in 1..k : pick[i] < m
      /\ \A p \in Backend!Picks(ms, q) : k <= Len(p) /\ \A i \in 1..k : p[i] = pick[i]
      /\ Len(pick) = k /\ DOMAIN pick = 1..k
  BY DEF Paired
<1>2. pick \in Backend!Picks(ms, q)
  BY <1>1, PickFacts
<1>3. ASSUME NEW p \in Backend!Picks(ms, q)
      PROVE  p = pick
  <2>1. PICK n \in 0..Len(q) : p \in [1..n -> Idle]
    BY PickFacts
  <2>2. Len(p) = n /\ DOMAIN p = 1..n
    BY <2>1
  <2>3. k <= n /\ \A i \in 1..k : p[i] = pick[i]
    BY <1>1, <2>2
  <2>4. n = k
    <3> SUFFICES ASSUME k < n PROVE FALSE
      BY <2>3
    <3>1. Idle \subseteq Backend!Picked(pick)
      OBVIOUS
    <3>2. p[k + 1] \in Idle
      BY <2>1
    <3>3. PICK i \in 1..k : pick[i] = p[k + 1]
      BY <1>1, <3>1, <3>2 DEF Backend!Picked
    <3>4. p[i] < p[k + 1]
      BY <2>2, PickFacts
    <3>5. p[k + 1] \in Nat
      BY <3>2, IdleAreNumbers
    <3>6. QED BY <2>3, <3>3, <3>4, <3>5
  <2>5. QED BY <1>1, <2>1, <2>3, <2>4
<1>4. QED BY <1>2, <1>3

\* A systemd-run is started for each task that was paired.
StartUnits(us, q, pick) ==
  [t \in TaskId |-> IF \E i \in DOMAIN pick : q[i] = t THEN "running" ELSE us[t]]

\* A queue without repetitions, of which k tasks have been paired.
PairedSoFar(ms, q, k, pick) ==
  /\ q \in Seq(TaskId)
  /\ \A i, j \in 1..Len(q) : i < j => q[i] < q[j]
  /\ k \in Nat /\ k < Len(q)
  /\ Paired(ms, q, k, pick)

LEMMA ExtendFacts ==
  ASSUME NEW ms, NEW q, NEW k, NEW pick, PairedSoFar(ms, q, k, pick),
         NEW m \in Backend!IdleMachines(ms) \ Backend!Picked(pick),
         NEW next, next = Extend(pick, k, m)
  PROVE  /\ pick \in [1..k -> Backend!IdleMachines(ms)]
         /\ DOMAIN pick = 1..k /\ DOMAIN next = 1..(k + 1) /\ k \in Nat
         /\ \A i \in 1..k : next[i] = pick[i]
         /\ next[k + 1] = m
         /\ m \in MachineId
         /\ \A i \in 1..k : pick[i] # m
         /\ Backend!MachineId = MachineId /\ Backend!TaskId = TaskId
         /\ Backend!Picked(pick) = {pick[i] : i \in 1..k}
         /\ q[k + 1] \in TaskId
         /\ \A i \in 1..(k + 1) : q[i] \in TaskId
         /\ \A i \in 1..k : q[i] # q[k + 1]
         /\ \A i, j \in 1..(k + 1) : q[i] = q[j] => i = j
         /\ \A o \in MachineId : o \in Backend!Picked(next) <=> o \in Backend!Picked(pick) \/ o = m
<1> USE DEF PairedSoFar, Extend
<1>1. /\ pick \in [1..k -> Backend!IdleMachines(ms)]
      /\ DOMAIN pick = 1..k /\ DOMAIN next = 1..(k + 1)
      /\ \A i \in 1..k : next[i] = pick[i]
      /\ next[k + 1] = m
      /\ m \in MachineId
      /\ \A i \in 1..k : pick[i] # m
      /\ Backend!MachineId = MachineId /\ Backend!TaskId = TaskId
      /\ Backend!Picked(pick) = {pick[i] : i \in 1..k}
  BY DEF Paired, Backend!IdleMachines, Backend!Picked, MachineId, TaskId
<1>2. /\ q[k + 1] \in TaskId
      /\ \A i \in 1..(k + 1) : q[i] \in TaskId
      /\ \A i \in 1..k : q[i] # q[k + 1]
      /\ \A i, j \in 1..(k + 1) : q[i] = q[j] => i = j
  <2>1. TaskId \subseteq Nat
    BY DEF TaskId, Backend!TaskId
  <2>2. \A i \in 1..(k + 1) : i \in 1..Len(q) /\ q[i] \in TaskId
    OBVIOUS
  <2>3. \A i, j \in 1..(k + 1) : i < j => q[i] < q[j] /\ q[i] \in Nat /\ q[j] \in Nat
    BY <2>1, <2>2
  <2>4. \A i, j \in 1..(k + 1) : i < j => q[i] # q[j]
    BY <2>3
  <2>5. QED BY <2>2, <2>4
<1>3. \A o \in MachineId : o \in Backend!Picked(next) <=> o \in Backend!Picked(pick) \/ o = m
  <2>1. Backend!Picked(next) = {next[i] : i \in 1..(k + 1)}
    BY <1>1 DEF Backend!Picked
  <2>2. 1..(k + 1) = (1..k) \cup {k + 1}
    OBVIOUS
  <2>3. {next[i] : i \in 1..(k + 1)} = {pick[i] : i \in 1..k} \cup {m}
    BY <1>1, <2>2
  <2>4. QED BY <1>1, <2>1, <2>3
<1>4. QED BY <1>1, <1>2, <1>3

\* assign_task of one more pair is a change of one machine ...
LEMMA AssignNextMachine ==
  ASSUME NEW ms \in [MachineId -> Backend!MachineRecord],
         NEW q, NEW k, NEW pick, PairedSoFar(ms, q, k, pick),
         NEW m \in Backend!IdleMachines(ms) \ Backend!Picked(pick)
  PROVE  Backend!AssignMachines(ms, q, Extend(pick, k, m))
           = [Backend!AssignMachines(ms, q, pick)
                EXCEPT ![m] = [state |-> "Busy", current_task_id |-> q[k + 1]]]
<1> DEFINE next == Extend(pick, k, m)
<1> HIDE DEF next
<1>1. next = Extend(pick, k, m)
  BY DEF next
<1>2. /\ pick \in [1..k -> Backend!IdleMachines(ms)]
      /\ DOMAIN pick = 1..k /\ DOMAIN next = 1..(k + 1) /\ k \in Nat
      /\ \A i \in 1..k : next[i] = pick[i]
      /\ next[k + 1] = m
      /\ m \in MachineId
      /\ \A i \in 1..k : pick[i] # m
      /\ Backend!MachineId = MachineId /\ Backend!TaskId = TaskId
      /\ Backend!Picked(pick) = {pick[i] : i \in 1..k}
      /\ q[k + 1] \in TaskId
      /\ \A i \in 1..k : q[i] # q[k + 1]
      /\ \A i, j \in 1..(k + 1) : q[i] = q[j] => i = j
      /\ \A o \in MachineId : o \in Backend!Picked(next) <=> o \in Backend!Picked(pick) \/ o = m
  BY <1>1, ExtendFacts
<1>3. Backend!AssignMachines(ms, q, next)
        = [Backend!AssignMachines(ms, q, pick)
             EXCEPT ![m] = [state |-> "Busy", current_task_id |-> q[k + 1]]]
  <2>1. ASSUME NEW o \in MachineId, o \in Backend!Picked(pick)
        PROVE  (CHOOSE i \in DOMAIN next : next[i] = o) = (CHOOSE i \in DOMAIN pick : pick[i] = o)
    <3>1. o # m
      BY <1>2, <2>1
    <3>2. \A i : i \in DOMAIN next /\ next[i] = o <=> i \in DOMAIN pick /\ pick[i] = o
      BY <1>2, <3>1
    <3>3. QED BY <3>2, Zenon
  <2>2. (CHOOSE i \in DOMAIN next : next[i] = m) = k + 1
    <3>1. \A i \in DOMAIN next : next[i] = m <=> i = k + 1
      BY <1>2
    <3>2. k + 1 \in DOMAIN next
      BY <1>2
    <3>3. QED BY <3>1, <3>2
  <2>3. ASSUME NEW o \in MachineId
        PROVE  Backend!AssignMachines(ms, q, next)[o]
                 = [Backend!AssignMachines(ms, q, pick)
                      EXCEPT ![m] = [state |-> "Busy", current_task_id |-> q[k + 1]]][o]
    <3>1. CASE o = m
      BY <1>2, <2>2, <3>1 DEF Backend!AssignMachines
    <3>2. CASE o # m /\ o \in Backend!Picked(pick)
      BY <1>2, <2>1, <3>2 DEF Backend!AssignMachines
    <3>3. CASE o # m /\ o \notin Backend!Picked(pick)
      BY <1>2, <3>3 DEF Backend!AssignMachines
    <3>4. QED BY <3>1, <3>2, <3>3
  <2>4. QED BY <1>2, <2>3, Zenon DEF Backend!AssignMachines
<1>4. QED BY <1>3 DEF next

\* ... of one task, and of one unit.
LEMMA AssignNextTask ==
  ASSUME NEW ms, NEW ts \in [TaskId -> Backend!TaskRecord],
         NEW q, NEW k, NEW pick, PairedSoFar(ms, q, k, pick),
         NEW m \in Backend!IdleMachines(ms) \ Backend!Picked(pick)
  PROVE  /\ Backend!AssignTasks(ts, q, Extend(pick, k, m))
              = [Backend!AssignTasks(ts, q, pick)
                   EXCEPT ![q[k + 1]] = Backend!WithStatus(ts[q[k + 1]], "Running", m, "none")]
         /\ Backend!AssignTasks(ts, q, pick)[q[k + 1]] = ts[q[k + 1]]
<1> DEFINE next == Extend(pick, k, m)
<1> HIDE DEF next
<1>1. next = Extend(pick, k, m)
  BY DEF next
<1>2. /\ pick \in [1..k -> Backend!IdleMachines(ms)]
      /\ DOMAIN pick = 1..k /\ DOMAIN next = 1..(k + 1) /\ k \in Nat
      /\ \A i \in 1..k : next[i] = pick[i]
      /\ next[k + 1] = m
      /\ m \in MachineId
      /\ \A i \in 1..k : pick[i] # m
      /\ Backend!MachineId = MachineId /\ Backend!TaskId = TaskId
      /\ Backend!Picked(pick) = {pick[i] : i \in 1..k}
      /\ q[k + 1] \in TaskId
      /\ \A i \in 1..k : q[i] # q[k + 1]
      /\ \A i, j \in 1..(k + 1) : q[i] = q[j] => i = j
      /\ \A o \in MachineId : o \in Backend!Picked(next) <=> o \in Backend!Picked(pick) \/ o = m
  BY <1>1, ExtendFacts
<1>3. \A t \in TaskId : (\E i \in DOMAIN next : q[i] = t)
                          <=> (\E i \in DOMAIN pick : q[i] = t) \/ t = q[k + 1]
  BY <1>2
<1>4. ~ \E i \in DOMAIN pick : q[i] = q[k + 1]
  BY <1>2
<1>5. Backend!AssignTasks(ts, q, pick)[q[k + 1]] = ts[q[k + 1]]
  BY <1>2, <1>4 DEF Backend!AssignTasks
<1>6. Backend!AssignTasks(ts, q, next)
        = [Backend!AssignTasks(ts, q, pick)
             EXCEPT ![q[k + 1]] = Backend!WithStatus(ts[q[k + 1]], "Running", m, "none")]
  <2>1. ASSUME NEW t \in TaskId, \E i \in DOMAIN pick : q[i] = t
        PROVE  next[CHOOSE i \in DOMAIN next : q[i] = t] = pick[CHOOSE i \in DOMAIN pick : q[i] = t]
    <3>1. t # q[k + 1]
      BY <1>4, <2>1
    <3>2. \A i : i \in DOMAIN next /\ q[i] = t <=> i \in DOMAIN pick /\ q[i] = t
      BY <1>2, <3>1
    <3>3. (CHOOSE i \in DOMAIN next : q[i] = t) = (CHOOSE i \in DOMAIN pick : q[i] = t)
      BY <3>2, Zenon
    <3>4. (CHOOSE i \in DOMAIN pick : q[i] = t) \in DOMAIN pick
      BY <2>1, Zenon
    <3>5. QED BY <1>2, <3>3, <3>4
  <2>2. (CHOOSE i \in DOMAIN next : q[i] = q[k + 1]) = k + 1
    <3>1. \A i \in DOMAIN next : q[i] = q[k + 1] <=> i = k + 1
      BY <1>2
    <3>2. k + 1 \in DOMAIN next
      BY <1>2
    <3>3. QED BY <3>1, <3>2
  <2>3. ASSUME NEW t \in TaskId
        PROVE  Backend!AssignTasks(ts, q, next)[t]
                 = [Backend!AssignTasks(ts, q, pick)
                      EXCEPT ![q[k + 1]] = Backend!WithStatus(ts[q[k + 1]], "Running", m, "none")][t]
    <3>1. CASE t = q[k + 1]
      <4>1. next[CHOOSE i \in DOMAIN next : q[i] = t] = m
        BY <1>2, <2>2, <3>1
      <4>2. Backend!AssignTasks(ts, q, next)[t] = Backend!WithStatus(ts[t], "Running", m, "none")
        BY <1>2, <1>3, <3>1, <4>1 DEF Backend!AssignTasks
      <4>3. t \in DOMAIN Backend!AssignTasks(ts, q, pick)
        BY <1>2 DEF Backend!AssignTasks
      <4>4. QED BY <3>1, <4>2, <4>3
    <3>2. CASE t # q[k + 1] /\ \E i \in DOMAIN pick : q[i] = t
      BY <1>2, <1>3, <2>1, <3>2 DEF Backend!AssignTasks
    <3>3. CASE t # q[k + 1] /\ ~ \E i \in DOMAIN pick : q[i] = t
      BY <1>2, <1>3, <3>3 DEF Backend!AssignTasks
    <3>4. QED BY <3>1, <3>2, <3>3
  <2>4. QED BY <1>2, <2>3, Zenon DEF Backend!AssignTasks
<1>7. QED BY <1>5, <1>6 DEF next

LEMMA AssignNextUnit ==
  ASSUME NEW ms, NEW us, NEW q, NEW k, NEW pick, PairedSoFar(ms, q, k, pick),
         NEW m \in Backend!IdleMachines(ms) \ Backend!Picked(pick)
  PROVE  StartUnits(us, q, Extend(pick, k, m))
           = [StartUnits(us, q, pick) EXCEPT ![q[k + 1]] = "running"]
<1> DEFINE next == Extend(pick, k, m)
<1> HIDE DEF next
<1>1. next = Extend(pick, k, m)
  BY DEF next
<1>2. /\ DOMAIN pick = 1..k /\ DOMAIN next = 1..(k + 1) /\ k \in Nat
      /\ q[k + 1] \in TaskId
  BY <1>1, ExtendFacts
<1>3. \A t \in TaskId : (\E i \in DOMAIN next : q[i] = t)
                          <=> (\E i \in DOMAIN pick : q[i] = t) \/ t = q[k + 1]
  BY <1>2
<1>4. StartUnits(us, q, next) = [StartUnits(us, q, pick) EXCEPT ![q[k + 1]] = "running"]
  BY <1>2, <1>3 DEF StartUnits
<1>5. QED BY <1>4 DEF next

-----------------------------------------------------------------------------
(***************************************************************************)
(* The invariant: what the loop that runs has done since it began.         *)
(***************************************************************************)

\* The state at the beginning.
BeforeOK ==
  /\ before.machines \in [MachineId -> Backend!MachineRecord]
  /\ before.tasks \in [TaskId -> Backend!TaskRecord]
  /\ before.task_queue \in Seq(TaskId)
  /\ \A i, j \in 1..Len(before.task_queue) :
       i < j => before.task_queue[i] < before.task_queue[j]
  /\ before.next_machine_id \in 0..MaxMachines
  /\ \A m \in MachineId :
       m > before.next_machine_id => before.machines[m].state = "Absent"
  /\ before.nspawn \in [MachineId -> {"none", "running"}]
  /\ before.probe \in [MachineId -> {"none", "ready"}]
  /\ before.unit \in [TaskId -> {"none"}]

\* schedule_queued_tasks: some pairs have been assigned.
Scheduling ==
  \E k \in 0..Len(before.task_queue) : \E pick \in [1..k -> MachineId] :
    /\ Paired(before.machines, before.task_queue, k, pick)
    /\ machines = Backend!AssignMachines(before.machines, before.task_queue, pick)
    /\ tasks = Backend!AssignTasks(before.tasks, before.task_queue, pick)
    /\ task_queue = SubSeq(before.task_queue, k + 1, Len(before.task_queue))
    /\ unit = StartUnits(before.unit, before.task_queue, pick)

\* reconcile_pool_internal: the next k machines have been spawned.
Fresh(k) == (before.next_machine_id + 1)..(before.next_machine_id + k)

Provisioning == [state |-> "Provisioning", current_task_id |-> Backend!None]

Reconciling ==
  \E k \in 0..MaxMachines :
    /\ next_machine_id = before.next_machine_id + k /\ next_machine_id <= MaxMachines
    /\ machines = [m \in MachineId |-> IF m \in Fresh(k) THEN Provisioning
                                       ELSE before.machines[m]]
    /\ nspawn = [m \in MachineId |-> IF m \in Fresh(k) THEN "running" ELSE before.nspawn[m]]
    /\ probe = [m \in MachineId |-> IF m \in Fresh(k) THEN "probing" ELSE before.probe[m]]
    /\ Active = Cardinality(Backend!ActiveMachines(before.machines)) + k
    /\ k = 0 \/ Active <= PoolSize

\* retain: the task, at one position of the queue, is still to come or is gone.
Retaining ==
  /\ removing \in TaskId
  /\ position \in Nat \ {0}
  /\ \E p \in 1..Len(before.task_queue) :
       /\ before.task_queue[p] = removing
       /\ \/ task_queue = before.task_queue /\ position <= p
          \/ task_queue = Backend!Without(before.task_queue, removing) /\ position >= p

Inv ==
  /\ BeforeOK
  /\ loop = "schedule" => Scheduling
  /\ loop = "reconcile" => Reconciling
  /\ loop = "retain" => Retaining

\* A loop that has made no turn yet has done nothing.
LEMMA InitInv == Init => Inv
<1> SUFFICES ASSUME Init PROVE Inv
  OBVIOUS
<1>1. /\ before.machines = machines /\ before.tasks = tasks
      /\ before.task_queue = task_queue /\ before.next_machine_id = next_machine_id
      /\ before.nspawn = nspawn /\ before.probe = probe /\ before.unit = unit
  BY DEF Init, state
<1>2. /\ MachineId = 1..MaxMachines /\ TaskId = 1..MaxTasks
      /\ Backend!MachineId = MachineId /\ Backend!TaskId = TaskId /\ Backend!None = 0
  BY DEF MachineId, TaskId, Backend!MachineId, Backend!TaskId, Backend!None
<1>3. BeforeOK
  <2>1. PICK states \in [1..next_machine_id -> {"Absent", "Provisioning", "Idle"}] :
          machines = [m \in MachineId |->
                        [state |-> IF m <= next_machine_id THEN states[m] ELSE "Absent",
                         current_task_id |-> Backend!None]]
    BY DEF Init
  <2>2. next_machine_id \in 0..MaxMachines
    BY DEF Init
  <2>3. machines \in [MachineId -> Backend!MachineRecord]
    <3>1. \A m \in MachineId : m <= next_machine_id =>
             states[m] \in {"Absent", "Provisioning", "Idle"}
      BY <1>2, <2>2
    <3>2. QED BY <1>2, <2>1, <3>1 DEF Backend!MachineRecord, Backend!MachineState
  <2>4. \A m \in MachineId : m > next_machine_id => machines[m].state = "Absent"
    BY <1>2, <2>1, <2>2
  <2>5. tasks \in [TaskId -> Backend!TaskRecord]
    BY <1>2 DEF Init, Backend!WithStatus, Backend!AbsentTask, Backend!TaskRecord,
       Backend!TaskState, Backend!ExitCode
  <2>6. task_queue \in Seq(TaskId)
    <3>1. PICK n \in 0..MaxTasks : task_queue \in [1..n -> TaskId]
      BY DEF Init
    <3>2. n \in Nat
      BY LoopBounds
    <3>3. QED BY <3>1, <3>2
  <2>7. \A i, j \in 1..Len(task_queue) : i < j => task_queue[i] < task_queue[j]
    <3>1. DOMAIN task_queue = 1..Len(task_queue)
      BY <2>6
    <3>2. \A i, j \in DOMAIN task_queue : i < j => task_queue[i] < task_queue[j]
      BY Zenon DEF Init
    <3>3. QED BY <3>1, <3>2
  <2>8. /\ nspawn \in [MachineId -> {"none", "running"}]
        /\ probe \in [MachineId -> {"none", "ready"}]
        /\ unit \in [TaskId -> {"none"}]
    BY DEF Init
  <2>9. QED BY <1>1, <2>2, <2>3, <2>4, <2>5, <2>6, <2>7, <2>8 DEF BeforeOK
<1>4. Scheduling
  <2>1. Paired(machines, task_queue, 0, <<>>)
    BY <1>1, <1>3, PairedFirst DEF BeforeOK
  <2>2. Backend!Picked(<<>>) = {} /\ DOMAIN <<>> = {}
    BY DEF Backend!Picked
  <2>3. machines = Backend!AssignMachines(machines, task_queue, <<>>)
    BY <1>1, <1>2, <1>3, <2>2 DEF Backend!AssignMachines, BeforeOK
  <2>4. tasks = Backend!AssignTasks(tasks, task_queue, <<>>)
    BY <1>1, <1>2, <1>3, <2>2 DEF Backend!AssignTasks, BeforeOK
  <2>5. task_queue = SubSeq(task_queue, 0 + 1, Len(task_queue))
    BY <1>1, <1>3 DEF BeforeOK
  <2>6. unit = StartUnits(unit, task_queue, <<>>)
    BY <1>1, <1>3, <2>2 DEF BeforeOK, StartUnits
  <2>7. /\ <<>> \in [1..0 -> MachineId] /\ 0 \in 0..Len(task_queue)
    BY <1>1, <1>3 DEF BeforeOK
  <2>8. \E pick \in [1..0 -> MachineId] :
          /\ Paired(before.machines, before.task_queue, 0, pick)
          /\ machines = Backend!AssignMachines(before.machines, before.task_queue, pick)
          /\ tasks = Backend!AssignTasks(before.tasks, before.task_queue, pick)
          /\ task_queue = SubSeq(before.task_queue, 0 + 1, Len(before.task_queue))
          /\ unit = StartUnits(before.unit, before.task_queue, pick)
    <3> WITNESS <<>> \in [1..0 -> MachineId]
    <3> QED BY <1>1, <2>1, <2>3, <2>4, <2>5, <2>6
  <2>9. QED BY <1>1, <2>7, <2>8, Zenon DEF Scheduling
<1>5. Reconciling
  <2>1. Fresh(0) = {}
    BY <1>3 DEF Fresh, BeforeOK
  <2>2. Active = Cardinality(Backend!ActiveMachines(machines))
    BY <1>2 DEF Active, Backend!ActiveMachines, Backend!MachineState
  <2>3. Active \in Nat
    <3>1. IsFiniteSet(Backend!ActiveMachines(machines))
      BY <1>2, LoopBounds, FS_Interval, FS_Subset DEF Backend!ActiveMachines
    <3>2. QED BY <2>2, <3>1, FS_CardinalityType
  <2>4. /\ machines = [m \in MachineId |-> IF m \in Fresh(0) THEN Provisioning ELSE before.machines[m]]
        /\ nspawn = [m \in MachineId |-> IF m \in Fresh(0) THEN "running" ELSE before.nspawn[m]]
        /\ probe = [m \in MachineId |-> IF m \in Fresh(0) THEN "probing" ELSE before.probe[m]]
    BY <1>1, <1>3, <2>1 DEF BeforeOK
  <2>5. next_machine_id = before.next_machine_id + 0 /\ next_machine_id <= MaxMachines
        /\ 0 \in 0..MaxMachines
    BY <1>1, <1>3, LoopBounds DEF BeforeOK
  <2>6. QED BY <1>1, <2>2, <2>3, <2>4, <2>5 DEF Reconciling
<1>6. ASSUME loop = "retain" PROVE Retaining
  <2>1. removing \in TaskId /\ tasks[removing].state = "Queued" /\ position = 1
    BY <1>6 DEF Init
  <2>2. PICK p \in DOMAIN task_queue : task_queue[p] = removing
    BY <2>1 DEF Init, Backend!AbsentTask
  <2>3. p \in 1..Len(task_queue)
    BY <1>1, <1>3, <2>2 DEF BeforeOK
  <2>4. QED BY <1>1, <2>1, <2>2, <2>3 DEF Retaining
<1>7. QED BY <1>3, <1>4, <1>5, <1>6 DEF Inv

-----------------------------------------------------------------------------
(***************************************************************************)
(* Each turn keeps the invariant, and the last one is the step.            *)
(***************************************************************************)

\* What the handler sees of the state before and after a step.
LEMMA ShownFacts ==
  ASSUME loop # "done", loop' = "done", before' = before
  PROVE  /\ Shown = before
         /\ Shown'.machines = machines' /\ Shown'.tasks = tasks'
         /\ Shown'.task_queue = task_queue' /\ Shown'.next_machine_id = next_machine_id'
         /\ Shown'.nspawn = nspawn' /\ Shown'.probe = probe' /\ Shown'.unit = unit'
BY DEF Shown, state

\* Assigning the first task to the least idle machine adds a pair.
LEMMA AssignTaskKeepsInv ==
  ASSUME Inv, AssignTask
  PROVE  Inv'
<1> DEFINE ms == before.machines
           q  == before.task_queue
<1>1. BeforeOK /\ loop = "schedule" /\ loop' = loop /\ before' = before
  BY DEF Inv, AssignTask, loopVars
<1>2. PICK k \in 0..Len(q) : \E pick \in [1..k -> MachineId] :
        /\ Paired(ms, q, k, pick)
        /\ machines = Backend!AssignMachines(ms, q, pick)
        /\ tasks = Backend!AssignTasks(before.tasks, q, pick)
        /\ task_queue = SubSeq(q, k + 1, Len(q))
        /\ unit = StartUnits(before.unit, q, pick)
  BY <1>1 DEF Inv, Scheduling
<1>3. PICK pick \in [1..k -> MachineId] :
        /\ Paired(ms, q, k, pick)
        /\ machines = Backend!AssignMachines(ms, q, pick)
        /\ tasks = Backend!AssignTasks(before.tasks, q, pick)
        /\ task_queue = SubSeq(q, k + 1, Len(q))
        /\ unit = StartUnits(before.unit, q, pick)
  BY <1>2
<1>4. /\ q \in Seq(TaskId) /\ ms \in [MachineId -> Backend!MachineRecord]
      /\ before.tasks \in [TaskId -> Backend!TaskRecord]
      /\ \A i, j \in 1..Len(q) : i < j => q[i] < q[j]
      /\ MachineId = Backend!MachineId /\ TaskId = Backend!TaskId
  BY <1>1 DEF BeforeOK, MachineId, TaskId
<1>5. PICK m \in MachineId :
        /\ machines[m].state = "Idle"
        /\ \A other \in MachineId : machines[other].state = "Idle" => m <= other
        /\ LET t == Head(task_queue)
           IN  /\ machines' = [machines EXCEPT ![m] = [state |-> "Busy", current_task_id |-> t]]
               /\ tasks' = [tasks EXCEPT ![t] = Backend!WithStatus(@, "Running", m, "none")]
               /\ unit' = [unit EXCEPT ![t] = "running"]
  BY DEF AssignTask
<1>6. task_queue # <<>> /\ task_queue' = Tail(task_queue)
  BY DEF AssignTask
<1>7. /\ k < Len(q)
      /\ Head(task_queue) = q[k + 1]
      /\ Tail(task_queue) = SubSeq(q, (k + 1) + 1, Len(q))
      /\ q[k + 1] \in TaskId
      /\ k \in Nat
  <2>1. k < Len(q) /\ k \in Nat /\ Len(q) \in Nat
    BY <1>3, <1>4, <1>6
  <2>2. /\ Len(task_queue) = Len(q) - k
        /\ \A i \in 1..(Len(q) - k) : task_queue[i] = q[k + i]
        /\ task_queue \in Seq(TaskId)
    BY <1>3, <1>4, <2>1
  <2>3. Head(task_queue) = q[k + 1]
    BY <2>1, <2>2
  <2>4. Tail(task_queue) = SubSeq(q, (k + 1) + 1, Len(q))
    <3>1. /\ Tail(task_queue) \in Seq(TaskId) /\ Len(Tail(task_queue)) = Len(q) - k - 1
          /\ \A i \in 1..(Len(q) - k - 1) : Tail(task_queue)[i] = q[k + 1 + i]
      BY <1>6, <2>1, <2>2
    <3>2. /\ SubSeq(q, (k + 1) + 1, Len(q)) \in Seq(TaskId)
          /\ Len(SubSeq(q, (k + 1) + 1, Len(q))) = Len(q) - k - 1
          /\ \A i \in 1..(Len(q) - k - 1) : SubSeq(q, (k + 1) + 1, Len(q))[i] = q[k + 1 + i]
      BY <1>4, <2>1
    <3>3. QED BY <3>1, <3>2, SeqEqual
  <2>5. QED BY <1>4, <2>1, <2>3, <2>4
\* The machines that are idle now are the ones of the beginning without those picked.
<1>8. \A o \in MachineId :
        machines[o].state = "Idle" <=> o \in Backend!IdleMachines(ms) \ Backend!Picked(pick)
  BY <1>3, <1>4 DEF Backend!AssignMachines, Backend!IdleMachines
<1>9. /\ m \in Backend!IdleMachines(ms) \ Backend!Picked(pick)
      /\ \A o \in Backend!IdleMachines(ms) \ Backend!Picked(pick) : m <= o
  BY <1>4, <1>5, <1>8 DEF Backend!IdleMachines
<1> DEFINE next == Extend(pick, k, m)
<1>10. Paired(ms, q, k + 1, next)
  <2>1. Paired(ms, q, k, pick) /\ q \in Seq(TaskId) /\ k \in Nat /\ k < Len(q)
    BY <1>3, <1>4, <1>7
  <2> HIDE DEF ms, q
  <2>2. QED BY <1>9, <2>1, PairedNext
<1>11. /\ Backend!AssignMachines(ms, q, next)
            = [machines EXCEPT ![m] = [state |-> "Busy", current_task_id |-> q[k + 1]]]
       /\ Backend!AssignTasks(before.tasks, q, next)
            = [tasks EXCEPT ![q[k + 1]] =
                 Backend!WithStatus(before.tasks[q[k + 1]], "Running", m, "none")]
       /\ tasks[q[k + 1]] = before.tasks[q[k + 1]]
       /\ StartUnits(before.unit, q, next) = [unit EXCEPT ![q[k + 1]] = "running"]
  <2> DEFINE ts == before.tasks
             us == before.unit
  <2>1. PairedSoFar(ms, q, k, pick)
    BY <1>3, <1>4, <1>7 DEF PairedSoFar
  <2>2. /\ ms \in [MachineId -> Backend!MachineRecord]
        /\ ts \in [TaskId -> Backend!TaskRecord]
    BY <1>4
  <2> HIDE DEF ms, q, ts, us
  <2>3. Backend!AssignMachines(ms, q, next)
          = [Backend!AssignMachines(ms, q, pick)
               EXCEPT ![m] = [state |-> "Busy", current_task_id |-> q[k + 1]]]
    BY <1>9, <2>1, <2>2, AssignNextMachine
  <2>4. /\ Backend!AssignTasks(ts, q, next)
             = [Backend!AssignTasks(ts, q, pick)
                  EXCEPT ![q[k + 1]] = Backend!WithStatus(ts[q[k + 1]], "Running", m, "none")]
        /\ Backend!AssignTasks(ts, q, pick)[q[k + 1]] = ts[q[k + 1]]
    BY <1>9, <2>1, <2>2, AssignNextTask
  <2>5. StartUnits(us, q, next) = [StartUnits(us, q, pick) EXCEPT ![q[k + 1]] = "running"]
    BY <1>9, <2>1, AssignNextUnit
  <2>6. QED BY <1>3, <2>3, <2>4, <2>5 DEF ts, us
<1>12. machines' = Backend!AssignMachines(ms, q, next)
  BY <1>5, <1>7, <1>11
<1>13. tasks' = Backend!AssignTasks(before.tasks, q, next)
  BY <1>5, <1>7, <1>11
<1>14. unit' = StartUnits(before.unit, q, next)
  BY <1>5, <1>7, <1>11
<1>15. next \in [1..(k + 1) -> MachineId] /\ k + 1 \in 0..Len(q)
  BY <1>3, <1>7 DEF Extend
<1>16. Scheduling'
  <2> HIDE DEF next
  <2>1. task_queue' = SubSeq(q, (k + 1) + 1, Len(q))
    BY <1>6, <1>7
  <2>2. QED BY <1>1, <1>10, <1>12, <1>13, <1>14, <1>15, <2>1 DEF Scheduling
<1>17. BeforeOK'
  BY <1>1 DEF BeforeOK
<1>18. QED BY <1>1, <1>16, <1>17 DEF Inv

\* The loop of schedule_queued_tasks ends with the one pick there is.
LEMMA ScheduleEndsInPick ==
  ASSUME Inv, ScheduleEnds
  PROVE  /\ Inv'
         /\ \E pick \in Backend!Picks(before.machines, before.task_queue) :
              /\ Backend!Picks(before.machines, before.task_queue) = {pick}
              /\ machines' = Backend!AssignMachines(before.machines, before.task_queue, pick)
              /\ Backend!ScheduleTasks(before.tasks, before.task_queue, pick)
<1> DEFINE ms == before.machines
           q  == before.task_queue
<1>1. /\ BeforeOK /\ loop = "schedule" /\ loop' = "done" /\ before' = before
      /\ machines' = machines /\ tasks' = tasks /\ task_queue' = task_queue /\ unit' = unit
  BY DEF Inv, ScheduleEnds, Done, loopVars, stateVars
<1>2. PICK k \in 0..Len(q) : \E pick \in [1..k -> MachineId] :
        /\ Paired(ms, q, k, pick)
        /\ machines = Backend!AssignMachines(ms, q, pick)
        /\ tasks = Backend!AssignTasks(before.tasks, q, pick)
        /\ task_queue = SubSeq(q, k + 1, Len(q))
        /\ unit = StartUnits(before.unit, q, pick)
  BY <1>1 DEF Inv, Scheduling
<1>3. PICK pick \in [1..k -> MachineId] :
        /\ Paired(ms, q, k, pick)
        /\ machines = Backend!AssignMachines(ms, q, pick)
        /\ tasks = Backend!AssignTasks(before.tasks, q, pick)
        /\ task_queue = SubSeq(q, k + 1, Len(q))
        /\ unit = StartUnits(before.unit, q, pick)
  BY <1>2
<1>4. /\ q \in Seq(TaskId) /\ Len(q) \in Nat /\ k \in Nat
      /\ MachineId = Backend!MachineId /\ TaskId = Backend!TaskId
  BY <1>1 DEF BeforeOK, MachineId, TaskId
<1>5. k = Len(q) \/ Backend!IdleMachines(ms) \subseteq Backend!Picked(pick)
  <2>1. CASE task_queue = <<>>
    <3> SUFFICES ASSUME k < Len(q) PROVE FALSE
      BY <1>4
    <3>1. Len(task_queue) = Len(q) - k
      BY <1>3, <1>4
    <3>2. Len(task_queue) = 0
      BY <2>1
    <3>3. QED BY <1>4, <3>1, <3>2
  <2>2. CASE \A m \in MachineId : machines[m].state # "Idle"
    BY <1>3, <1>4, <2>2 DEF Backend!AssignMachines, Backend!IdleMachines
  <2>3. QED BY <2>1, <2>2 DEF ScheduleEnds
<1>6. Backend!Picks(ms, q) = {pick}
  <2> HIDE DEF ms, q
  <2>1. QED BY <1>3, <1>4, <1>5, PairedLast
<1>7. Backend!ScheduleTasks(before.tasks, q, pick)
  <2>1. Len(pick) = k
    BY <1>4
  <2>2. /\ Shown = before
        /\ Shown'.tasks = tasks' /\ Shown'.task_queue = task_queue' /\ Shown'.unit = unit'
    BY <1>1, ShownFacts
  <2>3. QED BY <1>1, <1>3, <1>4, <2>1, <2>2 DEF Backend!ScheduleTasks, StartUnits
<1>8. Inv'
  BY <1>1 DEF Inv, BeforeOK
<1>9. QED BY <1>1, <1>3, <1>6, <1>7, <1>8

-----------------------------------------------------------------------------
\* Both modules count with the same operator.
LEMMA CardinalityIsSame ==
  ASSUME NEW S
  PROVE  Backend!Cardinality(S) = Cardinality(S)
BY DEF Backend!Cardinality, Cardinality

\* The machines with a record are finitely many, and a new one counts once.
LEMMA ActiveFacts ==
  ASSUME NEW ms \in [MachineId -> Backend!MachineRecord]
  PROVE  /\ IsFiniteSet(Backend!ActiveMachines(ms))
         /\ Cardinality(Backend!ActiveMachines(ms)) \in Nat
         /\ \A id \in MachineId : ms[id].state = "Absent" =>
              Cardinality(Backend!ActiveMachines([ms EXCEPT ![id] = Provisioning]))
                = Cardinality(Backend!ActiveMachines(ms)) + 1
<1>1. IsFiniteSet(Backend!ActiveMachines(ms)) /\ MachineId = Backend!MachineId
  BY LoopBounds, FS_Interval, FS_Subset DEF Backend!ActiveMachines, Backend!MachineId, MachineId
<1>2. ASSUME NEW id \in MachineId, ms[id].state = "Absent"
      PROVE  Cardinality(Backend!ActiveMachines([ms EXCEPT ![id] = Provisioning]))
               = Cardinality(Backend!ActiveMachines(ms)) + 1
  <2>1. id \notin Backend!ActiveMachines(ms)
    BY <1>2 DEF Backend!ActiveMachines, Backend!MachineState
  <2>2. Backend!ActiveMachines([ms EXCEPT ![id] = Provisioning])
          = Backend!ActiveMachines(ms) \cup {id}
    BY <1>1, <1>2 DEF Backend!ActiveMachines, Backend!MachineState, Provisioning
  <2>3. QED BY <1>1, <2>1, <2>2, FS_AddElement
<1>3. QED BY <1>1, <1>2, FS_CardinalityType

\* What holds of the state after some turns of reconcile_pool_internal.
Spawned(k) ==
  /\ k \in Nat
  /\ next_machine_id = before.next_machine_id + k /\ next_machine_id <= MaxMachines
  /\ machines = [m \in MachineId |-> IF m \in Fresh(k) THEN Provisioning ELSE before.machines[m]]
  /\ nspawn = [m \in MachineId |-> IF m \in Fresh(k) THEN "running" ELSE before.nspawn[m]]
  /\ probe = [m \in MachineId |-> IF m \in Fresh(k) THEN "probing" ELSE before.probe[m]]
  /\ Active = Cardinality(Backend!ActiveMachines(before.machines)) + k
  /\ k = 0 \/ Active <= PoolSize

LEMMA ReconcilingIsSpawned ==
  ASSUME BeforeOK
  PROVE  Reconciling <=> \E k \in Nat : Spawned(k)
<1>1. before.next_machine_id \in Nat
  BY DEF BeforeOK
<1>2. ASSUME Reconciling PROVE \E k \in Nat : Spawned(k)
  BY <1>2, LoopBounds DEF Reconciling, Spawned
<1>3. ASSUME NEW k \in Nat, Spawned(k) PROVE Reconciling
  <2>1. k \in 0..MaxMachines
    BY <1>1, <1>3, LoopBounds DEF Spawned
  <2>2. QED BY <1>3, <2>1 DEF Reconciling, Spawned
<1>4. QED BY <1>2, <1>3

\* spawn_machine gives the next id a record, and a process unless it fails.
LEMMA SpawnAdds ==
  ASSUME NEW k \in Nat, BeforeOK, Spawned(k), SpawnMachine(TRUE) \/ SpawnMachine(FALSE)
  PROVE  /\ next_machine_id' = before.next_machine_id + (k + 1)
         /\ next_machine_id' <= MaxMachines
         /\ machines' = [m \in MachineId |-> IF m \in Fresh(k + 1) THEN Provisioning
                                             ELSE before.machines[m]]
         /\ SpawnMachine(TRUE) =>
              /\ nspawn' = [m \in MachineId |-> IF m \in Fresh(k + 1) THEN "running"
                                                ELSE before.nspawn[m]]
              /\ probe' = [m \in MachineId |-> IF m \in Fresh(k + 1) THEN "probing"
                                               ELSE before.probe[m]]
         /\ Active' = Cardinality(Backend!ActiveMachines(before.machines)) + (k + 1)
         /\ Active' <= PoolSize
<1> DEFINE id == next_machine_id + 1
<1>1. /\ before.next_machine_id \in Nat /\ next_machine_id = before.next_machine_id + k
      /\ id \in Nat /\ id <= MaxMachines /\ MachineId = 1..MaxMachines
      /\ MachineId = Backend!MachineId
  BY DEF BeforeOK, Spawned, SpawnMachine, MachineId, Backend!MachineId
<1>2. /\ next_machine_id' = id
      /\ machines' = [machines EXCEPT ![id] = Provisioning]
      /\ SpawnMachine(TRUE) => /\ nspawn' = [nspawn EXCEPT ![id] = "running"]
                               /\ probe' = [probe EXCEPT ![id] = "probing"]
      /\ Active < PoolSize
  BY DEF SpawnMachine, Provisioning
<1>3. /\ machines = [m \in MachineId |-> IF m \in Fresh(k) THEN Provisioning
                                         ELSE before.machines[m]]
      /\ nspawn = [m \in MachineId |-> IF m \in Fresh(k) THEN "running" ELSE before.nspawn[m]]
      /\ probe = [m \in MachineId |-> IF m \in Fresh(k) THEN "probing" ELSE before.probe[m]]
      /\ Active = Cardinality(Backend!ActiveMachines(before.machines)) + k
  BY DEF Spawned
<1>4. \A m \in MachineId : m \in Fresh(k + 1) <=> m \in Fresh(k) \/ m = id
  BY <1>1 DEF Fresh
<1>5. id \notin Fresh(k) /\ id \in MachineId
  BY <1>1 DEF Fresh
<1>6. machines' = [m \in MachineId |-> IF m \in Fresh(k + 1) THEN Provisioning
                                       ELSE before.machines[m]]
  BY <1>2, <1>3, <1>4, <1>5
<1>7. ASSUME SpawnMachine(TRUE)
      PROVE  /\ nspawn' = [m \in MachineId |-> IF m \in Fresh(k + 1) THEN "running"
                                               ELSE before.nspawn[m]]
             /\ probe' = [m \in MachineId |-> IF m \in Fresh(k + 1) THEN "probing"
                                              ELSE before.probe[m]]
  BY <1>2, <1>3, <1>4, <1>5, <1>7
<1>8. Active' = Active + 1
  <2>1. machines \in [MachineId -> Backend!MachineRecord]
    BY <1>1, <1>3 DEF BeforeOK, Provisioning, Backend!MachineRecord, Backend!MachineState,
                      Backend!None
  <2>2. machines[id].state = "Absent"
    <3>1. machines[id] = before.machines[id]
      BY <1>3, <1>5
    <3>2. id > before.next_machine_id
      BY <1>1
    <3>3. QED BY <1>5, <3>1, <3>2 DEF BeforeOK
  <2>3. /\ Active = Cardinality(Backend!ActiveMachines(machines))
        /\ Active' = Cardinality(Backend!ActiveMachines(machines'))
    BY <1>1 DEF Active, Backend!ActiveMachines, Backend!MachineState
  <2>4. Cardinality(Backend!ActiveMachines([machines EXCEPT ![id] = Provisioning]))
          = Cardinality(Backend!ActiveMachines(machines)) + 1
    <3> DEFINE ms == machines
    <3> HIDE DEF ms, id
    <3>1. ms \in [MachineId -> Backend!MachineRecord] /\ ms[id].state = "Absent" /\ id \in MachineId
      BY <1>5, <2>1, <2>2 DEF ms
    <3>2. Cardinality(Backend!ActiveMachines([ms EXCEPT ![id] = Provisioning]))
            = Cardinality(Backend!ActiveMachines(ms)) + 1
      BY <3>1, ActiveFacts
    <3>3. QED BY <3>2 DEF ms
  <2>5. QED BY <1>2, <2>3, <2>4
<1>9. Cardinality(Backend!ActiveMachines(before.machines)) \in Nat
  <2> DEFINE ms == before.machines
  <2>1. ms \in [MachineId -> Backend!MachineRecord]
    BY DEF BeforeOK
  <2> HIDE DEF ms
  <2>2. Cardinality(Backend!ActiveMachines(ms)) \in Nat
    BY <2>1, ActiveFacts
  <2>3. QED BY <2>2 DEF ms
<1>10. /\ next_machine_id' = before.next_machine_id + (k + 1)
       /\ next_machine_id' <= MaxMachines
  BY <1>1, <1>2
<1>11. /\ Active' = Cardinality(Backend!ActiveMachines(before.machines)) + (k + 1)
       /\ Active' <= PoolSize
  <2> DEFINE active == Cardinality(Backend!ActiveMachines(before.machines))
  <2>1. active \in Nat /\ Active = active + k /\ Active' = Active + 1 /\ Active < PoolSize
    BY <1>2, <1>3, <1>8, <1>9
  <2> HIDE DEF active
  <2>2. Active' = active + (k + 1) /\ Active' <= PoolSize
    BY <2>1, LoopBounds
  <2>3. QED BY <2>2 DEF active
<1>12. QED BY <1>6, <1>7, <1>10, <1>11

\* A turn that succeeds counts one more machine.
LEMMA SpawnMachineKeepsInv ==
  ASSUME Inv, SpawnMachine(TRUE)
  PROVE  Inv' /\ loop' # "done"
<1>1. BeforeOK /\ loop = "reconcile" /\ loop' = loop /\ before' = before /\ Reconciling
  BY DEF Inv, SpawnMachine, loopVars
<1>2. PICK k \in Nat : Spawned(k)
  BY <1>1, ReconcilingIsSpawned
<1>3. Spawned(k + 1)'
  <2>1. Fresh(k + 1)' = Fresh(k + 1)
    BY <1>1 DEF Fresh
  <2>2. Active' = Cardinality(Backend!ActiveMachines(before'.machines)) + (k + 1)
        /\ Active' <= PoolSize
    BY <1>1, <1>2, SpawnAdds
  <2>3. /\ next_machine_id' = before'.next_machine_id + (k + 1)
        /\ next_machine_id' <= MaxMachines
    BY <1>1, <1>2, SpawnAdds
  <2>4. machines' = [m \in MachineId |-> IF m \in Fresh(k + 1)' THEN Provisioning
                                         ELSE before'.machines[m]]
    <3>1. machines' = [m \in MachineId |-> IF m \in Fresh(k + 1) THEN Provisioning
                                           ELSE before.machines[m]]
      BY <1>1, <1>2, SpawnAdds
    <3>2. QED BY <1>1, <2>1, <3>1
  <2>5. /\ nspawn' = [m \in MachineId |-> IF m \in Fresh(k + 1)' THEN "running"
                                          ELSE before'.nspawn[m]]
        /\ probe' = [m \in MachineId |-> IF m \in Fresh(k + 1)' THEN "probing"
                                         ELSE before'.probe[m]]
    <3>1. /\ nspawn' = [m \in MachineId |-> IF m \in Fresh(k + 1) THEN "running"
                                            ELSE before.nspawn[m]]
          /\ probe' = [m \in MachineId |-> IF m \in Fresh(k + 1) THEN "probing"
                                           ELSE before.probe[m]]
      BY <1>1, <1>2, SpawnAdds
    <3>2. QED BY <1>1, <2>1, <3>1
  <2>6. QED BY <2>2, <2>3, <2>4, <2>5 DEF Spawned
<1>4. Reconciling'
  <2>1. k + 1 \in 0..MaxMachines
    BY <1>1, <1>2, <1>3, LoopBounds DEF Spawned, BeforeOK
  <2>2. QED BY <1>3, <2>1 DEF Reconciling, Spawned
<1>5. QED BY <1>1, <1>4 DEF Inv, BeforeOK

\* A spawn that fails ends the loop, as reconcile_pool_logged drops the error.
LEMMA SpawnFailsInStep ==
  ASSUME Inv, SpawnMachine(FALSE)
  PROVE  Inv' /\ Backend!ReconcilePoolLogged(before.machines)
<1>1. /\ BeforeOK /\ loop = "reconcile" /\ loop' = "done" /\ before' = before /\ Reconciling
      /\ SpawnMayFail
  BY DEF Inv, SpawnMachine, Done, loopVars
<1>2. PICK k \in Nat : Spawned(k)
  BY <1>1, ReconcilingIsSpawned
<1> DEFINE active == Cardinality(Backend!ActiveMachines(before.machines))
<1>3. active \in Nat /\ before.next_machine_id \in Nat /\ MachineId = Backend!MachineId
  <2> DEFINE ms == before.machines
  <2>1. ms \in [MachineId -> Backend!MachineRecord]
    BY <1>1 DEF BeforeOK
  <2> HIDE DEF ms
  <2>2. Cardinality(Backend!ActiveMachines(ms)) \in Nat
    BY <2>1, ActiveFacts
  <2>3. QED BY <1>1, <2>2 DEF ms, BeforeOK, MachineId
<1>4. /\ next_machine_id' = before.next_machine_id + (k + 1) /\ next_machine_id' <= MaxMachines
      /\ machines' = [m \in MachineId |-> IF m \in Fresh(k + 1) THEN Provisioning
                                          ELSE before.machines[m]]
      /\ nspawn' = [m \in MachineId |-> IF m \in Fresh(k) THEN "running" ELSE before.nspawn[m]]
      /\ probe' = [m \in MachineId |-> IF m \in Fresh(k) THEN "probing" ELSE before.probe[m]]
      /\ active + (k + 1) <= PoolSize
  <2>1. nspawn' = nspawn /\ probe' = probe
    BY DEF SpawnMachine
  <2>2. Active' = active + (k + 1) /\ Active' <= PoolSize
    BY <1>1, <1>2, SpawnAdds
  <2>3. QED BY <1>1, <1>2, <2>1, <2>2, SpawnAdds DEF Spawned
<1>5. k + 1 \in 1..Backend!Missing(before.machines, PoolSize) /\ k + 1 \in 0..PoolSize
  <2>1. Backend!Missing(before.machines, PoolSize)
          = IF active < PoolSize THEN PoolSize - active ELSE 0
    BY CardinalityIsSame DEF Backend!Missing
  <2>2. active \in Nat /\ active + (k + 1) <= PoolSize
    BY <1>3, <1>4
  <2> HIDE DEF active
  <2>3. QED BY <2>1, <2>2, LoopBounds
<1>6. \A m \in MachineId :
        m \in Fresh(k) <=> m \in Fresh(k + 1) \ {before.next_machine_id + (k + 1)}
  BY <1>3 DEF Fresh
<1>7. Backend!ReconcilePoolInternal(before.machines, PoolSize, k + 1, FALSE)
  <2>1. /\ Shown = before
        /\ Shown'.machines = machines' /\ Shown'.next_machine_id = next_machine_id'
        /\ Shown'.nspawn = nspawn' /\ Shown'.probe = probe'
    BY <1>1, ShownFacts
  <2>2. QED BY <1>1, <1>3, <1>4, <1>5, <1>6, <2>1
            DEF Backend!ReconcilePoolInternal, Fresh, Provisioning
<1>8. Backend!ReconcilePoolLogged(before.machines)
  BY <1>5, <1>7 DEF Backend!ReconcilePoolLogged
<1>9. QED BY <1>1, <1>8 DEF Inv, BeforeOK

\* When enough machines are counted, as many were spawned as had been missing.
LEMMA ReconcileEndsInStep ==
  ASSUME Inv, ReconcileEnds
  PROVE  Inv' /\ Backend!ReconcilePoolLogged(before.machines)
<1>1. /\ BeforeOK /\ loop = "reconcile" /\ loop' = "done" /\ before' = before /\ Reconciling
      /\ machines' = machines /\ next_machine_id' = next_machine_id
      /\ nspawn' = nspawn /\ probe' = probe /\ Active >= PoolSize
  BY DEF Inv, ReconcileEnds, Done, loopVars, stateVars
<1>2. PICK k \in Nat : Spawned(k)
  BY <1>1, ReconcilingIsSpawned
<1> DEFINE active == Cardinality(Backend!ActiveMachines(before.machines))
<1>3. active \in Nat /\ before.next_machine_id \in Nat /\ MachineId = Backend!MachineId
  <2> DEFINE ms == before.machines
  <2>1. ms \in [MachineId -> Backend!MachineRecord]
    BY <1>1 DEF BeforeOK
  <2> HIDE DEF ms
  <2>2. Cardinality(Backend!ActiveMachines(ms)) \in Nat
    BY <2>1, ActiveFacts
  <2>3. QED BY <1>1, <2>2 DEF ms, BeforeOK, MachineId
<1>4. /\ active + k >= PoolSize /\ (k = 0 \/ active + k <= PoolSize)
      /\ next_machine_id = before.next_machine_id + k /\ next_machine_id <= MaxMachines
  BY <1>1, <1>2 DEF Spawned
<1>5. k = Backend!Missing(before.machines, PoolSize) /\ k \in 0..PoolSize
  <2>1. Backend!Missing(before.machines, PoolSize)
          = IF active < PoolSize THEN PoolSize - active ELSE 0
    BY CardinalityIsSame DEF Backend!Missing
  <2>2. active \in Nat /\ active + k >= PoolSize /\ (k = 0 \/ active + k <= PoolSize)
    BY <1>3, <1>4
  <2> HIDE DEF active
  <2>3. QED BY <2>1, <2>2, LoopBounds
<1>6. Backend!ReconcilePoolInternal(before.machines, PoolSize, k, TRUE)
  <2>1. /\ Shown = before
        /\ Shown'.machines = machines' /\ Shown'.next_machine_id = next_machine_id'
        /\ Shown'.nspawn = nspawn' /\ Shown'.probe = probe'
    BY <1>1, ShownFacts
  <2>2. QED BY <1>1, <1>2, <1>3, <1>4, <1>5, <2>1
            DEF Backend!ReconcilePoolInternal, Spawned, Fresh, Provisioning
<1>7. Backend!ReconcilePoolLogged(before.machines)
  BY <1>5, <1>6 DEF Backend!ReconcilePoolLogged
<1>8. QED BY <1>1, <1>7 DEF Inv, BeforeOK

-----------------------------------------------------------------------------
\* In a queue without repetitions the task has one position, and goes from there.
LEMMA WithoutFacts ==
  ASSUME BeforeOK, NEW p \in 1..Len(before.task_queue), before.task_queue[p] = removing
  PROVE  /\ Len(before.task_queue) \in Nat
         /\ \A i \in 1..Len(before.task_queue) : before.task_queue[i] = removing <=> i = p
         /\ Backend!Without(before.task_queue, removing)
              = [i \in 1..(Len(before.task_queue) - 1) |->
                   IF i < p THEN before.task_queue[i] ELSE before.task_queue[i + 1]]
<1> DEFINE q == before.task_queue
<1>1. /\ q \in Seq(TaskId) /\ TaskId \subseteq Nat /\ Len(q) \in Nat
      /\ \A i, j \in 1..Len(q) : i < j => q[i] < q[j]
  BY DEF BeforeOK, TaskId, Backend!TaskId
<1>2. \A i \in 1..Len(q) : q[i] \in Nat
  <2>1. \A i \in 1..Len(q) : q[i] \in TaskId
    BY <1>1
  <2>2. QED BY <1>1, <2>1
<1>3. \A i \in 1..Len(q) : q[i] = removing <=> i = p
  <2> SUFFICES ASSUME NEW i \in 1..Len(q), q[i] = removing, i # p
               PROVE  FALSE
    OBVIOUS
  <2>1. CASE i < p
    BY <1>1, <1>2, <2>1
  <2>2. CASE p < i
    BY <1>1, <1>2, <2>2
  <2>3. QED BY <1>1, <2>1, <2>2
<1>4. \A i \in 1..(Len(q) - 1) : (\E j \in 1..i : q[j] = removing) <=> ~(i < p)
  BY <1>1, <1>3
<1>5. QED BY <1>1, <1>3, <1>4 DEF Backend!Without

\* A turn of retain looks one position further, or takes the task out.
LEMMA RetainTurnKeepsInv ==
  ASSUME Inv, RetainTurn
  PROVE  Inv' /\ loop' # "done"
<1> DEFINE q == before.task_queue
<1>1. /\ BeforeOK /\ loop = "retain" /\ loop' = loop /\ before' = before /\ removing' = removing
      /\ removing \in TaskId /\ position \in Nat \ {0}
  BY DEF Inv, RetainTurn, Retaining
<1>2. PICK p \in 1..Len(q) :
        /\ q[p] = removing
        /\ \/ task_queue = q /\ position <= p
           \/ task_queue = Backend!Without(q, removing) /\ position >= p
  BY <1>1 DEF Inv, Retaining
<1>3. /\ Len(q) \in Nat
      /\ \A i \in 1..Len(q) : q[i] = removing <=> i = p
      /\ Backend!Without(q, removing) = [i \in 1..(Len(q) - 1) |-> IF i < p THEN q[i] ELSE q[i + 1]]
  BY <1>1, <1>2, WithoutFacts
<1>4. /\ position' \in Nat \ {0}
      /\ \/ task_queue' = q /\ position' <= p
         \/ task_queue' = Backend!Without(q, removing) /\ position' >= p
  <2>1. CASE task_queue = q /\ position <= p
    <3>1. position \in 1..Len(q)
      BY <1>1, <1>3, <2>1
    <3>2. CASE q[position] # removing
      BY <1>1, <1>2, <1>3, <2>1, <3>1, <3>2 DEF RetainTurn
    <3>3. CASE q[position] = removing
      BY <1>1, <1>2, <1>3, <2>1, <3>1, <3>3 DEF RetainTurn
    <3>4. QED BY <3>2, <3>3
  <2>2. CASE task_queue = Backend!Without(q, removing) /\ position >= p
    <3>1. Len(task_queue) = Len(q) - 1
      BY <1>2, <1>3, <2>2
    <3>2. position <= Len(q) - 1 /\ ~(position < p)
      BY <1>1, <1>3, <2>2, <3>1 DEF RetainTurn
    <3>3. task_queue[position] = q[position + 1]
      BY <1>1, <1>3, <2>2, <3>2
    <3>4. task_queue[position] # removing
      BY <1>1, <1>2, <1>3, <3>2, <3>3
    <3>5. QED BY <1>1, <1>2, <1>3, <2>2, <3>4 DEF RetainTurn
  <2>3. QED BY <1>2, <2>1, <2>2
<1>5. Retaining'
  BY <1>1, <1>2, <1>4 DEF Retaining
<1>6. QED BY <1>1, <1>5 DEF Inv, BeforeOK

\* At the end of the queue the task is out of it.
LEMMA RetainEndsInStep ==
  ASSUME Inv, RetainEnds
  PROVE  Inv' /\ task_queue' = Backend!Without(before.task_queue, removing)
<1> DEFINE q == before.task_queue
<1>1. /\ BeforeOK /\ loop = "retain" /\ loop' = "done" /\ before' = before
      /\ task_queue' = task_queue /\ position > Len(task_queue)
      /\ position \in Nat \ {0}
  BY DEF Inv, RetainEnds, Done, loopVars, stateVars, Retaining
<1>2. PICK p \in 1..Len(q) :
        /\ q[p] = removing
        /\ \/ task_queue = q /\ position <= p
           \/ task_queue = Backend!Without(q, removing) /\ position >= p
  BY <1>1 DEF Inv, Retaining
<1>3. Len(q) \in Nat
  BY <1>1, <1>2, WithoutFacts
<1>4. task_queue = Backend!Without(q, removing)
  BY <1>1, <1>2, <1>3
<1>5. QED BY <1>1, <1>4 DEF Inv, BeforeOK

-----------------------------------------------------------------------------
\* Every step keeps the invariant.
LEMMA NextKeepsInv == Inv /\ [Next]_vars => Inv'
<1> SUFFICES ASSUME Inv, [Next]_vars PROVE Inv'
  OBVIOUS
<1>1. CASE AssignTask
  BY <1>1, AssignTaskKeepsInv
<1>2. CASE ScheduleEnds
  BY <1>2, ScheduleEndsInPick
<1>3. CASE SpawnMachine(TRUE)
  BY <1>3, SpawnMachineKeepsInv
<1>4. CASE SpawnMachine(FALSE)
  BY <1>4, SpawnFailsInStep
<1>5. CASE ReconcileEnds
  BY <1>5, ReconcileEndsInStep
<1>6. CASE RetainTurn
  BY <1>6, RetainTurnKeepsInv
<1>7. CASE RetainEnds
  BY <1>7, RetainEndsInStep
<1>8. CASE UNCHANGED vars
  <2>1. /\ loop' = loop /\ before' = before /\ removing' = removing /\ position' = position
        /\ machines' = machines /\ tasks' = tasks /\ task_queue' = task_queue
        /\ next_machine_id' = next_machine_id /\ nspawn' = nspawn /\ probe' = probe
        /\ unit' = unit
    BY <1>8 DEF vars, loopVars, stateVars
  <2>2. Fresh(1)' = Fresh(1) /\ Active' = Active
    BY <2>1 DEF Fresh, Active
  <2>3. BeforeOK'
    BY <2>1 DEF Inv, BeforeOK
  <2>4. Scheduling => Scheduling'
    BY <2>1 DEF Scheduling
  <2>5. Reconciling => Reconciling'
    BY <2>1, <2>2 DEF Reconciling, Fresh
  <2>6. Retaining => Retaining'
    BY <2>1 DEF Retaining
  <2>7. QED BY <2>1, <2>3, <2>4, <2>5, <2>6 DEF Inv
<1>9. QED BY <1>1, <1>2, <1>3, <1>4, <1>5, <1>6, <1>7, <1>8 DEF Next

\* Whatever has been queued and whichever machines there are, a loop that runs
\* has done what Inv says (schedule_queued_tasks, reconcile_pool_internal, retain).
THEOREM LoopsInvariance == Spec => []Inv
<1>1. QED BY InitInv, NextKeepsInv, PTL DEF Spec

\* The step that ends a loop makes, of the state in which it began, the one step
\* that NspawnBackend has for the whole loop.
LEMMA EndsInStep ==
  ASSUME Inv, Next, loop' = "done"
  PROVE  /\ (loop = "schedule") =>
              \E pick \in Backend!Picks(before.machines, before.task_queue) :
                /\ Backend!Picks(before.machines, before.task_queue) = {pick}
                /\ machines' = Backend!AssignMachines(before.machines, before.task_queue, pick)
                /\ Backend!ScheduleTasks(before.tasks, before.task_queue, pick)
         /\ (loop = "reconcile") => Backend!ReconcilePoolLogged(before.machines)
         /\ (loop = "retain") => task_queue' = Backend!Without(before.task_queue, removing)
<1>1. CASE AssignTask
  BY <1>1 DEF AssignTask
<1>2. CASE ScheduleEnds
  BY <1>2, ScheduleEndsInPick DEF ScheduleEnds
<1>3. CASE SpawnMachine(TRUE)
  BY <1>3, SpawnMachineKeepsInv
<1>4. CASE SpawnMachine(FALSE)
  BY <1>4, SpawnFailsInStep DEF SpawnMachine
<1>5. CASE ReconcileEnds
  BY <1>5, ReconcileEndsInStep DEF ReconcileEnds
<1>6. CASE RetainTurn
  BY <1>6, RetainTurnKeepsInv
<1>7. CASE RetainEnds
  BY <1>7, RetainEndsInStep DEF RetainEnds
<1>8. QED BY <1>1, <1>2, <1>3, <1>4, <1>5, <1>6, <1>7 DEF Next

\* The loops of the actor do what NspawnBackend has as one step, for every pool
\* and every queue: schedule_queued_tasks makes the one pick there is,
\* reconcile_pool_internal, also when a spawn fails, is a step of
\* ReconcilePoolLogged, and retain takes the one position out of the queue.
THEOREM LoopsComputeSteps == Spec => LoopsAreOneStep
<1> DEFINE OneStep ==
      /\ (loop = "schedule" /\ loop' = "done") =>
           \E pick \in Backend!Picks(before.machines, before.task_queue) :
             /\ Backend!Picks(before.machines, before.task_queue) = {pick}
             /\ machines' = Backend!AssignMachines(before.machines, before.task_queue, pick)
             /\ Backend!ScheduleTasks(before.tasks, before.task_queue, pick)
      /\ (loop = "reconcile" /\ loop' = "done") => Backend!ReconcilePoolLogged(before.machines)
      /\ (loop = "retain" /\ loop' = "done") =>
           task_queue' = Backend!Without(before.task_queue, removing)
<1>1. Inv /\ Next => OneStep
  BY EndsInStep
<1> HIDE DEF OneStep
<1>2. Inv /\ [Next]_vars => [OneStep]_vars
  BY <1>1
<1>3. Spec => [][OneStep]_vars
  BY <1>2, LoopsInvariance, PTL DEF Spec
<1>4. QED BY <1>3 DEF OneStep, LoopsAreOneStep

=============================================================================
