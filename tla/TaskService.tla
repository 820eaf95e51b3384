----------------------------- MODULE TaskService -----------------------------
(***************************************************************************)
(* What a backend promises the clients of the daemon about their tasks,    *)
(* whatever machines do (trait VmBackend of                                *)
(* src/crates/shargon-backend/src/lib.rs): tasks are accepted in order,    *)
(* start in that order, at most Slots of them run at a time, and each gets *)
(* one verdict that agrees with the requests for its cancellation, with    *)
(* one reservation: a task given up for lost may still report its result.  *)
(* NspawnBackend implements this specification.                            *)
(***************************************************************************)
EXTENDS Naturals, FiniteSets

CONSTANTS
  TaskId,  \* the ids that tasks get, numbers in order
  Slots    \* how many tasks may run at a time

VARIABLES
  status,     \* the state of each task, "Absent" before it is submitted
  requested,  \* the tasks whose cancellation was requested while they ran
  lost        \* the tasks given up as Failed that may still report

vars == <<status, requested, lost>>

Status == {"Absent", "Queued", "Running", "Succeeded", "Failed", "Cancelled"}

Init ==
  /\ status = [t \in TaskId |-> "Absent"]
  /\ requested = {}
  /\ lost = {}

Running(s) == {t \in TaskId : s[t] = "Running"}

\* From the statuses s, the first few of the queued tasks start.
StartSome(s) ==
  /\ status' \in [TaskId -> Status]
  /\ \A t \in TaskId : \/ status'[t] = s[t]
                       \/ s[t] = "Queued" /\ status'[t] = "Running"
  /\ \A t, u \in TaskId : u < t /\ s[t] = "Queued" /\ status'[t] = "Running"
                            => status'[u] # "Queued"
  /\ Cardinality(Running(status')) <= Slots

\* start_task: ids are given out in order.
Submit(t) ==
  /\ status[t] = "Absent"
  /\ \A u \in TaskId : u < t => status[u] # "Absent"
  /\ StartSome([status EXCEPT ![t] = "Queued"])
  /\ UNCHANGED <<requested, lost>>

\* cancel_task: a queued task never starts, a running one ends as it likes.
CancelQueued(t) ==
  /\ status[t] = "Queued"
  /\ status' = [status EXCEPT ![t] = "Cancelled"]
  /\ UNCHANGED <<requested, lost>>

RequestCancel(t) ==
  /\ status[t] = "Running"
  /\ requested' = requested \cup {t}
  /\ UNCHANGED <<status, lost>>

\* A result comes: of a running task, or at last of one given up.
Result(t) == IF t \in requested THEN {"Cancelled"} ELSE {"Succeeded", "Failed"}

Report(t) ==
  /\ status[t] = "Running" \/ t \in lost
  /\ \E verdict \in Result(t) : StartSome([status EXCEPT ![t] = verdict])
  /\ lost' = lost \ {t}
  /\ UNCHANGED requested

\* A running task is given up.
GiveUp(t) ==
  /\ status[t] = "Running"
  /\ status' = [status EXCEPT ![t] = "Failed"]
  /\ lost' = lost \cup {t}
  /\ UNCHANGED requested

\* A machine becomes ready.
Start ==
  /\ StartSome(status)
  /\ UNCHANGED <<requested, lost>>

Next == \/ Start
        \/ \E t \in TaskId : \/ Submit(t) \/ CancelQueued(t) \/ RequestCancel(t)
                             \/ Report(t) \/ GiveUp(t)

Spec == Init /\ [][Next]_vars

=============================================================================
