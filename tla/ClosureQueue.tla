---------------------------- MODULE ClosureQueue ----------------------------
(***************************************************************************)
(* The closure task of one RFQ: backend/internal/worker/queue_impl.go and   *)
(* what it relies on in asynq (external).  The task has a fixed id          *)
(* ("rfq_closure_<id>"), so the queue holds at most one:                    *)
(*   none       no task with this id;                                       *)
(*   scheduled  waiting in Redis until `due` (scheduled, pending or retry); *)
(*   active     handed to the worker, which has not answered yet.           *)
(* ScheduleClosure is two Redis calls, DeleteTask and then Enqueue, whose   *)
(* errors are ignored or dropped by every caller; CancelClosure is the      *)
(* first of them.                                                           *)
(***************************************************************************)
EXTENDS Integers

CONSTANTS MaxTime,     \* bound on the clock
          EarlyBy      \* ticks before `due` at which the server may fire

ASSUME ClockAssumption == MaxTime \in Nat /\ EarlyBy \in Nat

VARIABLES now, task

NoTask == [state |-> "none", due |-> 0]

Tasks == [state : {"none", "scheduled", "active"}, due : 0..MaxTime]

(* Mutant: the waiting task is not deleted. *)
TaskKept == task' = task

(* DeleteTask removes a task that waits; an active one it cannot.           *)
DeleteTask ==
    task' = IF task.state = "active" THEN task ELSE NoTask

(* Enqueue with TaskID is refused (ErrTaskIDConflict) while the queue knows *)
(* the id, an active task included.  A task due past the modelled clock is  *)
(* due at its end.                                                          *)
Enqueue(delay) ==
    task' = IF task.state # "none" THEN task
            ELSE [state |-> "scheduled",
                  due   |-> IF now + delay < MaxTime THEN now + delay ELSE MaxTime]

(* The server hands the task to the worker.  Redis keeps process_at in      *)
(* whole seconds, so a task may fire a little before it is due.             *)
Fire ==
    /\ task.state = "scheduled"
    /\ now + EarlyBy >= task.due
    /\ task' = [task EXCEPT !.state = "active"]

(* The handler returned nil: the task is done and its id is free. *)
Complete == task' = NoTask

(* The handler returned an error, or its process died and the lease ran     *)
(* out: the task waits to be handed out again.                              *)
Redeliver ==
    task' = IF task.state = "active"
            THEN [state |-> "scheduled", due |-> now] ELSE task
============================================================================
