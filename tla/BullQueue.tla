----------------------------- MODULE BullQueue ------------------------------
(***************************************************************************)
(* The closure job of one RFQ in the Node backend: scheduler/queue.ts and   *)
(* what it relies on in BullMQ (external).  The job has the fixed id        *)
(* "rfq_<id>", so the queue holds at most one:                              *)
(*   none      no job with this id;                                         *)
(*   delayed   waiting until `due` (a job without delay waits no longer);   *)
(*   active    taken by a worker, which holds its lock;                     *)
(*   finished  completed or failed: BullMQ keeps the job, and its id.       *)
(* `stalls` counts the times a worker died with the job.                    *)
(***************************************************************************)
EXTENDS Integers

CONSTANT MaxTime       \* bound on the clock

ASSUME NodeClockAssumption == MaxTime \in Nat

VARIABLES now, job

NoJob == [state |-> "none", due |-> 0, stalls |-> 0]

Jobs == [state : {"none", "delayed", "active", "finished"}, due : 0..MaxTime, stalls : 0..1]

(* Mutant: the old job is left where it is. *)
JobKept == job' = job

(* queue.remove deletes a job that waits or is finished.  A job whose lock  *)
(* is held stays, and remove says so only by its result, which is dropped.  *)
RemoveJob == job' = IF job.state = "active" THEN job ELSE NoJob

(* queue.add does nothing when the id exists, in whatever state.  A job due *)
(* past the modelled clock is due at its end.                               *)
AddJob(delay) ==
    job' = IF job.state # "none" THEN job
           ELSE [state  |-> "delayed",
                 due    |-> IF now + delay < MaxTime THEN now + delay ELSE MaxTime,
                 stalls |-> 0]

(* A worker takes a job that is due. *)
TakeJob ==
    /\ job.state = "delayed"
    /\ job.due <= now
    /\ job' = [job EXCEPT !.state = "active"]

(* The processor returned or threw: there is no second attempt. *)
FinishJob == job' = [job EXCEPT !.state = "finished"]

(* A job whose worker died is given out once more, then it has failed. *)
Unstall ==
    /\ job.state = "active"
    /\ job' = IF job.stalls = 0
              THEN [state |-> "delayed", due |-> now, stalls |-> 1]
              ELSE [job EXCEPT !.state = "finished"]
=============================================================================
