------------------------- MODULE IndexJobScheduler -------------------------
(***************************************************************************)
(* The in-process scheduler of index builds (admin_index_jobs.py).         *)
(*                                                                         *)
(* HTTP handler threads call submit, one daemon thread per running job     *)
(* executes the pipeline and then calls _finish_job.  Both decide under    *)
(* the scheduler's lock, so each is one action here; thread.start() is     *)
(* called after the lock is released and is an action of its own.          *)
(*                                                                         *)
(* A submit that is refused or deduplicated changes nothing: its answer is *)
(* the operator Answer.                                                    *)
(***************************************************************************)
EXTENDS Integers, Sequences, FiniteSets

CONSTANTS
  JobId,              \* the uuids submit may draw
  Db,                 \* normalised database paths (db_key)
  Snapshot,           \* repo@commit (snapshot_key)
  Fingerprint,        \* digests of the build configuration
  Request,            \* the well-formed requests that clients make
  ServeDb,            \* the database the process serves from
  None,               \* Python's None
  MaxConcurrentJobs,  \* constructor arguments, any integers
  MaxQueueSize,
  MaxJobs,            \* _MAX_JOBS, the registry's soft limit
  ThreadsMayFail      \* whether a thread may fail to start or die unheard

ASSUME JobIdAssumption == IsFiniteSet(JobId) /\ None \notin JobId
ASSUME RequestAssumption ==
  /\ Request \subseteq [db : Db, snapshot : Snapshot, fingerprint : Fingerprint]
  /\ None \notin Request
ASSUME LimitAssumption == /\ MaxConcurrentJobs \in Int
                          /\ MaxQueueSize \in Int
                          /\ MaxJobs \in Nat
                          /\ ThreadsMayFail \in BOOLEAN

AtLeast(m, n) == IF n < m THEN m ELSE n
MaxRunning == AtLeast(1, MaxConcurrentJobs)
MaxQueued  == AtLeast(0, MaxQueueSize)

VARIABLES
  \* the records (IndexJobRecord), which outlive their registration
  status,     \* "new" before submit draws the id
  req,        \* the keys of the accepted request
  position,   \* queue_position, 0 for None
  created,    \* created_at_ms, as the rank of the creation
  \* the scheduler's tables
  jobs,       \* _jobs
  queue,      \* _queued_job_ids
  running,    \* _running_job_ids
  dbOwner,    \* _occupied_db_keys
  snapOwner,  \* _occupied_snapshot_keys
  sigOwner,   \* _active_signatures
  \* the worker threads
  worker

records == <<status, req, position, created>>
owners  == <<dbOwner, snapOwner, sigOwner>>
vars == <<records, jobs, queue, running, owners, worker>>

Active   == {"queued", "running"}
Terminal == {"succeeded", "failed"}

Init ==
  /\ status = [j \in JobId |-> "new"]
  /\ req = [j \in JobId |-> None]
  /\ position = [j \in JobId |-> 0]
  /\ created = [j \in JobId |-> 0]
  /\ jobs = {}
  /\ queue = <<>>
  /\ running = {}
  /\ dbOwner = [d \in Db |-> None]
  /\ snapOwner = [s \in Snapshot |-> None]
  /\ sigOwner = [r \in Request |-> None]
  /\ worker = [j \in JobId |-> "none"]

-----------------------------------------------------------------------------
(* Helpers that run under the scheduler's lock.                            *)

(* Faulty: forgets the oldest jobs, ended or not.                          *)
PrunedWhateverStatus(js, st, cr) ==
  js \ {j \in js : Cardinality({k \in js : cr[k] < cr[j]}) < Cardinality(js) - MaxJobs}

(* _prune_jobs_locked: above MaxJobs, forget the oldest terminal jobs.     *)
Pruned(js, st, cr) ==
  LET terminal == {j \in js : st[j] \notin Active}
      excess == Cardinality(js) - MaxJobs
  IN  js \ {j \in terminal : Cardinality({k \in terminal : cr[k] < cr[j]}) < excess}

(* The places of q that hold a registered job that is still queued.        *)
Waiting(q, js, st) == {i \in DOMAIN q : q[i] \in js /\ st[q[i]] = "queued"}

(* The elements of q at the places in S, in order.                         *)
Kept(q, S) ==
  [n \in 1..Cardinality(S) |->
     q[CHOOSE i \in S : Cardinality({k \in S : k <= i}) = n]]

(* Faulty: numbers only the jobs that have no position yet.                *)
RefreshQueueNewOnly(q, js, st, pos) ==
  LET W == Waiting(q, js, st)
  IN  /\ queue' = Kept(q, W)
      /\ position' = [j \in JobId |->
                        IF pos[j] = 0 /\ \E i \in W : q[i] = j
                        THEN CHOOSE i \in W : q[i] = j
                        ELSE pos[j]]

(* _refresh_queue_positions_locked, called when the queue is q.  A kept    *)
(* job is numbered by its place in q, before others are dropped from q.    *)
RefreshQueue(q, js, st, pos) ==
  LET W == Waiting(q, js, st)
  IN  /\ queue' = Kept(q, W)
      /\ position' = [j \in JobId |->
                        IF \E i \in W : q[i] = j
                        THEN CHOOSE i \in W : q[i] = j
                        ELSE pos[j]]

-----------------------------------------------------------------------------
(* submit *)

(* Faulty: the snapshot table is not consulted.                            *)
AnswerIgnoringSnapshot(r) ==
  IF sigOwner[r] \in jobs /\ status[sigOwner[r]] \in Active THEN "deduped"
  ELSE IF r.db = ServeDb THEN "serve_db"
  ELSE IF dbOwner[r.db] # None THEN "db_path"
  ELSE IF Cardinality(running) < MaxRunning THEN "running"
  ELSE IF Len(queue) >= MaxQueued THEN "queue_full"
  ELSE "queued"

(* Faulty: one job too many may run.                                       *)
AnswerOneTooMany(r) ==
  IF sigOwner[r] \in jobs /\ status[sigOwner[r]] \in Active THEN "deduped"
  ELSE IF r.db = ServeDb THEN "serve_db"
  ELSE IF dbOwner[r.db] # None THEN "db_path"
  ELSE IF snapOwner[r.snapshot] # None THEN "snapshot"
  ELSE IF Cardinality(running) <= MaxRunning THEN "running"
  ELSE IF Len(queue) >= MaxQueued THEN "queue_full"
  ELSE "queued"

(* What submit answers to request r in the current state.                  *)
Answer(r) ==
  IF sigOwner[r] \in jobs /\ status[sigOwner[r]] \in Active THEN "deduped"
  ELSE IF r.db = ServeDb THEN "serve_db"
  ELSE IF dbOwner[r.db] # None THEN "db_path"
  ELSE IF snapOwner[r.snapshot] # None THEN "snapshot"
  ELSE IF Cardinality(running) < MaxRunning THEN "running"
  ELSE IF Len(queue) >= MaxQueued THEN "queue_full"
  ELSE "queued"

(* The record of a fresh job and its entries in the ownership tables.      *)
Register(j, r) ==
  /\ status[j] = "new"
  /\ req' = [req EXCEPT ![j] = r]
  /\ created' = [created EXCEPT ![j] = 1 + Cardinality({k \in JobId : status[k] # "new"})]
  /\ dbOwner' = [dbOwner EXCEPT ![r.db] = j]
  /\ snapOwner' = [snapOwner EXCEPT ![r.snapshot] = j]
  /\ sigOwner' = [sigOwner EXCEPT ![r] = j]

SubmitRunning(j, r) ==
  /\ Answer(r) = "running"
  /\ Register(j, r)
  /\ status' = [status EXCEPT ![j] = "running"]
  /\ running' = running \cup {j}
  /\ worker' = [worker EXCEPT ![j] = "starting"]
  /\ jobs' = Pruned(jobs \cup {j}, status', created')
  /\ UNCHANGED <<queue, position>>

(* Faulty: the new job goes to the front of the queue.                     *)
SubmitQueuedFirst(j, r) ==
  /\ Answer(r) = "queued"
  /\ Register(j, r)
  /\ status' = [status EXCEPT ![j] = "queued"]
  /\ RefreshQueue(<<j>> \o queue, jobs \cup {j}, status', position)
  /\ jobs' = Pruned(jobs \cup {j}, status', created')
  /\ UNCHANGED <<running, worker>>

SubmitQueued(j, r) ==
  /\ Answer(r) = "queued"
  /\ Register(j, r)
  /\ status' = [status EXCEPT ![j] = "queued"]
  /\ RefreshQueue(Append(queue, j), jobs \cup {j}, status', position)
  /\ jobs' = Pruned(jobs \cup {j}, status', created')
  /\ UNCHANGED <<running, worker>>

-----------------------------------------------------------------------------
(* The worker threads *)

(* _start_worker: thread.start() returns.                                  *)
StartWorker(j) ==
  /\ worker[j] = "starting"
  /\ worker' = [worker EXCEPT ![j] = "building"]
  /\ UNCHANGED <<records, jobs, queue, running, owners>>

(* thread.start() raises, or the worker leaves by an exception that        *)
(* `except Exception` does not catch: nobody calls _finish_job.            *)
LoseWorker(j) ==
  /\ ThreadsMayFail
  /\ worker[j] \in {"starting", "building"}
  /\ worker' = [worker EXCEPT ![j] = "lost"]
  /\ UNCHANGED <<records, jobs, queue, running, owners>>

(* Faulty: the entry stays after the job has ended.                        *)
ReleasedNothing(owner, key, j) == owner

(* _finish_job's release of one ownership entry, if it is still j's.       *)
Released(owner, key, j) == IF owner[key] = j THEN [owner EXCEPT ![key] = None] ELSE owner

(* Faulty: the popped jobs are not marked running.                         *)
PromotedNone(k, st) == {}

(* The jobs that leave the first k places of the queue for a slot.         *)
Promoted(k, st) == {queue[i] : i \in Waiting(queue, jobs, st) \cap (1..k)}

(* _finish_job: the pipeline of job j returned (succeeded) or raised       *)
(* (failed).  The queue's head is popped while a slot is free; k entries   *)
(* are popped in all.                                                      *)
FinishJob(j, result) ==
  /\ worker[j] = "building"
  /\ LET ended == [status EXCEPT ![j] = result]
         slots(k) == (running \ {j}) \cup Promoted(k, ended)
     IN \E k \in 0..Len(queue) :
          /\ \A m \in 0..(k - 1) : Cardinality(slots(m)) < MaxRunning
          /\ k < Len(queue) => Cardinality(slots(k)) >= MaxRunning
          /\ status' = [i \in JobId |-> IF i \in Promoted(k, ended) THEN "running" ELSE ended[i]]
          /\ running' = slots(k)
          /\ worker' = [i \in JobId |-> IF i = j THEN "exited"
                                        ELSE IF i \in Promoted(k, ended) THEN "starting"
                                        ELSE worker[i]]
          /\ RefreshQueue(SubSeq(queue, k + 1, Len(queue)), jobs, status',
                          [i \in JobId |-> IF i = j \/ i \in Promoted(k, ended)
                                           THEN 0 ELSE position[i]])
  /\ dbOwner' = Released(dbOwner, req[j].db, j)
  /\ snapOwner' = Released(snapOwner, req[j].snapshot, j)
  /\ sigOwner' = Released(sigOwner, req[j], j)
  /\ jobs' = Pruned(jobs, status', created)
  /\ UNCHANGED <<req, created>>

Next ==
  \E j \in JobId :
    \/ \E r \in Request : SubmitRunning(j, r) \/ SubmitQueued(j, r)
    \/ StartWorker(j)
    \/ LoseWorker(j)
    \/ \E result \in Terminal : FinishJob(j, result)

Spec == Init /\ [][Next]_vars

(* The operating system starts a started thread; a pipeline run is finite. *)
Fairness == \A j \in JobId : /\ WF_vars(StartWorker(j))
                             /\ WF_vars(\E result \in Terminal : FinishJob(j, result))

FairSpec == Spec /\ Fairness

-----------------------------------------------------------------------------
(* Type invariant *)

(* The tables and records hold values of the shapes the code gives them.   *)
TypeOK ==
  /\ status \in [JobId -> {"new"} \cup Active \cup Terminal]
  /\ req \in [JobId -> Request \cup {None}]
  /\ position \in [JobId -> Nat]
  /\ created \in [JobId -> Nat]
  /\ jobs \subseteq JobId
  /\ queue \in Seq(JobId)
  /\ running \subseteq JobId
  /\ dbOwner \in [Db -> JobId \cup {None}]
  /\ snapOwner \in [Snapshot -> JobId \cup {None}]
  /\ sigOwner \in [Request -> JobId \cup {None}]
  /\ worker \in [JobId -> {"none", "starting", "building", "lost", "exited"}]

-----------------------------------------------------------------------------
(* Safety *)

ActiveJobs == {j \in JobId : status[j] \in Active}
HasThread(j) == worker[j] \in {"starting", "building"}

(* No two builds, neither under way nor about to start, write the same     *)
(* database or index the same snapshot, and none writes the served one:    *)
(* the reason for _occupied_db_keys and _occupied_snapshot_keys.           *)
ExclusiveBuild ==
  \A j \in JobId : HasThread(j) =>
    /\ req[j].db # ServeDb
    /\ \A k \in JobId \ {j} : HasThread(k) =>
         req[j].db # req[k].db /\ req[j].snapshot # req[k].snapshot

(* What submit answers from its three tables and two counters is what the  *)
(* set of active jobs calls for: a request is deduplicated or refused for  *)
(* a conflict exactly when an active job stands in its way.  A table entry *)
(* that outlives its job, or is lost before it, breaks this.               *)
AnswersAreRight ==
  \A r \in Request :
    LET same == {j \in ActiveJobs : req[j] = r}
        onDb == {j \in ActiveJobs : req[j].db = r.db}
        onSnapshot == {j \in ActiveJobs : req[j].snapshot = r.snapshot}
    IN  /\ Answer(r) = "deduped" <=> same # {}
        /\ Answer(r) = "db_path" <=> same = {} /\ onDb # {}
        /\ Answer(r) = "snapshot" <=> onDb = {} /\ r.db # ServeDb /\ onSnapshot # {}

(* A client can ask for its job until it ends, and is shown its place: the *)
(* registry above MaxJobs gives up ended jobs only, the queue is exactly   *)
(* the queued jobs, oldest first, and queue_position, rewritten only when  *)
(* the queue changes, is the job's place in it.  So the branches that skip *)
(* an unknown or no longer queued id are never taken.                      *)
ClientsSeeTheirJobs ==
  /\ ActiveJobs \subseteq jobs
  /\ Cardinality(jobs) > MaxJobs => jobs = ActiveJobs
  /\ {queue[i] : i \in DOMAIN queue} = {j \in jobs : status[j] = "queued"}
  /\ \A i, k \in DOMAIN queue : i < k => created[queue[i]] < created[queue[k]]
  /\ \A j \in JobId :
       IF status[j] = "queued" THEN position[j] \in DOMAIN queue /\ queue[position[j]] = j
                               ELSE position[j] = 0

-----------------------------------------------------------------------------
(* Liveness and refinement *)

Phase(st) == CASE st = "new" -> "new"
               [] st = "queued" -> "waiting"
               [] st = "running" -> "active"
               [] OTHER -> "ended"

Leases == INSTANCE BuildLeases WITH
  Job <- JobId, Lease <- {r \in Request : r.db # ServeDb},
  Slots <- MaxRunning, LineLimit <- MaxQueued,
  phase <- [j \in JobId |-> Phase(status[j])], lease <- req, line <- queue

(* The scheduler is a lease service: exclusive databases and snapshots, a  *)
(* bounded line, and a freed slot that passes to the head of the line in   *)
(* the same step.                                                          *)
IsLeaseService == Leases!Spec

(* With started threads and finite pipelines it is a fair one, in which    *)
(* every accepted job, queued or running, eventually ends.                 *)
IsFairLeaseService == Leases!FairSpec
=============================================================================
