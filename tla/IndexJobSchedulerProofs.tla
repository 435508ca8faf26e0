----------------------- MODULE IndexJobSchedulerProofs -----------------------
(***************************************************************************)
(* Proofs about the scheduler for any number of jobs, requests and slots,  *)
(* with or without lost threads.                                           *)
(***************************************************************************)
EXTENDS IndexJobScheduler, FiniteSetTheorems, SequenceTheorems, TLAPS

-----------------------------------------------------------------------------
(* The inductive invariant *)

(* A job that was accepted has its request, and no other job has anything; *)
(* an accepted job is never for the served database.                       *)
RecordsInv ==
  \A j \in JobId :
    /\ status[j] = "new" => worker[j] = "none" /\ j \notin jobs
    /\ status[j] # "new" => req[j] \in Request /\ req[j].db # ServeDb

(* Every active job is registered.                                         *)
RegisteredInv == \A j \in JobId : status[j] \in Active => j \in jobs

(* A worker thread that has not called _finish_job belongs to a job that   *)
(* is marked running.                                                      *)
ThreadInv ==
  \A j \in JobId : worker[j] \in {"starting", "building", "lost"} => status[j] = "running"

(* An entry of an ownership table names the active job with that key, and  *)
(* every active job has its three entries.                                 *)
OwnersInv ==
  \A j \in JobId :
    /\ \A d \in Db : dbOwner[d] = j <=> status[j] \in Active /\ req[j].db = d
    /\ \A s \in Snapshot : snapOwner[s] = j <=> status[j] \in Active /\ req[j].snapshot = s
    /\ \A r \in Request : sigOwner[r] = j <=> status[j] \in Active /\ req[j] = r

(* The queue holds queued, registered jobs, each at one place only.        *)
QueueInv ==
  /\ \A i \in DOMAIN queue : queue[i] \in jobs /\ status[queue[i]] = "queued"
  /\ \A i, k \in DOMAIN queue : queue[i] = queue[k] => i = k

Inv == TypeOK /\ RecordsInv /\ RegisteredInv /\ ThreadInv /\ OwnersInv /\ QueueInv

-----------------------------------------------------------------------------
(* Lemmas about the helpers *)

(* Refreshing a queue that has nothing to drop leaves it as it is.         *)
LEMMA KeptAll ==
  ASSUME NEW S, NEW q \in Seq(S)
  PROVE  Kept(q, DOMAIN q) = q
<1> DEFINE place(n) == CHOOSE i \in DOMAIN q : Cardinality({k \in DOMAIN q : k <= i}) = n
<1>1. Len(q) \in Nat /\ DOMAIN q = 1..Len(q) /\ q \in [1..Len(q) -> S]
  BY LenProperties
<1>2. Cardinality(DOMAIN q) = Len(q)
  BY <1>1, FS_Interval
<1>3. ASSUME NEW n \in 1..Len(q)
      PROVE  place(n) = n
  <2>1. ASSUME NEW i \in DOMAIN q
        PROVE  Cardinality({k \in DOMAIN q : k <= i}) = i
    <3>1. {k \in DOMAIN q : k <= i} = 1..i
      BY <1>1
    <3>2. i \in Int /\ 1 \in Int /\ ~(1 > i) /\ i - 1 + 1 = i
      BY <1>1
    <3> QED
      BY <3>1, <3>2, FS_Interval
  <2> QED
    BY <1>1, <2>1
<1>4. Kept(q, DOMAIN q) = [n \in 1..Cardinality(DOMAIN q) |-> q[place(n)]]
  BY DEF Kept
<1> HIDE DEF place
<1>5. [n \in 1..Cardinality(DOMAIN q) |-> q[place(n)]] = [n \in 1..Len(q) |-> q[n]]
  BY <1>2, <1>3
<1> QED
  BY <1>1, <1>4, <1>5

(* Pruning forgets jobs that have ended and no other.                      *)
LEMMA PrunedKeepsActive ==
  ASSUME NEW js, NEW st, NEW cr
  PROVE  /\ Pruned(js, st, cr) \subseteq js
         /\ \A j \in js : st[j] \in Active => j \in Pruned(js, st, cr)
BY DEF Pruned

(* What a refresh does to a queue of registered, queued jobs.              *)
LEMMA RefreshKeepsLiveQueue ==
  ASSUME NEW q \in Seq(JobId), NEW js, NEW st,
         NEW pos \in [JobId -> Nat],
         \A i \in DOMAIN q : q[i] \in js /\ st[q[i]] = "queued",
         RefreshQueue(q, js, st, pos)
  PROVE  queue' = q /\ position' \in [JobId -> Nat]
<1>1. Waiting(q, js, st) = DOMAIN q
  BY DEF Waiting
<1>2. queue' = q
  BY <1>1, KeptAll DEF RefreshQueue
<1>3. DOMAIN q \subseteq Nat
  BY LenProperties
<1>4. ASSUME NEW j \in JobId
      PROVE  position'[j] \in Nat
  <2>1. CASE \E i \in DOMAIN q : q[i] = j
    <3>1. position'[j] = CHOOSE i \in DOMAIN q : q[i] = j
      BY <1>1, <2>1 DEF RefreshQueue
    <3> QED
      BY <1>3, <2>1, <3>1
  <2>2. CASE ~ \E i \in DOMAIN q : q[i] = j
    BY <1>1, <2>2 DEF RefreshQueue
  <2> QED
    BY <2>1, <2>2
<1>5. position' = [j \in JobId |-> position'[j]]
  BY DEF RefreshQueue
<1> QED
  BY <1>2, <1>4, <1>5

-----------------------------------------------------------------------------
(* The invariant is inductive *)

LEMMA InvInit == Init => Inv
<1> SUFFICES ASSUME Init PROVE Inv
  OBVIOUS
<1> USE JobIdAssumption DEF Init, Active
<1>1. TypeOK
  BY DEF TypeOK
<1>2. RecordsInv /\ RegisteredInv /\ ThreadInv
  BY DEF RecordsInv, RegisteredInv, ThreadInv
<1>3. OwnersInv
  BY DEF OwnersInv
<1>4. QueueInv
  BY DEF QueueInv
<1> QED
  BY <1>1, <1>2, <1>3, <1>4 DEF Inv

(* Accepting a request: the answer shows that its keys are free, and       *)
(* entering the fresh job makes the tables right again, whichever of the   *)
(* two statuses the job gets.                                              *)
LEMMA RegisterOwners ==
  ASSUME Inv, NEW j \in JobId, NEW r \in Request,
         Answer(r) \in {"running", "queued"}, Register(j, r),
         NEW st \in Active, status' = [status EXCEPT ![j] = st]
  PROVE  /\ r.db # ServeDb
         /\ req' \in [JobId -> Request \cup {None}]
         /\ created' \in [JobId -> Nat]
         /\ dbOwner' \in [Db -> JobId \cup {None}]
         /\ snapOwner' \in [Snapshot -> JobId \cup {None}]
         /\ sigOwner' \in [Request -> JobId \cup {None}]
         /\ OwnersInv'
<1> USE DEF Inv, TypeOK
<1>1. r.db \in Db /\ r.snapshot \in Snapshot
  BY RequestAssumption
<1>2. r.db # ServeDb /\ dbOwner[r.db] = None /\ snapOwner[r.snapshot] = None
  BY DEF Answer
<1>3. ~ (sigOwner[r] \in jobs /\ status[sigOwner[r]] \in Active)
  BY DEF Answer
<1>4. created' \in [JobId -> Nat]
  <2>1. Cardinality({k \in JobId : status[k] # "new"}) \in Nat
    BY JobIdAssumption, FS_Subset, FS_CardinalityType
  <2> QED
    BY <2>1 DEF Register
<1>5. req' \in [JobId -> Request \cup {None}]
  BY DEF Register
<1>6. /\ dbOwner' = [dbOwner EXCEPT ![r.db] = j]
      /\ snapOwner' = [snapOwner EXCEPT ![r.snapshot] = j]
      /\ sigOwner' = [sigOwner EXCEPT ![r] = j]
      /\ req' = [req EXCEPT ![j] = r]
      /\ status[j] = "new"
  BY DEF Register
<1>7. /\ dbOwner' \in [Db -> JobId \cup {None}]
      /\ snapOwner' \in [Snapshot -> JobId \cup {None}]
      /\ sigOwner' \in [Request -> JobId \cup {None}]
  BY <1>1, <1>6
<1>8. ASSUME NEW i \in JobId
      PROVE  /\ \A d \in Db : dbOwner'[d] = i <=> status'[i] \in Active /\ req'[i].db = d
             /\ \A s \in Snapshot :
                  snapOwner'[s] = i <=> status'[i] \in Active /\ req'[i].snapshot = s
             /\ \A q \in Request : sigOwner'[q] = i <=> status'[i] \in Active /\ req'[i] = q
  <2>1. CASE i = j
    <3>1. status'[i] \in Active /\ req'[i] = r
      BY <1>6, <2>1
    <3>2. /\ \A d \in Db : dbOwner[d] # j
          /\ \A s \in Snapshot : snapOwner[s] # j
          /\ \A q \in Request : sigOwner[q] # j
      BY <1>6 DEF OwnersInv, Active
    <3> QED
      BY <1>1, <1>6, <2>1, <3>1, <3>2
  <2>2. CASE i # j
    <3>1. status'[i] = status[i] /\ req'[i] = req[i]
      BY <1>6, <2>2
    <3>2. ~ (status[i] \in Active /\ (req[i].db = r.db \/ req[i].snapshot = r.snapshot))
      BY <1>1, <1>2, JobIdAssumption DEF OwnersInv
    <3>3. dbOwner[r.db] # i /\ snapOwner[r.snapshot] # i /\ sigOwner[r] # i
      BY <1>1, <3>2 DEF OwnersInv
    <3> QED
      BY <1>1, <1>6, <2>2, <3>1, <3>2, <3>3 DEF OwnersInv
  <2> QED
    BY <2>1, <2>2
<1>9. OwnersInv'
  BY <1>8 DEF OwnersInv
<1> QED
  BY <1>2, <1>4, <1>5, <1>7, <1>9

LEMMA SubmitRunningKeepsInv ==
  ASSUME Inv, NEW j \in JobId, NEW r \in Request, SubmitRunning(j, r)
  PROVE  Inv'
<1> USE DEF Active
<1>1. /\ Answer(r) \in {"running", "queued"} /\ Register(j, r)
      /\ status' = [status EXCEPT ![j] = "running"]
      /\ running' = running \cup {j}
      /\ worker' = [worker EXCEPT ![j] = "starting"]
      /\ jobs' = Pruned(jobs \cup {j}, status', created')
      /\ queue' = queue /\ position' = position
      /\ status[j] = "new" /\ req' = [req EXCEPT ![j] = r]
  BY DEF SubmitRunning, Register
<1>2. /\ r.db # ServeDb
      /\ req' \in [JobId -> Request \cup {None}]
      /\ created' \in [JobId -> Nat]
      /\ dbOwner' \in [Db -> JobId \cup {None}]
      /\ snapOwner' \in [Snapshot -> JobId \cup {None}]
      /\ sigOwner' \in [Request -> JobId \cup {None}]
      /\ OwnersInv'
  BY <1>1, RegisterOwners
<1>3. /\ jobs' \subseteq jobs \cup {j}
      /\ \A i \in jobs \cup {j} : status'[i] \in Active => i \in jobs'
  BY <1>1, PrunedKeepsActive
<1> USE DEF Inv
<1>4. TypeOK'
  BY <1>1, <1>2, <1>3 DEF TypeOK
<1>5. RecordsInv'
  BY <1>1, <1>2, <1>3 DEF TypeOK, RecordsInv
<1>6. RegisteredInv'
  BY <1>1, <1>3 DEF TypeOK, RegisteredInv
<1>7. ThreadInv'
  BY <1>1 DEF TypeOK, ThreadInv, RecordsInv
<1>8. QueueInv'
  BY <1>1, <1>3 DEF TypeOK, QueueInv
<1> QED
  BY <1>2, <1>4, <1>5, <1>6, <1>7, <1>8

LEMMA SubmitQueuedKeepsInv ==
  ASSUME Inv, NEW j \in JobId, NEW r \in Request, SubmitQueued(j, r)
  PROVE  Inv'
<1> USE DEF Active
<1>1. /\ Answer(r) \in {"running", "queued"} /\ Register(j, r)
      /\ status' = [status EXCEPT ![j] = "queued"]
      /\ RefreshQueue(Append(queue, j), jobs \cup {j}, status', position)
      /\ jobs' = Pruned(jobs \cup {j}, status', created')
      /\ running' = running /\ worker' = worker
      /\ status[j] = "new" /\ req' = [req EXCEPT ![j] = r]
  BY DEF SubmitQueued, Register
<1>2. /\ r.db # ServeDb
      /\ req' \in [JobId -> Request \cup {None}]
      /\ created' \in [JobId -> Nat]
      /\ dbOwner' \in [Db -> JobId \cup {None}]
      /\ snapOwner' \in [Snapshot -> JobId \cup {None}]
      /\ sigOwner' \in [Request -> JobId \cup {None}]
      /\ OwnersInv'
  BY <1>1, RegisterOwners
<1>3. /\ jobs' \subseteq jobs \cup {j}
      /\ \A i \in jobs \cup {j} : status'[i] \in Active => i \in jobs'
  BY <1>1, PrunedKeepsActive
<1> USE DEF Inv
<1>4. /\ Append(queue, j) \in Seq(JobId)
      /\ DOMAIN Append(queue, j) = 1..(Len(queue) + 1)
      /\ DOMAIN queue = 1..Len(queue) /\ Len(queue) \in Nat
      /\ \A i \in DOMAIN queue : Append(queue, j)[i] = queue[i]
      /\ Append(queue, j)[Len(queue) + 1] = j
  BY DEF TypeOK
<1>5. ASSUME NEW i \in DOMAIN Append(queue, j)
      PROVE  Append(queue, j)[i] \in jobs \cup {j} /\ status'[Append(queue, j)[i]] = "queued"
  BY <1>1, <1>4 DEF TypeOK, QueueInv
<1>6. queue' = Append(queue, j) /\ position' \in [JobId -> Nat]
  <2> DEFINE q == Append(queue, j)
             js == jobs \cup {j}
             st == status'
  <2>1. q \in Seq(JobId) /\ position \in [JobId -> Nat]
    BY <1>4 DEF TypeOK
  <2>2. \A i \in DOMAIN q : q[i] \in js /\ st[q[i]] = "queued"
    BY <1>5
  <2>3. RefreshQueue(q, js, st, position)
    BY <1>1
  <2>4. queue' = q /\ position' \in [JobId -> Nat]
    <3> HIDE DEF q, js, st
    <3> QED
      BY <2>1, <2>2, <2>3, RefreshKeepsLiveQueue
  <2> QED
    BY <2>4
<1>7. TypeOK'
  BY <1>1, <1>2, <1>3, <1>4, <1>6 DEF TypeOK
<1>8. RecordsInv'
  BY <1>1, <1>2, <1>3 DEF TypeOK, RecordsInv
<1>9. RegisteredInv'
  BY <1>1, <1>3 DEF TypeOK, RegisteredInv
<1>10. ThreadInv'
  BY <1>1 DEF TypeOK, ThreadInv, RecordsInv
<1>11. QueueInv'
  <2>1. \A i \in DOMAIN queue : queue[i] # j
    BY <1>1 DEF QueueInv
  <2>2. ASSUME NEW i \in DOMAIN queue'
        PROVE  queue'[i] \in jobs' /\ status'[queue'[i]] = "queued"
    BY <1>3, <1>5, <1>6
  <2>3. ASSUME NEW i \in DOMAIN queue', NEW k \in DOMAIN queue', queue'[i] = queue'[k]
        PROVE  i = k
    BY <1>4, <1>6, <2>1, <2>3 DEF QueueInv
  <2> QED
    BY <2>2, <2>3 DEF QueueInv
<1> QED
  BY <1>2, <1>7, <1>8, <1>9, <1>10, <1>11

LEMMA StartOrLoseKeepsInv ==
  ASSUME Inv, NEW j \in JobId, StartWorker(j) \/ LoseWorker(j)
  PROVE  Inv'
<1>1. /\ worker[j] \in {"starting", "building"}
      /\ \E w \in {"building", "lost"} : worker' = [worker EXCEPT ![j] = w]
      /\ UNCHANGED <<records, jobs, queue, running, owners>>
  BY DEF StartWorker, LoseWorker
<1> USE DEF Inv, records, owners
<1>2. TypeOK'
  BY <1>1 DEF TypeOK
<1>3. RecordsInv'
  BY <1>1 DEF TypeOK, RecordsInv
<1>4. ThreadInv'
  BY <1>1 DEF TypeOK, ThreadInv
<1>5. RegisteredInv' /\ OwnersInv' /\ QueueInv'
  BY <1>1 DEF RegisteredInv, OwnersInv, QueueInv
<1> QED
  BY <1>2, <1>3, <1>4, <1>5

(* Releasing j's entry of one table.                                       *)
LEMMA ReleasedEntry ==
  ASSUME NEW K, NEW owner \in [K -> JobId \cup {None}], NEW key \in K, NEW j \in JobId,
         owner[key] = j
  PROVE  /\ Released(owner, key, j) \in [K -> JobId \cup {None}]
         /\ \A i \in JobId, k \in K :
              Released(owner, key, j)[k] = i <=> owner[k] = i /\ k # key
BY JobIdAssumption DEF Released

LEMMA FinishJobKeepsInv ==
  ASSUME Inv, NEW j \in JobId, NEW result \in Terminal, FinishJob(j, result)
  PROVE  Inv'
<1> USE DEF Active, Terminal
<1> DEFINE ended == [status EXCEPT ![j] = result]
<1>1. PICK k \in 0..Len(queue) :
        /\ status' = [i \in JobId |-> IF i \in Promoted(k, ended) THEN "running" ELSE ended[i]]
        /\ running' = (running \ {j}) \cup Promoted(k, ended)
        /\ worker' = [i \in JobId |-> IF i = j THEN "exited"
                                      ELSE IF i \in Promoted(k, ended) THEN "starting"
                                      ELSE worker[i]]
        /\ RefreshQueue(SubSeq(queue, k + 1, Len(queue)), jobs, status',
                        [i \in JobId |-> IF i = j \/ i \in Promoted(k, ended)
                                         THEN 0 ELSE position[i]])
  BY DEF FinishJob
<1> DEFINE P == Promoted(k, ended)
           rest == SubSeq(queue, k + 1, Len(queue))
           pos == [i \in JobId |-> IF i = j \/ i \in P THEN 0 ELSE position[i]]
<1>2. /\ worker[j] = "building"
      /\ dbOwner' = Released(dbOwner, req[j].db, j)
      /\ snapOwner' = Released(snapOwner, req[j].snapshot, j)
      /\ sigOwner' = Released(sigOwner, req[j], j)
      /\ jobs' = Pruned(jobs, status', created)
      /\ req' = req /\ created' = created
  BY DEF FinishJob
<1>3. status[j] = "running"
  BY <1>2 DEF Inv, ThreadInv
<1>4. P \subseteq JobId /\ \A i \in P : i \in jobs /\ status[i] = "queued" /\ i # j
  BY <1>3 DEF Promoted, Waiting, Inv, TypeOK
<1>5. /\ jobs' \subseteq jobs
      /\ \A i \in jobs : status'[i] \in Active => i \in jobs'
  BY <1>2, PrunedKeepsActive
<1>6. /\ status'[j] = result
      /\ \A i \in P : status'[i] = "running"
      /\ \A i \in JobId \ (P \cup {j}) : status'[i] = status[i]
      /\ status' \in [JobId -> {"new", "queued", "running", "succeeded", "failed"}]
  <2> HIDE DEF P
  <2> QED
    BY <1>1, <1>4 DEF P, Inv, TypeOK
<1> HIDE DEF ended
<1>7. /\ rest \in Seq(JobId)
      /\ \A m \in DOMAIN rest : /\ m + k \in DOMAIN queue
                               /\ rest[m] = queue[m + k]
      /\ DOMAIN rest = 1..(Len(queue) - k)
  <2>1. queue \in Seq(JobId) /\ Len(queue) \in Nat /\ DOMAIN queue = 1..Len(queue)
    BY LenProperties DEF Inv, TypeOK
  <2> QED
    BY <2>1
<1>8. ASSUME NEW m \in DOMAIN rest
      PROVE  rest[m] \in jobs /\ status'[rest[m]] = "queued"
  <2>1. rest[m] \in JobId /\ rest[m] \in jobs /\ status[rest[m]] = "queued"
    BY <1>7 DEF Inv, QueueInv, TypeOK
  <2>2. rest[m] \notin P
    <3>1. SUFFICES ASSUME NEW n \in 1..k, n \in DOMAIN queue, rest[m] = queue[n]
                   PROVE  FALSE
      BY DEF Promoted, Waiting
    <3>2. n = m + k
      BY <1>7, <3>1 DEF Inv, QueueInv
    <3> QED
      BY <1>7, <3>2
  <2> QED
    BY <1>3, <1>6, <2>1, <2>2
<1>9. queue' = rest /\ position' \in [JobId -> Nat]
  <2>1. pos \in [JobId -> Nat]
    BY DEF Inv, TypeOK
  <2>2. RefreshQueue(rest, jobs, status', pos)
    BY <1>1
  <2>3. \A i \in DOMAIN rest : rest[i] \in jobs /\ status'[rest[i]] = "queued"
    BY <1>8
  <2> HIDE DEF rest, pos
  <2> QED
    BY <1>7, <2>1, <2>2, <2>3, RefreshKeepsLiveQueue
<1>10. /\ req[j] \in Request /\ req[j].db \in Db /\ req[j].snapshot \in Snapshot
       /\ dbOwner[req[j].db] = j /\ snapOwner[req[j].snapshot] = j /\ sigOwner[req[j]] = j
  BY <1>3, RequestAssumption DEF Inv, RecordsInv, OwnersInv
<1>11. /\ dbOwner' \in [Db -> JobId \cup {None}]
       /\ snapOwner' \in [Snapshot -> JobId \cup {None}]
       /\ sigOwner' \in [Request -> JobId \cup {None}]
       /\ \A i \in JobId :
            /\ \A d \in Db : dbOwner'[d] = i <=> dbOwner[d] = i /\ d # req[j].db
            /\ \A s \in Snapshot : snapOwner'[s] = i <=> snapOwner[s] = i /\ s # req[j].snapshot
            /\ \A r \in Request : sigOwner'[r] = i <=> sigOwner[r] = i /\ r # req[j]
  <2>1. /\ dbOwner \in [Db -> JobId \cup {None}]
        /\ snapOwner \in [Snapshot -> JobId \cup {None}]
        /\ sigOwner \in [Request -> JobId \cup {None}]
    BY DEF Inv, TypeOK
  <2>2. /\ dbOwner' \in [Db -> JobId \cup {None}]
        /\ \A i \in JobId, d \in Db : dbOwner'[d] = i <=> dbOwner[d] = i /\ d # req[j].db
    BY <1>2, <1>10, <2>1, ReleasedEntry
  <2>3. /\ snapOwner' \in [Snapshot -> JobId \cup {None}]
        /\ \A i \in JobId, s \in Snapshot :
             snapOwner'[s] = i <=> snapOwner[s] = i /\ s # req[j].snapshot
    BY <1>2, <1>10, <2>1, ReleasedEntry
  <2>4. /\ sigOwner' \in [Request -> JobId \cup {None}]
        /\ \A i \in JobId, r \in Request : sigOwner'[r] = i <=> sigOwner[r] = i /\ r # req[j]
    BY <1>2, <1>10, <2>1, ReleasedEntry
  <2> QED
    BY <2>2, <2>3, <2>4
<1> HIDE DEF P, rest, pos
<1>12. TypeOK'
  <2>1. worker' \in [JobId -> {"none", "starting", "building", "lost", "exited"}]
    BY <1>1 DEF Inv, TypeOK, P
  <2>2. running' \subseteq JobId
    BY <1>1, <1>4 DEF Inv, TypeOK, P
  <2> QED
    BY <1>2, <1>5, <1>6, <1>7, <1>9, <1>11, <2>1, <2>2 DEF Inv, TypeOK
<1>13. RecordsInv'
  <2> SUFFICES ASSUME NEW i \in JobId
               PROVE  /\ status'[i] = "new" => worker'[i] = "none" /\ i \notin jobs'
                      /\ status'[i] # "new" => req'[i] \in Request /\ req'[i].db # ServeDb
    BY DEF RecordsInv
  <2>1. status'[i] = "new" <=> status[i] = "new"
    BY <1>3, <1>4, <1>6
  <2>2. status'[i] = "new" => worker'[i] = worker[i]
    BY <1>1, <1>4, <1>6 DEF P
  <2> QED
    BY <1>2, <1>5, <2>1, <2>2 DEF Inv, RecordsInv
<1>14. RegisteredInv'
  BY <1>3, <1>4, <1>5, <1>6 DEF Inv, RegisteredInv
<1>15. ThreadInv'
  <2> SUFFICES ASSUME NEW i \in JobId, worker'[i] \in {"starting", "building", "lost"}
               PROVE  status'[i] = "running"
    BY DEF ThreadInv
  <2>1. i # j
    BY <1>1
  <2>2. CASE i \in P
    BY <1>6, <2>2
  <2>3. CASE i \notin P
    BY <1>1, <1>6, <2>1, <2>3 DEF P, Inv, ThreadInv
  <2> QED
    BY <2>2, <2>3
<1>16. OwnersInv'
  <2> SUFFICES ASSUME NEW i \in JobId
               PROVE  /\ \A d \in Db : dbOwner'[d] = i <=> status'[i] \in Active /\ req[i].db = d
                      /\ \A s \in Snapshot :
                           snapOwner'[s] = i <=> status'[i] \in Active /\ req[i].snapshot = s
                      /\ \A r \in Request :
                           sigOwner'[r] = i <=> status'[i] \in Active /\ req[i] = r
    BY <1>2 DEF OwnersInv
  <2>1. CASE i = j
    BY <1>6, <1>10, <1>11, <2>1 DEF Inv, OwnersInv
  <2>2. CASE i # j
    <3>1. status'[i] \in Active <=> status[i] \in Active
      BY <1>4, <1>6, <2>2
    <3>2. dbOwner[req[j].db] # i /\ snapOwner[req[j].snapshot] # i /\ sigOwner[req[j]] # i
      BY <1>10, <2>2
    <3> QED
      BY <1>10, <1>11, <3>1, <3>2 DEF Inv, OwnersInv
  <2> QED
    BY <2>1, <2>2
<1>17. QueueInv'
  <2>1. ASSUME NEW i \in DOMAIN queue'
        PROVE  queue'[i] \in jobs' /\ status'[queue'[i]] = "queued"
    BY <1>5, <1>8, <1>9
  <2>2. ASSUME NEW i \in DOMAIN queue', NEW m \in DOMAIN queue', queue'[i] = queue'[m]
        PROVE  i = m
    BY <1>7, <1>9, <2>2 DEF Inv, QueueInv
  <2> QED
    BY <2>1, <2>2 DEF QueueInv
<1> QED
  BY <1>12, <1>13, <1>14, <1>15, <1>16, <1>17 DEF Inv

LEMMA InvNext == Inv /\ [Next]_vars => Inv'
<1> SUFFICES ASSUME Inv, [Next]_vars PROVE Inv'
  OBVIOUS
<1>1. ASSUME NEW j \in JobId, NEW r \in Request, SubmitRunning(j, r) PROVE Inv'
  BY <1>1, SubmitRunningKeepsInv
<1>2. ASSUME NEW j \in JobId, NEW r \in Request, SubmitQueued(j, r) PROVE Inv'
  BY <1>2, SubmitQueuedKeepsInv
<1>3. ASSUME NEW j \in JobId, StartWorker(j) \/ LoseWorker(j) PROVE Inv'
  BY <1>3, StartOrLoseKeepsInv
<1>4. ASSUME NEW j \in JobId, NEW result \in Terminal, FinishJob(j, result) PROVE Inv'
  BY <1>4, FinishJobKeepsInv
<1>5. CASE UNCHANGED vars
  BY <1>5 DEF vars, records, owners, Inv, TypeOK, RecordsInv, RegisteredInv, ThreadInv,
              OwnersInv, QueueInv
<1> QED
  BY <1>1, <1>2, <1>3, <1>4, <1>5 DEF Next

-----------------------------------------------------------------------------
(* The theorems *)

(* The inductive invariant holds in every reachable state.                 *)
THEOREM Invariance == Spec => []Inv
<1> QED
  BY InvInit, InvNext, PTL DEF Spec

(* The scheduler's tables and records always have the shapes the code      *)
(* gives them.                                                             *)
THEOREM TypeCorrect == Spec => []TypeOK
<1>1. Inv => TypeOK
  BY DEF Inv
<1> QED
  BY <1>1, Invariance, PTL

(* Whatever clients submit and whenever threads start, end or are lost, no *)
(* two builds write one database or index one snapshot, and none writes    *)
(* the database being served.                                              *)
THEOREM BuildsAreExclusive == Spec => []ExclusiveBuild
<1>1. Inv => ExclusiveBuild
  <2> SUFFICES ASSUME Inv, NEW j \in JobId, HasThread(j)
               PROVE  /\ req[j].db # ServeDb
                      /\ \A k \in JobId \ {j} : HasThread(k) =>
                           req[j].db # req[k].db /\ req[j].snapshot # req[k].snapshot
    BY DEF ExclusiveBuild
  <2>1. ASSUME NEW k \in JobId, HasThread(k)
        PROVE  /\ req[k].db \in Db /\ req[k].snapshot \in Snapshot /\ req[k].db # ServeDb
               /\ dbOwner[req[k].db] = k /\ snapOwner[req[k].snapshot] = k
    <3>1. status[k] = "running"
      BY <2>1 DEF Inv, ThreadInv, HasThread
    <3>2. req[k] \in Request /\ req[k].db # ServeDb
      BY <3>1 DEF Inv, RecordsInv
    <3>3. req[k].db \in Db /\ req[k].snapshot \in Snapshot
      BY <3>2, RequestAssumption
    <3> QED
      BY <3>1, <3>2, <3>3 DEF Inv, OwnersInv, Active
  <2> QED
    BY <2>1
<1> QED
  BY <1>1, Invariance, PTL

(* A request is deduplicated or refused for a conflict exactly when an     *)
(* active job stands in its way: no entry of the ownership tables outlives *)
(* its job, and none is lost before it.                                    *)
THEOREM AnswersCorrect == Spec => []AnswersAreRight
<1>1. Inv => AnswersAreRight
  <2> SUFFICES ASSUME Inv, NEW r \in Request
               PROVE  LET same == {j \in ActiveJobs : req[j] = r}
                          onDb == {j \in ActiveJobs : req[j].db = r.db}
                          onSnapshot == {j \in ActiveJobs : req[j].snapshot = r.snapshot}
                      IN  /\ Answer(r) = "deduped" <=> same # {}
                          /\ Answer(r) = "db_path" <=> same = {} /\ onDb # {}
                          /\ Answer(r) = "snapshot" <=>
                               onDb = {} /\ r.db # ServeDb /\ onSnapshot # {}
    BY DEF AnswersAreRight
  <2> DEFINE same == {j \in ActiveJobs : req[j] = r}
             onDb == {j \in ActiveJobs : req[j].db = r.db}
             onSnapshot == {j \in ActiveJobs : req[j].snapshot = r.snapshot}
  <2>1. r.db \in Db /\ r.snapshot \in Snapshot
    BY RequestAssumption
  <2>2. (sigOwner[r] \in jobs /\ status[sigOwner[r]] \in Active) <=> same # {}
    BY DEF ActiveJobs, Inv, OwnersInv, RegisteredInv, TypeOK
  <2>3. dbOwner[r.db] # None <=> onDb # {}
    <3>1. dbOwner[r.db] \in JobId \cup {None} /\ None \notin JobId
      BY <2>1, JobIdAssumption DEF Inv, TypeOK
    <3>2. \A j \in JobId : dbOwner[r.db] = j <=> j \in onDb
      BY <2>1 DEF ActiveJobs, Inv, OwnersInv
    <3>3. onDb \subseteq JobId
      BY DEF ActiveJobs
    <3> QED
      BY <3>1, <3>2, <3>3
  <2>4. snapOwner[r.snapshot] # None <=> onSnapshot # {}
    <3>1. snapOwner[r.snapshot] \in JobId \cup {None} /\ None \notin JobId
      BY <2>1, JobIdAssumption DEF Inv, TypeOK
    <3>2. \A j \in JobId : snapOwner[r.snapshot] = j <=> j \in onSnapshot
      BY <2>1 DEF ActiveJobs, Inv, OwnersInv
    <3>3. onSnapshot \subseteq JobId
      BY DEF ActiveJobs
    <3> QED
      BY <3>1, <3>2, <3>3
  <2>5. same # {} => onDb # {}
    OBVIOUS
  <2>6. r.db = ServeDb => onDb = {}
    BY DEF ActiveJobs, Inv, RecordsInv, Active
  <2> HIDE DEF same, onDb, onSnapshot
  <2>7. Answer(r) = "deduped" <=> same # {}
    BY <2>2 DEF Answer
  <2>8. Answer(r) = "db_path" <=> same = {} /\ onDb # {}
    BY <2>2, <2>3, <2>6 DEF Answer
  <2>9. Answer(r) = "snapshot" <=> onDb = {} /\ r.db # ServeDb /\ onSnapshot # {}
    BY <2>2, <2>3, <2>4, <2>5, <2>6 DEF Answer
  <2> QED
    BY <2>7, <2>8, <2>9 DEF same, onDb, onSnapshot
<1> QED
  BY <1>1, Invariance, PTL

-----------------------------------------------------------------------------
(* The scheduler gives its clients what it promises: a place in a line     *)
(* that is the order of acceptance, a record as long as the job lives, and *)
(* a lease that exactly one active job holds.                              *)

Accepted == {j \in JobId : status[j] # "new"}

(* The running set is what the records say, it fits the slots, and a job   *)
(* waits only while every slot is taken.                                   *)
SlotsInv ==
  /\ running = {j \in JobId : status[j] = "running"}
  /\ Cardinality(running) <= MaxRunning
  /\ queue # <<>> => Cardinality(running) = MaxRunning

(* Accepted jobs have different ages, none after the latest.               *)
AgesInv ==
  /\ \A j \in Accepted : created[j] \in 1..Cardinality(Accepted)
  /\ \A i, j \in Accepted : created[i] = created[j] => i = j

(* The position of a queued job is its place in q, and any other's is 0.   *)
Numbered(q, st, pos) ==
  \A j \in JobId : IF st[j] = "queued" THEN pos[j] \in DOMAIN q /\ q[pos[j]] = j ELSE pos[j] = 0

(* Every job is shown its place, and places go by age.                     *)
PlacesInv ==
  /\ Numbered(queue, status, position)
  /\ \A i, k \in DOMAIN queue : i < k => created[queue[i]] < created[queue[k]]

(* Above the limit only active jobs are registered.                        *)
LimitInv == Cardinality(jobs) > MaxJobs => jobs = ActiveJobs

LineInv == Inv /\ SlotsInv /\ AgesInv /\ PlacesInv /\ LimitInv
-----------------------------------------------------------------------------
(* Ranks *)

(* Among finitely many elements of different ages, exactly n have fewer    *)
(* than n older ones.                                                      *)
LEMMA OldestCount ==
  ASSUME NEW T, IsFiniteSet(T), NEW cr, \A i \in T : cr[i] \in Nat,
         \A i, j \in T : cr[i] = cr[j] => i = j,
         NEW n \in 0..Cardinality(T)
  PROVE  Cardinality({j \in T : Cardinality({k \in T : cr[k] < cr[j]}) < n}) = n
<1> DEFINE older(j) == {k \in T : cr[k] < cr[j]}
           rank == [j \in T |-> Cardinality(older(j))]
           places == 0..(Cardinality(T) - 1)
           S == {j \in T : rank[j] < n}
<1>1. Cardinality(T) \in Nat
  BY FS_CardinalityType
<1>2. ASSUME NEW j \in T
      PROVE  IsFiniteSet(older(j)) /\ Cardinality(older(j)) \in places
  <2>1. older(j) \in SUBSET T /\ j \notin older(j)
    OBVIOUS
  <2>2. /\ IsFiniteSet(older(j))
        /\ Cardinality(older(j)) <= Cardinality(T)
        /\ Cardinality(T) = Cardinality(older(j)) => T = older(j)
    BY <2>1, FS_Subset
  <2>3. Cardinality(older(j)) \in Nat
    BY <2>2, FS_CardinalityType
  <2> QED
    BY <1>1, <2>1, <2>2, <2>3
<1>3. ASSUME NEW i \in T, NEW j \in T, cr[i] < cr[j]
      PROVE  rank[i] # rank[j]
  <2>1. older(i) \in SUBSET older(j) /\ i \in older(j) /\ i \notin older(i)
    BY <1>3
  <2>2. Cardinality(older(j)) = Cardinality(older(i)) => older(j) = older(i)
    BY <1>2, <2>1, FS_Subset
  <2> QED
    BY <2>1, <2>2
<1>4. rank \in Injection(T, places)
  <2>1. rank \in [T -> places]
    BY <1>2
  <2>2. ASSUME NEW i \in T, NEW j \in T, rank[i] = rank[j]
        PROVE  i = j
    <3>1. ~(cr[i] < cr[j]) /\ ~(cr[j] < cr[i])
      BY <1>3, <2>2
    <3> QED
      BY <3>1
  <2> HIDE DEF rank, places
  <2> QED
    BY <2>1, <2>2 DEF Injection, IsInjective
<1>5. IsFiniteSet(places) /\ Cardinality(places) = Cardinality(T)
  <2>1. 0 \in Int /\ Cardinality(T) - 1 \in Int
    BY <1>1
  <2>2. /\ IsFiniteSet(places)
        /\ Cardinality(places) = IF 0 > Cardinality(T) - 1 THEN 0 ELSE Cardinality(T) - 1 - 0 + 1
    BY <2>1, FS_Interval
  <2> QED
    BY <1>1, <2>2
<1>6. rank \in Surjection(T, places)
  <2> HIDE DEF rank, places
  <2> QED
    BY <1>4, <1>5, FS_Injection
<1> DEFINE low == 0..(n - 1)
           f == [j \in S |-> rank[j]]
<1>7. IsFiniteSet(low) /\ Cardinality(low) = n /\ low \subseteq places
  <2>1. 0 \in Int /\ n - 1 \in Int
    BY <1>1
  <2>2. IsFiniteSet(low) /\ Cardinality(low) = IF 0 > n - 1 THEN 0 ELSE n - 1 - 0 + 1
    BY <2>1, FS_Interval
  <2> QED
    BY <1>1, <2>2
<1>8. \A j \in S : rank[j] \in low
  <2>1. \A j \in T : rank[j] \in places
    BY <1>2
  <2> HIDE DEF rank
  <2> QED
    BY <1>1, <2>1
<1>9. \A m \in low : \E j \in S : rank[j] = m
  <2>1. \A m \in places : \E j \in T : rank[j] = m
    <3> HIDE DEF rank, places
    <3> QED
      BY <1>6 DEF Surjection
  <2>2. \A m \in low : m \in places /\ m < n
    BY <1>1, <1>7
  <2> HIDE DEF rank, places, low
  <2> QED
    BY <2>1, <2>2
<1>10. \A i, j \in S : rank[i] = rank[j] => i = j
  <2>1. \A i, j \in T : rank[i] = rank[j] => i = j
    <3> HIDE DEF rank, places
    <3> QED
      BY <1>4 DEF Injection, IsInjective
  <2> QED
    BY <2>1
<1>11. f \in Injection(S, low) /\ f \in Surjection(S, low)
  <2> HIDE DEF rank, low, S
  <2> QED
    BY <1>8, <1>9, <1>10 DEF Injection, Surjection, IsInjective
<1>12. Cardinality(S) = n
  <2> HIDE DEF f, low, S
  <2> QED
    BY <1>7, <1>11, FS_Injection
<1> QED
  BY <1>12
(* _prune_jobs_locked leaves the registry within its limit, or with active *)
(* jobs only.                                                              *)
LEMMA PrunedWithinLimit ==
  ASSUME NEW js, IsFiniteSet(js), NEW st, NEW cr, \A i \in js : cr[i] \in Nat,
         \A i, j \in js : cr[i] = cr[j] => i = j,
         Cardinality(Pruned(js, st, cr)) > MaxJobs
  PROVE  Pruned(js, st, cr) = {j \in js : st[j] \in Active}
<1> DEFINE ended == {j \in js : st[j] \notin Active}
           excess == Cardinality(js) - MaxJobs
           rank(j) == Cardinality({k \in ended : cr[k] < cr[j]})
           dropped == {j \in ended : rank(j) < excess}
<1>1. Pruned(js, st, cr) = js \ dropped
  BY DEF Pruned
<1>2. /\ IsFiniteSet(ended) /\ ended \in SUBSET js
      /\ Cardinality(js) \in Nat /\ Cardinality(ended) \in Nat /\ excess \in Int
  BY FS_Subset, FS_CardinalityType, LimitAssumption
<1>3. ASSUME NEW j \in ended
      PROVE  rank(j) \in Nat /\ rank(j) < Cardinality(ended)
  <2> DEFINE older == {k \in ended : cr[k] < cr[j]}
  <2>1. older \in SUBSET ended /\ j \notin older
    BY <1>2
  <2>2. /\ IsFiniteSet(older) /\ Cardinality(older) <= Cardinality(ended)
        /\ Cardinality(ended) = Cardinality(older) => ended = older
    BY <1>2, <2>1, FS_Subset
  <2>3. Cardinality(older) \in Nat /\ rank(j) = Cardinality(older)
    BY <2>2, FS_CardinalityType
  <2> HIDE DEF older, ended, rank
  <2> QED
    BY <1>2, <1>3, <2>1, <2>2, <2>3
<1>4. CASE excess >= Cardinality(ended)
  <2>1. \A j \in ended : rank(j) < excess
    <3> HIDE DEF ended, rank, excess
    <3> QED
      BY <1>2, <1>3, <1>4
  <2> QED
    BY <1>1, <2>1
<1>5. CASE excess < Cardinality(ended) /\ excess >= 0
  <2>1. excess \in 0..Cardinality(ended)
    <3> HIDE DEF ended, excess
    <3> QED
      BY <1>2, <1>5
  <2>2. Cardinality(dropped) = excess
    <3>1. /\ \A i, j \in ended : cr[i] = cr[j] => i = j
          /\ \A i \in ended : cr[i] \in Nat
      OBVIOUS
    <3> HIDE DEF ended, excess
    <3> QED
      BY <1>2, <2>1, <3>1, OldestCount
  <2>3. Cardinality(js \ dropped) = Cardinality(js) - Cardinality(js \cap dropped)
    BY FS_Difference
  <2>4. js \cap dropped = dropped
    OBVIOUS
  <2>5. Cardinality(Pruned(js, st, cr)) = MaxJobs
    <3> HIDE DEF dropped
    <3> QED
      BY <1>1, <1>2, <2>2, <2>3, <2>4, LimitAssumption
  <2> QED
    BY <2>5, LimitAssumption
<1>6. CASE excess < 0
  <2>1. \A j \in ended : ~(rank(j) < excess)
    <3> HIDE DEF ended, rank, excess
    <3> QED
      BY <1>2, <1>3, <1>6
  <2>2. Pruned(js, st, cr) = js
    BY <1>1, <2>1
  <2>3. Cardinality(js) > MaxJobs
    BY <2>2
  <2> QED
    BY <1>2, <1>6, <2>3, LimitAssumption
<1> HIDE DEF ended, excess
<1> QED
  BY <1>2, <1>4, <1>5, <1>6

-----------------------------------------------------------------------------
(* The queue and its places *)

(* q is a line of the queued jobs, each registered and at one place.       *)
IsLine(q, js, st) ==
  /\ \A i \in DOMAIN q : q[i] \in js /\ st[q[i]] = "queued"
  /\ \A i, k \in DOMAIN q : q[i] = q[k] => i = k
  /\ \A j \in JobId : st[j] = "queued" => \E i \in DOMAIN q : q[i] = j

OthersCleared(st, pos) == \A j \in JobId : st[j] # "queued" => pos[j] = 0

(* A refresh numbers the jobs of a line by their places, when the others   *)
(* have lost their positions.                                              *)
LEMMA RefreshNumbers ==
  ASSUME NEW q \in Seq(JobId), NEW js, NEW st, NEW pos \in [JobId -> Nat],
         IsLine(q, js, st), OthersCleared(st, pos), RefreshQueue(q, js, st, pos)
  PROVE  queue' = q /\ Numbered(q, st, position')
<1> USE DEF IsLine, OthersCleared
<1>1. queue' = q
  BY RefreshKeepsLiveQueue
<1>2. Waiting(q, js, st) = DOMAIN q
  BY DEF Waiting
<1>3. ASSUME NEW j \in JobId, st[j] = "queued"
      PROVE  position'[j] \in DOMAIN q /\ q[position'[j]] = j
  <2>1. position'[j] = CHOOSE i \in DOMAIN q : q[i] = j
    BY <1>2, <1>3 DEF RefreshQueue
  <2> QED
    BY <1>3, <2>1
<1>4. ASSUME NEW j \in JobId, st[j] # "queued"
      PROVE  position'[j] = 0
  BY <1>2, <1>4 DEF RefreshQueue
<1> QED
  BY <1>1, <1>3, <1>4 DEF Numbered
-----------------------------------------------------------------------------
(* The end of a job: whatever the loop of _finish_job could pop, it pops   *)
(* the head of the queue, if there is one.                                 *)

Popped == IF queue = <<>> THEN 0 ELSE 1
HandedOver == {queue[i] : i \in 1..Popped}
Rest == SubSeq(queue, Popped + 1, Len(queue))

(* What is left of the queue when its head was popped.                     *)
LEMMA RestOfQueue ==
  ASSUME Inv
  PROVE  /\ Popped \in 0..1 /\ Popped <= Len(queue) /\ Len(queue) \in Nat
         /\ DOMAIN queue = 1..Len(queue)
         /\ HandedOver \subseteq JobId
         /\ \A i \in HandedOver : i \in jobs /\ status[i] = "queued"
         /\ Rest \in Seq(JobId)
         /\ DOMAIN Rest = 1..(Len(queue) - Popped)
         /\ \A m \in DOMAIN Rest : m + Popped \in DOMAIN queue /\ Rest[m] = queue[m + Popped]
         /\ \A m \in DOMAIN Rest : Rest[m] \notin HandedOver
<1>1. queue \in Seq(JobId) /\ Len(queue) \in Nat /\ DOMAIN queue = 1..Len(queue)
  BY LenProperties DEF Inv, TypeOK
<1>2. Popped \in 0..1 /\ Popped <= Len(queue)
  BY <1>1, EmptySeq DEF Popped
<1>3. \A i \in 1..Popped : i \in DOMAIN queue
  <2> HIDE DEF Popped
  <2> QED
    BY <1>1, <1>2
<1>4. /\ HandedOver \subseteq JobId
      /\ \A i \in HandedOver : i \in jobs /\ status[i] = "queued"
  <2>1. \A i \in DOMAIN queue : queue[i] \in JobId /\ queue[i] \in jobs /\ status[queue[i]] = "queued"
    BY <1>1, ElementOfSeq DEF Inv, QueueInv
  <2> QED
    BY <1>3, <2>1 DEF HandedOver
<1>5. /\ Rest \in Seq(JobId)
      /\ DOMAIN Rest = 1..(Len(queue) - Popped)
      /\ \A m \in DOMAIN Rest : m + Popped \in DOMAIN queue /\ Rest[m] = queue[m + Popped]
  <2> HIDE DEF Popped
  <2> QED
    BY <1>1, <1>2 DEF Rest
<1>6. ASSUME NEW m \in DOMAIN Rest, Rest[m] \in HandedOver
      PROVE  FALSE
  <2>1. PICK i \in 1..Popped : Rest[m] = queue[i]
    BY <1>6 DEF HandedOver
  <2>2. m + Popped = i
    BY <1>3, <1>5, <2>1 DEF Inv, QueueInv
  <2> QED
    BY <1>2, <1>5, <2>2
<1> QED
  BY <1>1, <1>2, <1>4, <1>5, <1>6

LEMMA FinishHandsOver ==
  ASSUME LineInv, NEW j \in JobId, NEW result \in Terminal, FinishJob(j, result)
  PROVE  /\ status[j] = "running"
         /\ status' = [i \in JobId |-> IF i \in HandedOver THEN "running"
                                       ELSE IF i = j THEN result ELSE status[i]]
         /\ running' = (running \ {j}) \cup HandedOver
         /\ Cardinality(running') = Cardinality(running) - 1 + Popped
         /\ RefreshQueue(Rest, jobs, status',
                         [i \in JobId |-> IF i = j \/ i \in HandedOver THEN 0 ELSE position[i]])
<1> DEFINE ended == [status EXCEPT ![j] = result]
           slots(m) == (running \ {j}) \cup Promoted(m, ended)
<1>1. PICK k \in 0..Len(queue) :
        /\ \A m \in 0..(k - 1) : Cardinality(slots(m)) < MaxRunning
        /\ k < Len(queue) => Cardinality(slots(k)) >= MaxRunning
        /\ status' = [i \in JobId |-> IF i \in Promoted(k, ended) THEN "running" ELSE ended[i]]
        /\ running' = slots(k)
        /\ RefreshQueue(SubSeq(queue, k + 1, Len(queue)), jobs, status',
                        [i \in JobId |-> IF i = j \/ i \in Promoted(k, ended)
                                         THEN 0 ELSE position[i]])
  BY DEF FinishJob
<1>2. status[j] = "running"
  BY DEF FinishJob, LineInv, Inv, ThreadInv
<1>3. Len(queue) \in Nat /\ DOMAIN queue = 1..Len(queue)
  BY RestOfQueue DEF LineInv
<1>4. Waiting(queue, jobs, ended) = DOMAIN queue
  BY <1>2 DEF Waiting, LineInv, Inv, QueueInv, TypeOK
<1>5. \A i \in JobId : ended[i] = IF i = j THEN result ELSE status[i]
  BY DEF LineInv, Inv, TypeOK
<1> HIDE DEF ended
<1>6. ASSUME NEW m \in 0..Len(queue)
      PROVE  Promoted(m, ended) = {queue[i] : i \in 1..m}
  BY <1>3, <1>4 DEF Promoted
<1>7. /\ IsFiniteSet(running) /\ j \in running
      /\ IsFiniteSet(running \ {j}) /\ Cardinality(running \ {j}) = Cardinality(running) - 1
      /\ Cardinality(running) \in Nat
  <2>1. IsFiniteSet(running) /\ j \in running
    BY <1>2, JobIdAssumption, FS_Subset DEF LineInv, SlotsInv
  <2> QED
    BY <2>1, FS_RemoveElement, FS_CardinalityType
<1>8. k = Popped /\ Cardinality(slots(k)) = Cardinality(running) - 1 + Popped
  <2>1. Cardinality(slots(0)) = Cardinality(running) - 1
    <3>1. 0 \in 0..Len(queue) /\ 1..0 = {}
      BY <1>3
    <3>2. Promoted(0, ended) = {}
      BY <1>6, <3>1
    <3>3. slots(0) = running \ {j}
      BY <3>2
    <3>4. Cardinality(slots(0)) = Cardinality(running \ {j})
      BY <3>3, Zenon
    <3> QED
      BY <1>7, <3>4
  <2>2. CASE queue = <<>>
    <3>1. k = 0 /\ Popped = 0
      BY <2>2 DEF Popped
    <3> HIDE DEF slots
    <3> QED
      BY <1>7, <2>1, <3>1
  <2>3. CASE queue # <<>>
    <3>1. Cardinality(running) = MaxRunning /\ MaxRunning \in Nat
      BY <1>7, <2>3 DEF LineInv, SlotsInv
    <3>2. Len(queue) >= 1
      BY <1>3, <2>3, EmptySeq DEF LineInv, Inv, TypeOK
    <3>3. slots(1) = (running \ {j}) \cup {queue[1]}
      <4>1. 1 \in 0..Len(queue) /\ 1..1 = {1}
        BY <1>3, <3>2
      <4>2. Promoted(1, ended) = {queue[1]}
        BY <1>6, <4>1
      <4> QED
        BY <4>2
    <3>4. queue[1] \notin running
      BY <1>3, <3>2 DEF LineInv, Inv, QueueInv, SlotsInv
    <3>5. Cardinality(slots(1)) = Cardinality(running)
      <4>1. /\ queue[1] \notin running \ {j}
            /\ Cardinality((running \ {j}) \cup {queue[1]}) = Cardinality(running \ {j}) + 1
        BY <1>7, <3>4, FS_AddElement
      <4>2. Cardinality(slots(1)) = Cardinality((running \ {j}) \cup {queue[1]})
        BY <3>3, Zenon
      <4> QED
        BY <1>7, <4>1, <4>2
    <3> HIDE DEF slots
    <3>6. k # 0
      <4> SUFFICES ASSUME k = 0 PROVE FALSE
        OBVIOUS
      <4>1. k < Len(queue)
        BY <1>3, <3>2
      <4>2. k < Len(queue) => Cardinality(slots(k)) >= MaxRunning
        BY <1>1 DEF slots
      <4> HIDE DEF MaxRunning
      <4> QED
        BY <1>7, <2>1, <3>1, <4>1, <4>2
    <3>7. ~(k > 1)
      <4> SUFFICES ASSUME k > 1 PROVE FALSE
        OBVIOUS
      <4>1. 1 \in 0..(k - 1)
        BY <1>3
      <4>2. \A m \in 0..(k - 1) : Cardinality(slots(m)) < MaxRunning
        BY <1>1 DEF slots
      <4>3. Cardinality(slots(1)) < MaxRunning
        BY <4>1, <4>2
      <4> HIDE DEF MaxRunning
      <4> QED
        BY <3>1, <3>5, <4>3
    <3>8. k = 1
      BY <1>3, <3>6, <3>7
    <3> QED
      BY <1>7, <2>3, <3>5, <3>8 DEF Popped
  <2> QED
    BY <2>2, <2>3
<1>9. Promoted(k, ended) = HandedOver /\ SubSeq(queue, k + 1, Len(queue)) = Rest
  BY <1>6, <1>8 DEF HandedOver, Rest
<1> QED
  BY <1>1, <1>2, <1>5, <1>8, <1>9
-----------------------------------------------------------------------------
(* The invariant is inductive *)

LEMMA LineInvInit == Init => LineInv
<1> SUFFICES ASSUME Init PROVE LineInv
  OBVIOUS
<1>1. Inv
  BY InvInit
<1>2. SlotsInv
  <2>1. running = {} /\ queue = <<>> /\ \A j \in JobId : status[j] = "new"
    BY DEF Init
  <2>2. Cardinality(running) = 0
    BY <2>1, FS_EmptySet
  <2>3. 0 <= MaxRunning
    BY LimitAssumption DEF MaxRunning, AtLeast
  <2> QED
    BY <2>1, <2>2, <2>3 DEF SlotsInv
<1>3. AgesInv
  BY DEF Init, AgesInv, Accepted
<1>4. PlacesInv
  BY DEF Init, PlacesInv, Numbered
<1>5. LimitInv
  <2>1. jobs = {} /\ ActiveJobs = {}
    BY DEF Init, ActiveJobs, Active
  <2> QED
    BY <2>1 DEF LimitInv
<1> QED
  BY <1>1, <1>2, <1>3, <1>4, <1>5 DEF LineInv

(* The job just accepted is younger than all others.                       *)
LEMMA RegisterAges ==
  ASSUME LineInv, NEW j \in JobId, NEW r \in Request, Register(j, r),
         NEW st \in Active, status' = [status EXCEPT ![j] = st]
  PROVE  /\ AgesInv' /\ Accepted' = Accepted \cup {j} /\ j \notin Accepted
         /\ \A i \in Accepted : created'[i] = created[i] /\ created[i] < created'[j]
<1>1. /\ status \in [JobId -> {"new"} \cup Active \cup Terminal]
      /\ created \in [JobId -> Nat] /\ status[j] = "new"
  BY DEF LineInv, Inv, TypeOK, Register
<1>2. Accepted' = Accepted \cup {j} /\ j \notin Accepted /\ Accepted \subseteq JobId
  BY <1>1 DEF Accepted, Active
<1>3. /\ IsFiniteSet(Accepted) /\ Cardinality(Accepted) \in Nat
      /\ Cardinality(Accepted \cup {j}) = Cardinality(Accepted) + 1
  <2>1. IsFiniteSet(Accepted)
    BY <1>2, JobIdAssumption, FS_Subset
  <2> QED
    BY <1>2, <2>1, FS_AddElement, FS_CardinalityType
<1>4. Cardinality(Accepted') = Cardinality(Accepted) + 1
  <2>1. Cardinality(Accepted') = Cardinality(Accepted \cup {j})
    BY <1>2, Zenon
  <2> QED
    BY <1>3, <2>1
<1>5. /\ created'[j] = 1 + Cardinality(Accepted)
      /\ \A i \in Accepted : created'[i] = created[i]
  <2>1. created' = [created EXCEPT ![j] = 1 + Cardinality(Accepted)]
    BY DEF Register, Accepted
  <2> QED
    BY <1>1, <1>2, <2>1
<1>6. \A i \in Accepted : created[i] \in 1..Cardinality(Accepted)
  BY DEF LineInv, AgesInv
<1>7. \A i \in Accepted : created[i] < created'[j]
  BY <1>3, <1>5, <1>6
<1>8. AgesInv'
  <2>1. \A i \in Accepted' : created'[i] \in 1..Cardinality(Accepted')
    BY <1>2, <1>3, <1>4, <1>5, <1>6
  <2>2. ASSUME NEW i \in Accepted', NEW k \in Accepted', created'[i] = created'[k]
        PROVE  i = k
    <3>1. \A m \in Accepted : created'[m] # created'[j]
      BY <1>3, <1>5, <1>6
    <3> QED
      BY <1>2, <1>5, <2>2, <3>1 DEF LineInv, AgesInv
  <2> QED
    BY <2>1, <2>2 DEF AgesInv
<1> QED
  BY <1>2, <1>5, <1>7, <1>8

(* Every step that changes the registry prunes it.                         *)
LEMMA PruningKeepsLimit ==
  ASSUME Inv', AgesInv', NEW js, js \subseteq Accepted', ActiveJobs' \subseteq js,
         jobs' = Pruned(js, status', created')
  PROVE  LimitInv'
<1>1. IsFiniteSet(js) /\ js \subseteq JobId
  <2>1. js \in SUBSET JobId
    BY DEF Accepted
  <2> QED
    BY <2>1, JobIdAssumption, FS_Subset
<1>2. /\ \A i \in js : created'[i] \in Nat
      /\ \A i, k \in js : created'[i] = created'[k] => i = k
  BY DEF AgesInv
<1>3. ASSUME Cardinality(jobs') > MaxJobs
      PROVE  jobs' = {j \in js : status'[j] \in Active}
  <2> DEFINE st == status'
             cr == created'
  <2>1. Cardinality(Pruned(js, st, cr)) > MaxJobs
    BY <1>3
  <2>2. Pruned(js, st, cr) = {j \in js : st[j] \in Active}
    <3>1. /\ \A i \in js : cr[i] \in Nat
          /\ \A i, k \in js : cr[i] = cr[k] => i = k
      BY <1>2
    <3> HIDE DEF st, cr
    <3> QED
      BY <1>1, <2>1, <3>1, PrunedWithinLimit
  <2> QED
    BY <2>2
<1>4. {j \in js : status'[j] \in Active} = ActiveJobs'
  BY <1>1 DEF ActiveJobs
<1> QED
  BY <1>3, <1>4 DEF LimitInv
LEMMA SubmitRunningKeepsLine ==
  ASSUME LineInv, NEW j \in JobId, NEW r \in Request, SubmitRunning(j, r)
  PROVE  LineInv'
<1>1. /\ Register(j, r) /\ status[j] = "new" /\ status' = [status EXCEPT ![j] = "running"]
      /\ running' = running \cup {j} /\ queue' = queue /\ position' = position
      /\ jobs' = Pruned(jobs \cup {j}, status', created')
      /\ Cardinality(running) < MaxRunning
  BY DEF SubmitRunning, Register, Answer
<1>2. Inv'
  BY SubmitRunningKeepsInv DEF LineInv
<1>3. status \in [JobId -> {"new"} \cup Active \cup Terminal]
  BY DEF LineInv, Inv, TypeOK
<1>4. AgesInv' /\ Accepted' = Accepted \cup {j}
  BY <1>1, RegisterAges DEF Active
<1>5. IsFiniteSet(running) /\ Cardinality(running) \in Nat
  <2>1. running \in SUBSET JobId
    BY DEF LineInv, Inv, TypeOK
  <2> QED
    BY <2>1, JobIdAssumption, FS_Subset, FS_CardinalityType
<1>6. queue = <<>>
  BY <1>1, <1>5 DEF LineInv, SlotsInv
<1>7. SlotsInv'
  <2>1. running' = {i \in JobId : status'[i] = "running"}
    BY <1>1, <1>3 DEF LineInv, SlotsInv
  <2>2. j \notin running
    BY <1>1 DEF LineInv, SlotsInv
  <2>3. Cardinality(running') = Cardinality(running) + 1
    BY <1>1, <1>5, <2>2, FS_AddElement
  <2>4. Cardinality(running') <= MaxRunning
    BY <1>1, <1>5, <2>3, LimitAssumption DEF MaxRunning, AtLeast
  <2> QED
    BY <1>1, <1>6, <2>1, <2>4 DEF SlotsInv
<1>8. PlacesInv'
  BY <1>1, <1>3, <1>6 DEF LineInv, PlacesInv, Numbered
<1>9. LimitInv'
  <2>1. jobs \cup {j} \subseteq Accepted'
    BY <1>4 DEF LineInv, Inv, RecordsInv, TypeOK, Accepted
  <2>2. ActiveJobs' \subseteq jobs \cup {j}
    BY <1>1, <1>3 DEF ActiveJobs, LineInv, Inv, RegisteredInv
  <2> QED
    BY <1>1, <1>2, <1>4, <2>1, <2>2, PruningKeepsLimit
<1> QED
  BY <1>2, <1>4, <1>7, <1>8, <1>9 DEF LineInv

LEMMA SubmitQueuedKeepsLine ==
  ASSUME LineInv, NEW j \in JobId, NEW r \in Request, SubmitQueued(j, r)
  PROVE  LineInv' /\ queue' = Append(queue, j)
<1>1. /\ Register(j, r) /\ status[j] = "new" /\ status' = [status EXCEPT ![j] = "queued"]
      /\ RefreshQueue(Append(queue, j), jobs \cup {j}, status', position)
      /\ jobs' = Pruned(jobs \cup {j}, status', created')
      /\ running' = running
      /\ ~(Cardinality(running) < MaxRunning)
  BY DEF SubmitQueued, Register, Answer
<1>2. Inv'
  BY SubmitQueuedKeepsInv DEF LineInv
<1>3. /\ status \in [JobId -> {"new"} \cup Active \cup Terminal]
      /\ position \in [JobId -> Nat] /\ queue \in Seq(JobId)
  BY DEF LineInv, Inv, TypeOK
<1>4. /\ AgesInv' /\ Accepted' = Accepted \cup {j}
      /\ \A i \in Accepted : created'[i] = created[i] /\ created[i] < created'[j]
  BY <1>1, RegisterAges DEF Active
<1>5. SlotsInv'
  <2>1. running' = {i \in JobId : status'[i] = "running"}
    BY <1>1, <1>3 DEF LineInv, SlotsInv
  <2>2. Cardinality(running) \in Nat
    <3>1. running \in SUBSET JobId
      BY DEF LineInv, Inv, TypeOK
    <3> QED
      BY <3>1, JobIdAssumption, FS_Subset, FS_CardinalityType
  <2>3. Cardinality(running) = MaxRunning
    BY <1>1, <2>2, LimitAssumption DEF LineInv, SlotsInv, MaxRunning, AtLeast
  <2>4. MaxRunning <= MaxRunning
    BY LimitAssumption DEF MaxRunning, AtLeast
  <2> QED
    BY <1>1, <2>1, <2>3, <2>4 DEF SlotsInv
<1> DEFINE q == Append(queue, j)
<1>6. /\ q \in Seq(JobId) /\ Len(queue) \in Nat
      /\ DOMAIN queue = 1..Len(queue) /\ DOMAIN q = 1..(Len(queue) + 1)
      /\ \A i \in DOMAIN queue : q[i] = queue[i]
      /\ q[Len(queue) + 1] = j
  BY <1>3
<1> HIDE DEF q
<1>7. \A i \in DOMAIN queue : queue[i] \in jobs /\ status[queue[i]] = "queued" /\ queue[i] # j
  BY <1>1 DEF LineInv, Inv, QueueInv
<1>8. IsLine(q, jobs \cup {j}, status')
  <2>1. ASSUME NEW i \in DOMAIN q
        PROVE  q[i] \in jobs \cup {j} /\ status'[q[i]] = "queued"
    <3>1. CASE i = Len(queue) + 1
      BY <1>1, <1>3, <1>6, <3>1
    <3>2. CASE i # Len(queue) + 1
      <4>1. i \in DOMAIN queue /\ q[i] = queue[i] /\ queue[i] \in JobId
        BY <1>3, <1>6, <3>2
      <4> QED
        BY <1>1, <1>3, <1>7, <4>1
    <3> QED
      BY <3>1, <3>2
  <2>2. ASSUME NEW i \in DOMAIN q, NEW k \in DOMAIN q, q[i] = q[k]
        PROVE  i = k
    BY <1>6, <1>7, <2>2 DEF LineInv, Inv, QueueInv
  <2>3. ASSUME NEW i \in JobId, status'[i] = "queued"
        PROVE  \E n \in DOMAIN q : q[n] = i
    <3>1. CASE i = j
      BY <1>6, <3>1
    <3>2. CASE i # j
      <4>1. position[i] \in DOMAIN queue /\ queue[position[i]] = i
        BY <1>1, <1>3, <2>3, <3>2 DEF LineInv, PlacesInv, Numbered
      <4> QED
        BY <1>6, <4>1
    <3> QED
      BY <3>1, <3>2
  <2> QED
    BY <2>1, <2>2, <2>3 DEF IsLine
<1>9. OthersCleared(status', position)
  BY <1>1, <1>3 DEF OthersCleared, LineInv, PlacesInv, Numbered
<1>10. queue' = q /\ Numbered(q, status', position')
  <2> DEFINE js == jobs \cup {j}
             st == status'
  <2>1. RefreshQueue(q, js, st, position) /\ IsLine(q, js, st) /\ OthersCleared(st, position)
    BY <1>1, <1>8, <1>9 DEF q
  <2>2. queue' = q /\ Numbered(q, st, position')
    <3> HIDE DEF js, st
    <3> QED
      BY <1>3, <1>6, <2>1, RefreshNumbers
  <2> QED
    BY <2>2
<1>11. PlacesInv'
  <2>1. ASSUME NEW i \in DOMAIN q, NEW k \in DOMAIN q, i < k
        PROVE  created'[q[i]] < created'[q[k]]
    <3>1. i \in DOMAIN queue /\ queue[i] \in Accepted
      BY <1>3, <1>6, <1>7, <2>1 DEF Accepted
    <3>2. CASE k = Len(queue) + 1
      BY <1>4, <1>6, <3>1, <3>2
    <3>3. CASE k # Len(queue) + 1
      <4>1. k \in DOMAIN queue
        BY <1>6, <3>3
      <4>2. queue[k] \in Accepted
        BY <1>3, <1>6, <1>7, <4>1 DEF Accepted
      <4> QED
        BY <1>4, <1>6, <2>1, <3>1, <4>1, <4>2 DEF LineInv, PlacesInv
    <3> QED
      BY <3>2, <3>3
  <2> QED
    BY <1>10, <2>1 DEF PlacesInv
<1>12. LimitInv'
  <2>1. jobs \cup {j} \subseteq Accepted'
    BY <1>4 DEF LineInv, Inv, RecordsInv, TypeOK, Accepted
  <2>2. ActiveJobs' \subseteq jobs \cup {j}
    BY <1>1, <1>3 DEF ActiveJobs, LineInv, Inv, RegisteredInv
  <2> QED
    BY <1>1, <1>2, <1>4, <2>1, <2>2, PruningKeepsLimit
<1> QED
  BY <1>2, <1>4, <1>5, <1>10, <1>11, <1>12 DEF LineInv, q

LEMMA FinishJobKeepsLine ==
  ASSUME LineInv, NEW j \in JobId, NEW result \in Terminal, FinishJob(j, result)
  PROVE  LineInv' /\ queue' = Rest
<1> DEFINE pos == [i \in JobId |-> IF i = j \/ i \in HandedOver THEN 0 ELSE position[i]]
<1>1. /\ status[j] = "running"
      /\ status' = [i \in JobId |-> IF i \in HandedOver THEN "running"
                                    ELSE IF i = j THEN result ELSE status[i]]
      /\ running' = (running \ {j}) \cup HandedOver
      /\ Cardinality(running') = Cardinality(running) - 1 + Popped
      /\ RefreshQueue(Rest, jobs, status', pos)
  BY FinishHandsOver
<1>2. jobs' = Pruned(jobs, status', created') /\ created' = created
  BY DEF FinishJob
<1>3. Inv'
  BY FinishJobKeepsInv DEF LineInv
<1>4. /\ Popped \in 0..1 /\ Popped <= Len(queue) /\ Len(queue) \in Nat
      /\ DOMAIN queue = 1..Len(queue)
      /\ HandedOver \subseteq JobId
      /\ \A i \in HandedOver : i \in jobs /\ status[i] = "queued"
      /\ Rest \in Seq(JobId)
      /\ DOMAIN Rest = 1..(Len(queue) - Popped)
      /\ \A m \in DOMAIN Rest : m + Popped \in DOMAIN queue /\ Rest[m] = queue[m + Popped]
      /\ \A m \in DOMAIN Rest : Rest[m] \notin HandedOver
  BY RestOfQueue DEF LineInv
<1>5. /\ j \notin HandedOver
      /\ \A i \in JobId : status'[i] = "queued" <=> status[i] = "queued" /\ i \notin HandedOver
      /\ \A i \in JobId : status'[i] = "running" <=> i \in HandedOver \/ (status[i] = "running" /\ i # j)
      /\ \A i \in JobId : status'[i] = "new" <=> status[i] = "new"
  BY <1>1, <1>4 DEF Terminal
<1>6. \A m \in DOMAIN Rest : Rest[m] \in JobId /\ Rest[m] \in jobs /\ status[Rest[m]] = "queued"
  <2>1. \A n \in DOMAIN queue : queue[n] \in JobId /\ queue[n] \in jobs /\ status[queue[n]] = "queued"
    BY <1>4 DEF LineInv, Inv, QueueInv, TypeOK
  <2> QED
    BY <1>4, <2>1
<1>7. IsLine(Rest, jobs, status')
  <2>1. ASSUME NEW i \in DOMAIN Rest, NEW k \in DOMAIN Rest, Rest[i] = Rest[k]
        PROVE  i = k
    <3>1. i + Popped = k + Popped
      BY <1>4, <2>1 DEF LineInv, Inv, QueueInv
    <3> QED
      BY <1>4, <3>1
  <2>2. ASSUME NEW i \in JobId, status'[i] = "queued"
        PROVE  \E m \in DOMAIN Rest : Rest[m] = i
    <3>1. position[i] \in DOMAIN queue /\ queue[position[i]] = i /\ i \notin HandedOver
      BY <1>5, <2>2 DEF LineInv, PlacesInv, Numbered
    <3>2. position[i] > Popped
      BY <1>4, <3>1 DEF HandedOver
    <3>3. position[i] - Popped \in DOMAIN Rest /\ (position[i] - Popped) + Popped = position[i]
      BY <1>4, <3>1, <3>2
    <3> QED
      BY <1>4, <3>1, <3>3
  <2> QED
    BY <1>4, <1>5, <1>6, <2>1, <2>2 DEF IsLine
<1>8. OthersCleared(status', pos) /\ pos \in [JobId -> Nat]
  BY <1>5 DEF OthersCleared, LineInv, PlacesInv, Numbered, Inv, TypeOK
<1> HIDE DEF pos
<1>9. queue' = Rest /\ Numbered(Rest, status', position')
  <2> DEFINE st == status'
  <2>1. RefreshQueue(Rest, jobs, st, pos) /\ IsLine(Rest, jobs, st) /\ OthersCleared(st, pos)
    BY <1>1, <1>7, <1>8
  <2>2. queue' = Rest /\ Numbered(Rest, st, position')
    <3> HIDE DEF st
    <3> QED
      BY <1>4, <1>8, <2>1, RefreshNumbers
  <2> QED
    BY <2>2
<1>10. SlotsInv'
  <2>1. running' = {i \in JobId : status'[i] = "running"}
    BY <1>1, <1>4, <1>5 DEF LineInv, SlotsInv
  <2>2. Cardinality(running) \in Nat
    <3>1. running \in SUBSET JobId
      BY DEF LineInv, Inv, TypeOK
    <3> QED
      BY <3>1, JobIdAssumption, FS_Subset, FS_CardinalityType
  <2>3. /\ Cardinality(running) <= MaxRunning /\ MaxRunning \in Nat
        /\ queue # <<>> => Cardinality(running) = MaxRunning
    BY LimitAssumption DEF LineInv, SlotsInv, MaxRunning, AtLeast
  <2>4. Cardinality(running') <= MaxRunning
    <3> HIDE DEF MaxRunning
    <3> QED
      BY <1>1, <1>4, <2>2, <2>3
  <2>5. Rest # <<>> => queue # <<>>
    <3> SUFFICES ASSUME queue = <<>> PROVE Rest = <<>>
      OBVIOUS
    <3>1. Len(queue) = 0 /\ Popped = 0
      BY DEF Popped
    <3>2. Len(Rest) = 0
      BY <1>4, <3>1, LenProperties
    <3> QED
      BY <1>4, <3>2, EmptySeq
  <2>6. queue' # <<>> => Cardinality(running') = MaxRunning
    <3> SUFFICES ASSUME queue # <<>> PROVE Cardinality(running') = MaxRunning
      BY <1>9, <2>5
    <3>1. Popped = 1
      BY DEF Popped
    <3> HIDE DEF MaxRunning
    <3> QED
      BY <1>1, <2>2, <2>3, <3>1
  <2> QED
    BY <2>1, <2>4, <2>6 DEF SlotsInv
<1>11. AgesInv'
  <2>1. Accepted' = Accepted
    BY <1>5 DEF Accepted
  <2>2. Cardinality(Accepted') = Cardinality(Accepted)
    BY <2>1, Zenon
  <2> QED
    BY <1>2, <2>1, <2>2 DEF LineInv, AgesInv
<1>12. PlacesInv'
  <2>1. ASSUME NEW i \in DOMAIN Rest, NEW k \in DOMAIN Rest, i < k
        PROVE  created[Rest[i]] < created[Rest[k]]
    <3>1. i + Popped < k + Popped
      BY <1>4, <2>1
    <3> QED
      BY <1>4, <3>1 DEF LineInv, PlacesInv
  <2> QED
    BY <1>2, <1>9, <2>1 DEF PlacesInv
<1>13. LimitInv'
  <2>1. jobs \subseteq Accepted'
    BY <1>5 DEF LineInv, Inv, RecordsInv, TypeOK, Accepted
  <2>2. ActiveJobs' \subseteq jobs
    <3>1. \A i \in JobId : status'[i] \in Active => status[i] \in Active
      BY <1>1, <1>4 DEF Active, Terminal
    <3> QED
      BY <3>1 DEF ActiveJobs, LineInv, Inv, RegisteredInv
  <2> QED
    BY <1>2, <1>3, <1>11, <2>1, <2>2, PruningKeepsLimit
<1> QED
  BY <1>3, <1>9, <1>10, <1>11, <1>12, <1>13 DEF LineInv
LEMMA LineInvNext == LineInv /\ [Next]_vars => LineInv'
<1> SUFFICES ASSUME LineInv, [Next]_vars PROVE LineInv'
  OBVIOUS
<1>1. ASSUME NEW j \in JobId, NEW r \in Request, SubmitRunning(j, r) PROVE LineInv'
  BY <1>1, SubmitRunningKeepsLine
<1>2. ASSUME NEW j \in JobId, NEW r \in Request, SubmitQueued(j, r) PROVE LineInv'
  BY <1>2, SubmitQueuedKeepsLine
<1>3. ASSUME NEW j \in JobId, NEW result \in Terminal, FinishJob(j, result) PROVE LineInv'
  BY <1>3, FinishJobKeepsLine
<1>4. ASSUME UNCHANGED <<records, jobs, queue, running>> PROVE LineInv'
  <2>1. Inv'
    BY InvNext DEF LineInv
  <2> QED
    BY <1>4, <2>1 DEF records, LineInv, SlotsInv, AgesInv, Accepted, PlacesInv, Numbered, LimitInv, ActiveJobs
<1>5. ASSUME NEW j \in JobId, StartWorker(j) \/ LoseWorker(j) PROVE LineInv'
  BY <1>4, <1>5 DEF StartWorker, LoseWorker
<1>6. CASE UNCHANGED vars
  BY <1>4, <1>6 DEF vars
<1> QED
  BY <1>1, <1>2, <1>3, <1>5, <1>6 DEF Next

(* The strengthened invariant holds in every reachable state.              *)
THEOREM LineInvariance == Spec => []LineInv
<1> QED
  BY LineInvInit, LineInvNext, PTL DEF Spec

(* A client finds its job until the job ends, and is shown its place in a  *)
(* line that is exactly the queued jobs in the order of their acceptance;  *)
(* above its limit the registry has given up every job that has ended.     *)
THEOREM ClientsAlwaysSeeTheirJobs == Spec => []ClientsSeeTheirJobs
<1>1. LineInv => ClientsSeeTheirJobs
  <2> SUFFICES ASSUME LineInv PROVE ClientsSeeTheirJobs
    OBVIOUS
  <2>1. ActiveJobs \subseteq jobs
    BY DEF LineInv, Inv, RegisteredInv, ActiveJobs
  <2>2. {queue[i] : i \in DOMAIN queue} = {j \in jobs : status[j] = "queued"}
    <3>1. jobs \subseteq JobId
      BY DEF LineInv, Inv, TypeOK
    <3> QED
      BY <3>1 DEF LineInv, Inv, QueueInv, PlacesInv, Numbered
  <2> QED
    BY <2>1, <2>2 DEF ClientsSeeTheirJobs, LineInv, LimitInv, PlacesInv, Numbered
<1> QED
  BY <1>1, LineInvariance, PTL

-----------------------------------------------------------------------------
(* The scheduler implements the lease service                              *)

(* The abstract specification counts as this one does.                     *)
LEMMA SameCardinality ==
  ASSUME NEW S
  PROVE  Leases!Cardinality(S) = Cardinality(S)
BY DEF Leases!Cardinality, Cardinality

(* The abstract phases, read from the records and the running set.         *)
LEMMA PhasesAre ==
  ASSUME LineInv
  PROVE  /\ \A j \in JobId : Phase(status[j]) = "new" <=> status[j] = "new"
         /\ \A j \in JobId : Phase(status[j]) = "active" <=> status[j] = "running"
         /\ \A j \in JobId : Phase(status[j]) \in {"waiting", "active"} <=> status[j] \in Active
         /\ Leases!Active = running
<1>1. \A j \in JobId : status[j] \in {"new"} \cup Active \cup Terminal
  BY DEF LineInv, Inv, TypeOK
<1>2. /\ \A j \in JobId : Phase(status[j]) = "new" <=> status[j] = "new"
      /\ \A j \in JobId : Phase(status[j]) = "active" <=> status[j] = "running"
      /\ \A j \in JobId : Phase(status[j]) \in {"waiting", "active"} <=> status[j] \in Active
  BY <1>1 DEF Phase, Active, Terminal
<1>3. Leases!Active = running
  BY <1>2 DEF Leases!Active, LineInv, SlotsInv
<1> QED
  BY <1>2, <1>3

(* An accepted request is for a lease that no active job holds.            *)
LEMMA AcceptedIsFree ==
  ASSUME LineInv, NEW r \in Request, Answer(r) \in {"running", "queued"}
  PROVE  r.db # ServeDb /\ Leases!Free(r)
<1>1. r.db \in Db /\ r.snapshot \in Snapshot
  BY RequestAssumption
<1>2. r.db # ServeDb /\ dbOwner[r.db] = None /\ snapOwner[r.snapshot] = None
  BY DEF Answer
<1>3. ASSUME NEW j \in JobId, status[j] \in Active
      PROVE  req[j].db # r.db /\ req[j].snapshot # r.snapshot
  BY <1>1, <1>2, <1>3, JobIdAssumption DEF LineInv, Inv, OwnersInv
<1>4. \A j \in Leases!Holders : j \in JobId /\ status[j] \in Active
  BY PhasesAre DEF Leases!Holders
<1> QED
  BY <1>2, <1>3, <1>4 DEF Leases!Free

LEMMA SubmitRunningIsAdmit ==
  ASSUME LineInv, NEW j \in JobId, NEW r \in Request, SubmitRunning(j, r)
  PROVE  r.db # ServeDb /\ Leases!Admit(j, r)
<1>1. /\ status[j] = "new" /\ status' = [status EXCEPT ![j] = "running"]
      /\ req' = [req EXCEPT ![j] = r] /\ queue' = queue
      /\ Answer(r) = "running" /\ Cardinality(running) < MaxRunning
  BY DEF SubmitRunning, Register, Answer
<1>2. r.db # ServeDb /\ Leases!Free(r)
  BY <1>1, AcceptedIsFree
<1>3. Leases!Cardinality(Leases!Active) < MaxRunning
  BY <1>1, PhasesAre, SameCardinality
<1>4. [i \in JobId |-> Phase(status'[i])] = [[i \in JobId |-> Phase(status[i])] EXCEPT ![j] = "active"]
  BY <1>1 DEF Phase, LineInv, Inv, TypeOK
<1> QED
  BY <1>1, <1>2, <1>3, <1>4 DEF Leases!Admit, Phase

LEMMA SubmitQueuedIsJoinLine ==
  ASSUME LineInv, NEW j \in JobId, NEW r \in Request, SubmitQueued(j, r)
  PROVE  r.db # ServeDb /\ Leases!JoinLine(j, r)
<1>1. /\ status[j] = "new" /\ status' = [status EXCEPT ![j] = "queued"]
      /\ req' = [req EXCEPT ![j] = r]
      /\ Answer(r) = "queued" /\ ~(Cardinality(running) < MaxRunning)
      /\ ~(Len(queue) >= MaxQueued)
  BY DEF SubmitQueued, Register, Answer
<1>2. queue' = Append(queue, j)
  BY SubmitQueuedKeepsLine
<1>3. r.db # ServeDb /\ Leases!Free(r)
  BY <1>1, AcceptedIsFree
<1>4. Leases!Cardinality(Leases!Active) = MaxRunning /\ Len(queue) < MaxQueued
  <2>1. running \in SUBSET JobId /\ Len(queue) \in Nat
    BY LenProperties DEF LineInv, Inv, TypeOK
  <2>2. Cardinality(running) \in Nat
    BY <2>1, JobIdAssumption, FS_Subset, FS_CardinalityType
  <2>3. MaxRunning \in Int /\ MaxQueued \in Int
    BY LimitAssumption DEF MaxRunning, MaxQueued, AtLeast
  <2>4. Cardinality(running) = MaxRunning /\ Len(queue) < MaxQueued
    <3> HIDE DEF MaxRunning, MaxQueued
    <3> QED
      BY <1>1, <2>1, <2>2, <2>3 DEF LineInv, SlotsInv
  <2> QED
    BY <2>4, PhasesAre, SameCardinality
<1>5. [i \in JobId |-> Phase(status'[i])] = [[i \in JobId |-> Phase(status[i])] EXCEPT ![j] = "waiting"]
  BY <1>1 DEF Phase, LineInv, Inv, TypeOK
<1> QED
  BY <1>1, <1>2, <1>3, <1>4, <1>5 DEF Leases!JoinLine, Phase

LEMMA FinishJobIsEnd ==
  ASSUME LineInv, NEW j \in JobId, NEW result \in Terminal, FinishJob(j, result)
  PROVE  Leases!Vacate(j) \/ Leases!HandOver(j)
<1>1. /\ status[j] = "running"
      /\ status' = [i \in JobId |-> IF i \in HandedOver THEN "running"
                                    ELSE IF i = j THEN result ELSE status[i]]
      /\ queue' = Rest /\ req' = req
  <2>1. queue' = Rest
    BY FinishJobKeepsLine
  <2>2. req' = req
    BY DEF FinishJob
  <2> QED
    BY <2>1, <2>2, FinishHandsOver
<1>2. /\ \A i \in HandedOver : status[i] = "queued"
      /\ queue \in Seq(JobId) /\ Len(queue) \in Nat
  BY RestOfQueue DEF LineInv, Inv, TypeOK
<1>3. CASE queue = <<>>
  <2>1. HandedOver = {} /\ Rest = <<>>
    <3>1. Len(queue) = 0 /\ Popped = 0
      BY <1>3 DEF Popped
    <3>2. HandedOver = {}
      BY <3>1 DEF HandedOver
    <3> QED
      BY <1>3, <3>1, <3>2, SubSeqEmpty DEF Rest
  <2>2. [i \in JobId |-> Phase(status'[i])] = [[i \in JobId |-> Phase(status[i])] EXCEPT ![j] = "ended"]
    BY <1>1, <2>1 DEF Phase, Terminal
  <2> QED
    BY <1>1, <1>3, <2>1, <2>2 DEF Leases!Vacate, Phase
<1>4. CASE queue # <<>>
  <2>1. HandedOver = {Head(queue)} /\ Rest = Tail(queue)
    <3>1. Popped = 1 /\ 1..1 = {1}
      BY <1>4 DEF Popped
    <3>2. HandedOver = {queue[1]}
      BY <3>1 DEF HandedOver
    <3>3. Head(queue) = queue[1]
      BY <1>2, <1>4
    <3>4. Rest = SubSeq(queue, 2, Len(queue))
      BY <3>1 DEF Rest
    <3> QED
      BY <1>2, <1>4, <3>2, <3>3, <3>4, TailIsSubSeq
  <2>2. Head(queue) # j /\ Head(queue) \in JobId
    BY <1>1, <1>2, <1>4, <2>1, HeadTailProperties
  <2>3. [i \in JobId |-> Phase(status'[i])]
          = [[i \in JobId |-> Phase(status[i])] EXCEPT ![j] = "ended", ![Head(queue)] = "active"]
    BY <1>1, <2>1, <2>2 DEF Phase, Terminal
  <2> QED
    BY <1>1, <1>4, <2>1, <2>3 DEF Leases!HandOver, Phase
<1> QED
  BY <1>3, <1>4

(* Every step of the scheduler is a step of the lease service, or none.    *)
LEMMA StepIsLeaseStep == LineInv /\ [Next]_vars => [Leases!Next]_(Leases!vars)
<1> SUFFICES ASSUME LineInv, [Next]_vars PROVE [Leases!Next]_(Leases!vars)
  OBVIOUS
<1>1. ASSUME NEW j \in JobId, NEW r \in Request, SubmitRunning(j, r) PROVE Leases!Next
  BY <1>1, SubmitRunningIsAdmit DEF Leases!Next
<1>2. ASSUME NEW j \in JobId, NEW r \in Request, SubmitQueued(j, r) PROVE Leases!Next
  BY <1>2, SubmitQueuedIsJoinLine DEF Leases!Next
<1>3. ASSUME NEW j \in JobId, NEW result \in Terminal, FinishJob(j, result) PROVE Leases!Next
  BY <1>3, FinishJobIsEnd DEF Leases!Next
<1>4. ASSUME NEW j \in JobId, StartWorker(j) \/ LoseWorker(j) PROVE UNCHANGED Leases!vars
  BY <1>4 DEF StartWorker, LoseWorker, records, Leases!vars
<1>5. CASE UNCHANGED vars
  BY <1>5 DEF vars, records, Leases!vars
<1> QED
  BY <1>1, <1>2, <1>3, <1>4, <1>5 DEF Next

(* The scheduler implements the lease service: every accepted job holds an *)
(* exclusive lease until it ends, at most MaxRunning hold a slot, and a    *)
(* freed slot passes to the head of the line in the same step.             *)
THEOREM SchedulerIsLeaseService == Spec => IsLeaseService
<1>1. Init => Leases!Init
  BY DEF Init, Leases!Init, Phase
<1> QED
  BY <1>1, LineInvariance, StepIsLeaseStep, PTL DEF Spec, IsLeaseService, Leases!Spec
=============================================================================
