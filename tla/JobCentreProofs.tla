-------------------------- MODULE JobCentreProofs ---------------------------
(* Proofs of the safety of the job centre, for any number of workers,      *)
(* queues and jobs, and that it implements the board.                      *)
EXTENDS JobCentre, SequenceTheorems, WellFoundedInduction, TLAPS

-----------------------------------------------------------------------------
(* Types *)

\* A task that replaces its state.
LEMMA WorkerUpdate ==
    ASSUME worker \in [Workers -> WorkerState], NEW w \in Workers, NEW s \in WorkerState,
           worker' = [worker EXCEPT ![w] = s]
    PROVE  /\ worker' \in [Workers -> WorkerState]
           /\ worker'[w] = s
           /\ \A v \in Workers : v # w => worker'[v] = worker[v]
  OBVIOUS

\* The fields of a typed task.
LEMMA FieldTypes ==
    ASSUME TypeOK, NEW w \in Workers
    PROVE  /\ worker[w] \in WorkerState
           /\ worker[w].jobs \in SUBSET Nat /\ worker[w].queues \in SUBSET Queues
           /\ worker[w].id \in Nat /\ worker[w].connected \in BOOLEAN
           /\ worker[w].wait \in BOOLEAN
           /\ Live(w) \subseteq worker[w].jobs
           /\ Len(issued) \in Nat /\ Ids \subseteq Nat
  BY DEF TypeOK, WorkerState, Live, Ids

\* A running record is determined by its id and its task, and gives them back.
LEMMA RunningFacts ==
    ASSUME TypeOK
    PROVE  /\ \A i, j, v, w : Running(i, v) = Running(j, w) <=> i = j /\ v = w
           /\ \A r \in running_jobs :
                 r = Running(r.id, r.worker) /\ r.id \in Ids /\ r.worker \in Workers
           /\ \A i, w : Running(i, w).id = i /\ Running(i, w).worker = w
<1>1. \A i, w : Running(i, w).id = i /\ Running(i, w).worker = w
  BY DEF Running
<1>2. \A r \in running_jobs :
         r = Running(r.id, r.worker) /\ r.id \in Ids /\ r.worker \in Workers
  BY DEF TypeOK, Running
<1>3. \A i, j, v, w : Running(i, v) = Running(j, w) <=> i = j /\ v = w
  BY <1>1
<1> QED BY <1>1, <1>2, <1>3

\* The states a task starts and ends in are typed, and hold no job.
LEMMA GoneTypes ==
    /\ Gone \in WorkerState /\ Fresh \in WorkerState
    /\ [Gone EXCEPT !.pc = "dropped"] \in WorkerState
    /\ Gone.pc = "gone" /\ Gone.jobs = {}
    /\ Fresh.pc = "idle" /\ Fresh.jobs = {}
    /\ [Gone EXCEPT !.pc = "dropped"].pc = "dropped"
    /\ [Gone EXCEPT !.pc = "dropped"].jobs = {}
  BY DEF Gone, Fresh, NoId, WorkerState

-----------------------------------------------------------------------------
(* Steps that leave JobCentreInner alone *)

StoreSame == UNCHANGED <<issued, jobs, queues, running_jobs>>

\* What a task may do without taking up or giving up a job.
Quiet(v) ==
    \/ /\ worker'[v].pc = worker[v].pc
       /\ worker'[v].jobs = worker[v].jobs
       /\ worker'[v].id = worker[v].id
    \/ /\ worker[v].pc \notin {"got", "aborting"}
       /\ worker'[v].pc \notin {"got", "aborting"}
       /\ Live(v) \subseteq worker'[v].jobs
       /\ worker'[v].jobs \subseteq worker[v].jobs
       /\ worker'[v].pc \in {"gone", "dropped"} => worker'[v].jobs = {}

\* A step that leaves the board alone and every task's hold on its jobs as it was.
LEMMA QuietStep ==
    ASSUME Inv, StoreSame, worker' \in [Workers -> WorkerState],
           \A v \in Workers : Quiet(v)
    PROVE  Inv'
<1>1. TypeOK'
  BY DEF Inv, TypeOK, StoreSame, Ids
<1>2. WaitsOrRuns' /\ OneWorker' /\ InItsQueue'
  BY DEF Inv, WaitsOrRuns, OneWorker, InItsQueue, StoreSame, Queued, Runs
<1>3. Recoverable'
  <2> SUFFICES ASSUME NEW r \in running_jobs
               PROVE  \/ r.id \in worker'[r.worker].jobs
                      \/ /\ worker'[r.worker].pc \in {"got", "aborting"}
                         /\ worker'[r.worker].id = r.id
    BY DEF Recoverable, StoreSame
  <2>1. r = Running(r.id, r.worker) /\ r.worker \in Workers
    BY RunningFacts DEF Inv
  <2>2. \/ r.id \in worker[r.worker].jobs
        \/ worker[r.worker].pc \in {"got", "aborting"} /\ worker[r.worker].id = r.id
    BY DEF Inv, Recoverable
  <2> QED BY <2>1, <2>2 DEF Quiet, Live
<1>4. GivenBackOnce'
  BY DEF Inv, GivenBackOnce, StoreSame, Queued, Quiet
<1>5. TasksInv'
  BY DEF Inv, TasksInv, StoreSame, Ids, Quiet
<1> QED BY <1>1, <1>2, <1>3, <1>4, <1>5 DEF Inv

\* The common case: one task moves on.
LEMMA MoveStep ==
    ASSUME Inv, StoreSame, NEW w \in Workers, NEW s \in WorkerState,
           worker' = [worker EXCEPT ![w] = s],
           worker[w].pc \notin {"got", "aborting"}, s.pc \notin {"got", "aborting"},
           Live(w) \subseteq s.jobs, s.jobs \subseteq worker[w].jobs,
           s.pc \in {"gone", "dropped"} => s.jobs = {}
    PROVE  Inv'
<1>1. /\ worker' \in [Workers -> WorkerState] /\ worker'[w] = s
      /\ \A v \in Workers : v # w => worker'[v] = worker[v]
  BY WorkerUpdate DEF Inv, TypeOK
<1>2. ASSUME NEW v \in Workers
      PROVE  Quiet(v)
  BY <1>1 DEF Quiet
<1> QED BY <1>1, <1>2, QuietStep

\* A new connection starts with no job, so the board is as it was.
LEMMA AcceptStep ==
    ASSUME Inv, NEW w \in Workers, Accept(w)
    PROVE  Inv'
<1>1. worker' = [worker EXCEPT ![w] = Fresh] /\ StoreSame
  BY DEF Accept, StoreSame
<1>2. worker[w].pc = "gone" /\ worker[w].jobs = {} /\ Live(w) = {}
  BY DEF Accept, Inv, TasksInv, Live
<1> QED BY <1>1, <1>2, GoneTypes, MoveStep

\* A peer that closes its connection changes no job: its task has yet to read of it.
LEMMA DisconnectStep ==
    ASSUME Inv, NEW w \in Workers, Disconnect(w)
    PROVE  Inv'
<1> DEFINE s == [worker[w] EXCEPT !.connected = FALSE]
<1>1. worker[w] \in WorkerState
  BY FieldTypes DEF Inv
<1>2. s \in WorkerState /\ s.pc = worker[w].pc /\ s.jobs = worker[w].jobs
        /\ s.id = worker[w].id
  BY <1>1 DEF WorkerState
<1>3. worker' = [worker EXCEPT ![w] = s] /\ StoreSame
  BY DEF Disconnect, StoreSame
<1> HIDE DEF s
<1>4. /\ worker' \in [Workers -> WorkerState] /\ worker'[w] = s
      /\ \A v \in Workers : v # w => worker'[v] = worker[v]
  BY <1>2, <1>3, WorkerUpdate DEF Inv, TypeOK
<1>5. ASSUME NEW v \in Workers
      PROVE  Quiet(v)
  BY <1>2, <1>4 DEF Quiet
<1> QED BY <1>3, <1>4, <1>5, QuietStep

\* An answer that ends a request which took up no job.
LEMMA AnswerStep ==
    ASSUME Inv, StoreSame, NEW w \in Workers, NEW a \in {"ok", "no-job"}, Answer(w, a),
           worker[w].pc \notin {"got", "aborting"}
    PROVE  Inv'
<1> DEFINE s == [worker[w] EXCEPT !.pc = "idle", !.answer = a, !.id = NoId,
                                  !.queues = {}, !.wait = FALSE]
<1>1. worker[w] \in WorkerState /\ Live(w) \subseteq worker[w].jobs
  BY FieldTypes DEF Inv
<1>2. s \in WorkerState /\ s.pc = "idle" /\ s.jobs = worker[w].jobs
  BY <1>1 DEF WorkerState, NoId
<1>3. worker' = [worker EXCEPT ![w] = s]
  BY DEF Answer
<1> HIDE DEF s
<1> QED BY <1>1, <1>2, <1>3, MoveStep

\* A get that finds no job answers or goes to wait, and takes nothing.
LEMMA TakeNothingStep ==
    ASSUME Inv, NEW w \in Workers, NEW named \in SUBSET Queues, NEW wait \in BOOLEAN,
           TakeNothing(w, named, wait), worker[w].pc \in {"idle", "woken"}
    PROVE  Inv'
<1>1. StoreSame
  BY DEF TakeNothing, StoreSame
<1>2. CASE Answer(w, "no-job")
  BY <1>1, <1>2, AnswerStep
<1>3. CASE worker' = [worker EXCEPT ![w].pc = "unlocked", ![w].queues = named,
                                    ![w].wait = TRUE, ![w].answer = "none"]
  <2> DEFINE s == [worker[w] EXCEPT !.pc = "unlocked", !.queues = named,
                                    !.wait = TRUE, !.answer = "none"]
  <2>1. worker[w] \in WorkerState /\ Live(w) \subseteq worker[w].jobs
    BY FieldTypes DEF Inv
  <2>2. s \in WorkerState /\ s.pc = "unlocked" /\ s.jobs = worker[w].jobs
    BY <2>1 DEF WorkerState
  <2>3. worker' = [worker EXCEPT ![w] = s]
    BY <1>3
  <2> HIDE DEF s
  <2> QED BY <1>1, <2>1, <2>2, <2>3, MoveStep
<1> QED BY <1>2, <1>3 DEF TakeNothing

\* A get that starts to listen keeps what it held.
LEMMA ListenStep ==
    ASSUME Inv, NEW w \in Workers, Listen(w)
    PROVE  Inv'
<1> DEFINE s == [worker[w] EXCEPT !.pc = "waiting"]
<1>1. worker[w] \in WorkerState /\ Live(w) \subseteq worker[w].jobs
  BY FieldTypes DEF Inv
<1>2. s \in WorkerState /\ s.pc = "waiting" /\ s.jobs = worker[w].jobs
  BY <1>1 DEF WorkerState
<1>3. worker' = [worker EXCEPT ![w] = s] /\ StoreSame /\ worker[w].pc = "unlocked"
  BY DEF Listen, StoreSame
<1> HIDE DEF s
<1> QED BY <1>1, <1>2, <1>3, MoveStep

\* notify_waiters wakes the tasks that wait, and changes nothing else.
LEMMA WokenQuiet ==
    ASSUME TypeOK, NEW v \in Workers
    PROVE  /\ Woken[v] \in WorkerState
           /\ Woken[v].jobs = worker[v].jobs /\ Woken[v].id = worker[v].id
           /\ \/ Woken[v].pc = worker[v].pc
              \/ Woken[v].pc = "woken" /\ worker[v].pc = "waiting"
<1>1. worker[v] \in WorkerState
  BY FieldTypes
<1>2. CASE worker[v].pc = "waiting"
  <2> DEFINE s == [worker[v] EXCEPT !.pc = "woken"]
  <2>1. Woken[v] = s
    BY <1>2 DEF Woken
  <2>2. s \in WorkerState /\ s.jobs = worker[v].jobs /\ s.id = worker[v].id /\ s.pc = "woken"
    BY <1>1 DEF WorkerState
  <2> HIDE DEF s
  <2> QED BY <1>2, <2>1, <2>2
<1>3. CASE worker[v].pc # "waiting"
  <2>1. Woken[v] = worker[v]
    BY <1>3 DEF Woken
  <2> QED BY <1>1, <2>1
<1> QED BY <1>2, <1>3

\* The notify_waiters that ends a put or an abort moves tasks, and no job.
LEMMA NotifyStep ==
    ASSUME Inv, NEW w \in Workers, Notify(w)
    PROVE  Inv'
<1> DEFINE s == [Woken[w] EXCEPT !.pc = "idle", !.answer = "ok"]
<1>1. StoreSame /\ worker[w].pc = "notify"
  BY DEF Notify, StoreSame
<1>2. worker' = [v \in Workers |-> IF v = w THEN s ELSE Woken[v]]
  BY DEF Notify, Woken
<1>3. s \in WorkerState /\ s.pc = "idle" /\ s.jobs = worker[w].jobs
  BY WokenQuiet DEF Inv, WorkerState
<1> HIDE DEF s
<1>4. worker' \in [Workers -> WorkerState]
  BY <1>2, <1>3, WokenQuiet DEF Inv
<1>5. ASSUME NEW v \in Workers
      PROVE  Quiet(v)
  BY <1>1, <1>2, <1>3, WokenQuiet, FieldTypes DEF Inv, Quiet
<1> QED BY <1>1, <1>4, <1>5, QuietStep

\* The notify_waiters at the end of a drop moves tasks, and no job.
LEMMA NotifyDroppedStep ==
    ASSUME Inv, NEW w \in Workers, NotifyDropped(w)
    PROVE  Inv'
<1>1. StoreSame /\ worker[w].pc = "dropped"
  BY DEF NotifyDropped, StoreSame
<1>2. worker' = [v \in Workers |-> IF v = w THEN Gone ELSE Woken[v]]
  BY DEF NotifyDropped, Woken
<1>3. worker[w].jobs = {} /\ Live(w) = {}
  BY <1>1 DEF Inv, TasksInv, Live
<1>4. worker' \in [Workers -> WorkerState]
  BY <1>2, GoneTypes, WokenQuiet DEF Inv
<1>5. ASSUME NEW v \in Workers
      PROVE  Quiet(v)
  BY <1>1, <1>2, <1>3, GoneTypes, WokenQuiet, FieldTypes DEF Inv, Quiet
<1> QED BY <1>1, <1>4, <1>5, QuietStep

-----------------------------------------------------------------------------
(* A task takes up a job it was given, or one it is to give back *)

\* The second half of a get: the id taken is looked up again, and is answered or lost.
LEMMA DeliverStep ==
    ASSUME Inv, NEW w \in Workers, Deliver(w)
    PROVE  Inv'
<1> DEFINE i == worker[w].id
           a == IF Running(i, w) \in running_jobs THEN "job" ELSE "no-job"
           s == [worker[w] EXCEPT !.pc = "idle", !.id = NoId, !.queues = {}, !.wait = FALSE,
                                  !.jobs = worker[w].jobs \cup {i}, !.answer = a]
<1>1. /\ worker[w] \in WorkerState /\ worker[w].pc = "got" /\ i \in Ids /\ i \in Nat
      /\ worker[w].jobs \subseteq Ids
  BY FieldTypes DEF Inv, TasksInv, Deliver
<1>2. s \in WorkerState /\ s.pc = "idle" /\ s.jobs = worker[w].jobs \cup {i}
  <2>1. a \in {"none", "ok", "job", "no-job"} /\ NoId \in Nat
    BY DEF NoId
  <2>2. worker[w].jobs \cup {i} \in SUBSET Nat
    BY <1>1, FieldTypes DEF Inv
  <2> HIDE DEF a, i
  <2> QED BY <1>1, <2>1, <2>2 DEF WorkerState
<1>3. worker' = [worker EXCEPT ![w] = s] /\ StoreSame
  BY DEF Deliver, StoreSame
<1> HIDE DEF s
<1>4. /\ worker' \in [Workers -> WorkerState] /\ worker'[w] = s
      /\ \A v \in Workers : v # w => worker'[v] = worker[v]
  BY <1>2, <1>3, WorkerUpdate DEF Inv, TypeOK
<1>5. TypeOK'
  BY <1>3, <1>4 DEF Inv, TypeOK, StoreSame, Ids
<1>6. WaitsOrRuns' /\ OneWorker' /\ InItsQueue'
  BY <1>3 DEF Inv, WaitsOrRuns, OneWorker, InItsQueue, StoreSame, Queued, Runs
<1>7. Recoverable'
  <2>1. \A r \in running_jobs : r.worker \in Workers
    BY RunningFacts DEF Inv
  <2> QED BY <1>1, <1>2, <1>3, <1>4, <2>1 DEF Inv, Recoverable, StoreSame
<1>8. GivenBackOnce'
  BY <1>2, <1>3, <1>4 DEF Inv, GivenBackOnce, StoreSame, Queued
<1>9. TasksInv'
  BY <1>1, <1>2, <1>3, <1>4 DEF Inv, TasksInv, StoreSame, Ids
<1> QED BY <1>5, <1>6, <1>7, <1>8, <1>9 DEF Inv

\* The first half of an abort forgets the dead jobs, and the one it will give back.
LEMMA AbortStep ==
    ASSUME Inv, NEW w \in Workers, NEW i \in 1..MaxJobs, Abort(w, i)
    PROVE  Inv'
<1>1. /\ worker[w] \in WorkerState /\ worker[w].pc = "idle" /\ StoreSame /\ i \in Nat
      /\ Live(w) \subseteq worker[w].jobs /\ worker[w].jobs \in SUBSET Nat
      /\ worker[w].jobs \subseteq Ids
  BY FieldTypes, MaxJobsAssumption DEF Inv, TasksInv, Abort, Reads, StoreSame
<1>2. CASE /\ i \notin Live(w)
           /\ worker' = [worker EXCEPT ![w].jobs = Live(w), ![w].answer = "no-job"]
  <2> DEFINE s == [worker[w] EXCEPT !.jobs = Live(w), !.answer = "no-job"]
  <2>1. s \in WorkerState /\ s.pc = "idle" /\ s.jobs = Live(w)
    BY <1>1 DEF WorkerState
  <2>2. worker' = [worker EXCEPT ![w] = s]
    BY <1>2
  <2> HIDE DEF s
  <2> QED BY <1>1, <2>1, <2>2, MoveStep
<1>3. CASE /\ i \in Live(w)
           /\ worker' = [worker EXCEPT ![w].pc = "aborting", ![w].id = i,
                                       ![w].answer = "none", ![w].jobs = Live(w) \ {i}]
  <2> DEFINE s == [worker[w] EXCEPT !.pc = "aborting", !.id = i, !.answer = "none",
                                    !.jobs = Live(w) \ {i}]
  <2>1. s \in WorkerState /\ s.pc = "aborting" /\ s.id = i /\ s.jobs = Live(w) \ {i}
    <3>1. Live(w) \ {i} \in SUBSET Nat
      BY <1>1
    <3> QED BY <1>1, <3>1 DEF WorkerState
  <2>2. worker' = [worker EXCEPT ![w] = s]
    BY <1>3
  <2> HIDE DEF s
  <2>3. /\ worker' \in [Workers -> WorkerState] /\ worker'[w] = s
        /\ \A v \in Workers : v # w => worker'[v] = worker[v]
    BY <2>1, <2>2, WorkerUpdate DEF Inv, TypeOK
  <2>4. Running(i, w) \in running_jobs /\ i \in Ids /\ i \in jobs
    <3>1. Running(i, w) \in running_jobs /\ i \in Ids
      BY <1>1, <1>3 DEF Live
    <3> QED BY <3>1, RunningFacts DEF Inv, OneWorker
  <2>5. ~Queued(i)
    BY <2>4 DEF Inv, WaitsOrRuns, Runs
  <2>6. TypeOK'
    BY <1>1, <2>3 DEF Inv, TypeOK, StoreSame, Ids
  <2>7. WaitsOrRuns' /\ OneWorker' /\ InItsQueue'
    BY <1>1 DEF Inv, WaitsOrRuns, OneWorker, InItsQueue, StoreSame, Queued, Runs
  <2>8. Recoverable'
    <3> SUFFICES ASSUME NEW r \in running_jobs
                 PROVE  \/ r.id \in worker'[r.worker].jobs
                        \/ /\ worker'[r.worker].pc \in {"got", "aborting"}
                           /\ worker'[r.worker].id = r.id
      BY <1>1 DEF Recoverable, StoreSame
    <3>1. r = Running(r.id, r.worker) /\ r.worker \in Workers
      BY RunningFacts DEF Inv
    <3>2. \/ r.id \in worker[r.worker].jobs
          \/ worker[r.worker].pc \in {"got", "aborting"} /\ worker[r.worker].id = r.id
      BY DEF Inv, Recoverable
    <3>3. CASE r.worker = w
      BY <1>1, <2>1, <2>3, <3>1, <3>2, <3>3 DEF Live
    <3>4. CASE r.worker # w
      BY <2>3, <3>1, <3>2, <3>4
    <3> QED BY <3>3, <3>4
  <2>9. GivenBackOnce'
    BY <1>1, <2>1, <2>3, <2>4, <2>5 DEF Inv, GivenBackOnce, StoreSame, Queued
  <2>10. ASSUME NEW v \in Workers, worker[v].pc = "aborting", worker[v].id = i
         PROVE  FALSE
    <3>1. Running(i, v) \in running_jobs
      BY <2>4, <2>10 DEF Inv, GivenBackOnce
    <3>2. Running(i, v) = Running(i, w)
      BY <2>4, <3>1, RunningFacts DEF Inv, OneWorker
    <3>3. v = w
      BY <3>2, RunningFacts DEF Inv
    <3> QED BY <1>1, <2>10, <3>3
  <2>11. TasksInv'
    BY <1>1, <2>1, <2>3, <2>4, <2>10 DEF Inv, TasksInv, StoreSame, Ids
  <2> QED BY <2>6, <2>7, <2>8, <2>9, <2>11 DEF Inv
<1> QED BY <1>2, <1>3 DEF Abort

-----------------------------------------------------------------------------
(* Steps under the lock *)

\* What is to be shown of the one task that moves.
LEMMA TasksMove ==
    ASSUME TasksInv, NEW w \in Workers, Ids' = Ids,
           \A v \in Workers : v # w => worker'[v] = worker[v],
           worker'[w].jobs \subseteq Ids,
           worker'[w].pc = "got" => worker'[w].id \in Ids,
           worker'[w].pc \in {"gone", "dropped"} => worker'[w].jobs = {},
           worker'[w].pc # "aborting"
    PROVE  TasksInv'
<1> SUFFICES ASSUME NEW v \in Workers
             PROVE  /\ worker'[v].jobs \subseteq Ids
                    /\ worker'[v].pc \in {"got", "aborting"} => worker'[v].id \in Ids
                    /\ worker'[v].pc \in {"gone", "dropped"} => worker'[v].jobs = {}
                    /\ \A u \in Workers :
                          worker'[u].pc = "aborting" /\ worker'[v].pc = "aborting"
                            /\ worker'[u].id = worker'[v].id => u = v
  BY DEF TasksInv
<1>1. CASE v = w
  BY <1>1
<1>2. CASE v # w
  BY <1>2 DEF TasksInv
<1> QED BY <1>1, <1>2

\* The new id is nobody's yet, and what was put before stays as it was.
LEMMA PutStep ==
    ASSUME Inv, NEW w \in Workers, NEW q \in Queues, NEW p \in Priorities, Put(w, q, p)
    PROVE  Inv'
<1> DEFINE n == Len(issued) + 1
           s == [worker[w] EXCEPT !.pc = "notify", !.answer = "none"]
<1>1. /\ worker[w] \in WorkerState /\ worker[w].pc = "idle"
      /\ issued \in Seq(Job) /\ Len(issued) \in Nat
  BY FieldTypes DEF Inv, TypeOK, Put, Reads
<1>2. s \in WorkerState /\ s.pc = "notify" /\ s.jobs = worker[w].jobs
  BY <1>1 DEF WorkerState
<1>3. /\ worker' = [worker EXCEPT ![w] = s] /\ running_jobs' = running_jobs
      /\ issued' = Append(issued, [queue |-> q, priority |-> p])
      /\ jobs' = jobs \cup {n}
      /\ queues' = [queues EXCEPT ![q] = @ \cup {n}]
  BY DEF Put
<1> HIDE DEF s
<1>4. /\ worker' \in [Workers -> WorkerState] /\ worker'[w] = s
      /\ \A v \in Workers : v # w => worker'[v] = worker[v]
  BY <1>2, <1>3, WorkerUpdate DEF Inv, TypeOK
<1>5. [queue |-> q, priority |-> p] \in Job
  BY PrioritiesAssumption DEF Job
<1>6. /\ issued' \in Seq(Job) /\ Len(issued') = n
      /\ \A i \in Ids : issued'[i] = issued[i]
      /\ issued'[n].queue = q
  BY <1>1, <1>3, <1>5 DEF Ids
<1>7. Ids' = Ids \cup {n} /\ n \notin Ids
  BY <1>1, <1>6 DEF Ids
<1> HIDE DEF n
<1>8. \A r \in Queues : queues'[r] = IF r = q THEN queues[r] \cup {n} ELSE queues[r]
  BY <1>3 DEF Inv, TypeOK
<1>9. /\ jobs \subseteq Ids /\ queues \in [Queues -> SUBSET Ids]
      /\ running_jobs \subseteq [id : Ids, worker : Workers]
  BY DEF Inv, TypeOK
<1>10. TypeOK'
  <2>1. queues' \in [Queues -> SUBSET Ids']
    BY <1>3, <1>7, <1>9
  <2> QED BY <1>3, <1>4, <1>6, <1>7, <1>9, <2>1 DEF TypeOK
<1>11. \A i : (Queued(i))' <=> Queued(i) \/ i = n
  BY <1>8 DEF Queued
<1>12. \A i : (Runs(i))' <=> Runs(i)
  BY <1>3 DEF Runs
<1>13. WaitsOrRuns'
  <2>1. ~Runs(n)
    BY <1>7, <1>9, RunningFacts DEF Runs, Inv
  <2> QED BY <1>3, <1>7, <1>9, <1>11, <1>12, <2>1 DEF Inv, WaitsOrRuns
<1>14. OneWorker'
  BY <1>3 DEF Inv, OneWorker
<1>15. InItsQueue'
  <2> SUFFICES ASSUME NEW r \in Queues, NEW i \in queues'[r]
               PROVE  issued'[i].queue = r
    BY DEF InItsQueue
  <2>1. CASE i \in queues[r]
    <3>1. i \in Ids /\ issued[i].queue = r
      BY <1>9, <2>1 DEF Inv, InItsQueue
    <3> QED BY <1>6, <3>1
  <2>2. CASE i = n /\ r = q
    BY <1>6, <2>2
  <2> QED BY <1>8, <2>1, <2>2
<1>16. Recoverable'
  <2>1. \A r \in running_jobs : r.worker \in Workers
    BY RunningFacts DEF Inv
  <2> QED BY <1>1, <1>2, <1>3, <1>4, <2>1 DEF Inv, Recoverable
<1>17. GivenBackOnce'
  <2> SUFFICES ASSUME NEW v \in Workers, worker'[v].pc = "aborting"
               PROVE  /\ ~(Queued(worker[v].id))'
                      /\ worker'[v].id \in jobs' => Running(worker'[v].id, v) \in running_jobs'
                      /\ worker'[v].id \notin worker'[v].jobs
    BY DEF GivenBackOnce
  <2>1. v # w /\ worker'[v] = worker[v] /\ worker[v].id \in Ids
    BY <1>2, <1>4 DEF Inv, TasksInv
  <2>2. worker[v].id # n
    BY <1>7, <2>1
  <2> QED BY <1>3, <1>11, <2>1, <2>2 DEF Inv, GivenBackOnce, Queued
<1>18. TasksInv'
  <2>1. \A v \in Workers : worker'[v].jobs = worker[v].jobs
    BY <1>2, <1>4
  <2>2. \A v \in Workers : v # w => worker'[v] = worker[v]
    BY <1>4
  <2>3. worker'[w].pc = "notify"
    BY <1>2, <1>4
  <2> QED BY <2>1, <2>2, <2>3, <1>7 DEF Inv, TasksInv
<1> QED BY <1>10, <1>13, <1>14, <1>15, <1>16, <1>17, <1>18 DEF Inv

\* What a queue shows as its best job is a job that waits there.
LEMMA PeekQueued ==
    ASSUME NEW q \in Queues, NEW i \in Peek(q)
    PROVE  i \in queues[q]
  BY DEF Peek

\* The first half of a get: one job leaves its queue and is recorded as running.
LEMMA TakeStep ==
    ASSUME Inv, NEW w \in Workers, NEW named \in SUBSET Queues, NEW wait \in BOOLEAN,
           Take(w, named, wait), worker[w].pc \in {"idle", "woken"}
    PROVE  Inv'
<1> PICK q \in named : \E i \in Peek(q) \cap Best(named) :
       /\ queues' = [queues EXCEPT ![q] = @ \ {i}]
       /\ \/ /\ i \in jobs
             /\ running_jobs' = running_jobs \cup {Running(i, w)}
             /\ worker' = [worker EXCEPT ![w].pc = "got", ![w].id = i, ![w].answer = "none",
                                         ![w].queues = named, ![w].wait = wait]
          \/ /\ i \notin jobs
             /\ worker' = [worker EXCEPT ![w].pc = "panicked", ![w].connected = FALSE,
                                         ![w].queues = {}, ![w].wait = FALSE]
             /\ UNCHANGED running_jobs
  BY DEF Take
<1> PICK i \in Peek(q) \cap Best(named) :
       /\ queues' = [queues EXCEPT ![q] = @ \ {i}]
       /\ \/ /\ i \in jobs
             /\ running_jobs' = running_jobs \cup {Running(i, w)}
             /\ worker' = [worker EXCEPT ![w].pc = "got", ![w].id = i, ![w].answer = "none",
                                         ![w].queues = named, ![w].wait = wait]
          \/ /\ i \notin jobs
             /\ worker' = [worker EXCEPT ![w].pc = "panicked", ![w].connected = FALSE,
                                         ![w].queues = {}, ![w].wait = FALSE]
             /\ UNCHANGED running_jobs
  OBVIOUS
<1>1. /\ worker[w] \in WorkerState /\ UNCHANGED <<issued, jobs>> /\ q \in Queues
      /\ queues \in [Queues -> SUBSET Ids] /\ i \in queues[q] /\ i \in Ids /\ Ids \subseteq Nat
      /\ Ids' = Ids /\ worker[w].jobs \subseteq Ids
  BY FieldTypes, PeekQueued DEF Inv, TypeOK, Take, TasksInv, Ids
<1>2. /\ queues' \in [Queues -> SUBSET Ids]
      /\ \A r \in Queues : queues'[r] = IF r = q THEN queues[r] \ {i} ELSE queues[r]
  BY <1>1
<1>3. \A r \in Queues : i \in queues[r] => r = q
  BY <1>1 DEF Inv, InItsQueue
<1>4. \A j : (Queued(j))' <=> Queued(j) /\ j # i
  BY <1>1, <1>2, <1>3 DEF Queued
<1>5. InItsQueue'
  BY <1>1, <1>2 DEF Inv, InItsQueue
<1>6. CASE /\ i \in jobs
           /\ running_jobs' = running_jobs \cup {Running(i, w)}
           /\ worker' = [worker EXCEPT ![w].pc = "got", ![w].id = i, ![w].answer = "none",
                                       ![w].queues = named, ![w].wait = wait]
  <2> DEFINE s == [worker[w] EXCEPT !.pc = "got", !.id = i, !.answer = "none",
                                    !.queues = named, !.wait = wait]
  <2>1. s \in WorkerState /\ s.pc = "got" /\ s.id = i /\ s.jobs = worker[w].jobs
    BY <1>1 DEF WorkerState
  <2>2. worker' = [worker EXCEPT ![w] = s]
    BY <1>6
  <2> HIDE DEF s
  <2>3. /\ worker' \in [Workers -> WorkerState] /\ worker'[w] = s
        /\ \A v \in Workers : v # w => worker'[v] = worker[v]
    BY <2>1, <2>2, WorkerUpdate DEF Inv, TypeOK
  <2>4. Queued(i) /\ ~Runs(i)
    BY <1>1, <1>6 DEF Inv, WaitsOrRuns, Queued
  <2>5. \A r \in running_jobs : r.id # i
    BY <2>4, RunningFacts DEF Runs, Inv
  <2>6. TypeOK'
    <3>1. Running(i, w) \in [id : Ids, worker : Workers]
      BY <1>1 DEF Running
    <3> QED BY <1>1, <1>2, <1>6, <2>3, <3>1 DEF Inv, TypeOK
  <2>7. \A j : (Runs(j))' <=> Runs(j) \/ j = i
    BY <1>6, RunningFacts DEF Runs, Inv
  <2>8. WaitsOrRuns'
    BY <1>1, <1>4, <2>4, <2>7 DEF Inv, WaitsOrRuns
  <2>9. OneWorker'
    BY <1>1, <1>6, <2>5, RunningFacts DEF Inv, OneWorker
  <2>10. Recoverable'
    <3>1. \A r \in running_jobs : r.worker \in Workers
      BY RunningFacts DEF Inv
    <3>2. Running(i, w).id = i /\ Running(i, w).worker = w
      BY DEF Running
    <3> QED BY <1>6, <2>1, <2>3, <3>1, <3>2 DEF Inv, Recoverable
  <2>11. GivenBackOnce'
    <3> SUFFICES ASSUME NEW v \in Workers, worker'[v].pc = "aborting"
                 PROVE  /\ ~(Queued(worker[v].id))'
                        /\ worker'[v].id \in jobs' =>
                              Running(worker'[v].id, v) \in running_jobs'
                        /\ worker'[v].id \notin worker'[v].jobs
      BY DEF GivenBackOnce
    <3>1. worker'[v] = worker[v] /\ v # w
      BY <2>1, <2>3
    <3>2. /\ ~Queued(worker[v].id) /\ worker[v].id \notin worker[v].jobs
          /\ worker[v].id \in jobs => Running(worker[v].id, v) \in running_jobs
      BY <3>1 DEF Inv, GivenBackOnce
    <3>3. ~(Queued(worker[v].id))'
      BY <1>2, <3>1, <3>2 DEF Queued
    <3> QED BY <1>1, <1>6, <3>1, <3>2, <3>3
  <2>12. TasksInv'
    BY <1>1, <2>1, <2>3, TasksMove DEF Inv
  <2> QED BY <1>5, <2>6, <2>8, <2>9, <2>10, <2>11, <2>12 DEF Inv
<1>7. CASE /\ i \notin jobs
           /\ worker' = [worker EXCEPT ![w].pc = "panicked", ![w].connected = FALSE,
                                       ![w].queues = {}, ![w].wait = FALSE]
           /\ UNCHANGED running_jobs
  <2> DEFINE s == [worker[w] EXCEPT !.pc = "panicked", !.connected = FALSE,
                                    !.queues = {}, !.wait = FALSE]
  <2>1. s \in WorkerState /\ s.pc = "panicked" /\ s.jobs = worker[w].jobs
    BY <1>1 DEF WorkerState
  <2>2. worker' = [worker EXCEPT ![w] = s]
    BY <1>7
  <2> HIDE DEF s
  <2>3. /\ worker' \in [Workers -> WorkerState] /\ worker'[w] = s
        /\ \A v \in Workers : v # w => worker'[v] = worker[v]
    BY <2>1, <2>2, WorkerUpdate DEF Inv, TypeOK
  <2>4. TypeOK'
    BY <1>1, <1>2, <1>7, <2>3 DEF Inv, TypeOK
  <2>5. \A j : (Runs(j))' <=> Runs(j)
    BY <1>7 DEF Runs
  <2>6. WaitsOrRuns'
    BY <1>1, <1>4, <1>7, <2>5 DEF Inv, WaitsOrRuns
  <2>7. OneWorker'
    BY <1>1, <1>7 DEF Inv, OneWorker
  <2>8. Recoverable'
    <3>1. \A r \in running_jobs : r.worker \in Workers
      BY RunningFacts DEF Inv
    <3> QED BY <1>7, <2>1, <2>3, <3>1 DEF Inv, Recoverable
  <2>9. GivenBackOnce'
    <3> SUFFICES ASSUME NEW v \in Workers, worker'[v].pc = "aborting"
                 PROVE  /\ ~(Queued(worker[v].id))'
                        /\ worker'[v].id \in jobs' =>
                              Running(worker'[v].id, v) \in running_jobs'
                        /\ worker'[v].id \notin worker'[v].jobs
      BY DEF GivenBackOnce
    <3>1. worker'[v] = worker[v] /\ v # w
      BY <2>1, <2>3
    <3>2. /\ ~Queued(worker[v].id) /\ worker[v].id \notin worker[v].jobs
          /\ worker[v].id \in jobs => Running(worker[v].id, v) \in running_jobs
      BY <3>1 DEF Inv, GivenBackOnce
    <3>3. ~(Queued(worker[v].id))'
      BY <1>2, <3>1, <3>2 DEF Queued
    <3> QED BY <1>1, <1>7, <3>1, <3>2, <3>3
  <2>10. TasksInv'
    BY <1>1, <2>1, <2>3, TasksMove DEF Inv
  <2> QED BY <1>5, <2>4, <2>6, <2>7, <2>8, <2>9, <2>10 DEF Inv
<1> QED BY <1>6, <1>7

\* A delete takes the job out of the queue or of the running set, wherever it is.
LEMMA DeleteStep ==
    ASSUME Inv, NEW w \in Workers, NEW i \in 1..MaxJobs, Delete(w, i)
    PROVE  Inv'
<1>1. /\ worker[w] \in WorkerState /\ worker[w].pc = "idle" /\ issued' = issued /\ Ids' = Ids
      /\ worker[w].jobs \subseteq Ids
  BY FieldTypes DEF Inv, TasksInv, Delete, Reads, Ids
<1>2. CASE /\ i \notin jobs /\ Answer(w, "no-job")
           /\ UNCHANGED <<jobs, queues, running_jobs>>
  BY <1>1, <1>2, AnswerStep DEF StoreSame
<1>3. CASE /\ i \in jobs
           /\ jobs' = jobs \ {i}
           /\ running_jobs' = {r \in running_jobs : r.id # i}
           /\ queues' = [queues EXCEPT ![issued[i].queue] = @ \ {i}]
           /\ Answer(w, "ok")
  <2> DEFINE s == [worker[w] EXCEPT !.pc = "idle", !.answer = "ok", !.id = NoId,
                                    !.queues = {}, !.wait = FALSE]
  <2>1. s \in WorkerState /\ s.pc = "idle" /\ s.jobs = worker[w].jobs
    BY <1>1 DEF WorkerState, NoId
  <2>2. worker' = [worker EXCEPT ![w] = s]
    BY <1>3 DEF Answer
  <2> HIDE DEF s
  <2>3. /\ worker' \in [Workers -> WorkerState] /\ worker'[w] = s
        /\ \A v \in Workers : v # w => worker'[v] = worker[v]
    BY <2>1, <2>2, WorkerUpdate DEF Inv, TypeOK
  <2>4. /\ queues \in [Queues -> SUBSET Ids] /\ issued \in Seq(Job)
        /\ jobs \subseteq Ids /\ running_jobs \subseteq [id : Ids, worker : Workers]
    BY DEF Inv, TypeOK
  <2>5. /\ queues' \in [Queues -> SUBSET Ids]
        /\ \A r \in Queues : queues'[r] = queues[r] \ {i}
    <3>1. \A r \in Queues : i \in queues[r] => r = issued[i].queue
      BY DEF Inv, InItsQueue
    <3> QED BY <1>3, <2>4, <3>1
  <2>6. TypeOK'
    BY <1>1, <1>3, <2>3, <2>4, <2>5 DEF TypeOK
  <2>7. \A j : (Queued(j))' <=> Queued(j) /\ j # i
    BY <2>5 DEF Queued
  <2>8. \A j : (Runs(j))' <=> Runs(j) /\ j # i
    BY <1>3, RunningFacts DEF Runs, Inv
  <2>9. WaitsOrRuns'
    BY <1>3, <2>7, <2>8 DEF Inv, WaitsOrRuns
  <2>10. OneWorker'
    BY <1>3 DEF Inv, OneWorker
  <2>11. InItsQueue'
    BY <1>1, <2>5 DEF Inv, InItsQueue
  <2>12. Recoverable'
    <3>1. \A r \in running_jobs : r.worker \in Workers
      BY RunningFacts DEF Inv
    <3> QED BY <1>1, <1>3, <2>1, <2>3, <3>1 DEF Inv, Recoverable
  <2>13. GivenBackOnce'
    <3> SUFFICES ASSUME NEW v \in Workers, worker'[v].pc = "aborting"
                 PROVE  /\ ~(Queued(worker[v].id))'
                        /\ worker'[v].id \in jobs' =>
                              Running(worker'[v].id, v) \in running_jobs'
                        /\ worker'[v].id \notin worker'[v].jobs
      BY DEF GivenBackOnce
    <3>1. worker'[v] = worker[v] /\ v # w
      BY <2>1, <2>3
    <3>2. /\ ~Queued(worker[v].id) /\ worker[v].id \notin worker[v].jobs
          /\ worker[v].id \in jobs => Running(worker[v].id, v) \in running_jobs
      BY <3>1 DEF Inv, GivenBackOnce
    <3>3. ~(Queued(worker[v].id))'
      BY <2>5, <3>1, <3>2 DEF Queued
    <3>4. Running(worker[v].id, v).id = worker[v].id
      BY DEF Running
    <3> QED BY <1>3, <3>1, <3>2, <3>3, <3>4
  <2>14. TasksInv'
    BY <1>1, <2>1, <2>3, TasksMove DEF Inv
  <2> QED BY <2>6, <2>9, <2>10, <2>11, <2>12, <2>13, <2>14 DEF Inv
<1> QED BY <1>2, <1>3 DEF Delete

\* The jobs given back are in the heap of their queue, and nobody's.
LEMMA GiveBackFacts ==
    ASSUME Inv, NEW ids \in SUBSET Ids, GiveBack(ids), UNCHANGED <<issued, jobs>>
    PROVE  /\ Ids' = Ids
           /\ queues' \in [Queues -> SUBSET Ids]
           /\ \A j : (Queued(j))' <=> Queued(j) \/ j \in ids
           /\ \A j : (Runs(j))' <=> Runs(j) /\ j \notin ids
           /\ OneWorker' /\ InItsQueue' /\ WaitsOrRuns'
<1>1. Ids' = Ids
  BY DEF Ids
<1>2. /\ queues \in [Queues -> SUBSET Ids] /\ issued \in Seq(Job)
      /\ running_jobs \subseteq [id : Ids, worker : Workers]
  BY DEF Inv, TypeOK
<1>3. /\ queues' = [q \in Queues |-> queues[q] \cup {i \in ids : issued[i].queue = q}]
      /\ running_jobs' = {r \in running_jobs : r.id \notin ids}
  BY DEF GiveBack
<1>4. queues' \in [Queues -> SUBSET Ids]
  BY <1>2, <1>3
<1>5. \A q \in Queues : queues'[q] = queues[q] \cup {i \in ids : issued[i].queue = q}
  BY <1>3
<1>6. \A i \in ids : issued[i].queue \in Queues
  <2>1. \A i \in Ids : issued[i] \in Job
    <3> HIDE DEF Job
    <3> QED BY <1>2 DEF Ids
  <2> QED BY <2>1 DEF Job
<1>7. \A j : (Queued(j))' <=> Queued(j) \/ j \in ids
  BY <1>5, <1>6 DEF Queued
<1>8. \A j : (Runs(j))' <=> Runs(j) /\ j \notin ids
  BY <1>3, RunningFacts DEF Runs, Inv
<1>9. OneWorker'
  BY <1>3 DEF Inv, OneWorker
<1>10. InItsQueue'
  BY <1>5 DEF Inv, InItsQueue
<1>11. WaitsOrRuns'
  BY <1>7, <1>8 DEF Inv, WaitsOrRuns
<1> QED BY <1>1, <1>4, <1>7, <1>8, <1>9, <1>10, <1>11

\* The second half of an abort: the job goes back to the queue it came from.
LEMMA FinishAbortStep ==
    ASSUME Inv, NEW w \in Workers, FinishAbort(w)
    PROVE  Inv'
<1> DEFINE i == worker[w].id
           s == [worker[w] EXCEPT !.pc = "notify", !.id = NoId]
<1>1. /\ worker[w] \in WorkerState /\ worker[w].pc = "aborting" /\ i \in Ids
      /\ {i} \in SUBSET Ids /\ worker[w].jobs \subseteq Ids
      /\ UNCHANGED <<issued, jobs>> /\ GiveBack({i})
  BY FieldTypes DEF Inv, TasksInv, FinishAbort
<1>2. s \in WorkerState /\ s.pc = "notify" /\ s.jobs = worker[w].jobs
  BY <1>1 DEF WorkerState, NoId
<1>3. worker' = [worker EXCEPT ![w] = s]
  BY DEF FinishAbort
<1> HIDE DEF s
<1>4. /\ worker' \in [Workers -> WorkerState] /\ worker'[w] = s
      /\ \A v \in Workers : v # w => worker'[v] = worker[v]
  BY <1>2, <1>3, WorkerUpdate DEF Inv, TypeOK
<1>5. running_jobs' = {r \in running_jobs : r.id # i}
  BY <1>1 DEF GiveBack
<1> HIDE DEF i
<1>6. /\ Ids' = Ids /\ queues' \in [Queues -> SUBSET Ids]
      /\ \A j : (Queued(j))' <=> Queued(j) \/ j = i
      /\ OneWorker' /\ InItsQueue' /\ WaitsOrRuns'
  BY <1>1, GiveBackFacts
<1>7. TypeOK'
  BY <1>1, <1>4, <1>5, <1>6 DEF Inv, TypeOK
<1>8. Recoverable'
  <2> SUFFICES ASSUME NEW r \in running_jobs, r.id # i
               PROVE  \/ r.id \in worker'[r.worker].jobs
                      \/ /\ worker'[r.worker].pc \in {"got", "aborting"}
                         /\ worker'[r.worker].id = r.id
    BY <1>5 DEF Recoverable
  <2>1. r.worker \in Workers
    BY RunningFacts DEF Inv
  <2>2. \/ r.id \in worker[r.worker].jobs
        \/ worker[r.worker].pc \in {"got", "aborting"} /\ worker[r.worker].id = r.id
    BY DEF Inv, Recoverable
  <2>3. CASE r.worker = w
    BY <1>2, <1>4, <2>2, <2>3 DEF i
  <2>4. CASE r.worker # w
    BY <1>4, <2>1, <2>2, <2>4
  <2> QED BY <2>3, <2>4
<1>9. GivenBackOnce'
  <2> SUFFICES ASSUME NEW v \in Workers, worker'[v].pc = "aborting"
               PROVE  /\ ~(Queued(worker[v].id))'
                      /\ worker'[v].id \in jobs' =>
                            Running(worker'[v].id, v) \in running_jobs'
                      /\ worker'[v].id \notin worker'[v].jobs
    BY DEF GivenBackOnce
  <2>1. worker'[v] = worker[v] /\ v # w
    BY <1>2, <1>4
  <2>2. /\ ~Queued(worker[v].id) /\ worker[v].id \notin worker[v].jobs
        /\ worker[v].id \in jobs => Running(worker[v].id, v) \in running_jobs
    BY <2>1 DEF Inv, GivenBackOnce
  <2>3. worker[v].id # i
    BY <1>1, <2>1 DEF Inv, TasksInv, i
  <2>4. ~(Queued(worker[v].id))'
    <3> DEFINE j == worker[v].id
    <3>1. worker'[v].id = j /\ ~Queued(j) /\ j # i
      BY <2>1, <2>2, <2>3
    <3> HIDE DEF j
    <3>2. \A q \in Queues : j \notin queues'[q]
      BY <1>6, <3>1 DEF Queued
    <3> QED BY <3>1, <3>2 DEF Queued
  <2>5. Running(worker[v].id, v).id = worker[v].id
    BY DEF Running
  <2> QED BY <1>1, <1>5, <2>1, <2>2, <2>3, <2>4, <2>5
<1>10. TasksInv'
  BY <1>1, <1>2, <1>4, <1>6, TasksMove DEF Inv
<1> QED BY <1>6, <1>7, <1>8, <1>9, <1>10 DEF Inv

\* A task that ends gives back every job it still runs.
LEMMA DropStep ==
    ASSUME Inv, NEW w \in Workers, Drop(w)
    PROVE  Inv'
<1> DEFINE ids == Live(w)
           s == [Gone EXCEPT !.pc = "dropped"]
<1>1. /\ worker[w] \in WorkerState /\ worker[w].pc \in {"idle", "panicked"}
      /\ worker[w].jobs \subseteq Ids /\ ids \in SUBSET Ids
      /\ UNCHANGED <<issued, jobs>> /\ GiveBack(ids)
  BY FieldTypes DEF Inv, TasksInv, Drop
<1>2. s \in WorkerState /\ s.pc = "dropped" /\ s.jobs = {}
  BY GoneTypes
<1>3. worker' = [worker EXCEPT ![w] = s]
  BY DEF Drop
<1> HIDE DEF s
<1>4. /\ worker' \in [Workers -> WorkerState] /\ worker'[w] = s
      /\ \A v \in Workers : v # w => worker'[v] = worker[v]
  BY <1>2, <1>3, WorkerUpdate DEF Inv, TypeOK
<1>5. running_jobs' = {r \in running_jobs : r.id \notin ids}
  BY <1>1 DEF GiveBack
<1>6. \A j \in ids : Running(j, w) \in running_jobs
  BY DEF Live
<1>7. \A r \in running_jobs : r.worker = w => r.id \in ids
  <2> SUFFICES ASSUME NEW r \in running_jobs, r.worker = w
               PROVE  r.id \in ids
    OBVIOUS
  <2>1. r.id \in worker[w].jobs
    BY <1>1 DEF Inv, Recoverable
  <2>2. r = Running(r.id, w)
    BY RunningFacts DEF Inv
  <2> QED BY <2>1, <2>2 DEF Live
<1> HIDE DEF ids
<1>8. /\ Ids' = Ids /\ queues' \in [Queues -> SUBSET Ids]
      /\ \A j : (Queued(j))' <=> Queued(j) \/ j \in ids
      /\ OneWorker' /\ InItsQueue' /\ WaitsOrRuns'
  BY <1>1, GiveBackFacts
<1>9. TypeOK'
  BY <1>1, <1>4, <1>5, <1>8 DEF Inv, TypeOK
<1>10. Recoverable'
  <2> SUFFICES ASSUME NEW r \in running_jobs, r.id \notin ids
               PROVE  \/ r.id \in worker'[r.worker].jobs
                      \/ /\ worker'[r.worker].pc \in {"got", "aborting"}
                         /\ worker'[r.worker].id = r.id
    BY <1>5 DEF Recoverable
  <2>1. r.worker \in Workers /\ r.worker # w
    BY <1>7, RunningFacts DEF Inv
  <2>2. \/ r.id \in worker[r.worker].jobs
        \/ worker[r.worker].pc \in {"got", "aborting"} /\ worker[r.worker].id = r.id
    BY DEF Inv, Recoverable
  <2> QED BY <1>4, <2>1, <2>2
<1>11. GivenBackOnce'
  <2> SUFFICES ASSUME NEW v \in Workers, worker'[v].pc = "aborting"
               PROVE  /\ ~(Queued(worker[v].id))'
                      /\ worker'[v].id \in jobs' =>
                            Running(worker'[v].id, v) \in running_jobs'
                      /\ worker'[v].id \notin worker'[v].jobs
    BY DEF GivenBackOnce
  <2>1. worker'[v] = worker[v] /\ v # w
    BY <1>2, <1>4
  <2>2. /\ ~Queued(worker[v].id) /\ worker[v].id \notin worker[v].jobs
        /\ worker[v].id \in jobs => Running(worker[v].id, v) \in running_jobs
    BY <2>1 DEF Inv, GivenBackOnce
  <2>3. worker[v].id \notin ids
    <3> SUFFICES ASSUME worker[v].id \in ids
                 PROVE  FALSE
      OBVIOUS
    <3>1. Running(worker[v].id, w) \in running_jobs
      BY <1>6
    <3>2. worker[v].id \in jobs
      BY <3>1, RunningFacts DEF Inv, OneWorker
    <3>3. Running(worker[v].id, v) = Running(worker[v].id, w)
      BY <2>2, <3>1, <3>2, RunningFacts DEF Inv, OneWorker
    <3> QED BY <2>1, <3>3, RunningFacts DEF Inv
  <2>4. ~(Queued(worker[v].id))'
    <3> DEFINE j == worker[v].id
    <3>1. worker'[v].id = j /\ ~Queued(j) /\ j \notin ids
      BY <2>1, <2>2, <2>3
    <3> HIDE DEF j
    <3>2. \A q \in Queues : j \notin queues'[q]
      BY <1>8, <3>1 DEF Queued
    <3> QED BY <3>1, <3>2 DEF Queued
  <2>5. Running(worker[v].id, v).id = worker[v].id
    BY DEF Running
  <2> QED BY <1>1, <1>5, <2>1, <2>2, <2>3, <2>4, <2>5
<1>12. TasksInv'
  BY <1>1, <1>2, <1>4, <1>8, TasksMove DEF Inv
<1> QED BY <1>8, <1>9, <1>10, <1>11, <1>12 DEF Inv

-----------------------------------------------------------------------------
(* The invariant *)

\* The empty board satisfies the invariant.
LEMMA InitInv == Init => Inv
<1> SUFFICES ASSUME Init
             PROVE  Inv
  OBVIOUS
<1>1. /\ issued = <<>> /\ Len(issued) = 0 /\ issued \in Seq(Job)
      /\ jobs = {} /\ running_jobs = {} /\ queues = [q \in Queues |-> {}]
  BY DEF Init
<1>2. \A w \in Workers : worker[w] = Gone
  BY DEF Init
<1>3. TypeOK
  BY <1>1, GoneTypes DEF Init, TypeOK
<1>4. WaitsOrRuns /\ OneWorker /\ InItsQueue /\ Recoverable
  BY <1>1 DEF WaitsOrRuns, OneWorker, InItsQueue, Recoverable
<1>5. GivenBackOnce /\ TasksInv
  BY <1>2, GoneTypes DEF GivenBackOnce, TasksInv
<1> QED BY <1>3, <1>4, <1>5 DEF Inv

\* A get, first or repeated after a wake, whether or not it finds a job.
LEMMA TryGetStep ==
    ASSUME Inv, NEW w \in Workers, NEW named \in SUBSET Queues, NEW wait \in BOOLEAN,
           TryGet(w, named, wait), worker[w].pc \in {"idle", "woken"}
    PROVE  Inv'
  BY TakeStep, TakeNothingStep DEF TryGet

\* Every step of the system keeps the invariant.
LEMMA NextInv == Inv /\ [Next]_vars => Inv'
<1> SUFFICES ASSUME Inv, [Next]_vars
             PROVE  Inv'
  OBVIOUS
<1>1. CASE UNCHANGED vars
  <2>1. StoreSame /\ worker' = worker
    BY <1>1 DEF vars, StoreSame
  <2>2. worker' \in [Workers -> WorkerState] /\ \A v \in Workers : Quiet(v)
    BY <2>1 DEF Inv, TypeOK, Quiet
  <2> QED BY <2>1, <2>2, QuietStep
<1>2. ASSUME NEW w \in Workers, Accept(w) \/ Disconnect(w)
      PROVE  Inv'
  BY <1>2, AcceptStep, DisconnectStep
<1>3. ASSUME NEW w \in Workers, Request(w)
      PROVE  Inv'
  <2>1. ASSUME NEW q \in Queues, NEW p \in Priorities, Put(w, q, p)
        PROVE  Inv'
    BY <2>1, PutStep
  <2>2. ASSUME NEW named \in SUBSET Queues, NEW wait \in BOOLEAN, Get(w, named, wait)
        PROVE  Inv'
    BY <2>2, TryGetStep DEF Get, Reads
  <2>3. ASSUME NEW i \in 1..MaxJobs, Delete(w, i) \/ Abort(w, i)
        PROVE  Inv'
    BY <2>3, DeleteStep, AbortStep
  <2> QED BY <1>3, <2>1, <2>2, <2>3 DEF Request
<1>4. ASSUME NEW w \in Workers, Continue(w)
      PROVE  Inv'
  <2>1. CASE Retry(w)
    <3>1. worker[w].queues \in SUBSET Queues
      BY FieldTypes DEF Inv
    <3>2. TryGet(w, worker[w].queues, TRUE) /\ worker[w].pc = "woken"
      BY <2>1 DEF Retry
    <3> QED BY <3>1, <3>2, TryGetStep
  <2>2. CASE Listen(w) \/ Deliver(w) \/ FinishAbort(w) \/ Notify(w)
    BY <2>2, ListenStep, DeliverStep, FinishAbortStep, NotifyStep
  <2>3. CASE Drop(w) \/ NotifyDropped(w)
    BY <2>3, DropStep, NotifyDroppedStep
  <2> QED BY <1>4, <2>1, <2>2, <2>3 DEF Continue
<1> QED BY <1>1, <1>2, <1>3, <1>4 DEF Next

\* Every state the job centre and its tasks reach satisfies the invariant.
THEOREM Invariance == Spec => []Inv
<1>1. Init => Inv
  BY InitInv
<1>2. Inv /\ [Next]_vars => Inv'
  BY NextInv
<1> QED BY <1>1, <1>2, PTL DEF Spec

\* The maps, heaps and lists of JobCentreInner and the tasks keep their types.
THEOREM TypeCorrect == Spec => []TypeOK
  BY Invariance, PTL DEF Inv

\* JobCentreInner never loses a job, nor lets it wait while it is worked on.
THEOREM NeverLost == Spec => []WaitsOrRuns
  BY Invariance, PTL DEF Inv

\* get never hands one job to two clients, nor a job that was deleted.
THEOREM OneClientPerJob == Spec => []OneWorker
  BY Invariance, PTL DEF Inv

\* put, abort and remove_worker put a job in the heap of its own queue only.
THEOREM OwnQueue == Spec => []InItsQueue
  BY Invariance, PTL DEF Inv

\* What a client works on is where Worker::drop finds it when its task ends.
THEOREM DropFindsThem == Spec => []Recoverable
  BY Invariance, PTL DEF Inv

\* JobCentreInner::abort never puts a job in its heap a second time.
THEOREM AbortsOnce == Spec => []GivenBackOnce
  BY Invariance, PTL DEF Inv

-----------------------------------------------------------------------------
(* The best job *)

\* A set of numbers with 0 and the successors of its members has every number.
LEMMA SetInduction ==
    ASSUME NEW T \in SUBSET Nat, 0 \in T, \A n \in T : n + 1 \in T
    PROVE  T = Nat
<1> SUFFICES ASSUME Nat \ T # {} PROVE FALSE
  OBVIOUS
<1>1. PICK m \in Nat \ T : \A k \in Nat \ T : ~ (<<k, m>> \in OpToRel(<, Nat))
  <2> HIDE DEF OpToRel
  <2> QED
    BY WFMin, NatLessThanWellFounded
<1>2. \A k \in Nat \ T : ~ (k < m)
  BY <1>1 DEF OpToRel
<1> QED
  BY <1>2

\* Of jobs of any priorities, finitely many, one is before all others: the one of the
\* greatest priority that was put last.
LEMMA GreatestJob ==
    ASSUME issued \in Seq(Job), NEW S \in SUBSET Ids, S # {}
    PROVE  \E i \in S : \A j \in S :
              \/ issued[j].priority < issued[i].priority
              \/ issued[j].priority = issued[i].priority /\ j <= i
<1> DEFINE Before(j, i) == \/ issued[j].priority < issued[i].priority
                           \/ issued[j].priority = issued[i].priority /\ j <= i
           T == {n \in Nat : \A R \in SUBSET (Ids \cap 1..n) :
                    R # {} => \E i \in R : \A j \in R : Before(j, i)}
<1>1. Len(issued) \in Nat /\ \A i \in Ids : i \in Nat /\ issued[i].priority \in Nat
  <2>1. \A i \in Ids : issued[i] \in Job
    BY ElementOfSeq DEF Ids
  <2> QED
    BY <2>1, LenProperties DEF Ids, Job
<1>2. 0 \in T
  OBVIOUS
<1>3. ASSUME NEW n \in T PROVE n + 1 \in T
  <2> SUFFICES ASSUME NEW R \in SUBSET (Ids \cap 1..(n + 1)), R # {}
               PROVE  \E i \in R : \A j \in R : Before(j, i)
    OBVIOUS
  <2> DEFINE Q == R \ {n + 1}
  <2>1. n \in Nat /\ Q \in SUBSET (Ids \cap 1..n)
    OBVIOUS
  <2>2. CASE n + 1 \notin R
    <3>1. Q = R
      BY <2>2
    <3> HIDE DEF Before, Q
    <3> QED
      BY <2>1, <3>1
  <2>3. CASE n + 1 \in R /\ Q = {}
    BY <1>1, <2>3
  <2>4. CASE n + 1 \in R /\ Q # {}
    <3>1. PICK i \in Q : \A j \in Q : Before(j, i)
      <4> HIDE DEF Before, Q
      <4> QED
        BY <2>1, <2>4
    <3>2. i \in Nat /\ i <= n /\ issued[i].priority \in Nat /\ issued[n + 1].priority \in Nat
      BY <1>1, <2>1, <2>4
    <3>3. \A j \in Q : j \in Nat /\ j <= n /\ issued[j].priority \in Nat
      BY <1>1, <2>1
    <3>4. CASE issued[i].priority <= issued[n + 1].priority
      <4>1. \A j \in Q : Before(j, n + 1)
        BY <2>1, <3>1, <3>2, <3>3, <3>4
      <4>2. Before(n + 1, n + 1)
        BY <2>1, <3>2
      <4> HIDE DEF Before
      <4> QED
        BY <2>4, <4>1, <4>2
    <3>5. CASE ~ (issued[i].priority <= issued[n + 1].priority)
      <4>1. Before(n + 1, i)
        BY <3>2, <3>5
      <4> HIDE DEF Before
      <4> QED
        BY <3>1, <4>1
    <3> QED
      BY <3>4, <3>5
  <2> QED
    BY <2>2, <2>3, <2>4
<1>4. T = Nat
  <2> HIDE DEF T
  <2> QED
    BY <1>2, <1>3, SetInduction DEF T
<1>5. S \in SUBSET (Ids \cap 1..Len(issued))
  BY DEF Ids
<1>6. Len(issued) \in T
  <2> HIDE DEF T
  <2> QED
    BY <1>1, <1>4
<1> QED
  BY <1>5, <1>6

\* max_by_key gives a job of the greatest priority among those that wait in the queues.
LEMMA BestIsBest ==
    ASSUME Inv, NEW named \in SUBSET Queues, NEW i \in Best(named),
           NEW j, Queued(j), issued[j].queue \in named
    PROVE  issued[j].priority <= issued[i].priority
<1>1. PICK q \in Queues : j \in queues[q]
  BY DEF Queued
<1>2. q \in named
  BY <1>1 DEF Inv, InItsQueue
<1>3. queues[q] \in SUBSET Ids /\ issued \in Seq(Job)
  BY DEF Inv, TypeOK
<1>4. PICK k \in queues[q] : \A l \in queues[q] :
            \/ issued[l].priority < issued[k].priority
            \/ issued[l].priority = issued[k].priority /\ l <= k
  BY <1>1, <1>3, GreatestJob
<1>5. k \in Peek(q)
  BY <1>4 DEF Peek
<1>6. issued[k].priority <= issued[i].priority
  BY <1>2, <1>5 DEF Best
<1>7. i \in Ids
  BY <1>2, <1>3 DEF Best, Peek, Inv, TypeOK
<1>8. \A l \in Ids : issued[l].priority \in Nat
  <2>1. \A l \in Ids : issued[l] \in Job
    BY <1>3, ElementOfSeq DEF Ids
  <2> QED
    BY <2>1 DEF Job
<1>9. issued[j].priority <= issued[k].priority
  BY <1>1, <1>3, <1>4, <1>8
<1> QED
  BY <1>1, <1>3, <1>6, <1>7, <1>8, <1>9

\* Only a get that finds a job brings a task to the job it got.
LEMMA OnlyTakeGets ==
    ASSUME Inv, [Next]_vars, NEW w \in Workers, worker'[w].pc = "got", worker[w].pc # "got"
    PROVE  \E named \in SUBSET Queues, wait \in BOOLEAN : Take(w, named, wait)
<1>1. worker \in [Workers -> WorkerState]
  BY DEF Inv, TypeOK
<1>2. ASSUME NEW v \in Workers, NEW s, worker' = [worker EXCEPT ![v] = s], s.pc # "got"
      PROVE  FALSE
  BY <1>1, <1>2
<1>3. ASSUME NEW v \in Workers, NEW s, worker' = [Woken EXCEPT ![v] = s], s.pc # "got"
      PROVE  FALSE
  <2>1. Woken[w].pc # "got"
    BY <1>1 DEF Woken
  <2>2. worker'[w].pc = IF w = v THEN s.pc ELSE Woken[w].pc
    BY <1>3 DEF Woken
  <2> QED
    BY <1>3, <2>1, <2>2
<1>4. \A v \in Workers : /\ worker[v] \in WorkerState
                         /\ Woken[v] \in WorkerState
  BY WokenQuiet, FieldTypes DEF Inv
<1>5. ASSUME NEW v \in Workers, Accept(v) \/ Disconnect(v) PROVE FALSE
  <2>1. CASE Accept(v)
    BY <1>2, <2>1, GoneTypes DEF Accept
  <2>2. CASE Disconnect(v)
    BY <1>1, <1>4, <2>2 DEF Disconnect, WorkerState
  <2> QED
    BY <1>5, <2>1, <2>2
<1>6. ASSUME NEW v \in Workers, NEW a, Answer(v, a) PROVE FALSE
  BY <1>1, <1>4, <1>6 DEF Answer, WorkerState
<1>7. ASSUME NEW v \in Workers, NEW q \in Queues, NEW p \in Priorities, Put(v, q, p) PROVE FALSE
  BY <1>1, <1>4, <1>7 DEF Put, WorkerState
<1>8. ASSUME NEW v \in Workers, NEW named \in SUBSET Queues, NEW wait \in BOOLEAN,
             TryGet(v, named, wait)
      PROVE  Take(w, named, wait)
  <2>1. CASE TakeNothing(v, named, wait)
    <3>1. CASE Answer(v, "no-job")
      BY <3>1, <1>6
    <3>2. CASE ~ Answer(v, "no-job")
      BY <1>1, <1>4, <2>1, <3>2 DEF TakeNothing, WorkerState
    <3> QED
      BY <3>1, <3>2
  <2>2. CASE Take(v, named, wait)
    <3>1. CASE v = w
      BY <2>2, <3>1
    <3>2. CASE v # w
      <4>1. worker'[w] = worker[w]
        BY <1>1, <2>2, <3>2 DEF Take
      <4> QED
        BY <4>1
    <3> QED
      BY <3>1, <3>2
  <2> QED
    BY <1>8, <2>1, <2>2 DEF TryGet
<1>9. ASSUME NEW v \in Workers, NEW i \in 1..MaxJobs, Delete(v, i) PROVE FALSE
  BY <1>6, <1>9 DEF Delete
<1>10. ASSUME NEW v \in Workers, NEW i \in 1..MaxJobs, Abort(v, i) PROVE FALSE
  BY <1>1, <1>4, <1>10 DEF Abort, WorkerState
<1>11. ASSUME NEW v \in Workers, Listen(v) \/ Deliver(v) \/ FinishAbort(v) PROVE FALSE
  BY <1>1, <1>4, <1>11 DEF Listen, Deliver, FinishAbort, WorkerState
<1>12. ASSUME NEW v \in Workers, Notify(v) PROVE FALSE
  <2> DEFINE s == [Woken[v] EXCEPT !.pc = "idle", !.answer = "ok"]
  <2>1. s.pc = "idle"
    BY <1>4 DEF WorkerState
  <2>2. worker' = [Woken EXCEPT ![v] = s]
    BY <1>12 DEF Notify, Woken
  <2> HIDE DEF s
  <2> QED
    BY <1>3, <2>1, <2>2
<1>13. ASSUME NEW v \in Workers, Drop(v) \/ NotifyDropped(v) PROVE FALSE
  BY <1>2, <1>3, <1>13, GoneTypes DEF Drop, NotifyDropped
<1>14. CASE UNCHANGED vars
  BY <1>14 DEF vars
<1>15. ASSUME NEW v \in Workers, Retry(v)
       PROVE  \E named \in SUBSET Queues, wait \in BOOLEAN : Take(w, named, wait)
  BY <1>4, <1>8, <1>15 DEF Retry, WorkerState
<1> QED
  BY <1>5, <1>7, <1>8, <1>9, <1>10, <1>11, <1>12, <1>13, <1>14, <1>15
  DEF Next, Request, Continue, Get

\* The job a client gets has the greatest priority of those that wait in any queue it
\* named (lib.rs:84-87, JobCentreInner::get).
THEOREM BestJobFirst == Spec => HighestPriorityFirst
<1> DEFINE First == \A w \in Workers :
              worker'[w].pc = "got" /\ worker[w].pc # "got" =>
                  \A i \in jobs : Queued(i) /\ issued[i].queue \in worker'[w].queues =>
                      issued[i].priority <= issued[worker'[w].id].priority
<1>1. Inv /\ [Next]_vars => First
  <2> SUFFICES ASSUME Inv, [Next]_vars, NEW w \in Workers,
                      worker'[w].pc = "got", worker[w].pc # "got",
                      NEW j \in jobs, Queued(j), issued[j].queue \in worker'[w].queues
               PROVE  issued[j].priority <= issued[worker'[w].id].priority
    OBVIOUS
  <2>1. PICK named \in SUBSET Queues, wait \in BOOLEAN : Take(w, named, wait)
    BY OnlyTakeGets
  <2>2. worker \in [Workers -> WorkerState]
    BY DEF Inv, TypeOK
  <2>3. PICK i \in Best(named) :
            worker' = [worker EXCEPT ![w].pc = "got", ![w].id = i, ![w].answer = "none",
                                     ![w].queues = named, ![w].wait = wait]
    <3>1. worker' # [worker EXCEPT ![w].pc = "panicked", ![w].connected = FALSE,
                                   ![w].queues = {}, ![w].wait = FALSE]
      BY <2>2 DEF WorkerState
    <3> QED
      BY <2>1, <3>1 DEF Take
  <2>4. worker'[w].id = i /\ worker'[w].queues = named
    BY <2>2, <2>3 DEF WorkerState
  <2> QED
    BY <2>4, BestIsBest
<1> QED
  BY <1>1, Invariance, PTL DEF Spec, HighestPriorityFirst

-----------------------------------------------------------------------------
(* The job centre implements the board *)

\* What the board shows of a job.
Entry(i) == [queue |-> issued[i].queue, priority |-> issued[i].priority, at |-> Place(i)]

Shown == [i \in Ids |-> Entry(i)]

\* Where a job is, of the three places there are.
LEMMA PlaceIs ==
    ASSUME Inv, NEW i
    PROVE  /\ i \notin jobs => Place(i) = "deleted"
           /\ i \in jobs /\ ~ Runs(i) => Place(i) = "waiting"
           /\ \A w : i \in jobs /\ Running(i, w) \in running_jobs =>
                 Place(i) = w /\ w \in Workers
<1>1. i \notin jobs => Place(i) = "deleted"
  BY DEF Place
<1>2. i \in jobs /\ ~ Runs(i) => Place(i) = "waiting"
  BY DEF Place
<1>3. ASSUME NEW w, i \in jobs, Running(i, w) \in running_jobs
      PROVE  Place(i) = w /\ w \in Workers
  <2>1. w \in Workers
    BY <1>3, RunningFacts DEF Inv
  <2>2. \A v \in Workers : Running(i, v) \in running_jobs => v = w
    BY <1>3, RunningFacts DEF Inv, OneWorker
  <2>3. Runs(i)
    BY <1>3, <2>1 DEF Runs
  <2> QED
    BY <1>3, <2>1, <2>2, <2>3 DEF Place
<1> QED
  BY <1>1, <1>2, <1>3

\* A job is shown as waiting when it waits, and only then.
LEMMA ShownWaiting ==
    ASSUME Inv, NEW i
    PROVE  Place(i) = "waiting" <=> i \in jobs /\ ~ Runs(i)
<1>1. CASE i \in jobs /\ Runs(i)
  <2>1. PICK w \in Workers : Running(i, w) \in running_jobs
    BY <1>1 DEF Runs
  <2>2. Place(i) = w
    BY <1>1, <2>1, PlaceIs
  <2> QED
    BY <1>1, <2>1, <2>2, WorkersAssumption
<1>2. CASE ~ (i \in jobs /\ Runs(i))
  BY <1>2, PlaceIs
<1> QED
  BY <1>1, <1>2

\* A step that changes no job and no hold on one changes nothing that is shown.
LEMMA ShownSame ==
    ASSUME UNCHANGED <<issued, jobs, running_jobs>>
    PROVE  Shown' = Shown
<1>1. Ids' = Ids /\ \A i : (Runs(i))' = Runs(i)
  BY DEF Ids, Runs
<1>2. \A i : (Place(i))' = Place(i)
  BY <1>1 DEF Place
<1> QED
  BY <1>1, <1>2 DEF Shown, Entry

\* A put adds a job that waits.
LEMMA PutIsPut ==
    ASSUME Inv, NEW w \in Workers, NEW q \in Queues, NEW p \in Priorities, Put(w, q, p)
    PROVE  Board!Put
<1>1. /\ issued \in Seq(Job) /\ Len(issued) \in Nat
      /\ jobs \subseteq Ids /\ running_jobs \subseteq [id : Ids, worker : Workers]
  BY LenProperties DEF Inv, TypeOK
<1> PICK n \in Nat : n = Len(issued) + 1
  BY <1>1
<1> DEFINE last == [queue |-> q, priority |-> p, at |-> "waiting"]
           S == {Shown[i] : i \in Ids} \cup {last}
<1>2. /\ issued' = Append(issued, [queue |-> q, priority |-> p])
      /\ jobs' = jobs \cup {n} /\ running_jobs' = running_jobs
  BY DEF Put
<1>3. [queue |-> q, priority |-> p] \in Job
  BY PrioritiesAssumption DEF Job
<1>4. /\ Len(issued') = n /\ \A i \in Ids : issued'[i] = issued[i]
      /\ issued'[n] = [queue |-> q, priority |-> p]
  BY <1>1, <1>2, <1>3, AppendProperties DEF Ids
<1>5. Ids' = 1..n /\ n \notin Ids
  BY <1>1, <1>4 DEF Ids
<1>6. \A i : (Runs(i))' = Runs(i)
  BY <1>2 DEF Runs
<1>7. \A i \in Ids : (Place(i))' = Place(i)
  <2>1. \A i \in Ids : i \in jobs' <=> i \in jobs
    BY <1>2, <1>5
  <2> QED
    BY <1>2, <1>6, <2>1 DEF Place
<1>8. (Place(n))' = "waiting"
  <2>1. ~ Runs(n)
    BY <1>1, <1>5, RunningFacts DEF Runs, Inv
  <2>2. n \in jobs' /\ ~ (Runs(n))'
    BY <1>2, <1>6, <2>1
  <2> QED
    BY <2>2 DEF Place
<1>9. \A i \in Ids : Shown'[i] = Shown[i]
  BY <1>4, <1>5, <1>7 DEF Shown, Entry, Ids
<1>10. Shown'[n] = last
  BY <1>1, <1>4, <1>5, <1>8 DEF Shown, Entry
<1>11. Shown \in Seq(S) /\ Len(Shown) = Len(issued)
  <2>1. Shown = [i \in 1..Len(issued) |-> Shown[i]]
    BY DEF Shown, Ids
  <2>2. \A i \in 1..Len(issued) : Shown[i] \in S
    BY DEF Ids
  <2> HIDE DEF S
  <2> QED
    BY <1>1, <2>1, <2>2, IsASeq, LenProperties
<1>12. Shown' \in Seq(S) /\ Len(Shown') = n /\ DOMAIN Shown' = 1..n
  <2>1. Shown' = [i \in 1..n |-> Shown'[i]]
    BY <1>5 DEF Shown
  <2>2. \A i \in 1..n : Shown'[i] \in S
    BY <1>1, <1>9, <1>10 DEF Ids
  <2> HIDE DEF S
  <2> QED
    BY <1>1, <2>1, <2>2, IsASeq, LenProperties
<1>13. Shown' = Append(Shown, last)
  <2>1. /\ Append(Shown, last) \in Seq(S) /\ Len(Append(Shown, last)) = n
        /\ \A i \in 1..Len(Shown) : Append(Shown, last)[i] = Shown[i]
        /\ Append(Shown, last)[n] = last
    <3>1. last \in S
      OBVIOUS
    <3> HIDE DEF S, last
    <3> QED
      BY <1>1, <1>11, <3>1, AppendProperties
  <2>2. \A i \in 1..n : Shown'[i] = Append(Shown, last)[i]
    <3> HIDE DEF S, last
    <3> QED
      BY <1>1, <1>9, <1>10, <1>11, <2>1 DEF Ids
  <2> HIDE DEF S, last
  <2> QED
    BY <1>1, <1>12, <2>1, <2>2, SeqEqual
<1>14. last \in [queue : Queues, priority : Nat, at : {"waiting"}]
  BY PrioritiesAssumption
<1> HIDE DEF S, last
<1> QED
  BY <1>10, <1>11, <1>12, <1>13, <1>14 DEF Board!Put, Shown, Entry

\* What a step that puts nothing new shows, job by job.
LEMMA ShownStep ==
    ASSUME UNCHANGED issued, NEW ids \in SUBSET Ids, NEW at,
           \A i \in ids : (Place(i))' = at,
           \A i \in Ids \ ids : (Place(i))' = Place(i)
    PROVE  Shown' = [i \in Ids |-> IF i \in ids THEN [Shown[i] EXCEPT !.at = at]
                                                ELSE Shown[i]]
<1>1. Ids' = Ids
  BY DEF Ids
<1>2. \A i \in Ids : (Entry(i))' = IF i \in ids THEN [Entry(i) EXCEPT !.at = at] ELSE Entry(i)
  BY DEF Entry
<1> QED
  BY <1>1, <1>2 DEF Shown

\* A get that finds a job assigns the best of those that wait.
LEMMA TakeIsAssign ==
    ASSUME Inv, NEW w \in Workers, NEW named \in SUBSET Queues, NEW wait \in BOOLEAN,
           Take(w, named, wait)
    PROVE  Board!Assign(w) \/ Shown' = Shown
<1>1. PICK q \in named : \E i \in Peek(q) \cap Best(named) :
         \/ i \in jobs /\ running_jobs' = running_jobs \cup {Running(i, w)}
         \/ UNCHANGED running_jobs
  BY DEF Take
<1>2. PICK i \in Peek(q) \cap Best(named) :
         \/ i \in jobs /\ running_jobs' = running_jobs \cup {Running(i, w)}
         \/ UNCHANGED running_jobs
  BY <1>1
<1>3. UNCHANGED <<issued, jobs>>
  BY DEF Take
<1>4. CASE UNCHANGED running_jobs
  BY <1>3, <1>4, ShownSame
<1>5. CASE i \in jobs /\ running_jobs' = running_jobs \cup {Running(i, w)}
  <2>1. q \in Queues /\ i \in queues[q] /\ Queued(i) /\ i \in Ids
    BY <1>2, PeekQueued DEF Queued, Inv, TypeOK
  <2>2. ~ Runs(i) /\ issued[i].queue = q
    BY <1>5, <2>1 DEF Inv, WaitsOrRuns, InItsQueue
  <2>3. (Place(i))' = w
    <3>1. i \in jobs' /\ Running(i, w) \in running_jobs'
      BY <1>3, <1>5
    <3>2. \A v \in Workers : Running(i, v) \in running_jobs' => v = w
      BY <1>5, <2>2, RunningFacts DEF Runs, Inv
    <3> QED
      BY <3>1, <3>2 DEF Place, Runs
  <2>4. ASSUME NEW j \in Ids \ {i} PROVE (Place(j))' = Place(j)
    <3>1. \A v : Running(j, v) \in running_jobs' <=> Running(j, v) \in running_jobs
      BY <1>5, RunningFacts DEF Inv
    <3> QED
      BY <1>3, <3>1 DEF Place, Runs
  <2>5. Shown' = [j \in Ids |-> IF j \in {i} THEN [Shown[j] EXCEPT !.at = w] ELSE Shown[j]]
    <3>1. {i} \in SUBSET Ids /\ \A j \in {i} : (Place(j))' = w
      BY <2>1, <2>3
    <3>2. \A j \in Ids \ {i} : (Place(j))' = Place(j)
      BY <2>4
    <3> QED
      BY <1>3, <3>1, <3>2, ShownStep
  <2>6. Shown' = [Shown EXCEPT ![i].at = w]
    BY <2>1, <2>5 DEF Shown
  <2>7. Place(i) = "waiting"
    BY <1>5, <2>2, ShownWaiting
  <2>8. ASSUME NEW j \in Ids, Place(j) = "waiting", issued[j].queue \in named
        PROVE  issued[j].priority <= issued[i].priority
    <3>1. Queued(j)
      BY <2>8, ShownWaiting DEF Inv, WaitsOrRuns
    <3> QED
      BY <1>2, <2>8, <3>1, BestIsBest
  <2> QED
    BY <1>2, <2>1, <2>2, <2>6, <2>7, <2>8 DEF Board!Assign, Board!Waiting, Board!Ids, Shown, Entry
<1> QED
  BY <1>2, <1>4, <1>5

\* A delete of a job that is there deletes it.
LEMMA DeleteIsDelete ==
    ASSUME Inv, NEW w \in Workers, NEW i \in 1..MaxJobs, Delete(w, i)
    PROVE  Board!Delete \/ Shown' = Shown
<1>1. CASE UNCHANGED <<issued, jobs, running_jobs>>
  BY <1>1, ShownSame
<1>2. CASE i \in jobs /\ jobs' = jobs \ {i} /\ running_jobs' = {r \in running_jobs : r.id # i}
  <2>1. issued' = issued /\ i \in Ids
    BY <1>2 DEF Delete, Inv, TypeOK
  <2>2. (Place(i))' = "deleted"
    BY <1>2 DEF Place
  <2>3. ASSUME NEW j \in Ids \ {i} PROVE (Place(j))' = Place(j)
    <3>1. \A v : Running(j, v) \in running_jobs' <=> Running(j, v) \in running_jobs
      BY <1>2, RunningFacts DEF Inv
    <3> QED
      BY <1>2, <3>1 DEF Place, Runs
  <2>4. Shown' = [j \in Ids |-> IF j \in {i} THEN [Shown[j] EXCEPT !.at = "deleted"]
                                             ELSE Shown[j]]
    <3>1. {i} \in SUBSET Ids /\ \A j \in {i} : (Place(j))' = "deleted"
      BY <2>1, <2>2
    <3>2. \A j \in Ids \ {i} : (Place(j))' = Place(j)
      BY <2>3
    <3> QED
      BY <2>1, <3>1, <3>2, ShownStep
  <2>5. Shown' = [Shown EXCEPT ![i].at = "deleted"]
    BY <2>1, <2>4 DEF Shown
  <2>6. Place(i) # "deleted"
    <3>1. CASE Runs(i)
      <4>1. PICK v \in Workers : Running(i, v) \in running_jobs
        BY <3>1 DEF Runs
      <4> QED
        BY <1>2, <4>1, PlaceIs, WorkersAssumption
    <3>2. CASE ~ Runs(i)
      BY <1>2, <3>2, PlaceIs
    <3> QED
      BY <3>1, <3>2
  <2> QED
    BY <2>1, <2>5, <2>6 DEF Board!Delete, Board!Ids, Shown, Entry
<1> QED
  BY <1>1, <1>2 DEF Delete

\* The jobs that a worker gives back, those that were not deleted meanwhile, wait again.
LEMMA GiveBackIsReturn ==
    ASSUME Inv, NEW w \in Workers, NEW ids \in SUBSET Ids, GiveBack(ids),
           UNCHANGED <<issued, jobs>>,
           \A i \in ids : i \in jobs => Running(i, w) \in running_jobs
    PROVE  Board!Return(w)
<1> DEFINE back == ids \cap jobs
<1>1. \A i \in back : Place(i) = w
  BY PlaceIs
<1>2. \A i : (Runs(i))' <=> Runs(i) /\ i \notin ids
  BY GiveBackFacts
<1>3. \A i \in back : (Place(i))' = "waiting"
  <2>1. \A i \in back : i \in jobs' /\ ~ (Runs(i))'
    BY <1>2
  <2> QED
    BY <2>1 DEF Place
<1>4. ASSUME NEW i \in Ids \ back PROVE (Place(i))' = Place(i)
  <2>1. CASE i \notin jobs
    BY <2>1 DEF Place
  <2>2. CASE i \notin ids
    <3>1. \A v : Running(i, v) \in running_jobs' <=> Running(i, v) \in running_jobs
      BY <2>2, RunningFacts DEF GiveBack, Inv
    <3> QED
      BY <3>1 DEF Place, Runs
  <2> QED
    BY <1>4, <2>1, <2>2
<1>5. back \in SUBSET Ids
  OBVIOUS
<1> HIDE DEF back
<1>6. Shown' = [i \in Ids |-> IF i \in back THEN [Shown[i] EXCEPT !.at = "waiting"]
                                            ELSE Shown[i]]
  BY <1>3, <1>4, <1>5, ShownStep
<1> QED
  BY <1>1, <1>5, <1>6 DEF Board!Return, Board!Ids, Shown, Entry

\* Every step of the job centre is a step of the board, or changes nothing it shows.
LEMMA StepImplements ==
    ASSUME Inv, [Next]_vars
    PROVE  Board!Next \/ Shown' = Shown
<1>1. ASSUME NEW w \in Workers, NEW named \in SUBSET Queues, NEW wait \in BOOLEAN,
             TryGet(w, named, wait)
      PROVE  Board!Next \/ Shown' = Shown
  <2>1. CASE TakeNothing(w, named, wait)
    BY <2>1, ShownSame DEF TakeNothing
  <2>2. CASE Take(w, named, wait)
    BY <2>2, TakeIsAssign DEF Board!Next
  <2> QED
    BY <1>1, <2>1, <2>2 DEF TryGet
<1>2. ASSUME NEW w \in Workers, Request(w) PROVE Board!Next \/ Shown' = Shown
  <2>1. ASSUME NEW q \in Queues, NEW p \in Priorities, Put(w, q, p) PROVE Board!Next
    BY <2>1, PutIsPut DEF Board!Next
  <2>2. ASSUME NEW i \in 1..MaxJobs, Delete(w, i) PROVE Board!Next \/ Shown' = Shown
    BY <2>2, DeleteIsDelete DEF Board!Next
  <2>3. ASSUME NEW i \in 1..MaxJobs, Abort(w, i) PROVE Shown' = Shown
    BY <2>3, ShownSame DEF Abort
  <2> QED
    BY <1>1, <1>2, <2>1, <2>2, <2>3 DEF Request, Get
<1>3. ASSUME NEW w \in Workers, FinishAbort(w) PROVE Board!Next
  <2> DEFINE i == worker[w].id
  <2>1. /\ i \in Ids /\ GiveBack({i}) /\ UNCHANGED <<issued, jobs>>
        /\ i \in jobs => Running(i, w) \in running_jobs
    BY <1>3 DEF FinishAbort, Inv, TasksInv, GivenBackOnce
  <2> QED
    BY <2>1, GiveBackIsReturn DEF Board!Next
<1>4. ASSUME NEW w \in Workers, Drop(w) PROVE Board!Next
  <2>1. /\ Live(w) \in SUBSET Ids /\ GiveBack(Live(w)) /\ UNCHANGED <<issued, jobs>>
        /\ \A i \in Live(w) : Running(i, w) \in running_jobs
    BY <1>4 DEF Drop, Live, Inv, TasksInv
  <2> QED
    BY <2>1, GiveBackIsReturn DEF Board!Next
<1>5. ASSUME NEW w \in Workers, Retry(w) PROVE Board!Next \/ Shown' = Shown
  <2>1. worker[w].queues \in SUBSET Queues
    BY FieldTypes DEF Inv
  <2> QED
    BY <1>1, <1>5, <2>1 DEF Retry
<1>6. ASSUME NEW w \in Workers,
             Accept(w) \/ Disconnect(w) \/ Listen(w) \/ Deliver(w) \/ Notify(w) \/ NotifyDropped(w)
      PROVE  Shown' = Shown
  BY <1>6, ShownSame DEF Accept, Disconnect, Listen, Deliver, Notify, NotifyDropped
<1>7. CASE UNCHANGED vars
  BY <1>7, ShownSame DEF vars
<1> QED
  BY <1>2, <1>3, <1>4, <1>5, <1>6, <1>7 DEF Next, Continue

\* Locks, Weak references and the steps between them do what the board promises: a job
\* is put, given to a client as the best of those that wait, handed back, and deleted
\* for good, each at one point in time (lib.rs:50-161).
THEOREM BoardImplemented == Spec => ImplementsBoard
<1>1. Init => Board!Init
  BY DEF Init, Board!Init, Ids
<1>2. Inv /\ [Next]_vars => [Board!Next]_(Shown)
  BY StepImplements
<1> QED
  BY <1>1, <1>2, Invariance, PTL DEF Spec, ImplementsBoard, Board!Spec, Shown, Entry
=============================================================================
