----------------------------- MODULE JobCentre ------------------------------
(***************************************************************************)
(* The job centre (src/rust/p09-job-centre/src): the task of each client,  *)
(* its Worker, and the JobCentreInner they share behind a mutex, with a    *)
(* Notify for the clients that wait for a job.                             *)
(*                                                                         *)
(* The tasks run on several threads.  A step is what a task does under     *)
(* one lock, or between two: a job that was taken from a queue is looked   *)
(* at, a job to be aborted is looked up, and waiters are notified, all     *)
(* after or before the lock, and other tasks run in between.               *)
(*                                                                         *)
(* A job is represented by its id.  An Arc in running_jobs is known by its *)
(* id and the worker that has a Weak to it: a worker never has two Weak to *)
(* live allocations of one job, since it drops the first when it aborts.   *)
(***************************************************************************)
EXTENDS Integers, Sequences, FiniteSets

CONSTANTS
    Workers,     \* the connections, each with its task and its Worker
    Queues,      \* the names of the queues
    Priorities,  \* the priorities used
    MaxJobs      \* bound on the number of puts

\* The places a job may be in other than with a worker.
ASSUME WorkersAssumption == "waiting" \notin Workers /\ "deleted" \notin Workers
ASSUME QueuesAssumption == Queues # {}
ASSUME PrioritiesAssumption == Priorities \subseteq Nat
ASSUME MaxJobsAssumption == MaxJobs \in Nat

VARIABLES
    issued,        \* what was put, by id: next_job_id is one more than its length
    jobs,          \* the ids in JobCentreInner.jobs
    queues,        \* the ids in each BinaryHeap
    running_jobs,  \* the Arcs of the jobs being worked on
    worker         \* the clients' tasks and their Workers

vars == <<issued, jobs, queues, running_jobs, worker>>

Ids == 1..Len(issued)

Running(i, w) == [id |-> i, worker |-> w]

NoId == 0

\* A connection that is not open, and a Worker just made.
Gone == [pc |-> "gone", connected |-> FALSE, jobs |-> {}, queues |-> {},
         wait |-> FALSE, id |-> NoId, answer |-> "none"]
Fresh == [Gone EXCEPT !.pc = "idle", !.connected = TRUE]

Init ==
    /\ issued = <<>>
    /\ jobs = {}
    /\ queues = [q \in Queues |-> {}]
    /\ running_jobs = {}
    /\ worker = [w \in Workers |-> Gone]

-----------------------------------------------------------------------------
(* Connections *)

\* run accepts a connection and spawns handle_client with a new Worker.
Accept(w) ==
    /\ worker[w].pc = "gone"
    /\ worker' = [worker EXCEPT ![w] = Fresh]
    /\ UNCHANGED <<issued, jobs, queues, running_jobs>>

\* The client closes its connection, and will send no other request.
Disconnect(w) ==
    /\ worker[w].connected
    /\ worker' = [worker EXCEPT ![w].connected = FALSE]
    /\ UNCHANGED <<issued, jobs, queues, running_jobs>>

\* The task is at read.next() and the client sends a request.
Reads(w) == worker[w].pc = "idle" /\ worker[w].connected

Answer(w, a) ==
    worker' = [worker EXCEPT ![w].pc = "idle", ![w].answer = a,
                             ![w].id = NoId, ![w].queues = {}, ![w].wait = FALSE]

-----------------------------------------------------------------------------
(* Requests *)

\* put: JobCentreInner::put, then notify_waiters.
Put(w, q, p) ==
    LET id == Len(issued) + 1 IN
    /\ Reads(w)
    /\ Len(issued) < MaxJobs
    /\ issued' = Append(issued, [queue |-> q, priority |-> p])
    /\ jobs' = jobs \cup {id}
    /\ queues' = [queues EXCEPT ![q] = @ \cup {id}]
    /\ worker' = [worker EXCEPT ![w].pc = "notify", ![w].answer = "none"]
    /\ UNCHANGED running_jobs

\* queue.peek(): the greatest (priority, id) in the heap.
Peek(q) == {i \in queues[q] : \A j \in queues[q] :
               \/ issued[j].priority < issued[i].priority
               \/ issued[j].priority = issued[i].priority /\ j <= i}

\* A bug: any queue that is not empty will do.
AnyQueue(named) == UNION {Peek(q) : q \in named}

\* max_by_key over the listed queues, which a client may list in any order.
Best(named) == {i \in UNION {Peek(q) : q \in named} :
    \A q \in named : \A j \in Peek(q) : issued[j].priority <= issued[i].priority}

\* JobCentreInner::get finds a job: it leaves its queue and starts to run.
Take(w, named, wait) == \E q \in named : \E i \in Peek(q) \cap Best(named) :
    /\ queues' = [queues EXCEPT ![q] = @ \ {i}]
    /\ \/ /\ i \in jobs
          /\ running_jobs' = running_jobs \cup {Running(i, w)}
          /\ worker' = [worker EXCEPT ![w].pc = "got", ![w].id = i, ![w].answer = "none",
                                      ![w].queues = named, ![w].wait = wait]
       \/ /\ i \notin jobs                      \* jobs.get(&id).unwrap() panics
          /\ worker' = [worker EXCEPT ![w].pc = "panicked", ![w].connected = FALSE,
                                      ![w].queues = {}, ![w].wait = FALSE]
          /\ UNCHANGED running_jobs
    /\ UNCHANGED <<issued, jobs>>

\* JobCentreInner::get finds none, and the lock is released.
TakeNothing(w, named, wait) ==
    /\ \A q \in named : queues[q] = {}
    /\ \/ ~wait /\ Answer(w, "no-job")
       \/ wait /\ worker' = [worker EXCEPT ![w].pc = "unlocked", ![w].queues = named,
                                           ![w].wait = TRUE, ![w].answer = "none"]
    /\ UNCHANGED <<issued, jobs, queues, running_jobs>>

TryGet(w, named, wait) ==
    Take(w, named, wait) \/ TakeNothing(w, named, wait)

Get(w, named, wait) == Reads(w) /\ TryGet(w, named, wait)

\* notified(): from here on notify_waiters reaches the task.
Listen(w) ==
    /\ worker[w].pc = "unlocked"
    /\ worker' = [worker EXCEPT ![w].pc = "waiting"]
    /\ UNCHANGED <<issued, jobs, queues, running_jobs>>

\* The next round of the loop in JobCentre::get.
Retry(w) == worker[w].pc = "woken" /\ TryGet(w, worker[w].queues, TRUE)

\* Worker::get keeps the Weak and upgrades it to make the answer.
Deliver(w) ==
    LET i == worker[w].id
        alive == Running(i, w) \in running_jobs
    IN /\ worker[w].pc = "got"
       /\ worker' = [worker EXCEPT ![w].pc = "idle", ![w].id = NoId,
                                   ![w].queues = {}, ![w].wait = FALSE,
                                   ![w].jobs = @ \cup {i},
                                   ![w].answer = IF alive THEN "job" ELSE "no-job"]
       /\ UNCHANGED <<issued, jobs, queues, running_jobs>>

\* delete: JobCentreInner::delete.
Delete(w, i) ==
    /\ Reads(w)
    /\ \/ /\ i \in jobs
          /\ jobs' = jobs \ {i}
          /\ running_jobs' = {r \in running_jobs : r.id # i}
          /\ queues' = [queues EXCEPT ![issued[i].queue] = @ \ {i}]
          /\ Answer(w, "ok")
       \/ /\ i \notin jobs
          /\ Answer(w, "no-job")
          /\ UNCHANGED <<jobs, queues, running_jobs>>
    /\ UNCHANGED issued

\* The ids whose Weak in w still upgrades.
Live(w) == {i \in worker[w].jobs : Running(i, w) \in running_jobs}

\* abort: get_from_working_jobs drops the Weak that are dead, and that of the
\* job if it is alive; the Arc it returns keeps the JobRef, not the job.
Abort(w, i) ==
    /\ Reads(w)
    /\ \/ /\ i \in Live(w)
          /\ worker' = [worker EXCEPT ![w].pc = "aborting", ![w].id = i, ![w].answer = "none",
                                      ![w].jobs = Live(w) \ {i}]
       \/ /\ i \notin Live(w)
          /\ worker' = [worker EXCEPT ![w].jobs = Live(w), ![w].answer = "no-job"]
    /\ UNCHANGED <<issued, jobs, queues, running_jobs>>

\* A bug: the job is not pushed on its heap again.
GiveBackNowhere(ids) ==
    /\ running_jobs' = {r \in running_jobs : r.id \notin ids}
    /\ UNCHANGED queues

\* JobCentreInner::abort for each of the ids.
GiveBack(ids) ==
    /\ running_jobs' = {r \in running_jobs : r.id \notin ids}
    /\ queues' = [q \in Queues |-> queues[q] \cup {i \in ids : issued[i].queue = q}]

\* A bug: the job is inserted again, even if it was deleted meanwhile.
AbortRevives(w) ==
    /\ worker[w].pc = "aborting"
    /\ GiveBack({worker[w].id})
    /\ jobs' = jobs \cup {worker[w].id}
    /\ worker' = [worker EXCEPT ![w].pc = "notify", ![w].id = NoId]
    /\ UNCHANGED issued

FinishAbort(w) ==
    /\ worker[w].pc = "aborting"
    /\ GiveBack({worker[w].id})
    /\ worker' = [worker EXCEPT ![w].pc = "notify", ![w].id = NoId]
    /\ UNCHANGED <<issued, jobs>>

\* A bug: nobody is notified.
NobodyWoken == worker

\* notify_waiters: every task that listens will go round its loop again.
Woken == [v \in Workers |-> IF worker[v].pc = "waiting"
                              THEN [worker[v] EXCEPT !.pc = "woken"] ELSE worker[v]]

\* The end of put and abort.
Notify(w) ==
    /\ worker[w].pc = "notify"
    /\ worker' = [Woken EXCEPT ![w].pc = "idle", ![w].answer = "ok"]
    /\ UNCHANGED <<issued, jobs, queues, running_jobs>>

\* A bug: the jobs of a client that left are not given back.
DropKeeps(w) ==
    /\ \/ worker[w].pc = "idle" /\ ~worker[w].connected
       \/ worker[w].pc = "panicked"
    /\ worker' = [worker EXCEPT ![w] = [Gone EXCEPT !.pc = "dropped"]]
    /\ UNCHANGED <<issued, jobs, queues, running_jobs>>

\* Worker::drop, when the task ends: remove_worker, then notify_waiters.
Drop(w) ==
    /\ \/ worker[w].pc = "idle" /\ ~worker[w].connected
       \/ worker[w].pc = "panicked"
    /\ GiveBack(Live(w))
    /\ worker' = [worker EXCEPT ![w] = [Gone EXCEPT !.pc = "dropped"]]
    /\ UNCHANGED <<issued, jobs>>

NotifyDropped(w) ==
    /\ worker[w].pc = "dropped"
    /\ worker' = [Woken EXCEPT ![w] = Gone]
    /\ UNCHANGED <<issued, jobs, queues, running_jobs>>

-----------------------------------------------------------------------------

Request(w) ==
    \/ \E q \in Queues, p \in Priorities : Put(w, q, p)
    \/ \E named \in SUBSET Queues, wait \in BOOLEAN : Get(w, named, wait)
    \/ \E i \in 1..MaxJobs : Delete(w, i) \/ Abort(w, i)

Continue(w) ==
    \/ Listen(w) \/ Retry(w) \/ Deliver(w) \/ FinishAbort(w)
    \/ Notify(w) \/ Drop(w) \/ NotifyDropped(w)

Next == \E w \in Workers : Accept(w) \/ Disconnect(w) \/ Request(w) \/ Continue(w)

Spec == Init /\ [][Next]_vars

-----------------------------------------------------------------------------
(* Types *)

Job == [queue : Queues, priority : Nat]

WorkerState ==
    [pc : {"gone", "idle", "unlocked", "waiting", "woken", "got", "aborting", "notify",
           "panicked", "dropped"},
     connected : BOOLEAN, jobs : SUBSET Nat, queues : SUBSET Queues, wait : BOOLEAN,
     id : Nat, answer : {"none", "ok", "job", "no-job"}]

\* Type correctness of JobCentreInner and of the tasks.
TypeOK ==
    /\ issued \in Seq(Job)
    /\ jobs \subseteq Ids
    /\ queues \in [Queues -> SUBSET Ids]
    /\ running_jobs \subseteq [id : Ids, worker : Workers]
    /\ worker \in [Workers -> WorkerState]

-----------------------------------------------------------------------------
(* Safety *)

Runs(i) == \E w \in Workers : Running(i, w) \in running_jobs

Queued(i) == \E q \in Queues : i \in queues[q]

\* A job that was not deleted either waits or is worked on: it is never lost,
\* and never handed out while somebody has it.
WaitsOrRuns == \A i \in jobs : Queued(i) <=> ~Runs(i)

\* Nobody else works on a job that a client works on, and what is worked on
\* exists.
OneWorker == \A r, s \in running_jobs :
    /\ r.id = s.id => r = s
    /\ r.id \in jobs

\* A job waits nowhere but in the queue it was put in.
InItsQueue == \A q \in Queues : \A i \in queues[q] : issued[i].queue = q

\* A job is worked on by a client that is still served, in whose list drop
\* will find it, or whose task holds it now.
Recoverable == \A r \in running_jobs :
    \/ r.id \in worker[r.worker].jobs
    \/ worker[r.worker].pc \in {"got", "aborting"} /\ worker[r.worker].id = r.id

\* A job that is being given back is not in its queue already, not even when
\* it was deleted since it was looked up.
GivenBackOnce == \A w \in Workers :
    worker[w].pc = "aborting" =>
        /\ ~Queued(worker[w].id)
        /\ worker[w].id \in jobs => Running(worker[w].id, w) \in running_jobs
        /\ worker[w].id \notin worker[w].jobs

\* Where a task that holds an id, or is about to end, stands.
TasksInv == \A w \in Workers :
    /\ worker[w].jobs \subseteq Ids
    /\ worker[w].pc \in {"got", "aborting"} => worker[w].id \in Ids
    /\ worker[w].pc \in {"gone", "dropped"} => worker[w].jobs = {}
    /\ \A v \in Workers :
          worker[v].pc = "aborting" /\ worker[w].pc = "aborting"
            /\ worker[v].id = worker[w].id => v = w

\* The inductive invariant.
Inv ==
    /\ TypeOK
    /\ WaitsOrRuns /\ OneWorker /\ InItsQueue
    /\ Recoverable /\ GivenBackOnce
    /\ TasksInv

-----------------------------------------------------------------------------
(* Actions *)

\* A client loses a job by its own doing, or because the job is deleted.
OnlyItsWorkerGivesBack == [][\A r \in running_jobs \ running_jobs' :
    r.id \notin jobs' \/ worker'[r.worker] # worker[r.worker]]_vars

\* The job a client gets is the best of those that wait in any queue it named.
HighestPriorityFirst == [][\A w \in Workers :
    worker'[w].pc = "got" /\ worker[w].pc # "got" =>
        \A i \in jobs : Queued(i) /\ issued[i].queue \in worker'[w].queues =>
            issued[i].priority <= issued[worker'[w].id].priority]_vars

-----------------------------------------------------------------------------
(* The job centre implements the board. *)

Place(i) ==
    IF i \notin jobs THEN "deleted"
    ELSE IF Runs(i) THEN CHOOSE w \in Workers : Running(i, w) \in running_jobs
    ELSE "waiting"

Board == INSTANCE JobBoard WITH
    board <- [i \in Ids |-> [queue |-> issued[i].queue, priority |-> issued[i].priority,
                             at |-> Place(i)]]

\* Locks, Weak references and the steps between them implement the board.
ImplementsBoard == Board!Spec

-----------------------------------------------------------------------------
(* Liveness *)

\* A task that is not waiting, for a request or a notification, goes on.
LiveSpec == Spec /\ \A w \in Workers : WF_vars(Continue(w))

\* A client waits although a job waits for it.
Starving(w) ==
    /\ worker[w].pc \in {"unlocked", "waiting"}
    /\ \E q \in worker[w].queues : queues[q] # {}

\* A client that missed a notification is served after the next one.
NextNotificationServes == \A w \in Workers :
    ([]<>(\E v \in Workers : worker[v].pc \in {"notify", "dropped"}))
        => (Starving(w) ~> ~Starving(w))

HasJobs(w) == \E i \in Ids : Running(i, w) \in running_jobs

\* The jobs of a client that disconnects go back to their queues, unless its
\* task waits for another job.
LeaverGivesBack == \A w \in Workers :
    (/\ ~worker[w].connected /\ HasJobs(w)
     /\ worker[w].pc \notin {"unlocked", "waiting", "woken"}) ~> ~HasJobs(w)

-----------------------------------------------------------------------------
(* What the documentation says of it *)

\* "the server must not send any response until there is a job available, at
\* which point that job must be returned to one of the waiting clients"
\* (lib.rs:84-87): no client starves.
WaitersAreServed == \A w \in Workers :
    (Starving(w) /\ worker[w].connected) ~> ~(Starving(w) /\ worker[w].connected)

\* "all jobs that a client is working on are automatically aborted when that
\* client disconnects" (lib.rs:159-161)
DisconnectAborts == \A w \in Workers :
    (~worker[w].connected /\ HasJobs(w)) ~> ~HasJobs(w)

\* "Delete the job with the given id, so that it can never be retrieved,
\* aborted, or deleted again" (lib.rs:125-126): it is in no queue.
DeletedIsGone == \A i \in Ids \ jobs : ~Queued(i)
=============================================================================
