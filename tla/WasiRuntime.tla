----------------------------- MODULE WasiRuntime -----------------------------
(***************************************************************************)
(* The runtime of the WASI port (src/wasi/crates/wasi-async-runtime/src):  *)
(* block_on and its Reactor, which run the main future and the tasks it    *)
(* spawned on one thread and sleep in the host's poll when none of them    *)
(* can go on, and the locks of its sync module, through which they wake    *)
(* each other.                                                             *)
(*                                                                         *)
(* What the futures do is any sequence of the operations the runtime gives *)
(* them.  Any of them spawns tasks; only the main future joins, and only   *)
(* what it spawned, as in all of its users: a server that runs as a task   *)
(* drops the handles of the clients it spawns.  A future waits for the one *)
(* pollable source it owns, such as a stream that it reads.                *)
(***************************************************************************)
EXTENDS Naturals, Sequences, FiniteSets

CONSTANTS
    Tasks,     \* the tasks that may be spawned
    MaxOps,    \* bound on the operations of a future
    MaxLeft    \* bound on the keys that a future leaves in the poller

ASSUME TasksAssumption == Tasks \subseteq Nat \ {0}
ASSUME BoundsAssumption == MaxOps \in Nat /\ MaxLeft \in Nat \ {0}

VARIABLES
    exec,      \* block_on and block_until: where they are, and their local variables
    tasks,     \* the tasks of the Reactor
    complete,  \* of tasks that ended or are joined: whether a waker is there
    woken,     \* the futures whose state is true
    join,      \* of the main future: its handles; in join(), those to poll and not done
    targets,   \* the slab of the Poller: the source of each key
    wakers,    \* the waker of each key, a future
    ready,     \* the sources that are ready
    sync,      \* a lock: its semaphore and its notification
    future     \* what each future does

vars == <<exec, tasks, complete, woken, join, targets, wakers, ready, sync, future>>

-----------------------------------------------------------------------------
(* State *)

Main == 0   \* not a task: the future of block_on
Futures == {Main} \cup Tasks

Nothing == [k \in {} |-> Main]

States ==
    {"unborn", "run", "wait", "reread", "acquire", "notified", "join", "done"}

\* block_until takes the tasks as its queue, and keeps those that go on as pending.
Exec == [at : {"start", "poll", "tasks", "block", "end"}, current : Futures,
         queue : Seq(Tasks), pending : Seq(Tasks), ended : SUBSET Tasks]

\* A lock: the permits of its Semaphore, the Notify of its writers, and who waits.
Sync == [kind : {"mutex", "rwlock"}, permits : {0, 1}, queue : SUBSET Futures,
         notified : BOOLEAN, waiting : Seq(Futures)]

Future == [at : States, ops : Nat, key : Nat, wants : {"none", "read", "write"},
           holds : {"none", "read", "write"}]

\* The values of the variables.
TypeOK ==
    /\ exec \in Exec /\ tasks \in Seq(Tasks)
    /\ DOMAIN complete \subseteq Tasks /\ complete \in [DOMAIN complete -> BOOLEAN]
    /\ woken \subseteq Futures /\ ready \subseteq Futures
    /\ join \in [handles : SUBSET Tasks, poll : SUBSET Tasks, left : SUBSET Tasks]
    /\ DOMAIN targets \subseteq Nat \ {0} /\ targets \in [DOMAIN targets -> Futures]
    /\ DOMAIN wakers \subseteq Nat \ {0} /\ wakers \in [DOMAIN wakers -> Futures]
    /\ sync \in Sync
    /\ future \in [Futures -> Future]

Born(at) == [at |-> at, ops |-> 0, key |-> 0, wants |-> "none", holds |-> "none"]

Init ==
    /\ exec = [at |-> "start", current |-> Main, queue |-> <<>>, pending |-> <<>>, ended |-> {}]
    /\ tasks = <<>> /\ complete = [t \in {} |-> FALSE]
    /\ woken = {Main} /\ join = [handles |-> {}, poll |-> {}, left |-> {}]
    /\ targets = Nothing /\ wakers = Nothing /\ ready = {}
    \* RwLock::new notifies once.
    /\ sync \in [kind : {"mutex", "rwlock"}, permits : {1}, queue : {{}},
                 notified : {TRUE}, waiting : {<<>>}]
    /\ future = [f \in Futures |-> Born(IF f = Main THEN "run" ELSE "unborn")]

-----------------------------------------------------------------------------
(* block_on and block_until *)

\* The main future is polled whenever block_until comes back, woken or not.
PollMain ==
    /\ exec.at = "start"
    /\ exec' = [exec EXCEPT !.at = "poll", !.current = Main]
    /\ woken' = woken \ {Main}
    /\ UNCHANGED <<tasks, complete, join, targets, wakers, ready, sync, future>>

\* A bug: a task that is not woken when its turn comes is dropped.
PopsForGood ==
    LET n == Len(exec.queue)
        t == exec.queue[n]
        rest == [exec EXCEPT !.queue = SubSeq(@, 1, n - 1)]
    IN
    /\ exec.at = "tasks" /\ n > 0
    /\ woken' = woken \ {t}
    /\ exec' = IF t \in woken THEN [rest EXCEPT !.at = "poll", !.current = t] ELSE rest
    /\ UNCHANGED <<tasks, complete, join, targets, wakers, ready, sync, future>>

\* The last of the tasks taken is polled if it is woken.
PopTask ==
    LET n == Len(exec.queue)
        t == exec.queue[n]
        rest == [exec EXCEPT !.queue = SubSeq(@, 1, n - 1)]
    IN
    /\ exec.at = "tasks" /\ n > 0
    /\ woken' = woken \ {t}
    /\ exec' = IF t \in woken THEN [rest EXCEPT !.at = "poll", !.current = t]
                              ELSE [rest EXCEPT !.pending = Append(@, t)]
    /\ UNCHANGED <<tasks, complete, join, targets, wakers, ready, sync, future>>

Pending == {exec.pending[i] : i \in DOMAIN exec.pending}

\* Tasks that others woke meanwhile have another turn.
AnotherRound ==
    /\ exec.at = "tasks" /\ exec.queue = <<>>
    /\ Pending \cap woken # {}
    /\ exec' = [exec EXCEPT !.queue = exec.pending, !.pending = <<>>]
    /\ UNCHANGED <<tasks, complete, woken, join, targets, wakers, ready, sync, future>>

\* No task can go on: those that ended wake who joins them, and the thread
\* sleeps unless the main future can go on.
RoundsEnd ==
    LET joined == {t \in exec.ended \cap DOMAIN complete : complete[t]} IN
    /\ exec.at = "tasks" /\ exec.queue = <<>>
    /\ Pending \cap woken = {}
    /\ tasks' = tasks \o exec.pending
    /\ complete' = [t \in DOMAIN complete \cup exec.ended |->
                       IF t \in exec.ended THEN FALSE ELSE complete[t]]
    /\ join' = [join EXCEPT !.poll = @ \cup (joined \cap join.left)]
    /\ woken' = IF joined # {} THEN woken \cup {Main} ELSE woken
    /\ exec' = [exec EXCEPT !.at = IF Main \in woken' THEN "start" ELSE "block",
                            !.pending = <<>>, !.ended = {}]
    /\ UNCHANGED <<targets, wakers, ready, sync, future>>

\* The host's poll returns what is ready, and at once if it is given nothing.
Block ==
    LET keys == {k \in DOMAIN targets : targets[k] \in ready} IN
    /\ exec.at = "block"
    /\ keys # {} \/ targets = Nothing
    /\ woken' = woken \cup {wakers[k] : k \in keys \cap DOMAIN wakers}
    /\ exec' = [exec EXCEPT !.at = "start"]
    /\ UNCHANGED <<tasks, complete, join, targets, wakers, ready, sync, future>>

\* A source becomes ready.
Arrive(f) ==
    /\ f \notin ready
    /\ ready' = ready \cup {f}
    /\ UNCHANGED <<exec, tasks, complete, woken, join, targets, wakers, sync, future>>

-----------------------------------------------------------------------------
(* A future is polled *)

Polled(f) == exec.at = "poll" /\ exec.current = f

\* f returns Pending: block_until keeps the task; block_on goes on to the
\* tasks that the Reactor has.
Yield(f) ==
    IF f = Main
    THEN /\ exec' = [exec EXCEPT !.at = "tasks", !.queue = tasks]
         /\ tasks' = <<>>
    ELSE /\ exec' = [exec EXCEPT !.at = "tasks", !.pending = Append(@, f)]
         /\ UNCHANGED tasks

GoesOn == UNCHANGED <<exec, tasks>>

\* f begins an operation.
Begins(f) ==
    /\ Polled(f) /\ future[f].at = "run" /\ future[f].ops < MaxOps

\* A task is spawned, woken; one that another task spawns is left for the next
\* call of block_until.
Spawn(f, t) ==
    /\ Begins(f) /\ future[t].at = "unborn"
    /\ \A u \in Tasks : u < t => future[u].at # "unborn"
    /\ future' = [future EXCEPT ![f].ops = @ + 1, ![t] = Born("run")]
    /\ tasks' = Append(tasks, t)
    /\ woken' = woken \cup {t}
    /\ join' = IF f = Main THEN [join EXCEPT !.handles = @ \cup {t}] ELSE join
    /\ UNCHANGED <<exec, complete, targets, wakers, ready, sync>>

\* f has returned.
Finish(f) ==
    /\ Polled(f) /\ future[f].at = "run" /\ future[f].holds = "none"
    /\ f # Main
    /\ future' = [future EXCEPT ![f].at = "done"]
    /\ exec' = [exec EXCEPT !.at = "tasks", !.ended = @ \cup {f}]
    /\ UNCHANGED <<tasks, complete, woken, join, targets, wakers, ready, sync>>

\* The main future joins all that it spawned.
Join ==
    /\ Polled(Main) /\ future[Main].at = "run" /\ future[Main].holds = "none"
    /\ future' = [future EXCEPT ![Main].at = "join"]
    /\ join' = [join EXCEPT !.poll = join.handles, !.left = join.handles]
    /\ UNCHANGED <<exec, tasks, complete, woken, targets, wakers, ready, sync>>

\* JoinHandle: it is done if complete has its task, even if what it has is the
\* handle's own waker.
Handles(polled) ==
    LET left == join.left \ (polled \cap DOMAIN complete) IN
    /\ Polled(Main) /\ future[Main].at = "join"
    /\ join' = [join EXCEPT !.poll = {}, !.left = left]
    /\ complete' = [t \in DOMAIN complete \cup polled |->
                       t \in DOMAIN complete => complete[t]]
    /\ IF left = {} THEN exec' = [exec EXCEPT !.at = "end"] /\ UNCHANGED tasks
                    ELSE Yield(Main)
    /\ UNCHANGED <<woken, targets, wakers, ready, sync, future>>

\* join() polls a JoinHandle once, and again when that handle's waker is woken.
PollHandles == Handles(join.poll)

-----------------------------------------------------------------------------
(* Waiting for a source *)

NewKey == CHOOSE k \in 1..(Cardinality(DOMAIN targets) + 1) : k \notin DOMAIN targets

\* The keys that f left in the poller.  They are all alike: one more than MaxLeft is
\* represented by one that is there.
Left(f) == {k \in DOMAIN targets : targets[k] = f /\ future[f].key # k}

OneMoreKey(f) == IF Cardinality(Left(f)) < MaxLeft THEN NewKey ELSE CHOOSE k \in Left(f) : TRUE

With(slab, k, f) == [x \in DOMAIN slab \cup {k} |-> IF x = k THEN f ELSE slab[x]]
Without(slab, k) == [x \in DOMAIN slab \ {k} |-> slab[x]]

\* wait_for: f goes on with what arrived.
Receives(f) ==
    /\ f \in ready /\ ready' = ready \ {f}
    /\ GoesOn

\* wait_for: f has a key in the poller and returns Pending.
Registers(f, k) ==
    /\ f \notin ready
    /\ targets' = With(targets, k, f) /\ wakers' = With(wakers, k, f)
    /\ Yield(f)
    /\ UNCHANGED ready

\* f waits for its source; or it polls a new wait_for each time it is polled, as
\* FramedRead does, and drops it at once, which leaves its key in the poller.
WaitFor(f) ==
    /\ Begins(f)
    /\ \/ /\ Receives(f)
          /\ future' = [future EXCEPT ![f].ops = @ + 1]
          /\ UNCHANGED <<targets, wakers>>
       \/ /\ Registers(f, NewKey)
          /\ future' = [future EXCEPT ![f].ops = @ + 1, ![f].at = "wait", ![f].key = NewKey]
       \/ /\ Registers(f, OneMoreKey(f))
          /\ future' = [future EXCEPT ![f].ops = @ + 1, ![f].at = "reread"]
    /\ UNCHANGED <<complete, woken, join, sync>>

Reread(f) ==
    /\ Polled(f) /\ future[f].at = "reread"
    /\ \/ /\ Receives(f)
          /\ future' = [future EXCEPT ![f].at = "run"]
          /\ UNCHANGED <<targets, wakers>>
       \/ Registers(f, OneMoreKey(f)) /\ UNCHANGED future
    /\ UNCHANGED <<complete, woken, join, sync>>

\* A bug: the key that is done with stays in the poller, without its waker.
LeavesTarget(f) ==
    LET k == future[f].key IN
    /\ Polled(f) /\ future[f].at = "wait"
    /\ \/ /\ Receives(f)
          /\ wakers' = Without(wakers, k)
          /\ future' = [future EXCEPT ![f].at = "run", ![f].key = 0]
          /\ UNCHANGED targets
       \/ Registers(f, k) /\ UNCHANGED future
    /\ UNCHANGED <<complete, woken, join, sync>>

\* wait_for is polled again, with the key that it has.
WaitAgain(f) ==
    LET k == future[f].key IN
    /\ Polled(f) /\ future[f].at = "wait"
    /\ \/ /\ Receives(f)
          /\ targets' = Without(targets, k) /\ wakers' = Without(wakers, k)
          /\ future' = [future EXCEPT ![f].at = "run", ![f].key = 0]
       \/ Registers(f, k) /\ UNCHANGED future
    /\ UNCHANGED <<complete, woken, join, sync>>

-----------------------------------------------------------------------------
(* The locks: Mutex, and RwLock with the Notify that its writers wait for *)

Lock(f) ==
    /\ Begins(f) /\ future[f].holds = "none"
    /\ \E mode \in {"read", "write"} :
        /\ mode = "read" => sync.kind = "rwlock"
        /\ future' = [future EXCEPT ![f].ops = @ + 1, ![f].at = "acquire", ![f].wants = mode]
    /\ UNCHANGED <<exec, tasks, complete, woken, join, targets, wakers, ready, sync>>

Has(f, mode) == [future EXCEPT ![f].at = "run", ![f].wants = "none", ![f].holds = mode]

\* A bug: the permit is not taken.
AcquiresNothing(f) ==
    /\ Polled(f) /\ future[f].at = "acquire" /\ GoesOn
    /\ future' = Has(f, future[f].wants)
    /\ UNCHANGED <<complete, woken, join, targets, wakers, ready, sync>>

\* Semaphore::acquire.  All who are queued are woken together: it does not matter
\* how often or in which order they are queued.  A reader gives the permit back at
\* once.
Acquire(f) ==
    /\ Polled(f) /\ future[f].at = "acquire"
    /\ IF sync.permits = 0
       THEN /\ sync' = [sync EXCEPT !.queue = @ \cup {f}]
            /\ Yield(f)
            /\ UNCHANGED <<future, woken>>
       ELSE /\ GoesOn
            /\ IF future[f].wants = "read"
               THEN /\ sync' = [sync EXCEPT !.queue = {}]
                    /\ woken' = woken \cup sync.queue
               ELSE /\ sync' = [sync EXCEPT !.permits = @ - 1]
                    /\ UNCHANGED woken
            /\ future' = IF future[f].wants = "write" /\ sync.kind = "rwlock"
                         THEN [future EXCEPT ![f].at = "notified"]
                         ELSE Has(f, future[f].wants)
    /\ UNCHANGED <<complete, join, targets, wakers, ready>>

\* Notify::notified
Notified(f) ==
    /\ Polled(f) /\ future[f].at = "notified"
    /\ IF sync.notified
       THEN /\ sync' = [sync EXCEPT !.notified = FALSE]
            /\ future' = Has(f, "write")
            /\ GoesOn
       ELSE /\ sync' = [sync EXCEPT !.waiting = Append(@, f)]
            /\ Yield(f)
            /\ UNCHANGED future
    /\ UNCHANGED <<complete, woken, join, targets, wakers, ready>>

\* Notify::notify_one, of lock s: who is woken, and what is left of it.
NotifyOne(s) ==
    LET first == IF ~ s.notified /\ s.waiting # <<>> THEN 1 ELSE 0 IN
    [woken |-> {s.waiting[i] : i \in 1..first},
     sync |-> [s EXCEPT !.notified = TRUE,
                        !.waiting = SubSeq(@, 1 + first, Len(@))]]

\* A bug: those that wait for the permit are not woken.
UnlocksSilently(f) ==
    /\ Polled(f) /\ future[f].at = "run" /\ future[f].holds # "none"
    /\ future' = [future EXCEPT ![f].holds = "none"]
    /\ sync' = IF future[f].holds = "write"
               THEN [NotifyOne(sync).sync EXCEPT !.permits = @ + 1]
               ELSE sync
    /\ UNCHANGED <<exec, tasks, complete, woken, join, targets, wakers, ready>>

\* The guard is dropped: a writer of an RwLock notifies, then the permit wakes
\* all that wait for it.  How many readers there are is counted, and not used.
Unlock(f) ==
    LET notified == IF sync.kind = "rwlock" THEN NotifyOne(sync)
                                            ELSE [woken |-> {}, sync |-> sync]
    IN
    /\ Polled(f) /\ future[f].at = "run" /\ future[f].holds # "none"
    /\ future' = [future EXCEPT ![f].holds = "none"]
    /\ IF future[f].holds = "write"
       THEN /\ woken' = woken \cup notified.woken \cup sync.queue
            /\ sync' = [notified.sync EXCEPT !.permits = @ + 1, !.queue = {}]
       ELSE UNCHANGED <<woken, sync>>
    /\ UNCHANGED <<exec, tasks, complete, join, targets, wakers, ready>>

-----------------------------------------------------------------------------

Run ==
    \/ PollMain \/ PopTask \/ AnotherRound \/ RoundsEnd \/ Block
    \/ Join \/ PollHandles
    \/ \E f \in Futures, t \in Tasks : Spawn(f, t)
    \/ \E f \in Futures : \/ Finish(f) \/ WaitFor(f) \/ Reread(f) \/ WaitAgain(f)
                           \/ Lock(f) \/ Acquire(f) \/ Notified(f) \/ Unlock(f)

Next == Run \/ \E f \in Futures : Arrive(f)

\* The thread runs, and what is waited for comes.
Spec == Init /\ [][Next]_vars /\ WF_vars(Run) /\ \A f \in Futures : WF_vars(Arrive(f))

-----------------------------------------------------------------------------
(* Properties *)

\* The poller never returns a key that has no waker, for which block_until
\* panics, although keys are used again and some are left behind
\* (reactor.rs:124-134, 210-215).
KeysHaveWakers == DOMAIN targets = DOMAIN wakers

\* Two futures never hold the lock as writers, whatever they wait for while
\* they hold it (mutex.rs:20-25, rwlock.rs:35-48).
OneWriter ==
    \A f, g \in Futures : future[f].holds = "write" /\ future[g].holds = "write" => f = g

\* A task that has not been polled since another task spawned it.
Fresh(t) == future[t] = Born("run") /\ t \in woken /\ t \notin join.handles

\* When the thread sleeps, a task is either waiting for something that is not
\* there and will wake it, or has been spawned by another task since the thread
\* last looked at the Reactor's tasks, which still has it; every other task has
\* had its turn (reactor.rs:185-215, semaphore.rs:26-55).
SleepsForAReason ==
    exec.at = "block" => \A t \in Tasks :
        \/ future[t].at \in {"unborn", "done"}
        \/ /\ t \notin woken
           /\ \/ future[t].at \in {"wait", "reread"} /\
                    \E k \in DOMAIN targets : targets[k] = t /\ wakers[k] = t
              \/ future[t].at = "acquire" /\ sync.permits = 0 /\ t \in sync.queue
        \/ Fresh(t) /\ \E i \in DOMAIN tasks : tasks[i] = t

\* Not so: the thread sleeps only when no task could go on.  A task that another
\* task spawned is left asleep, although it is woken, until something arrives that
\* somebody else waits for (reactor.rs:188-212).
OnlyTheIdleSleep ==
    exec.at = "block" => \A t \in Tasks \cap woken : future[t].at = "done"

\* block_on comes back from join() only when all the tasks it joins have ended
\* (reactor.rs:250-262).
JoinedAreDone ==
    exec.at = "end" => \A t \in join.handles : future[t].at = "done"

\* What arrives is received, locks are handed on, whoever spawned them, tasks end
\* and are joined, and block_on comes back, but not before the tasks that it joins
\* have ended.  This is so if every source becomes ready in time, one that a task
\* not yet polled should answer included; see OnlyTheIdleSleep.
Ends == <>(exec.at = "end") /\ []JoinedAreDone
=============================================================================
