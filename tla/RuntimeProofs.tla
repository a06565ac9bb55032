--------------------------- MODULE RuntimeProofs ---------------------------
(***************************************************************************)
(* Proofs about the two modules that the asynchronous servers stand on.    *)
(* WasiRuntime, which runs their tasks: the type invariant, that the two   *)
(* slabs of the poller agree, that a lock has one writer, that when the    *)
(* thread sleeps every task waits for something or is one that another     *)
(* task spawned in this round, and that join returns only when all that it *)
(* joins has ended, for every number of tasks and operations.  Streams, which gives them what their peers send: that the  *)
(* items are the packets in order whatever pieces their bytes arrive in,   *)
(* that the stream ends at the end of the bytes and not before, and that   *)
(* every byte goes out once and in order, for every packet and cipher.     *)
(***************************************************************************)
EXTENDS WasiRuntime, Streams, FiniteSetTheorems, SequenceTheorems,
        NaturalsInduction, TLAPS

-----------------------------------------------------------------------------
(* WasiRuntime: the inductive invariant *)

InSeq(s) == {s[i] : i \in 1..Len(s)}

Live(f) == future[f].at \notin {"unborn", "done"}

\* The two slabs of the poller are the same, and a wait_for owns its key.
KeyInv ==
    /\ targets = wakers /\ IsFiniteSet(DOMAIN targets)
    /\ \A f \in Futures : future[f].at = "wait" =>
          future[f].key \in DOMAIN targets /\ targets[future[f].key] = f

\* The permit is taken by a writer, or by one that waits for its notification,
\* which is there unless a writer has taken it.
Holder(f) == future[f].holds = "write" \/ future[f].at = "notified"

LockInv ==
    /\ \A f, g \in Futures : Holder(f) /\ Holder(g) => f = g
    /\ \A f \in Futures : Holder(f) => sync.permits = 0
    /\ ~ sync.notified => \E f \in Futures : future[f].holds = "write"
    /\ sync.kind = "mutex" => sync.notified
    /\ \A f \in Futures : future[f].at = "notified" => sync.kind = "rwlock"
    /\ \A f \in Futures : future[f].at \in {"unborn", "acquire", "notified"} =>
          future[f].holds = "none"

\* No task is lost between the Reactor and the two lists of block_until.
Place == InSeq(tasks) \cup InSeq(exec.queue) \cup InSeq(exec.pending)

PlaceInv ==
    /\ \A t \in Tasks : Live(t) => Polled(t) \/ t \in Place
    /\ exec.at \in {"start", "block", "end"} \/ Polled(Main) =>
          exec.queue = <<>> /\ exec.pending = <<>>

\* While block_until runs the tasks it has taken, the Reactor has the tasks that
\* they spawn, and no other.
Inside == exec.at = "tasks" \/ (exec.at = "poll" /\ exec.current # Main)

Taken == InSeq(exec.queue) \cup InSeq(exec.pending)

FreshInv ==
    Inside => \A t \in InSeq(tasks) : Fresh(t) /\ t \notin Taken /\ ~ Polled(t)

\* Who can be woken, polled or joined has been spawned.
Touched(f) ==
    \/ f = Main \/ f = exec.current \/ f \in woken
    \/ f \in sync.queue \/ f \in InSeq(sync.waiting) \/ \E k \in DOMAIN wakers : wakers[k] = f

Known(f) == Touched(f) \/ f \in Place \/ f \in join.handles

BornInv == \A f \in Futures : Known(f) => future[f].at # "unborn"

\* A task that is neither polled nor woken is known to what it waits for.
Waits(t) ==
    \/ future[t].at \in {"wait", "reread"} /\ \E k \in DOMAIN targets : targets[k] = t
    \/ future[t].at = "acquire" /\ sync.permits = 0 /\ t \in sync.queue

SleepInv ==
    /\ \A t \in Tasks : Live(t) /\ ~ Polled(t) /\ t \notin woken => Waits(t)
    /\ exec.at = "block" => \A t \in Tasks : Live(t) /\ t \in woken =>
          Fresh(t) /\ t \in InSeq(tasks)

\* What complete has when a handle is polled is a task that is done.
JoinInv ==
    /\ \A t \in exec.ended : future[t].at = "done"
    /\ future[Main].at # "join" =>
          /\ \A t \in DOMAIN complete : future[t].at = "done"
          /\ exec.at # "end"
    /\ \A t \in join.poll \cap DOMAIN complete : future[t].at = "done"
    /\ future[Main].at = "join" => \A t \in join.handles : Live(t) => t \in join.left
    /\ exec.at = "end" => join.left = {}

Inv ==
    TypeOK /\ KeyInv /\ LockInv /\ PlaceInv /\ FreshInv /\ BornInv /\ SleepInv /\ JoinInv

-----------------------------------------------------------------------------
(* Sequences *)

LEMMA InAppend ==
    ASSUME NEW S, NEW s \in Seq(S), NEW x \in S
    PROVE  /\ Append(s, x) \in Seq(S)
           /\ InSeq(Append(s, x)) = InSeq(s) \cup {x}
<1>1. Append(s, x) \in Seq(S) /\ Len(Append(s, x)) = Len(s) + 1
  BY AppendProperties
<1>2. \A i \in 1..Len(s) : Append(s, x)[i] = s[i]
  BY AppendProperties
<1>3. Append(s, x)[Len(s) + 1] = x
  BY AppendProperties
<1>4. Len(s) \in Nat
  BY LenProperties
<1> QED
  BY <1>1, <1>2, <1>3, <1>4 DEF InSeq

LEMMA InConcat ==
    ASSUME NEW S, NEW s \in Seq(S), NEW r \in Seq(S)
    PROVE  /\ s \o r \in Seq(S)
           /\ InSeq(s \o r) = InSeq(s) \cup InSeq(r)
<1>1. /\ s \o r \in Seq(S) /\ Len(s \o r) = Len(s) + Len(r)
      /\ \A i \in 1..Len(s) + Len(r) :
            (s \o r)[i] = IF i <= Len(s) THEN s[i] ELSE r[i - Len(s)]
  BY ConcatProperties
<1>2. Len(s) \in Nat /\ Len(r) \in Nat
  BY LenProperties
<1>3. \A i \in 1..Len(s) : i \in 1..Len(s \o r) /\ (s \o r)[i] = s[i]
  BY <1>1, <1>2
<1>4. \A i \in 1..Len(r) :
          Len(s) + i \in 1..Len(s \o r) /\ (s \o r)[Len(s) + i] = r[i]
  BY <1>1, <1>2
<1>5. \A i \in 1..Len(s \o r) :
          \/ i \in 1..Len(s) /\ (s \o r)[i] = s[i]
          \/ i - Len(s) \in 1..Len(r) /\ (s \o r)[i] = r[i - Len(s)]
  BY <1>1, <1>2
<1>6. InSeq(s) \cup InSeq(r) \subseteq InSeq(s \o r)
  BY <1>1, <1>3, <1>4 DEF InSeq
<1>7. InSeq(s \o r) \subseteq InSeq(s) \cup InSeq(r)
  <2> SUFFICES ASSUME NEW i \in 1..Len(s \o r) PROVE (s \o r)[i] \in InSeq(s) \cup InSeq(r)
    BY DEF InSeq
  <2> QED
    BY <1>5 DEF InSeq
<1> QED
  BY <1>1, <1>6, <1>7

LEMMA InFront ==
    ASSUME NEW S, NEW s \in Seq(S), Len(s) > 0
    PROVE  /\ SubSeq(s, 1, Len(s) - 1) \in Seq(S)
           /\ s[Len(s)] \in S
           /\ InSeq(s) = InSeq(SubSeq(s, 1, Len(s) - 1)) \cup {s[Len(s)]}
<1> DEFINE n == Len(s)
           r == SubSeq(s, 1, n - 1)
<1>1. n \in Nat /\ n >= 1 /\ \A i \in 1..n : s[i] \in S
  BY LenProperties, ElementOfSeq
<1>2. r \in Seq(S) /\ Len(r) = n - 1 /\ \A i \in 1..(n - 1) : r[i] = s[i]
  <2>1. n - 1 \in Int /\ \A i \in 1..(n - 1) : s[i] \in S
    BY <1>1
  <2> HIDE DEF n
  <2>2. r \in Seq(S)
    BY <2>1, SubSeqProperties
  <2>3. Len(r) = n - 1
    BY <1>1, <2>1, SubSeqProperties
  <2>4. \A i \in 1..(n - 1) : r[i] = s[i]
    BY <1>1, <2>1, SubSeqProperties
  <2> QED
    BY <2>2, <2>3, <2>4
<1>3. 1..n = 1..(n - 1) \cup {n}
  BY <1>1
<1> QED
  BY <1>1, <1>2, <1>3 DEF InSeq

LEMMA InRest ==
    ASSUME NEW S, NEW s \in Seq(S), NEW d \in {0, 1}, s # <<>> \/ d = 0
    PROVE  /\ SubSeq(s, 1 + d, Len(s)) \in Seq(S)
           /\ InSeq(SubSeq(s, 1 + d, Len(s))) \subseteq InSeq(s)
<1> DEFINE n == Len(s)
           r == SubSeq(s, 1 + d, n)
<1>1. n \in Nat /\ \A i \in 1..n : s[i] \in S
  BY LenProperties, ElementOfSeq
<1>2. n >= d
  BY <1>1, EmptySeq
<1>3. r \in Seq(S) /\ Len(r) = n - d /\ \A i \in 1..(n - d) : r[i] = s[i + d]
  <2>1. \A i \in (1 + d)..n : s[i] \in S
    BY <1>1
  <2>2. r \in Seq(S)
    BY <1>1, <2>1, SubSeqProperties
  <2>3. Len(r) = n - d
    BY <1>1, <1>2, <2>1, SubSeqProperties
  <2>4. \A i \in 1..(n - d) : r[i] = s[i + d]
    BY <1>1, <1>2, <2>1, SubSeqProperties
  <2> QED
    BY <2>2, <2>3, <2>4
<1>4. \A i \in 1..(n - d) : i + d \in 1..n
  BY <1>1, <1>2
<1> QED
  BY SMTT(30), <1>1, <1>3, <1>4 DEF InSeq

LEMMA InEmpty == \A S : <<>> \in Seq(S) /\ InSeq(<<>>) = {}
  BY EmptySeq DEF InSeq

-----------------------------------------------------------------------------
(* The keys of the poller *)

\* The slab has a free key, and it is never the key of another future that is
\* taken over: a future adds a key that is free or one of its own.
LEMMA FreeKey ==
    ASSUME TypeOK, KeyInv
    PROVE  NewKey \in Nat \ {0} /\ NewKey \notin DOMAIN targets
<1> DEFINE D == DOMAIN targets
           n == Cardinality(D)
<1>1. IsFiniteSet(D) /\ n \in Nat
  BY FS_CardinalityType DEF KeyInv
<1>2. IsFiniteSet(1..(n + 1)) /\ Cardinality(1..(n + 1)) = n + 1
  BY <1>1, FS_Interval
<1>3. \E k \in 1..(n + 1) : k \notin D
  <2>1. SUFFICES ASSUME 1..(n + 1) \subseteq D PROVE FALSE
    OBVIOUS
  <2>2. Cardinality(1..(n + 1)) <= n
    BY <1>1, <2>1, FS_Subset
  <2> QED
    BY <1>1, <1>2, <2>2
<1>4. NewKey \in 1..(n + 1) /\ NewKey \notin D
  BY <1>3 DEF NewKey
<1> QED
  BY <1>1, <1>4

LEMMA OneMore ==
    ASSUME TypeOK, KeyInv, NEW f \in Futures
    PROVE  /\ OneMoreKey(f) \in Nat \ {0}
           /\ OneMoreKey(f) \in DOMAIN targets => targets[OneMoreKey(f)] = f
<1>1. CASE Cardinality(Left(f)) < MaxLeft
  BY <1>1, FreeKey DEF OneMoreKey
<1>2. CASE ~ Cardinality(Left(f)) < MaxLeft
  <2>1. Left(f) # {}
    BY <1>2, FS_EmptySet, BoundsAssumption
  <2>2. OneMoreKey(f) \in Left(f)
    BY <1>2, <2>1 DEF OneMoreKey
  <2> QED
    BY <2>2 DEF Left, TypeOK
<1> QED
  BY <1>1, <1>2

\* What a future does to the slabs: it registers with a key k that is free or its
\* own, or removes its own key.
Touches(f, k) == k \in Nat \ {0} /\ (k \in DOMAIN targets => targets[k] = f)

LEMMA SlabWith ==
    ASSUME TypeOK, KeyInv, NEW f \in Futures, NEW k, Touches(f, k),
           targets' = With(targets, k, f), wakers' = With(wakers, k, f)
    PROVE  /\ DOMAIN targets' = DOMAIN targets \cup {k} /\ targets'[k] = f
           /\ \A x \in DOMAIN targets : targets'[x] = targets[x]
           /\ targets' = wakers' /\ IsFiniteSet(DOMAIN targets')
           /\ DOMAIN targets' \subseteq Nat \ {0} /\ targets' \in [DOMAIN targets' -> Futures]
<1>1. DOMAIN targets' = DOMAIN targets \cup {k} /\ targets'[k] = f
  BY DEF With
<1>2. \A x \in DOMAIN targets : targets'[x] = targets[x]
  BY DEF With, Touches
<1>3. targets' = wakers'
  BY DEF KeyInv
<1>4. IsFiniteSet(DOMAIN targets')
  BY <1>1, FS_AddElement DEF KeyInv
<1>5. DOMAIN targets' \subseteq Nat \ {0}
  BY <1>1 DEF TypeOK, Touches
<1>6. targets' \in [DOMAIN targets' -> Futures]
  <2>1. \A x \in DOMAIN targets : targets[x] \in Futures
    BY DEF TypeOK
  <2> QED
    BY <1>1, <2>1 DEF With
<1> QED
  BY <1>1, <1>2, <1>3, <1>4, <1>5, <1>6

LEMMA SlabWithout ==
    ASSUME TypeOK, KeyInv, NEW k,
           targets' = Without(targets, k), wakers' = Without(wakers, k)
    PROVE  /\ DOMAIN targets' = DOMAIN targets \ {k}
           /\ \A x \in DOMAIN targets' : targets'[x] = targets[x]
           /\ targets' = wakers' /\ IsFiniteSet(DOMAIN targets')
           /\ DOMAIN targets' \subseteq Nat \ {0} /\ targets' \in [DOMAIN targets' -> Futures]
<1>1. DOMAIN targets' = DOMAIN targets \ {k}
  BY DEF Without
<1>2. \A x \in DOMAIN targets' : targets'[x] = targets[x]
  BY DEF Without
<1>3. targets' = wakers'
  BY DEF KeyInv
<1>4. IsFiniteSet(DOMAIN targets')
  BY <1>1, FS_Subset DEF KeyInv
<1>5. DOMAIN targets' \subseteq Nat \ {0}
  BY <1>1 DEF TypeOK
<1>6. targets' \in [DOMAIN targets' -> Futures]
  <2>1. \A x \in DOMAIN targets : targets[x] \in Futures
    BY DEF TypeOK
  <2> QED
    BY <1>1, <2>1 DEF Without
<1> QED
  BY <1>1, <1>2, <1>3, <1>4, <1>5, <1>6

-----------------------------------------------------------------------------
(* Types *)

LEMMA YieldType ==
    ASSUME TypeOK, NEW f \in Futures, Yield(f)
    PROVE  exec' \in Exec /\ tasks' \in Seq(Tasks)
<1>0. exec \in Exec /\ tasks \in Seq(Tasks) /\ <<>> \in Seq(Tasks)
  BY InEmpty DEF TypeOK
<1>1. CASE f = Main
  <2>1. exec' = [exec EXCEPT !.at = "tasks", !.queue = tasks] /\ tasks' = <<>>
    BY <1>1 DEF Yield
  <2> QED
    BY <1>0, <2>1 DEF Exec
<1>2. CASE f # Main
  <2>1. f \in Tasks
    BY <1>2 DEF Futures
  <2>2. exec.pending \in Seq(Tasks)
    BY <1>0 DEF Exec
  <2>3. Append(exec.pending, f) \in Seq(Tasks)
    BY <2>1, <2>2, AppendProperties
  <2>4. /\ exec' = [exec EXCEPT !.at = "tasks", !.pending = Append(exec.pending, f)]
        /\ tasks' = tasks
    BY <1>2 DEF Yield
  <2> QED
    BY <1>0, <2>3, <2>4 DEF Exec
<1> QED
  BY <1>1, <1>2

\* Only exec, or it and the lists of tasks, change when block_until goes on.
LEMMA ExecType ==
    ASSUME TypeOK, PollMain \/ PopTask \/ AnotherRound \/ RoundsEnd \/ Block
    PROVE  exec' \in Exec /\ tasks' \in Seq(Tasks)
<1>0. /\ exec \in Exec /\ tasks \in Seq(Tasks) /\ <<>> \in Seq(Tasks) /\ {} \in SUBSET Tasks
      /\ exec.queue \in Seq(Tasks) /\ exec.pending \in Seq(Tasks) /\ Main \in Futures
      /\ Tasks \subseteq Futures
  BY InEmpty DEF TypeOK, Exec, Futures
<1>1. CASE PollMain
  BY <1>0, <1>1 DEF PollMain, Exec
<1>2. CASE PopTask
  <2> DEFINE q == exec.queue
             n == Len(q)
             r == SubSeq(q, 1, n - 1)
             p == Append(exec.pending, q[n])
  <2>1. Len(q) > 0
    BY <1>2 DEF PopTask
  <2>2. r \in Seq(Tasks) /\ q[n] \in Tasks
    BY <1>0, <2>1, InFront
  <2>3. p \in Seq(Tasks)
    BY <1>0, <2>2, AppendProperties
  <2>4. /\ \/ exec' = [exec EXCEPT !.queue = r, !.at = "poll", !.current = q[n]]
           \/ exec' = [exec EXCEPT !.queue = r, !.pending = p]
        /\ tasks' = tasks
    BY <1>0, <1>2 DEF PopTask, Exec
  <2> HIDE DEF q, n, r, p
  <2> QED
    BY <1>0, <2>2, <2>3, <2>4 DEF Exec
<1>3. CASE AnotherRound
  BY <1>0, <1>3 DEF AnotherRound, Exec
<1>4. CASE RoundsEnd
  <2>1. tasks \o exec.pending \in Seq(Tasks)
    BY <1>0, ConcatProperties
  <2>2. /\ \E a \in {"start", "block"} :
              exec' = [exec EXCEPT !.at = a, !.pending = <<>>, !.ended = {}]
        /\ tasks' = tasks \o exec.pending
    BY <1>4 DEF RoundsEnd
  <2> QED
    BY <1>0, <2>1, <2>2 DEF Exec
<1>5. CASE Block
  BY <1>0, <1>5 DEF Block, Exec
<1> QED
  BY <1>1, <1>2, <1>3, <1>4, <1>5

LEMMA NotifyType ==
    ASSUME NEW s \in Sync
    PROVE  /\ NotifyOne(s).sync \in Sync
           /\ NotifyOne(s).sync.permits = s.permits /\ NotifyOne(s).sync.queue = s.queue
           /\ NotifyOne(s).sync.kind = s.kind /\ NotifyOne(s).sync.notified = TRUE
           /\ InSeq(NotifyOne(s).sync.waiting) \subseteq InSeq(s.waiting)
           /\ NotifyOne(s).woken \subseteq InSeq(s.waiting)
           /\ NotifyOne(s).woken \subseteq Futures
<1> DEFINE w == s.waiting
           d == IF ~ s.notified /\ w # <<>> THEN 1 ELSE 0
           r == SubSeq(w, 1 + d, Len(w))
<1>1. w \in Seq(Futures) /\ d \in {0, 1} /\ (w # <<>> \/ d = 0)
  BY DEF Sync
<1>2. r \in Seq(Futures) /\ InSeq(r) \subseteq InSeq(w)
  <2> HIDE DEF w, d
  <2> QED
    BY <1>1, InRest
<1>3. NotifyOne(s).sync = [s EXCEPT !.notified = TRUE, !.waiting = r]
  BY DEF NotifyOne
<1>4. NotifyOne(s).woken = {w[i] : i \in 1..d}
  BY DEF NotifyOne
<1>5. NotifyOne(s).woken \subseteq InSeq(w)
  <2>1. Len(w) \in Nat /\ (w # <<>> => Len(w) >= 1)
    BY <1>1, EmptySeq
  <2>2. d = 1 => Len(w) >= 1
    BY <2>1
  <2>3. 1..d \subseteq 1..Len(w)
    BY <1>1, <2>1, <2>2
  <2> QED
    BY <1>4, <2>3 DEF InSeq
<1>6. InSeq(w) \subseteq Futures
  BY <1>1, ElementOfSeq DEF InSeq
<1> HIDE DEF r, d
<1>7. /\ NotifyOne(s).sync \in Sync /\ NotifyOne(s).sync.waiting = r
      /\ NotifyOne(s).sync.permits = s.permits /\ NotifyOne(s).sync.queue = s.queue
      /\ NotifyOne(s).sync.kind = s.kind /\ NotifyOne(s).sync.notified = TRUE
  BY <1>2, <1>3 DEF Sync
<1> QED
  BY <1>2, <1>5, <1>6, <1>7

\* Every operation but a Spawn leaves the handles of the main future.
Joins == [handles : SUBSET Tasks, poll : SUBSET Tasks, left : SUBSET Tasks]

\* What the waiting actions do to the slabs.
Waiting(f) == WaitFor(f) \/ Reread(f) \/ WaitAgain(f)

LEMMA WaitingSlabs ==
    ASSUME TypeOK, KeyInv, NEW f \in Futures, Waiting(f)
    PROVE  \/ /\ UNCHANGED <<targets, wakers>> /\ Receives(f)
              /\ future[f].at # "wait" /\ future'[f].at = "run"
           \/ \E k : /\ Touches(f, k) /\ Registers(f, k)
                     /\ \/ future'[f].at = "wait" /\ future'[f].key = k
                        \/ future'[f].at = "reread"
           \/ /\ Receives(f) /\ Touches(f, future[f].key)
              /\ future[f].at = "wait" /\ future'[f].at = "run"
              /\ future[f].key \in DOMAIN targets
              /\ targets' = Without(targets, future[f].key)
              /\ wakers' = Without(wakers, future[f].key)
<1>0. future \in [Futures -> Future]
  BY DEF TypeOK
<1>1. Touches(f, NewKey)
  BY FreeKey DEF Touches
<1>2. Touches(f, OneMoreKey(f))
  BY OneMore DEF Touches
<1>3. CASE WaitFor(f)
  <2>1. CASE Receives(f) /\ future' = [future EXCEPT ![f].ops = @ + 1] /\ UNCHANGED <<targets, wakers>>
    BY <1>0, <1>3, <2>1 DEF WaitFor, Begins, Future
  <2>2. CASE /\ Registers(f, NewKey)
             /\ future' = [future EXCEPT ![f].ops = @ + 1, ![f].at = "wait", ![f].key = NewKey]
    BY <1>0, <1>1, <2>2 DEF Future
  <2>3. CASE /\ Registers(f, OneMoreKey(f))
             /\ future' = [future EXCEPT ![f].ops = @ + 1, ![f].at = "reread"]
    BY <1>0, <1>2, <2>3 DEF Future
  <2> QED
    BY <1>3, <2>1, <2>2, <2>3 DEF WaitFor
<1>4. CASE Reread(f)
  BY <1>0, <1>2, <1>4 DEF Reread, Future
<1>5. CASE WaitAgain(f)
  <2>1. /\ future[f].at = "wait" /\ future[f].key \in DOMAIN targets
        /\ targets[future[f].key] = f
    BY <1>5 DEF WaitAgain, KeyInv
  <2>2. Touches(f, future[f].key)
    BY <2>1 DEF Touches, TypeOK
  <2> QED
    BY <1>0, <1>5, <2>1, <2>2 DEF WaitAgain, Future
<1> QED
  BY <1>3, <1>4, <1>5 DEF Waiting

LEMMA WaitingFuture ==
    ASSUME TypeOK, NEW f \in Futures, Waiting(f)
    PROVE  /\ \A g \in Futures \ {f} : future'[g] = future[g]
           /\ future'[f].holds = future[f].holds
           /\ Polled(f) /\ future[f].at \in {"run", "wait", "reread"}
           /\ UNCHANGED <<complete, woken, join, sync>>
<1>0. future \in [Futures -> Future]
  BY DEF TypeOK
<1>1. CASE WaitFor(f)
  BY <1>0, <1>1 DEF WaitFor, Begins, Future
<1>2. CASE Reread(f)
  BY <1>0, <1>2 DEF Reread, Future
<1>3. CASE WaitAgain(f)
  BY <1>0, <1>3 DEF WaitAgain, Future
<1> QED
  BY <1>1, <1>2, <1>3 DEF Waiting

LEMMA SlabsOfWaiting ==
    ASSUME TypeOK, KeyInv, NEW f \in Futures, Waiting(f)
    PROVE  /\ targets' = wakers' /\ IsFiniteSet(DOMAIN targets')
           /\ DOMAIN targets' \subseteq Nat \ {0} /\ targets' \in [DOMAIN targets' -> Futures]
<1>1. CASE UNCHANGED <<targets, wakers>>
  BY <1>1 DEF TypeOK, KeyInv
<1>2. CASE \E k : Touches(f, k) /\ Registers(f, k)
  <2>1. PICK k : Touches(f, k) /\ Registers(f, k)
    BY <1>2
  <2> QED
    BY <2>1, SlabWith DEF Registers
<1>3. CASE \E k : targets' = Without(targets, k) /\ wakers' = Without(wakers, k)
  BY <1>3, SlabWithout
<1> QED
  BY <1>1, <1>2, <1>3, WaitingSlabs

LEMMA PolledType ==
    ASSUME TypeOK, NEW f \in Futures,
           GoesOn \/ Yield(f) \/ Finish(f)
    PROVE  exec' \in Exec /\ tasks' \in Seq(Tasks)
<1>0. exec \in Exec /\ tasks \in Seq(Tasks)
  BY DEF TypeOK
<1>1. CASE GoesOn
  BY <1>0, <1>1 DEF GoesOn
<1>2. CASE Yield(f)
  BY <1>2, YieldType
<1>3. CASE Finish(f)
  <2>1. f \in Tasks
    BY <1>3 DEF Finish, Futures
  <2>2. exec' = [exec EXCEPT !.at = "tasks", !.ended = exec.ended \cup {f}] /\ tasks' = tasks
    BY <1>3 DEF Finish
  <2>3. exec.ended \cup {f} \in SUBSET Tasks
    BY <1>0, <2>1 DEF Exec
  <2> QED
    BY <1>0, <2>2, <2>3 DEF Exec
<1> QED
  BY <1>1, <1>2, <1>3

LEMMA TypeExec ==
    ASSUME TypeOK, Next
    PROVE  exec' \in Exec /\ tasks' \in Seq(Tasks)
<1>0. exec \in Exec /\ tasks \in Seq(Tasks) /\ Main \in Futures
  BY DEF TypeOK, Futures
<1>1. CASE PollMain \/ PopTask \/ AnotherRound \/ RoundsEnd \/ Block
  BY <1>1, ExecType
<1>2. CASE Join
  BY <1>0, <1>2 DEF Join
<1>3. CASE PollHandles
  <2>1. CASE exec' = [exec EXCEPT !.at = "end"] /\ UNCHANGED tasks
    BY <1>0, <2>1 DEF Exec
  <2>2. CASE Yield(Main)
    BY <1>0, <2>2, YieldType
  <2> QED
    BY <1>3, <2>1, <2>2 DEF PollHandles, Handles
<1>4. ASSUME NEW h \in Futures, NEW t \in Tasks, Spawn(h, t) PROVE exec' \in Exec /\ tasks' \in Seq(Tasks)
  BY <1>0, <1>4, InAppend DEF Spawn
<1>5. ASSUME NEW f \in Futures,
             Finish(f) \/ Waiting(f) \/ Lock(f) \/ Acquire(f) \/ Notified(f) \/ Unlock(f) \/ Arrive(f)
      PROVE  exec' \in Exec /\ tasks' \in Seq(Tasks)
  <2>1. Finish(f) \/ GoesOn \/ Yield(f)
    BY SMTT(40), <1>5 DEF Waiting, WaitFor, Reread, WaitAgain, Receives, Registers, Lock, Acquire,
                Notified, Unlock, Arrive, GoesOn
  <2> QED
    BY <2>1, PolledType
<1> QED
  BY <1>1, <1>2, <1>3, <1>4, <1>5 DEF Next, Run, Waiting

LEMMA TypeJoin ==
    ASSUME TypeOK, Next
    PROVE  /\ DOMAIN complete' \subseteq Tasks /\ complete' \in [DOMAIN complete' -> BOOLEAN]
           /\ join' \in Joins
<1>0. /\ DOMAIN complete \subseteq Tasks /\ complete \in [DOMAIN complete -> BOOLEAN]
      /\ join \in Joins /\ exec.ended \subseteq Tasks
      /\ join.poll \subseteq Tasks /\ join.left \subseteq Tasks /\ join.handles \subseteq Tasks
  BY DEF TypeOK, Exec, Joins
<1>1. CASE RoundsEnd
  <2>1. /\ complete' = [t \in DOMAIN complete \cup exec.ended |->
                          IF t \in exec.ended THEN FALSE ELSE complete[t]]
        /\ \E J \in SUBSET join.left : join' = [join EXCEPT !.poll = join.poll \cup J]
    BY <1>1 DEF RoundsEnd
  <2> QED
    BY <1>0, <2>1 DEF Joins
<1>2. CASE Join
  <2>1. join' = [join EXCEPT !.poll = join.handles, !.left = join.handles]
    BY <1>2 DEF Join
  <2> QED
    BY <1>0, <1>2, <2>1 DEF Join, Joins
<1>3. CASE PollHandles
  <2>1. \E S \in SUBSET join.left : join' = [join EXCEPT !.poll = {}, !.left = S]
    BY <1>3 DEF PollHandles, Handles
  <2>2. complete' = [t \in DOMAIN complete \cup join.poll |->
                        t \in DOMAIN complete => complete[t]]
    BY <1>3 DEF PollHandles, Handles
  <2>3. \A t \in DOMAIN complete \cup join.poll :
            (t \in DOMAIN complete => complete[t]) \in BOOLEAN
    BY <1>0
  <2>4. join' \in Joins
    BY <1>0, <2>1 DEF Joins
  <2>5. DOMAIN complete' = DOMAIN complete \cup join.poll
    BY <2>2
  <2>6. complete' \in [DOMAIN complete' -> BOOLEAN]
    BY <2>2, <2>3, <2>5
  <2> QED
    BY <1>0, <2>4, <2>5, <2>6
<1>4. ASSUME NEW h \in Futures, NEW t \in Tasks, Spawn(h, t)
      PROVE  UNCHANGED complete /\ join' \in Joins
  <2>1. \/ join' = [join EXCEPT !.handles = join.handles \cup {t}]
        \/ join' = join
    BY <1>4 DEF Spawn
  <2> QED
    BY <1>0, <1>4, <2>1 DEF Spawn, Joins
<1>5. CASE UNCHANGED <<complete, join>>
  BY <1>0, <1>5
<1> QED
  BY <1>0, <1>1, <1>2, <1>3, <1>4, <1>5
     DEF Next, Run, PollMain, PopTask, AnotherRound, Block, Finish, WaitFor, Reread,
         WaitAgain, Lock, Acquire, Notified, Unlock, Arrive

LEMMA TypeWoken ==
    ASSUME TypeOK, Next
    PROVE  woken' \subseteq Futures /\ ready' \subseteq Futures
<1>0. /\ woken \subseteq Futures /\ ready \subseteq Futures /\ sync \in Sync
      /\ sync.queue \subseteq Futures /\ Main \in Futures /\ Tasks \subseteq Futures
      /\ \A k \in DOMAIN wakers : wakers[k] \in Futures
  BY DEF TypeOK, Sync, Futures
<1>1. CASE PollMain \/ PopTask \/ AnotherRound \/ RoundsEnd \/ Block \/ Join \/ PollHandles
  BY <1>0, <1>1 DEF PollMain, PopTask, AnotherRound, RoundsEnd, Block, Join, PollHandles, Handles
<1>2. ASSUME NEW h \in Futures, NEW t \in Tasks, Spawn(h, t) PROVE woken' \subseteq Futures /\ ready' \subseteq Futures
  BY <1>0, <1>2 DEF Spawn
<1>3. ASSUME NEW f \in Futures,
             Finish(f) \/ WaitFor(f) \/ Reread(f) \/ WaitAgain(f) \/ Lock(f) \/ Acquire(f)
               \/ Notified(f) \/ Arrive(f)
      PROVE  woken' \subseteq Futures /\ ready' \subseteq Futures
  BY <1>0, <1>3 DEF Finish, WaitFor, Reread, WaitAgain, Receives, Registers, Lock, Acquire,
                    Notified, Arrive
<1>4. ASSUME NEW f \in Futures, Unlock(f)
      PROVE  woken' \subseteq Futures /\ ready' \subseteq Futures
  BY <1>0, <1>4, NotifyType DEF Unlock
<1> QED
  BY <1>1, <1>2, <1>3, <1>4 DEF Next, Run

LEMMA TypeSync ==
    ASSUME TypeOK, LockInv, Next
    PROVE  sync' \in Sync
<1>0. /\ sync \in Sync /\ sync.permits \in {0, 1} /\ sync.queue \subseteq Futures
      /\ sync.waiting \in Seq(Futures)
  BY DEF TypeOK, Sync
<1>1. ASSUME NEW f \in Futures, Acquire(f) PROVE sync' \in Sync
  <2>1. CASE sync.permits = 0
    <3>1. sync' = [sync EXCEPT !.queue = sync.queue \cup {f}]
      BY <1>1, <2>1 DEF Acquire
    <3> QED
      BY <1>0, <3>1 DEF Sync
  <2>2. CASE sync.permits = 1
    <3>1. \/ sync' = [sync EXCEPT !.queue = {}]
          \/ sync' = [sync EXCEPT !.permits = 0]
      BY <1>0, <1>1, <2>2 DEF Acquire
    <3> QED
      BY <1>0, <3>1 DEF Sync
  <2> QED
    BY <1>0, <2>1, <2>2
<1>2. ASSUME NEW f \in Futures, Notified(f) PROVE sync' \in Sync
  <2>1. Append(sync.waiting, f) \in Seq(Futures)
    BY <1>0, AppendProperties
  <2>2. \/ sync' = [sync EXCEPT !.notified = FALSE]
        \/ sync' = [sync EXCEPT !.waiting = Append(sync.waiting, f)]
    BY <1>2 DEF Notified
  <2> QED
    BY <1>0, <2>1, <2>2 DEF Sync
<1>3. ASSUME NEW f \in Futures, Unlock(f) PROVE sync' \in Sync
  <2>1. CASE future[f].holds = "write"
    <3>1. sync.permits = 0
      BY <2>1 DEF LockInv, Holder
    <3>2. PICK s \in {sync, NotifyOne(sync).sync} :
              sync' = [s EXCEPT !.permits = s.permits + 1, !.queue = {}]
      BY <1>3, <2>1 DEF Unlock
    <3>3. s \in Sync /\ s.permits = 0
      <4>1. NotifyOne(sync).sync \in Sync /\ NotifyOne(sync).sync.permits = sync.permits
        BY <1>0, NotifyType DEF Sync
      <4> QED
        BY <1>0, <3>1, <3>2, <4>1
    <3>4. sync' = [s EXCEPT !.permits = 1, !.queue = {}]
      BY <3>2, <3>3
    <3> QED
      BY <3>3, <3>4 DEF Sync
  <2> QED
    BY <1>0, <1>3, <2>1 DEF Unlock
<1>4. CASE UNCHANGED sync
  BY <1>0, <1>4
<1> QED
  BY <1>1, <1>2, <1>3, <1>4
     DEF Next, Run, PollMain, PopTask, AnotherRound, RoundsEnd, Block, Join, PollHandles, Handles,
         Spawn, Finish, WaitFor, Reread, WaitAgain, Lock, Arrive

LEMMA TypeFuture ==
    ASSUME TypeOK, KeyInv, Next
    PROVE  future' \in [Futures -> Future]
<1>0. /\ future \in [Futures -> Future] /\ Main \in Futures /\ Tasks \subseteq Futures
      /\ \A f \in Futures : /\ future[f] \in Future /\ future[f].ops + 1 \in Nat
                            /\ future[f].wants \in {"none", "read", "write"}
  BY DEF TypeOK, Futures, Future
<1>1. ASSUME NEW h \in Futures, NEW t \in Tasks, Spawn(h, t) PROVE future' \in [Futures -> Future]
  <2>1. future' = [future EXCEPT ![h].ops = future[h].ops + 1, ![t] = Born("run")]
    BY <1>1 DEF Spawn
  <2>2. Born("run") \in Future
    BY DEF Born, Future, States
  <2> QED
    BY <1>0, <2>1, <2>2 DEF Future
<1>2. CASE Join
  BY <1>0, <1>2 DEF Join, Future, States
<1>3. ASSUME NEW f \in Futures, Finish(f) \/ Lock(f) PROVE future' \in [Futures -> Future]
  BY <1>0, <1>3 DEF Finish, Lock, Future, States
<1>4. ASSUME NEW f \in Futures, Waiting(f) PROVE future' \in [Futures -> Future]
  <2>1. NewKey \in Nat
    BY FreeKey
  <2>2. \/ UNCHANGED future
        \/ future' = [future EXCEPT ![f].ops = future[f].ops + 1]
        \/ future' = [future EXCEPT ![f].ops = future[f].ops + 1, ![f].at = "wait", ![f].key = NewKey]
        \/ future' = [future EXCEPT ![f].ops = future[f].ops + 1, ![f].at = "reread"]
        \/ future' = [future EXCEPT ![f].at = "run"]
        \/ future' = [future EXCEPT ![f].at = "run", ![f].key = 0]
    BY <1>4 DEF Waiting, WaitFor, Reread, WaitAgain
  <2> QED
    BY <1>0, <2>1, <2>2 DEF Future, States
<1>5. ASSUME NEW f \in Futures, Acquire(f) \/ Notified(f) \/ Unlock(f)
      PROVE  future' \in [Futures -> Future]
  <2>1. \/ UNCHANGED future
        \/ future' = [future EXCEPT ![f].at = "notified"]
        \/ \E m \in {"none", "read", "write"} :
              future' = [future EXCEPT ![f].at = "run", ![f].wants = "none", ![f].holds = m]
        \/ future' = [future EXCEPT ![f].holds = "none"]
    BY <1>0, <1>5 DEF Acquire, Notified, Unlock, Has
  <2> QED
    BY <1>0, <2>1 DEF Future, States
<1>6. CASE UNCHANGED future
  BY <1>0, <1>6
<1> QED
  BY <1>1, <1>2, <1>3, <1>4, <1>5, <1>6
     DEF Next, Run, PollMain, PopTask, AnotherRound, RoundsEnd, Block, PollHandles, Handles,
         Arrive, Waiting

LEMMA TypeStep ==
    ASSUME TypeOK, KeyInv, LockInv, Next
    PROVE  TypeOK'
<1>1. /\ DOMAIN targets' \subseteq Nat \ {0} /\ targets' \in [DOMAIN targets' -> Futures]
      /\ DOMAIN wakers' \subseteq Nat \ {0} /\ wakers' \in [DOMAIN wakers' -> Futures]
  <2>1. CASE \E f \in Futures : Waiting(f)
    BY <2>1, SlabsOfWaiting
  <2>2. CASE UNCHANGED <<targets, wakers>>
    BY <2>2 DEF TypeOK
  <2> QED
    BY <2>1, <2>2
       DEF Next, Run, PollMain, PopTask, AnotherRound, RoundsEnd, Block, Join, PollHandles,
           Handles, Spawn, Finish, Lock, Acquire, Notified, Unlock, Arrive, Waiting
<1> QED
  BY SMTT(40), <1>1, TypeExec, TypeJoin, TypeWoken, TypeSync, TypeFuture DEF TypeOK, Joins

-----------------------------------------------------------------------------
(* The keys of the poller: each step *)

\* Only the waiting actions make a future wait or change its key.
LEMMA KeysOfOthers ==
    ASSUME TypeOK, Next, ~ \E f \in Futures : Waiting(f)
    PROVE  /\ UNCHANGED <<targets, wakers>>
           /\ \A g \in Futures : future'[g].at = "wait" =>
                 future[g].at = "wait" /\ future'[g].key = future[g].key
<1>0. future \in [Futures -> Future] /\ Main \in Futures /\ Tasks \subseteq Futures
  BY DEF TypeOK, Futures
<1>1. UNCHANGED <<targets, wakers>>
  BY DEF Next, Run, PollMain, PopTask, AnotherRound, RoundsEnd, Block, Join, PollHandles,
         Handles, Spawn, Finish, Lock, Acquire, Notified, Unlock, Arrive, Waiting
<1> DEFINE Kept == \A g \in Futures : future'[g].at = "wait" =>
                      future[g].at = "wait" /\ future'[g].key = future[g].key
<1>2. CASE UNCHANGED future
  BY <1>1, <1>2
<1>3. CASE Join
  BY <1>0, <1>1, <1>3 DEF Join, Future
<1>4. ASSUME NEW h \in Futures, NEW t \in Tasks, Spawn(h, t) PROVE Kept
  BY <1>0, <1>4 DEF Spawn, Born, Future
<1>5. ASSUME NEW f \in Futures, Finish(f) \/ Lock(f) \/ Unlock(f) PROVE Kept
  BY <1>0, <1>5 DEF Finish, Lock, Unlock, Future
<1>6. ASSUME NEW f \in Futures, Acquire(f) \/ Notified(f) PROVE Kept
  BY <1>0, <1>6 DEF Acquire, Notified, Has, Future
<1> QED
  BY <1>1, <1>2, <1>3, <1>4, <1>5, <1>6
     DEF Next, Run, PollMain, PopTask, AnotherRound, RoundsEnd, Block, PollHandles, Handles,
         Arrive, Waiting

LEMMA KeyStep ==
    ASSUME TypeOK, KeyInv, Next
    PROVE  KeyInv'
<1>1. CASE ~ \E f \in Futures : Waiting(f)
  BY <1>1, KeysOfOthers DEF KeyInv
<1>2. ASSUME NEW f \in Futures, Waiting(f)
      PROVE  KeyInv'
  <2>1. targets' = wakers' /\ IsFiniteSet(DOMAIN targets')
    BY <1>2, SlabsOfWaiting
  <2>2. \A g \in Futures \ {f} : future'[g] = future[g]
    BY <1>2, WaitingFuture
  <2>3. ASSUME NEW g \in Futures, future'[g].at = "wait"
        PROVE  future'[g].key \in DOMAIN targets' /\ targets'[future'[g].key] = g
    <3>1. g # f => /\ future'[g] = future[g] /\ future[g].key \in DOMAIN targets
                   /\ targets[future[g].key] = g
      BY <2>2, <2>3 DEF KeyInv
    <3>2. CASE UNCHANGED <<targets, wakers>> /\ future'[f].at = "run"
      BY <2>3, <3>1, <3>2
    <3>3. CASE \E k : /\ Touches(f, k) /\ Registers(f, k)
                      /\ \/ future'[f].at = "wait" /\ future'[f].key = k
                         \/ future'[f].at = "reread"
      <4>1. PICK k : /\ Touches(f, k) /\ Registers(f, k)
                     /\ \/ future'[f].at = "wait" /\ future'[f].key = k
                        \/ future'[f].at = "reread"
        BY <3>3
      <4>2. /\ DOMAIN targets' = DOMAIN targets \cup {k} /\ targets'[k] = f
            /\ \A x \in DOMAIN targets : targets'[x] = targets[x]
        BY <4>1, SlabWith DEF Registers
      <4> QED
        BY <2>3, <3>1, <4>1, <4>2
    <3>4. CASE /\ Touches(f, future[f].key) /\ future'[f].at = "run"
               /\ future[f].key \in DOMAIN targets
               /\ targets' = Without(targets, future[f].key)
               /\ wakers' = Without(wakers, future[f].key)
      <4>1. /\ DOMAIN targets' = DOMAIN targets \ {future[f].key}
            /\ \A x \in DOMAIN targets' : targets'[x] = targets[x]
        BY <3>4, SlabWithout
      <4> QED
        BY <2>3, <3>1, <3>4, <4>1 DEF Touches
    <3> QED
      BY <1>2, <3>2, <3>3, <3>4, WaitingSlabs
  <2> QED
    BY <2>1, <2>3 DEF KeyInv
<1> QED
  BY <1>1, <1>2

-----------------------------------------------------------------------------
(* The lock: each step *)

\* The lock changes hands only in Acquire, Notified and Unlock.
SameHolder(g) ==
    /\ Holder(g)' => Holder(g)
    /\ future[g].holds = "write" => future'[g].holds = "write"
    /\ future'[g].at = "notified" => future[g].at = "notified"
    /\ future'[g].at \in {"unborn", "acquire", "notified"} =>
          \/ future'[g].holds = "none"
          \/ future'[g].at = future[g].at /\ future'[g].holds = future[g].holds

LEMMA LockOfOthers ==
    ASSUME TypeOK, LockInv, Next, ~ \E f \in Futures : Acquire(f) \/ Notified(f) \/ Unlock(f)
    PROVE  /\ UNCHANGED sync
           /\ \A g \in Futures : SameHolder(g)
<1>0. future \in [Futures -> Future] /\ Main \in Futures /\ Tasks \subseteq Futures
  BY DEF TypeOK, Futures
<1>1. UNCHANGED sync
  BY DEF Next, Run, PollMain, PopTask, AnotherRound, RoundsEnd, Block, Join, PollHandles,
         Handles, Spawn, Finish, Lock, WaitFor, Reread, WaitAgain, Arrive
<1> DEFINE Same == \A g \in Futures : SameHolder(g)
<1>2. CASE UNCHANGED future
  BY <1>1, <1>2 DEF Holder, SameHolder
<1>3. CASE Join
  BY <1>0, <1>1, <1>3 DEF Join, Future, Holder, SameHolder
<1>4. ASSUME NEW h \in Futures, NEW t \in Tasks, Spawn(h, t) PROVE Same
  <2>1. future[t].holds = "none" /\ future[t].at = "unborn"
    BY <1>0, <1>4 DEF LockInv, Spawn
  <2> QED
    BY <1>0, <1>4, <2>1 DEF Spawn, Born, Future, Holder, SameHolder
<1>5. ASSUME NEW f \in Futures, Finish(f) \/ Lock(f) PROVE Same
  BY <1>0, <1>5 DEF Finish, Lock, Future, Holder, SameHolder
<1>6. ASSUME NEW f \in Futures, Waiting(f) PROVE Same
  <2>1. future'[f].at \in {"run", "wait", "reread"}
    BY <1>0, <1>6 DEF Waiting, WaitFor, Begins, Reread, WaitAgain, Future
  <2> QED
    BY <1>6, <2>1, WaitingFuture DEF Holder, SameHolder
<1> QED
  BY <1>1, <1>2, <1>3, <1>4, <1>5, <1>6
     DEF Next, Run, PollMain, PopTask, AnotherRound, RoundsEnd, Block, PollHandles, Handles,
         Arrive, Waiting

LEMMA LockStep ==
    ASSUME TypeOK, LockInv, Next
    PROVE  LockInv'
<1>0. future \in [Futures -> Future] /\ sync \in Sync /\ sync.permits \in {0, 1}
  BY DEF TypeOK, Sync
<1>1. CASE ~ \E f \in Futures : Acquire(f) \/ Notified(f) \/ Unlock(f)
  BY <1>1, LockOfOthers DEF LockInv, SameHolder
<1>2. ASSUME NEW f \in Futures, Acquire(f) PROVE LockInv'
  <2>1. CASE sync.permits = 0
    <3>1. /\ sync'.permits = sync.permits /\ sync'.notified = sync.notified
          /\ sync'.kind = sync.kind /\ UNCHANGED future
      BY <1>0, <1>2, <2>1 DEF Acquire, Sync
    <3> QED
      BY <3>1 DEF LockInv, Holder
  <2>2. CASE sync.permits = 1 /\ future[f].wants = "write"
    <3>1. /\ sync'.permits = 0 /\ sync'.notified = sync.notified /\ sync'.kind = sync.kind
      BY <1>0, <1>2, <2>2 DEF Acquire, Sync
    <3>2. \A g \in Futures : ~ Holder(g)
      BY <2>2 DEF LockInv
    <3>3. /\ \A g \in Futures \ {f} : future'[g] = future[g]
          /\ future'[f].at \in {"run", "notified"}
          /\ future'[f].at = "notified" => sync.kind = "rwlock" /\ future'[f].holds = "none"
      <4>1. future[f].at = "acquire" /\ future[f].holds = "none"
        BY <1>2 DEF Acquire, LockInv
      <4> QED
        BY <1>0, <1>2, <2>2, <4>1 DEF Acquire, Has, Future
    <3> QED
      BY <3>1, <3>2, <3>3 DEF LockInv, Holder
  <2>3. CASE sync.permits = 1 /\ future[f].wants # "write"
    <3>1. /\ sync'.notified = sync.notified /\ sync'.kind = sync.kind
      BY <1>0, <1>2, <2>3 DEF Acquire, Sync
    <3>2. \A g \in Futures : ~ Holder(g)
      BY <2>3 DEF LockInv
    <3>3. /\ \A g \in Futures \ {f} : future'[g] = future[g]
          /\ future'[f].at = "run" /\ future'[f].holds # "write"
      BY <1>0, <1>2, <2>3 DEF Acquire, Has, Future
    <3> QED
      BY <3>1, <3>2, <3>3 DEF LockInv, Holder
  <2> QED
    BY <1>0, <2>1, <2>2, <2>3
<1>3. ASSUME NEW f \in Futures, Notified(f) PROVE LockInv'
  <2>1. Holder(f) /\ future[f].at = "notified" /\ sync.kind = "rwlock"
    BY <1>3 DEF Notified, Holder, LockInv
  <2>2. \A g \in Futures \ {f} : ~ Holder(g)
    BY <2>1 DEF LockInv
  <2>3. CASE sync.notified
    <3>1. /\ sync'.permits = sync.permits /\ sync'.kind = sync.kind
      BY <1>0, <1>3, <2>3 DEF Notified, Sync
    <3>2. /\ \A g \in Futures \ {f} : future'[g] = future[g]
          /\ future'[f].at = "run" /\ future'[f].holds = "write"
      BY <1>0, <1>3, <2>3 DEF Notified, Has, Future
    <3> QED
      BY <2>1, <2>2, <3>1, <3>2 DEF LockInv, Holder
  <2>4. CASE ~ sync.notified
    <3>1. /\ sync'.permits = sync.permits /\ sync'.kind = sync.kind
          /\ sync'.notified = sync.notified /\ UNCHANGED future
      BY <1>0, <1>3, <2>4 DEF Notified, Sync
    <3> QED
      BY <3>1 DEF LockInv, Holder
  <2> QED
    BY <2>3, <2>4
<1>4. ASSUME NEW f \in Futures, Unlock(f) PROVE LockInv'
  <2>1. /\ \A g \in Futures \ {f} : future'[g] = future[g]
        /\ future'[f].at = "run" /\ future'[f].holds = "none"
    BY <1>0, <1>4 DEF Unlock, Future
  <2>2. CASE future[f].holds = "write"
    <3>1. \A g \in Futures \ {f} : ~ Holder(g)
      BY <2>2 DEF LockInv, Holder
    <3>2. PICK s \in {sync, NotifyOne(sync).sync} :
             /\ sync' = [s EXCEPT !.permits = s.permits + 1, !.queue = {}]
             /\ sync.kind = "rwlock" => s = NotifyOne(sync).sync
      BY <1>4, <2>2 DEF Unlock
    <3>3. s \in Sync /\ s.kind = sync.kind /\ s.notified
      <4>1. NotifyOne(sync).sync \in Sync /\ NotifyOne(sync).sync.kind = sync.kind
            /\ NotifyOne(sync).sync.notified = TRUE
        BY <1>0, NotifyType
      <4>2. sync.kind # "rwlock" => sync.notified
        BY <1>0 DEF LockInv, Sync
      <4> QED
        BY <1>0, <3>2, <4>1, <4>2
    <3>4. sync'.kind = sync.kind /\ sync'.notified
      BY <3>2, <3>3 DEF Sync
    <3>5. \A g \in Futures : ~ Holder(g)'
      BY <2>1, <3>1 DEF Holder
    <3> QED
      BY <2>1, <3>4, <3>5 DEF LockInv, Holder
  <2>3. CASE future[f].holds # "write"
    <3>1. UNCHANGED sync
      BY <1>4, <2>3 DEF Unlock
    <3>2. future[f].at = "run"
      BY <1>4 DEF Unlock
    <3>3. \A g \in Futures : SameHolder(g)
      BY <2>1, <2>3, <3>2 DEF Holder, SameHolder
    <3> QED
      BY <3>1, <3>3 DEF LockInv, SameHolder
  <2> QED
    BY <2>2, <2>3
<1> QED
  BY <1>1, <1>2, <1>3, <1>4

-----------------------------------------------------------------------------
(* What a step does to the futures *)

Spawned(t) == t \in Tasks /\ \E f \in Futures : Spawn(f, t)

\* Only the future that is polled goes on; a task that ends stays ended.
LEMMA LifeStep ==
    ASSUME TypeOK, Next, NEW g \in Futures
    PROVE  /\ future'[g].at = "unborn" => future[g].at = "unborn"
           /\ future[g].at = "done" => future'[g].at = "done"
           /\ future'[g].at = future[g].at \/ Polled(g)
                \/ (Spawned(g) /\ future'[g].at = "run")
<1>0. future \in [Futures -> Future] /\ Main \in Futures /\ Tasks \subseteq Futures
  BY DEF TypeOK, Futures
<1> DEFINE Lives == /\ future'[g].at = "unborn" => future[g].at = "unborn"
                    /\ future[g].at = "done" => future'[g].at = "done"
                    /\ future'[g].at = future[g].at \/ Polled(g)
                         \/ (Spawned(g) /\ future'[g].at = "run")
<1>1. CASE UNCHANGED future
  BY <1>1
<1>2. CASE Join
  BY <1>0, <1>2 DEF Join, Future
<1>3. ASSUME NEW h \in Futures, NEW t \in Tasks, Spawn(h, t) PROVE Lives
  <2>1. future' = [future EXCEPT ![h].ops = @ + 1, ![t] = Born("run")] /\ t # h
        /\ future[t].at = "unborn"
    BY <1>3 DEF Spawn, Begins
  <2>2. CASE g = t
    BY <1>0, <1>3, <2>1, <2>2 DEF Born, Spawned
  <2>3. CASE g # t
    BY <1>0, <2>1, <2>3 DEF Future
  <2> QED
    BY <2>2, <2>3
<1>4. ASSUME NEW f \in Futures, Finish(f) \/ Lock(f) \/ Unlock(f) PROVE Lives
  BY <1>0, <1>4 DEF Finish, Lock, Unlock, Begins, Future
<1>5. ASSUME NEW f \in Futures, Waiting(f) PROVE Lives
  <2>1. future'[f].at \in {"run", "wait", "reread"}
    BY <1>0, <1>5 DEF Waiting, WaitFor, Begins, Reread, WaitAgain, Future
  <2> QED
    BY <1>5, <2>1, WaitingFuture
<1>6. ASSUME NEW f \in Futures, Acquire(f) \/ Notified(f) PROVE Lives
  <2>1. Polled(f) /\ future[f].at \in {"acquire", "notified"}
    BY <1>6 DEF Acquire, Notified
  <2>2. \/ UNCHANGED future
        \/ future' = [future EXCEPT ![f].at = "notified"]
        \/ \E m : future' = [future EXCEPT ![f].at = "run", ![f].wants = "none", ![f].holds = m]
    BY <1>6 DEF Acquire, Notified, Has
  <2> QED
    BY <1>0, <2>1, <2>2 DEF Future
<1> QED
  BY <1>1, <1>2, <1>3, <1>4, <1>5, <1>6
     DEF Next, Run, PollMain, PopTask, AnotherRound, RoundsEnd, Block, PollHandles, Handles,
         Arrive, Waiting

\* The others do nothing.
LEMMA OthersStay ==
    ASSUME TypeOK, Next, NEW g \in Futures, ~ Polled(g), ~ Spawned(g)
    PROVE  future'[g] = future[g]
<1>0. future \in [Futures -> Future] /\ Main \in Futures
  BY DEF TypeOK, Futures
<1>1. CASE UNCHANGED future
  BY <1>1
<1>2. CASE Join
  BY <1>0, <1>2 DEF Join
<1>3. ASSUME NEW h \in Futures, NEW t \in Tasks, Spawn(h, t) PROVE future'[g] = future[g]
  <2>1. g # t /\ g # h
    BY <1>3 DEF Spawned, Spawn, Begins
  <2>2. future' = [future EXCEPT ![h].ops = @ + 1, ![t] = Born("run")]
    BY <1>3 DEF Spawn
  <2> QED
    BY <1>0, <2>1, <2>2
<1>4. ASSUME NEW f \in Futures, Finish(f) \/ Lock(f) \/ Unlock(f) PROVE future'[g] = future[g]
  BY <1>0, <1>4 DEF Finish, Lock, Unlock, Begins
<1>5. ASSUME NEW f \in Futures, Waiting(f) PROVE future'[g] = future[g]
  BY <1>5, WaitingFuture
<1>6. ASSUME NEW f \in Futures, Acquire(f) \/ Notified(f) PROVE future'[g] = future[g]
  <2>1. f # g
    BY <1>6 DEF Acquire, Notified
  <2>2. \/ UNCHANGED future
        \/ future' = [future EXCEPT ![f].at = "notified"]
        \/ \E m : future' = [future EXCEPT ![f].at = "run", ![f].wants = "none", ![f].holds = m]
    BY <1>6 DEF Acquire, Notified, Has
  <2> QED
    BY <1>0, <2>1, <2>2
<1> QED
  BY <1>1, <1>2, <1>3, <1>4, <1>5, <1>6
     DEF Next, Run, PollMain, PopTask, AnotherRound, RoundsEnd, Block, PollHandles, Handles,
         Arrive, Waiting

LEMMA YieldCurrent ==
    ASSUME TypeOK, NEW f \in Futures, GoesOn \/ Yield(f) \/ Finish(f)
    PROVE  exec'.current = exec.current
  BY DEF TypeOK, Exec, GoesOn, Yield, Finish

LEMMA TouchedStep ==
    ASSUME TypeOK, KeyInv, Next, NEW g \in Futures, Touched(g)'
    PROVE  Touched(g) \/ Spawned(g)
<1>0. /\ exec \in Exec /\ sync \in Sync /\ Main \in Futures /\ Tasks \subseteq Futures
      /\ sync.waiting \in Seq(Futures)
  BY DEF TypeOK, Sync, Futures
<1>1. CASE PollMain \/ PopTask \/ AnotherRound \/ RoundsEnd \/ Block
  <2>1. UNCHANGED <<sync, wakers>>
    BY <1>1 DEF PollMain, PopTask, AnotherRound, RoundsEnd, Block
  <2>2. exec'.current = exec.current \/ exec'.current \in woken \cup {Main}
    <3>1. CASE PopTask
      <4> DEFINE q == exec.queue
                 t == q[Len(q)]
                 r == SubSeq(q, 1, Len(q) - 1)
      <4>1. \/ exec' = [exec EXCEPT !.queue = r, !.at = "poll", !.current = t] /\ t \in woken
            \/ exec' = [exec EXCEPT !.queue = r, !.pending = Append(exec.pending, t)]
        BY <1>0, <3>1 DEF PopTask, Exec
      <4> HIDE DEF t, r
      <4> QED
        BY <1>0, <4>1 DEF Exec
    <3>2. CASE PollMain \/ AnotherRound \/ RoundsEnd \/ Block
      BY <1>0, <3>2 DEF PollMain, AnotherRound, RoundsEnd, Block, Exec
    <3> QED
      BY <1>1, <3>1, <3>2
  <2>3. \A f \in woken' : f \in woken \/ f = Main \/ \E k \in DOMAIN wakers : wakers[k] = f
    <3>1. CASE Block
      <4>1. PICK K \in SUBSET DOMAIN wakers : woken' = woken \cup {wakers[k] : k \in K}
        BY <3>1 DEF Block
      <4> QED
        BY <4>1
    <3>2. CASE PollMain \/ PopTask \/ AnotherRound \/ RoundsEnd
      <4>1. woken' \subseteq woken \cup {Main}
        BY <3>2 DEF PollMain, PopTask, AnotherRound, RoundsEnd
      <4> QED
        BY <4>1
    <3> QED
      BY <1>1, <3>1, <3>2
  <2> QED
    BY <2>1, <2>2, <2>3 DEF Touched
<1>2. CASE Join \/ PollHandles
  <2>1. UNCHANGED <<sync, wakers, woken>>
    BY <1>2 DEF Join, PollHandles, Handles
  <2>2. exec'.current = exec.current
    BY <1>0, <1>2 DEF Join, PollHandles, Handles, Yield, Exec
  <2> QED
    BY <2>1, <2>2 DEF Touched
<1>3. ASSUME NEW h \in Futures, NEW t \in Tasks, Spawn(h, t) PROVE Touched(g) \/ Spawned(g)
  BY <1>3 DEF Spawn, Touched, Spawned
<1>4. ASSUME NEW f \in Futures, Waiting(f) PROVE Touched(g)
  <2>1. UNCHANGED <<sync, woken>> /\ exec.current = f
    BY <1>4, WaitingFuture DEF Waiting, WaitFor, Reread, WaitAgain, Polled
  <2>2. exec'.current = exec.current
    BY <1>4, YieldCurrent DEF Waiting, WaitFor, Reread, WaitAgain, Receives, Registers
  <2>3. \A k \in DOMAIN wakers' : wakers'[k] = f \/ \E x \in DOMAIN wakers : wakers[x] = wakers'[k]
    <3>1. \/ UNCHANGED wakers
          \/ \E x : wakers' = With(wakers, x, f)
          \/ \E x : wakers' = Without(wakers, x)
      BY <1>4, WaitingSlabs DEF Registers
    <3>2. CASE UNCHANGED wakers
      BY <3>2
    <3>3. ASSUME NEW x, wakers' = With(wakers, x, f)
          PROVE  \A k \in DOMAIN wakers' :
                    wakers'[k] = f \/ \E y \in DOMAIN wakers : wakers[y] = wakers'[k]
      BY <3>3 DEF With
    <3>4. ASSUME NEW x, wakers' = Without(wakers, x)
          PROVE  \A k \in DOMAIN wakers' :
                    wakers'[k] = f \/ \E y \in DOMAIN wakers : wakers[y] = wakers'[k]
      BY <3>4 DEF Without
    <3> QED
      BY <3>1, <3>2, <3>3, <3>4
  <2> QED
    BY <2>1, <2>2, <2>3 DEF Touched
<1>5. ASSUME NEW f \in Futures, Finish(f) \/ Lock(f) \/ Arrive(f) PROVE Touched(g)
  <2>1. UNCHANGED <<sync, woken, wakers>>
    BY <1>5 DEF Finish, Lock, Arrive
  <2>2. exec'.current = exec.current
    BY <1>0, <1>5 DEF Finish, Lock, Arrive, Exec
  <2> QED
    BY <2>1, <2>2 DEF Touched
<1>6. ASSUME NEW f \in Futures, Acquire(f) \/ Notified(f) PROVE Touched(g)
  <2>1. UNCHANGED wakers /\ exec.current = f
    BY <1>6 DEF Acquire, Notified, Polled
  <2>2. exec'.current = exec.current
    BY <1>6, YieldCurrent DEF Acquire, Notified
  <2>3. woken' \subseteq woken \cup sync.queue
    BY <1>6 DEF Acquire, Notified
  <2>4. sync'.queue \subseteq sync.queue \cup {f}
    BY <1>0, <1>6 DEF Acquire, Notified, Sync
  <2>5. InSeq(sync'.waiting) \subseteq InSeq(sync.waiting) \cup {f}
    <3>1. sync'.waiting = sync.waiting \/ sync'.waiting = Append(sync.waiting, f)
      BY <1>0, <1>6 DEF Acquire, Notified, Sync
    <3> QED
      BY ZenonT(60), <1>0, <3>1, InAppend
  <2> QED
    BY <2>1, <2>2, <2>3, <2>4, <2>5 DEF Touched
<1>7. ASSUME NEW f \in Futures, Unlock(f) PROVE Touched(g)
  <2>1. UNCHANGED <<wakers, exec>>
    BY <1>7 DEF Unlock
  <2>2. woken' \subseteq woken \cup sync.queue \cup InSeq(sync.waiting)
    <3>1. \E W \in {{}, NotifyOne(sync).woken} :
             woken' = woken \cup W \cup sync.queue \/ woken' = woken
      BY <1>7 DEF Unlock
    <3>2. NotifyOne(sync).woken \subseteq InSeq(sync.waiting)
      BY <1>0, NotifyType
    <3> QED
      BY <3>1, <3>2
  <2>3. sync'.queue \subseteq sync.queue /\ InSeq(sync'.waiting) \subseteq InSeq(sync.waiting)
    <3>1. CASE UNCHANGED sync
      BY <3>1
    <3>2. CASE future[f].holds = "write"
      <4>1. PICK s \in {sync, NotifyOne(sync).sync} :
                sync' = [s EXCEPT !.permits = s.permits + 1, !.queue = {}]
        BY <1>7, <3>2 DEF Unlock
      <4>2. s \in Sync /\ InSeq(s.waiting) \subseteq InSeq(sync.waiting)
        BY <1>0, <4>1, NotifyType
      <4>3. sync'.queue = {} /\ sync'.waiting = s.waiting
        BY <4>1, <4>2 DEF Sync
      <4> QED
        BY <4>2, <4>3
    <3> QED
      BY <1>7, <3>1, <3>2 DEF Unlock
  <2> QED
    BY <2>1, <2>2, <2>3 DEF Touched
<1> QED
  BY <1>1, <1>2, <1>3, <1>4, <1>5, <1>6, <1>7 DEF Next, Run, Waiting

\* block_until moves the tasks between its lists, and an operation adds no more than
\* the task that is polled and one that is spawned.
LEMMA PlaceKnown ==
    ASSUME TypeOK, Next, NEW g, g \in Place'
    PROVE  g \in Place \/ g = exec.current \/ Spawned(g)
<1>0. /\ exec \in Exec /\ tasks \in Seq(Tasks) /\ Main \in Futures
      /\ exec.queue \in Seq(Tasks) /\ exec.pending \in Seq(Tasks) /\ InSeq(<<>>) = {}
  BY InEmpty DEF TypeOK, Exec, Futures
<1>1. CASE PollMain \/ Block \/ Join
  <2>1. exec'.queue = exec.queue /\ exec'.pending = exec.pending /\ tasks' = tasks
    BY <1>0, <1>1 DEF PollMain, Block, Join, Exec
  <2> QED
    BY <2>1 DEF Place
<1>2. CASE PopTask
  <2> DEFINE q == exec.queue
             t == q[Len(q)]
             r == SubSeq(q, 1, Len(q) - 1)
  <2>1. Len(q) > 0 /\ tasks' = tasks
    BY <1>2 DEF PopTask
  <2>2. r \in Seq(Tasks) /\ t \in Tasks /\ InSeq(exec.queue) = InSeq(r) \cup {t}
    BY <1>0, <2>1, InFront
  <2>3. \/ exec' = [exec EXCEPT !.queue = r, !.at = "poll", !.current = t]
        \/ exec' = [exec EXCEPT !.queue = r, !.pending = Append(exec.pending, t)]
    BY <1>0, <1>2 DEF PopTask, Exec
  <2>4. InSeq(Append(exec.pending, t)) = InSeq(exec.pending) \cup {t}
    BY <1>0, <2>2, InAppend
  <2> HIDE DEF t, r
  <2>5. exec'.queue = r /\ exec'.pending \in {exec.pending, Append(exec.pending, t)}
    BY <1>0, <2>3 DEF Exec
  <2> QED
    BY <2>1, <2>2, <2>4, <2>5 DEF Place
<1>3. CASE AnotherRound
  <2>1. exec'.queue = exec.pending /\ exec'.pending = <<>> /\ tasks' = tasks
    BY <1>0, <1>3 DEF AnotherRound, Exec
  <2> QED
    BY <1>0, <2>1 DEF Place
<1>4. CASE RoundsEnd
  <2>1. \E a \in {"start", "block"} :
            exec' = [exec EXCEPT !.at = a, !.pending = <<>>, !.ended = {}]
    BY <1>4 DEF RoundsEnd
  <2>2. exec'.queue = exec.queue /\ exec'.pending = <<>> /\ tasks' = tasks \o exec.pending
    BY <1>0, <1>4, <2>1 DEF RoundsEnd, Exec
  <2>3. InSeq(tasks') = InSeq(tasks) \cup InSeq(exec.pending)
    BY <1>0, <2>2, InConcat
  <2> QED
    BY <1>0, <2>2, <2>3 DEF Place
<1>5. ASSUME NEW h \in Futures, NEW t \in Tasks, Spawn(h, t)
      PROVE  g \in Place \/ Spawned(g)
  <2>1. UNCHANGED exec /\ InSeq(tasks') = InSeq(tasks) \cup {t}
    BY <1>0, <1>5, InAppend DEF Spawn
  <2> QED
    BY <1>5, <2>1 DEF Place, Spawned
<1>6. ASSUME NEW f \in Futures, Yield(f), exec.current = f
      PROVE  g \in Place \/ g = exec.current
  <2>1. CASE f = Main
    <3>1. exec'.queue = tasks /\ exec'.pending = exec.pending /\ tasks' = <<>>
      BY <1>0, <1>6, <2>1 DEF Yield, Exec
    <3> QED
      BY <1>0, <3>1 DEF Place
  <2>2. CASE f # Main
    <3>1. /\ exec'.queue = exec.queue /\ exec'.pending = Append(exec.pending, f) /\ tasks' = tasks
          /\ f \in Tasks
      BY <1>0, <1>6, <2>2 DEF Yield, Exec, Futures
    <3>2. InSeq(exec'.pending) = InSeq(exec.pending) \cup {f}
      BY <1>0, <3>1, InAppend
    <3> QED
      BY <1>6, <3>1, <3>2 DEF Place
  <2> QED
    BY <2>1, <2>2
<1>7. CASE PollHandles
  <2>1. CASE Yield(Main)
    BY <1>0, <1>6, <1>7, <2>1 DEF PollHandles, Handles, Polled
  <2>2. CASE exec' = [exec EXCEPT !.at = "end"] /\ UNCHANGED tasks
    BY <1>0, <2>2 DEF Place, Exec
  <2> QED
    BY <1>7, <2>1, <2>2 DEF PollHandles, Handles
<1>8. ASSUME NEW f \in Futures, Finish(f) PROVE g \in Place
  <2>1. exec'.queue = exec.queue /\ exec'.pending = exec.pending /\ tasks' = tasks
    BY <1>0, <1>8 DEF Finish, Exec
  <2> QED
    BY <2>1 DEF Place
<1>9. ASSUME NEW f \in Futures,
             Waiting(f) \/ Lock(f) \/ Acquire(f) \/ Notified(f) \/ Unlock(f) \/ Arrive(f)
      PROVE  g \in Place \/ g = exec.current
  <2>1. GoesOn \/ (Polled(f) /\ Yield(f))
    BY <1>9 DEF Waiting, WaitFor, Begins, Reread, WaitAgain, Receives, Registers, Lock, Acquire,
                Notified, Unlock, Arrive, GoesOn
  <2>2. CASE GoesOn
    BY <2>2 DEF GoesOn, Place
  <2> QED
    BY <1>6, <2>1, <2>2 DEF Polled
<1> QED
  BY <1>1, <1>2, <1>3, <1>4, <1>5, <1>7, <1>8, <1>9 DEF Next, Run, Waiting

\* The main future has a handle of what it spawned, and of no other task.
LEMMA HandlesKept ==
    ASSUME TypeOK, Next, NEW g, g \in join'.handles
    PROVE  g \in join.handles \/ (g \in Tasks /\ Spawn(Main, g))
<1>0. join \in Joins
  BY DEF TypeOK, Joins
<1>1. ASSUME NEW h \in Futures, NEW t \in Tasks, Spawn(h, t)
      PROVE  g \in join.handles \/ (g \in Tasks /\ Spawn(Main, g))
  BY <1>0, <1>1 DEF Spawn, Joins
<1>2. CASE RoundsEnd
  <2>1. \E J \in SUBSET join.left : join' = [join EXCEPT !.poll = join.poll \cup J]
    BY <1>2 DEF RoundsEnd
  <2> QED
    BY <1>0, <2>1 DEF Joins
<1>3. CASE Join \/ PollHandles
  BY <1>0, <1>3 DEF Join, PollHandles, Handles, Joins
<1>4. CASE UNCHANGED join
  BY <1>4
<1> QED
  BY <1>1, <1>2, <1>3, <1>4
     DEF Next, Run, PollMain, PopTask, AnotherRound, Block, Finish, WaitFor, Reread,
         WaitAgain, Lock, Acquire, Notified, Unlock, Arrive

LEMMA BornStep ==
    ASSUME TypeOK, KeyInv, BornInv, Next
    PROVE  BornInv'
<1>1. SUFFICES ASSUME NEW g \in Futures, Known(g)' PROVE future'[g].at # "unborn"
  BY DEF BornInv
<1>2. CASE Known(g)
  BY <1>2, LifeStep DEF BornInv
<1>3. CASE Spawned(g)
  BY <1>3 DEF Spawned, Spawn, Born, TypeOK, Future, Futures
<1>4. Known(g) \/ Spawned(g)
  <2>1. CASE Touched(g)'
    BY <2>1, TouchedStep DEF Known
  <2>2. CASE g \in Place'
    BY <2>2, PlaceKnown DEF Known, Touched
  <2>3. CASE g \in join'.handles
    BY <2>3, HandlesKept DEF Known, Spawned, Futures
  <2> QED
    BY <1>1, <2>1, <2>2, <2>3 DEF Known
<1> QED
  BY <1>1, <1>2, <1>3, <1>4

-----------------------------------------------------------------------------
(* Where the tasks are: each step *)

\* A future that is polled goes on.
LEMMA PlaceGoesOn ==
    ASSUME TypeOK, PlaceInv, UNCHANGED <<exec, tasks>>,
           \A t \in Tasks : Live(t)' => Live(t)
    PROVE  PlaceInv'
  BY DEF PlaceInv, Place, Polled

\* It returns Pending, and is kept.
LEMMA PlaceYields ==
    ASSUME TypeOK, PlaceInv, NEW f \in Futures, Polled(f), Yield(f),
           \A t \in Tasks : Live(t)' => Live(t)
    PROVE  PlaceInv'
<1>0. /\ exec \in Exec /\ exec.at = "poll" /\ exec.current = f
      /\ exec.queue \in Seq(Tasks) /\ exec.pending \in Seq(Tasks)
  BY DEF TypeOK, Exec, Polled
<1>1. CASE f = Main
  <2>1. /\ exec'.at = "tasks" /\ exec'.queue = tasks /\ tasks' = <<>>
        /\ exec'.pending = exec.pending
    BY <1>0, <1>1 DEF Yield, Exec
  <2>2. exec.queue = <<>> /\ exec.pending = <<>>
    BY <1>0, <1>1 DEF PlaceInv, Polled
  <2>3. InSeq(exec.queue) = {} /\ InSeq(exec.pending) = {}
    BY <2>2, InEmpty
  <2>4. Place \subseteq Place'
    BY <2>1, <2>3 DEF Place
  <2>5. \A t \in Tasks : ~ Polled(t)
    BY <1>0, <1>1, TasksAssumption DEF Polled, Main
  <2>6. \A t \in Tasks : Live(t) => t \in Place
    BY <2>5 DEF PlaceInv
  <2>7. \A t \in Tasks : Live(t)' => t \in Place'
    BY <2>4, <2>6
  <2> QED
    BY <2>1, <2>7 DEF PlaceInv, Polled
<1>2. CASE f # Main
  <2>0. f \in Tasks
    BY <1>0, <1>2 DEF Futures, PlaceInv
  <2>1. /\ exec'.at = "tasks" /\ exec'.queue = exec.queue /\ tasks' = tasks
        /\ exec'.pending = Append(exec.pending, f)
    BY <1>0, <1>2 DEF Yield, Exec
  <2>2. InSeq(exec'.pending) = InSeq(exec.pending) \cup {f}
    BY <1>0, <2>0, <2>1, InAppend
  <2>3. Place \cup {f} \subseteq Place'
    BY <2>1, <2>2 DEF Place
  <2>4. \A t \in Tasks : Live(t) => t \in Place \cup {f}
    BY <1>0 DEF PlaceInv, Polled
  <2>5. \A t \in Tasks : Live(t)' => t \in Place'
    BY <2>3, <2>4
  <2> QED
    BY <2>0, <2>1, <2>5 DEF PlaceInv, Polled
<1> QED
  BY <1>1, <1>2

\* block_until moves the tasks.
LEMMA PlaceMoves ==
    ASSUME TypeOK, PlaceInv, PollMain \/ PopTask \/ AnotherRound \/ RoundsEnd \/ Block
    PROVE  PlaceInv'
<1>0. /\ exec \in Exec /\ tasks \in Seq(Tasks) /\ future' = future
      /\ exec.queue \in Seq(Tasks) /\ exec.pending \in Seq(Tasks)
      /\ \A t \in Tasks : t # Main
      /\ \A t \in Tasks : Live(t)' => Live(t)
  BY TasksAssumption
     DEF TypeOK, Exec, PollMain, PopTask, AnotherRound, RoundsEnd, Block, Main, Live
<1>1. CASE PollMain
  <2>1. /\ exec.at = "start" /\ exec'.at = "poll" /\ exec'.current = Main
        /\ exec'.queue = exec.queue /\ exec'.pending = exec.pending /\ tasks' = tasks
    BY <1>0, <1>1 DEF PollMain, Exec
  <2> QED
    BY <1>0, <2>1 DEF PlaceInv, Place, Polled
<1>2. CASE PopTask
  <2> DEFINE q == exec.queue
             t == q[Len(q)]
             r == SubSeq(q, 1, Len(q) - 1)
  <2>1. Len(q) > 0 /\ exec.at = "tasks" /\ tasks' = tasks
    BY <1>2 DEF PopTask
  <2>2. r \in Seq(Tasks) /\ t \in Tasks /\ InSeq(exec.queue) = InSeq(r) \cup {t}
    BY <1>0, <2>1, InFront
  <2>3. \/ exec' = [exec EXCEPT !.queue = r, !.at = "poll", !.current = t]
        \/ exec' = [exec EXCEPT !.queue = r, !.pending = Append(exec.pending, t)]
    BY <1>0, <1>2 DEF PopTask, Exec
  <2>4. InSeq(Append(exec.pending, t)) = InSeq(exec.pending) \cup {t}
    BY <1>0, <2>2, InAppend
  <2>5. \A x \in Tasks : Live(x) => x \in Place
    BY <2>1 DEF PlaceInv, Polled
  <2> HIDE DEF t, r
  <2>6. CASE exec' = [exec EXCEPT !.queue = r, !.at = "poll", !.current = t]
    <3>1. /\ exec'.at = "poll" /\ exec'.current = t /\ exec'.queue = r
          /\ exec'.pending = exec.pending
      BY <1>0, <2>6 DEF Exec
    <3>2. \A x \in Place : x \in Place' \/ x = t
      BY <2>1, <2>2, <3>1 DEF Place
    <3>3. t # Main
      BY <1>0, <2>2
    <3> QED
      BY <1>0, <2>1, <2>5, <3>1, <3>2, <3>3 DEF PlaceInv, Polled
  <2>7. CASE exec' = [exec EXCEPT !.queue = r, !.pending = Append(exec.pending, t)]
    <3>1. /\ exec'.at = "tasks" /\ exec'.queue = r
          /\ exec'.pending = Append(exec.pending, t)
      BY <1>0, <2>1, <2>7 DEF Exec
    <3>2. Place \subseteq Place'
      BY <2>1, <2>2, <2>4, <3>1 DEF Place
    <3> QED
      BY <1>0, <2>1, <2>5, <3>1, <3>2 DEF PlaceInv, Polled
  <2> QED
    BY <2>3, <2>6, <2>7
<1>3. CASE AnotherRound
  <2>1. /\ exec.at = "tasks" /\ exec'.at = "tasks" /\ exec'.queue = exec.pending
        /\ exec'.pending = <<>> /\ tasks' = tasks /\ exec.queue = <<>>
    BY <1>0, <1>3 DEF AnotherRound, Exec
  <2>2. Place \subseteq Place'
    BY <2>1, InEmpty DEF Place
  <2> QED
    BY <1>0, <2>1, <2>2 DEF PlaceInv, Polled
<1>4. CASE RoundsEnd
  <2>1. /\ exec.at = "tasks" /\ exec'.at \in {"start", "block"} /\ exec'.queue = exec.queue
        /\ exec'.pending = <<>> /\ exec.queue = <<>> /\ tasks' = tasks \o exec.pending
    <3>1. \E a \in {"start", "block"} :
              exec' = [exec EXCEPT !.at = a, !.pending = <<>>, !.ended = {}]
      BY <1>4 DEF RoundsEnd
    <3> QED
      BY <1>0, <1>4, <3>1 DEF RoundsEnd, Exec
  <2>2. InSeq(tasks) \cup InSeq(exec.pending) \subseteq InSeq(tasks')
    BY <1>0, <2>1, InConcat
  <2>3. Place \subseteq Place'
    BY <2>1, <2>2, InEmpty DEF Place
  <2> QED
    BY <1>0, <2>1, <2>3 DEF PlaceInv, Polled
<1>5. CASE Block
  <2>1. /\ exec.at = "block" /\ exec'.at = "start" /\ exec'.queue = exec.queue
        /\ exec'.pending = exec.pending /\ tasks' = tasks
    BY <1>0, <1>5 DEF Block, Exec
  <2> QED
    BY <1>0, <2>1 DEF PlaceInv, Place, Polled
<1> QED
  BY <1>1, <1>2, <1>3, <1>4, <1>5

LEMMA PlaceStep ==
    ASSUME TypeOK, PlaceInv, BornInv, Next
    PROVE  PlaceInv'
<1>0. exec \in Exec /\ Main \in Futures /\ Tasks \subseteq Futures /\ tasks \in Seq(Tasks)
  BY DEF TypeOK, Futures
<1>1. CASE PollMain \/ PopTask \/ AnotherRound \/ RoundsEnd \/ Block
  BY <1>1, PlaceMoves
<1>2. ASSUME NEW h \in Futures, NEW t \in Tasks, Spawn(h, t) PROVE PlaceInv'
  <2>1. /\ tasks' = Append(tasks, t) /\ UNCHANGED exec
        /\ future' = [future EXCEPT ![h].ops = @ + 1, ![t] = Born("run")]
    BY <1>2 DEF Spawn
  <2>2. future \in [Futures -> Future] /\ h \in Futures
    BY DEF TypeOK
  <2>3. ASSUME NEW x \in Tasks \ {t} PROVE future'[x].at = future[x].at
    <3>1. x \in Futures /\ future'[x] = [future EXCEPT ![h].ops = @ + 1][x]
      BY <1>0, <2>1, <2>2
    <3>2. future[h] \in Future
      BY <2>2
    <3>3. x = h => future'[x] = [future[h] EXCEPT !.ops = @ + 1]
      BY <2>2, <3>1
    <3>4. x # h => future'[x] = future[x]
      BY <2>2, <3>1
    <3> QED
      BY <3>2, <3>3, <3>4 DEF Future
  <2>4. /\ tasks' = Append(tasks, t) /\ UNCHANGED exec
        /\ \A x \in Tasks \ {t} : future'[x].at = future[x].at
    BY <2>1, <2>3
  <2>5. InSeq(tasks') = InSeq(tasks) \cup {t}
    BY <1>0, <2>4, InAppend
  <2>6. Place' = Place \cup {t}
    BY <2>4, <2>5 DEF Place
  <2> QED
    BY <2>4, <2>6 DEF PlaceInv, Polled, Live
<1>3. ASSUME ~ \E t \in Tasks : Spawned(t)
      PROVE  \A t \in Tasks : Live(t)' => Live(t)
  BY <1>0, <1>3, LifeStep DEF Live, BornInv, Known, Touched, Polled
<1>4. CASE Join
  <2>1. \A t \in Tasks : future'[t].at = future[t].at
    BY <1>0, <1>4, TasksAssumption DEF Join, TypeOK, Future, Main
  <2> QED
    BY <1>4, <2>1, PlaceGoesOn DEF Join, Live
<1>5. CASE PollHandles
  <2>1. Polled(Main) /\ UNCHANGED future
    BY <1>5 DEF PollHandles, Handles
  <2>2. \A t \in Tasks : Live(t)' => Live(t)
    BY <2>1 DEF Live
  <2>3. CASE Yield(Main)
    BY <1>0, <2>1, <2>2, <2>3, PlaceYields
  <2>4. CASE exec' = [exec EXCEPT !.at = "end"] /\ UNCHANGED tasks
    <3>1. /\ exec'.at = "end" /\ exec'.queue = exec.queue /\ exec'.pending = exec.pending
      BY <1>0, <2>4 DEF Exec
    <3>2. \A t \in Tasks : ~ Polled(t)
      BY <2>1, TasksAssumption DEF Polled, Main
    <3> QED
      BY <2>1, <2>2, <2>4, <3>1, <3>2 DEF PlaceInv, Place, Polled
  <2> QED
    BY <1>5, <2>3, <2>4 DEF PollHandles, Handles
<1>6. ASSUME NEW f \in Futures, Finish(f) PROVE PlaceInv'
  <2>1. /\ exec.at = "poll" /\ exec.current = f /\ exec'.at = "tasks" /\ exec'.queue = exec.queue
        /\ exec'.pending = exec.pending /\ tasks' = tasks /\ f # Main
        /\ future'[f].at = "done" /\ \A x \in Tasks \ {f} : future'[x].at = future[x].at
    BY <1>0, <1>6 DEF Finish, Polled, Exec, TypeOK, Future
  <2> QED
    BY <2>1 DEF PlaceInv, Place, Polled, Live
<1>7. ASSUME NEW f \in Futures,
             Waiting(f) \/ Lock(f) \/ Acquire(f) \/ Notified(f) \/ Unlock(f) \/ Arrive(f)
      PROVE  PlaceInv'
  <2>1. GoesOn \/ (Polled(f) /\ Yield(f))
    BY <1>7 DEF Waiting, WaitFor, Begins, Reread, WaitAgain, Receives, Registers, Lock, Acquire,
                Notified, Unlock, Arrive, GoesOn
  <2>2. \A t \in Tasks : Live(t)' => Live(t)
    <3>1. CASE \E t \in Tasks : Spawned(t)
      <4>1. PICK h \in Futures, t \in Tasks : Spawn(h, t)
        BY <3>1 DEF Spawned
      <4>2. woken' = woken \cup {t} /\ UNCHANGED exec /\ tasks' = Append(tasks, t)
        BY <4>1 DEF Spawn
      <4>3. tasks' # tasks
        BY <1>0, <4>2, AppendProperties, LenProperties
      <4>4. ~ Yield(f)
        BY SMTT(40), <4>1, <4>2 DEF Yield, Spawn, Begins, Polled, TypeOK, Exec
      <4> QED
        BY <2>1, <4>2, <4>3, <4>4 DEF GoesOn
    <3> QED
      BY <1>3, <3>1
  <2> QED
    BY <2>1, <2>2, PlaceGoesOn, PlaceYields DEF GoesOn
<1> QED
  BY <1>1, <1>2, <1>4, <1>5, <1>6, <1>7 DEF Next, Run, Waiting

-----------------------------------------------------------------------------
(* What tasks spawn is left to the next call of block_until: each step *)

\* While block_until runs tasks, the Reactor gets what they spawn, and a task is
\* taken from one of its lists or goes back to one.
LEMMA InsideStep ==
    ASSUME TypeOK, PlaceInv, Next, Inside'
    PROVE  \/ InSeq(tasks') = {}
           \/ /\ Inside
              /\ \A x \in InSeq(tasks') : x \in InSeq(tasks) \/ Spawned(x)
              /\ \A x \in Taken' : x \in Taken \/ Polled(x)
              /\ \A x : Polled(x)' => Polled(x) \/ x \in Taken
<1> DEFINE Goal == \/ InSeq(tasks') = {}
                   \/ /\ Inside
                      /\ \A x \in InSeq(tasks') : x \in InSeq(tasks) \/ Spawned(x)
                      /\ \A x \in Taken' : x \in Taken \/ Polled(x)
                      /\ \A x : Polled(x)' => Polled(x) \/ x \in Taken
<1>0. /\ exec \in Exec /\ tasks \in Seq(Tasks) /\ Main \in Futures
      /\ exec.queue \in Seq(Tasks) /\ exec.pending \in Seq(Tasks) /\ InSeq(<<>>) = {}
  BY InEmpty DEF TypeOK, Exec, Futures
<1>1. CASE PollMain \/ Block
  BY <1>0, <1>1 DEF PollMain, Block, Inside, Exec
<1>2. CASE PopTask
  <2> DEFINE q == exec.queue
             t == q[Len(q)]
             r == SubSeq(q, 1, Len(q) - 1)
  <2>1. Len(q) > 0 /\ tasks' = tasks /\ exec.at = "tasks"
    BY <1>2 DEF PopTask
  <2>2. r \in Seq(Tasks) /\ t \in Tasks /\ InSeq(exec.queue) = InSeq(r) \cup {t}
    BY <1>0, <2>1, InFront
  <2>3. \/ exec' = [exec EXCEPT !.queue = r, !.at = "poll", !.current = t]
        \/ exec' = [exec EXCEPT !.queue = r, !.pending = Append(exec.pending, t)]
    BY <1>0, <1>2 DEF PopTask, Exec
  <2>4. InSeq(Append(exec.pending, t)) = InSeq(exec.pending) \cup {t}
    BY <1>0, <2>2, InAppend
  <2> HIDE DEF t, r
  <2>5. /\ exec'.queue = r /\ exec'.pending \in {exec.pending, Append(exec.pending, t)}
        /\ exec'.at = "tasks" \/ exec'.current = t
    BY <1>0, <2>1, <2>3 DEF Exec
  <2>6. \A x \in Taken' : x \in Taken
    BY <2>2, <2>4, <2>5 DEF Taken
  <2>7. \A x : Polled(x)' => x \in Taken
    BY <2>2, <2>5 DEF Taken, Polled
  <2> QED
    BY <2>1, <2>6, <2>7 DEF Inside
<1>3. CASE AnotherRound
  <2>1. /\ exec'.queue = exec.pending /\ exec'.pending = <<>> /\ tasks' = tasks
        /\ exec.at = "tasks" /\ exec'.at = "tasks"
    BY <1>0, <1>3 DEF AnotherRound, Exec
  <2> QED
    BY <1>0, <2>1 DEF Taken, Polled, Inside
<1>4. CASE RoundsEnd
  <2>1. \E a \in {"start", "block"} :
            exec' = [exec EXCEPT !.at = a, !.pending = <<>>, !.ended = {}]
    BY <1>4 DEF RoundsEnd
  <2> QED
    BY <1>0, <2>1 DEF Inside, Exec
<1>5. ASSUME UNCHANGED exec, \A x \in InSeq(tasks') : x \in InSeq(tasks) \/ Spawned(x)
      PROVE  Goal
  BY <1>5 DEF Inside, Taken, Polled
<1>6. ASSUME NEW f \in Futures, Yield(f), Polled(f)
      PROVE  Goal
  <2>1. CASE f = Main
    BY <1>0, <2>1, <1>6 DEF Yield
  <2>2. CASE f # Main
    <3>1. /\ exec'.queue = exec.queue /\ exec'.pending = Append(exec.pending, f) /\ tasks' = tasks
          /\ f \in Tasks /\ exec'.at = "tasks"
      BY <1>0, <1>6, <2>2 DEF Yield, Exec, Futures
    <3>2. InSeq(exec'.pending) = InSeq(exec.pending) \cup {f}
      BY <1>0, <3>1, InAppend
    <3>3. \A x : ~ Polled(x)'
      BY <3>1 DEF Polled
    <3>4. Inside
      BY <1>6, <2>2 DEF Inside, Polled
    <3>5. \A x \in Taken' : x \in Taken \/ Polled(x)
      BY <1>6, <3>1, <3>2 DEF Taken
    <3> QED
      BY <3>1, <3>3, <3>4, <3>5
  <2> QED
    BY <2>1, <2>2
<1>7. CASE PollHandles
  <2>1. CASE Yield(Main)
    BY <1>0, <1>6, <1>7, <2>1 DEF PollHandles, Handles
  <2>2. CASE exec' = [exec EXCEPT !.at = "end"]
    BY <1>0, <2>2 DEF Inside, Exec
  <2> QED
    BY <1>7, <2>1, <2>2 DEF PollHandles, Handles
<1>8. ASSUME NEW h \in Futures, NEW t \in Tasks, Spawn(h, t) PROVE Goal
  <2>1. UNCHANGED exec /\ InSeq(tasks') = InSeq(tasks) \cup {t}
    BY <1>0, <1>8, InAppend DEF Spawn
  <2> QED
    BY <1>5, <1>8, <2>1 DEF Spawned
<1>9. ASSUME NEW f \in Futures, Finish(f) PROVE Goal
  <2>1. /\ exec'.queue = exec.queue /\ exec'.pending = exec.pending /\ tasks' = tasks
        /\ exec'.at = "tasks" /\ Inside
    BY <1>0, <1>9 DEF Finish, Exec, Inside, Polled
  <2> QED
    BY <2>1 DEF Taken, Polled
<1>10. ASSUME NEW f \in Futures,
             Waiting(f) \/ Lock(f) \/ Acquire(f) \/ Notified(f) \/ Unlock(f) \/ Arrive(f)
      PROVE  Goal
  <2>1. GoesOn \/ (Polled(f) /\ Yield(f))
    BY <1>10 DEF Waiting, WaitFor, Begins, Reread, WaitAgain, Receives, Registers, Lock, Acquire,
                Notified, Unlock, Arrive, GoesOn
  <2>2. CASE GoesOn
    BY <1>5, <2>2 DEF GoesOn
  <2> QED
    BY <1>6, <2>1, <2>2
<1>11. CASE Join
  BY <1>5, <1>11 DEF Join
<1> QED
  BY <1>1, <1>2, <1>3, <1>4, <1>7, <1>8, <1>9, <1>10, <1>11 DEF Next, Run, Waiting

\* Only a task that block_until takes, or the main future, is no longer woken.
LEMMA WokenKept ==
    ASSUME TypeOK, Next, NEW x \in Tasks, x \in woken, x \notin Taken
    PROVE  x \in woken'
<1>0. x # Main /\ exec.queue \in Seq(Tasks)
  BY TasksAssumption DEF Main, TypeOK, Exec
<1>1. CASE PopTask
  <2>1. exec.queue[Len(exec.queue)] \in InSeq(exec.queue)
    BY <1>0, <1>1, InFront DEF PopTask
  <2> QED
    BY <1>1, <2>1 DEF PopTask, Taken
<1>2. CASE PollMain
  BY <1>0, <1>2 DEF PollMain
<1>3. CASE woken \subseteq woken'
  BY <1>3
<1> QED
  BY <1>1, <1>2, <1>3
     DEF Next, Run, AnotherRound, RoundsEnd, Block, Join, PollHandles, Handles, Spawn,
         Finish, WaitFor, Reread, WaitAgain, Lock, Acquire, Notified, Unlock, Arrive

LEMMA FreshStep ==
    ASSUME TypeOK, PlaceInv, FreshInv, BornInv, Next
    PROVE  FreshInv'
<1>1. SUFFICES ASSUME Inside', NEW x \in InSeq(tasks')
               PROVE  Fresh(x)' /\ x \notin Taken' /\ ~ Polled(x)'
  BY DEF FreshInv
<1>2. /\ Inside
      /\ x \in InSeq(tasks) \/ Spawned(x)
      /\ x \in Taken' => x \in Taken \/ Polled(x)
      /\ Polled(x)' => Polled(x) \/ x \in Taken
  BY <1>1, InsideStep
<1>3. x \in Tasks /\ x \in Futures
  <2>1. \A y \in InSeq(tasks) : y \in Tasks
    BY ElementOfSeq DEF TypeOK, InSeq
  <2> QED
    BY <1>2, <2>1 DEF Spawned, Futures
<1>4. CASE x \in InSeq(tasks) /\ ~ Spawned(x)
  <2>1. Fresh(x) /\ x \notin Taken /\ ~ Polled(x)
    BY <1>2, <1>4 DEF FreshInv
  <2>2. future'[x] = future[x]
    BY <1>3, <1>4, <2>1, OthersStay
  <2>3. x \in woken'
    BY <1>3, <2>1, WokenKept DEF Fresh
  <2>4. x \notin join'.handles
    BY <1>4, <2>1, HandlesKept DEF Fresh, Spawned, Futures
  <2> QED
    BY <1>2, <2>1, <2>2, <2>3, <2>4 DEF Fresh, Born
<1>5. CASE Spawned(x)
  <2>1. PICK h \in Futures : Spawn(h, x)
    BY <1>5 DEF Spawned
  <2>2. ~ Known(x)
    BY <1>3, <2>1 DEF BornInv, Spawn
  <2>3. x \notin Taken /\ ~ Polled(x) /\ x \notin join.handles
    BY <2>2 DEF Known, Touched, Place, Taken, Polled
  <2>4. h # Main
    BY <1>2, <2>1 DEF Spawn, Begins, Polled, Inside
  <2>5. future'[x] = Born("run") /\ x \in woken' /\ join' = join
    <3>1. future' = [future EXCEPT ![h].ops = @ + 1, ![x] = Born("run")]
      BY <2>1 DEF Spawn
    <3> QED
      BY <1>3, <2>1, <2>4, <3>1 DEF Spawn, TypeOK
  <2> QED
    BY <1>2, <2>3, <2>5 DEF Fresh, Born
<1> QED
  BY <1>2, <1>4, <1>5

-----------------------------------------------------------------------------
(* Who sleeps is known to what it waits for: each step *)

\* Nobody takes over the key of another, and whoever queues for the lock stays queued
\* until it is woken.
LEMMA WaitsKept ==
    ASSUME TypeOK, KeyInv, Next, NEW t \in Tasks, Waits(t), ~ Polled(t), t \notin woken'
    PROVE  Waits(t)'
<1>0. t \in Futures /\ sync \in Sync /\ sync.permits \in {0, 1}
  BY DEF TypeOK, Sync, Futures
<1>1. future'[t].at = future[t].at
  BY <1>0, LifeStep DEF Waits, Spawned, Spawn
<1>2. CASE future[t].at = "acquire" /\ sync.permits = 0 /\ t \in sync.queue
  <2>1. ASSUME NEW f \in Futures, Acquire(f) PROVE sync'.permits = 0 /\ t \in sync'.queue
    BY <1>0, <1>2, <2>1 DEF Acquire, Sync
  <2>2. ASSUME NEW f \in Futures, Notified(f) PROVE sync'.permits = 0 /\ t \in sync'.queue
    BY <1>0, <1>2, <2>2 DEF Notified, Sync
  <2>3. ASSUME NEW f \in Futures, Unlock(f) PROVE UNCHANGED sync
    BY <1>2, <2>3 DEF Unlock
  <2>4. CASE UNCHANGED sync
    BY <1>1, <1>2, <2>4 DEF Waits
  <2> QED
    BY <1>1, <1>2, <2>1, <2>2, <2>3, <2>4
       DEF Next, Run, PollMain, PopTask, AnotherRound, RoundsEnd, Block, Join, PollHandles,
           Handles, Spawn, Finish, WaitFor, Reread, WaitAgain, Lock, Arrive, Waits
<1>3. CASE future[t].at \in {"wait", "reread"} /\ \E k \in DOMAIN targets : targets[k] = t
  <2>1. PICK k \in DOMAIN targets : targets[k] = t
    BY <1>3
  <2>2. CASE \E f \in Futures : Waiting(f)
    <3>1. PICK f \in Futures : Waiting(f)
      BY <2>2
    <3>2. f # t
      BY <3>1, WaitingFuture
    <3>3. CASE UNCHANGED <<targets, wakers>>
      BY <1>1, <1>3, <3>3 DEF Waits
    <3>4. ASSUME NEW x, Touches(f, x), Registers(f, x) PROVE Waits(t)'
      <4>1. /\ DOMAIN targets' = DOMAIN targets \cup {x}
            /\ \A y \in DOMAIN targets : targets'[y] = targets[y]
        BY <3>4, SlabWith DEF Registers
      <4> QED
        BY <1>1, <1>3, <2>1, <4>1 DEF Waits
    <3>5. ASSUME NEW x, Touches(f, x), targets' = Without(targets, x)
          PROVE  Waits(t)'
      <4>1. k # x
        BY <2>1, <3>2, <3>5 DEF Touches
      <4>2. k \in DOMAIN targets' /\ targets'[k] = t
        BY <2>1, <3>5, <4>1 DEF Without
      <4> QED
        BY <1>1, <1>3, <4>2 DEF Waits
    <3> QED
      BY <3>1, <3>3, <3>4, <3>5, WaitingSlabs
  <2>3. CASE ~ \E f \in Futures : Waiting(f)
    BY <1>1, <1>3, <2>3, KeysOfOthers DEF Waits
  <2> QED
    BY <2>2, <2>3
<1> QED
  BY <1>2, <1>3 DEF Waits

\* A task returns Pending only when what it waits for has its waker.
LEMMA PendingWaits ==
    ASSUME TypeOK, KeyInv, LockInv, Next, NEW t \in Tasks, Polled(t), ~ Polled(t)', Live(t)'
    PROVE  Waits(t)'
<1>0. t \in Futures /\ sync \in Sync /\ t # Main /\ future \in [Futures -> Future]
  BY TasksAssumption DEF TypeOK, Futures, Main
<1>1. ~ Polled(Main)
  BY <1>0 DEF Polled
<1>2. ASSUME NEW f \in Futures, Waiting(f) PROVE Waits(t)'
  <2>1. f = t
    BY <1>2, WaitingFuture DEF Polled
  <2>2. ~ Receives(f)
    BY <2>1 DEF Receives, GoesOn, Polled
  <2>3. PICK k : /\ Touches(f, k) /\ Registers(f, k)
                 /\ future'[f].at \in {"wait", "reread"}
    BY <1>2, <2>2, WaitingSlabs
  <2>4. targets' = With(targets, k, f)
    BY <2>3 DEF Registers
  <2>5. k \in DOMAIN targets' /\ targets'[k] = f
    BY <2>4 DEF With
  <2> QED
    BY <2>1, <2>3, <2>5 DEF Waits
<1>3. ASSUME NEW f \in Futures, Finish(f) PROVE FALSE
  BY <1>0, <1>3 DEF Finish, Polled, Live, Future
<1>4. ASSUME NEW f \in Futures, Acquire(f) PROVE Waits(t)'
  <2>1. f = t /\ ~ GoesOn
    BY <1>4 DEF Acquire, Polled, GoesOn
  <2>2. /\ future[t].at = "acquire" /\ sync.permits = 0 /\ UNCHANGED future
        /\ sync' = [sync EXCEPT !.queue = sync.queue \cup {t}]
    BY <1>4, <2>1 DEF Acquire
  <2> QED
    BY <1>0, <2>2 DEF Waits, Sync
<1>5. ASSUME NEW f \in Futures, Notified(f) PROVE FALSE
  <2>1. f = t /\ ~ GoesOn /\ future[f].at = "notified"
    BY <1>5 DEF Notified, Polled, GoesOn
  <2>2. ~ sync.notified
    BY <1>5, <2>1 DEF Notified
  <2>3. PICK g \in Futures : future[g].holds = "write"
    BY <2>2 DEF LockInv
  <2>4. g = f /\ sync.permits = 0
    BY <1>5, <2>1, <2>3 DEF LockInv, Holder
  <2>5. future[f].holds = "none"
    BY <1>5, <2>1 DEF LockInv
  <2> QED
    BY <2>3, <2>4, <2>5
<1>6. ASSUME NEW f \in Futures, Lock(f) \/ Unlock(f) \/ Arrive(f) PROVE FALSE
  BY <1>6 DEF Lock, Unlock, Arrive, Polled
<1>7. ~ (PollMain \/ PopTask \/ AnotherRound \/ RoundsEnd \/ Block)
  BY DEF PollMain, PopTask, AnotherRound, RoundsEnd, Block, Polled
<1>8. ~ \E h \in Futures, x \in Tasks : Spawn(h, x)
  BY DEF Spawn, Polled
<1> QED
  BY <1>1, <1>2, <1>3, <1>4, <1>5, <1>6, <1>7, <1>8
     DEF Next, Run, Waiting, Join, PollHandles, Handles

LEMMA SleepStep ==
    ASSUME TypeOK, KeyInv, LockInv, PlaceInv, FreshInv, BornInv, SleepInv, Next
    PROVE  SleepInv'
<1>0. Tasks \subseteq Futures /\ exec \in Exec /\ \A t \in Tasks : t # Main
  BY TasksAssumption DEF TypeOK, Futures, Main
<1>1. ASSUME NEW t \in Tasks, Live(t)', ~ Polled(t)', t \notin woken'
      PROVE  Waits(t)'
  <2>1. CASE Polled(t)
    BY <1>1, <2>1, PendingWaits
  <2>2. CASE ~ Polled(t)
    <3>1. ~ Spawned(t)
      BY <1>1 DEF Spawned, Spawn
    <3>2. Live(t)
      BY SMTT(40), <1>0, <1>1, <2>2, <3>1, LifeStep DEF Live
    <3>3. t \notin woken
      <4>1. CASE PopTask
        BY <1>0, <1>1, <4>1 DEF PopTask, Polled, Exec
      <4>2. CASE PollMain
        BY <1>0, <1>1, <4>2 DEF PollMain
      <4>3. CASE woken \subseteq woken'
        BY <1>1, <4>3
      <4> QED
        BY <4>1, <4>2, <4>3
           DEF Next, Run, AnotherRound, RoundsEnd, Block, Join, PollHandles, Handles, Spawn,
               Finish, WaitFor, Reread, WaitAgain, Lock, Acquire, Notified, Unlock, Arrive
    <3>4. Waits(t)
      BY <2>2, <3>2, <3>3 DEF SleepInv
    <3> QED
      BY <1>1, <2>2, <3>4, WaitsKept
  <2> QED
    BY <2>1, <2>2
<1>2. ASSUME exec'.at = "block", NEW t \in Tasks, Live(t)', t \in woken'
      PROVE  Fresh(t)' /\ t \in InSeq(tasks')
  <2>1. CASE RoundsEnd
    <3>1. /\ exec.at = "tasks" /\ exec.queue = <<>> /\ UNCHANGED future
          /\ tasks' = tasks \o exec.pending
      BY <2>1 DEF RoundsEnd
    <3>2. woken' \subseteq woken \cup {Main} /\ Pending \cap woken = {}
      BY <2>1 DEF RoundsEnd
    <3>3. t \in woken /\ t \notin Pending
      BY <1>0, <1>2, <3>2
    <3>4. t \notin InSeq(exec.pending)
      <4>1. DOMAIN exec.pending = 1..Len(exec.pending)
        BY <1>0, LenProperties DEF Exec
      <4> QED
        BY <3>3, <4>1 DEF Pending, InSeq
    <3>5. t \in InSeq(tasks)
      <4>1. t \in Place
        BY <1>2, <3>1 DEF PlaceInv, Polled, Live
      <4> QED
        BY <3>1, <3>4, <4>1, InEmpty DEF Place
    <3>6. Fresh(t)
      BY <3>1, <3>5 DEF FreshInv, Inside
    <3>7. t \notin join'.handles
      <4>1. ~ Spawn(Main, t)
        BY <3>1 DEF Spawn, Begins, Polled
      <4> QED
        BY <3>6, <4>1, HandlesKept DEF Fresh
    <3>8. InSeq(tasks) \subseteq InSeq(tasks')
      BY <1>0, <3>1, InConcat DEF TypeOK, Exec
    <3> QED
      BY <1>2, <3>1, <3>5, <3>6, <3>7, <3>8 DEF Fresh, Born
  <2>2. CASE \E f \in Futures : Arrive(f)
    BY <1>2, <2>2 DEF Arrive, SleepInv, Live, Fresh, Born
  <2>3. CASE ~ RoundsEnd /\ ~ \E f \in Futures : Arrive(f)
    <3>1. ASSUME NEW f \in Futures, GoesOn \/ Yield(f) \/ Finish(f), Polled(f)
          PROVE  FALSE
      BY <1>0, <1>2, <3>1 DEF GoesOn, Yield, Finish, Polled, Exec
    <3>2. CASE PollMain \/ PopTask \/ AnotherRound \/ Block
      <4>1. CASE PopTask
        BY <1>0, <1>2, <4>1 DEF PopTask, Exec
      <4> QED
        BY <1>0, <1>2, <3>2, <4>1 DEF PollMain, AnotherRound, Block, Exec
    <3>3. CASE PollHandles
      BY <1>0, <1>2, <3>1, <3>3 DEF PollHandles, Handles, Exec, Futures
    <3>4. CASE Join \/ \E h \in Futures, x \in Tasks : Spawn(h, x)
      BY <1>2, <3>4 DEF Join, Spawn, Begins, Polled
    <3>5. ASSUME NEW f \in Futures,
                 Finish(f) \/ Waiting(f) \/ Lock(f) \/ Acquire(f) \/ Notified(f) \/ Unlock(f)
          PROVE  FALSE
      <4>1. Polled(f) /\ (GoesOn \/ Yield(f) \/ Finish(f) \/ UNCHANGED exec)
        BY <3>5 DEF Finish, Waiting, WaitFor, Begins, Reread, WaitAgain, Receives, Registers,
                    Lock, Acquire, Notified, Unlock, GoesOn
      <4> QED
        BY <1>2, <3>1, <4>1 DEF Polled
    <3> QED
      BY <2>3, <3>2, <3>3, <3>4, <3>5 DEF Next, Run, Waiting
  <2> QED
    BY <2>1, <2>2, <2>3
<1> QED
  BY <1>1, <1>2 DEF SleepInv

-----------------------------------------------------------------------------
(* What complete has when a handle is polled is a task that is done: each step *)

LEMMA JoinStep ==
    ASSUME TypeOK, BornInv, JoinInv, Next
    PROVE  JoinInv'
<1>0. /\ Main \in Futures /\ Tasks \subseteq Futures /\ exec \in Exec
      /\ \A t \in Tasks : t # Main
      /\ exec.ended \subseteq Tasks /\ DOMAIN complete \subseteq Tasks /\ join.poll \subseteq Tasks
      /\ future \in [Futures -> Future] /\ join \in Joins /\ join.handles \subseteq Tasks
  BY TasksAssumption DEF TypeOK, Exec, Futures, Main, Joins
<1>1. \A t \in Tasks : future[t].at = "done" => future'[t].at = "done"
  BY <1>0, LifeStep
<1>2. CASE RoundsEnd
  <2>1. /\ DOMAIN complete' = DOMAIN complete \cup exec.ended /\ UNCHANGED future
        /\ \E J \in SUBSET exec.ended : join' = [join EXCEPT !.poll = join.poll \cup J]
    BY <1>2 DEF RoundsEnd
  <2>2. \E a \in {"start", "block"} :
            exec' = [exec EXCEPT !.at = a, !.pending = <<>>, !.ended = {}]
    BY <1>2 DEF RoundsEnd
  <2>3. exec'.ended = {} /\ exec'.at # "end"
    BY <1>0, <2>2 DEF Exec
  <2>4. /\ \E J \in SUBSET exec.ended : join'.poll = join.poll \cup J
        /\ join'.left = join.left /\ join'.handles = join.handles
    BY <1>0, <2>1 DEF Joins
  <2>5. \A t \in join'.poll \cap DOMAIN complete' : future[t].at = "done"
    BY <2>1, <2>4 DEF JoinInv
  <2>6. future[Main].at # "join" => \A t \in DOMAIN complete' : future[t].at = "done"
    BY <2>1 DEF JoinInv
  <2>7. future[Main].at = "join" => \A t \in join'.handles : Live(t) => t \in join'.left
    BY <2>4 DEF JoinInv
  <2> QED
    BY <2>1, <2>3, <2>5, <2>6, <2>7 DEF JoinInv, Live
<1>3. CASE Join
  <2>1. /\ UNCHANGED <<exec, complete>> /\ future[Main].at = "run" /\ exec.at = "poll"
        /\ join'.left = join.handles /\ join'.handles = join.handles /\ join'.poll = join.handles
    BY <1>0, <1>3 DEF Join, Polled, Joins
  <2>2. future'[Main].at = "join" /\ \A t \in Tasks : future'[t].at = future[t].at
    BY <1>0, <1>3 DEF Join, Future
  <2> QED
    BY <1>0, <2>1, <2>2 DEF JoinInv, Live
<1>4. CASE PollHandles
  <2> DEFINE left == join.left \ (join.poll \cap DOMAIN complete)
  <2>1. /\ UNCHANGED future /\ future[Main].at = "join"
        /\ join'.poll = {} /\ join'.left = left /\ join'.handles = join.handles
    BY <1>0, <1>4 DEF PollHandles, Handles, Joins
  <2>2. exec'.ended = exec.ended /\ (exec'.at = "end" => left = {})
    BY <1>0, <1>4 DEF PollHandles, Handles, Yield, Exec
  <2>3. \A t \in join.handles : Live(t) => t \in left
    BY <2>1 DEF JoinInv, Live
  <2> HIDE DEF left
  <2> QED
    BY <1>0, <2>1, <2>2, <2>3 DEF JoinInv, Live
<1>5. ASSUME NEW h \in Futures, NEW t \in Tasks, Spawn(h, t) PROVE JoinInv'
  <2>1. /\ UNCHANGED <<exec, complete>> /\ exec.at = "poll" /\ h # t
        /\ future[t].at = "unborn"
        /\ future' = [future EXCEPT ![h].ops = @ + 1, ![t] = Born("run")]
    BY <1>5 DEF Spawn, Begins, Polled
  <2>2. \A g \in Futures \ {t} : future'[g].at = future[g].at
    BY <1>0, <2>1 DEF Future
  <2>3. join'.poll = join.poll /\ join'.left = join.left
    BY <1>0, <1>5 DEF Spawn, Joins
  <2>4. future[Main].at = "join" => join'.handles = join.handles
    BY <1>5 DEF Spawn, Begins
  <2>5. t \notin join.handles
    BY <1>0, <2>1 DEF BornInv, Known
  <2> QED
    BY <1>0, <1>1, <2>1, <2>2, <2>3, <2>4, <2>5 DEF JoinInv, Live
<1>6. ASSUME NEW f \in Futures, Finish(f) PROVE JoinInv'
  <2>1. /\ UNCHANGED <<complete, join>> /\ exec'.ended = exec.ended \cup {f} /\ f \in Tasks
        /\ exec'.at = "tasks"
    BY <1>0, <1>6 DEF Finish, Exec, Futures
  <2>2. future'[f].at = "done" /\ \A g \in Futures \ {f} : future'[g] = future[g]
    BY <1>0, <1>6 DEF Finish, Future
  <2> QED
    BY <1>0, <1>1, <2>1, <2>2 DEF JoinInv, Live
<1>7. ASSUME NEW f \in Futures,
             Waiting(f) \/ Lock(f) \/ Acquire(f) \/ Notified(f) \/ Unlock(f)
      PROVE  JoinInv'
  <2>1. /\ UNCHANGED <<complete, join>> /\ Polled(f)
        /\ future[f].at \in {"run", "wait", "reread", "acquire", "notified"}
        /\ GoesOn \/ Yield(f)
    BY <1>7 DEF Waiting, WaitFor, Begins, Reread, WaitAgain, Receives, Registers,
                Lock, Acquire, Notified, Unlock, GoesOn
  <2>2. exec'.ended = exec.ended /\ exec'.at # "end"
    BY <1>0, <2>1 DEF GoesOn, Yield, Polled, Exec
  <2>3. /\ \A g \in Futures \ {f} : future'[g] = future[g]
        /\ future'[f].at \notin {"join", "unborn", "done"}
    <3>1. CASE Waiting(f)
      <4>1. future'[f].at \in {"run", "wait", "reread"}
        BY <1>0, <3>1 DEF Waiting, WaitFor, Begins, Reread, WaitAgain, Future
      <4> QED
        BY <3>1, <4>1, WaitingFuture
    <3>2. CASE Lock(f) \/ Acquire(f) \/ Notified(f) \/ Unlock(f)
      BY <1>0, <3>2 DEF Lock, Acquire, Notified, Unlock, Has, Future
    <3> QED
      BY <1>7, <3>1, <3>2
  <2>4. future'[Main].at = "join" <=> future[Main].at = "join"
    BY <1>0, <2>1, <2>3
  <2>5. \A t \in Tasks : Live(t)' <=> Live(t)
    BY <1>0, <2>1, <2>3 DEF Live
  <2> QED
    BY <1>0, <1>1, <2>1, <2>2, <2>4, <2>5 DEF JoinInv
<1>8. CASE PollMain \/ PopTask \/ AnotherRound \/ Block \/ \E f \in Futures : Arrive(f)
  <2>1. UNCHANGED <<complete, join, future>>
    BY <1>8 DEF PollMain, PopTask, AnotherRound, Block, Arrive
  <2>2. exec'.ended = exec.ended /\ (exec'.at = "end" => exec.at = "end")
    <3>1. CASE PopTask
      BY <1>0, <3>1 DEF PopTask, Exec
    <3> QED
      BY <1>0, <1>8, <3>1 DEF PollMain, AnotherRound, Block, Arrive, Exec
  <2> QED
    BY <2>1, <2>2 DEF JoinInv, Live
<1> QED
  BY <1>2, <1>3, <1>4, <1>5, <1>6, <1>7, <1>8 DEF Next, Run, Waiting

-----------------------------------------------------------------------------
(* The theorems about WasiRuntime *)

LEMMA InvInit == Init => Inv
<1> SUFFICES ASSUME Init PROVE Inv
  OBVIOUS
<1>0. /\ Main \in Futures /\ Tasks \subseteq Futures /\ \A t \in Tasks : t # Main
      /\ \A S : <<>> \in Seq(S)
      /\ InSeq(<<>>) = {}
  BY InEmpty, TasksAssumption DEF Futures, Main
<1>1. future = [f \in Futures |-> Born(IF f = Main THEN "run" ELSE "unborn")]
  BY DEF Init
<1>2. /\ future[Main].at = "run" /\ \A t \in Tasks : future[t].at = "unborn"
      /\ \A f \in Futures : future[f].holds = "none" /\ future[f].at \in {"run", "unborn"}
  BY <1>0, <1>1 DEF Born
<1>3. DOMAIN targets = {} /\ DOMAIN wakers = {} /\ targets = wakers
  BY DEF Init, Nothing
<1>4. /\ sync.kind \in {"mutex", "rwlock"} /\ sync.permits = 1 /\ sync.queue = {}
      /\ sync.notified = TRUE /\ sync.waiting = <<>> /\ sync \in Sync
  BY <1>0 DEF Init, Sync
<1>5. /\ exec.at = "start" /\ exec.current = Main /\ exec.queue = <<>> /\ exec.pending = <<>>
      /\ exec.ended = {} /\ exec \in Exec
  BY <1>0 DEF Init, Exec
<1>6. TypeOK
  <2>1. future \in [Futures -> Future]
    BY <1>1 DEF Born, Future, States
  <2>2. DOMAIN complete = {} /\ complete \in [DOMAIN complete -> BOOLEAN]
    BY DEF Init
  <2>3. woken \subseteq Futures /\ ready \subseteq Futures /\ tasks \in Seq(Tasks)
    BY <1>0 DEF Init
  <2>4. join \in Joins
    BY DEF Init, Joins
  <2>5. targets \in [DOMAIN targets -> Futures] /\ wakers \in [DOMAIN wakers -> Futures]
    BY DEF Init, Nothing
  <2> QED
    BY <1>3, <1>4, <1>5, <2>1, <2>2, <2>3, <2>4, <2>5 DEF TypeOK, Joins
<1>7. KeyInv
  BY <1>2, <1>3, FS_EmptySet DEF KeyInv
<1>8. LockInv
  BY <1>2, <1>4 DEF LockInv, Holder
<1>9. PlaceInv
  BY <1>2, <1>5 DEF PlaceInv, Live, Polled
<1>10. FreshInv /\ BornInv
  <2>1. woken = {Main} /\ tasks = <<>> /\ join.handles = {}
    BY DEF Init
  <2>2. Place = {} /\ ~ Inside
    BY <1>0, <1>5, <2>1 DEF Place, Inside
  <2> QED
    BY <1>0, <1>2, <1>3, <1>4, <1>5, <2>1, <2>2 DEF FreshInv, BornInv, Known, Touched
<1>11. SleepInv
  BY <1>2, <1>5 DEF SleepInv, Live
<1>12. JoinInv
  BY <1>2, <1>5 DEF JoinInv, Init
<1> QED
  BY <1>6, <1>7, <1>8, <1>9, <1>10, <1>11, <1>12 DEF Inv

LEMMA InvStep == Inv /\ [Next]_vars => Inv'
<1> SUFFICES ASSUME Inv, [Next]_vars PROVE Inv'
  OBVIOUS
<1>1. CASE Next
  BY <1>1, TypeStep, KeyStep, LockStep, PlaceStep, FreshStep, BornStep, SleepStep, JoinStep
     DEF Inv
<1>2. CASE UNCHANGED vars
  <2>1. TypeOK' /\ KeyInv' /\ LockInv'
    BY <1>2 DEF vars, Inv, TypeOK, KeyInv, LockInv, Holder
  <2>2. PlaceInv' /\ BornInv'
    BY <1>2 DEF vars, Inv, PlaceInv, Place, Polled, Live, BornInv, Known, Touched
  <2>3. SleepInv' /\ JoinInv'
    BY <1>2 DEF vars, Inv, SleepInv, Waits, Polled, Live, JoinInv, Fresh, Born
  <2>4. FreshInv'
    BY <1>2 DEF vars, Inv, FreshInv, Inside, Taken, Polled, Fresh, Born
  <2> QED
    BY <2>1, <2>2, <2>3, <2>4 DEF Inv
<1> QED
  BY <1>1, <1>2

\* The invariant that the others follow from: what the poller, the locks, the lists of
\* block_until and the wakers know of the futures agrees.
THEOREM Invariance == Spec => []Inv
  BY InvInit, InvStep, PTL DEF Spec

\* Every variable keeps its type.
THEOREM TypeCorrect == Spec => []TypeOK
<1>1. Inv => TypeOK
  BY DEF Inv
<1> QED
  BY <1>1, Invariance, PTL

\* The poller never returns a key that has no waker (reactor.rs:124-134, 210-215).
THEOREM KeysWake == Spec => []KeysHaveWakers
<1>1. Inv => KeysHaveWakers
  BY DEF Inv, KeyInv, KeysHaveWakers
<1> QED
  BY <1>1, Invariance, PTL

\* Two futures never hold the lock as writers (mutex.rs:20-25, rwlock.rs:35-48).
THEOREM SingleWriter == Spec => []OneWriter
<1>1. Inv => OneWriter
  BY DEF Inv, LockInv, Holder, OneWriter
<1> QED
  BY <1>1, Invariance, PTL

\* When the thread sleeps, each task that has not ended waits for something that will
\* wake it, or was spawned by another task in this round and is the only kind that is
\* woken (reactor.rs:185-215, semaphore.rs:26-55).
THEOREM SleepsSoundly == Spec => []SleepsForAReason
<1>1. ASSUME Inv, exec.at = "block", NEW t \in Tasks, Live(t)
      PROVE  \/ /\ t \notin woken
                /\ \/ future[t].at \in {"wait", "reread"} /\
                         \E k \in DOMAIN targets : targets[k] = t /\ wakers[k] = t
                   \/ future[t].at = "acquire" /\ sync.permits = 0 /\ t \in sync.queue
             \/ Fresh(t) /\ \E i \in DOMAIN tasks : tasks[i] = t
  <2>1. t \in Futures /\ ~ Polled(t)
    BY <1>1 DEF Futures, Polled
  <2>2. t \notin woken => Waits(t)
    BY <1>1, <2>1 DEF Inv, SleepInv
  <2>3. t \in woken => Fresh(t) /\ t \in InSeq(tasks)
    BY <1>1 DEF Inv, SleepInv
  <2>4. DOMAIN tasks = 1..Len(tasks)
    BY <1>1, LenProperties DEF Inv, TypeOK
  <2>5. targets = wakers
    BY <1>1 DEF Inv, KeyInv
  <2> QED
    BY <2>2, <2>3, <2>4, <2>5 DEF Waits, InSeq
<1>2. Inv => SleepsForAReason
  BY <1>1 DEF SleepsForAReason, Live
<1> QED
  BY <1>2, Invariance, PTL

\* block_on comes back from join() only when all that it joins has ended
\* (reactor.rs:250-262).
THEOREM JoinsAll == Spec => []JoinedAreDone
<1>1. Inv => JoinedAreDone
  <2> SUFFICES ASSUME Inv, exec.at = "end", NEW t \in join.handles
               PROVE  future[t].at = "done"
    BY DEF JoinedAreDone
  <2>1. t \in Futures
    BY DEF Inv, TypeOK, Futures
  <2>2. ~ Live(t)
    BY DEF Inv, JoinInv
  <2>3. future[t].at # "unborn"
    BY <2>1 DEF Inv, BornInv, Known
  <2> QED
    BY <2>2, <2>3 DEF Live
<1> QED
  BY <1>1, Invariance, PTL

-----------------------------------------------------------------------------
(* Streams: sequences of bytes, and recursion *)

\* A set of numbers with 0 and the successors of its members has every number.
LEMMA SetInduction ==
    ASSUME NEW T \in SUBSET Nat, 0 \in T, \A n \in T : n + 1 \in T
    PROVE  T = Nat
<1> SUFFICES ASSUME Nat \ T # {} PROVE FALSE
  OBVIOUS
<1>1. PICK m \in Nat \ T : \A k \in Nat \ T : ~ (<<k, m>> \in OpToRel(<, Nat))
  <2> HIDE DEF OpToRel
  <2> QED
    BY WFMin, NatLessThanWellFounded
<1>2. \A k \in Nat \ T : ~ (k < m)
  BY <1>1 DEF OpToRel
<1> QED
  BY <1>2

\* A function on 0..m extended by a value at m + 1.
Extended(h, m, last) == [i \in 0..(m + 1) |-> IF i = m + 1 THEN last ELSE h[i]]

LEMMA ExtendedIs ==
    ASSUME NEW m \in Nat, NEW h, NEW last
    PROVE  /\ Extended(h, m, last)[m + 1] = last
           /\ \A i \in 0..m : Extended(h, m, last)[i] = h[i]
<1>1. m + 1 \in 0..(m + 1) /\ \A i \in 0..m : i \in 0..(m + 1) /\ i # m + 1
  OBVIOUS
<1> QED
  BY <1>1 DEF Extended

LEMMA OnceIs ==
    ASSUME NEW v
    PROVE  Once({v}) = v
  BY DEF Once

\* What comes first in a sequence taken from it.
CutAt(S, b, r, s, R) ==
    /\ SubSeq(b, 1, Len(s)) = s
    /\ After(b, Len(s)) \in Seq(S)
    /\ Len(After(b, Len(s))) = Len(b) - Len(s)
    /\ After(b, Len(s)) \o r = R
    /\ b = s \o After(b, Len(s))

LEMMA Cut ==
    ASSUME NEW S, NEW b \in Seq(S), NEW r \in Seq(S), NEW s \in Seq(S), NEW R \in Seq(S),
           b \o r = s \o R, Len(s) <= Len(b)
    PROVE  CutAt(S, b, r, s, R)
<1> DEFINE n == Len(s)
<1>1. n \in Nat /\ Len(b) \in Nat /\ Len(R) \in Nat /\ Len(r) \in Nat
  BY LenProperties
<1>2. \A i \in 1..n : b[i] = s[i]
  <2> SUFFICES ASSUME NEW i \in 1..n PROVE b[i] = s[i]
    OBVIOUS
  <2>1. (b \o r)[i] = b[i]
    BY <1>1, ConcatProperties
  <2>2. (s \o R)[i] = s[i]
    BY <1>1, ConcatProperties
  <2> QED
    BY <2>1, <2>2
<1>3. /\ SubSeq(b, 1, n) \in Seq(S) /\ Len(SubSeq(b, 1, n)) = n
      /\ \A i \in 1..n : SubSeq(b, 1, n)[i] = b[i]
  <2>1. \A i \in 1..n : b[i] \in S
    BY <1>1, ElementOfSeq
  <2> HIDE DEF n
  <2>2. n - 1 + 1 = n /\ \A i \in 1..n : 1 + i - 1 = i
    BY <1>1
  <2>3. /\ SubSeq(b, 1, n) \in Seq(S)
        /\ Len(SubSeq(b, 1, n)) = IF 1 <= n THEN n - 1 + 1 ELSE 0
        /\ \A i \in 1..(n - 1 + 1) : SubSeq(b, 1, n)[i] = b[1 + i - 1]
    BY <1>1, <2>1, SubSeqProperties
  <2> QED
    BY <1>1, <2>2, <2>3
<1>4. SubSeq(b, 1, n) = s
  BY <1>2, <1>3, SeqEqual
<1>5. After(b, n) \in Seq(S) /\ Len(After(b, n)) = Len(b) - n
  <2>1. \A i \in (n + 1)..Len(b) : b[i] \in S
    BY <1>1, ElementOfSeq
  <2>2. n + 1 \in Int /\ Len(b) \in Int
    BY <1>1
  <2>3. /\ SubSeq(b, n + 1, Len(b)) \in Seq(S)
        /\ Len(SubSeq(b, n + 1, Len(b))) = IF n + 1 <= Len(b) THEN Len(b) - (n + 1) + 1 ELSE 0
    BY <2>1, <2>2, SubSeqProperties
  <2> QED
    BY <1>1, <2>3 DEF After
<1>6. b = s \o After(b, n)
  <2>1. 1 \in 1..(Len(b) + 1) /\ n \in (1 - 1)..Len(b) /\ Len(b) \in n..Len(b)
    BY <1>1
  <2>2. SubSeq(b, 1, n) \o SubSeq(b, n + 1, Len(b)) = SubSeq(b, 1, Len(b))
    BY <2>1, ConcatAdjacentSubSeq
  <2> QED
    BY <1>4, <2>2, SubSeqFull DEF After
<1>7. After(b, n) \o r = R
  <2> DEFINE a == After(b, n)
  <2>1. a \o r \in Seq(S)
    BY <1>5, ConcatProperties
  <2> HIDE DEF a
  <2>2. s \o (a \o r) = s \o R
    <3>1. b \o r = (s \o a) \o r
      BY <1>6 DEF a
    <3>2. a \in Seq(S)
      BY <1>5 DEF a
    <3>3. (s \o a) \o r = s \o (a \o r)
      BY SMTT(40), <3>2, ConcatAssociative
    <3> QED
      BY <3>1, <3>3
  <2>3. a \o r = R
    BY <2>1, <2>2, ConcatSimplifications
  <2> QED
    BY <2>3 DEF a
<1> QED
  BY <1>4, <1>5, <1>6, <1>7 DEF CutAt


LEMMA Lengths ==
    ASSUME NEW S, NEW a \in Seq(S), NEW b \in Seq(S)
    PROVE  /\ a \o b \in Seq(S)
           /\ Len(a \o b) = Len(a) + Len(b)
           /\ Len(a) \in Nat /\ Len(b) \in Nat
  BY ConcatProperties, LenProperties

LEMMA ByteAssociative ==
    ASSUME NEW a \in Seq(Byte), NEW b \in Seq(Byte), NEW c \in Seq(Byte)
    PROVE  (a \o b) \o c = a \o (b \o c)
  BY ConcatAssociative

-----------------------------------------------------------------------------
(* Sequences put together *)

\* The first k of some sequences, one after the other.
Joined(ss, k) == FlattenSeq([i \in 1..k |-> ss[i]])

LEMMA JoinEmpty ==
    ASSUME NEW ss
    PROVE  Joined(ss, 0) = <<>>
<1>1. [i \in 1..0 |-> ss[i]] = <<>> /\ Len(<<>>) = 0
  OBVIOUS
<1> QED
  BY <1>1 DEF Joined, FlattenSeq

\* What FlattenSeq goes through.
Flattens(f, ss, m) ==
    f = [i \in 1..m |-> IF i = 1 THEN ss[i] ELSE f[i - 1] \o ss[i]]

LEMMA FlattensTo ==
    ASSUME NEW ss, NEW n \in Nat, n # 0
    PROVE  \E f : Flattens(f, ss, n) /\ Joined(ss, n) = f[n]
<1> DEFINE T == {m \in Nat : \E h : \A i \in 1..m :
                    h[i] = IF i = 1 THEN ss[i] ELSE h[i - 1] \o ss[i]}
<1>1. 0 \in T
  <2>1. \A i \in 1..0 : FALSE
    OBVIOUS
  <2> QED
    BY <2>1
<1>2. ASSUME NEW m \in T PROVE m + 1 \in T
  <2>1. PICK h : \A i \in 1..m : h[i] = IF i = 1 THEN ss[i] ELSE h[i - 1] \o ss[i]
    OBVIOUS
  <2>2. m \in Nat
    OBVIOUS
  <2> DEFINE last == IF m + 1 = 1 THEN ss[m + 1] ELSE h[m] \o ss[m + 1]
         g == Extended(h, m, last)
  <2>3. g[m + 1] = last /\ \A i \in 0..m : g[i] = h[i]
    <3> HIDE DEF last, T
    <3> QED
      BY <2>2, ExtendedIs
  <2> HIDE DEF g
  <2>4. ASSUME NEW i \in 1..(m + 1)
        PROVE  g[i] = IF i = 1 THEN ss[i] ELSE g[i - 1] \o ss[i]
    <3>1. i \in Nat /\ i - 1 \in 0..m /\ (i # m + 1 => i \in 1..m /\ i \in 0..m)
      BY <2>2
    <3>2. g[i - 1] = h[i - 1]
      BY <2>3, <3>1
    <3>3. CASE i = m + 1
      <4>1. i - 1 = m
        BY <2>2, <3>3
      <4> QED
        BY <2>3, <3>2, <3>3, <4>1
    <3>4. CASE i # m + 1
      <4>1. g[i] = h[i]
        BY <2>3, <3>1, <3>4
      <4>2. h[i] = IF i = 1 THEN ss[i] ELSE h[i - 1] \o ss[i]
        BY <2>1, <3>1, <3>4
      <4> QED
        BY <3>2, <4>1, <4>2
    <3> QED
      BY <3>3, <3>4
  <2>5. m + 1 \in Nat
    BY <2>2
  <2> QED
    BY <2>4, <2>5
<1>3. T = Nat
  <2>1. T \in SUBSET Nat
    OBVIOUS
  <2> HIDE DEF T
  <2> QED
    BY <1>1, <1>2, <2>1, SetInduction
<1>4. PICK h : \A i \in 1..n : h[i] = IF i = 1 THEN ss[i] ELSE h[i - 1] \o ss[i]
  BY <1>3
<1> DEFINE g == [i \in 1..n |-> h[i]]
<1>5. Flattens(g, ss, n)
  <2>1. \A i \in 1..n : i # 1 => i - 1 \in 1..n
    OBVIOUS
  <2>2. \A i \in 1..n : g[i] = IF i = 1 THEN ss[i] ELSE g[i - 1] \o ss[i]
    BY <1>4, <2>1
  <2> QED
    BY <2>2 DEF Flattens
<1> DEFINE qs == [i \in 1..n |-> ss[i]]
           f == CHOOSE f : f = [i \in 1..Len(qs) |-> IF i = 1 THEN qs[i] ELSE f[i - 1] \o qs[i]]
<1>6. Len(qs) = n
  OBVIOUS
<1>7. \A e : Flattens(e, ss, n) <=>
          e = [i \in 1..Len(qs) |-> IF i = 1 THEN qs[i] ELSE e[i - 1] \o qs[i]]
  BY <1>6 DEF Flattens
<1>8. Flattens(f, ss, n)
  <2> HIDE DEF g, qs
  <2> QED
    BY <1>5, <1>7
<1>9. Joined(ss, n) = f[n]
  BY <1>6 DEF Joined, FlattenSeq
<1> HIDE DEF f
<1> QED
  BY <1>8, <1>9

LEMMA JoinedStep ==
    ASSUME NEW S, NEW k \in Nat, NEW ss, \A i \in 1..(k + 1) : ss[i] \in Seq(S)
    PROVE  /\ Joined(ss, k) \in Seq(S)
           /\ Joined(ss, k + 1) = Joined(ss, k) \o ss[k + 1]
<1>1. PICK f : Flattens(f, ss, k + 1) /\ Joined(ss, k + 1) = f[k + 1]
  BY FlattensTo
<1>2. \A i \in 1..(k + 1) : f[i] = IF i = 1 THEN ss[i] ELSE f[i - 1] \o ss[i]
  BY <1>1 DEF Flattens
<1>3. k + 1 \in 1..(k + 1) /\ 1 \in 1..(k + 1)
  OBVIOUS
<1>4. CASE k = 0
  <2>1. Joined(ss, k) = <<>>
    BY <1>4, JoinEmpty
  <2>2. f[1] = ss[1] /\ ss[1] \in Seq(S)
    BY <1>2, <1>3
  <2>3. <<>> \in Seq(S) /\ <<>> \o ss[1] = ss[1]
    BY <2>2, EmptySeq, ConcatEmptySeq
  <2>4. Joined(ss, k + 1) = ss[1] /\ k + 1 = 1
    BY <1>1, <1>4, <2>2
  <2> QED
    BY <2>1, <2>3, <2>4
<1>5. CASE k # 0
  <2>1. PICK h : Flattens(h, ss, k) /\ Joined(ss, k) = h[k]
    BY <1>5, FlattensTo
  <2>2. \A i \in 1..k : h[i] = IF i = 1 THEN ss[i] ELSE h[i - 1] \o ss[i]
    BY <2>1 DEF Flattens
  <2> DEFINE T == {m \in Nat : m + 1 <= k => f[m + 1] = h[m + 1] /\ h[m + 1] \in Seq(S)}
  <2>3. 0 \in T
    <3>1. 0 + 1 = 1 /\ (1 <= k => 1 \in 1..k)
      OBVIOUS
    <3> QED
      BY <1>2, <1>3, <2>2, <3>1
  <2>4. ASSUME NEW m \in T PROVE m + 1 \in T
    <3>1. m \in Nat
      OBVIOUS
    <3>2. ASSUME (m + 1) + 1 <= k
          PROVE  f[(m + 1) + 1] = h[(m + 1) + 1] /\ h[(m + 1) + 1] \in Seq(S)
      <4>1. m + 1 <= k
        BY <3>1, <3>2
      <4>2. f[m + 1] = h[m + 1] /\ h[m + 1] \in Seq(S)
        BY <4>1
      <4> DEFINE i == (m + 1) + 1
      <4>3. i \in 1..k /\ i \in 1..(k + 1) /\ i # 1 /\ i - 1 = m + 1
        BY <3>1, <3>2
      <4> HIDE DEF i
      <4>4. f[i] = f[m + 1] \o ss[i] /\ h[i] = h[m + 1] \o ss[i] /\ ss[i] \in Seq(S)
        BY <1>2, <2>2, <4>3
      <4>5. f[i] = h[i] /\ h[i] \in Seq(S)
        BY <4>2, <4>4, ConcatProperties
      <4> QED
        BY <4>5 DEF i
    <3> QED
      BY <3>1, <3>2
  <2>5. T = Nat
    <3>1. T \in SUBSET Nat
      OBVIOUS
    <3> HIDE DEF T
    <3> QED
      BY <2>3, <2>4, <3>1, SetInduction
  <2>6. k - 1 \in Nat /\ (k - 1) + 1 = k
    BY <1>5
  <2>7. f[k] = h[k] /\ h[k] \in Seq(S)
    <3>1. k - 1 \in T
      BY <2>5, <2>6
    <3>2. (k - 1) + 1 <= k =>
             f[(k - 1) + 1] = h[(k - 1) + 1] /\ h[(k - 1) + 1] \in Seq(S)
      BY <3>1
    <3> QED
      BY <2>6, <3>2
  <2>8. k + 1 # 1 /\ (k + 1) - 1 = k
    BY <1>5
  <2>9. f[k + 1] = f[k] \o ss[k + 1]
    BY <1>2, <1>3, <2>8
  <2> QED
    BY <1>1, <2>1, <2>7, <2>9
<1> QED
  BY <1>4, <1>5

LEMMA JoinTypes ==
    ASSUME NEW S, NEW k \in Nat, NEW ss, \A i \in 1..k : ss[i] \in Seq(S)
    PROVE  Joined(ss, k) \in Seq(S)
<1>1. CASE k = 0
  BY <1>1, JoinEmpty, EmptySeq
<1>2. CASE k # 0
  <2>1. k - 1 \in Nat /\ (k - 1) + 1 = k /\ k \in 1..k
    BY <1>2
  <2>2. Joined(ss, k - 1) \in Seq(S) /\ Joined(ss, k) = Joined(ss, k - 1) \o ss[k]
    <3>1. \A i \in 1..((k - 1) + 1) : ss[i] \in Seq(S)
      BY <2>1
    <3> HIDE <2>1
    <3>2. /\ Joined(ss, k - 1) \in Seq(S)
          /\ Joined(ss, (k - 1) + 1) = Joined(ss, k - 1) \o ss[(k - 1) + 1]
      BY <2>1, <3>1, JoinedStep
    <3> QED
      BY <2>1, <3>2
  <2>3. ss[k] \in Seq(S)
    BY <2>1
  <2> QED
    BY <2>2, <2>3, ConcatProperties
<1> QED
  BY <1>1, <1>2

\* Only the first of them matter.
LEMMA JoinSame ==
    ASSUME NEW k \in Nat, NEW ss, NEW ts, \A i \in 1..k : ss[i] = ts[i]
    PROVE  Joined(ss, k) = Joined(ts, k)
<1>1. [i \in 1..k |-> ss[i]] = [i \in 1..k |-> ts[i]]
  OBVIOUS
<1> QED
  BY <1>1 DEF Joined

-----------------------------------------------------------------------------
(* What the recursive functions go through *)

\* The scans on the way through the kinds of some values.
ScansOn(F, start, kinds, n, f) ==
    /\ f[0] = start
    /\ \A i \in 1..n : f[i] = Scanned(F, f[i - 1], kinds[i])

LEMMA ValuesGo ==
    ASSUME NEW F, NEW start, NEW kinds, Len(kinds) \in Nat
    PROVE  \E f : ScansOn(F, start, kinds, Len(kinds), f) /\ Values(F, start, kinds) = f[Len(kinds)]
<1> DEFINE T == {m \in Nat : \E h : ScansOn(F, start, kinds, m, h)}
<1>1. 0 \in T
  <2> DEFINE h == [i \in 0..0 |-> start]
  <2>1. ScansOn(F, start, kinds, 0, h)
    BY DEF ScansOn
  <2> QED
    BY <2>1
<1>2. ASSUME NEW m \in T PROVE m + 1 \in T
  <2>1. m \in Nat
    OBVIOUS
  <2>2. PICK h : ScansOn(F, start, kinds, m, h)
    OBVIOUS
  <2>3. PICK last : last = Scanned(F, h[m], kinds[(m + 1)])
    OBVIOUS
  <2>4. PICK g : g = Extended(h, m, last)
    OBVIOUS
  <2>5. g[m + 1] = last /\ \A i \in 0..m : g[i] = h[i]
    BY <2>1, <2>4, ExtendedIs
  <2>6. ASSUME NEW i \in 1..(m + 1) PROVE g[i] = Scanned(F, g[i - 1], kinds[i])
    <3>1. i - 1 \in 0..m /\ (i = m + 1 => i - 1 = m) /\ (i # m + 1 => i \in 1..m /\ i \in 0..m)
      BY <2>1
    <3>2. g[i - 1] = h[i - 1]
      BY <2>5, <3>1
    <3>3. CASE i = m + 1
      BY <2>3, <2>5, <3>1, <3>2, <3>3
    <3>4. CASE i # m + 1
      <4>1. h[i] = Scanned(F, h[i - 1], kinds[i])
        BY <2>2, <3>1, <3>4 DEF ScansOn
      <4> QED
        BY <2>5, <3>1, <3>2, <3>4, <4>1
    <3> QED
      BY <3>3, <3>4
  <2>7. g[0] = start
    <3>1. 0 \in 0..m
      BY <2>1
    <3> QED
      BY <2>2, <2>5, <3>1 DEF ScansOn
  <2>8. ScansOn(F, start, kinds, m + 1, g)
    BY <2>6, <2>7 DEF ScansOn
  <2> QED
    BY <2>1, <2>8
<1>3. T = Nat
  <2>1. T \in SUBSET Nat
    OBVIOUS
  <2> HIDE DEF T
  <2> QED
    BY <1>1, <1>2, <2>1, SetInduction
<1>4. PICK n \in Nat : n = Len(kinds)
  OBVIOUS
<1>5. PICK h : ScansOn(F, start, kinds, n, h)
  BY <1>3
<1> DEFINE Body(e, i) == IF i = 0 THEN start ELSE Once({Scanned(F, scan, kinds[i]) : scan \in {e[i - 1]}})
           g == [i \in 0..n |-> h[i]]
           f == CHOOSE e : e = [i \in 0..Len(kinds) |-> Body(e, i)]
<1>6. \A e : \A i \in 1..n : Body(e, i) = Scanned(F, e[i - 1], kinds[i])
  <2>1. \A x, i : {Scanned(F, scan, kinds[i]) : scan \in {x}} = {Scanned(F, x, kinds[i])}
    OBVIOUS
  <2>2. \A x, i : Once({Scanned(F, scan, kinds[i]) : scan \in {x}}) = Scanned(F, x, kinds[i])
    BY <2>1, OnceIs
  <2>3. ASSUME NEW e, NEW i \in 1..n PROVE Body(e, i) = Scanned(F, e[i - 1], kinds[i])
    <3>1. PICK x : x = e[i - 1]
      OBVIOUS
    <3>2. i # 0
      OBVIOUS
    <3> QED
      BY <2>2, <3>1, <3>2
  <2> QED
    BY <2>3
<1>7. \A e : Body(e, 0) = start
  OBVIOUS
<1> HIDE DEF Body
<1>8. g = [i \in 0..n |-> Body(g, i)]
  <2>1. ASSUME NEW i \in 0..n PROVE h[i] = Body(g, i)
    <3>1. CASE i = 0
      BY <1>5, <1>7, <3>1 DEF ScansOn
    <3>2. CASE i # 0
      <4>1. i \in 1..n /\ g[i - 1] = h[i - 1]
        BY <3>2
      <4> QED
        <5>1. Body(g, i) = Scanned(F, g[i - 1], kinds[i])
          BY <1>6, <4>1
        <5>2. h[i] = Scanned(F, h[i - 1], kinds[i])
          BY <1>5, <4>1 DEF ScansOn
        <5> QED
          BY <4>1, <5>1, <5>2
    <3> QED
      BY <3>1, <3>2
  <2> QED
    BY <2>1
<1>9. f = [i \in 0..n |-> Body(f, i)]
  <2> HIDE DEF g
  <2> QED
    BY <1>4, <1>8
<1>10. Values(F, start, kinds) = f[n]
  BY <1>4 DEF Values, Body
<1> HIDE DEF f
<1>11. ScansOn(F, start, kinds, n, f)
  <2>1. \A i \in 0..n : f[i] = Body(f, i)
    BY <1>9
  <2>2. 0 \in 0..n /\ \A i \in 1..n : i \in 0..n
    OBVIOUS
  <2> QED
    BY <1>6, <1>7, <2>1, <2>2 DEF ScansOn
<1> QED
  BY <1>4, <1>10, <1>11

\* The sums of the first bytes.
SumsOn(bytes, n, f) ==
    /\ f[0] = 0
    /\ \A i \in 1..n : f[i] = (f[i - 1] + bytes[i]) % 256

LEMMA SumGoes ==
    ASSUME NEW bytes, Len(bytes) \in Nat
    PROVE  \E f : SumsOn(bytes, Len(bytes), f) /\ SumOf(bytes) = f[Len(bytes)]
<1> DEFINE T == {m \in Nat : \E h : SumsOn(bytes, m, h)}
<1>1. 0 \in T
  <2> DEFINE h == [i \in 0..0 |-> 0]
  <2>1. SumsOn(bytes, 0, h)
    BY DEF SumsOn
  <2> QED
    BY <2>1
<1>2. ASSUME NEW m \in T PROVE m + 1 \in T
  <2>1. m \in Nat
    OBVIOUS
  <2>2. PICK h : SumsOn(bytes, m, h)
    OBVIOUS
  <2>3. PICK last : last = (h[m] + bytes[(m + 1)]) % 256
    OBVIOUS
  <2>4. PICK g : g = Extended(h, m, last)
    OBVIOUS
  <2>5. g[m + 1] = last /\ \A i \in 0..m : g[i] = h[i]
    BY <2>1, <2>4, ExtendedIs
  <2>6. ASSUME NEW i \in 1..(m + 1) PROVE g[i] = (g[i - 1] + bytes[i]) % 256
    <3>1. i - 1 \in 0..m /\ (i = m + 1 => i - 1 = m) /\ (i # m + 1 => i \in 1..m /\ i \in 0..m)
      BY <2>1
    <3>2. g[i - 1] = h[i - 1]
      BY <2>5, <3>1
    <3>3. CASE i = m + 1
      BY <2>3, <2>5, <3>1, <3>2, <3>3
    <3>4. CASE i # m + 1
      <4>1. h[i] = (h[i - 1] + bytes[i]) % 256
        BY <2>2, <3>1, <3>4 DEF SumsOn
      <4> QED
        BY <2>5, <3>1, <3>2, <3>4, <4>1
    <3> QED
      BY <3>3, <3>4
  <2>7. g[0] = 0
    <3>1. 0 \in 0..m
      BY <2>1
    <3> QED
      BY <2>2, <2>5, <3>1 DEF SumsOn
  <2>8. SumsOn(bytes, m + 1, g)
    BY <2>6, <2>7 DEF SumsOn
  <2> QED
    BY <2>1, <2>8
<1>3. T = Nat
  <2>1. T \in SUBSET Nat
    OBVIOUS
  <2> HIDE DEF T
  <2> QED
    BY <1>1, <1>2, <2>1, SetInduction
<1>4. PICK n \in Nat : n = Len(bytes)
  OBVIOUS
<1>5. PICK h : SumsOn(bytes, n, h)
  BY <1>3
<1> DEFINE Body(e, i) == IF i = 0 THEN 0 ELSE (e[i - 1] + bytes[i]) % 256
           g == [i \in 0..n |-> h[i]]
           f == CHOOSE e : e = [i \in 0..Len(bytes) |-> Body(e, i)]
<1>6. \A e : \A i \in 1..n : Body(e, i) = (e[i - 1] + bytes[i]) % 256
  OBVIOUS
<1>7. \A e : Body(e, 0) = 0
  OBVIOUS
<1> HIDE DEF Body
<1>8. g = [i \in 0..n |-> Body(g, i)]
  <2>1. ASSUME NEW i \in 0..n PROVE h[i] = Body(g, i)
    <3>1. CASE i = 0
      BY <1>5, <1>7, <3>1 DEF SumsOn
    <3>2. CASE i # 0
      <4>1. i \in 1..n /\ g[i - 1] = h[i - 1]
        BY <3>2
      <4> QED
        <5>1. Body(g, i) = (g[i - 1] + bytes[i]) % 256
          BY <1>6, <4>1
        <5>2. h[i] = (h[i - 1] + bytes[i]) % 256
          BY <1>5, <4>1 DEF SumsOn
        <5> QED
          BY <4>1, <5>1, <5>2
    <3> QED
      BY <3>1, <3>2
  <2> QED
    BY <2>1
<1>9. f = [i \in 0..n |-> Body(f, i)]
  <2> HIDE DEF g
  <2> QED
    BY <1>4, <1>8
<1>10. SumOf(bytes) = f[n]
  BY <1>4 DEF SumOf, Body
<1> HIDE DEF f
<1>11. SumsOn(bytes, n, f)
  <2>1. \A i \in 0..n : f[i] = Body(f, i)
    BY <1>9
  <2>2. 0 \in 0..n /\ \A i \in 1..n : i \in 0..n
    OBVIOUS
  <2> QED
    BY <1>6, <1>7, <2>1, <2>2 DEF SumsOn
<1> QED
  BY <1>4, <1>10, <1>11

\* A byte on its way through the operations of a spec.
EncodesOn(spec, position, v, n, f) ==
    /\ f[0] = v
    /\ \A i \in 1..n : f[i] = EncodeBy(spec[i], position, f[i - 1])

LEMMA EncodeGoes ==
    ASSUME NEW spec, NEW position, NEW v, Len(spec) \in Nat
    PROVE  \E f : EncodesOn(spec, position, v, Len(spec), f) /\ EncodeByte(spec, position, v) = f[Len(spec)]
<1> DEFINE T == {m \in Nat : \E h : EncodesOn(spec, position, v, m, h)}
<1>1. 0 \in T
  <2> DEFINE h == [i \in 0..0 |-> v]
  <2>1. EncodesOn(spec, position, v, 0, h)
    BY DEF EncodesOn
  <2> QED
    BY <2>1
<1>2. ASSUME NEW m \in T PROVE m + 1 \in T
  <2>1. m \in Nat
    OBVIOUS
  <2>2. PICK h : EncodesOn(spec, position, v, m, h)
    OBVIOUS
  <2>3. PICK last : last = EncodeBy(spec[(m + 1)], position, h[m])
    OBVIOUS
  <2>4. PICK g : g = Extended(h, m, last)
    OBVIOUS
  <2>5. g[m + 1] = last /\ \A i \in 0..m : g[i] = h[i]
    BY <2>1, <2>4, ExtendedIs
  <2>6. ASSUME NEW i \in 1..(m + 1) PROVE g[i] = EncodeBy(spec[i], position, g[i - 1])
    <3>1. i - 1 \in 0..m /\ (i = m + 1 => i - 1 = m) /\ (i # m + 1 => i \in 1..m /\ i \in 0..m)
      BY <2>1
    <3>2. g[i - 1] = h[i - 1]
      BY <2>5, <3>1
    <3>3. CASE i = m + 1
      BY <2>3, <2>5, <3>1, <3>2, <3>3
    <3>4. CASE i # m + 1
      <4>1. h[i] = EncodeBy(spec[i], position, h[i - 1])
        BY <2>2, <3>1, <3>4 DEF EncodesOn
      <4> QED
        BY <2>5, <3>1, <3>2, <3>4, <4>1
    <3> QED
      BY <3>3, <3>4
  <2>7. g[0] = v
    <3>1. 0 \in 0..m
      BY <2>1
    <3> QED
      BY <2>2, <2>5, <3>1 DEF EncodesOn
  <2>8. EncodesOn(spec, position, v, m + 1, g)
    BY <2>6, <2>7 DEF EncodesOn
  <2> QED
    BY <2>1, <2>8
<1>3. T = Nat
  <2>1. T \in SUBSET Nat
    OBVIOUS
  <2> HIDE DEF T
  <2> QED
    BY <1>1, <1>2, <2>1, SetInduction
<1>4. PICK n \in Nat : n = Len(spec)
  OBVIOUS
<1>5. PICK h : EncodesOn(spec, position, v, n, h)
  BY <1>3
<1> DEFINE Body(e, i) == IF i = 0 THEN v ELSE Once({EncodeBy(spec[i], position, b) : b \in {e[i - 1]}})
           g == [i \in 0..n |-> h[i]]
           f == CHOOSE e : e = [i \in 0..Len(spec) |-> Body(e, i)]
<1>6. \A e : \A i \in 1..n : Body(e, i) = EncodeBy(spec[i], position, e[i - 1])
  <2>1. \A x, i : {EncodeBy(spec[i], position, b) : b \in {x}} = {EncodeBy(spec[i], position, x)}
    OBVIOUS
  <2>2. \A x, i : Once({EncodeBy(spec[i], position, b) : b \in {x}}) = EncodeBy(spec[i], position, x)
    BY <2>1, OnceIs
  <2>3. ASSUME NEW e, NEW i \in 1..n PROVE Body(e, i) = EncodeBy(spec[i], position, e[i - 1])
    <3>1. PICK x : x = e[i - 1]
      OBVIOUS
    <3>2. i # 0
      OBVIOUS
    <3> QED
      BY <2>2, <3>1, <3>2
  <2> QED
    BY <2>3
<1>7. \A e : Body(e, 0) = v
  OBVIOUS
<1> HIDE DEF Body
<1>8. g = [i \in 0..n |-> Body(g, i)]
  <2>1. ASSUME NEW i \in 0..n PROVE h[i] = Body(g, i)
    <3>1. CASE i = 0
      BY <1>5, <1>7, <3>1 DEF EncodesOn
    <3>2. CASE i # 0
      <4>1. i \in 1..n /\ g[i - 1] = h[i - 1]
        BY <3>2
      <4> QED
        <5>1. Body(g, i) = EncodeBy(spec[i], position, g[i - 1])
          BY <1>6, <4>1
        <5>2. h[i] = EncodeBy(spec[i], position, h[i - 1])
          BY <1>5, <4>1 DEF EncodesOn
        <5> QED
          BY <4>1, <5>1, <5>2
    <3> QED
      BY <3>1, <3>2
  <2> QED
    BY <2>1
<1>9. f = [i \in 0..n |-> Body(f, i)]
  <2> HIDE DEF g
  <2> QED
    BY <1>4, <1>8
<1>10. EncodeByte(spec, position, v) = f[n]
  BY <1>4 DEF EncodeByte, Body
<1> HIDE DEF f
<1>11. EncodesOn(spec, position, v, n, f)
  <2>1. \A i \in 0..n : f[i] = Body(f, i)
    BY <1>9
  <2>2. 0 \in 0..n /\ \A i \in 1..n : i \in 0..n
    OBVIOUS
  <2> QED
    BY <1>6, <1>7, <2>1, <2>2 DEF EncodesOn
<1> QED
  BY <1>4, <1>10, <1>11

\* A byte on its way back.
DecodesOn(spec, position, v, n, f) ==
    /\ f[0] = v
    /\ \A i \in 1..n : f[i] = DecodeBy(spec[Len(spec) + 1 - i], position, f[i - 1])

LEMMA DecodeGoes ==
    ASSUME NEW spec, NEW position, NEW v, Len(spec) \in Nat
    PROVE  \E f : DecodesOn(spec, position, v, Len(spec), f) /\ DecodeByte(spec, position, v) = f[Len(spec)]
<1> DEFINE T == {m \in Nat : \E h : DecodesOn(spec, position, v, m, h)}
<1>1. 0 \in T
  <2> DEFINE h == [i \in 0..0 |-> v]
  <2>1. DecodesOn(spec, position, v, 0, h)
    BY DEF DecodesOn
  <2> QED
    BY <2>1
<1>2. ASSUME NEW m \in T PROVE m + 1 \in T
  <2>1. m \in Nat
    OBVIOUS
  <2>2. PICK h : DecodesOn(spec, position, v, m, h)
    OBVIOUS
  <2>3. PICK last : last = DecodeBy(spec[Len(spec) + 1 - (m + 1)], position, h[m])
    OBVIOUS
  <2>4. PICK g : g = Extended(h, m, last)
    OBVIOUS
  <2>5. g[m + 1] = last /\ \A i \in 0..m : g[i] = h[i]
    BY <2>1, <2>4, ExtendedIs
  <2>6. ASSUME NEW i \in 1..(m + 1) PROVE g[i] = DecodeBy(spec[Len(spec) + 1 - i], position, g[i - 1])
    <3>1. i - 1 \in 0..m /\ (i = m + 1 => i - 1 = m) /\ (i # m + 1 => i \in 1..m /\ i \in 0..m)
      BY <2>1
    <3>2. g[i - 1] = h[i - 1]
      BY <2>5, <3>1
    <3>3. CASE i = m + 1
      BY <2>3, <2>5, <3>1, <3>2, <3>3
    <3>4. CASE i # m + 1
      <4>1. h[i] = DecodeBy(spec[Len(spec) + 1 - i], position, h[i - 1])
        BY <2>2, <3>1, <3>4 DEF DecodesOn
      <4> QED
        BY <2>5, <3>1, <3>2, <3>4, <4>1
    <3> QED
      BY <3>3, <3>4
  <2>7. g[0] = v
    <3>1. 0 \in 0..m
      BY <2>1
    <3> QED
      BY <2>2, <2>5, <3>1 DEF DecodesOn
  <2>8. DecodesOn(spec, position, v, m + 1, g)
    BY <2>6, <2>7 DEF DecodesOn
  <2> QED
    BY <2>1, <2>8
<1>3. T = Nat
  <2>1. T \in SUBSET Nat
    OBVIOUS
  <2> HIDE DEF T
  <2> QED
    BY <1>1, <1>2, <2>1, SetInduction
<1>4. PICK n \in Nat : n = Len(spec)
  OBVIOUS
<1>5. PICK h : DecodesOn(spec, position, v, n, h)
  BY <1>3
<1> DEFINE Body(e, i) == IF i = 0 THEN v ELSE Once({DecodeBy(spec[Len(spec) + 1 - i], position, b) : b \in {e[i - 1]}})
           g == [i \in 0..n |-> h[i]]
           f == CHOOSE e : e = [i \in 0..Len(spec) |-> Body(e, i)]
<1>6. \A e : \A i \in 1..n : Body(e, i) = DecodeBy(spec[Len(spec) + 1 - i], position, e[i - 1])
  <2>1. \A x, i : {DecodeBy(spec[Len(spec) + 1 - i], position, b) : b \in {x}} = {DecodeBy(spec[Len(spec) + 1 - i], position, x)}
    OBVIOUS
  <2>2. \A x, i : Once({DecodeBy(spec[Len(spec) + 1 - i], position, b) : b \in {x}}) = DecodeBy(spec[Len(spec) + 1 - i], position, x)
    BY <2>1, OnceIs
  <2>3. ASSUME NEW e, NEW i \in 1..n PROVE Body(e, i) = DecodeBy(spec[Len(spec) + 1 - i], position, e[i - 1])
    <3>1. PICK x : x = e[i - 1]
      OBVIOUS
    <3>2. i # 0
      OBVIOUS
    <3> QED
      BY <2>2, <3>1, <3>2
  <2> QED
    BY <2>3
<1>7. \A e : Body(e, 0) = v
  OBVIOUS
<1> HIDE DEF Body
<1>8. g = [i \in 0..n |-> Body(g, i)]
  <2>1. ASSUME NEW i \in 0..n PROVE h[i] = Body(g, i)
    <3>1. CASE i = 0
      BY <1>5, <1>7, <3>1 DEF DecodesOn
    <3>2. CASE i # 0
      <4>1. i \in 1..n /\ g[i - 1] = h[i - 1]
        BY <3>2
      <4> QED
        <5>1. Body(g, i) = DecodeBy(spec[Len(spec) + 1 - i], position, g[i - 1])
          BY <1>6, <4>1
        <5>2. h[i] = DecodeBy(spec[Len(spec) + 1 - i], position, h[i - 1])
          BY <1>5, <4>1 DEF DecodesOn
        <5> QED
          BY <4>1, <5>1, <5>2
    <3> QED
      BY <3>1, <3>2
  <2> QED
    BY <2>1
<1>9. f = [i \in 0..n |-> Body(f, i)]
  <2> HIDE DEF g
  <2> QED
    BY <1>4, <1>8
<1>10. DecodeByte(spec, position, v) = f[n]
  BY <1>4 DEF DecodeByte, Body
<1> HIDE DEF f
<1>11. DecodesOn(spec, position, v, n, f)
  <2>1. \A i \in 0..n : f[i] = Body(f, i)
    BY <1>9
  <2>2. 0 \in 0..n /\ \A i \in 1..n : i \in 0..n
    OBVIOUS
  <2> QED
    BY <1>6, <1>7, <2>1, <2>2 DEF DecodesOn
<1> QED
  BY <1>4, <1>10, <1>11

\* What was read of a spec so far.
ReadsOn(spec, buffer, n, f) ==
    /\ f[0] = [is |-> "incomplete", spec |-> spec, code |-> 0, rest |-> <<>>]
    /\ \A i \in 1..n : f[i] = ReadBy(f[i - 1], buffer[i])

LEMMA ReadingGoes ==
    ASSUME NEW spec, NEW buffer, Len(buffer) \in Nat
    PROVE  \E f : ReadsOn(spec, buffer, Len(buffer), f) /\ Reading(spec, buffer) = f[Len(buffer)]
<1> DEFINE T == {m \in Nat : \E h : ReadsOn(spec, buffer, m, h)}
<1>1. 0 \in T
  <2> DEFINE h == [i \in 0..0 |-> [is |-> "incomplete", spec |-> spec, code |-> 0, rest |-> <<>>]]
  <2>1. ReadsOn(spec, buffer, 0, h)
    BY DEF ReadsOn
  <2> QED
    BY <2>1
<1>2. ASSUME NEW m \in T PROVE m + 1 \in T
  <2>1. m \in Nat
    OBVIOUS
  <2>2. PICK h : ReadsOn(spec, buffer, m, h)
    OBVIOUS
  <2>3. PICK last : last = ReadBy(h[m], buffer[(m + 1)])
    OBVIOUS
  <2>4. PICK g : g = Extended(h, m, last)
    OBVIOUS
  <2>5. g[m + 1] = last /\ \A i \in 0..m : g[i] = h[i]
    BY <2>1, <2>4, ExtendedIs
  <2>6. ASSUME NEW i \in 1..(m + 1) PROVE g[i] = ReadBy(g[i - 1], buffer[i])
    <3>1. i - 1 \in 0..m /\ (i = m + 1 => i - 1 = m) /\ (i # m + 1 => i \in 1..m /\ i \in 0..m)
      BY <2>1
    <3>2. g[i - 1] = h[i - 1]
      BY <2>5, <3>1
    <3>3. CASE i = m + 1
      BY <2>3, <2>5, <3>1, <3>2, <3>3
    <3>4. CASE i # m + 1
      <4>1. h[i] = ReadBy(h[i - 1], buffer[i])
        BY <2>2, <3>1, <3>4 DEF ReadsOn
      <4> QED
        BY <2>5, <3>1, <3>2, <3>4, <4>1
    <3> QED
      BY <3>3, <3>4
  <2>7. g[0] = [is |-> "incomplete", spec |-> spec, code |-> 0, rest |-> <<>>]
    <3>1. 0 \in 0..m
      BY <2>1
    <3> QED
      BY <2>2, <2>5, <3>1 DEF ReadsOn
  <2>8. ReadsOn(spec, buffer, m + 1, g)
    BY <2>6, <2>7 DEF ReadsOn
  <2> QED
    BY <2>1, <2>8
<1>3. T = Nat
  <2>1. T \in SUBSET Nat
    OBVIOUS
  <2> HIDE DEF T
  <2> QED
    BY <1>1, <1>2, <2>1, SetInduction
<1>4. PICK n \in Nat : n = Len(buffer)
  OBVIOUS
<1>5. PICK h : ReadsOn(spec, buffer, n, h)
  BY <1>3
<1> DEFINE Body(e, i) == IF i = 0 THEN [is |-> "incomplete", spec |-> spec, code |-> 0, rest |-> <<>>] ELSE Once({ReadBy(reading, buffer[i]) : reading \in {e[i - 1]}})
           g == [i \in 0..n |-> h[i]]
           f == CHOOSE e : e = [i \in 0..Len(buffer) |-> Body(e, i)]
<1>6. \A e : \A i \in 1..n : Body(e, i) = ReadBy(e[i - 1], buffer[i])
  <2>1. \A x, i : {ReadBy(reading, buffer[i]) : reading \in {x}} = {ReadBy(x, buffer[i])}
    OBVIOUS
  <2>2. \A x, i : Once({ReadBy(reading, buffer[i]) : reading \in {x}}) = ReadBy(x, buffer[i])
    BY <2>1, OnceIs
  <2>3. ASSUME NEW e, NEW i \in 1..n PROVE Body(e, i) = ReadBy(e[i - 1], buffer[i])
    <3>1. PICK x : x = e[i - 1]
      OBVIOUS
    <3>2. i # 0
      OBVIOUS
    <3> QED
      BY <2>2, <3>1, <3>2
  <2> QED
    BY <2>3
<1>7. \A e : Body(e, 0) = [is |-> "incomplete", spec |-> spec, code |-> 0, rest |-> <<>>]
  OBVIOUS
<1> HIDE DEF Body
<1>8. g = [i \in 0..n |-> Body(g, i)]
  <2>1. ASSUME NEW i \in 0..n PROVE h[i] = Body(g, i)
    <3>1. CASE i = 0
      BY <1>5, <1>7, <3>1 DEF ReadsOn
    <3>2. CASE i # 0
      <4>1. i \in 1..n /\ g[i - 1] = h[i - 1]
        BY <3>2
      <4> QED
        <5>1. Body(g, i) = ReadBy(g[i - 1], buffer[i])
          BY <1>6, <4>1
        <5>2. h[i] = ReadBy(h[i - 1], buffer[i])
          BY <1>5, <4>1 DEF ReadsOn
        <5> QED
          BY <4>1, <5>1, <5>2
    <3> QED
      BY <3>1, <3>2
  <2> QED
    BY <2>1
<1>9. f = [i \in 0..n |-> Body(f, i)]
  <2> HIDE DEF g
  <2> QED
    BY <1>4, <1>8
<1>10. Reading(spec, buffer) = f[n]
  BY <1>4 DEF Reading, Body
<1> HIDE DEF f
<1>11. ReadsOn(spec, buffer, n, f)
  <2>1. \A i \in 0..n : f[i] = Body(f, i)
    BY <1>9
  <2>2. 0 \in 0..n /\ \A i \in 1..n : i \in 0..n
    OBVIOUS
  <2> QED
    BY <1>6, <1>7, <2>1, <2>2 DEF ReadsOn
<1> QED
  BY <1>4, <1>10, <1>11

-----------------------------------------------------------------------------
(* Numbers *)

\* n as w bytes.
Number(w, n) == CASE w = 1 -> U8(n) [] w = 2 -> U16(n) [] w = 4 -> U32(n)

LEMMA FourTuple ==
    ASSUME NEW S, NEW a \in S, NEW b \in S, NEW c \in S, NEW d \in S
    PROVE  <<a, b>> \o <<c, d>> = <<a, b, c, d>>
<1> DEFINE s == <<a, b>>
           t == <<c, d>>
           u == <<a, b, c, d>>
<1>1. /\ s \in Seq(S) /\ Len(s) = 2 /\ s[1] = a /\ s[2] = b
      /\ t \in Seq(S) /\ Len(t) = 2 /\ t[1] = c /\ t[2] = d
      /\ u \in Seq(S) /\ Len(u) = 4 /\ u[1] = a /\ u[2] = b /\ u[3] = c /\ u[4] = d
  OBVIOUS
<1> HIDE DEF s, t, u
<1>2. /\ s \o t \in Seq(S) /\ Len(s \o t) = Len(s) + Len(t)
      /\ \A i \in 1..(Len(s) + Len(t)) :
            (s \o t)[i] = IF i <= Len(s) THEN s[i] ELSE t[i - Len(s)]
  BY <1>1, ConcatProperties
<1>3. Len(s \o t) = 4 /\ \A i \in 1..4 : (s \o t)[i] = IF i <= 2 THEN s[i] ELSE t[i - 2]
  BY <1>1, <1>2
<1>4. \A i \in 1..4 : (s \o t)[i] = u[i]
  <2>1. /\ (s \o t)[1] = s[1] /\ (s \o t)[2] = s[2]
        /\ (s \o t)[3] = t[1] /\ (s \o t)[4] = t[2]
    BY <1>3
  <2>2. \A i \in 1..4 : i = 1 \/ i = 2 \/ i = 3 \/ i = 4
    OBVIOUS
  <2>3. (s \o t)[1] = u[1] /\ (s \o t)[2] = u[2] /\ (s \o t)[3] = u[3] /\ (s \o t)[4] = u[4]
    BY <1>1, <2>1
  <2> QED
    BY <2>2, <2>3
<1>5. s \o t = u
  BY <1>1, <1>2, <1>3, <1>4, SeqEqual
<1> QED
  BY <1>5 DEF s, t, u

LEMMA TwoBack ==
    ASSUME NEW a \in Byte, NEW b \in Byte, NEW n, n = 256 * a + b
    PROVE  n \in Nat /\ n < 65536 /\ n \div 256 = a /\ n % 256 = b
  BY DEF Byte

LEMMA TwoBytes ==
    ASSUME NEW n \in Nat, n < 65536
    PROVE  n \div 256 \in Byte /\ n % 256 \in Byte /\ n = 256 * (n \div 256) + (n % 256)
  BY DEF Byte

LEMMA FourBytes ==
    ASSUME NEW n \in Nat, n \div 65536 < 65536
    PROVE  \E a, b, c, d \in Byte : /\ U32(n) = <<a, b, c, d>>
                                    /\ 16777216 * a + 65536 * b + 256 * c + d = n
<1>1. PICK h, l \in Nat : h = n \div 65536 /\ l = n % 65536
  OBVIOUS
<1>2. h < 65536 /\ l < 65536 /\ n = 65536 * h + l
  BY <1>1
<1>3. PICK a, b, c, d \in Byte :
        /\ a = h \div 256 /\ b = h % 256 /\ h = 256 * a + b
        /\ c = l \div 256 /\ d = l % 256 /\ l = 256 * c + d
  BY <1>2, TwoBytes
<1>4. U32(n) = <<a, b>> \o <<c, d>>
  BY <1>1, <1>3 DEF U32, U16
<1>5. <<a, b>> \o <<c, d>> = <<a, b, c, d>>
  BY FourTuple
<1>6. 16777216 * a + 65536 * b + 256 * c + d = n
  BY <1>2, <1>3 DEF Byte
<1> QED
  BY <1>4, <1>5, <1>6

LEMMA NumberIs ==
    ASSUME NEW w \in {1, 2, 4}, NEW n \in Nat, Fits(n, w)
    PROVE  /\ Number(w, n) \in Seq(Byte) /\ Len(Number(w, n)) = w
           /\ Num(Number(w, n)) = n
<1>1. CASE w = 1
  <2>1. n < 256 /\ Number(w, n) = <<n>>
    BY <1>1 DEF Fits, Number, U8
  <2>2. Len(<<n>>) = 1 /\ <<n>>[1] = n /\ n \in Byte
    BY <2>1 DEF Byte
  <2>3. <<n>> \in Seq(Byte)
    BY <2>2
  <2>4. Num(<<n>>) = n
    BY <2>2 DEF Num
  <2> QED
    BY <1>1, <2>1, <2>2, <2>3, <2>4
<1>2. CASE w = 2
  <2>1. n < 65536 /\ Number(w, n) = <<n \div 256, n % 256>>
    BY <1>2 DEF Fits, Number, U16
  <2>2. n \div 256 \in Byte /\ n % 256 \in Byte /\ 256 * (n \div 256) + (n % 256) = n
    BY <2>1 DEF Byte
  <2>3. PICK a, b \in Byte : a = n \div 256 /\ b = n % 256
    BY <2>2
  <2>4. <<a, b>> \in Seq(Byte) /\ Len(<<a, b>>) = 2 /\ Num(<<a, b>>) = 256 * a + b
    BY DEF Num
  <2>5. Number(w, n) = <<a, b>> /\ 256 * a + b = n
    BY <2>1, <2>2, <2>3
  <2> QED
    BY <1>2, <2>4, <2>5
<1>3. CASE w = 4
  <2>1. n \div 65536 < 65536 /\ Number(w, n) = U32(n)
    BY <1>3 DEF Fits, Number
  <2>2. PICK a, b, c, d \in Byte :
           /\ U32(n) = <<a, b, c, d>>
           /\ 16777216 * a + 65536 * b + 256 * c + d = n
    BY <2>1, FourBytes
  <2>3. /\ <<a, b, c, d>> \in Seq(Byte) /\ Len(<<a, b, c, d>>) = 4
        /\ Num(<<a, b, c, d>>) = 16777216 * a + 65536 * b + 256 * c + d
    BY DEF Num
  <2>4. Number(w, n) = <<a, b, c, d>> /\ Num(<<a, b, c, d>>) = n
    BY <2>1, <2>2, <2>3
  <2>5. Number(w, n) \in Seq(Byte) /\ Len(Number(w, n)) = 4 /\ Num(Number(w, n)) = n
    BY <2>3, <2>4
  <2> QED
    BY <1>3, <2>5
<1> QED
  BY <1>1, <1>2, <1>3

LEMMA NumIs ==
    ASSUME NEW w \in {1, 2, 4}, NEW s \in Seq(Byte), Len(s) = w
    PROVE  Num(s) \in Nat /\ Fits(Num(s), w) /\ Number(w, Num(s)) = s
<1>1. CASE w = 1
  <2>1. s[1] \in Byte /\ Num(s) = s[1]
    BY <1>1 DEF Num
  <2>2. s = <<s[1]>>
    BY <1>1
  <2>3. PICK n \in Byte : n = s[1]
    BY <2>1
  <2>a. Num(s) = n /\ s = <<n>>
    BY <2>1, <2>2, <2>3
  <2>4. n \in Nat /\ n < 256 /\ Num(s) = n /\ s = <<n>>
    BY <2>a DEF Byte
  <2>5. Fits(n, 1) /\ Number(1, n) = <<n>>
    BY <2>4 DEF Fits, Number, U8
  <2> QED
    BY <1>1, <2>4, <2>5
<1>2. CASE w = 2
  <2>1. s[1] \in Byte /\ s[2] \in Byte /\ Num(s) = 256 * s[1] + s[2]
    BY <1>2 DEF Num
  <2>2. s = <<s[1], s[2]>>
    BY <1>2
  <2>a. PICK a, b \in Byte : a = s[1] /\ b = s[2]
    BY <2>1
  <2>3. PICK n : n = 256 * a + b
    OBVIOUS
  <2>b. n \in Nat /\ n < 65536 /\ n \div 256 = a /\ n % 256 = b
    BY <2>3, TwoBack
  <2>4. n \in Nat /\ n < 65536 /\ n \div 256 = s[1] /\ n % 256 = s[2]
    BY <2>a, <2>b
  <2>5. U16(n) = <<s[1], s[2]>>
    BY <2>4 DEF U16
  <2>6. Fits(n, 2) /\ Number(2, n) = U16(n)
    BY <2>4 DEF Fits, Number
  <2>7. Num(s) = n
    BY <2>1, <2>3, <2>a
  <2> QED
    BY <1>2, <2>2, <2>4, <2>5, <2>6, <2>7
<1>3. CASE w = 4
  <2>1. /\ s[1] \in Byte /\ s[2] \in Byte /\ s[3] \in Byte /\ s[4] \in Byte
        /\ Num(s) = 16777216 * s[1] + 65536 * s[2] + 256 * s[3] + s[4]
    BY <1>3 DEF Num
  <2>2. s = <<s[1], s[2], s[3], s[4]>>
    BY <1>3
  <2>a. PICK a, b, c, d \in Byte : a = s[1] /\ b = s[2] /\ c = s[3] /\ d = s[4]
    BY <2>1
  <2>3. PICK h, l, n : h = 256 * a + b /\ l = 256 * c + d /\ n = 65536 * h + l
    OBVIOUS
  <2>4. /\ h \in Nat /\ h < 65536 /\ h \div 256 = a /\ h % 256 = b
        /\ l \in Nat /\ l < 65536 /\ l \div 256 = c /\ l % 256 = d
    BY <2>3, TwoBack
  <2>5. n \in Nat /\ n \div 65536 = h /\ n % 65536 = l /\ n = Num(s)
    <3>1. n = 16777216 * a + 65536 * b + 256 * c + d
      BY <2>3 DEF Byte
    <3>2. Num(s) = 16777216 * a + 65536 * b + 256 * c + d
      BY <2>1, <2>a
    <3>3. n = Num(s)
      BY <3>1, <3>2
    <3>4. h \in Nat /\ l \in Nat /\ h < 65536 /\ l < 65536 /\ n = 65536 * h + l
      BY <2>3, <2>4
    <3>5. n \in Nat /\ n \div 65536 = h /\ n % 65536 = l
      BY <3>4
    <3> QED
      BY <3>3, <3>5
  <2>6. U32(n) = <<s[1], s[2], s[3], s[4]>>
    <3>1. U32(n) = <<a, b>> \o <<c, d>>
      <4>1. U16(h) = <<a, b>> /\ U16(l) = <<c, d>>
        BY <2>4 DEF U16
      <4>2. n \div 65536 = h /\ n % 65536 = l
        BY <2>5
      <4>3. U32(n) = U16(h) \o U16(l)
        BY <4>2 DEF U32
      <4> QED
        BY <4>1, <4>3
    <3>2. <<a, b>> \o <<c, d>> = <<a, b, c, d>>
      BY FourTuple
    <3> QED
      BY <2>a, <3>1, <3>2
  <2>7. n \div 65536 < 65536
    BY <2>4, <2>5
  <2>8. Fits(n, 4) /\ Number(4, n) = U32(n)
    BY <2>5, <2>7 DEF Fits, Number
  <2>9. Number(4, n) = s
    BY <2>2, <2>6, <2>8
  <2> QED
    BY <1>3, <2>5, <2>8, <2>9
<1> QED
  BY <1>1, <1>2, <1>3

-----------------------------------------------------------------------------
(* Fields *)

Kind == {"str", "u16", "u32", "action"} \cup Arrays

\* The formats of packets with fields.
Framing == {"wire", "pest"}

LEMMA Widths ==
    ASSUME NEW F \in Framing, NEW kind \in Kind
    PROVE  /\ Width(F, kind) \in {1, 2, 4}
           /\ F = "pest" /\ kind # "action" => Width(F, kind) # 1
           /\ kind = "action" => Width(F, kind) = 1
  BY DEF Framing, Kind, Arrays, Width

\* The bytes of a value: a number, and after that of a text the text.
LEMMA BytesAre ==
    ASSUME NEW F, NEW kind, NEW v
    PROVE  Bytes(F, kind, v) =
              IF kind = "str" THEN Number(Width(F, kind), Len(v)) \o v
                              ELSE Number(Width(F, kind), v)
<1> USE DEF Number
<1> QED
  BY DEF Bytes

\* What a decoder takes for a value of a kind.
IsRead(F, kind, v) ==
    IF kind = "str" THEN v \in Seq(Byte) /\ Len(v) \in Nat /\ Fits(Len(v), Width(F, kind))
    ELSE v \in Nat /\ Fits(v, Width(F, kind)) /\ (kind = "action" => v \in {144, 160})

LEMMA ValuesAreRead ==
    ASSUME NEW F \in Framing, NEW kind \in Kind, NEW v, IsValue(F, kind, v)
    PROVE  IsRead(F, kind, v)
<1>1. CASE kind = "str"
  <2>1. v \in Seq(0..127) /\ Fits(Len(v), Width(F, kind))
    BY <1>1 DEF IsValue, Arrays
  <2>2. 0..127 \subseteq Byte
    BY DEF Byte
  <2>3. v \in Seq(Byte)
    BY <2>1, <2>2, SeqMonotonic
  <2> QED
    BY <1>1, <2>1, <2>3, LenProperties DEF IsRead
<1>2. CASE kind = "action"
  <2>1. v \in {144, 160} /\ Width(F, kind) = 1
    BY <1>2, Widths DEF IsValue, Arrays
  <2>2. v \in Nat /\ v < 256
    BY <2>1
  <2>3. Fits(v, Width(F, kind))
    BY <2>1, <2>2 DEF Fits
  <2> QED
    BY <1>2, <2>1, <2>2, <2>3 DEF IsRead
<1>3. CASE kind # "str" /\ kind # "action"
  <2>1. Fits(v, Width(F, kind))
    BY <1>3 DEF IsValue, Kind
  <2>2. v \in Nat
    BY <2>1 DEF Fits
  <2> QED
    BY <1>3, <2>1, <2>2 DEF IsRead
<1> QED
  BY <1>1, <1>2, <1>3

LEMMA BytesAreBytes ==
    ASSUME NEW F \in Framing, NEW kind \in Kind, NEW v, IsRead(F, kind, v)
    PROVE  Bytes(F, kind, v) \in Seq(Byte)
<1>1. Width(F, kind) \in {1, 2, 4}
  BY Widths
<1>2. CASE kind = "str"
  <2>1. v \in Seq(Byte) /\ Len(v) \in Nat /\ Fits(Len(v), Width(F, kind))
    BY <1>2 DEF IsRead
  <2>2. Number(Width(F, kind), Len(v)) \in Seq(Byte)
    BY <1>1, <2>1, NumberIs
  <2> QED
    BY <1>2, <2>1, <2>2, BytesAre, ConcatProperties
<1>3. CASE kind # "str"
  <2>1. v \in Nat /\ Fits(v, Width(F, kind))
    BY <1>3 DEF IsRead
  <2>2. Number(Width(F, kind), v) \in Seq(Byte)
    BY <1>1, <2>1, NumberIs
  <2> QED
    BY <1>3, <2>2, BytesAre
<1> QED
  BY <1>2, <1>3

-----------------------------------------------------------------------------
(* Taking bytes *)

\* The buffer b and what is not there yet, r, are s and what comes after it, R.
Meets(b, r, s, R) == b \o r = s \o R

\* A scan gets s from the buffer or wants more.
Gets(read, values, left, s, r, R, more) ==
    \/ \E rest \in Seq(Byte) :
          read = Scan(rest, Append(values, s), left - Len(s)) /\ rest \o r = R
    \/ read.is = "more" /\ Len(r) + more > Len(R)

LEMMA TakeThem ==
    ASSUME NEW F \in Framing, NEW values, NEW left \in Int, NEW more \in {0, 1},
           NEW b \in Seq(Byte), NEW r \in Seq(Byte), NEW s \in Seq(Byte), NEW R \in Seq(Byte),
           Meets(b, r, s, R), F = "pest" => Len(s) <= left
    PROVE  Gets(Take(F, Scan(b, values, left), Len(s), more), values, left, s, r, R, more)
<1> DEFINE scan == Scan(b, values, left)
<1>1. /\ scan.is = "ok" /\ scan.rest = b /\ scan.values = values /\ scan.left = left
      /\ [scan EXCEPT !.is = "more"].is = "more"
  BY DEF Scan
<1>2. Len(b) \in Nat /\ Len(r) \in Nat /\ Len(s) \in Nat /\ Len(R) \in Nat
  BY LenProperties
<1>3. Len(b) + Len(r) = Len(s) + Len(R)
  <2>1. Len(b \o r) = Len(b) + Len(r) /\ Len(s \o R) = Len(s) + Len(R)
    BY ConcatProperties
  <2> QED
    BY <2>1 DEF Meets
<1>4. ~ (F = "pest" /\ Len(s) > scan.left)
  BY <1>1, <1>2
<1> HIDE DEF scan
<1>5. CASE Len(b) < Len(s) + more
  <2>1. Take(F, scan, Len(s), more) = [scan EXCEPT !.is = "more"]
    BY <1>1, <1>4, <1>5 DEF Take
  <2>2. Len(r) + more > Len(R)
    BY <1>2, <1>3, <1>5
  <2> QED
    BY <1>1, <2>1, <2>2 DEF scan, Gets
<1>6. CASE ~ (Len(b) < Len(s) + more)
  <2>1. Len(s) <= Len(b)
    BY <1>2, <1>6
  <2>2. /\ SubSeq(b, 1, Len(s)) = s /\ After(b, Len(s)) \in Seq(Byte)
        /\ After(b, Len(s)) \o r = R
    <3>1. CutAt(Byte, b, r, s, R)
      BY <2>1, Cut DEF Meets
    <3> QED
      BY <3>1 DEF CutAt
  <2>3. Take(F, scan, Len(s), more) =
           Scan(After(b, Len(s)), Append(values, s), left - Len(s))
    BY <1>1, <1>4, <1>6, <2>2 DEF Take
  <2> QED
    BY <2>2, <2>3 DEF scan, Gets
<1> QED
  BY <1>5, <1>6

\* Bytes that are taken come from the buffer.
HasTaken(read, F, values, left, w, b) ==
    \/ read.is \in {"more", "bad"}
    \/ \E s, rest \in Seq(Byte) :
          /\ Len(s) = w /\ b = s \o rest /\ (F = "pest" => w <= left)
          /\ read = Scan(rest, Append(values, s), left - w)

LEMMA TakeSome ==
    ASSUME NEW F, NEW values, NEW left \in Int, NEW more \in {0, 1},
           NEW b \in Seq(Byte), NEW w \in Nat
    PROVE  HasTaken(Take(F, Scan(b, values, left), w, more), F, values, left, w, b)
<1> DEFINE scan == Scan(b, values, left)
<1>1. /\ scan.is = "ok" /\ scan.rest = b /\ scan.values = values /\ scan.left = left
      /\ [scan EXCEPT !.is = "more"].is = "more" /\ [scan EXCEPT !.is = "bad"].is = "bad"
  BY DEF Scan
<1> HIDE DEF scan
<1>2. CASE F = "pest" /\ w > left
  <2>1. Take(F, scan, w, more) = [scan EXCEPT !.is = "bad"]
    BY <1>1, <1>2 DEF Take
  <2> QED
    BY <1>1, <2>1 DEF scan, HasTaken
<1>3. CASE ~ (F = "pest" /\ w > left) /\ Len(b) < w + more
  <2>1. Take(F, scan, w, more) = [scan EXCEPT !.is = "more"]
    BY <1>1, <1>3 DEF Take
  <2> QED
    BY <1>1, <2>1 DEF scan, HasTaken
<1>4. CASE ~ (F = "pest" /\ w > left) /\ ~ (Len(b) < w + more)
  <2> DEFINE s == SubSeq(b, 1, w)
             rest == After(b, w)
  <2>1. Take(F, scan, w, more) = Scan(rest, Append(values, s), left - w)
    BY <1>1, <1>4 DEF Take
  <2>2. w <= Len(b) /\ Len(b) \in Nat
    BY <1>4, LenProperties
  <2>3. s \in Seq(Byte) /\ rest \in Seq(Byte) /\ Len(s) = w
    BY <2>2 DEF After
  <2>4. b = s \o rest
    <3>1. 1 \in 1..(Len(b) + 1) /\ w \in (1 - 1)..Len(b) /\ Len(b) \in w..Len(b)
      BY <2>2
    <3>2. SubSeq(b, 1, w) \o SubSeq(b, w + 1, Len(b)) = SubSeq(b, 1, Len(b))
      BY <3>1, ConcatAdjacentSubSeq
    <3> QED
      BY <3>2, SubSeqFull DEF After
  <2>5. F = "pest" => w <= left
    BY <1>4
  <2> HIDE DEF s, rest
  <2> QED
    BY <2>1, <2>3, <2>4, <2>5 DEF scan, HasTaken
<1> QED
  BY <1>2, <1>3, <1>4

LEMMA LastAppended ==
    ASSUME NEW V, NEW values \in Seq(V), NEW v
    PROVE  Last(Append(values, v)) = v
<1>1. values \in Seq(V \cup {v}) /\ v \in V \cup {v}
  BY SeqMonotonic
<1>2. Len(Append(values, v)) = Len(values) + 1 /\ Append(values, v)[Len(values) + 1] = v
  BY <1>1, AppendProperties
<1> QED
  BY <1>2 DEF Last

-----------------------------------------------------------------------------
(* Reading a value *)

\* How much of what follows the bytes of a value may be missing while more are wanted.
Slack(F) == IF F = "pest" THEN 1 ELSE 0

\* The value v was read from a buffer.
Reads(F, kind, v, b, values, left, rest) ==
    /\ rest \in Seq(Byte)
    /\ Value(F, Scan(b, values, left), kind) =
          Scan(rest, Append(values, v), left - Len(Bytes(F, kind, v)))

GetsValue(F, kind, v, b, values, left, r, R) ==
    \/ \E rest : Reads(F, kind, v, b, values, left, rest) /\ rest \o r = R
    \/ /\ Value(F, Scan(b, values, left), kind).is = "more"
       /\ Len(r) + Slack(F) > Len(R)

LEMMA ScanFields ==
    ASSUME NEW rest, NEW values, NEW left
    PROVE  /\ Scan(rest, values, left).is = "ok"
           /\ Scan(rest, values, left).rest = rest
           /\ Scan(rest, values, left).values = values
           /\ Scan(rest, values, left).left = left
           /\ \A w : [Scan(rest, values, left) EXCEPT !.values = w] = Scan(rest, w, left)
           /\ [Scan(rest, values, left) EXCEPT !.is = "bad"].is = "bad"
  BY DEF Scan

LEMMA ReadNumber ==
    ASSUME NEW F \in Framing, NEW kind \in Kind \ {"str"}, NEW v, IsRead(F, kind, v),
           NEW V, NEW values \in Seq(V), NEW left \in Int,
           NEW b \in Seq(Byte), NEW r \in Seq(Byte), NEW R \in Seq(Byte),
           Meets(b, r, Bytes(F, kind, v), R), F = "pest" => Len(Bytes(F, kind, v)) <= left
    PROVE  GetsValue(F, kind, v, b, values, left, r, R)
<1>1. PICK w : w = Width(F, kind)
  OBVIOUS
<1>2. PICK more : more = IF w = 1 THEN 0 ELSE Slack(F)
  OBVIOUS
<1>3. PICK s : s = Number(w, v)
  OBVIOUS
<1>4. w \in {1, 2, 4} /\ more \in {0, 1} /\ more <= Slack(F) /\ Slack(F) \in {0, 1}
  BY <1>1, <1>2, Widths DEF Slack
<1>5. v \in Nat /\ Fits(v, w) /\ (kind = "action" => v \in {144, 160})
  BY <1>1 DEF IsRead
<1>6. s \in Seq(Byte) /\ Len(s) = w /\ Num(s) = v
  <2>1. Number(w, v) \in Seq(Byte) /\ Len(Number(w, v)) = w /\ Num(Number(w, v)) = v
    <3>1. w \in {1, 2, 4}
      BY <1>4
    <3>2. v \in Nat /\ Fits(v, w)
      BY <1>5
    <3> QED
      BY <3>1, <3>2, NumberIs
  <2> QED
    BY <1>3, <2>1
<1>7. Bytes(F, kind, v) = s
  BY <1>1, <1>3, BytesAre
<1>8. PICK scan : scan = Scan(b, values, left)
  OBVIOUS
<1>9. PICK read : read = Take(F, scan, w, more)
  OBVIOUS
<1>10. Value(F, scan, kind) =
         IF read.is # "ok" THEN read
         ELSE IF kind = "action" /\ Num(Last(read.values)) \notin {144, 160}
              THEN [read EXCEPT !.is = "bad"]
         ELSE [read EXCEPT !.values = Append(values, Num(Last(read.values)))]
  <2>1. scan.values = values
    BY <1>8, ScanFields
  <2>2. read = Take(F, scan, Width(F, kind),
                    IF Width(F, kind) = 1 THEN 0 ELSE IF F = "pest" THEN 1 ELSE 0)
    BY <1>1, <1>2, <1>9 DEF Slack
  <2> QED
    BY <2>1, <2>2 DEF Value
<1>11. Gets(read, values, left, s, r, R, more)
  <2>1. Meets(b, r, s, R) /\ (F = "pest" => Len(s) <= left)
    BY <1>7
  <2>2. Gets(Take(F, Scan(b, values, left), Len(s), more), values, left, s, r, R, more)
    BY <1>4, <1>6, <2>1, TakeThem
  <2> QED
    BY <1>6, <1>8, <1>9, <2>2
<1>12. CASE read.is = "more" /\ Len(r) + more > Len(R)
  <2>1. Value(F, scan, kind).is = "more"
    BY <1>10, <1>12
  <2>2. Len(r) \in Nat /\ Len(R) \in Nat
    BY LenProperties
  <2>3. Len(r) + Slack(F) > Len(R)
    BY <1>4, <1>12, <2>2
  <2> QED
    BY <1>8, <2>1, <2>3 DEF GetsValue
<1>13. ASSUME NEW rest \in Seq(Byte), rest \o r = R,
              read = Scan(rest, Append(values, s), left - Len(s))
       PROVE  GetsValue(F, kind, v, b, values, left, r, R)
  <2>1. Last(read.values) = s /\ read.is = "ok"
    BY <1>13, ScanFields, LastAppended
  <2>2. Value(F, scan, kind) = [read EXCEPT !.values = Append(values, v)]
    BY <1>5, <1>6, <1>10, <2>1
  <2>3. [read EXCEPT !.values = Append(values, v)] =
           Scan(rest, Append(values, v), left - Len(s))
    <3>1. \A w2 : [Scan(rest, Append(values, s), left - Len(s)) EXCEPT !.values = w2] =
                     Scan(rest, w2, left - Len(s))
      BY SMTT(40), ScanFields
    <3> QED
      BY <1>13, <3>1
  <2>4. Reads(F, kind, v, b, values, left, rest)
    BY <1>7, <1>8, <2>2, <2>3 DEF Reads
  <2> QED
    BY <1>13, <2>4 DEF GetsValue
<1> QED
  BY <1>11, <1>12, <1>13 DEF Gets

LEMMA ReadText ==
    ASSUME NEW F \in Framing, NEW v, IsRead(F, "str", v),
           NEW V, NEW values \in Seq(V), NEW left \in Int,
           NEW b \in Seq(Byte), NEW r \in Seq(Byte), NEW R \in Seq(Byte),
           Meets(b, r, Bytes(F, "str", v), R), F = "pest" => Len(Bytes(F, "str", v)) <= left
    PROVE  GetsValue(F, "str", v, b, values, left, r, R)
<1>0. "str" \in Kind
  BY DEF Kind
<1>1. PICK w : w = Width(F, "str")
  OBVIOUS
<1>2. PICK first, more : more = Slack(F) /\ first = IF w = 1 THEN 0 ELSE more
  OBVIOUS
<1>3. PICK s : s = Number(w, Len(v))
  OBVIOUS
<1>4. w \in {1, 2, 4} /\ first \in {0, 1} /\ more \in {0, 1} /\ first <= more
  BY <1>0, <1>1, <1>2, Widths DEF Slack
<1>5. v \in Seq(Byte) /\ Len(v) \in Nat /\ Fits(Len(v), w)
  BY <1>1 DEF IsRead
<1>6. s \in Seq(Byte) /\ Len(s) = w /\ Num(s) = Len(v)
  <2>1. w \in {1, 2, 4}
    BY <1>4
  <2>2. /\ Number(w, Len(v)) \in Seq(Byte) /\ Len(Number(w, Len(v))) = w
        /\ Num(Number(w, Len(v))) = Len(v)
    BY <1>5, <2>1, NumberIs
  <2> QED
    BY <1>3, <2>2
<1>7. Bytes(F, "str", v) = s \o v
  BY <1>0, <1>1, <1>3, BytesAre
<1>8. PICK scan : scan = Scan(b, values, left)
  OBVIOUS
<1>9. PICK read : read = Take(F, scan, w, first)
  OBVIOUS
<1>10. Value(F, scan, "str") =
         IF read.is # "ok" THEN read
         ELSE Take(F, [read EXCEPT !.values = values], Num(Last(read.values)), more)
  <2>1. scan.values = values
    BY <1>8, ScanFields
  <2>2. read = Take(F, scan, Width(F, "str"),
                    IF Width(F, "str") = 1 THEN 0 ELSE IF F = "pest" THEN 1 ELSE 0)
    BY <1>1, <1>2, <1>9 DEF Slack
  <2>3. more = IF F = "pest" THEN 1 ELSE 0
    BY <1>2 DEF Slack
  <2> QED
    BY <2>1, <2>2, <2>3 DEF Value
<1>11. /\ v \o R \in Seq(Byte) /\ Len(v \o R) = Len(v) + Len(R) /\ Len(R) \in Nat
       /\ Len(r) \in Nat /\ Len(s \o v) = Len(s) + Len(v) /\ (s \o v) \o R = s \o (v \o R)
  <2>1. /\ v \o R \in Seq(Byte) /\ Len(v \o R) = Len(v) + Len(R) /\ Len(R) \in Nat
        /\ Len(r) \in Nat
    BY <1>5, Lengths
  <2>2. Len(s \o v) = Len(s) + Len(v)
    BY <1>5, <1>6, Lengths
  <2>3. (s \o v) \o R = s \o (v \o R)
    <3>1. s \in Seq(Byte)
      BY <1>6
    <3>2. v \in Seq(Byte)
      BY <1>5
    <3>3. R \in Seq(Byte)
      OBVIOUS
    <3> QED
      BY <3>1, <3>2, <3>3, ByteAssociative
  <2> QED
    BY <2>1, <2>2, <2>3
<1>12. Gets(read, values, left, s, r, v \o R, first)
  <2>1. Meets(b, r, s, v \o R)
    BY <1>7, <1>11 DEF Meets
  <2>2. F = "pest" => Len(s) <= left
    BY <1>5, <1>6, <1>7, <1>11
  <2>3. Gets(Take(F, Scan(b, values, left), Len(s), first), values, left, s, r, v \o R, first)
    BY <1>4, <1>6, <1>11, <2>1, <2>2, TakeThem
  <2> QED
    BY <1>6, <1>8, <1>9, <2>3
<1>13. CASE read.is = "more" /\ Len(r) + first > Len(v \o R)
  <2>1. Value(F, scan, "str").is = "more"
    BY <1>10, <1>13
  <2>2. Len(r) + Slack(F) > Len(R)
    BY <1>2, <1>4, <1>5, <1>11, <1>13
  <2> QED
    BY <1>8, <2>1, <2>2 DEF GetsValue
<1>14. ASSUME NEW rest \in Seq(Byte), rest \o r = v \o R,
              read = Scan(rest, Append(values, s), left - Len(s))
       PROVE  GetsValue(F, "str", v, b, values, left, r, R)
  <2>1. Last(read.values) = s /\ read.is = "ok"
    BY <1>14, ScanFields, LastAppended
  <2>2. PICK left2 \in Int : left2 = left - Len(s)
    BY <1>4, <1>6
  <2>3. [read EXCEPT !.values = values] = Scan(rest, values, left2)
    <3>1. \A w2 : [Scan(rest, Append(values, s), left2) EXCEPT !.values = w2] =
                     Scan(rest, w2, left2)
      BY ScanFields
    <3> QED
      BY <1>14, <2>2, <3>1
  <2>4. Value(F, scan, "str") = Take(F, Scan(rest, values, left2), Len(v), more)
    BY <1>6, <1>10, <2>1, <2>3
  <2>5. Gets(Take(F, Scan(rest, values, left2), Len(v), more), values, left2, v, r, R, more)
    <3>1. Meets(rest, r, v, R)
      BY <1>14 DEF Meets
    <3>2. F = "pest" => Len(v) <= left2
      BY <1>4, <1>5, <1>6, <1>7, <1>11, <2>2
    <3>3. more \in {0, 1} /\ v \in Seq(Byte)
      BY <1>4, <1>5
    <3> QED
      BY ZenonT(60), <2>2, <3>1, <3>2, <3>3, TakeThem
  <2>6. CASE /\ Take(F, Scan(rest, values, left2), Len(v), more).is = "more"
             /\ Len(r) + more > Len(R)
    BY <1>2, <1>8, <2>4, <2>6 DEF GetsValue
  <2>7. ASSUME NEW rest2 \in Seq(Byte), rest2 \o r = R,
               Take(F, Scan(rest, values, left2), Len(v), more) =
                  Scan(rest2, Append(values, v), left2 - Len(v))
        PROVE  GetsValue(F, "str", v, b, values, left, r, R)
    <3>1. left2 - Len(v) = left - Len(Bytes(F, "str", v))
      <4>1. PICK l \in Nat : l = Len(v)
        BY <1>5
      <4>2. PICK u \in Nat : u = w
        BY <1>4
      <4>3. Len(Bytes(F, "str", v)) = u + l
        BY <1>6, <1>7, <1>11, <4>1, <4>2
      <4>4. left2 = left - u
        BY <1>6, <2>2, <4>2
      <4>5. left2 - l = left - (u + l)
        BY <4>4
      <4> QED
        BY <4>1, <4>3, <4>5
    <3>2. Reads(F, "str", v, b, values, left, rest2)
      BY <1>8, <2>4, <2>7, <3>1 DEF Reads
    <3> QED
      BY <2>7, <3>2 DEF GetsValue
  <2> QED
    BY <2>5, <2>6, <2>7 DEF Gets
<1> QED
  BY <1>12, <1>13, <1>14 DEF Gets

LEMMA ReadValue ==
    ASSUME NEW F \in Framing, NEW kind \in Kind, NEW v, IsRead(F, kind, v),
           NEW V, NEW values \in Seq(V), NEW left \in Int,
           NEW b \in Seq(Byte), NEW r \in Seq(Byte), NEW R \in Seq(Byte),
           Meets(b, r, Bytes(F, kind, v), R), F = "pest" => Len(Bytes(F, kind, v)) <= left
    PROVE  GetsValue(F, kind, v, b, values, left, r, R)
<1>1. CASE kind = "str"
  BY <1>1, ReadText
<1>2. CASE kind # "str"
  BY <1>2, ReadNumber
<1> QED
  BY <1>1, <1>2


-----------------------------------------------------------------------------
(* Reading a packet *)

\* The first k of some values.
First(p, k) == [i \in 1..k |-> p[i]]

LEMMA FirstStep ==
    ASSUME NEW p, NEW k \in Nat
    PROVE  /\ Append(First(p, k), p[k + 1]) = First(p, k + 1)
           /\ Len(First(p, k)) = k
           /\ First(p, k) \in Seq({p[i] : i \in 1..(k + 1)})
<1> DEFINE V == {p[i] : i \in 1..(k + 1)}
           s == First(p, k)
           t == First(p, k + 1)
<1>1. \A i \in 1..(k + 1) : p[i] \in V
  OBVIOUS
<1>2. k + 1 \in 1..(k + 1) /\ \A i \in 1..k : i \in 1..(k + 1)
  OBVIOUS
<1> HIDE DEF V
<1>3. s \in Seq(V) /\ Len(s) = k /\ \A i \in 1..k : s[i] = p[i]
  <2>1. s \in [1..k -> V] /\ DOMAIN s = 1..k
    BY <1>1, <1>2 DEF First
  <2> QED
    BY <2>1 DEF First
<1>4. t \in Seq(V) /\ Len(t) = k + 1 /\ \A i \in 1..(k + 1) : t[i] = p[i]
  <2>1. t \in [1..(k + 1) -> V] /\ DOMAIN t = 1..(k + 1)
    BY <1>1 DEF First
  <2> QED
    BY <2>1 DEF First
<1> HIDE DEF s, t
<1>5. /\ Append(s, p[k + 1]) \in Seq(V) /\ Len(Append(s, p[k + 1])) = k + 1
      /\ \A i \in 1..k : Append(s, p[k + 1])[i] = s[i]
      /\ Append(s, p[k + 1])[k + 1] = p[k + 1]
  BY <1>1, <1>2, <1>3, AppendProperties
<1>6. \A i \in 1..(k + 1) : Append(s, p[k + 1])[i] = t[i]
  <2>1. \A i \in 1..(k + 1) : i = k + 1 \/ i \in 1..k
    OBVIOUS
  <2> QED
    BY <1>3, <1>4, <1>5, <2>1
<1>7. Append(s, p[k + 1]) = t
  BY <1>4, <1>5, <1>6, SeqEqual
<1> QED
  BY <1>3, <1>7 DEF s, t, V

\* The bytes of the values of a packet; ks are their kinds.
Coded(F, ks, p) == [i \in 1..Len(ks) |-> Bytes(F, ks[i], p[i + 1])]
Codes(F, ks, p) == Joined(Coded(F, ks, p), Len(ks))

AreRead(F, ks, p) ==
    ks \in Seq(Kind) /\ \A i \in 1..Len(ks) : IsRead(F, ks[i], p[i + 1])

LEMMA CodedTypes ==
    ASSUME NEW F \in Framing, NEW ks, NEW p, AreRead(F, ks, p)
    PROVE  /\ \A i \in 1..Len(ks) : Coded(F, ks, p)[i] \in Seq(Byte)
           /\ \A i \in 1..Len(ks) : Coded(F, ks, p)[i] = Bytes(F, ks[i], p[i + 1])
           /\ Codes(F, ks, p) \in Seq(Byte)
<1>1. Len(ks) \in Nat
  BY LenProperties DEF AreRead
<1>2. \A i \in 1..Len(ks) : Coded(F, ks, p)[i] = Bytes(F, ks[i], p[i + 1])
  BY DEF Coded
<1>3. \A i \in 1..Len(ks) : Bytes(F, ks[i], p[i + 1]) \in Seq(Byte)
  <2>1. ASSUME NEW i \in 1..Len(ks) PROVE Bytes(F, ks[i], p[i + 1]) \in Seq(Byte)
    <3>1. ks[i] \in Kind /\ IsRead(F, ks[i], p[i + 1])
      BY ElementOfSeq DEF AreRead
    <3> QED
      BY <3>1, BytesAreBytes
  <2> QED
    BY <2>1
<1>4. \A i \in 1..Len(ks) : Coded(F, ks, p)[i] \in Seq(Byte)
  BY <1>2, <1>3
<1> QED
  BY <1>1, <1>2, <1>4, JoinTypes DEF Codes

\* Some of the bytes of the values, and the others.
LEMMA JoinRest ==
    ASSUME NEW n \in Nat, NEW ss, \A i \in 1..n : ss[i] \in Seq(Byte), NEW k \in 0..n
    PROVE  \E t \in Seq(Byte) : Joined(ss, n) = Joined(ss, k) \o t
<1> DEFINE Goes(m) == \E t \in Seq(Byte) : Joined(ss, k + m) = Joined(ss, k) \o t
           T == {m \in Nat : k + m <= n => Goes(m)}
<1>1. 0 \in T
  <2>1. Joined(ss, k) \in Seq(Byte)
    BY JoinTypes
  <2>2. Joined(ss, k + 0) = Joined(ss, k) \o <<>> /\ <<>> \in Seq(Byte)
    BY <2>1, ConcatEmptySeq, EmptySeq
  <2> QED
    BY <2>2
<1>2. ASSUME NEW m \in T PROVE m + 1 \in T
  <2>1. m \in Nat
    OBVIOUS
  <2>2. ASSUME k + (m + 1) <= n PROVE Goes(m + 1)
    <3>1. k + m \in Nat /\ k + m <= n /\ k + (m + 1) = (k + m) + 1 /\ (k + m) + 1 \in 1..n
      BY <2>1, <2>2
    <3>2. PICK t \in Seq(Byte) : Joined(ss, k + m) = Joined(ss, k) \o t
      BY <3>1
    <3>3. Joined(ss, (k + m) + 1) = Joined(ss, k + m) \o ss[(k + m) + 1]
      <4>1. \A i \in 1..((k + m) + 1) : ss[i] \in Seq(Byte)
        BY <3>1
      <4> QED
        BY <3>1, <4>1, JoinedStep
    <3>4. ss[(k + m) + 1] \in Seq(Byte) /\ Joined(ss, k) \in Seq(Byte)
      BY <3>1, JoinTypes
    <3>5. /\ t \o ss[(k + m) + 1] \in Seq(Byte)
          /\ (Joined(ss, k) \o t) \o ss[(k + m) + 1] = Joined(ss, k) \o (t \o ss[(k + m) + 1])
      BY <3>4, ByteAssociative, Lengths
    <3> QED
      BY <3>1, <3>2, <3>3, <3>5
  <2> HIDE DEF Goes
  <2> QED
    BY <2>1, <2>2
<1>3. T = Nat
  <2>1. T \in SUBSET Nat
    OBVIOUS
  <2> HIDE DEF T
  <2> QED
    BY <1>1, <1>2, <2>1, SetInduction
<1>4. n - k \in Nat /\ k + (n - k) = n
  OBVIOUS
<1>5. n - k \in T
  BY <1>3, <1>4
<1>6. k + (n - k) <= n => \E t \in Seq(Byte) : Joined(ss, k + (n - k)) = Joined(ss, k) \o t
  BY <1>5
<1> QED
  BY <1>4, <1>6

\* A scan that found the first k values of p, or wants more than there is.
Found(F, ks, p, k, r, E, scan, rest, left) ==
    /\ rest \in Seq(Byte) /\ left \in Int
    /\ scan = Scan(rest, First(p, k + 1), left)
    /\ Meets(Joined(Coded(F, ks, p), k) \o rest, r, Codes(F, ks, p), E)
    /\ F = "pest" => Len(Joined(Coded(F, ks, p), k)) + left = Len(Codes(F, ks, p)) + 1

Came(F, ks, p, k, r, E, scan) ==
    \/ scan.is = "more" /\ Len(r) + Slack(F) > Len(E)
    \/ \E rest, left : Found(F, ks, p, k, r, E, scan, rest, left)

\* What a field brings.
LEMMA FoundOne ==
    ASSUME NEW F \in Framing, NEW ks, NEW p, AreRead(F, ks, p), NEW k \in Nat, k < Len(ks),
           NEW r \in Seq(Byte), NEW E \in Seq(Byte), NEW scan, NEW rest, NEW left,
           Found(F, ks, p, k, r, E, scan, rest, left)
    PROVE  Came(F, ks, p, k + 1, r, E, Value(F, scan, ks[k + 1]))
<1>1. PICK g : g = Coded(F, ks, p)
  OBVIOUS
<1>2. PICK n \in Nat : n = Len(ks)
  BY LenProperties DEF AreRead
<1>3. k \in 0..n /\ k + 1 \in 0..n /\ k + 1 \in 1..n
  BY <1>2
<1>4. /\ \A i \in 1..n : g[i] \in Seq(Byte)
      /\ g[k + 1] = Bytes(F, ks[k + 1], p[k + 2])
      /\ Codes(F, ks, p) = Joined(g, n)
  <2>1. k + 1 + 1 = k + 2
    OBVIOUS
  <2> QED
    BY <1>1, <1>2, <1>3, <2>1, CodedTypes DEF Codes
<1>5. PICK kind, v, s, before : kind = ks[k + 1] /\ v = p[k + 2] /\ s = g[k + 1] /\ before = Joined(g, k)
  OBVIOUS
<1>6. kind \in Kind /\ IsRead(F, kind, v) /\ s = Bytes(F, kind, v) /\ s \in Seq(Byte)
  <2>1. k + 1 + 1 = k + 2
    OBVIOUS
  <2>2. ks \in Seq(Kind) /\ IsRead(F, ks[k + 1], p[k + 1 + 1])
    BY <1>2, <1>3 DEF AreRead
  <2>3. ks[k + 1] \in Kind
    BY <1>2, <1>3, <2>2, ElementOfSeq
  <2> QED
    BY <1>3, <1>4, <1>5, <2>1, <2>2, <2>3
<1>7. before \in Seq(Byte) /\ Joined(g, k + 1) = before \o s
  <2>1. \A i \in 1..(k + 1) : g[i] \in Seq(Byte)
    BY <1>3, <1>4
  <2> QED
    BY <1>5, <2>1, JoinedStep
<1>8. PICK t \in Seq(Byte) : Joined(g, n) = (before \o s) \o t
  BY <1>3, <1>4, <1>7, JoinRest
<1>9. PICK R : R = t \o E
  OBVIOUS
<1>10. /\ R \in Seq(Byte) /\ Len(R) = Len(t) + Len(E) /\ Len(t) \in Nat /\ Len(E) \in Nat
       /\ Len(s) \in Nat /\ Len(before) \in Nat /\ Len(r) \in Nat
       /\ before \o s \in Seq(Byte) /\ Len(before \o s) = Len(before) + Len(s)
       /\ Len(Joined(g, n)) = Len(before) + Len(s) + Len(t)
  <2>1. R \in Seq(Byte) /\ Len(R) = Len(t) + Len(E) /\ Len(t) \in Nat /\ Len(E) \in Nat
    BY <1>9, Lengths
  <2>2. /\ before \o s \in Seq(Byte) /\ Len(before \o s) = Len(before) + Len(s)
        /\ Len(s) \in Nat /\ Len(before) \in Nat
    BY <1>6, <1>7, Lengths
  <2>3. Len((before \o s) \o t) = Len(before \o s) + Len(t)
    BY <2>2, Lengths
  <2> QED
    BY <1>8, <2>1, <2>2, <2>3, LenProperties
<1>11. /\ rest \in Seq(Byte) /\ left \in Int /\ scan = Scan(rest, First(p, k + 1), left)
       /\ F = "pest" => Len(before) + left = Len(Joined(g, n)) + 1
  BY <1>1, <1>4, <1>5 DEF Found
<1>12. rest \o r = s \o R
  <2>1. (before \o rest) \o r = Joined(g, n) \o E
    BY <1>1, <1>4, <1>5 DEF Found, Meets
  <2>2. (before \o rest) \o r = before \o (rest \o r)
    BY <1>7, <1>11, ByteAssociative
  <2>3. ((before \o s) \o t) \o E = before \o (s \o R)
    <3>1. ((before \o s) \o t) \o E = (before \o s) \o (t \o E)
      BY ZenonT(60), <1>10, ByteAssociative
    <3>2. (before \o s) \o R = before \o (s \o R)
      BY ZenonT(60), <1>6, <1>7, <1>10, ByteAssociative
    <3> QED
      BY <1>9, <3>1, <3>2
  <2>4. rest \o r \in Seq(Byte) /\ s \o R \in Seq(Byte)
    BY <1>6, <1>10, <1>11, Lengths
  <2>5. before \o (rest \o r) = before \o (s \o R)
    BY <1>8, <2>1, <2>2, <2>3
  <2> QED
    BY <1>7, <2>4, <2>5, ConcatSimplifications
<1>13. PICK values : values = First(p, k + 1)
  OBVIOUS
<1>14. values \in Seq({p[i] : i \in 1..(k + 2)}) /\ Append(values, v) = First(p, k + 2)
  <2>1. k + 1 \in Nat /\ k + 1 + 1 = k + 2
    OBVIOUS
  <2> QED
    BY <1>5, <1>13, <2>1, FirstStep
<1>15. GetsValue(F, kind, v, rest, values, left, r, R)
  <2>1. Meets(rest, r, Bytes(F, kind, v), R)
    BY <1>6, <1>12 DEF Meets
  <2>2. F = "pest" => Len(Bytes(F, kind, v)) <= left
    <3>1. F = "pest" => Len(s) <= left
      BY <1>10, <1>11
    <3> QED
      BY <1>6, <3>1
  <2> QED
    BY <1>6, <1>10, <1>11, <1>14, <2>1, <2>2, ReadValue
<1>16. CASE Value(F, scan, kind).is = "more" /\ Len(r) + Slack(F) > Len(R)
  <2>1. Slack(F) \in Nat
    BY DEF Slack
  <2>2. Len(r) + Slack(F) > Len(E)
    BY <1>10, <1>16, <2>1
  <2> QED
    BY <1>5, <1>16, <2>2 DEF Came
<1>17. ASSUME NEW rest2, Reads(F, kind, v, rest, values, left, rest2), rest2 \o r = R
       PROVE  Came(F, ks, p, k + 1, r, E, Value(F, scan, kind))
  <2>1. rest2 \in Seq(Byte) /\ Value(F, scan, kind) = Scan(rest2, First(p, k + 2), left - Len(s))
    BY <1>6, <1>11, <1>13, <1>14, <1>17 DEF Reads
  <2>2. left - Len(s) \in Int
    BY <1>10, <1>11
  <2>3. Meets(Joined(g, k + 1) \o rest2, r, Joined(g, n), E)
    <3>1. ((before \o s) \o rest2) \o r = (before \o s) \o (rest2 \o r)
      BY ZenonT(60), <1>10, <2>1, ByteAssociative
    <3>2. ((before \o s) \o t) \o E = (before \o s) \o (t \o E)
      BY <1>10, ByteAssociative
    <3>3. ((before \o s) \o rest2) \o r = ((before \o s) \o t) \o E
      BY <1>9, <1>17, <3>1, <3>2
    <3> QED
      BY <1>7, <1>8, <3>3 DEF Meets
  <2>4. F = "pest" => Len(Joined(g, k + 1)) + (left - Len(s)) = Len(Joined(g, n)) + 1
    <3>1. Len(Joined(g, k + 1)) = Len(before) + Len(s)
      BY <1>7, <1>10
    <3>2. PICK x, y, z \in Int : x = Len(before) /\ y = Len(s) /\ z = Len(Joined(g, n))
      BY <1>10
    <3>3. F = "pest" => x + left = z + 1
      BY <1>11, <3>2
    <3>4. F = "pest" => (x + y) + (left - y) = z + 1
      BY <1>11, <3>3
    <3> QED
      BY <3>1, <3>2, <3>4
  <2>5. k + 1 + 1 = k + 2
    OBVIOUS
  <2>6. Found(F, ks, p, k + 1, r, E, Value(F, scan, kind), rest2, left - Len(s))
    BY <1>1, <1>4, <2>1, <2>2, <2>3, <2>4, <2>5 DEF Found
  <2> QED
    BY <2>6 DEF Came
<1> QED
  BY <1>5, <1>11, <1>13, <1>15, <1>16, <1>17 DEF GetsValue

\* Some of the kinds, of which the first is that at o + 1.
LEMMA FoundSome ==
    ASSUME NEW F \in Framing, NEW ks, NEW p, AreRead(F, ks, p),
           NEW r \in Seq(Byte), NEW E \in Seq(Byte), NEW o \in Nat, NEW kinds, NEW start,
           Len(kinds) \in Nat, o + Len(kinds) <= Len(ks),
           \A i \in 1..Len(kinds) : kinds[i] = ks[o + i],
           Came(F, ks, p, o, r, E, start)
    PROVE  Came(F, ks, p, o + Len(kinds), r, E, Values(F, start, kinds))
<1>1. PICK f : ScansOn(F, start, kinds, Len(kinds), f) /\ Values(F, start, kinds) = f[Len(kinds)]
  BY ValuesGo
<1>2. PICK n \in Nat : n = Len(kinds)
  OBVIOUS
<1>3. Len(ks) \in Nat
  BY LenProperties DEF AreRead
<1> DEFINE Goes(m) == Came(F, ks, p, o + m, r, E, f[m])
           T == {m \in Nat : m <= n => Goes(m)}
<1>4. 0 \in T
  <2>1. o + 0 = o /\ f[0] = start
    BY <1>1 DEF ScansOn
  <2> QED
    BY <2>1
<1>5. ASSUME NEW m \in T PROVE m + 1 \in T
  <2>1. m \in Nat
    OBVIOUS
  <2>2. ASSUME m + 1 <= n PROVE Goes(m + 1)
    <3>1. m <= n /\ m + 1 \in 1..n /\ o + m \in Nat /\ o + m < Len(ks) /\ o + (m + 1) = o + m + 1
      <4>1. PICK k \in Nat : k = Len(ks)
        BY <1>3
      <4>2. o + n <= k
        BY <1>2, <4>1
      <4>3. /\ m <= n /\ m + 1 \in 1..n /\ o + m \in Nat /\ o + m < k
            /\ o + (m + 1) = o + m + 1
        BY <2>1, <2>2, <4>2
      <4> QED
        BY <4>1, <4>3
    <3>2. Goes(m)
      BY <3>1
    <3>3. f[m + 1] = Scanned(F, f[m], ks[o + m + 1])
      <4>1. f[m + 1] = Scanned(F, f[m + 1 - 1], kinds[m + 1]) /\ m + 1 - 1 = m
        BY SMTT(40), <1>1, <1>2, <2>1, <3>1 DEF ScansOn
      <4>2. kinds[m + 1] = ks[o + m + 1]
        BY <1>2, <3>1
      <4> QED
        BY <4>1, <4>2
    <3>4. CASE f[m].is = "more" /\ Len(r) + Slack(F) > Len(E)
      <4>1. f[m + 1] = f[m]
        BY <3>3, <3>4 DEF Scanned
      <4> QED
        BY <3>4, <4>1 DEF Came
    <3>5. ASSUME NEW rest, NEW left, Found(F, ks, p, o + m, r, E, f[m], rest, left)
          PROVE  Goes(m + 1)
      <4>1. f[m].is = "ok"
        BY <3>5, ScanFields DEF Found
      <4>2. f[m + 1] = Value(F, f[m], ks[o + m + 1])
        BY <3>3, <4>1 DEF Scanned
      <4>3. Came(F, ks, p, o + m + 1, r, E, Value(F, f[m], ks[o + m + 1]))
        BY <3>1, <3>5, FoundOne
      <4> QED
        BY <3>1, <4>2, <4>3
    <3> QED
      BY <3>2, <3>4, <3>5 DEF Came
  <2> HIDE DEF Goes
  <2> QED
    BY <2>1, <2>2
<1>6. T = Nat
  <2>1. T \in SUBSET Nat
    OBVIOUS
  <2> HIDE DEF T
  <2> QED
    BY <1>4, <1>5, <2>1, SetInduction
<1>7. Goes(n)
  <2> HIDE DEF Goes
  <2> QED
    BY <1>6
<1> QED
  BY <1>1, <1>2, <1>7

LEMMA TagFields ==
    ASSUME NEW F \in Framing, NEW tag \in Tags(F)
    PROVE  Fields(tag) \in Seq(Kind)
<1>1. /\ {"str", "u16", "u32", "action"} \subseteq Kind
      /\ {"roads", "targets", "visits"} \subseteq Kind
  BY DEF Kind, Arrays
<1>2. /\ WireError \in Seq(Kind) /\ Plate \in Seq(Kind) /\ Ticket \in Seq(Kind)
      /\ WantHeartbeat \in Seq(Kind) /\ Heartbeat \in Seq(Kind) /\ IAmCamera \in Seq(Kind)
      /\ IAmDispatcher \in Seq(Kind)
  BY <1>1 DEF WireError, Plate, Ticket, WantHeartbeat, Heartbeat, IAmCamera, IAmDispatcher
<1>3. /\ Hello \in Seq(Kind) /\ PestError \in Seq(Kind) /\ Okay \in Seq(Kind)
      /\ DialAuthority \in Seq(Kind) /\ TargetPopulations \in Seq(Kind)
      /\ CreatePolicy \in Seq(Kind) /\ DeletePolicy \in Seq(Kind) /\ PolicyResult \in Seq(Kind)
      /\ SiteVisit \in Seq(Kind)
  BY <1>1 DEF Hello, PestError, Okay, DialAuthority, TargetPopulations, CreatePolicy,
              DeletePolicy, PolicyResult, SiteVisit
<1>4. tag \in {16, 32, 33, 64, 65, 128, 129} \cup {80, 81, 82, 83, 84, 85, 86, 87, 88}
  BY DEF Tags
<1>5. CASE tag \in {16, 32, 33, 64, 65, 128, 129}
  <2>1. /\ Fields(16) = WireError /\ Fields(32) = Plate /\ Fields(33) = Ticket
        /\ Fields(64) = WantHeartbeat /\ Fields(65) = Heartbeat /\ Fields(128) = IAmCamera
        /\ Fields(129) = IAmDispatcher
    BY DEF Fields
  <2> QED
    BY <1>2, <1>5, <2>1
<1>6. CASE tag \in {80, 81, 82, 83, 84, 85, 86, 87, 88}
  <2>1. /\ Fields(80) = Hello /\ Fields(81) = PestError /\ Fields(82) = Okay
        /\ Fields(83) = DialAuthority /\ Fields(84) = TargetPopulations /\ Fields(85) = CreatePolicy
        /\ Fields(86) = DeletePolicy /\ Fields(87) = PolicyResult /\ Fields(88) = SiteVisit
    BY DEF Fields
  <2> QED
    BY <1>3, <1>6, <2>1
<1> QED
  BY <1>4, <1>5, <1>6

LEMMA ElementsAre ==
    ASSUME NEW tag, HasArray(tag), NEW n \in Nat
    PROVE  Elements(tag, n) \in Seq(Kind)
<1> DEFINE es == Element(Last(Fields(tag)))
<1>1. {"str", "u16", "u32"} \subseteq Kind
  BY DEF Kind
<1>2. es \in Seq(Kind) /\ Len(es) \in 1..3
  <2>1. Last(Fields(tag)) \in {"roads", "targets", "visits"}
    BY DEF HasArray, Arrays
  <2>2. /\ <<"u16">> \in Seq(Kind) /\ Len(<<"u16">>) = 1
        /\ <<"str", "u32", "u32">> \in Seq(Kind) /\ Len(<<"str", "u32", "u32">>) = 3
        /\ <<"str", "u32">> \in Seq(Kind) /\ Len(<<"str", "u32">>) = 2
    BY <1>1
  <2> QED
    BY <2>1, <2>2 DEF Element
<1>3. Elements(tag, n) = [i \in 1..(n * Len(es)) |-> es[((i - 1) % Len(es)) + 1]]
  BY DEF Elements
<1> HIDE DEF es
<1>4. PICK w \in 1..3 : w = Len(es)
  BY <1>2
<1>5. n * w \in Nat
  <2>1. w = 1 \/ w = 2 \/ w = 3
    OBVIOUS
  <2>2. n * 1 = n /\ n * 2 = n + n /\ n * 3 = n + n + n
    OBVIOUS
  <2> QED
    BY <2>1, <2>2
<1>6. \A i \in 1..(n * w) : es[((i - 1) % w) + 1] \in Kind
  <2>1. ASSUME NEW i \in 1..(n * w) PROVE es[((i - 1) % w) + 1] \in Kind
    <3>1. i - 1 \in Nat
      BY <1>5
    <3>2. ((i - 1) % w) + 1 \in 1..w
      BY <3>1
    <3> QED
      BY <1>2, <1>4, <3>2, ElementOfSeq
  <2> QED
    BY <2>1
<1>7. [i \in 1..(n * w) |-> es[((i - 1) % w) + 1]] \in Seq(Kind)
  <2>1. [i \in 1..(n * w) |-> es[((i - 1) % w) + 1]] \in [1..(n * w) -> Kind]
    BY <1>6
  <2> QED
    BY <1>5, <2>1
<1> QED
  BY <1>3, <1>4, <1>7

\* The kinds of the values of a packet are those of its fields, and of its elements.
LEMMA KindsAre ==
    ASSUME NEW F \in Framing, NEW p, p[1] \in Tags(F), AreRead(F, Fields(p[1]), p)
    PROVE  /\ Len(Fields(p[1])) \in Nat /\ Kinds(p) \in Seq(Kind)
           /\ \A i \in 1..Len(Fields(p[1])) : Kinds(p)[i] = Fields(p[1])[i]
           /\ ~HasArray(p[1]) => Len(Kinds(p)) = Len(Fields(p[1]))
           /\ HasArray(p[1]) =>
                 LET es == Elements(p[1], p[Len(Fields(p[1])) + 1]) IN
                 /\ Len(es) \in Nat /\ Len(Kinds(p)) = Len(Fields(p[1])) + Len(es)
                 /\ \A i \in 1..Len(es) : Kinds(p)[Len(Fields(p[1])) + i] = es[i]
<1>1. PICK fs : fs = Fields(p[1])
  OBVIOUS
<1>2. fs \in Seq(Kind) /\ Len(fs) \in Nat
  BY <1>1, TagFields, LenProperties
<1>3. CASE ~HasArray(p[1])
  <2>1. Kinds(p) = fs
    BY <1>1, <1>3 DEF Kinds
  <2> QED
    BY <1>1, <1>2, <1>3, <2>1
<1>4. CASE HasArray(p[1])
  <2>1. PICK es : es = Elements(p[1], p[Len(fs) + 1])
    OBVIOUS
  <2>2. p[Len(fs) + 1] \in Nat
    <3>1. Len(fs) # 0 /\ fs[Len(fs)] \in Arrays
      <4>1. fs # <<>> /\ Last(fs) \in Arrays
        BY <1>1, <1>4 DEF HasArray
      <4>2. Len(fs) # 0
        BY <1>2, <4>1, EmptySeq
      <4> QED
        BY <4>1, <4>2 DEF Last
    <3>2. IsRead(F, fs[Len(fs)], p[Len(fs) + 1])
      BY <1>1, <1>2, <3>1 DEF AreRead
    <3>3. fs[Len(fs)] # "str"
      BY <3>1 DEF Arrays
    <3> QED
      BY <3>2, <3>3 DEF IsRead
  <2>3. es \in Seq(Kind) /\ Len(es) \in Nat
    BY <1>4, <2>1, <2>2, ElementsAre, LenProperties
  <2>4. Kinds(p) = fs \o es
    BY <1>1, <1>4, <2>1 DEF Kinds
  <2>5. /\ fs \o es \in Seq(Kind) /\ Len(fs \o es) = Len(fs) + Len(es)
        /\ \A i \in 1..(Len(fs) + Len(es)) :
              (fs \o es)[i] = IF i <= Len(fs) THEN fs[i] ELSE es[i - Len(fs)]
    BY <1>2, <2>3, ConcatProperties
  <2>6. \A i \in 1..Len(fs) : (fs \o es)[i] = fs[i]
    BY <1>2, <2>3, <2>5
  <2>7. \A i \in 1..Len(es) : (fs \o es)[Len(fs) + i] = es[i]
    <3>1. ASSUME NEW i \in 1..Len(es) PROVE (fs \o es)[Len(fs) + i] = es[i]
      <4>1. /\ Len(fs) + i \in 1..(Len(fs) + Len(es)) /\ ~ (Len(fs) + i <= Len(fs))
            /\ Len(fs) + i - Len(fs) = i
        BY <1>2, <2>3
      <4> QED
        BY <2>5, <4>1
    <3> QED
      BY <3>1
  <2> QED
    BY <1>1, <1>2, <1>4, <2>1, <2>3, <2>4, <2>5, <2>6, <2>7
<1> QED
  BY <1>3, <1>4

\* What has fields and elements.
IsCoded(F, p) ==
    p[1] \in Tags(F) /\ AreRead(F, Fields(p[1]), p) /\ AreRead(F, Kinds(p), p)

LEMMA FoundAll ==
    ASSUME NEW F \in Framing, NEW p, IsCoded(F, p), NEW r \in Seq(Byte), NEW E \in Seq(Byte),
           NEW start, Came(F, Kinds(p), p, 0, r, E, start)
    PROVE  Came(F, Kinds(p), p, Len(Kinds(p)), r, E, Payload(F, p[1], start))
<1>1. PICK ks, fs : ks = Kinds(p) /\ fs = Fields(p[1])
  OBVIOUS
<1>2. PICK scan : scan = Values(F, start, fs)
  OBVIOUS
<1>3. AreRead(F, ks, p) /\ ks \in Seq(Kind) /\ Len(ks) \in Nat
  BY <1>1, LenProperties DEF IsCoded, AreRead
<1>4. /\ Len(fs) \in Nat /\ Len(fs) <= Len(ks)
      /\ \A i \in 1..Len(fs) : fs[i] = ks[i]
      /\ ~HasArray(p[1]) => Len(ks) = Len(fs)
      /\ HasArray(p[1]) =>
            LET es == Elements(p[1], p[Len(fs) + 1]) IN
            /\ Len(es) \in Nat /\ Len(ks) = Len(fs) + Len(es)
            /\ \A i \in 1..Len(es) : es[i] = ks[Len(fs) + i]
  <2>1. p[1] \in Tags(F) /\ AreRead(F, fs, p)
    BY <1>1 DEF IsCoded
  <2>2. PICK es : es = Elements(p[1], p[Len(fs) + 1])
    OBVIOUS
  <2>3. /\ Len(fs) \in Nat
        /\ \A i \in 1..Len(fs) : ks[i] = fs[i]
        /\ ~HasArray(p[1]) => Len(ks) = Len(fs)
        /\ HasArray(p[1]) =>
              /\ Len(es) \in Nat /\ Len(ks) = Len(fs) + Len(es)
              /\ \A i \in 1..Len(es) : ks[Len(fs) + i] = es[i]
    BY <1>1, <2>1, <2>2, KindsAre
  <2>4. Len(fs) <= Len(ks)
    BY <2>3
  <2> QED
    BY <2>2, <2>3, <2>4
<1>5. Came(F, ks, p, Len(fs), r, E, scan)
  <2>1. \A i \in 1..Len(fs) : fs[i] = ks[0 + i]
    BY <1>4
  <2>2. 0 + Len(fs) = Len(fs)
    BY <1>4
  <2>3. Came(F, ks, p, 0, r, E, start)
    BY <1>1
  <2>4. Came(F, ks, p, 0 + Len(fs), r, E, Values(F, start, fs))
    BY <1>3, <1>4, <2>1, <2>2, <2>3, FoundSome
  <2> QED
    BY <1>2, <2>2, <2>4
<1>6. Payload(F, p[1], start) = WithElements(F, p[1], scan)
  <2>1. {WithElements(F, p[1], s) : s \in {scan}} = {WithElements(F, p[1], scan)}
    OBVIOUS
  <2> QED
    BY <1>1, <1>2, <2>1, OnceIs DEF Payload
<1>7. CASE scan.is = "more" /\ Len(r) + Slack(F) > Len(E)
  <2>1. WithElements(F, p[1], scan) = scan
    BY <1>7 DEF WithElements
  <2> QED
    BY <1>1, <1>6, <1>7, <2>1 DEF Came
<1>8. CASE ~ HasArray(p[1])
  <2>1. WithElements(F, p[1], scan) = scan
    BY <1>8 DEF WithElements
  <2> QED
    BY <1>1, <1>4, <1>5, <1>6, <1>8, <2>1
<1>9. ASSUME HasArray(p[1]), NEW rest, NEW left, Found(F, ks, p, Len(fs), r, E, scan, rest, left)
      PROVE  Came(F, ks, p, Len(ks), r, E, WithElements(F, p[1], scan))
  <2>1. PICK es : es = Elements(p[1], p[Len(fs) + 1])
    OBVIOUS
  <2>2. scan.is = "ok" /\ Last(scan.values) = p[Len(fs) + 1]
    <3>1. /\ scan = Scan(rest, First(p, Len(fs) + 1), left)
          /\ First(p, Len(fs)) \in Seq({p[i] : i \in 1..(Len(fs) + 1)})
          /\ Append(First(p, Len(fs)), p[Len(fs) + 1]) = First(p, Len(fs) + 1)
      <4>1. scan = Scan(rest, First(p, Len(fs) + 1), left)
        BY <1>9 DEF Found
      <4>2. Len(fs) \in Nat
        BY <1>4
      <4> QED
        BY <4>1, <4>2, FirstStep
    <3>2. Last(Append(First(p, Len(fs)), p[Len(fs) + 1])) = p[Len(fs) + 1]
      BY <3>1, LastAppended
    <3> QED
      BY <3>1, <3>2, ScanFields
  <2>3. WithElements(F, p[1], scan) = Values(F, scan, es)
    BY <1>1, <1>9, <2>1, <2>2 DEF WithElements
  <2>4. /\ Len(es) \in Nat /\ Len(ks) = Len(fs) + Len(es)
        /\ \A i \in 1..Len(es) : es[i] = ks[Len(fs) + i]
    BY <1>4, <1>9, <2>1
  <2>5. Len(fs) + Len(es) <= Len(ks)
    BY <1>3, <2>4
  <2>6. Came(F, ks, p, Len(fs) + Len(es), r, E, Values(F, scan, es))
    BY <1>3, <1>4, <1>5, <2>4, <2>5, FoundSome
  <2> QED
    BY <2>3, <2>4, <2>6
<1> QED
  BY <1>1, <1>5, <1>6, <1>7, <1>8, <1>9 DEF Came

\* A scan that has found nothing but the tag.
LEMMA FoundTag ==
    ASSUME NEW F \in Framing, NEW p, IsCoded(F, p), NEW r \in Seq(Byte), NEW E \in Seq(Byte),
           NEW rest \in Seq(Byte), NEW left \in Int,
           Meets(rest, r, Codes(F, Kinds(p), p), E),
           F = "pest" => left = Len(Codes(F, Kinds(p), p)) + 1
    PROVE  Came(F, Kinds(p), p, 0, r, E, Scan(rest, <<p[1]>>, left))
<1>1. First(p, 1) = <<p[1]>>
  BY DEF First
<1>2. PICK g : g = Coded(F, Kinds(p), p)
  OBVIOUS
<1>3. Joined(g, 0) = <<>> /\ Len(<<>>) = 0
  BY JoinEmpty
<1>4. Joined(g, 0) \o rest = rest
  BY <1>3, ConcatEmptySeq
<1>5. F = "pest" => Len(Joined(g, 0)) + left = Len(Codes(F, Kinds(p), p)) + 1
  <2>1. 0 + left = left
    OBVIOUS
  <2> QED
    BY <1>3, <2>1
<1>6. Meets(Joined(g, 0) \o rest, r, Codes(F, Kinds(p), p), E)
  BY <1>4
<1>7. 0 + 1 = 1
  OBVIOUS
<1>8. Found(F, Kinds(p), p, 0, r, E, Scan(rest, <<p[1]>>, left), rest, left)
  BY <1>1, <1>2, <1>5, <1>6, <1>7 DEF Found
<1> QED
  BY <1>8 DEF Came

\* A scan that has found all of a packet.
IsWhole(p) == p = First(p, Len(Kinds(p)) + 1)

LEMMA FoundWhole ==
    ASSUME NEW F \in Framing, NEW p, IsCoded(F, p), IsWhole(p),
           NEW r \in Seq(Byte), NEW E \in Seq(Byte), NEW scan, NEW rest, NEW left,
           Found(F, Kinds(p), p, Len(Kinds(p)), r, E, scan, rest, left)
    PROVE  /\ rest \in Seq(Byte) /\ left \in Int /\ scan = Scan(rest, p, left)
           /\ Meets(rest, r, <<>>, E) /\ (F = "pest" => left = 1)
<1>1. PICK C : C = Codes(F, Kinds(p), p)
  OBVIOUS
<1>2. C \in Seq(Byte) /\ Len(C) \in Nat
  BY <1>1, CodedTypes, LenProperties DEF IsCoded
<1>3. /\ rest \in Seq(Byte) /\ left \in Int /\ scan = Scan(rest, p, left)
      /\ (C \o rest) \o r = C \o E /\ (F = "pest" => Len(C) + left = Len(C) + 1)
  BY <1>1 DEF Found, Codes, IsWhole, Meets
<1>4. rest \o r = E
  <2>1. (C \o rest) \o r = C \o (rest \o r) /\ rest \o r \in Seq(Byte)
    BY <1>2, <1>3, ByteAssociative, Lengths
  <2>2. C \o (rest \o r) = C \o E
    BY <1>3, <2>1
  <2> QED
    BY <1>2, <2>1, <2>2, ConcatSimplifications
<1>5. Meets(rest, r, <<>>, E)
  BY <1>4, ConcatEmptySeq DEF Meets
<1>6. F = "pest" => left = 1
  BY <1>2, <1>3
<1> QED
  BY <1>3, <1>5, <1>6

\* What can be sent has fields and elements.
LEMMA PacketsAreCoded ==
    ASSUME NEW F \in Framing, NEW p, IsFieldwise(F, p)
    PROVE  /\ IsCoded(F, p) /\ IsWhole(p)
           /\ FlattenSeq(Fieldwise(F, p)) = Codes(F, Kinds(p), p)
           /\ F = "pest" => Fits(Len(Codes(F, Kinds(p), p)) + 6, 4)
<1>1. PICK ks, fs : ks = Kinds(p) /\ fs = Fields(p[1])
  OBVIOUS
<1>2. /\ p[1] \in Tags(F) /\ \A i \in DOMAIN fs : IsValue(F, fs[i], p[i + 1])
      /\ p = [i \in 1..(Len(ks) + 1) |-> p[i]]
      /\ \A i \in DOMAIN ks : IsValue(F, ks[i], p[i + 1])
      /\ F = "pest" => Fits(Len(FlattenSeq(Fieldwise(F, p))) + 6, 4)
  BY <1>1 DEF IsFieldwise
<1>3. AreRead(F, fs, p)
  <2>1. fs \in Seq(Kind) /\ DOMAIN fs = 1..Len(fs)
    BY <1>1, <1>2, TagFields, LenProperties
  <2>2. ASSUME NEW i \in 1..Len(fs) PROVE IsRead(F, fs[i], p[i + 1])
    <3>1. fs[i] \in Kind /\ IsValue(F, fs[i], p[i + 1])
      BY <1>2, <2>1, ElementOfSeq
    <3> QED
      BY <3>1, ValuesAreRead
  <2> QED
    BY <2>1, <2>2 DEF AreRead
<1>4. ks \in Seq(Kind) /\ DOMAIN ks = 1..Len(ks)
  <2>1. ks \in Seq(Kind)
    BY <1>1, <1>2, <1>3, KindsAre
  <2> QED
    BY <2>1, LenProperties
<1>5. AreRead(F, ks, p)
  <2>1. ASSUME NEW i \in 1..Len(ks) PROVE IsRead(F, ks[i], p[i + 1])
    <3>1. ks[i] \in Kind /\ IsValue(F, ks[i], p[i + 1])
      BY <1>2, <1>4, ElementOfSeq
    <3> QED
      BY <3>1, ValuesAreRead
  <2> QED
    BY <1>4, <2>1 DEF AreRead
<1>6. IsCoded(F, p) /\ IsWhole(p)
  BY <1>1, <1>2, <1>3, <1>5 DEF IsCoded, IsWhole, First
<1>7. FlattenSeq(Fieldwise(F, p)) = Codes(F, ks, p)
  <2>1. Fieldwise(F, p) = Coded(F, ks, p)
    BY <1>1, <1>4 DEF Fieldwise, Coded
  <2>2. [i \in 1..Len(ks) |-> Coded(F, ks, p)[i]] = Coded(F, ks, p)
    BY DEF Coded
  <2> QED
    BY <2>1, <2>2 DEF Codes, Joined
<1> QED
  BY <1>1, <1>2, <1>6, <1>7

-----------------------------------------------------------------------------
(* Sums *)

LEMMA ByteSum ==
    ASSUME NEW a \in Byte, NEW b \in Byte
    PROVE  (a + b) % 256 \in Byte
  BY DEF Byte

LEMMA Sums ==
    ASSUME NEW s \in Seq(Byte)
    PROVE  /\ SumOf(s) \in Byte
           /\ \A b \in Byte : SumOf(Append(s, b)) = (SumOf(s) + b) % 256
<1>1. PICK n \in Nat : n = Len(s)
  BY LenProperties
<1>2. PICK f : SumsOn(s, n, f) /\ SumOf(s) = f[n]
  BY <1>1, SumGoes
<1>3. \A i \in 1..n : s[i] \in Byte
  BY <1>1, ElementOfSeq
<1>4. ASSUME NEW h, NEW t, NEW m \in Nat, SumsOn(t, m, h), n <= m, \A i \in 1..n : t[i] = s[i]
      PROVE  h[n] = f[n] /\ f[n] \in Byte
  <2> DEFINE T == {k \in Nat : k <= n => h[k] = f[k] /\ f[k] \in Byte}
  <2>1. 0 \in T
    BY <1>2, <1>4 DEF SumsOn, Byte
  <2>2. ASSUME NEW k \in T PROVE k + 1 \in T
    <3>1. ASSUME k + 1 <= n PROVE h[k + 1] = f[k + 1] /\ f[k + 1] \in Byte
      <4>1. k \in Nat /\ k <= n /\ k + 1 \in 1..n /\ k + 1 \in 1..m /\ k + 1 - 1 = k
        BY <1>4, <3>1
      <4>2. h[k] = f[k] /\ f[k] \in Byte
        BY <4>1
      <4>3. f[k + 1] = (f[k] + s[k + 1]) % 256 /\ h[k + 1] = (h[k] + t[k + 1]) % 256
        BY <1>2, <1>4, <4>1 DEF SumsOn
      <4>4. t[k + 1] = s[k + 1] /\ s[k + 1] \in Byte
        BY <1>3, <1>4, <4>1
      <4>5. (f[k] + s[k + 1]) % 256 \in Byte
        BY <4>2, <4>4, ByteSum
      <4> QED
        BY <4>2, <4>3, <4>4, <4>5
    <3> QED
      BY <3>1
  <2>3. T = Nat
    <3>1. T \in SUBSET Nat
      OBVIOUS
    <3> HIDE DEF T
    <3> QED
      BY <2>1, <2>2, <3>1, SetInduction
  <2> QED
    BY <2>3
<1>5. SumOf(s) \in Byte
  BY <1>2, <1>4
<1>6. ASSUME NEW b \in Byte PROVE SumOf(Append(s, b)) = (SumOf(s) + b) % 256
  <2>1. PICK t : t = Append(s, b)
    OBVIOUS
  <2>2. Len(t) = n + 1 /\ t[n + 1] = b /\ \A i \in 1..n : t[i] = s[i]
    BY <1>1, <2>1, AppendProperties
  <2>3. PICK h : SumsOn(t, n + 1, h) /\ SumOf(t) = h[n + 1]
    BY <2>2, SumGoes
  <2>4. h[n + 1] = (h[n] + t[n + 1]) % 256
    <3>1. n + 1 \in 1..(n + 1) /\ n + 1 - 1 = n
      OBVIOUS
    <3> QED
      BY <2>3, <3>1 DEF SumsOn
  <2>5. h[n] = f[n]
    <3>1. n + 1 \in Nat /\ n <= n + 1
      OBVIOUS
    <3> QED
      BY <1>4, <2>2, <2>3, <3>1
  <2> QED
    BY <1>2, <2>1, <2>2, <2>3, <2>4, <2>5
<1> QED
  BY <1>5, <1>6

\* The bytes of a packet with its checksum sum up to 0.
LEMMA SumIs ==
    ASSUME NEW s
    PROVE  Sum(s) = SumOf(s)
<1>1. {SumOf(b) : b \in {s}} = {SumOf(s)}
  OBVIOUS
<1> QED
  BY <1>1, OnceIs DEF Sum

LEMMA SummedSums ==
    ASSUME NEW s \in Seq(Byte)
    PROVE  /\ (256 - Sum(s)) % 256 \in Byte
           /\ Summed(s) = Append(s, (256 - Sum(s)) % 256)
           /\ Sum(Summed(s)) = 0
           /\ \A c \in Byte : Sum(Append(s, c)) = 0 => c = (256 - Sum(s)) % 256
<1>1. PICK n \in Byte : n = Sum(s)
  BY Sums, SumIs
<1>2. PICK c \in Byte : c = (256 - n) % 256
  BY DEF Byte
<1>3. (n + c) % 256 = 0
  BY <1>2 DEF Byte
<1>4. \A d \in Byte : (n + d) % 256 = 0 => d = c
  <2>1. ASSUME NEW d \in Byte, (n + d) % 256 = 0 PROVE d = c
    <3>1. n + d \in 0..510
      BY DEF Byte
    <3>2. n + d = 0 \/ n + d = 256
      <4>1. PICK m \in 0..510 : m = n + d
        BY <3>1
      <4>2. m % 256 = 0
        BY <2>1, <4>1
      <4>3. m = 0 \/ m = 256
        BY <4>2
      <4> QED
        BY <4>1, <4>3
    <3>3. CASE n + d = 0
      BY <1>2, <3>3 DEF Byte
    <3>4. CASE n + d = 256
      <4>1. 256 - n = d
        BY <3>4 DEF Byte
      <4>2. d % 256 = d
        BY DEF Byte
      <4> QED
        BY <1>2, <4>1, <4>2
    <3> QED
      BY <3>2, <3>3, <3>4
  <2> QED
    BY <2>1
<1>5. \A d \in Byte : Sum(Append(s, d)) = (n + d) % 256
  BY <1>1, Sums, SumIs
<1>6. Summed(s) = Append(s, c)
  BY <1>1, <1>2 DEF Summed
<1> QED
  BY <1>1, <1>2, <1>3, <1>4, <1>5, <1>6

-----------------------------------------------------------------------------
(* What the decoders make of the bytes of a packet *)

\* The packet, or that some of its bytes are missing: r is what the buffer has not,
\* and Z what comes after the packet.
Delivers(result, p, r, Z) ==
    \/ \E rest \in Seq(Byte) : result = Packet(p, rest) /\ rest \o r = Z
    \/ result.is = "more" /\ Len(r) > Len(Z)

LEMMA ResultIs ==
    ASSUME NEW rest, NEW values, NEW left
    PROVE  /\ Result(Scan(rest, values, left)) = Packet(values, rest)
           /\ \A scan : scan.is = "more" => Result(scan) = More(0)
           /\ \A scan : scan.is = "bad" => Result(scan) = Bad
  BY ScanFields DEF Result

LEMMA ResultMore ==
    ASSUME NEW scan, scan.is = "more"
    PROVE  Result(scan).is = "more"
<1>1. Result(scan) = More(0)
  BY DEF Result
<1> QED
  BY <1>1 DEF More

LEMMA ByteCut ==
    ASSUME NEW b \in Seq(Byte), NEW r \in Seq(Byte), NEW s \in Seq(Byte), NEW R \in Seq(Byte),
           Meets(b, r, s, R), Len(s) <= Len(b)
    PROVE  CutAt(Byte, b, r, s, R)
  BY Cut DEF Meets

\* What is before a buffer's bytes.
LEMMA LengthLeft ==
    ASSUME NEW b \in Seq(Byte), NEW r \in Seq(Byte), NEW s \in Seq(Byte), NEW Z \in Seq(Byte),
           Meets(b, r, s, Z)
    PROVE  Len(b) + Len(r) = Len(s) + Len(Z) /\ (Len(b) < Len(s) => Len(r) > Len(Z))
<1>1. /\ Len(b \o r) = Len(b) + Len(r) /\ Len(s \o Z) = Len(s) + Len(Z)
      /\ Len(b) \in Nat /\ Len(r) \in Nat /\ Len(s) \in Nat /\ Len(Z) \in Nat
  BY Lengths
<1>2. Len(b) + Len(r) = Len(s) + Len(Z)
  BY <1>1 DEF Meets
<1> QED
  BY <1>1, <1>2

LEMMA NotEmpty ==
    ASSUME NEW b \in Seq(Byte)
    PROVE  b = <<>> <=> Len(b) = 0
  BY EmptySeq

LEMMA WireDelivers ==
    ASSUME NEW p, IsFieldwise("wire", p),
           NEW b \in Seq(Byte), NEW r \in Seq(Byte), NEW Z \in Seq(Byte),
           Meets(b, r, Encode("wire", p), Z)
    PROVE  Delivers(Wire(b), p, r, Z)
<1>1. "wire" \in Framing
  BY DEF Framing
<1>2. PICK C, tag : C = Codes("wire", Kinds(p), p) /\ tag = p[1]
  OBVIOUS
<1>3. IsCoded("wire", p) /\ IsWhole(p) /\ Encode("wire", p) = <<tag>> \o C
  BY <1>1, <1>2, PacketsAreCoded DEF Encode
<1>4. C \in Seq(Byte) /\ tag \in Tags("wire") /\ tag \in Byte
  <2>1. C \in Seq(Byte) /\ tag \in Tags("wire")
    BY <1>1, <1>2, <1>3, CodedTypes DEF IsCoded
  <2> QED
    BY <2>1 DEF Tags, Byte
<1>5. <<tag>> \in Seq(Byte) /\ Len(<<tag>>) = 1
  BY <1>4
<1>6. C \o Z \in Seq(Byte) /\ Meets(b, r, <<tag>>, C \o Z)
  <2>1. C \o Z \in Seq(Byte)
    BY <1>4, Lengths
  <2>2. (<<tag>> \o C) \o Z = <<tag>> \o (C \o Z)
    BY <1>4, <1>5, ByteAssociative
  <2>3. b \o r = (<<tag>> \o C) \o Z
    BY <1>3 DEF Meets
  <2> QED
    BY <2>1, <2>2, <2>3 DEF Meets
<1>7. Len(C) \in Nat /\ Len(Z) \in Nat /\ Len(C \o Z) = Len(C) + Len(Z) /\ Len(r) \in Nat
  BY <1>4, Lengths
<1>8. CASE b = <<>>
  <2>1. Wire(b).is = "more"
    BY <1>8 DEF Wire, More
  <2>2. Len(b) < Len(<<tag>>)
    BY <1>5, <1>8
  <2>3. Len(r) > Len(C \o Z)
    BY <1>5, <1>6, <2>2, LengthLeft
  <2>4. Len(r) > Len(Z)
    BY <1>7, <2>3
  <2> QED
    BY <2>1, <2>4 DEF Delivers
<1>9. CASE b # <<>>
  <2>1. PICK a : a = After(b, 1)
    OBVIOUS
  <2>2. a \in Seq(Byte) /\ Meets(a, r, C, Z) /\ b[1] = tag
    <3>1. Len(<<tag>>) <= Len(b)
      BY <1>5, <1>9, NotEmpty, LenProperties
    <3>2. CutAt(Byte, b, r, <<tag>>, C \o Z)
      BY <1>5, <1>6, <3>1, Cut DEF Meets
    <3>3. b = <<tag>> \o a /\ a \in Seq(Byte) /\ Meets(a, r, C, Z)
      BY <1>5, <2>1, <3>2 DEF CutAt, Meets
    <3>4. (<<tag>> \o a)[1] = <<tag>>[1]
      <4>1. 1 \in 1..(Len(<<tag>>) + Len(a)) /\ 1 <= Len(<<tag>>)
        BY <1>5, <3>3, LenProperties
      <4> QED
        BY <1>5, <3>3, <4>1, ConcatProperties
    <3> QED
      BY <3>3, <3>4
  <2>3. PICK start, scan : /\ start = Scan(a, <<tag>>, 0)
                           /\ scan = Payload("wire", tag, start)
    OBVIOUS
  <2>4. Wire(b) = Result(scan)
    <3>1. Wire(b) = Once({Result(s) : s \in {scan}})
      BY <1>4, <1>9, <2>1, <2>2, <2>3 DEF Wire
    <3>2. {Result(s) : s \in {scan}} = {Result(scan)}
      OBVIOUS
    <3> QED
      BY <3>1, <3>2, OnceIs
  <2>5. Came("wire", Kinds(p), p, 0, r, Z, start)
    BY <1>1, <1>2, <1>3, <2>2, <2>3, FoundTag
  <2>6. Came("wire", Kinds(p), p, Len(Kinds(p)), r, Z, scan)
    BY <1>1, <1>2, <1>3, <2>3, <2>5, FoundAll
  <2>7. CASE scan.is = "more" /\ Len(r) + Slack("wire") > Len(Z)
    <3>1. Len(r) > Len(Z)
      BY <1>7, <2>7 DEF Slack
    <3>2. Result(scan).is = "more"
      BY <2>7, ResultIs DEF More
    <3> QED
      BY <2>4, <3>1, <3>2 DEF Delivers
  <2>8. ASSUME NEW rest, NEW left,
               Found("wire", Kinds(p), p, Len(Kinds(p)), r, Z, scan, rest, left)
        PROVE  Delivers(Wire(b), p, r, Z)
    <3>1. rest \in Seq(Byte) /\ scan = Scan(rest, p, left) /\ Meets(rest, r, <<>>, Z)
      BY <1>1, <1>3, <2>8, FoundWhole
    <3>2. Wire(b) = Packet(p, rest) /\ rest \o r = Z
      BY <2>4, <3>1, ResultIs, ConcatEmptySeq DEF Meets
    <3> QED
      BY <3>1, <3>2 DEF Delivers
  <2> QED
    BY <2>6, <2>7, <2>8 DEF Came
<1> QED
  BY <1>8, <1>9

LEMMA ChunksDeliver ==
    ASSUME NEW c \in [1..Size -> Byte],
           NEW b \in Seq(Byte), NEW r \in Seq(Byte), NEW Z \in Seq(Byte), Meets(b, r, c, Z)
    PROVE  Delivers(Chunks(b), <<c>>, r, Z)
<1>1. Size \in Nat
  BY SizeAssumption
<1>2. c \in Seq(Byte) /\ Len(c) = Size
  BY <1>1
<1>3. CASE Len(b) < Size
  <2>1. Chunks(b).is = "more"
    BY <1>3 DEF Chunks, More
  <2> QED
    BY <1>2, <1>3, <2>1, LengthLeft DEF Delivers
<1>4. CASE ~ (Len(b) < Size)
  <2>1. Len(c) <= Len(b)
    BY <1>1, <1>2, <1>4, LenProperties
  <2>2. CutAt(Byte, b, r, c, Z)
    BY <1>2, <2>1, Cut DEF Meets
  <2>3. Chunks(b) = Packet(<<c>>, After(b, Size))
    BY <1>2, <1>4, <2>2 DEF Chunks, CutAt
  <2> QED
    BY <1>2, <2>2, <2>3 DEF CutAt, Delivers
<1> QED
  BY <1>3, <1>4

\* The first from bytes have no end of line.
Unended(b, from) == from \in 0..Len(b) /\ \A i \in 1..from : b[i] # 10

LEMMA LinesDeliver ==
    ASSUME NEW line \in Seq(Byte \ {10}), NEW b \in Seq(Byte), NEW r \in Seq(Byte),
           NEW Z \in Seq(Byte), Meets(b, r, Append(line, 10), Z), NEW from, Unended(b, from)
    PROVE  Delivers(Lines(b, from), <<line>>, r, Z)
<1>1. PICK s, n : s = Append(line, 10) /\ n = Len(line) + 1
  OBVIOUS
<1>2. line \in Seq(Byte) /\ Len(line) \in Nat /\ \A i \in 1..Len(line) : line[i] # 10
  <2>1. Byte \ {10} \subseteq Byte
    OBVIOUS
  <2>2. line \in Seq(Byte) /\ Len(line) \in Nat
    BY <2>1, SeqMonotonic, LenProperties
  <2>3. \A i \in 1..Len(line) : line[i] \in Byte \ {10}
    BY ElementOfSeq
  <2> QED
    BY <2>2, <2>3
<1>3. /\ s \in Seq(Byte) /\ Len(s) = n /\ s[n] = 10 /\ \A i \in 1..Len(line) : s[i] = line[i]
      /\ n \in Nat /\ n - 1 = Len(line)
  <2>1. 10 \in Byte
    BY DEF Byte
  <2> QED
    BY <1>1, <1>2, <2>1, AppendProperties
<1>4. Len(b) \in Nat /\ Len(r) \in Nat /\ Len(Z) \in Nat /\ from \in Nat /\ from <= Len(b)
  BY LenProperties DEF Unended
<1>5. Meets(b, r, s, Z)
  BY <1>1
<1>6. \A i \in 1..Len(b) : i <= n => b[i] = s[i]
  <2>1. ASSUME NEW i \in 1..Len(b), i <= n PROVE b[i] = s[i]
    <3>1. (b \o r)[i] = b[i]
      BY <1>4, ConcatProperties
    <3>2. (s \o Z)[i] = s[i]
      <4>1. i \in 1..(Len(s) + Len(Z)) /\ i <= Len(s)
        BY <1>3, <1>4, <2>1
      <4> QED
        BY <1>3, <4>1, ConcatProperties
    <3> QED
      BY <1>5, <3>1, <3>2 DEF Meets
  <2> QED
    BY <2>1
<1>7. CASE Len(b) < n
  <2>1. LineEnds(b, from) = {}
    <3>1. ASSUME NEW i \in (from + 1)..Len(b) PROVE b[i] # 10
      <4>1. i \in 1..Len(b) /\ i <= n /\ i \in 1..Len(line)
        BY <1>3, <1>4, <1>7
      <4> QED
        BY <1>2, <1>3, <1>6, <4>1
    <3> QED
      BY <3>1 DEF LineEnds
  <2>2. Lines(b, from).is = "more"
    BY <2>1 DEF Lines, More
  <2>3. Len(r) > Len(Z)
    BY <1>3, <1>5, <1>7, LengthLeft
  <2> QED
    BY <2>2, <2>3 DEF Delivers
<1>8. CASE n <= Len(b)
  <2>1. CutAt(Byte, b, r, s, Z)
    BY <1>3, <1>5, <1>8, Cut DEF Meets
  <2>2. b[n] = 10 /\ \A i \in 1..(n - 1) : b[i] = line[i] /\ b[i] # 10
    <3>1. n \in 1..Len(b)
      BY <1>2, <1>3, <1>4, <1>8
    <3>2. b[n] = 10
      BY <1>3, <1>6, <3>1
    <3>3. ASSUME NEW i \in 1..(n - 1) PROVE b[i] = line[i] /\ b[i] # 10
      <4>1. i \in 1..Len(b) /\ i <= n /\ i \in 1..Len(line)
        BY <1>3, <1>4, <1>8
      <4> QED
        BY <1>2, <1>3, <1>6, <4>1
    <3> QED
      BY <3>2, <3>3
  <2>3. from < n
    <3>1. n \in 1..from => b[n] # 10
      BY DEF Unended
    <3> QED
      BY <1>2, <1>3, <1>4, <2>2, <3>1
  <2>4. n \in LineEnds(b, from) /\ \A j \in LineEnds(b, from) : n <= j
    <3>1. n \in LineEnds(b, from)
      BY <1>3, <1>4, <1>8, <2>2, <2>3 DEF LineEnds
    <3>2. ASSUME NEW j \in LineEnds(b, from) PROVE n <= j
      <4>1. j \in Nat /\ j >= 1 /\ b[j] = 10
        BY <1>4 DEF LineEnds
      <4>2. ~ (j \in 1..(n - 1))
        BY <2>2, <4>1
      <4> QED
        BY <1>3, <4>1, <4>2
    <3> QED
      BY <3>1, <3>2
  <2>5. FirstEnd(b, from) = n
    <3>1. ASSUME NEW i \in LineEnds(b, from), \A j \in LineEnds(b, from) : i <= j
          PROVE  i = n
      <4>1. i <= n /\ n <= i /\ i \in Nat
        BY <1>4, <2>4, <3>1 DEF LineEnds
      <4> QED
        BY <1>3, <4>1
    <3> QED
      BY <2>4, <3>1 DEF FirstEnd
  <2>6. SubSeq(b, 1, n - 1) = line
    <3>1. PICK l \in Nat : l = n - 1
      BY <1>2, <1>3
    <3>2. /\ SubSeq(b, 1, l) \in Seq(Byte) /\ Len(SubSeq(b, 1, l)) = l
          /\ \A i \in 1..l : SubSeq(b, 1, l)[i] = b[i]
      <4>1. l <= Len(b)
        BY <1>3, <1>4, <1>8, <3>1
      <4> QED
        BY <1>4, <4>1
    <3>3. \A i \in 1..l : SubSeq(b, 1, l)[i] = line[i]
      BY <2>2, <3>1, <3>2
    <3> QED
      BY <1>2, <1>3, <3>1, <3>2, <3>3, SeqEqual
  <2>7. Lines(b, from) = Packet(<<line>>, After(b, n))
    BY <2>4, <2>5, <2>6 DEF Lines
  <2> QED
    BY <1>3, <2>1, <2>7 DEF CutAt, Delivers
<1> QED
  BY <1>3, <1>4, <1>7, <1>8

\* A packet of pest control: its tag, its length, its payload and its checksum.
Shaped(p, h, C, c, L) ==
    /\ IsCoded("pest", p) /\ IsWhole(p) /\ p[1] \in Byte
    /\ C = Codes("pest", Kinds(p), p) /\ L = Len(C) + 6
    /\ Fits(L, 4) /\ h = <<p[1]>> \o U32(L)
    /\ Len(h) = 5 /\ Len(U32(L)) = 4 /\ U32(L) \in Seq(Byte) /\ Num(U32(L)) = L
    /\ h \o C \in Seq(Byte) /\ c = (256 - Sum(h \o C)) % 256
    /\ Encode("pest", p) = (h \o C) \o <<c>> /\ Encode("pest", p) \in Seq(Byte)
    /\ Len(Encode("pest", p)) = L /\ Sum(Encode("pest", p)) = 0

LEMMA Finalized ==
    ASSUME NEW p, IsFieldwise("pest", p)
    PROVE  \E h, C \in Seq(Byte) : \E c \in Byte : \E L \in Nat : Shaped(p, h, C, c, L)
<1>1. "pest" \in Framing
  BY DEF Framing
<1>2. PICK C : C = Codes("pest", Kinds(p), p)
  OBVIOUS
<1>3. /\ IsCoded("pest", p) /\ IsWhole(p) /\ Fits(Len(C) + 6, 4)
      /\ FlattenSeq(Fieldwise("pest", p)) = C
  BY <1>1, <1>2, PacketsAreCoded
<1>4. C \in Seq(Byte) /\ p[1] \in Tags("pest") /\ p[1] \in Byte
  <2>1. C \in Seq(Byte) /\ p[1] \in Tags("pest")
    BY <1>1, <1>2, <1>3, CodedTypes DEF IsCoded
  <2> QED
    BY <2>1 DEF Tags, Byte
<1>5. PICK L \in Nat : L = Len(C) + 6
  BY <1>4, LenProperties
<1>6. U32(L) \in Seq(Byte) /\ Len(U32(L)) = 4 /\ Num(U32(L)) = L
  <2>1. Number(4, L) = U32(L)
    BY DEF Number
  <2>2. 4 \in {1, 2, 4} /\ Fits(L, 4)
    BY <1>3, <1>5
  <2> QED
    BY <2>1, <2>2, NumberIs
<1>7. PICK h : h = <<p[1]>> \o U32(L)
  OBVIOUS
<1>8. h \in Seq(Byte) /\ Len(h) = 5
  <2>1. <<p[1]>> \in Seq(Byte) /\ Len(<<p[1]>>) = 1
    BY <1>4
  <2>2. h \in Seq(Byte) /\ Len(h) = 1 + 4
    BY ZenonT(60), <1>6, <1>7, <2>1, Lengths
  <2> QED
    BY <2>2
<1>9. h \o C \in Seq(Byte) /\ Len(h \o C) = 5 + Len(C) /\ Len(C) \in Nat
  BY <1>4, <1>8, Lengths
<1>10. PICK s : s = h \o C
  OBVIOUS
<1>11. PICK c \in Byte : c = (256 - Sum(s)) % 256
  BY ZenonT(60), <1>9, <1>10, SummedSums
<1>12. Encode("pest", p) = Append(s, c) /\ Sum(Append(s, c)) = 0
  <2>1. Encode("pest", p) = Once({Summed(bytes) : bytes \in {s}})
    BY <1>3, <1>5, <1>7, <1>10 DEF Encode, Finalize
  <2>2. {Summed(bytes) : bytes \in {s}} = {Summed(s)}
    OBVIOUS
  <2>3. Encode("pest", p) = Summed(s)
    BY <2>1, <2>2, OnceIs
  <2> QED
    BY ZenonT(60), <1>9, <1>10, <1>11, <2>3, SummedSums
<1>13. Append(s, c) = s \o <<c>> /\ s \o <<c>> \in Seq(Byte) /\ Len(s \o <<c>>) = L
  <2>1. Append(s, c) = s \o <<c>>
    BY <1>9, <1>10, AppendIsConcat
  <2>2. Append(s, c) \in Seq(Byte) /\ Len(Append(s, c)) = Len(s) + 1
    BY <1>9, <1>10, AppendProperties
  <2>3. Len(s) + 1 = L
    BY <1>5, <1>9, <1>10
  <2> QED
    BY <2>1, <2>2, <2>3
<1>14. Fits(L, 4)
  BY <1>3, <1>5
<1>15. Shaped(p, h, C, c, L)
  <2>1. Encode("pest", p) = s \o <<c>>
    BY <1>12, <1>13
  <2>2. /\ h \o C \in Seq(Byte) /\ c = (256 - Sum(h \o C)) % 256
        /\ Encode("pest", p) = (h \o C) \o <<c>>
    BY <1>9, <1>10, <1>11, <2>1
  <2>3. /\ Encode("pest", p) \in Seq(Byte)
        /\ Len(Encode("pest", p)) = L /\ Sum(Encode("pest", p)) = 0
    BY <1>12, <1>13
  <2> QED
    BY <1>2, <1>3, <1>4, <1>5, <1>6, <1>7, <1>8, <1>14, <2>2, <2>3 DEF Shaped
<1> QED
  BY <1>4, <1>8, <1>15

\* The checksum of a packet of which the scan has left nothing but that.
LEMMA CheckedDelivers ==
    ASSUME NEW p, NEW b \in Seq(Byte), NEW r \in Seq(Byte), NEW Z \in Seq(Byte),
           NEW s \in Seq(Byte), NEW c \in Byte, NEW rest \in Seq(Byte),
           Meets(b, r, s, Z), Sum(s) = 0, Meets(rest, r, <<c>>, Z)
    PROVE  Delivers(Result(Checked(b, Len(s), Scan(rest, p, 1))), p, r, Z)
<1>1. PICK scan, all : scan = Scan(rest, p, 1) /\ all = Take("pest", scan, 1, 0)
  OBVIOUS
<1>2. <<c>> \in Seq(Byte) /\ Len(<<c>>) = 1
  OBVIOUS
<1>3. scan.is = "ok" /\ scan.values = p
  BY <1>1, ScanFields
<1>4. Gets(all, p, 1, <<c>>, r, Z, 0)
  <2>1. 0 \in {0, 1} /\ Len(<<c>>) <= 1 /\ 1 \in Int
    BY <1>2
  <2>2. Gets(Take("pest", Scan(rest, p, 1), Len(<<c>>), 0), p, 1, <<c>>, r, Z, 0)
    <3>1. "pest" \in Framing
      BY DEF Framing
    <3> QED
      BY <1>2, <2>1, <3>1, TakeThem
  <2> QED
    BY <1>1, <1>2, <2>2
<1>5. Len(s) \in Nat /\ Len(b) \in Nat /\ Len(r) \in Nat /\ Len(Z) \in Nat
  BY LenProperties
<1>6. CASE all.is = "more" /\ Len(r) + 0 > Len(Z)
  <2>1. Checked(b, Len(s), scan) = all
    BY <1>1, <1>3, <1>6 DEF Checked
  <2>2. Result(all).is = "more"
    BY <1>6, ResultMore
  <2>3. Len(r) > Len(Z)
    BY <1>5, <1>6
  <2> QED
    BY <1>1, <2>1, <2>2, <2>3 DEF Delivers
<1>7. ASSUME NEW rest2 \in Seq(Byte), rest2 \o r = Z,
             all = Scan(rest2, Append(p, <<c>>), 1 - Len(<<c>>))
      PROVE  Delivers(Result(Checked(b, Len(s), scan)), p, r, Z)
  <2>1. all.is = "ok" /\ all.left = 0 /\ [all EXCEPT !.values = p] = Scan(rest2, p, 0)
    <3>1. 1 - Len(<<c>>) = 0
      BY <1>2
    <3>2. all = Scan(rest2, Append(p, <<c>>), 0)
      BY <1>7, <3>1
    <3> QED
      BY <3>2, ScanFields
  <2>2. Len(s) <= Len(b)
    <3>1. Len(b) + Len(r) = Len(s) + Len(Z)
      BY LengthLeft
    <3>2. Len(Z) = Len(rest2) + Len(r) /\ Len(rest2) \in Nat
      BY <1>7, Lengths
    <3> QED
      BY <1>5, <3>1, <3>2
  <2>3. SubSeq(b, 1, Len(s)) = s
    <3>1. CutAt(Byte, b, r, s, Z)
      BY <2>2, Cut DEF Meets
    <3> QED
      BY <3>1 DEF CutAt
  <2>4. ~ (Len(s) > Len(b))
    BY <1>5, <2>2
  <2>5. Checked(b, Len(s), scan) = [all EXCEPT !.values = p]
    BY <1>1, <1>3, <2>1, <2>3, <2>4 DEF Checked
  <2>6. Result(Checked(b, Len(s), scan)) = Packet(p, rest2)
    BY <2>1, <2>5, ResultIs
  <2> QED
    BY <1>7, <2>6 DEF Delivers
<1> QED
  BY <1>1, <1>4, <1>6, <1>7 DEF Gets

LEMMA PestDelivers ==
    ASSUME NEW p, IsFieldwise("pest", p),
           NEW b \in Seq(Byte), NEW r \in Seq(Byte), NEW Z \in Seq(Byte),
           Meets(b, r, Encode("pest", p), Z)
    PROVE  Delivers(Pest(b), p, r, Z)
<1>1. "pest" \in Framing
  BY DEF Framing
<1>2. PICK h, C \in Seq(Byte), c \in Byte, L \in Nat : Shaped(p, h, C, c, L)
  BY Finalized
<1>a. /\ IsCoded("pest", p) /\ IsWhole(p) /\ p[1] \in Byte
      /\ C = Codes("pest", Kinds(p), p) /\ L = Len(C) + 6 /\ h = <<p[1]>> \o U32(L)
      /\ Len(h) = 5 /\ Len(U32(L)) = 4 /\ U32(L) \in Seq(Byte) /\ Num(U32(L)) = L
  BY <1>2 DEF Shaped
<1>b. /\ h \o C \in Seq(Byte) /\ Encode("pest", p) = (h \o C) \o <<c>>
      /\ Encode("pest", p) \in Seq(Byte)
      /\ Len(Encode("pest", p)) = L /\ Sum(Encode("pest", p)) = 0
  BY <1>2 DEF Shaped
<1>3. PICK s, tag, E : s = Encode("pest", p) /\ tag = p[1] /\ E = <<c>> \o Z
  OBVIOUS
<1>4. /\ s \in Seq(Byte) /\ Len(s) = L /\ Meets(b, r, s, Z) /\ <<c>> \in Seq(Byte)
      /\ Len(<<c>>) = 1
  BY <1>b, <1>3
<1>5. E \in Seq(Byte) /\ Len(E) = 1 + Len(Z) /\ Len(Z) \in Nat /\ Len(r) \in Nat /\ Len(C) \in Nat
  BY <1>3, <1>4, Lengths
<1>6. Meets(b, r, h, C \o E) /\ C \o E \in Seq(Byte)
  <2>1. ((h \o C) \o <<c>>) \o Z = (h \o C) \o E
    <3>1. h \o C \in Seq(Byte)
      BY <1>b
    <3>2. <<c>> \in Seq(Byte)
      BY <1>4
    <3>3. ((h \o C) \o <<c>>) \o Z = (h \o C) \o (<<c>> \o Z)
      BY SMTT(40), <3>1, <3>2, ByteAssociative
    <3> QED
      BY <1>3, <3>3
  <2>2. (h \o C) \o E = h \o (C \o E)
    BY ZenonT(60), <1>5, ByteAssociative
  <2>3. b \o r = ((h \o C) \o <<c>>) \o Z
    BY <1>b DEF Meets
  <2> QED
    BY <1>5, <2>1, <2>2, <2>3, Lengths DEF Meets
<1>7. CASE Len(b) < 6
  <2>1. Len(r) > Len(Z)
    <3>1. Len(b) < Len(s)
      <4>1. Len(b) \in Nat /\ Len(s) = Len(C) + 6
        BY <1>a, <1>4, LenProperties
      <4> QED
        BY <1>5, <1>7, <4>1
    <3> QED
      BY <1>4, <3>1, LengthLeft
  <2>2. Pest(b).is = "more"
    <3>1. CASE b = <<>>
      BY <3>1 DEF Pest, More
    <3>2. CASE b # <<>>
      <4>1. b[1] = tag
        <5>1. (b \o r)[1] = b[1]
          <6>1. 1 \in 1..(Len(b) + Len(r)) /\ 1 <= Len(b)
            BY <1>5, <3>2, NotEmpty, LenProperties
          <6> QED
            BY <6>1, ConcatProperties
        <5>2. (h \o (C \o E))[1] = h[1]
          <6>1. 1 \in 1..(Len(h) + Len(C \o E)) /\ 1 <= Len(h)
            BY <1>a, <1>6, LenProperties
          <6> QED
            BY <1>6, <6>1, ConcatProperties
        <5>3. h[1] = tag
          <6>1. <<tag>> \in Seq(Byte) /\ Len(<<tag>>) = 1 /\ <<tag>>[1] = tag
            BY <1>a, <1>3
          <6>2. 1 \in 1..(Len(<<tag>>) + Len(U32(L))) /\ 1 <= Len(<<tag>>)
            BY <1>a, <6>1
          <6>3. (<<tag>> \o U32(L))[1] = <<tag>>[1]
            BY <1>a, <6>1, <6>2, ConcatProperties
          <6> QED
            BY <1>a, <1>3, <6>1, <6>3
        <5> QED
          BY <1>6, <5>1, <5>2, <5>3 DEF Meets
      <4>2. tag \in Tags("pest")
        BY <1>a, <1>3 DEF IsCoded
      <4> QED
        BY <1>7, <3>2, <4>1, <4>2 DEF Pest, More
    <3> QED
      BY <3>1, <3>2
  <2> QED
    BY <2>1, <2>2 DEF Delivers
<1>8. CASE ~ (Len(b) < 6)
  <2>1. Len(b) \in Nat /\ Len(b) >= 6
    BY <1>8, LenProperties
  <2>2. CutAt(Byte, b, r, h, C \o E)
    <3>1. Len(h) <= Len(b)
      BY <1>a, <2>1
    <3>2. C \o E \in Seq(Byte)
      BY <1>6
    <3> QED
      BY <1>6, <3>1, <3>2, ByteCut
  <2>3. PICK a : a = After(b, 5)
    OBVIOUS
  <2>4. a \in Seq(Byte) /\ Meets(a, r, C, E) /\ SubSeq(b, 1, 5) = h
    BY <1>a, <2>2, <2>3 DEF CutAt, Meets
  <2>5. \A i \in 1..5 : b[i] = h[i]
    <3>1. \A i \in 1..5 : SubSeq(b, 1, 5)[i] = b[i]
      BY <2>1
    <3> QED
      BY <2>4, <3>1
  <2>6. h[1] = tag /\ \A i \in 1..4 : h[i + 1] = U32(L)[i]
    <3>1. PICK x, n : x = <<tag>> /\ n = U32(L)
      OBVIOUS
    <3>2. /\ x \in Seq(Byte) /\ Len(x) = 1 /\ x[1] = tag /\ n \in Seq(Byte) /\ Len(n) = 4
          /\ h = x \o n
      BY <1>a, <1>3, <3>1
    <3>3. \A i \in 1..(Len(x) + Len(n)) : (x \o n)[i] = IF i <= Len(x) THEN x[i] ELSE n[i - Len(x)]
      BY <3>2, ConcatProperties
    <3>4. \A i \in 1..5 : h[i] = IF i <= 1 THEN x[i] ELSE n[i - 1]
      <4>1. Len(x) + Len(n) = 5 /\ \A i \in 1..5 : i - Len(x) = i - 1
        BY <3>2
      <4>2. \A i \in 1..5 : (x \o n)[i] = IF i <= 1 THEN x[i] ELSE n[i - Len(x)]
        BY <3>2, <3>3, <4>1
      <4> QED
        BY <3>2, <4>1, <4>2
    <3>5. \A i \in 1..4 : i + 1 \in 1..5 /\ ~ (i + 1 <= 1) /\ i + 1 - 1 = i
      OBVIOUS
    <3>6. 1 \in 1..5 /\ 1 <= 1
      OBVIOUS
    <3>7. h[1] = tag
      BY <3>2, <3>4, <3>6
    <3>8. ASSUME NEW i \in 1..4 PROVE h[i + 1] = n[i]
      <4>1. h[i + 1] = n[i + 1 - 1]
        BY <3>4, <3>5
      <4> QED
        BY <3>5, <4>1
    <3> QED
      BY <3>1, <3>7, <3>8
  <2>7. SubSeq(b, 2, 5) = U32(L)
    <3>1. /\ SubSeq(b, 2, 5) \in Seq(Byte) /\ Len(SubSeq(b, 2, 5)) = 4
          /\ \A i \in 1..4 : SubSeq(b, 2, 5)[i] = b[i + 1]
      BY <2>1
    <3>2. \A i \in 1..4 : i + 1 \in 1..5
      OBVIOUS
    <3>3. \A i \in 1..4 : SubSeq(b, 2, 5)[i] = U32(L)[i]
      BY <2>5, <2>6, <3>1, <3>2
    <3> QED
      BY <1>a, <3>1, <3>3, SeqEqual
  <2>8. b[1] = tag /\ b # <<>> /\ tag \in Tags("pest")
    <3>1. 1 \in 1..5
      OBVIOUS
    <3> QED
      BY <1>a, <1>3, <2>1, <2>5, <2>6, <3>1, NotEmpty DEF IsCoded
  <2>9. PICK start, scan : /\ start = Scan(a, <<tag>>, L - 5)
                           /\ scan = Payload("pest", tag, start)
    OBVIOUS
  <2>10. Pest(b) = Result(Checked(b, L, scan))
    <3>1. Num(SubSeq(b, 2, 5)) = L
      BY <1>a, <2>7
    <3>2. Pest(b) = Once({Result(Checked(b, L, sc)) : sc \in {scan}})
      BY <1>8, <2>3, <2>8, <2>9, <3>1 DEF Pest
    <3>3. {Result(Checked(b, L, sc)) : sc \in {scan}} = {Result(Checked(b, L, scan))}
      OBVIOUS
    <3> QED
      BY <3>2, <3>3, OnceIs
  <2>11. L - 5 \in Int /\ L - 5 = Len(C) + 1
    BY <1>a, <1>5
  <2>12. Came("pest", Kinds(p), p, 0, r, E, start)
    <3>1. Meets(a, r, Codes("pest", Kinds(p), p), E)
      BY <1>a, <2>4
    <3>2. L - 5 = Len(Codes("pest", Kinds(p), p)) + 1
      BY <1>a, <2>11
    <3>3. Came("pest", Kinds(p), p, 0, r, E, Scan(a, <<p[1]>>, L - 5))
      BY <1>1, <1>a, <1>5, <2>4, <2>11, <3>1, <3>2, FoundTag
    <3> QED
      BY <1>3, <2>9, <3>3
  <2>13. Came("pest", Kinds(p), p, Len(Kinds(p)), r, E, scan)
    <3>1. Came("pest", Kinds(p), p, Len(Kinds(p)), r, E, Payload("pest", p[1], start))
      BY <1>1, <1>a, <1>5, <2>12, FoundAll
    <3> QED
      BY <1>3, <2>9, <3>1
  <2>14. CASE scan.is = "more" /\ Len(r) + Slack("pest") > Len(E)
    <3>1. Len(r) > Len(Z)
      BY <1>5, <2>14 DEF Slack
    <3>2. Checked(b, L, scan) = scan
      BY <2>14 DEF Checked
    <3>3. Result(scan).is = "more"
      BY <2>14, ResultMore
    <3> QED
      BY <2>10, <3>1, <3>2, <3>3 DEF Delivers
  <2>15. ASSUME NEW rest, NEW left,
                Found("pest", Kinds(p), p, Len(Kinds(p)), r, E, scan, rest, left)
         PROVE  Delivers(Pest(b), p, r, Z)
    <3>1. /\ rest \in Seq(Byte) /\ left \in Int /\ scan = Scan(rest, p, left)
          /\ Meets(rest, r, <<>>, E) /\ left = 1
      BY <1>1, <1>a, <1>5, <2>15, FoundWhole
    <3>2. Meets(rest, r, <<c>>, Z)
      <4>1. <<>> \o E = E
        BY <1>5, ConcatEmptySeq
      <4> QED
        BY <1>3, <3>1, <4>1 DEF Meets
    <3>3. Delivers(Result(Checked(b, Len(s), Scan(rest, p, 1))), p, r, Z)
      <4>1. s \in Seq(Byte) /\ Sum(s) = 0
        BY <1>b, <1>3
      <4>2. Meets(b, r, s, Z) /\ rest \in Seq(Byte)
        BY <1>4, <3>1
      <4> QED
        BY <3>2, <4>1, <4>2, CheckedDelivers
    <3> QED
      BY <1>4, <2>10, <3>1, <3>3
  <2> QED
    BY <2>13, <2>14, <2>15 DEF Came
<1> QED
  BY <1>7, <1>8

\* The port for tokio has the packets of the other one, and its bytes.
LEMMA TokioIsWire ==
    ASSUME NEW p, IsFieldwise("tokio", p)
    PROVE  IsFieldwise("wire", p) /\ Encode("tokio", p) = Encode("wire", p)
<1>1. \A kind : Width("tokio", kind) = Width("wire", kind)
  BY DEF Width
<1>2. \A kind, v : Bytes("tokio", kind, v) = Bytes("wire", kind, v)
  <2>1. ASSUME NEW kind, NEW v PROVE Bytes("tokio", kind, v) = Bytes("wire", kind, v)
    <3>1. PICK w : w = Width("wire", kind)
      OBVIOUS
    <3>2. w = Width("tokio", kind)
      BY <1>1, <3>1
    <3> QED
      BY <3>1, <3>2, BytesAre
  <2> QED
    BY <2>1
<1>3. \A kind, v : IsValue("tokio", kind, v) <=> IsValue("wire", kind, v)
  <2>1. ASSUME NEW kind, NEW v PROVE IsValue("tokio", kind, v) <=> IsValue("wire", kind, v)
    <3>1. PICK w : w = Width("wire", kind)
      OBVIOUS
    <3>2. w = Width("tokio", kind)
      BY <1>1, <3>1
    <3> QED
      BY <3>1, <3>2 DEF IsValue
  <2> QED
    BY <2>1
<1>4. Tags("tokio") = Tags("wire")
  BY DEF Tags
<1>5. Fieldwise("tokio", p) = Fieldwise("wire", p)
  BY <1>2 DEF Fieldwise
<1>6. IsFieldwise("wire", p)
  BY <1>3, <1>4 DEF IsFieldwise
<1>7. Encode("tokio", p) = Encode("wire", p)
  BY <1>5 DEF Encode
<1> QED
  BY <1>6, <1>7

\* All but the ciphers.
Formats == {"lines", "chunks", "wire", "tokio", "pest"}

LEMMA EncodeTypes ==
    ASSUME NEW F \in Formats, NEW p, IsPacket(F, p)
    PROVE  Encode(F, p) \in Seq(Byte)
<1>1. CASE F = "lines"
  <2>1. p[1] \in Seq(Byte \ {10}) /\ Byte \ {10} \subseteq Byte /\ 10 \in Byte
    BY <1>1 DEF IsPacket, Byte
  <2>2. p[1] \in Seq(Byte)
    BY <2>1, SeqMonotonic
  <2>3. Encode(F, p) = Append(p[1], 10)
    BY <1>1 DEF Encode
  <2> QED
    BY <2>1, <2>2, <2>3, AppendProperties
<1>2. CASE F = "chunks"
  <2>1. p[1] \in [1..Size -> Byte] /\ Size \in Nat
    BY <1>2, SizeAssumption DEF IsPacket
  <2>2. Encode(F, p) = p[1]
    BY <1>2 DEF Encode
  <2> QED
    BY <2>1, <2>2
<1>3. ASSUME IsFieldwise("wire", p) PROVE Encode("wire", p) \in Seq(Byte)
  <2>1. "wire" \in Framing
    BY DEF Framing
  <2>2. PICK C, tag : C = Codes("wire", Kinds(p), p) /\ tag = p[1]
    OBVIOUS
  <2>3. C \in Seq(Byte) /\ tag \in Tags("wire") /\ Encode("wire", p) = <<tag>> \o C
    <3>1. IsCoded("wire", p) /\ Encode("wire", p) = <<tag>> \o C
      BY <1>3, <2>1, <2>2, PacketsAreCoded DEF Encode
    <3> QED
      BY <2>1, <2>2, <3>1, CodedTypes DEF IsCoded
  <2>4. <<tag>> \in Seq(Byte)
    BY <2>3 DEF Tags, Byte
  <2> QED
    BY <2>3, <2>4, Lengths
<1>4. CASE F = "wire"
  BY <1>3, <1>4 DEF IsPacket
<1>5. CASE F = "tokio"
  <2>1. IsFieldwise("tokio", p)
    BY <1>5 DEF IsPacket
  <2> QED
    BY <1>3, <1>5, <2>1, TokioIsWire
<1>6. CASE F = "pest"
  <2>1. IsFieldwise("pest", p)
    BY <1>6 DEF IsPacket
  <2> QED
    BY ZenonT(60), <1>6, <2>1, Finalized DEF Shaped
<1> QED
  BY <1>1, <1>2, <1>4, <1>5, <1>6 DEF Formats

\* Whatever part of the bytes that follow a packet's bytes is in the buffer, the decoder
\* gives out the packet, and keeps what comes after it, or wants more bytes: that only
\* while a byte of the packet is missing (each decode, and handle_eof, which takes what
\* the decoder does not give out at the end of a stream for an error).
THEOREM PacketsAreDecoded ==
    ASSUME NEW F \in Formats, NEW p, IsPacket(F, p),
           NEW b \in Seq(Byte), NEW r \in Seq(Byte), NEW Z \in Seq(Byte),
           Meets(b, r, Encode(F, p), Z), NEW from, Unended(b, from), NEW codec
    PROVE  Delivers(Decode(F, b, from, codec), p, r, Z)
<1>1. CASE F = "lines"
  <2>1. p = <<p[1]>> /\ p[1] \in Seq(Byte \ {10})
    BY <1>1 DEF IsPacket
  <2>2. Encode(F, p) = Append(p[1], 10) /\ Decode(F, b, from, codec) = Lines(b, from)
    BY <1>1 DEF Encode, Decode
  <2>3. Delivers(Lines(b, from), <<p[1]>>, r, Z)
    <3>1. Meets(b, r, Append(p[1], 10), Z)
      BY <2>2
    <3> QED
      BY <2>1, <3>1, LinesDeliver
  <2> QED
    BY <2>1, <2>2, <2>3
<1>2. CASE F = "chunks"
  <2>1. p = <<p[1]>> /\ p[1] \in [1..Size -> Byte]
    BY <1>2 DEF IsPacket
  <2>2. Encode(F, p) = p[1] /\ Decode(F, b, from, codec) = Chunks(b)
    BY <1>2 DEF Encode, Decode
  <2>3. Delivers(Chunks(b), <<p[1]>>, r, Z)
    <3>1. Meets(b, r, p[1], Z)
      BY <2>2
    <3> QED
      BY <2>1, <3>1, ChunksDeliver
  <2> QED
    BY <2>1, <2>2, <2>3
<1>3. CASE F = "wire"
  <2>1. IsFieldwise("wire", p) /\ Decode(F, b, from, codec) = Wire(b)
    BY <1>3 DEF IsPacket, Decode
  <2> QED
    BY <1>3, <2>1, WireDelivers
<1>4. CASE F = "tokio"
  <2>1. IsFieldwise("tokio", p) /\ Decode(F, b, from, codec) = Wire(b)
    BY <1>4 DEF IsPacket, Decode
  <2>2. IsFieldwise("wire", p) /\ Meets(b, r, Encode("wire", p), Z)
    BY <1>4, <2>1, TokioIsWire
  <2> QED
    BY <2>1, <2>2, WireDelivers
<1>5. CASE F = "pest"
  <2>1. IsFieldwise("pest", p) /\ Decode(F, b, from, codec) = Pest(b)
    BY <1>5 DEF IsPacket, Decode
  <2> QED
    BY <1>5, <2>1, PestDelivers
<1> QED
  BY <1>1, <1>2, <1>3, <1>4, <1>5 DEF Formats

-----------------------------------------------------------------------------
(* What the decoders take *)

\* The value v was taken from the buffer b.
Took(F, kind, v, b, values, left, rest) ==
    /\ IsRead(F, kind, v) /\ Reads(F, kind, v, b, values, left, rest)
    /\ Meets(b, <<>>, Bytes(F, kind, v), rest)

Unfinished(scan) == scan.is \in {"more", "bad"}

LEMMA TookNumber ==
    ASSUME NEW F \in Framing, NEW kind \in Kind \ {"str"}, NEW V, NEW values \in Seq(V),
           NEW left \in Int, NEW b \in Seq(Byte)
    PROVE  \/ Unfinished(Value(F, Scan(b, values, left), kind))
           \/ \E v, rest : Took(F, kind, v, b, values, left, rest)
<1>1. PICK w : w = Width(F, kind)
  OBVIOUS
<1>2. PICK more : more = IF w = 1 THEN 0 ELSE Slack(F)
  OBVIOUS
<1>3. w \in {1, 2, 4} /\ more \in {0, 1} /\ w \in Nat /\ (kind = "action" => w = 1)
  BY <1>1, <1>2, Widths DEF Slack
<1>4. PICK scan : scan = Scan(b, values, left)
  OBVIOUS
<1>5. PICK read : read = Take(F, scan, w, more)
  OBVIOUS
<1>6. Value(F, scan, kind) =
         IF read.is # "ok" THEN read
         ELSE IF kind = "action" /\ Num(Last(read.values)) \notin {144, 160}
              THEN [read EXCEPT !.is = "bad"]
         ELSE [read EXCEPT !.values = Append(values, Num(Last(read.values)))]
  <2>1. scan.values = values
    BY <1>4, ScanFields
  <2>2. read = Take(F, scan, Width(F, kind),
                    IF Width(F, kind) = 1 THEN 0 ELSE IF F = "pest" THEN 1 ELSE 0)
    BY <1>1, <1>2, <1>5 DEF Slack
  <2> QED
    BY <2>1, <2>2 DEF Value
<1>7. CASE read.is \in {"more", "bad"}
  <2>1. Value(F, scan, kind) = read
    BY <1>6, <1>7
  <2> QED
    BY <1>4, <1>7, <2>1 DEF Unfinished
<1>8. ASSUME NEW s \in Seq(Byte), NEW rest \in Seq(Byte), Len(s) = w, b = s \o rest,
             read = Scan(rest, Append(values, s), left - w)
      PROVE  \/ Unfinished(Value(F, scan, kind))
             \/ \E v : Took(F, kind, v, b, values, left, rest)
  <2>1. PICK v : v = Num(s)
    OBVIOUS
  <2>2. v \in Nat /\ Fits(v, w) /\ Number(w, v) = s
    BY <1>3, <1>8, <2>1, NumIs
  <2>3. read.is = "ok" /\ Last(read.values) = s
    BY <1>8, ScanFields, LastAppended
  <2>4. CASE kind = "action" /\ v \notin {144, 160}
    <3>1. Value(F, scan, kind) = [read EXCEPT !.is = "bad"]
      BY <1>6, <2>1, <2>3, <2>4
    <3>2. [read EXCEPT !.is = "bad"].is = "bad"
      BY <1>8, ScanFields
    <3> QED
      BY <3>1, <3>2 DEF Unfinished
  <2>5. CASE ~ (kind = "action" /\ v \notin {144, 160})
    <3>1. Value(F, scan, kind) = [read EXCEPT !.values = Append(values, v)]
      BY <1>6, <2>1, <2>3, <2>5
    <3>2. \A u : [Scan(rest, Append(values, s), left - w) EXCEPT !.values = u] =
                    Scan(rest, u, left - w)
      BY ScanFields
    <3>3. Value(F, scan, kind) = Scan(rest, Append(values, v), left - w)
      BY <1>8, <3>1, <3>2
    <3>4. Bytes(F, kind, v) = s /\ Len(Bytes(F, kind, v)) = w
      BY <1>1, <1>8, <2>2, BytesAre
    <3>5. IsRead(F, kind, v)
      BY <1>1, <2>2, <2>5 DEF IsRead
    <3>6. Meets(b, <<>>, Bytes(F, kind, v), rest)
      BY <1>8, <3>4, ConcatEmptySeq DEF Meets
    <3>7. Reads(F, kind, v, b, values, left, rest)
      BY <1>4, <3>3, <3>4 DEF Reads
    <3> QED
      BY <3>5, <3>6, <3>7 DEF Took
  <2> QED
    BY <2>4, <2>5
<1>9. HasTaken(read, F, values, left, w, b)
  BY <1>3, <1>4, <1>5, TakeSome
<1> QED
  BY <1>4, <1>7, <1>8, <1>9 DEF HasTaken

LEMMA TookText ==
    ASSUME NEW F \in Framing, NEW V, NEW values \in Seq(V),
           NEW left \in Int, NEW b \in Seq(Byte)
    PROVE  \/ Unfinished(Value(F, Scan(b, values, left), "str"))
           \/ \E v, rest : Took(F, "str", v, b, values, left, rest)
<1>0. "str" \in Kind
  BY DEF Kind
<1>1. PICK w : w = Width(F, "str")
  OBVIOUS
<1>2. PICK first, more : more = Slack(F) /\ first = IF w = 1 THEN 0 ELSE more
  OBVIOUS
<1>3. w \in {1, 2, 4} /\ w \in Nat /\ first \in {0, 1} /\ more \in {0, 1}
  BY <1>0, <1>1, <1>2, Widths DEF Slack
<1>4. PICK scan : scan = Scan(b, values, left)
  OBVIOUS
<1>5. PICK read : read = Take(F, scan, w, first)
  OBVIOUS
<1>6. Value(F, scan, "str") =
         IF read.is # "ok" THEN read
         ELSE Take(F, [read EXCEPT !.values = values], Num(Last(read.values)), more)
  <2>1. scan.values = values
    BY <1>4, ScanFields
  <2>2. read = Take(F, scan, Width(F, "str"),
                    IF Width(F, "str") = 1 THEN 0 ELSE IF F = "pest" THEN 1 ELSE 0)
    BY <1>1, <1>2, <1>5 DEF Slack
  <2>3. more = IF F = "pest" THEN 1 ELSE 0
    BY <1>2 DEF Slack
  <2> QED
    BY <2>1, <2>2, <2>3 DEF Value
<1>7. CASE read.is \in {"more", "bad"}
  <2>1. Value(F, scan, "str") = read
    BY <1>6, <1>7
  <2> QED
    BY <1>4, <1>7, <2>1 DEF Unfinished
<1>8. ASSUME NEW s \in Seq(Byte), NEW rest \in Seq(Byte), Len(s) = w, b = s \o rest,
             read = Scan(rest, Append(values, s), left - w)
      PROVE  \/ Unfinished(Value(F, scan, "str"))
             \/ \E v, rest2 : Took(F, "str", v, b, values, left, rest2)
  <2>1. PICK n : n = Num(s)
    OBVIOUS
  <2>2. n \in Nat /\ Fits(n, w) /\ Number(w, n) = s
    BY <1>3, <1>8, <2>1, NumIs
  <2>3. read.is = "ok" /\ Last(read.values) = s
    BY <1>8, ScanFields, LastAppended
  <2>4. PICK left2 \in Int : left2 = left - w
    BY <1>3
  <2>5. [read EXCEPT !.values = values] = Scan(rest, values, left2)
    <3>1. \A u : [Scan(rest, Append(values, s), left2) EXCEPT !.values = u] =
                    Scan(rest, u, left2)
      BY ScanFields
    <3> QED
      BY <1>8, <2>4, <3>1
  <2>6. PICK got : got = Take(F, Scan(rest, values, left2), n, more)
    OBVIOUS
  <2>7. Value(F, scan, "str") = got
    BY <1>6, <2>1, <2>3, <2>5, <2>6
  <2>8. CASE got.is \in {"more", "bad"}
    BY <2>7, <2>8 DEF Unfinished
  <2>9. ASSUME NEW v \in Seq(Byte), NEW rest2 \in Seq(Byte), Len(v) = n, rest = v \o rest2,
               got = Scan(rest2, Append(values, v), left2 - n)
        PROVE  Took(F, "str", v, b, values, left, rest2)
    <3>1. Bytes(F, "str", v) = s \o v
      BY <1>1, <2>2, <2>9, BytesAre
    <3>2. IsRead(F, "str", v)
      BY <1>1, <2>2, <2>9 DEF IsRead
    <3>3. Len(Bytes(F, "str", v)) = w + n
      BY <1>8, <2>9, <3>1, Lengths
    <3>4. PICK u \in Nat : u = w
      BY <1>3
    <3>5. left2 - n = left - (w + n)
      BY <2>2, <2>4, <3>4
    <3>6. Value(F, scan, "str") = Scan(rest2, Append(values, v), left - (w + n))
      BY <2>7, <2>9, <3>5
    <3>7. Reads(F, "str", v, b, values, left, rest2)
      BY <1>4, <2>9, <3>3, <3>6 DEF Reads
    <3>8. Meets(b, <<>>, Bytes(F, "str", v), rest2)
      <4>1. (s \o v) \o rest2 = s \o (v \o rest2)
        BY ZenonT(60), ByteAssociative
      <4>2. b \o <<>> = b
        BY ConcatEmptySeq
      <4> QED
        BY <1>8, <2>9, <3>1, <4>1, <4>2 DEF Meets
    <3> QED
      BY <3>2, <3>7, <3>8 DEF Took
  <2>10. HasTaken(got, F, values, left2, n, rest)
    BY <1>3, <2>2, <2>6, TakeSome
  <2> QED
    BY <2>8, <2>9, <2>10 DEF HasTaken
<1>9. HasTaken(read, F, values, left, w, b)
  BY <1>3, <1>4, <1>5, TakeSome
<1> QED
  BY <1>4, <1>7, <1>8, <1>9 DEF HasTaken

LEMMA TookValue ==
    ASSUME NEW F \in Framing, NEW kind \in Kind, NEW V, NEW values \in Seq(V),
           NEW left \in Int, NEW b \in Seq(Byte)
    PROVE  \/ Unfinished(Value(F, Scan(b, values, left), kind))
           \/ \E v, rest : Took(F, kind, v, b, values, left, rest)
<1>1. CASE kind = "str"
  BY <1>1, TookText
<1>2. CASE kind # "str"
  BY <1>2, TookNumber
<1> QED
  BY <1>1, <1>2

\* The first k values of p, of which the first m are those of base, were taken from b,
\* of which rest is left.
Grown(F, ks, base, m, k, b, all, scan, p, rest, left) ==
    /\ rest \in Seq(Byte) /\ left \in Int
    /\ \A i \in 1..k : IsRead(F, ks[i], p[i + 1])
    /\ \A i \in 1..m : p[i] = base[i]
    /\ scan = Scan(rest, First(p, k + 1), left)
    /\ Meets(b, <<>>, Joined(Coded(F, ks, p), k), rest)
    /\ all = Len(Joined(Coded(F, ks, p), k)) + left

Grows(F, ks, base, m, k, b, all, scan) ==
    \/ Unfinished(scan)
    \/ \E p, rest, left : Grown(F, ks, base, m, k, b, all, scan, p, rest, left)

LEMMA SomeCoded ==
    ASSUME NEW F \in Framing, NEW ks \in Seq(Kind), NEW k \in Nat, k <= Len(ks), NEW p,
           \A i \in 1..k : IsRead(F, ks[i], p[i + 1])
    PROVE  /\ \A i \in 1..k : Coded(F, ks, p)[i] = Bytes(F, ks[i], p[i + 1])
           /\ \A i \in 1..k : Coded(F, ks, p)[i] \in Seq(Byte)
           /\ Joined(Coded(F, ks, p), k) \in Seq(Byte)
<1>1. Len(ks) \in Nat
  BY LenProperties
<1>2. \A i \in 1..k : i \in 1..Len(ks)
  BY <1>1
<1>3. \A i \in 1..k : Coded(F, ks, p)[i] = Bytes(F, ks[i], p[i + 1])
  BY <1>2 DEF Coded
<1>4. ASSUME NEW i \in 1..k PROVE Bytes(F, ks[i], p[i + 1]) \in Seq(Byte)
  <2>1. ks[i] \in Kind /\ IsRead(F, ks[i], p[i + 1])
    BY <1>2, ElementOfSeq
  <2> QED
    BY <2>1, BytesAreBytes
<1>5. \A i \in 1..k : Coded(F, ks, p)[i] \in Seq(Byte)
  BY <1>3, <1>4
<1> QED
  BY <1>3, <1>5, JoinTypes

LEMMA GrowOne ==
    ASSUME NEW F \in Framing, NEW ks \in Seq(Kind), NEW k \in Nat, k < Len(ks), NEW base,
           NEW m \in Nat, m <= k + 1, NEW b \in Seq(Byte), NEW all, NEW scan, NEW p, NEW rest,
           NEW left, Grown(F, ks, base, m, k, b, all, scan, p, rest, left)
    PROVE  Grows(F, ks, base, m, k + 1, b, all, Value(F, scan, ks[k + 1]))
<1>1. PICK kind : kind = ks[k + 1]
  OBVIOUS
<1>2. kind \in Kind /\ Len(ks) \in Nat /\ k <= Len(ks) /\ k + 1 <= Len(ks)
  <2>1. Len(ks) \in Nat
    BY LenProperties
  <2>2. k + 1 \in 1..Len(ks)
    BY <2>1
  <2> QED
    BY <1>1, <2>1, <2>2, ElementOfSeq
<1>3. PICK values : values = First(p, k + 1)
  OBVIOUS
<1>4. /\ rest \in Seq(Byte) /\ left \in Int /\ scan = Scan(rest, values, left)
      /\ \A i \in 1..k : IsRead(F, ks[i], p[i + 1])
      /\ \A i \in 1..m : p[i] = base[i]
  BY <1>3 DEF Grown
<1>5. PICK before : before = Joined(Coded(F, ks, p), k)
  OBVIOUS
<1>6. /\ before \in Seq(Byte) /\ Meets(b, <<>>, before, rest) /\ all = Len(before) + left
      /\ \A i \in 1..k : Coded(F, ks, p)[i] = Bytes(F, ks[i], p[i + 1])
  BY <1>2, <1>4, <1>5, SomeCoded DEF Grown
<1>7. values \in Seq({p[i] : i \in 1..(k + 2)})
  <2>1. k + 1 \in Nat /\ k + 1 + 1 = k + 2
    OBVIOUS
  <2> QED
    BY <1>3, <2>1, FirstStep
<1>8. \/ Unfinished(Value(F, scan, kind))
      \/ \E v, rest2 : Took(F, kind, v, rest, values, left, rest2)
  BY <1>2, <1>4, <1>7, TookValue
<1>9. ASSUME NEW v, NEW rest2, Took(F, kind, v, rest, values, left, rest2)
      PROVE  Grows(F, ks, base, m, k + 1, b, all, Value(F, scan, kind))
  <2>1. PICK s : s = Bytes(F, kind, v)
    OBVIOUS
  <2>2. /\ IsRead(F, kind, v) /\ rest2 \in Seq(Byte) /\ s \in Seq(Byte)
        /\ Value(F, scan, kind) = Scan(rest2, Append(values, v), left - Len(s))
        /\ Meets(rest, <<>>, s, rest2)
    <3>1. IsRead(F, kind, v)
      BY <1>9 DEF Took
    <3>2. s \in Seq(Byte)
      BY <1>2, <2>1, <3>1, BytesAreBytes
    <3> QED
      BY <1>4, <1>9, <2>1, <3>1, <3>2 DEF Took, Reads
  <2>3. PICK q : q = [i \in 1..(k + 2) |-> IF i = k + 2 THEN v ELSE p[i]]
    OBVIOUS
  <2>4. q[k + 2] = v /\ \A i \in 1..(k + 1) : q[i] = p[i]
    <3>1. k + 2 \in 1..(k + 2) /\ \A i \in 1..(k + 1) : i \in 1..(k + 2) /\ i # k + 2
      OBVIOUS
    <3> QED
      BY <2>3, <3>1
  <2>5. Append(values, v) = First(q, k + 2)
    <3>1. First(q, k + 1) = values
      BY <1>3, <2>4 DEF First
    <3>2. Append(First(q, k + 1), q[k + 1 + 1]) = First(q, k + 1 + 1)
      <4>1. k + 1 \in Nat
        OBVIOUS
      <4> QED
        BY <4>1, FirstStep
    <3>3. k + 1 + 1 = k + 2
      OBVIOUS
    <3> QED
      BY <2>4, <3>1, <3>2, <3>3
  <2>6. \A i \in 1..(k + 1) : IsRead(F, ks[i], q[i + 1])
    <3>1. ASSUME NEW i \in 1..(k + 1) PROVE IsRead(F, ks[i], q[i + 1])
      <4>1. CASE i = k + 1
        <5>1. i + 1 = k + 2
          BY <4>1
        <5> QED
          BY <1>1, <2>2, <2>4, <4>1, <5>1
      <4>2. CASE i # k + 1
        <5>1. i \in 1..k /\ i + 1 \in 1..(k + 1)
          BY <4>2
        <5> QED
          BY <1>4, <2>4, <5>1
      <4> QED
        BY <4>1, <4>2
    <3> QED
      BY <3>1
  <2>7. PICK h : h = Coded(F, ks, q)
    OBVIOUS
  <2>8. /\ \A i \in 1..(k + 1) : h[i] = Bytes(F, ks[i], q[i + 1])
        /\ \A i \in 1..(k + 1) : h[i] \in Seq(Byte)
    <3>1. k + 1 \in Nat
      OBVIOUS
    <3> QED
      BY SMTT(40), <1>2, <2>6, <2>7, <3>1, SomeCoded
  <2>9. Joined(h, k) = before
    <3>1. ASSUME NEW i \in 1..k PROVE h[i] = Coded(F, ks, p)[i]
      <4>1. i \in 1..(k + 1) /\ i + 1 \in 1..(k + 1)
        OBVIOUS
      <4>2. h[i] = Bytes(F, ks[i], q[i + 1]) /\ q[i + 1] = p[i + 1]
        BY <2>4, <2>8, <4>1
      <4> QED
        BY <1>6, <4>2
    <3> QED
      BY <1>5, <3>1, JoinSame
  <2>10. Joined(h, k + 1) = before \o s
    <3>1. h[k + 1] = s
      <4>1. k + 1 \in 1..(k + 1) /\ k + 1 + 1 = k + 2
        OBVIOUS
      <4> QED
        BY <1>1, <2>1, <2>4, <2>8, <4>1
    <3> QED
      BY <2>8, <2>9, <3>1, JoinedStep
  <2>11. Meets(b, <<>>, before \o s, rest2)
    <3>1. rest \o <<>> = s \o rest2 /\ rest \o <<>> = rest /\ b \o <<>> = before \o rest
      BY <1>4, <1>6, <2>2, ConcatEmptySeq DEF Meets
    <3>2. (before \o s) \o rest2 = before \o (s \o rest2)
      <4>1. before \in Seq(Byte)
        BY <1>6
      <4>2. s \in Seq(Byte)
        BY <2>2
      <4>3. rest2 \in Seq(Byte)
        BY <2>2
      <4> QED
        BY <4>1, <4>2, <4>3, ByteAssociative
    <3> QED
      BY <3>1, <3>2 DEF Meets
  <2>12. Len(s) \in Nat /\ all = Len(before \o s) + (left - Len(s))
    <3>1. Len(before \o s) = Len(before) + Len(s) /\ Len(before) \in Nat /\ Len(s) \in Nat
      BY <1>6, <2>2, Lengths
    <3>2. PICK x, y \in Nat : x = Len(before) /\ y = Len(s)
      BY <3>1
    <3>3. x + left = (x + y) + (left - y)
      BY <1>4
    <3> QED
      BY <1>6, <3>1, <3>2, <3>3
  <2>13. left - Len(s) \in Int
    BY <1>4, <2>12
  <2>14. \A i \in 1..m : q[i] = base[i]
    <3>1. \A i \in 1..m : i \in 1..(k + 1)
      OBVIOUS
    <3> QED
      BY <1>4, <2>4, <3>1
  <2>15. k + 1 + 1 = k + 2
    OBVIOUS
  <2>16. Grown(F, ks, base, m, k + 1, b, all, Value(F, scan, kind), q, rest2, left - Len(s))
    BY <2>2, <2>5, <2>6, <2>7, <2>10, <2>11, <2>12, <2>13, <2>14, <2>15 DEF Grown
  <2> QED
    BY <2>16 DEF Grows
<1> QED
  BY <1>1, <1>8, <1>9 DEF Grows

LEMMA GrowSome ==
    ASSUME NEW F \in Framing, NEW ks \in Seq(Kind), NEW base, NEW m \in Nat,
           NEW b \in Seq(Byte), NEW all, NEW o \in Nat, m <= o + 1, NEW kinds, NEW start,
           Len(kinds) \in Nat, o + Len(kinds) <= Len(ks),
           \A i \in 1..Len(kinds) : kinds[i] = ks[o + i],
           Grows(F, ks, base, m, o, b, all, start)
    PROVE  Grows(F, ks, base, m, o + Len(kinds), b, all, Values(F, start, kinds))
<1>1. PICK f : ScansOn(F, start, kinds, Len(kinds), f) /\ Values(F, start, kinds) = f[Len(kinds)]
  BY ValuesGo
<1>2. PICK n \in Nat : n = Len(kinds)
  OBVIOUS
<1>3. Len(ks) \in Nat
  BY LenProperties
<1> DEFINE Goes(j) == Grows(F, ks, base, m, o + j, b, all, f[j])
           T == {j \in Nat : j <= n => Goes(j)}
<1>4. 0 \in T
  <2>1. o + 0 = o /\ f[0] = start
    BY <1>1 DEF ScansOn
  <2> QED
    BY <2>1
<1>5. ASSUME NEW j \in T PROVE j + 1 \in T
  <2>1. j \in Nat
    OBVIOUS
  <2>2. ASSUME j + 1 <= n PROVE Goes(j + 1)
    <3>1. /\ j <= n /\ j + 1 \in 1..n /\ o + j \in Nat /\ o + j < Len(ks)
          /\ o + (j + 1) = o + j + 1 /\ m <= o + j + 1
      <4> HIDE DEF T
      <4>1. PICK l \in Nat : l = Len(ks)
        BY <1>3
      <4>2. o + n <= l /\ m <= o + 1
        BY <1>2, <4>1
      <4>3. o + j < l /\ m <= o + j + 1
        BY <2>1, <2>2, <4>2
      <4> QED
        BY <2>1, <2>2, <4>1, <4>3
    <3>2. Goes(j)
      BY <3>1
    <3>3. f[j + 1] = Scanned(F, f[j], ks[o + j + 1])
      <4>1. f[j + 1] = Scanned(F, f[j + 1 - 1], kinds[j + 1]) /\ j + 1 - 1 = j
        BY <1>1, <1>2, <2>1, <3>1 DEF ScansOn
      <4>2. kinds[j + 1] = ks[o + j + 1]
        BY SMTT(40), <1>2, <3>1
      <4> QED
        BY <4>1, <4>2
    <3>4. CASE Unfinished(f[j])
      <4>1. f[j].is # "ok"
        BY <3>4 DEF Unfinished
      <4>2. f[j + 1] = f[j]
        BY <3>3, <4>1 DEF Scanned
      <4> QED
        BY <3>4, <4>2 DEF Grows
    <3>5. ASSUME NEW p, NEW rest, NEW left,
                 Grown(F, ks, base, m, o + j, b, all, f[j], p, rest, left)
          PROVE  Goes(j + 1)
      <4>1. f[j].is = "ok"
        BY SMTT(40), <3>5, ScanFields DEF Grown
      <4>2. f[j + 1] = Value(F, f[j], ks[o + j + 1])
        BY <3>3, <4>1 DEF Scanned
      <4>3. Grows(F, ks, base, m, o + j + 1, b, all, Value(F, f[j], ks[o + j + 1]))
        BY <3>1, <3>5, GrowOne
      <4> QED
        BY <3>1, <4>2, <4>3
    <3> QED
      BY <3>2, <3>4, <3>5 DEF Grows
  <2> HIDE DEF Goes
  <2> QED
    BY <2>1, <2>2
<1>6. T = Nat
  <2>1. T \in SUBSET Nat
    OBVIOUS
  <2> HIDE DEF T
  <2> QED
    BY <1>4, <1>5, <2>1, SetInduction
<1>7. Goes(n)
  <2> HIDE DEF Goes
  <2> QED
    BY <1>6
<1> QED
  BY <1>1, <1>2, <1>7

\* All of a packet was taken from the buffer b.
TookAll(F, tag, b, left, scan, p, rest) ==
    /\ p[1] = tag /\ IsCoded(F, p) /\ IsWhole(p) /\ rest \in Seq(Byte)
    /\ scan = Scan(rest, p, left - Len(Codes(F, Kinds(p), p)))
    /\ Meets(b, <<>>, Codes(F, Kinds(p), p), rest)

LEMMA KindsSame ==
    ASSUME NEW p, NEW q, p[1] = q[1],
           p[Len(Fields(p[1])) + 1] = q[Len(Fields(p[1])) + 1]
    PROVE  Kinds(p) = Kinds(q)
  BY DEF Kinds

LEMMA GrownAll ==
    ASSUME NEW F \in Framing, NEW tag \in Tags(F), NEW b \in Seq(Byte), NEW left \in Int,
           NEW scan, NEW p, NEW rest, NEW left2, NEW base, NEW m, p[1] = tag,
           AreRead(F, Fields(tag), p),
           Grown(F, Kinds(p), base, m, Len(Kinds(p)), b, left, scan, p, rest, left2)
    PROVE  \E q : TookAll(F, tag, b, left, scan, q, rest)
<1>1. PICK ks, fs, n : ks = Kinds(p) /\ fs = Fields(tag) /\ n = Len(ks)
  OBVIOUS
<1>2. /\ fs \in Seq(Kind) /\ ks \in Seq(Kind) /\ Len(fs) \in Nat /\ n \in Nat /\ Len(fs) <= n
  <2>1. /\ Len(fs) \in Nat /\ ks \in Seq(Kind)
        /\ ~HasArray(tag) => Len(ks) = Len(fs)
        /\ HasArray(tag) =>
              LET es == Elements(tag, p[Len(fs) + 1]) IN
              Len(es) \in Nat /\ Len(ks) = Len(fs) + Len(es)
    BY <1>1, KindsAre
  <2>2. PICK l : l = Len(Elements(tag, p[Len(fs) + 1]))
    OBVIOUS
  <2>3. Len(fs) <= n
    BY <1>1, <2>1, <2>2
  <2> QED
    BY <1>1, <2>1, <2>3, TagFields, LenProperties
<1>3. PICK q : q = First(p, n + 1)
  OBVIOUS
<1>4. \A i \in 1..(n + 1) : q[i] = p[i]
  BY <1>3 DEF First
<1>5. 1 \in 1..(n + 1) /\ Len(fs) + 1 \in 1..(n + 1)
  BY <1>2
<1>6. q[1] = tag /\ Kinds(q) = ks
  <2>1. q[1] = tag /\ p[Len(fs) + 1] = q[Len(fs) + 1]
    BY <1>4, <1>5
  <2> QED
    BY <1>1, <2>1, KindsSame
<1>7. AreRead(F, ks, q)
  <2>1. \A i \in 1..n : IsRead(F, ks[i], p[i + 1])
    BY <1>1 DEF Grown
  <2>2. \A i \in 1..n : i + 1 \in 1..(n + 1)
    BY <1>2
  <2> QED
    BY <1>1, <1>2, <1>4, <2>1, <2>2 DEF AreRead
<1>8. AreRead(F, fs, q)
  <2>1. \A i \in 1..Len(fs) : IsRead(F, fs[i], p[i + 1]) /\ i + 1 \in 1..(n + 1)
    BY <1>1, <1>2 DEF AreRead
  <2> QED
    BY <1>2, <1>4, <2>1 DEF AreRead
<1>9. IsCoded(F, q) /\ IsWhole(q)
  <2>1. First(q, n + 1) = q
    BY <1>3, <1>4 DEF First
  <2> QED
    BY <1>1, <1>6, <1>7, <1>8, <2>1 DEF IsCoded, IsWhole
<1>10. Codes(F, ks, q) = Joined(Coded(F, ks, p), n)
  <2>1. \A i \in 1..n : q[i + 1] = p[i + 1]
    <3>1. \A i \in 1..n : i + 1 \in 1..(n + 1)
      BY <1>2
    <3> QED
      BY <1>4, <3>1
  <2>2. Coded(F, ks, q) = Coded(F, ks, p)
    BY <1>1, <2>1 DEF Coded
  <2> QED
    BY <1>1, <2>2 DEF Codes
<1>11. /\ rest \in Seq(Byte) /\ scan = Scan(rest, q, left2) /\ left2 \in Int
       /\ Meets(b, <<>>, Codes(F, ks, q), rest) /\ left = Len(Codes(F, ks, q)) + left2
  BY <1>1, <1>3, <1>10 DEF Grown
<1>12. left2 = left - Len(Codes(F, ks, q))
  <2>1. Len(Codes(F, ks, q)) \in Nat
    BY <1>7, CodedTypes, LenProperties
  <2> QED
    BY <1>11, <2>1
<1>13. TookAll(F, tag, b, left, scan, q, rest)
  BY <1>6, <1>9, <1>11, <1>12 DEF TookAll
<1> QED
  BY <1>13

LEMMA PayloadTook ==
    ASSUME NEW F \in Framing, NEW tag \in Tags(F), NEW b \in Seq(Byte), NEW left \in Int,
           NEW got, got = Payload(F, tag, Scan(b, <<tag>>, left))
    PROVE  Unfinished(got) \/ \E p, rest : TookAll(F, tag, b, left, got, p, rest)
<1>1. PICK fs, start, scan : /\ fs = Fields(tag) /\ start = Scan(b, <<tag>>, left)
                             /\ scan = Values(F, start, fs)
  OBVIOUS
<1>2. fs \in Seq(Kind) /\ Len(fs) \in Nat
  BY <1>1, TagFields, LenProperties
<1>3. got = WithElements(F, tag, scan)
  <2>1. {WithElements(F, tag, s) : s \in {scan}} = {WithElements(F, tag, scan)}
    OBVIOUS
  <2> QED
    BY <1>1, <2>1, OnceIs DEF Payload
<1>4. Grows(F, fs, <<tag>>, 1, Len(fs), b, left, scan)
  <2>1. PICK p : p = <<tag>>
    OBVIOUS
  <2>2. First(p, 0 + 1) = <<tag>>
    BY <2>1 DEF First
  <2>3. Joined(Coded(F, fs, p), 0) = <<>> /\ Len(<<>>) = 0
    BY JoinEmpty
  <2>4. Meets(b, <<>>, <<>>, b)
    BY ConcatEmptySeq DEF Meets
  <2>5. left = 0 + left
    OBVIOUS
  <2>6. Grown(F, fs, p, 1, 0, b, left, start, p, b, left)
    BY <1>1, <2>1, <2>2, <2>3, <2>4, <2>5 DEF Grown
  <2>7. Grows(F, fs, <<tag>>, 1, 0, b, left, start)
    BY <2>1, <2>6 DEF Grows
  <2>8. /\ 1 \in Nat /\ 0 \in Nat /\ 1 <= 0 + 1 /\ 0 + Len(fs) <= Len(fs)
        /\ \A i \in 1..Len(fs) : fs[i] = fs[0 + i]
    BY <1>2
  <2>9. Grows(F, fs, <<tag>>, 1, 0 + Len(fs), b, left, Values(F, start, fs))
    BY <1>2, <2>7, <2>8, GrowSome
  <2>10. 0 + Len(fs) = Len(fs)
    BY <1>2
  <2> QED
    BY <1>1, <2>9, <2>10
<1>5. CASE Unfinished(scan)
  <2>1. scan.is # "ok"
    BY <1>5 DEF Unfinished
  <2>2. got = scan
    BY <1>3, <2>1 DEF WithElements
  <2> QED
    BY <1>5, <2>2
<1>6. ASSUME NEW p, NEW rest, NEW left2,
             Grown(F, fs, <<tag>>, 1, Len(fs), b, left, scan, p, rest, left2)
      PROVE  Unfinished(got) \/ \E q, r : TookAll(F, tag, b, left, got, q, r)
  <2>1. p[1] = tag
    <3>1. p[1] = <<tag>>[1]
      BY <1>6 DEF Grown
    <3> QED
      BY <3>1
  <2>2. AreRead(F, fs, p)
    BY <1>2, <1>6 DEF Grown, AreRead
  <2>3. CASE ~ HasArray(tag)
    <3>1. got = scan
      BY <1>3, <2>3 DEF WithElements
    <3>2. Kinds(p) = fs
      BY <1>1, <2>1, <2>3 DEF Kinds
    <3>3. Grown(F, Kinds(p), <<tag>>, 1, Len(Kinds(p)), b, left, got, p, rest, left2)
      BY <1>6, <3>1, <3>2
    <3>4. AreRead(F, Fields(tag), p)
      BY <1>1, <2>2
    <3>5. \E q : TookAll(F, tag, b, left, got, q, rest)
      BY <2>1, <3>3, <3>4, GrownAll
    <3> QED
      BY <3>5
  <2>4. CASE HasArray(tag)
    <3>1. PICK ks, es, o : ks = Kinds(p) /\ o = Len(fs) /\ es = Elements(tag, p[o + 1])
      OBVIOUS
    <3>2. /\ ks \in Seq(Kind) /\ o \in Nat /\ Len(es) \in Nat /\ Len(ks) = o + Len(es)
          /\ \A i \in 1..o : ks[i] = fs[i]
          /\ \A i \in 1..Len(es) : ks[o + i] = es[i]
      <4>1. p[1] \in Tags(F) /\ HasArray(p[1]) /\ fs = Fields(p[1])
        BY <1>1, <2>1, <2>4
      <4>2. AreRead(F, Fields(p[1]), p)
        BY <2>2, <4>1
      <4>3. /\ Len(Fields(p[1])) \in Nat /\ Kinds(p) \in Seq(Kind)
            /\ \A i \in 1..Len(Fields(p[1])) : Kinds(p)[i] = Fields(p[1])[i]
            /\ LET xs == Elements(p[1], p[Len(Fields(p[1])) + 1]) IN
               /\ Len(xs) \in Nat /\ Len(Kinds(p)) = Len(Fields(p[1])) + Len(xs)
               /\ \A i \in 1..Len(xs) : Kinds(p)[Len(Fields(p[1])) + i] = xs[i]
        BY <4>1, <4>2, KindsAre
      <4>4. es = Elements(p[1], p[Len(Fields(p[1])) + 1]) /\ o = Len(Fields(p[1]))
        BY <2>1, <3>1, <4>1
      <4> QED
        BY <3>1, <4>1, <4>3, <4>4
    <3>3. /\ rest \in Seq(Byte) /\ left2 \in Int /\ scan = Scan(rest, First(p, o + 1), left2)
          /\ \A i \in 1..o : IsRead(F, fs[i], p[i + 1])
          /\ Meets(b, <<>>, Joined(Coded(F, fs, p), o), rest)
          /\ left = Len(Joined(Coded(F, fs, p), o)) + left2
      BY <1>6, <3>1 DEF Grown
    <3>4. scan.is = "ok" /\ Last(scan.values) = p[o + 1]
      <4>1. /\ First(p, o) \in Seq({p[i] : i \in 1..(o + 1)})
            /\ Append(First(p, o), p[o + 1]) = First(p, o + 1)
        BY <3>2, FirstStep
      <4>2. Last(Append(First(p, o), p[o + 1])) = p[o + 1]
        BY <4>1, LastAppended
      <4> QED
        BY <3>3, <4>1, <4>2, ScanFields
    <3>5. got = Values(F, scan, es)
      BY <1>3, <2>4, <3>1, <3>4 DEF WithElements
    <3>6. Grows(F, ks, p, o + 1, o, b, left, scan)
      <4>1. Joined(Coded(F, ks, p), o) = Joined(Coded(F, fs, p), o)
        <5>1. ASSUME NEW i \in 1..o PROVE Coded(F, ks, p)[i] = Coded(F, fs, p)[i]
          <6>1. i \in 1..Len(ks) /\ i \in 1..Len(fs) /\ ks[i] = fs[i]
            <7>1. PICK e, l : e = Len(es) /\ l = Len(ks)
              OBVIOUS
            <7>2. e \in Nat /\ l = o + e /\ o \in Nat
              BY <3>2, <7>1
            <7> HIDE <3>2
            <7>3. i \in 1..l
              BY <7>2
            <7> QED
              BY <3>1, <3>2, <7>1, <7>3
          <6> QED
            BY <6>1 DEF Coded
        <5> QED
          BY <3>2, <5>1, JoinSame
      <4>2. \A i \in 1..o : IsRead(F, ks[i], p[i + 1])
        BY <3>2, <3>3
      <4>3. Grown(F, ks, p, o + 1, o, b, left, scan, p, rest, left2)
        BY <3>3, <4>1, <4>2 DEF Grown
      <4> QED
        BY <4>3 DEF Grows
    <3>7. Grows(F, ks, p, o + 1, Len(ks), b, left, got)
      <4>1. /\ o + 1 \in Nat /\ o + 1 <= o + 1 /\ o + Len(es) <= Len(ks)
            /\ \A i \in 1..Len(es) : es[i] = ks[o + i]
        BY <3>2
      <4>2. Grows(F, ks, p, o + 1, o + Len(es), b, left, Values(F, scan, es))
        BY <3>2, <3>6, <4>1, GrowSome
      <4> QED
        BY <3>2, <3>5, <4>2
    <3>8. ASSUME NEW q, NEW r, NEW left3,
                 Grown(F, ks, p, o + 1, Len(ks), b, left, got, q, r, left3)
          PROVE  \E q2 : TookAll(F, tag, b, left, got, q2, r)
      <4>1. \A i \in 1..(o + 1) : q[i] = p[i]
        BY <3>8 DEF Grown
      <4>2. 1 \in 1..(o + 1) /\ o + 1 \in 1..(o + 1)
        BY <3>2
      <4>3. q[1] = tag /\ q[o + 1] = p[o + 1]
        BY <2>1, <4>1, <4>2
      <4>4. Kinds(q) = ks
        BY <1>1, <2>1, <3>1, <4>3, KindsSame
      <4>5. AreRead(F, fs, q)
        <5>1. \A i \in 1..o : i + 1 \in 1..(o + 1)
          BY <3>2
        <5> QED
          BY <1>2, <3>1, <3>3, <4>1, <5>1 DEF AreRead
      <4> QED
        BY <1>1, <3>8, <4>3, <4>4, <4>5, GrownAll
    <3> QED
      BY <3>7, <3>8 DEF Grows
  <2> QED
    BY <2>3, <2>4
<1> QED
  BY <1>4, <1>5, <1>6 DEF Grows

\* The bytes of a packet whose values were read, whatever their types.
LEMMA CodesAre ==
    ASSUME NEW F, NEW p, AreRead(F, Kinds(p), p)
    PROVE  FlattenSeq(Fieldwise(F, p)) = Codes(F, Kinds(p), p)
<1>1. PICK ks : ks = Kinds(p)
  OBVIOUS
<1>2. ks \in Seq(Kind)
  BY <1>1 DEF AreRead
<1>3. DOMAIN ks = 1..Len(ks)
  BY <1>2, LenProperties
<1>4. Fieldwise(F, p) = Coded(F, ks, p)
  BY <1>1, <1>3 DEF Fieldwise, Coded
<1>5. [i \in 1..Len(ks) |-> Coded(F, ks, p)[i]] = Coded(F, ks, p)
  BY DEF Coded
<1> QED
  BY <1>1, <1>4, <1>5 DEF Codes, Joined

\* A buffer in two parts.
SplitsAt(b, n) ==
    /\ After(b, n) \in Seq(Byte) /\ Len(After(b, n)) = Len(b) - n
    /\ SubSeq(b, 1, n) \in Seq(Byte) /\ Len(SubSeq(b, 1, n)) = n
    /\ \A i \in 1..n : SubSeq(b, 1, n)[i] = b[i]
    /\ b = SubSeq(b, 1, n) \o After(b, n)

LEMMA SplitAt ==
    ASSUME NEW b \in Seq(Byte), NEW n \in Nat, n <= Len(b)
    PROVE  SplitsAt(b, n)
<1>1. Len(b) \in Nat
  BY LenProperties
<1>2. /\ SubSeq(b, 1, n) \in Seq(Byte) /\ Len(SubSeq(b, 1, n)) = n
      /\ \A i \in 1..n : SubSeq(b, 1, n)[i] = b[i]
  BY <1>1
<1>3. After(b, n) \in Seq(Byte) /\ Len(After(b, n)) = Len(b) - n
  <2>1. \A i \in (n + 1)..Len(b) : b[i] \in Byte
    BY <1>1, ElementOfSeq
  <2>2. n + 1 \in Int /\ Len(b) \in Int
    BY <1>1
  <2>3. /\ SubSeq(b, n + 1, Len(b)) \in Seq(Byte)
        /\ Len(SubSeq(b, n + 1, Len(b))) = IF n + 1 <= Len(b) THEN Len(b) - (n + 1) + 1 ELSE 0
    BY <2>1, <2>2, SubSeqProperties
  <2> QED
    BY <1>1, <2>3 DEF After
<1>4. b = SubSeq(b, 1, n) \o After(b, n)
  <2>1. 1 \in 1..(Len(b) + 1) /\ n \in (1 - 1)..Len(b) /\ Len(b) \in n..Len(b)
    BY <1>1
  <2>2. SubSeq(b, 1, n) \o SubSeq(b, n + 1, Len(b)) = SubSeq(b, 1, Len(b))
    BY <2>1, ConcatAdjacentSubSeq
  <2> QED
    BY <2>2, SubSeqFull DEF After
<1> QED
  BY <1>2, <1>3, <1>4 DEF SplitsAt

\* What was decoded and what is left make up the buffer.
Whole(F, result, b) ==
    \E p, rest : /\ result = Packet(p, rest) /\ rest \in Seq(Byte)
                 /\ Encode(F, p) \in Seq(Byte) /\ Meets(b, <<>>, Encode(F, p), rest)

LEMMA UnfinishedIs ==
    ASSUME NEW scan, Unfinished(scan)
    PROVE  Result(scan) \in {More(0), Bad} /\ scan.is # "ok"
<1>1. CASE scan.is = "more"
  BY <1>1, ResultIs
<1>2. CASE scan.is = "bad"
  BY <1>2, ResultIs
<1> QED
  BY <1>1, <1>2 DEF Unfinished

LEMMA TookTypes ==
    ASSUME NEW F \in Framing, NEW p, IsCoded(F, p)
    PROVE  /\ Codes(F, Kinds(p), p) \in Seq(Byte) /\ p[1] \in Byte
           /\ FlattenSeq(Fieldwise(F, p)) = Codes(F, Kinds(p), p)
<1>1. AreRead(F, Kinds(p), p) /\ p[1] \in Tags(F)
  BY DEF IsCoded
<1>2. Codes(F, Kinds(p), p) \in Seq(Byte)
  BY <1>1, CodedTypes
<1>3. FlattenSeq(Fieldwise(F, p)) = Codes(F, Kinds(p), p)
  BY <1>1, CodesAre
<1>4. p[1] \in Byte
  <2>1. p[1] \in Tags(F)
    BY <1>1
  <2> QED
    BY <2>1 DEF Tags, Byte
<1> QED
  BY <1>2, <1>3, <1>4

LEMMA OneByte ==
    ASSUME NEW s \in Seq(Byte), Len(s) = 1
    PROVE  s = <<s[1]>> /\ s[1] \in Byte
<1>1. s[1] \in Byte
  <2>1. 1 \in 1..Len(s)
    OBVIOUS
  <2> QED
    BY <2>1, ElementOfSeq
<1>2. PICK t : t = <<s[1]>>
  OBVIOUS
<1>3. t \in Seq(Byte) /\ Len(t) = Len(s) /\ \A i \in 1..Len(t) : s[i] = t[i]
  BY <1>1, <1>2
<1>4. s = t
  BY <1>3, SeqEqual
<1> QED
  BY <1>1, <1>2, <1>4

LEMMA WireIsWhole ==
    ASSUME NEW b \in Seq(Byte)
    PROVE  Wire(b) \in {More(0), Bad} \/ Whole("wire", Wire(b), b)
<1>1. CASE b = <<>> \/ b[1] \notin Tags("wire")
  BY <1>1 DEF Wire
<1>2. CASE b # <<>> /\ b[1] \in Tags("wire")
  <2>1. "wire" \in Framing
    BY DEF Framing
  <2>2. PICK tag, a, scan : /\ tag = b[1] /\ a = After(b, 1)
                            /\ scan = Payload("wire", tag, Scan(a, <<tag>>, 0))
    OBVIOUS
  <2>3. Wire(b) = Result(scan)
    <3>1. Wire(b) = Once({Result(s) : s \in {scan}})
      BY <1>2, <2>2 DEF Wire
    <3>2. {Result(s) : s \in {scan}} = {Result(scan)}
      OBVIOUS
    <3> QED
      BY <3>1, <3>2, OnceIs
  <2>4. a \in Seq(Byte) /\ b = <<tag>> \o a /\ tag \in Byte
    <3>1. 1 \in Nat /\ 1 <= Len(b)
      BY <1>2, NotEmpty, LenProperties
    <3>2. SplitsAt(b, 1)
      BY <3>1, SplitAt
    <3>3. SubSeq(b, 1, 1) = <<tag>>
      <4>1. PICK s : s = SubSeq(b, 1, 1)
        OBVIOUS
      <4>2. 1 \in 1..1
        OBVIOUS
      <4>3. s \in Seq(Byte) /\ Len(s) = 1 /\ s[1] = tag
        BY <2>2, <3>2, <4>1, <4>2 DEF SplitsAt
      <4> QED
        BY <4>1, <4>3, OneByte
    <3>4. tag \in Tags("wire")
      BY <1>2, <2>2
    <3> QED
      BY <2>2, <3>2, <3>3, <3>4 DEF SplitsAt, Tags, Byte
  <2>5. Unfinished(scan) \/ \E p, rest : TookAll("wire", tag, a, 0, scan, p, rest)
    <3>1. tag \in Tags("wire") /\ 0 \in Int
      BY <1>2, <2>2
    <3> QED
      BY <2>1, <2>2, <2>4, <3>1, PayloadTook
  <2>6. CASE Unfinished(scan)
    BY <2>3, <2>6, UnfinishedIs
  <2>7. ASSUME NEW p, NEW rest, TookAll("wire", tag, a, 0, scan, p, rest)
        PROVE  Whole("wire", Wire(b), b)
    <3>1. PICK C, left : C = Codes("wire", Kinds(p), p) /\ left = 0 - Len(C)
      OBVIOUS
    <3>2. /\ p[1] = tag /\ IsCoded("wire", p) /\ rest \in Seq(Byte)
          /\ scan = Scan(rest, p, left) /\ Meets(a, <<>>, C, rest)
      BY <2>7, <3>1 DEF TookAll
    <3>3. C \in Seq(Byte) /\ FlattenSeq(Fieldwise("wire", p)) = C
      BY <2>1, <3>1, <3>2, TookTypes
    <3>4. Wire(b) = Packet(p, rest)
      BY <2>3, <3>2, ResultIs
    <3>5. Encode("wire", p) = <<tag>> \o C
      BY <3>2, <3>3 DEF Encode
    <3>6. <<tag>> \in Seq(Byte)
      BY <2>4
    <3>7. <<tag>> \o C \in Seq(Byte)
      BY <3>3, <3>6, Lengths
    <3>8. Meets(b, <<>>, <<tag>> \o C, rest)
      <4>1. (<<tag>> \o C) \o rest = <<tag>> \o (C \o rest)
        BY <3>2, <3>3, <3>6, ByteAssociative
      <4>2. a \o <<>> = a /\ b \o <<>> = b
        BY <2>4, ConcatEmptySeq
      <4> QED
        BY <2>4, <3>2, <4>1, <4>2 DEF Meets
    <3> QED
      BY <3>2, <3>4, <3>5, <3>7, <3>8 DEF Whole
  <2> QED
    BY <2>5, <2>6, <2>7
<1> QED
  BY <1>1, <1>2

LEMMA TokioEncodes ==
    ASSUME NEW p
    PROVE  Encode("tokio", p) = Encode("wire", p)
<1>1. \A kind, v : Bytes("tokio", kind, v) = Bytes("wire", kind, v)
  <2>1. ASSUME NEW kind, NEW v PROVE Bytes("tokio", kind, v) = Bytes("wire", kind, v)
    <3>1. PICK w : w = Width("wire", kind)
      OBVIOUS
    <3>2. w = Width("tokio", kind)
      BY <3>1 DEF Width
    <3> QED
      BY <3>1, <3>2, BytesAre
  <2> QED
    BY <2>1
<1>2. Fieldwise("tokio", p) = Fieldwise("wire", p)
  BY <1>1 DEF Fieldwise
<1> QED
  BY <1>2 DEF Encode

LEMMA ChunksAreWhole ==
    ASSUME NEW b \in Seq(Byte)
    PROVE  Chunks(b) = More(0) \/ Whole("chunks", Chunks(b), b)
<1>1. CASE Len(b) < Size
  BY <1>1 DEF Chunks
<1>2. CASE ~ (Len(b) < Size)
  <2>1. Size \in Nat /\ Size <= Len(b)
    BY <1>2, SizeAssumption, LenProperties
  <2>2. SplitsAt(b, Size)
    BY <2>1, SplitAt
  <2>3. PICK c, rest : c = SubSeq(b, 1, Size) /\ rest = After(b, Size)
    OBVIOUS
  <2>4. c \in Seq(Byte) /\ rest \in Seq(Byte) /\ b = c \o rest
    BY <2>2, <2>3 DEF SplitsAt
  <2>5. Chunks(b) = Packet(<<c>>, rest)
    BY <1>2, <2>3 DEF Chunks
  <2>6. Encode("chunks", <<c>>) = c
    BY DEF Encode
  <2>7. Meets(b, <<>>, c, rest)
    BY <2>4, ConcatEmptySeq DEF Meets
  <2> QED
    BY <2>4, <2>5, <2>6, <2>7 DEF Whole
<1> QED
  BY <1>1, <1>2

LEMMA LeastOne ==
    ASSUME NEW T \in SUBSET Nat, T # {}
    PROVE  \E m \in T : \A k \in T : m <= k
<1>1. PICK m \in T : \A k \in T : ~ (<<k, m>> \in OpToRel(<, Nat))
  <2> HIDE DEF OpToRel
  <2> QED
    BY WFMin, NatLessThanWellFounded
<1>2. \A k \in T : ~ (k < m)
  BY <1>1 DEF OpToRel
<1>3. \A k \in T : m <= k
  BY <1>2
<1> QED
  BY <1>3

LEMMA LinesAreWhole ==
    ASSUME NEW b \in Seq(Byte), NEW from \in Nat
    PROVE  \/ /\ Lines(b, from) = More(Len(b))
              /\ Unended(b, from) => Unended(b, Len(b))
           \/ Whole("lines", Lines(b, from), b)
<1>1. Len(b) \in Nat
  BY LenProperties
<1>2. PICK T : T = LineEnds(b, from)
  OBVIOUS
<1>3. CASE T = {}
  <2>1. Lines(b, from) = More(Len(b))
    BY <1>2, <1>3 DEF Lines
  <2>2. ASSUME Unended(b, from) PROVE Unended(b, Len(b))
    <3>1. ASSUME NEW i \in 1..Len(b) PROVE b[i] # 10
      <4>1. CASE i \in 1..from
        BY <2>2, <4>1 DEF Unended
      <4>2. CASE i \notin 1..from
        <5>1. i \in (from + 1)..Len(b)
          BY <1>1, <4>2
        <5> QED
          BY <1>2, <1>3, <5>1 DEF LineEnds
      <4> QED
        BY <4>1, <4>2
    <3> QED
      BY <1>1, <3>1 DEF Unended
  <2> QED
    BY <2>1, <2>2
<1>4. CASE T # {}
  <2>1. T \in SUBSET Nat /\ \A i \in T : i \in 1..Len(b) /\ b[i] = 10
    BY <1>1, <1>2 DEF LineEnds
  <2>2. \E n \in T : \A k \in T : n <= k
    BY <1>4, <2>1, LeastOne
  <2>3. PICK n : n = FirstEnd(b, from)
    OBVIOUS
  <2>4. n \in T
    BY <1>2, <2>2, <2>3 DEF FirstEnd
  <2>5. n \in Nat /\ n >= 1 /\ n <= Len(b) /\ b[n] = 10 /\ n \in 1..n
    BY <1>1, <2>1, <2>4
  <2>6. PICK m : m = n - 1
    OBVIOUS
  <2>7. m \in Nat /\ m <= n /\ n = m + 1
    BY <2>5, <2>6
  <2>8. PICK s, rest : s = SubSeq(b, 1, n) /\ rest = After(b, n)
    OBVIOUS
  <2>9. /\ s \in Seq(Byte) /\ rest \in Seq(Byte) /\ b = s \o rest /\ Len(s) = n
        /\ \A i \in 1..n : s[i] = b[i]
    <3>1. SplitsAt(b, n)
      BY <2>5, SplitAt
    <3> QED
      BY <2>8, <3>1 DEF SplitsAt
  <2>10. PICK line : line = SubSeq(b, 1, m)
    OBVIOUS
  <2>11. line \in Seq(Byte) /\ Len(line) = m /\ \A i \in 1..m : line[i] = b[i]
    <3>1. m <= Len(b)
      BY <1>1, <2>5, <2>7
    <3>2. SplitsAt(b, m)
      BY <2>7, <3>1, SplitAt
    <3> QED
      BY <2>10, <3>2 DEF SplitsAt
  <2>12. Append(line, 10) = s
    <3>1. PICK t : t = Append(line, 10)
      OBVIOUS
    <3>2. 10 \in Byte
      BY DEF Byte
    <3>3. /\ t \in Seq(Byte) /\ Len(t) = m + 1 /\ t[m + 1] = 10
          /\ \A i \in 1..m : t[i] = line[i]
      BY <2>11, <3>1, <3>2, AppendProperties
    <3>4. ASSUME NEW i \in 1..n PROVE t[i] = s[i]
      <4>1. CASE i = n
        BY <2>5, <2>7, <2>9, <3>3, <4>1
      <4>2. CASE i # n
        <5>1. i \in 1..m
          BY <2>7, <4>2
        <5> QED
          BY <2>9, <2>11, <3>3, <5>1
      <4> QED
        BY <4>1, <4>2
    <3>5. t = s
      BY <2>7, <2>9, <3>3, <3>4, SeqEqual
    <3> QED
      BY <3>1, <3>5
  <2>13. Lines(b, from) = Packet(<<line>>, rest)
    BY <1>2, <1>4, <2>3, <2>6, <2>8, <2>10 DEF Lines
  <2>14. Encode("lines", <<line>>) = s
    BY <2>12 DEF Encode
  <2>15. Meets(b, <<>>, s, rest)
    BY <2>9, ConcatEmptySeq DEF Meets
  <2> QED
    BY <2>9, <2>13, <2>14, <2>15 DEF Whole
<1> QED
  BY <1>3, <1>4

\* The bytes 1 to 5 are the first one and the four that follow.
LEMMA Header ==
    ASSUME NEW b \in Seq(Byte), 5 <= Len(b)
    PROVE  /\ SubSeq(b, 2, 5) \in Seq(Byte) /\ Len(SubSeq(b, 2, 5)) = 4 /\ b[1] \in Byte
           /\ SubSeq(b, 1, 5) = <<b[1]>> \o SubSeq(b, 2, 5)
<1>1. Len(b) \in Nat
  BY LenProperties
<1>2. /\ SubSeq(b, 2, 5) \in Seq(Byte) /\ Len(SubSeq(b, 2, 5)) = 4
      /\ \A i \in 1..4 : SubSeq(b, 2, 5)[i] = b[i + 1]
  BY <1>1
<1>3. /\ SubSeq(b, 1, 5) \in Seq(Byte) /\ Len(SubSeq(b, 1, 5)) = 5
      /\ \A i \in 1..5 : SubSeq(b, 1, 5)[i] = b[i]
  BY <1>1
<1>4. b[1] \in Byte
  <2>1. 1 \in 1..Len(b)
    BY <1>1
  <2> QED
    BY <2>1, ElementOfSeq
<1>5. PICK x, n, h : x = <<b[1]>> /\ n = SubSeq(b, 2, 5) /\ h = SubSeq(b, 1, 5)
  OBVIOUS
<1>6. /\ x \in Seq(Byte) /\ Len(x) = 1 /\ x[1] = b[1] /\ n \in Seq(Byte) /\ Len(n) = 4
      /\ h \in Seq(Byte) /\ Len(h) = 5 /\ \A i \in 1..5 : h[i] = b[i]
      /\ \A i \in 1..4 : n[i] = b[i + 1]
  BY <1>2, <1>3, <1>4, <1>5
<1>7. x \o n \in Seq(Byte) /\ Len(x \o n) = 5
  <2>1. x \in Seq(Byte) /\ n \in Seq(Byte)
    BY <1>6
  <2>2. x \o n \in Seq(Byte) /\ Len(x \o n) = Len(x) + Len(n)
    BY <2>1, Lengths
  <2> QED
    BY <1>6, <2>2
<1>8. \A i \in 1..5 : (x \o n)[i] = h[i]
  <2>1. \A i \in 1..(Len(x) + Len(n)) : (x \o n)[i] = IF i <= Len(x) THEN x[i] ELSE n[i - Len(x)]
    BY <1>6, ConcatProperties
  <2>2. ASSUME NEW i \in 1..5 PROVE (x \o n)[i] = h[i]
    <3>1. i \in 1..(Len(x) + Len(n))
      BY <1>6
    <3>2. CASE i = 1
      <4>1. (x \o n)[i] = x[i]
        <5>1. i <= Len(x)
          BY <1>6, <3>2
        <5> QED
          BY <2>1, <3>1, <5>1
      <4> QED
        BY <1>6, <3>2, <4>1
    <3>3. CASE i # 1
      <4>1. ~ (i <= Len(x)) /\ i - Len(x) = i - 1 /\ i - 1 \in 1..4 /\ (i - 1) + 1 = i
        BY <1>6, <3>3
      <4>2. (x \o n)[i] = n[i - 1]
        BY <2>1, <3>1, <4>1
      <4>3. n[i - 1] = b[(i - 1) + 1]
        BY <1>6, <4>1
      <4> QED
        BY <1>6, <4>1, <4>2, <4>3
    <3> QED
      BY <3>2, <3>3
  <2> QED
    BY <2>2
<1>9. x \o n = h
  BY <1>6, <1>7, <1>8, SeqEqual
<1> QED
  BY <1>2, <1>4, <1>5, <1>9

\* What a checked packet takes.
CheckedTakes(b, length, rest, p, left, got) ==
    \E s, rest2 \in Seq(Byte) :
        /\ Len(s) = 1 /\ rest = s \o rest2 /\ left = 1
        /\ Sum(SubSeq(b, 1, IF length > Len(b) THEN Len(b) ELSE length)) = 0
        /\ got = Scan(rest2, p, 0)

LEMMA CheckedTook ==
    ASSUME NEW b \in Seq(Byte), NEW length, NEW rest \in Seq(Byte), NEW p, NEW left \in Int,
           NEW got, got = Checked(b, length, Scan(rest, p, left))
    PROVE  Unfinished(got) \/ CheckedTakes(b, length, rest, p, left, got)
<1>1. PICK scan, all : scan = Scan(rest, p, left) /\ all = Take("pest", scan, 1, 0)
  OBVIOUS
<1>2. scan.is = "ok" /\ scan.values = p
  BY <1>1, ScanFields
<1>3. PICK sum : sum = Sum(SubSeq(b, 1, IF length > Len(b) THEN Len(b) ELSE length))
  OBVIOUS
<1>4. got = IF all.is # "ok" THEN all
            ELSE IF sum # 0 \/ all.left # 0 THEN [all EXCEPT !.is = "bad"]
            ELSE [all EXCEPT !.values = p]
  BY <1>1, <1>2, <1>3 DEF Checked
<1>5. HasTaken(all, "pest", p, left, 1, rest)
  <2>1. 0 \in {0, 1} /\ 1 \in Nat
    OBVIOUS
  <2> QED
    BY <1>1, <2>1, TakeSome
<1>6. CASE all.is \in {"more", "bad"}
  <2>1. got = all
    BY <1>4, <1>6
  <2> QED
    BY <1>6, <2>1 DEF Unfinished
<1>7. ASSUME NEW s \in Seq(Byte), NEW rest2 \in Seq(Byte), Len(s) = 1, rest = s \o rest2,
             all = Scan(rest2, Append(p, s), left - 1)
      PROVE  Unfinished(got) \/ CheckedTakes(b, length, rest, p, left, got)
  <2>1. /\ all.is = "ok" /\ all.left = left - 1 /\ [all EXCEPT !.values = p] = Scan(rest2, p, left - 1)
        /\ [all EXCEPT !.is = "bad"].is = "bad"
    <3>1. PICK values, m : values = Append(p, s) /\ m = left - 1
      OBVIOUS
    <3>2. all = Scan(rest2, values, m)
      BY <1>7, <3>1
    <3> QED
      BY SMTT(40), <3>1, <3>2, ScanFields
  <2>2. CASE sum # 0 \/ all.left # 0
    <3>1. got = [all EXCEPT !.is = "bad"]
      BY <1>4, <2>1, <2>2
    <3> QED
      BY <2>1, <3>1 DEF Unfinished
  <2>3. CASE ~ (sum # 0 \/ all.left # 0)
    <3>1. got = [all EXCEPT !.values = p]
      BY <1>4, <2>1, <2>3
    <3>2. left - 1 = 0 /\ left = 1
      BY <2>1, <2>3
    <3>3. got = Scan(rest2, p, 0)
      BY <2>1, <3>1, <3>2
    <3> QED
      BY <1>3, <1>7, <2>3, <3>2, <3>3 DEF CheckedTakes
  <2> QED
    BY <2>2, <2>3
<1> QED
  BY <1>5, <1>6, <1>7 DEF HasTaken

LEMMA PestIsWhole ==
    ASSUME NEW b \in Seq(Byte)
    PROVE  Pest(b) \in {More(0), Bad} \/ Whole("pest", Pest(b), b)
<1>1. CASE b = <<>> \/ b[1] \notin Tags("pest") \/ Len(b) < 6
  BY <1>1 DEF Pest
<1>2. CASE b # <<>> /\ b[1] \in Tags("pest") /\ ~ (Len(b) < 6)
  <2>1. "pest" \in Framing /\ Len(b) \in Nat /\ Len(b) >= 6 /\ 5 <= Len(b) /\ 5 \in Nat
    BY <1>2, LenProperties DEF Framing
  <2>2. PICK tag, h, n, a, length : /\ tag = b[1] /\ h = SubSeq(b, 1, 5) /\ n = SubSeq(b, 2, 5)
                                    /\ a = After(b, 5) /\ length = Num(n)
    OBVIOUS
  <2>3. n \in Seq(Byte) /\ Len(n) = 4 /\ tag \in Byte /\ h = <<tag>> \o n
    BY <2>1, <2>2, Header
  <2>4. /\ a \in Seq(Byte) /\ h \in Seq(Byte) /\ Len(h) = 5 /\ b = h \o a
        /\ Len(b) = Len(a) + 5
    <3>1. SplitsAt(b, 5)
      BY <2>1, SplitAt
    <3>2. Len(a) = Len(b) - 5
      BY <2>2, <3>1 DEF SplitsAt
    <3> QED
      BY <2>1, <2>2, <3>1, <3>2 DEF SplitsAt
  <2>5. length \in Nat /\ U32(length) = n
    <3>1. 4 \in {1, 2, 4}
      OBVIOUS
    <3>2. length \in Nat /\ Number(4, length) = n
      BY <2>2, <2>3, <3>1, NumIs
    <3> QED
      BY <3>2 DEF Number
  <2>6. PICK left : left = length - 5
    OBVIOUS
  <2>7. PICK scan, got : /\ scan = Payload("pest", tag, Scan(a, <<tag>>, left))
                         /\ got = Checked(b, length, scan)
    OBVIOUS
  <2>8. Pest(b) = Result(got)
    <3>1. Pest(b) = Once({Result(Checked(b, length, sc)) : sc \in {scan}})
      BY <1>2, <2>2, <2>6, <2>7 DEF Pest
    <3>2. {Result(Checked(b, length, sc)) : sc \in {scan}} = {Result(got)}
      BY <2>7
    <3> QED
      BY <3>1, <3>2, OnceIs
  <2>9. left \in Int /\ tag \in Tags("pest")
    BY <1>2, <2>2, <2>5, <2>6
  <2>10. Unfinished(scan) \/ \E p, rest : TookAll("pest", tag, a, left, scan, p, rest)
    BY <2>1, <2>4, <2>7, <2>9, PayloadTook
  <2>11. CASE Unfinished(scan)
    <3>1. scan.is # "ok"
      BY <2>11, UnfinishedIs
    <3>2. got = scan
      BY <2>7, <3>1 DEF Checked
    <3> QED
      BY <2>8, <2>11, <3>2, UnfinishedIs
  <2>12. ASSUME NEW p, NEW rest, TookAll("pest", tag, a, left, scan, p, rest)
         PROVE  Pest(b) \in {More(0), Bad} \/ Whole("pest", Pest(b), b)
    <3>1. PICK C, left2 : C = Codes("pest", Kinds(p), p) /\ left2 = left - Len(C)
      OBVIOUS
    <3>2. /\ p[1] = tag /\ IsCoded("pest", p) /\ rest \in Seq(Byte)
          /\ scan = Scan(rest, p, left2) /\ Meets(a, <<>>, C, rest)
      BY <2>12, <3>1 DEF TookAll
    <3>3. C \in Seq(Byte) /\ FlattenSeq(Fieldwise("pest", p)) = C
      BY <2>1, <3>1, <3>2, TookTypes
    <3>4. Len(C) \in Nat /\ left2 \in Int
      BY <2>9, <3>1, <3>3, LenProperties
    <3>5. Unfinished(got) \/ CheckedTakes(b, length, rest, p, left2, got)
      BY <2>7, <3>2, <3>4, CheckedTook
    <3>6. CASE Unfinished(got)
      BY <2>8, <3>6, UnfinishedIs
    <3>7. CASE CheckedTakes(b, length, rest, p, left2, got)
      <4>1. PICK s, rest2 \in Seq(Byte) :
               /\ Len(s) = 1 /\ rest = s \o rest2 /\ left2 = 1
               /\ Sum(SubSeq(b, 1, IF length > Len(b) THEN Len(b) ELSE length)) = 0
               /\ got = Scan(rest2, p, 0)
        BY <3>7 DEF CheckedTakes
      <4>2. length = Len(C) + 6
        <5>1. PICK m \in Nat : m = Len(C)
          BY <3>4
        <5>2. length - 5 - m = 1
          BY <2>6, <3>1, <4>1, <5>1
        <5>3. length = m + 6
          BY <2>5, <5>2
        <5> QED
          BY <5>1, <5>3
      <4>3. PICK c : c = s[1]
        OBVIOUS
      <4>4. s = <<c>> /\ c \in Byte
        BY <4>1, <4>3, OneByte
      <4>5. PICK hC : hC = h \o C
        OBVIOUS
      <4>6. hC \in Seq(Byte) /\ Len(hC) = 5 + Len(C)
        BY <2>4, <3>3, <4>5, Lengths
      <4>7. PICK whole : whole = Append(hC, c)
        OBVIOUS
      <4>8. /\ whole = hC \o <<c>> /\ whole \in Seq(Byte) /\ Len(whole) = length
            /\ <<c>> \in Seq(Byte)
        <5>1. whole = hC \o <<c>>
          BY <4>4, <4>6, <4>7, AppendIsConcat
        <5>2. whole \in Seq(Byte) /\ Len(whole) = Len(hC) + 1
          BY <4>4, <4>6, <4>7, AppendProperties
        <5>3. Len(hC) + 1 = length
          <6>1. PICK m \in Nat : m = Len(C)
            BY <3>4
          <6> QED
            BY <4>2, <4>6, <6>1
        <5> QED
          BY <4>4, <5>1, <5>2, <5>3
      <4>9. b = whole \o rest2
        <5>1. a = C \o rest
          BY <2>4, <3>2, ConcatEmptySeq DEF Meets
        <5>2. h \o (C \o rest) = (h \o C) \o rest
          <6>1. h \in Seq(Byte)
            BY <2>4
          <6>2. C \in Seq(Byte)
            BY <3>3
          <6>3. rest \in Seq(Byte)
            BY <3>2
          <6> QED
            BY ZenonT(60), <6>1, <6>2, <6>3, ByteAssociative
        <5>3. (hC \o <<c>>) \o rest2 = hC \o (<<c>> \o rest2)
          BY <4>6, <4>8, ByteAssociative
        <5> QED
          BY <2>4, <4>1, <4>4, <4>5, <4>8, <5>1, <5>2, <5>3
      <4>10. SubSeq(b, 1, length) = whole /\ ~ (length > Len(b))
        <5>1. Len(b) = length + Len(rest2) /\ Len(rest2) \in Nat
          BY <4>8, <4>9, Lengths
        <5>2. length <= Len(b) /\ ~ (length > Len(b))
          BY <2>5, <5>1
        <5>3. Meets(b, <<>>, whole, rest2) /\ <<>> \in Seq(Byte)
          BY <4>9, ConcatEmptySeq DEF Meets
        <5>4. Len(whole) <= Len(b)
          BY <4>8, <5>2
        <5>5. CutAt(Byte, b, <<>>, whole, rest2)
          BY <4>8, <5>3, <5>4, ByteCut
        <5> QED
          BY <4>8, <5>2, <5>5 DEF CutAt
      <4>11. Sum(Append(hC, c)) = 0
        BY <4>1, <4>7, <4>10
      <4>12. Summed(hC) = whole
        BY <4>4, <4>6, <4>7, <4>11, SummedSums
      <4>13. Encode("pest", p) = whole
        <5>1. hC = <<tag>> \o U32(Len(C) + 6) \o C
          BY <2>3, <2>5, <4>2, <4>5
        <5>2. Encode("pest", p) = Once({Summed(bytes) : bytes \in {hC}})
          BY <3>2, <3>3, <5>1 DEF Encode, Finalize
        <5>3. {Summed(bytes) : bytes \in {hC}} = {whole}
          BY <4>12
        <5> QED
          BY <5>2, <5>3, OnceIs
      <4>14. Pest(b) = Packet(p, rest2)
        BY <2>8, <4>1, ResultIs
      <4>15. Meets(b, <<>>, whole, rest2)
        BY <4>9, ConcatEmptySeq DEF Meets
      <4>16. Whole("pest", Pest(b), b)
        BY <4>8, <4>13, <4>14, <4>15 DEF Whole
      <4> QED
        BY <4>16
    <3> QED
      BY <3>5, <3>6, <3>7
  <2> QED
    BY <2>10, <2>11, <2>12
<1> QED
  BY <1>1, <1>2

\* Whatever comes, the bytes of a packet that a decoder gives out are the first of its
\* buffer and what it leaves are the others; and no byte that the decoder of lines has
\* looked at ends one.
THEOREM DecodedIsWhole ==
    ASSUME NEW F \in Formats, NEW b \in Seq(Byte), NEW from \in Nat, NEW codec
    PROVE  LET result == Decode(F, b, from, codec) IN
           \/ Whole(F, result, b)
           \/ result = Bad
           \/ result = More(0)
           \/ F = "lines" /\ result = More(Len(b)) /\ (Unended(b, from) => Unended(b, Len(b)))
<1>1. CASE F = "lines"
  <2>1. Decode(F, b, from, codec) = Lines(b, from)
    BY <1>1 DEF Decode
  <2> QED
    BY <1>1, <2>1, LinesAreWhole
<1>2. CASE F = "chunks"
  <2>1. Decode(F, b, from, codec) = Chunks(b)
    BY <1>2 DEF Decode
  <2> QED
    BY <1>2, <2>1, ChunksAreWhole
<1>3. CASE F = "wire"
  <2>1. Decode(F, b, from, codec) = Wire(b)
    BY <1>3 DEF Decode
  <2>2. Wire(b) \in {More(0), Bad} \/ Whole("wire", Wire(b), b)
    BY WireIsWhole
  <2> QED
    BY <1>3, <2>1, <2>2
<1>4. CASE F = "tokio"
  <2>1. Decode(F, b, from, codec) = Wire(b)
    BY <1>4 DEF Decode
  <2>2. Wire(b) \in {More(0), Bad} \/ Whole("wire", Wire(b), b)
    BY WireIsWhole
  <2>3. Whole("wire", Wire(b), b) => Whole("tokio", Wire(b), b)
    BY TokioEncodes DEF Whole
  <2> QED
    BY <1>4, <2>1, <2>2, <2>3
<1>5. CASE F = "pest"
  <2>1. Decode(F, b, from, codec) = Pest(b)
    BY <1>5 DEF Decode
  <2>2. Pest(b) \in {More(0), Bad} \/ Whole("pest", Pest(b), b)
    BY PestIsWhole
  <2> QED
    BY <1>5, <2>1, <2>2
<1> QED
  BY <1>1, <1>2, <1>3, <1>4, <1>5 DEF Formats

-----------------------------------------------------------------------------
(* Bits *)

LEMMA Weights ==
    /\ Weight[1] = 1 /\ Weight[2] = 2 /\ Weight[3] = 4 /\ Weight[4] = 8
    /\ Weight[5] = 16 /\ Weight[6] = 32 /\ Weight[7] = 64 /\ Weight[8] = 128
  BY DEF Weight

Bits == [1..8 -> {0, 1}]

\* One number is another one half, and a bit.
LEMMA Halves ==
    ASSUME NEW h \in Nat, NEW b \in {0, 1}, NEW n, n = b + 2 * h
    PROVE  n \in Nat /\ n \div 2 = h /\ n % 2 = b
  OBVIOUS

LEMMA Quotients ==
    ASSUME NEW n \in Nat
    PROVE  /\ n \div 1 = n
           /\ n \div 2 \in Nat
           /\ n \div 4 = (n \div 2) \div 2
           /\ n \div 8 = (n \div 4) \div 2
           /\ n \div 16 = (n \div 8) \div 2
           /\ n \div 32 = (n \div 16) \div 2
           /\ n \div 64 = (n \div 32) \div 2
           /\ n \div 128 = (n \div 64) \div 2
           /\ n \div 256 = (n \div 128) \div 2
  OBVIOUS

LEMMA BitsOf ==
    ASSUME NEW n \in Nat, NEW i \in 1..8
    PROVE  Bit(n, i) \in {0, 1}
<1>1. \A w \in {1, 2, 4, 8, 16, 32, 64, 128} : (n \div w) % 2 \in {0, 1}
  OBVIOUS
<1>2. Weight[i] \in {1, 2, 4, 8, 16, 32, 64, 128}
  <2>1. i \in {1, 2, 3, 4, 5, 6, 7, 8}
    OBVIOUS
  <2> QED
    BY <2>1, Weights
<1> QED
  BY <1>1, <1>2 DEF Bit

\* The bits of the byte of some bits.
LEMMA BitsBack ==
    ASSUME NEW b \in Bits
    PROVE  FromBits(b) \in Byte /\ \A i \in 1..8 : Bit(FromBits(b), i) = b[i]
<1>1. /\ b[1] \in {0, 1} /\ b[2] \in {0, 1} /\ b[3] \in {0, 1} /\ b[4] \in {0, 1}
      /\ b[5] \in {0, 1} /\ b[6] \in {0, 1} /\ b[7] \in {0, 1} /\ b[8] \in {0, 1}
  BY DEF Bits
<1>2. PICK x1, x2, x3, x4, x5, x6, x7, x8 \in {0, 1} :
         /\ x1 = b[1] /\ x2 = b[2] /\ x3 = b[3] /\ x4 = b[4]
         /\ x5 = b[5] /\ x6 = b[6] /\ x7 = b[7] /\ x8 = b[8]
  BY <1>1
<1>3. PICK q7, q6, q5, q4, q3, q2, q1, n \in Nat :
         /\ q7 = x8 /\ q6 = x7 + 2 * q7 /\ q5 = x6 + 2 * q6 /\ q4 = x5 + 2 * q5
         /\ q3 = x4 + 2 * q4 /\ q2 = x3 + 2 * q3 /\ q1 = x2 + 2 * q2 /\ n = x1 + 2 * q1
  OBVIOUS
<1>4. n = FromBits(b) /\ n \in Byte
  <2>1. n = x1 + 2 * x2 + 4 * x3 + 8 * x4 + 16 * x5 + 32 * x6 + 64 * x7 + 128 * x8
    BY <1>3
  <2>2. n \in Byte
    BY <2>1 DEF Byte
  <2> QED
    BY <1>2, <2>1, <2>2 DEF FromBits
<1>5. n \div 2 = q1 /\ q1 \div 2 = q2 /\ q2 \div 2 = q3 /\ q3 \div 2 = q4
  BY <1>3, Halves
<1>6. q4 \div 2 = q5 /\ q5 \div 2 = q6 /\ q6 \div 2 = q7
  BY <1>3, Halves
<1>7. n % 2 = x1 /\ q1 % 2 = x2 /\ q2 % 2 = x3 /\ q3 % 2 = x4
  BY <1>3, Halves
<1>8. q4 % 2 = x5 /\ q5 % 2 = x6 /\ q6 % 2 = x7 /\ q7 % 2 = x8
  BY <1>3, Halves
<1>9. /\ n \div 1 = n /\ n \div 2 = q1 /\ n \div 4 = q2 /\ n \div 8 = q3 /\ n \div 16 = q4
      /\ n \div 32 = q5 /\ n \div 64 = q6 /\ n \div 128 = q7
  BY <1>5, <1>6, Quotients
<1>10. /\ Bit(n, 1) = x1 /\ Bit(n, 2) = x2 /\ Bit(n, 3) = x3 /\ Bit(n, 4) = x4
       /\ Bit(n, 5) = x5 /\ Bit(n, 6) = x6 /\ Bit(n, 7) = x7 /\ Bit(n, 8) = x8
  BY <1>7, <1>8, <1>9, Weights DEF Bit
<1>11. \A i \in 1..8 : i \in {1, 2, 3, 4, 5, 6, 7, 8}
  OBVIOUS
<1> QED
  BY <1>2, <1>4, <1>10, <1>11

\* The byte of the bits of a byte.
LEMMA BytesBack ==
    ASSUME NEW v \in Byte
    PROVE  FromBits([i \in 1..8 |-> Bit(v, i)]) = v
<1>1. v \in Nat /\ v < 256
  BY DEF Byte
<1>2. PICK q1, q2, q3, q4, q5, q6, q7 :
         /\ q1 = v \div 2 /\ q2 = v \div 4 /\ q3 = v \div 8 /\ q4 = v \div 16
         /\ q5 = v \div 32 /\ q6 = v \div 64 /\ q7 = v \div 128
  OBVIOUS
<1>3. /\ q1 \in Nat /\ q2 = q1 \div 2 /\ q3 = q2 \div 2 /\ q4 = q3 \div 2 /\ q5 = q4 \div 2
      /\ q6 = q5 \div 2 /\ q7 = q6 \div 2
  BY <1>1, <1>2, Quotients
<1>4. /\ v = (v % 2) + 2 * q1
      /\ q1 = (q1 % 2) + 2 * q2 /\ q2 \in Nat
  BY <1>1, <1>2, <1>3
<1>5. /\ q2 = (q2 % 2) + 2 * q3 /\ q3 \in Nat
      /\ q3 = (q3 % 2) + 2 * q4 /\ q4 \in Nat
  BY SMTT(40), <1>3, <1>4
<1>6. /\ q4 = (q4 % 2) + 2 * q5 /\ q5 \in Nat
      /\ q5 = (q5 % 2) + 2 * q6 /\ q6 \in Nat
      /\ q6 = (q6 % 2) + 2 * q7 /\ q7 \in Nat
  BY <1>3, <1>5
<1>7. q7 < 2
  BY <1>1, <1>2
<1>8. q7 % 2 = q7
  BY <1>6, <1>7
<1>9. PICK b : b = [i \in 1..8 |-> Bit(v, i)]
  OBVIOUS
<1>10. /\ b[1] = v % 2 /\ b[2] = q1 % 2 /\ b[3] = q2 % 2 /\ b[4] = q3 % 2
       /\ b[5] = q4 % 2 /\ b[6] = q5 % 2 /\ b[7] = q6 % 2 /\ b[8] = q7 % 2
  <2>1. v \div 1 = v
    BY <1>1
  <2>2. \A i \in 1..8 : b[i] = (v \div Weight[i]) % 2
    BY <1>9 DEF Bit
  <2>3. 1 \in 1..8 /\ 2 \in 1..8 /\ 3 \in 1..8 /\ 4 \in 1..8 /\ 5 \in 1..8 /\ 6 \in 1..8
        /\ 7 \in 1..8 /\ 8 \in 1..8
    OBVIOUS
  <2> QED
    BY <1>2, <2>1, <2>2, <2>3, Weights
<1>11. PICK x1, x2, x3, x4, x5, x6, x7 :
          /\ x1 = v % 2 /\ x2 = q1 % 2 /\ x3 = q2 % 2 /\ x4 = q3 % 2
          /\ x5 = q4 % 2 /\ x6 = q5 % 2 /\ x7 = q6 % 2
  OBVIOUS
<1>12. /\ x1 \in Nat /\ x2 \in Nat /\ x3 \in Nat /\ x4 \in Nat /\ x5 \in Nat /\ x6 \in Nat
       /\ x7 \in Nat
  <2>1. \A m \in Nat : m % 2 \in Nat
    BY SMTT(40)
  <2>2. /\ q1 \in Nat /\ q2 \in Nat /\ q3 \in Nat /\ q4 \in Nat /\ q5 \in Nat /\ q6 \in Nat
        /\ v \in Nat
    BY <1>1, <1>3, <1>4, <1>5, <1>6
  <2> QED
    BY <1>11, <2>1, <2>2
<1>13. v = x1 + 2 * x2 + 4 * x3 + 8 * x4 + 16 * x5 + 32 * x6 + 64 * x7 + 128 * q7
  <2>1. /\ v = x1 + 2 * q1 /\ q1 = x2 + 2 * q2 /\ q2 = x3 + 2 * q3 /\ q3 = x4 + 2 * q4
        /\ q4 = x5 + 2 * q5 /\ q5 = x6 + 2 * q6 /\ q6 = x7 + 2 * q7
    BY SMTT(40), <1>4, <1>5, <1>6, <1>11
  <2>2. /\ q1 \in Nat /\ q2 \in Nat /\ q3 \in Nat /\ q4 \in Nat /\ q5 \in Nat /\ q6 \in Nat
        /\ q7 \in Nat
    BY <1>3, <1>4, <1>5, <1>6
  <2> HIDE <1>3
  <2> QED
    BY <1>12, <2>1, <2>2
<1> QED
  BY <1>8, <1>9, <1>10, <1>11, <1>13 DEF FromBits

-----------------------------------------------------------------------------
(* Ciphers *)

\* The operations on a byte, each with what undoes it.
LEMMA ReversedBack ==
    ASSUME NEW v \in Byte
    PROVE  ReversedBits(v) \in Byte /\ ReversedBits(ReversedBits(v)) = v
<1>1. v \in Nat
  BY DEF Byte
<1>2. PICK b : b = [i \in 1..8 |-> Bit(v, 9 - i)]
  OBVIOUS
<1>3. \A i \in 1..8 : 9 - i \in 1..8 /\ 9 - (9 - i) = i
  OBVIOUS
<1>4. b \in Bits
  BY <1>1, <1>2, <1>3, BitsOf DEF Bits
<1>5. PICK w : w = ReversedBits(v)
  OBVIOUS
<1>6. w \in Byte /\ \A i \in 1..8 : Bit(w, i) = b[i]
  BY <1>2, <1>4, <1>5, BitsBack DEF ReversedBits
<1>7. [i \in 1..8 |-> Bit(w, 9 - i)] = [i \in 1..8 |-> Bit(v, i)]
  <2>1. ASSUME NEW i \in 1..8 PROVE Bit(w, 9 - i) = Bit(v, i)
    <3>1. PICK j \in 1..8 : j = 9 - i
      BY <1>3
    <3>2. Bit(w, j) = b[j] /\ b[j] = Bit(v, 9 - j) /\ 9 - j = i
      BY <1>2, <1>3, <1>6, <3>1
    <3> QED
      BY <3>1, <3>2
  <2> QED
    BY <2>1
<1>8. ReversedBits(w) = v
  BY <1>7, BytesBack DEF ReversedBits
<1> QED
  BY <1>5, <1>6, <1>8

LEMMA XorBits ==
    ASSUME NEW v \in Nat, NEW w \in Nat
    PROVE  /\ Xor(v, w) \in Byte
           /\ \A i \in 1..8 : Bit(Xor(v, w), i) = (Bit(v, i) + Bit(w, i)) % 2
<1>1. PICK b : b = [i \in 1..8 |-> (Bit(v, i) + Bit(w, i)) % 2]
  OBVIOUS
<1>2. \A x, y \in {0, 1} : (x + y) % 2 \in {0, 1}
  OBVIOUS
<1>3. \A i \in 1..8 : Bit(v, i) \in {0, 1} /\ Bit(w, i) \in {0, 1}
  BY BitsOf
<1>4. b \in Bits
  BY <1>1, <1>2, <1>3 DEF Bits
<1>5. Xor(v, w) = FromBits(b)
  BY <1>1 DEF Xor
<1>6. FromBits(b) \in Byte /\ \A i \in 1..8 : Bit(FromBits(b), i) = b[i]
  BY <1>4, BitsBack
<1> QED
  BY <1>1, <1>5, <1>6

LEMMA XorBack ==
    ASSUME NEW v \in Byte, NEW w \in Nat
    PROVE  /\ Xor(v, w) \in Byte /\ Xor(Xor(v, w), w) = v
           /\ Xor(w, v) \in Byte /\ Xor(w, Xor(w, v)) = v
<1>1. v \in Nat
  BY DEF Byte
<1>2. PICK x, y : x = Xor(v, w) /\ y = Xor(w, v)
  OBVIOUS
<1>3. x \in Byte /\ y \in Byte /\ x \in Nat /\ y \in Nat
  <2>1. x \in Byte /\ y \in Byte
    BY <1>1, <1>2, XorBits
  <2> QED
    BY <2>1 DEF Byte
<1>4. ASSUME NEW i \in 1..8
      PROVE  /\ (Bit(x, i) + Bit(w, i)) % 2 = Bit(v, i)
             /\ (Bit(w, i) + Bit(y, i)) % 2 = Bit(v, i)
  <2>1. PICK a, c : a = Bit(v, i) /\ c = Bit(w, i)
    OBVIOUS
  <2>2. a \in {0, 1} /\ c \in {0, 1}
    BY <1>1, <2>1, BitsOf
  <2>3. Bit(x, i) = (a + c) % 2 /\ Bit(y, i) = (c + a) % 2
    BY <1>1, <1>2, <2>1, XorBits
  <2>4. (((a + c) % 2) + c) % 2 = a /\ (c + ((c + a) % 2)) % 2 = a
    BY <2>2
  <2> QED
    BY <2>1, <2>3, <2>4
<1>5. /\ [i \in 1..8 |-> (Bit(x, i) + Bit(w, i)) % 2] = [i \in 1..8 |-> Bit(v, i)]
      /\ [i \in 1..8 |-> (Bit(w, i) + Bit(y, i)) % 2] = [i \in 1..8 |-> Bit(v, i)]
  BY <1>4
<1>6. Xor(x, w) = v /\ Xor(w, y) = v
  BY <1>5, BytesBack DEF Xor
<1> QED
  BY <1>2, <1>3, <1>6

LEMMA AddBack ==
    ASSUME NEW v \in Byte, NEW n \in Nat
    PROVE  /\ (v + n) % 256 \in Byte /\ (((v + n) % 256) - n) % 256 = v
           /\ (n + v) % 256 \in Byte /\ (((n + v) % 256) - n) % 256 = v
           /\ (v - n) % 256 \in Byte
<1>1. v \in Nat /\ v < 256
  BY DEF Byte
<1>2. PICK s \in Nat : s = v + n
  BY <1>1
<1>3. PICK q \in Nat : q = s \div 256
  BY <1>2
<1>4. PICK m \in Nat : m = s % 256
  BY <1>2
<1>5. s = 256 * q + m /\ m < 256
  BY <1>2, <1>3, <1>4
<1>6. m - n = v + 256 * (0 - q)
  BY <1>1, <1>2, <1>5
<1>7. (m - n) % 256 = v
  BY <1>1, <1>6
<1>8. m \in Byte /\ n + v = s
  BY <1>1, <1>2, <1>5 DEF Byte
<1>9. (v - n) % 256 \in Byte
  BY <1>1 DEF Byte
<1> QED
  BY <1>2, <1>4, <1>7, <1>8, <1>9

LEMMA OperationIs ==
    ASSUME NEW o \in Operation
    PROVE  \/ o = <<"Reversebits">> \/ o = <<"Xorpos">> \/ o = <<"Addpos">>
           \/ \E n \in Byte : o = <<"Xor", n>> \/ o = <<"Add", n>>
  BY DEF Operation, WithOperand

LEMMA OneBack ==
    ASSUME NEW o \in Operation, NEW position \in Nat, NEW v \in Byte
    PROVE  /\ EncodeBy(o, position, v) \in Byte /\ DecodeBy(o, position, v) \in Byte
           /\ DecodeBy(o, position, EncodeBy(o, position, v)) = v
<1>1. CASE o = <<"Reversebits">>
  <2>1. \A u : EncodeBy(o, position, u) = ReversedBits(u) /\ DecodeBy(o, position, u) = ReversedBits(u)
    BY <1>1 DEF EncodeBy, DecodeBy
  <2> QED
    BY <2>1, ReversedBack
<1>2. CASE o = <<"Xorpos">>
  <2>1. \A u : EncodeBy(o, position, u) = Xor(position, u) /\ DecodeBy(o, position, u) = Xor(position, u)
    BY <1>2 DEF EncodeBy, DecodeBy
  <2> QED
    BY <2>1, XorBack
<1>3. CASE o = <<"Addpos">>
  <2>1. \A u : /\ EncodeBy(o, position, u) = (position + u) % 256
               /\ DecodeBy(o, position, u) = (u - position) % 256
    BY <1>3 DEF EncodeBy, DecodeBy
  <2> QED
    BY <2>1, AddBack
<1>4. ASSUME NEW n \in Byte, o = <<"Xor", n>>
      PROVE  /\ EncodeBy(o, position, v) \in Byte /\ DecodeBy(o, position, v) \in Byte
             /\ DecodeBy(o, position, EncodeBy(o, position, v)) = v
  <2>1. \A u : EncodeBy(o, position, u) = Xor(u, n) /\ DecodeBy(o, position, u) = Xor(u, n)
    BY <1>4 DEF EncodeBy, DecodeBy
  <2>2. n \in Nat
    BY DEF Byte
  <2> QED
    BY <2>1, <2>2, XorBack
<1>5. ASSUME NEW n \in Byte, o = <<"Add", n>>
      PROVE  /\ EncodeBy(o, position, v) \in Byte /\ DecodeBy(o, position, v) \in Byte
             /\ DecodeBy(o, position, EncodeBy(o, position, v)) = v
  <2>1. \A u : EncodeBy(o, position, u) = (u + n) % 256 /\ DecodeBy(o, position, u) = (u - n) % 256
    BY <1>5 DEF EncodeBy, DecodeBy
  <2>2. n \in Nat
    BY DEF Byte
  <2> QED
    BY <2>1, <2>2, AddBack
<1> QED
  BY <1>1, <1>2, <1>3, <1>4, <1>5, OperationIs

LEMMA EncodedBytes ==
    ASSUME NEW spec \in Seq(Operation), NEW position \in Nat, NEW v \in Byte, NEW n \in Nat,
           n <= Len(spec), NEW f, EncodesOn(spec, position, v, Len(spec), f)
    PROVE  f[n] \in Byte
<1> DEFINE T == {i \in Nat : i <= n => f[i] \in Byte}
<1>1. f[0] = v /\ \A i \in 1..Len(spec) : f[i] = EncodeBy(spec[i], position, f[i - 1])
  BY DEF EncodesOn
<1>2. Len(spec) \in Nat
  BY LenProperties
<1>3. 0 \in T
  BY <1>1
<1>4. ASSUME NEW i \in T PROVE i + 1 \in T
  <2>1. i \in Nat
    OBVIOUS
  <2>2. ASSUME i + 1 <= n PROVE f[i + 1] \in Byte
    <3>1. i <= n /\ i + 1 \in 1..Len(spec) /\ i + 1 - 1 = i
      BY <1>2, <2>1, <2>2
    <3>2. f[i] \in Byte /\ spec[i + 1] \in Operation
      BY <3>1, ElementOfSeq
    <3>3. f[i + 1] = EncodeBy(spec[i + 1], position, f[i])
      BY <1>1, <3>1
    <3> QED
      BY <3>2, <3>3, OneBack
  <2> QED
    BY <2>1, <2>2
<1>5. T = Nat
  <2>1. T \in SUBSET Nat
    OBVIOUS
  <2> HIDE DEF T
  <2> QED
    BY <1>3, <1>4, <2>1, SetInduction
<1> QED
  BY <1>5

LEMMA EncodedByte ==
    ASSUME NEW spec \in Seq(Operation), NEW position \in Nat, NEW v \in Byte
    PROVE  EncodeByte(spec, position, v) \in Byte
<1>1. Len(spec) \in Nat /\ Len(spec) <= Len(spec)
  BY LenProperties
<1>2. PICK f : /\ EncodesOn(spec, position, v, Len(spec), f)
               /\ EncodeByte(spec, position, v) = f[Len(spec)]
  BY <1>1, EncodeGoes
<1>3. f[Len(spec)] \in Byte
  BY <1>1, <1>2, EncodedBytes
<1> QED
  BY <1>2, <1>3

LEMMA DecodedByte ==
    ASSUME NEW spec \in Seq(Operation), NEW position \in Nat, NEW v \in Byte
    PROVE  DecodeByte(spec, position, v) \in Byte
<1>1. PICK n \in Nat : n = Len(spec)
  BY LenProperties
<1>2. PICK f : /\ DecodesOn(spec, position, v, n, f)
               /\ DecodeByte(spec, position, v) = f[n]
  BY <1>1, DecodeGoes
<1>3. f[0] = v /\ \A i \in 1..n : f[i] = DecodeBy(spec[n + 1 - i], position, f[i - 1])
  BY <1>1, <1>2 DEF DecodesOn
<1> DEFINE T == {i \in Nat : i <= n => f[i] \in Byte}
<1>4. 0 \in T
  BY <1>3
<1>5. ASSUME NEW i \in T PROVE i + 1 \in T
  <2>1. i \in Nat
    OBVIOUS
  <2>2. ASSUME i + 1 <= n PROVE f[i + 1] \in Byte
    <3>1. /\ i <= n /\ i + 1 \in 1..n /\ (i + 1) - 1 = i
          /\ n + 1 - (i + 1) = n - i /\ n - i \in 1..n
      BY <2>1, <2>2
    <3>2. f[i] \in Byte /\ spec[n - i] \in Operation
      BY <1>1, <3>1, ElementOfSeq
    <3>3. f[i + 1] = DecodeBy(spec[n - i], position, f[i])
      BY <1>3, <3>1
    <3> QED
      BY <3>2, <3>3, OneBack
  <2> QED
    BY <2>1, <2>2
<1>6. T = Nat
  <2>1. T \in SUBSET Nat
    OBVIOUS
  <2> HIDE DEF T
  <2> QED
    BY <1>4, <1>5, <2>1, SetInduction
<1>7. f[n] \in Byte
  BY <1>6
<1> QED
  BY <1>2, <1>7

\* What a cipher spec made of a byte at its position, its inverse undoes there: each
\* operation undoes what the last one before it that is not undone has done.
THEOREM BytesAreDeciphered ==
    ASSUME NEW spec \in Seq(Operation), NEW position \in Nat, NEW v \in Byte
    PROVE  DecodeByte(spec, position, EncodeByte(spec, position, v)) = v
<1>1. PICK n \in Nat : n = Len(spec)
  BY LenProperties
<1>2. PICK f : /\ EncodesOn(spec, position, v, n, f)
               /\ EncodeByte(spec, position, v) = f[n]
  BY <1>1, EncodeGoes
<1>3. PICK h : /\ DecodesOn(spec, position, f[n], n, h)
               /\ DecodeByte(spec, position, f[n]) = h[n]
  BY <1>1, DecodeGoes
<1>4. f[0] = v /\ \A i \in 1..n : f[i] = EncodeBy(spec[i], position, f[i - 1])
  BY <1>2 DEF EncodesOn
<1>5. h[0] = f[n] /\ \A i \in 1..n : h[i] = DecodeBy(spec[n + 1 - i], position, h[i - 1])
  BY <1>1, <1>3 DEF DecodesOn
<1>6. \A i \in Nat : i <= n => f[i] \in Byte
  BY <1>1, <1>2, EncodedBytes
<1> DEFINE T == {i \in Nat : i <= n => h[i] = f[n - i]}
<1>7. 0 \in T
  <2>1. n - 0 = n
    OBVIOUS
  <2> QED
    BY <1>5, <2>1
<1>8. ASSUME NEW i \in T PROVE i + 1 \in T
  <2>1. i \in Nat
    OBVIOUS
  <2>2. ASSUME i + 1 <= n PROVE h[i + 1] = f[n - (i + 1)]
    <3>1. PICK j : j = n - (i + 1)
      OBVIOUS
    <3>2. /\ i <= n /\ i + 1 \in 1..n /\ (i + 1) - 1 = i /\ j \in Nat /\ j <= n
          /\ n + 1 - (i + 1) = j + 1 /\ j + 1 \in 1..n /\ (j + 1) - 1 = j /\ n - i = j + 1
      BY <2>1, <2>2, <3>1
    <3>3. h[i] = f[j + 1]
      BY <3>2
    <3>4. h[i + 1] = DecodeBy(spec[j + 1], position, f[j + 1])
      BY <1>5, <3>2, <3>3
    <3>5. f[j + 1] = EncodeBy(spec[j + 1], position, f[j])
      BY <1>4, <3>2
    <3>6. f[j] \in Byte /\ spec[j + 1] \in Operation
      BY <1>1, <1>6, <3>2, ElementOfSeq
    <3>7. h[i + 1] = f[j]
      BY <3>4, <3>5, <3>6, OneBack
    <3> QED
      BY <3>1, <3>7
  <2> QED
    BY <2>1, <2>2
<1>9. T = Nat
  <2>1. T \in SUBSET Nat
    OBVIOUS
  <2> HIDE DEF T
  <2> QED
    BY <1>7, <1>8, <2>1, SetInduction
<1>10. h[n] = f[0]
  <2>1. n - n = 0 /\ n <= n
    OBVIOUS
  <2> QED
    BY <1>9, <2>1
<1> QED
  BY <1>2, <1>3, <1>4, <1>10

-----------------------------------------------------------------------------
(* The codec of a cipher reads its spec *)

Codec == [complete : BOOLEAN, spec : Seq(Operation), upstream : Nat, downstream : Nat,
          cut : BOOLEAN]

\* What the codec has read of a spec.
Readings == [is : {"incomplete", "complete", "bad"}, spec : Seq(Operation), code : {0, 2, 4},
             rest : Seq(Byte)]

LEMMA OperationNames ==
    /\ DOMAIN Operations = 1..5 /\ Operations[1] = "Reversebits" /\ Operations[2] = "Xor"
    /\ Operations[3] = "Xorpos" /\ Operations[4] = "Add" /\ Operations[5] = "Addpos"
  BY DEF Operations

LEMMA ReadByTypes ==
    ASSUME NEW reading \in Readings, NEW b \in Byte
    PROVE  ReadBy(reading, b) \in Readings
<1>1. /\ reading.spec \in Seq(Operation) /\ reading.code \in {0, 2, 4} /\ reading.rest \in Seq(Byte)
      /\ reading.is \in {"incomplete", "complete", "bad"}
  BY DEF Readings
<1>2. CASE reading.is # "incomplete"
  <2>1. Append(reading.rest, b) \in Seq(Byte)
    BY <1>1, AppendProperties
  <2>2. ReadBy(reading, b) = [reading EXCEPT !.rest = Append(reading.rest, b)]
    BY <1>2 DEF ReadBy
  <2> QED
    BY <2>1, <2>2 DEF Readings
<1>3. CASE reading.is = "incomplete" /\ reading.code # 0
  <2>1. PICK o : o = <<Operations[reading.code], b>>
    OBVIOUS
  <2>2. o \in Operation
    <3>1. Operations[reading.code] \in WithOperand
      BY <1>1, <1>3, OperationNames DEF WithOperand
    <3> QED
      BY <2>1, <3>1 DEF Operation
  <2>3. Append(reading.spec, o) \in Seq(Operation)
    BY <1>1, <2>2, AppendProperties
  <2>4. ReadBy(reading, b) = [reading EXCEPT !.spec = Append(reading.spec, o), !.code = 0]
    BY <1>3, <2>1 DEF ReadBy
  <2> QED
    BY <2>3, <2>4 DEF Readings
<1>4. CASE reading.is = "incomplete" /\ reading.code = 0
  <2>1. CASE b = 0
    <3>1. ReadBy(reading, b) = [reading EXCEPT !.is = "complete"]
      BY <1>4, <2>1 DEF ReadBy
    <3> QED
      BY <3>1 DEF Readings
  <2>2. CASE b # 0 /\ b \notin 1..5
    <3>1. ReadBy(reading, b) = [reading EXCEPT !.is = "bad"]
      BY <1>4, <2>2, OperationNames DEF ReadBy
    <3> QED
      BY <3>1 DEF Readings
  <2>3. CASE b \in {2, 4}
    <3>1. Operations[b] \in WithOperand /\ b # 0 /\ b \in DOMAIN Operations
      BY <2>3, OperationNames DEF WithOperand
    <3>2. ReadBy(reading, b) = [reading EXCEPT !.code = b]
      BY <1>4, <3>1 DEF ReadBy
    <3> QED
      BY <2>3, <3>2 DEF Readings
  <2>4. CASE b \in {1, 3, 5}
    <3>1. Operations[b] \notin WithOperand /\ b # 0 /\ b \in DOMAIN Operations
      BY <2>4, OperationNames DEF WithOperand
    <3>2. PICK o : o = <<Operations[b]>>
      OBVIOUS
    <3>3. o \in Operation
      BY <2>4, <3>2, OperationNames DEF Operation
    <3>4. ReadBy(reading, b) = [reading EXCEPT !.spec = Append(reading.spec, o)]
      BY <1>4, <3>1, <3>2 DEF ReadBy
    <3>5. Append(reading.spec, o) \in Seq(Operation)
      BY <1>1, <3>3, AppendProperties
    <3> QED
      BY <3>4, <3>5 DEF Readings
  <2>5. b \in 1..5 => b \in {2, 4} \/ b \in {1, 3, 5}
    OBVIOUS
  <2> QED
    BY <2>1, <2>2, <2>3, <2>4, <2>5
<1> QED
  BY <1>1, <1>2, <1>3, <1>4

\* From a reading the bytes lead to another one.
ReadsTo(reading, bytes, got) ==
    \E f : /\ f[0] = reading /\ got = f[Len(bytes)]
           /\ \A i \in 1..Len(bytes) : f[i] = ReadBy(f[i - 1], bytes[i])

Start(spec) == [is |-> "incomplete", spec |-> spec, code |-> 0, rest |-> <<>>]

LEMMA ReadingReads ==
    ASSUME NEW spec, NEW b \in Seq(Byte)
    PROVE  ReadsTo(Start(spec), b, Reading(spec, b))
<1>1. Len(b) \in Nat
  BY LenProperties
<1>2. PICK f : ReadsOn(spec, b, Len(b), f) /\ Reading(spec, b) = f[Len(b)]
  BY <1>1, ReadingGoes
<1> QED
  BY <1>2 DEF ReadsOn, ReadsTo, Start

LEMMA ReadsNone ==
    ASSUME NEW reading, NEW got, ReadsTo(reading, <<>>, got)
    PROVE  got = reading
<1>1. Len(<<>>) = 0
  OBVIOUS
<1> QED
  BY <1>1 DEF ReadsTo

LEMMA ReadsFirst ==
    ASSUME NEW reading, NEW c \in Byte, NEW t \in Seq(Byte), NEW got,
           ReadsTo(reading, <<c>> \o t, got)
    PROVE  ReadsTo(ReadBy(reading, c), t, got)
<1>1. PICK b : b = <<c>> \o t
  OBVIOUS
<1>2. PICK n \in Nat : n = Len(t)
  BY LenProperties
<1>3. Len(b) = n + 1 /\ b[1] = c /\ \A i \in 1..n : b[i + 1] = t[i]
  <2>1. PICK x : x = <<c>>
    OBVIOUS
  <2>2. x \in Seq(Byte) /\ Len(x) = 1 /\ x[1] = c
    BY <2>1
  <2>3. /\ Len(x \o t) = Len(x) + Len(t)
        /\ \A i \in 1..(Len(x) + Len(t)) : (x \o t)[i] = IF i <= Len(x) THEN x[i] ELSE t[i - Len(x)]
    BY <2>2, ConcatProperties
  <2>4. \A i \in 1..(1 + n) : b[i] = IF i <= 1 THEN x[i] ELSE t[i - 1]
    <3>1. ASSUME NEW i \in 1..(1 + n) PROVE b[i] = IF i <= 1 THEN x[i] ELSE t[i - 1]
      <4>1. i \in 1..(Len(x) + Len(t)) /\ i - Len(x) = i - 1 /\ (i <= Len(x) <=> i <= 1)
        BY <1>2, <2>2
      <4>2. (x \o t)[i] = IF i <= Len(x) THEN x[i] ELSE t[i - Len(x)]
        BY <2>3, <4>1
      <4> QED
        BY <1>1, <2>1, <4>1, <4>2
    <3> QED
      BY <3>1
  <2>5. Len(b) = 1 + n
    BY <1>1, <1>2, <2>1, <2>2, <2>3
  <2>6. 1 \in 1..(1 + n) /\ 1 <= 1
    OBVIOUS
  <2>7. ASSUME NEW i \in 1..n PROVE b[i + 1] = t[i]
    <3>1. i + 1 \in 1..(1 + n) /\ ~ (i + 1 <= 1) /\ i + 1 - 1 = i
      OBVIOUS
    <3> QED
      BY <2>4, <3>1
  <2> QED
    BY <2>2, <2>4, <2>5, <2>6, <2>7
<1>4. PICK f : /\ f[0] = reading /\ got = f[n + 1]
               /\ \A i \in 1..(n + 1) : f[i] = ReadBy(f[i - 1], b[i])
  BY <1>1, <1>3 DEF ReadsTo
<1>5. PICK h : h = [i \in 0..n |-> f[i + 1]]
  OBVIOUS
<1>6. h[0] = ReadBy(reading, c)
  <2>1. 0 \in 0..n /\ 1 \in 1..(n + 1) /\ 1 - 1 = 0 /\ 0 + 1 = 1
    OBVIOUS
  <2>2. h[0] = f[1]
    BY <1>5, <2>1
  <2>3. f[1] = ReadBy(f[1 - 1], b[1])
    BY <1>4, <2>1
  <2> QED
    BY <1>3, <1>4, <2>1, <2>2, <2>3
<1>7. h[n] = got
  <2>1. n \in 0..n
    OBVIOUS
  <2> QED
    BY <1>4, <1>5, <2>1
<1>8. ASSUME NEW i \in 1..n PROVE h[i] = ReadBy(h[i - 1], t[i])
  <2>1. i \in 0..n /\ i - 1 \in 0..n /\ i + 1 \in 1..(n + 1) /\ i + 1 - 1 = i /\ i - 1 + 1 = i
    OBVIOUS
  <2>2. h[i] = f[i + 1] /\ h[i - 1] = f[i - 1 + 1]
    BY <1>5, <2>1
  <2>3. f[i + 1] = ReadBy(f[i + 1 - 1], b[i + 1])
    BY <1>4, <2>1
  <2> QED
    BY <1>3, <2>1, <2>2, <2>3
<1> QED
  BY <1>2, <1>6, <1>7, <1>8 DEF ReadsTo

LEMMA ReadsTypes ==
    ASSUME NEW reading \in Readings, NEW b \in Seq(Byte), NEW got, ReadsTo(reading, b, got)
    PROVE  got \in Readings
<1>1. PICK n \in Nat : n = Len(b)
  BY LenProperties
<1>2. PICK f : /\ f[0] = reading /\ got = f[n]
               /\ \A i \in 1..n : f[i] = ReadBy(f[i - 1], b[i])
  BY <1>1 DEF ReadsTo
<1> DEFINE T == {i \in Nat : i <= n => f[i] \in Readings}
<1>3. 0 \in T
  BY <1>2
<1>4. ASSUME NEW i \in T PROVE i + 1 \in T
  <2>1. i \in Nat
    OBVIOUS
  <2>2. ASSUME i + 1 <= n PROVE f[i + 1] \in Readings
    <3>1. i <= n /\ i + 1 \in 1..n /\ (i + 1) - 1 = i
      BY <2>1, <2>2
    <3>2. f[i] \in Readings
      BY <3>1
    <3>3. b[i + 1] \in Byte
      BY <1>1, <3>1, ElementOfSeq
    <3>4. f[i + 1] = ReadBy(f[i], b[i + 1])
      BY <1>2, <3>1
    <3> QED
      BY <3>2, <3>3, <3>4, ReadByTypes
  <2> QED
    BY <2>1, <2>2
<1>5. T = Nat
  <2>1. T \in SUBSET Nat
    OBVIOUS
  <2> HIDE DEF T
  <2> QED
    BY <1>3, <1>4, <2>1, SetInduction
<1>6. f[n] \in Readings
  BY <1>5
<1> QED
  BY <1>2, <1>6

\* Once the spec is over, what comes is left.
Done(spec, rest) == [is |-> "complete", spec |-> spec, code |-> 0, rest |-> rest]

LEMMA ReadsRest ==
    ASSUME NEW spec, NEW t \in Seq(Byte), NEW got, ReadsTo(Done(spec, <<>>), t, got)
    PROVE  got = Done(spec, t)
<1>1. PICK n \in Nat : n = Len(t)
  BY LenProperties
<1>2. PICK f : /\ f[0] = Done(spec, <<>>) /\ got = f[n]
               /\ \A i \in 1..n : f[i] = ReadBy(f[i - 1], t[i])
  BY <1>1 DEF ReadsTo
<1> DEFINE T == {i \in Nat : i <= n => f[i] = Done(spec, First(t, i))}
<1>3. 0 \in T
  <2>1. First(t, 0) = <<>>
    BY DEF First
  <2> QED
    BY <1>2, <2>1
<1>4. ASSUME NEW i \in T PROVE i + 1 \in T
  <2>1. i \in Nat
    OBVIOUS
  <2>2. ASSUME i + 1 <= n PROVE f[i + 1] = Done(spec, First(t, i + 1))
    <3>1. i <= n /\ i + 1 \in 1..n /\ (i + 1) - 1 = i
      BY <2>1, <2>2
    <3>2. f[i] = Done(spec, First(t, i))
      BY <3>1
    <3>3. f[i + 1] = ReadBy(f[i], t[i + 1])
      BY <1>2, <3>1
    <3>4. Append(First(t, i), t[i + 1]) = First(t, i + 1)
      BY <2>1, FirstStep
    <3>5. \A s, c : ReadBy(Done(spec, s), c) = Done(spec, Append(s, c))
      BY DEF ReadBy, Done
    <3> QED
      BY ZenonT(60), <3>2, <3>3, <3>4, <3>5
  <2> QED
    BY <2>1, <2>2
<1>5. T = Nat
  <2>1. T \in SUBSET Nat
    OBVIOUS
  <2> HIDE DEF T
  <2> QED
    BY <1>3, <1>4, <2>1, SetInduction
<1>6. f[n] = Done(spec, First(t, n))
  BY <1>5
<1>7. First(t, n) = t
  BY <1>1 DEF First
<1> QED
  BY <1>2, <1>6, <1>7

\* The bytes of an operation.
Coding(o) == [o EXCEPT ![1] = Code(@)]

LEMMA Codings ==
    ASSUME NEW o \in Operation
    PROVE  \/ \E c \in {1, 3, 5} : Coding(o) = <<c>> /\ o = <<Operations[c]>>
           \/ \E c \in {2, 4}, n \in Byte : Coding(o) = <<c, n>> /\ o = <<Operations[c], n>>
<1>1. \A c \in 1..5 : Code(Operations[c]) = c
  <2>1. ASSUME NEW c \in 1..5, NEW d \in 1..5, Operations[d] = Operations[c] PROVE d = c
    BY <2>1, OperationNames
  <2>2. ASSUME NEW c \in 1..5 PROVE Code(Operations[c]) = c
    BY <2>1, OperationNames DEF Code
  <2> QED
    BY <2>2
<1>2. ASSUME NEW c \in {1, 3, 5}, o = <<Operations[c]>>
      PROVE  Coding(o) = <<c>>
  <2>1. Code(o[1]) = c
    BY <1>1, <1>2
  <2> QED
    BY <1>2, <2>1 DEF Coding
<1>3. ASSUME NEW c \in {2, 4}, NEW n \in Byte, o = <<Operations[c], n>>
      PROVE  Coding(o) = <<c, n>>
  <2>1. Code(o[1]) = c
    BY <1>1, <1>3
  <2> QED
    BY <1>3, <2>1 DEF Coding
<1>4. \/ \E c \in {1, 3, 5} : o = <<Operations[c]>>
      \/ \E c \in {2, 4}, n \in Byte : o = <<Operations[c], n>>
  BY OperationIs, OperationNames
<1> QED
  BY <1>2, <1>3, <1>4

LEMMA CodingTypes ==
    ASSUME NEW o \in Operation
    PROVE  Coding(o) \in Seq(Byte) /\ Len(Coding(o)) \in {1, 2}
<1>1. \A c \in 1..5 : c \in Byte
  BY DEF Byte
<1>2. \A c \in {1, 3, 5} : <<c>> \in Seq(Byte) /\ Len(<<c>>) = 1
  BY <1>1
<1>3. \A c \in {2, 4}, n \in Byte : <<c, n>> \in Seq(Byte) /\ Len(<<c, n>>) = 2
  BY <1>1
<1> QED
  BY <1>2, <1>3, Codings

LEMMA TwoTuple ==
    ASSUME NEW a \in Byte, NEW b \in Byte
    PROVE  <<a, b>> = <<a>> \o <<b>>
<1> DEFINE s == <<a>>
           t == <<b>>
           u == <<a, b>>
<1>1. /\ s \in Seq(Byte) /\ Len(s) = 1 /\ s[1] = a
      /\ t \in Seq(Byte) /\ Len(t) = 1 /\ t[1] = b
      /\ u \in Seq(Byte) /\ Len(u) = 2 /\ u[1] = a /\ u[2] = b
  OBVIOUS
<1> HIDE DEF s, t, u
<1>2. /\ s \o t \in Seq(Byte) /\ Len(s \o t) = Len(s) + Len(t)
      /\ \A i \in 1..(Len(s) + Len(t)) :
            (s \o t)[i] = IF i <= Len(s) THEN s[i] ELSE t[i - Len(s)]
  BY <1>1, ConcatProperties
<1>3. Len(s \o t) = 2 /\ \A i \in 1..2 : (s \o t)[i] = IF i <= 1 THEN s[i] ELSE t[i - 1]
  BY <1>1, <1>2
<1>4. (s \o t)[1] = u[1] /\ (s \o t)[2] = u[2]
  BY <1>1, <1>3
<1>5. \A i \in 1..2 : i = 1 \/ i = 2
  OBVIOUS
<1>6. s \o t = u
  BY <1>1, <1>2, <1>3, <1>4, <1>5, SeqEqual
<1> QED
  BY <1>6 DEF s, t, u

\* An operation is read or is not all there.
ReadsOperation(s, o, b, r, R, got) ==
    \/ got.is = "incomplete" /\ Len(b) < Len(Coding(o))
    \/ \E rest \in Seq(Byte) : rest \o r = R /\ ReadsTo(Start(Append(s, o)), rest, got)

\* The first byte of a buffer.
StartsWith(b, r, c, R) == \E t \in Seq(Byte) : b = <<c>> \o t /\ t \o r = R

LEMMA FirstByte ==
    ASSUME NEW b \in Seq(Byte), NEW r \in Seq(Byte), NEW c \in Byte, NEW R \in Seq(Byte),
           Meets(b, r, <<c>>, R), b # <<>>
    PROVE  StartsWith(b, r, c, R)
<1>1. <<c>> \in Seq(Byte) /\ Len(<<c>>) = 1
  OBVIOUS
<1>2. Len(<<c>>) <= Len(b)
  BY <1>1, NotEmpty, LenProperties
<1>3. CutAt(Byte, b, r, <<c>>, R)
  BY <1>1, <1>2, ByteCut
<1> QED
  BY <1>1, <1>3 DEF CutAt, StartsWith

LEMMA OperationIsRead ==
    ASSUME NEW s, NEW o \in Operation, NEW b \in Seq(Byte), NEW r \in Seq(Byte),
           NEW R \in Seq(Byte), Meets(b, r, Coding(o), R), NEW got, ReadsTo(Start(s), b, got)
    PROVE  ReadsOperation(s, o, b, r, R, got)
<1>1. CASE b = <<>>
  <2>1. got = Start(s)
    BY <1>1, ReadsNone
  <2>2. got.is = "incomplete"
    BY <2>1 DEF Start
  <2>3. Len(b) < Len(Coding(o))
    BY SMTT(40), <1>1, CodingTypes
  <2> QED
    BY <2>2, <2>3 DEF ReadsOperation
<1>2. ASSUME b # <<>>, NEW c \in {1, 3, 5}, Coding(o) = <<c>>, o = <<Operations[c]>>
      PROVE  ReadsOperation(s, o, b, r, R, got)
  <2>1. c \in Byte /\ Meets(b, r, <<c>>, R)
    BY <1>2 DEF Byte
  <2>2. PICK t \in Seq(Byte) : b = <<c>> \o t /\ t \o r = R
    <3>1. StartsWith(b, r, c, R)
      BY <1>2, <2>1, FirstByte
    <3> QED
      BY <3>1 DEF StartsWith
  <2>3. ReadsTo(Start(s), <<c>> \o t, got)
    BY <2>2
  <2>4. ReadsTo(ReadBy(Start(s), c), t, got)
    BY <2>1, <2>3, ReadsFirst
  <2>5. ReadBy(Start(s), c) = Start(Append(s, o))
    <3>1. c # 0 /\ c \in DOMAIN Operations /\ Operations[c] \notin WithOperand
      BY <1>2, OperationNames DEF WithOperand
    <3> QED
      BY <1>2, <3>1 DEF ReadBy, Start
  <2>6. ReadsTo(Start(Append(s, o)), t, got)
    BY <2>4, <2>5
  <2> QED
    BY <2>2, <2>6 DEF ReadsOperation
<1>3. ASSUME b # <<>>, NEW c \in {2, 4}, NEW n \in Byte, Coding(o) = <<c, n>>,
             o = <<Operations[c], n>>
      PROVE  ReadsOperation(s, o, b, r, R, got)
  <2>1. c \in Byte /\ <<c>> \in Seq(Byte) /\ <<n>> \in Seq(Byte) /\ <<c, n>> = <<c>> \o <<n>>
    <3>1. c \in Byte
      BY DEF Byte
    <3>2. <<c>> \in Seq(Byte) /\ <<n>> \in Seq(Byte)
      BY <3>1
    <3>3. <<c, n>> = <<c>> \o <<n>>
      BY <3>1, TwoTuple
    <3> QED
      BY <3>1, <3>2, <3>3
  <2>2. <<n>> \o R \in Seq(Byte) /\ Meets(b, r, <<c>>, <<n>> \o R)
    <3>1. (<<c>> \o <<n>>) \o R = <<c>> \o (<<n>> \o R)
      BY <2>1, ByteAssociative
    <3>2. <<n>> \o R \in Seq(Byte)
      BY <2>1, Lengths
    <3> QED
      BY <1>3, <2>1, <3>1, <3>2 DEF Meets
  <2>3. PICK t \in Seq(Byte) : b = <<c>> \o t /\ t \o r = <<n>> \o R
    <3>1. StartsWith(b, r, c, <<n>> \o R)
      BY <1>3, <2>1, <2>2, FirstByte
    <3> QED
      BY <3>1 DEF StartsWith
  <2>4. ReadsTo(Start(s), <<c>> \o t, got)
    BY <2>3
  <2>5. ReadsTo(ReadBy(Start(s), c), t, got)
    BY <2>1, <2>4, ReadsFirst
  <2>6. PICK half : half = ReadBy(Start(s), c)
    OBVIOUS
  <2>7. half = [is |-> "incomplete", spec |-> s, code |-> c, rest |-> <<>>]
    <3>1. c # 0 /\ c \in DOMAIN Operations /\ Operations[c] \in WithOperand
      BY <1>3, OperationNames DEF WithOperand
    <3> QED
      BY <1>3, <2>6, <3>1 DEF ReadBy, Start
  <2>8. CASE t = <<>>
    <3>1. got = half
      BY <2>5, <2>6, <2>8, ReadsNone
    <3>2. got.is = "incomplete"
      BY <2>7, <3>1
    <3>3. b = <<c>>
      BY <2>1, <2>3, <2>8, ConcatEmptySeq
    <3>4. Len(b) < Len(Coding(o))
      BY <1>3, <3>3
    <3> QED
      BY <3>2, <3>4 DEF ReadsOperation
  <2>9. CASE t # <<>>
    <3>1. PICK u \in Seq(Byte) : t = <<n>> \o u /\ u \o r = R
      <4>1. Meets(t, r, <<n>>, R)
        BY <2>3 DEF Meets
      <4>2. StartsWith(t, r, n, R)
        BY <2>9, <4>1, FirstByte
      <4> QED
        BY <4>2 DEF StartsWith
    <3>2. ReadsTo(half, <<n>> \o u, got)
      BY <2>5, <2>6, <3>1
    <3>3. ReadsTo(ReadBy(half, n), u, got)
      BY <3>2, ReadsFirst
    <3>4. ReadBy(half, n) = Start(Append(s, o))
      <4>1. half.is = "incomplete" /\ half.code = c /\ half.spec = s /\ c # 0
        BY <2>7
      <4>2. ReadBy(half, n) = [half EXCEPT !.spec = Append(s, o), !.code = 0]
        BY <1>3, <4>1 DEF ReadBy
      <4> QED
        BY <2>7, <4>2 DEF Start
    <3>5. ReadsTo(Start(Append(s, o)), u, got)
      BY <3>3, <3>4
    <3> QED
      BY <3>1, <3>5 DEF ReadsOperation
  <2> QED
    BY <2>8, <2>9
<1> QED
  BY <1>1, <1>2, <1>3, Codings

\* A spec is read or is not all there.
IsSpecRead(spec, b, r, Z, got) ==
    \/ got.is = "incomplete" /\ Len(b) < Len(SpecBytes(spec))
    \/ \E rest \in Seq(Byte) : rest \o r = Z /\ got = Done(spec, rest)

LEMMA SpecCodes ==
    ASSUME NEW spec \in Seq(Operation), NEW cs, cs = [i \in 1..Len(spec) |-> Coding(spec[i])]
    PROVE  /\ \A i \in 1..Len(spec) : cs[i] \in Seq(Byte)
           /\ SpecBytes(spec) = Joined(cs, Len(spec)) \o <<0>>
           /\ Joined(cs, Len(spec)) \in Seq(Byte) /\ SpecBytes(spec) \in Seq(Byte)
           /\ Len(SpecBytes(spec)) = Len(Joined(cs, Len(spec))) + 1
<1>1. cs = [i \in 1..Len(spec) |-> Coding(spec[i])]
  OBVIOUS
<1>2. Len(spec) \in Nat /\ DOMAIN spec = 1..Len(spec)
  BY LenProperties
<1>3. \A i \in 1..Len(spec) : cs[i] \in Seq(Byte)
  BY <1>1, CodingTypes, ElementOfSeq
<1>4. SpecBytes(spec) = Joined(cs, Len(spec)) \o <<0>>
  <2>1. [i \in DOMAIN spec |-> [spec[i] EXCEPT ![1] = Code(@)]] = [i \in 1..Len(spec) |-> cs[i]]
    BY <1>1, <1>2 DEF Coding
  <2> QED
    BY <2>1 DEF SpecBytes, Joined
<1>5. Joined(cs, Len(spec)) \in Seq(Byte)
  BY <1>2, <1>3, JoinTypes
<1>6. <<0>> \in Seq(Byte) /\ Len(<<0>>) = 1
  <2>1. 0 \in Byte
    BY DEF Byte
  <2> QED
    BY <2>1
<1>7. /\ Joined(cs, Len(spec)) \o <<0>> \in Seq(Byte)
      /\ Len(Joined(cs, Len(spec)) \o <<0>>) = Len(Joined(cs, Len(spec))) + Len(<<0>>)
  BY <1>5, <1>6, Lengths
<1> QED
  BY <1>1, <1>3, <1>4, <1>5, <1>6, <1>7

\* The first k operations of a spec are read or not all there.
SomeRead(spec, cs, k, b, r, R, got) ==
    \/ got.is = "incomplete" /\ Len(b) < Len(Joined(cs, k))
    \/ \E rest \in Seq(Byte) : rest \o r = R /\ ReadsTo(Start(First(spec, k)), rest, got)

LEMMA SomeIsRead ==
    ASSUME NEW spec \in Seq(Operation), NEW cs, cs = [i \in 1..Len(spec) |-> Coding(spec[i])],
           NEW b \in Seq(Byte), NEW r \in Seq(Byte), NEW got, ReadsTo(Start(<<>>), b, got)
    PROVE  \A k \in 0..Len(spec) : \A R \in Seq(Byte) :
              Meets(b, r, Joined(cs, k), R) => SomeRead(spec, cs, k, b, r, R, got)
<1>1. PICK n \in Nat : n = Len(spec)
  BY LenProperties
<1>2. \A i \in 1..n : cs[i] = Coding(spec[i]) /\ spec[i] \in Operation /\ cs[i] \in Seq(Byte)
  BY <1>1, CodingTypes, ElementOfSeq
<1> DEFINE Goes(k) == \A R \in Seq(Byte) :
                         Meets(b, r, Joined(cs, k), R) => SomeRead(spec, cs, k, b, r, R, got)
           T == {k \in Nat : k <= n => Goes(k)}
<1>3. 0 \in T
  <2>1. ASSUME NEW R \in Seq(Byte), Meets(b, r, Joined(cs, 0), R)
        PROVE  SomeRead(spec, cs, 0, b, r, R, got)
    <3>1. <<>> \o R = R /\ Joined(cs, 0) = <<>>
      BY ConcatEmptySeq, JoinEmpty
    <3>2. b \o r = R
      BY <2>1, <3>1 DEF Meets
    <3>3. First(spec, 0) = <<>>
      BY DEF First
    <3> QED
      BY <3>2, <3>3 DEF SomeRead
  <2> QED
    BY <2>1
<1>4. ASSUME NEW k \in T PROVE k + 1 \in T
  <2>1. k \in Nat
    OBVIOUS
  <2>2. ASSUME k + 1 <= n PROVE Goes(k + 1)
    <3>1. k <= n /\ k + 1 \in 1..n /\ \A i \in 1..(k + 1) : i \in 1..n
      BY <2>1, <2>2
    <3>2. PICK J, o, c : J = Joined(cs, k) /\ o = spec[k + 1] /\ c = Coding(o)
      OBVIOUS
    <3>3. o \in Operation /\ c \in Seq(Byte) /\ Len(c) \in {1, 2}
      BY <1>2, <3>1, <3>2, CodingTypes
    <3>4. J \in Seq(Byte) /\ Joined(cs, k + 1) = J \o c
      <4>1. \A i \in 1..(k + 1) : cs[i] \in Seq(Byte)
        BY <1>2, <3>1
      <4>2. cs[k + 1] = c
        BY <1>2, <3>1, <3>2
      <4> QED
        BY <2>1, <3>2, <4>1, <4>2, JoinedStep
    <3>5. ASSUME NEW R \in Seq(Byte), Meets(b, r, J \o c, R)
          PROVE  SomeRead(spec, cs, k + 1, b, r, R, got)
      <4>1. c \o R \in Seq(Byte) /\ Meets(b, r, J, c \o R)
        <5>1. (J \o c) \o R = J \o (c \o R)
          BY <3>3, <3>4, ByteAssociative
        <5>2. c \o R \in Seq(Byte)
          BY <3>3, Lengths
        <5> QED
          BY <3>5, <5>1, <5>2 DEF Meets
      <4>2. SomeRead(spec, cs, k, b, r, c \o R, got)
        BY <3>1, <3>2, <4>1
      <4>3. Len(Joined(cs, k + 1)) = Len(J) + Len(c) /\ Len(J) \in Nat /\ Len(c) \in Nat
        BY <3>3, <3>4, Lengths
      <4>4. CASE got.is = "incomplete" /\ Len(b) < Len(J)
        <5>1. Len(b) \in Nat
          BY LenProperties
        <5>2. Len(b) < Len(Joined(cs, k + 1))
          BY <4>3, <4>4, <5>1
        <5> QED
          BY <4>4, <5>2 DEF SomeRead
      <4>5. ASSUME NEW rest \in Seq(Byte), rest \o r = c \o R,
                   ReadsTo(Start(First(spec, k)), rest, got)
            PROVE  SomeRead(spec, cs, k + 1, b, r, R, got)
        <5>1. Meets(rest, r, Coding(o), R)
          BY <3>2, <4>5 DEF Meets
        <5>2. ReadsOperation(First(spec, k), o, rest, r, R, got)
          BY <3>3, <4>5, <5>1, OperationIsRead
        <5>3. Append(First(spec, k), o) = First(spec, k + 1)
          BY <2>1, <3>2, FirstStep
        <5>4. CASE got.is = "incomplete" /\ Len(rest) < Len(c)
          <6>1. Len(b) < Len(J \o c)
            <7>1. Len(rest) + Len(r) = Len(c) + Len(R)
              <8>1. c \in Seq(Byte) /\ Meets(rest, r, c, R)
              BY <3>2, <3>3, <5>1
            <8> QED
              BY <8>1, LengthLeft
            <7>2. Len(b) + Len(r) = Len(J \o c) + Len(R)
            <8>1. PICK x : x = J \o c
              OBVIOUS
            <8>2. x \in Seq(Byte) /\ Meets(b, r, x, R)
              BY <3>3, <3>4, <3>5, <8>1, Lengths
            <8>3. Len(b) + Len(r) = Len(x) + Len(R)
              BY <8>2, LengthLeft
            <8> QED
              BY <8>1, <8>3
            <7>3. Len(b) \in Nat /\ Len(r) \in Nat /\ Len(R) \in Nat /\ Len(rest) \in Nat
              BY LenProperties
            <7>4. PICK l \in Nat : l = Len(J \o c)
              BY <3>4, <4>3
            <7> QED
              BY <4>3, <5>4, <7>1, <7>2, <7>3, <7>4
          <6> QED
            BY <3>4, <5>4, <6>1 DEF SomeRead
        <5>5. ASSUME NEW rest2 \in Seq(Byte), rest2 \o r = R,
                     ReadsTo(Start(Append(First(spec, k), o)), rest2, got)
              PROVE  SomeRead(spec, cs, k + 1, b, r, R, got)
          BY <5>3, <5>5 DEF SomeRead
        <5> QED
          BY <3>2, <5>2, <5>4, <5>5 DEF ReadsOperation
      <4> QED
        BY <3>2, <4>2, <4>4, <4>5 DEF SomeRead
    <3> QED
      BY <3>4, <3>5
  <2> HIDE DEF Goes
  <2> QED
    BY <2>1, <2>2
<1>5. T = Nat
  <2>1. T \in SUBSET Nat
    OBVIOUS
  <2> HIDE DEF T
  <2> QED
    BY <1>3, <1>4, <2>1, SetInduction
<1>6. \A k \in 0..n : Goes(k)
  <2> HIDE DEF Goes
  <2> QED
    BY <1>5
<1> QED
  BY <1>1, <1>6

LEMMA SpecIsRead ==
    ASSUME NEW spec \in Seq(Operation), NEW b \in Seq(Byte), NEW r \in Seq(Byte),
           NEW Z \in Seq(Byte), Meets(b, r, SpecBytes(spec), Z)
    PROVE  IsSpecRead(spec, b, r, Z, Reading(<<>>, b))
<1>1. PICK cs, n, J : /\ cs = [i \in 1..Len(spec) |-> Coding(spec[i])] /\ n = Len(spec)
                      /\ J = Joined(cs, n)
  OBVIOUS
<1>2. /\ J \in Seq(Byte) /\ SpecBytes(spec) = J \o <<0>> /\ n \in 0..n
      /\ Len(SpecBytes(spec)) = Len(J) + 1 /\ Len(J) \in Nat
  <2>1. n \in Nat
    BY <1>1, LenProperties
  <2> QED
    <3>1. /\ SpecBytes(spec) = Joined(cs, Len(spec)) \o <<0>> /\ Joined(cs, Len(spec)) \in Seq(Byte)
          /\ Len(SpecBytes(spec)) = Len(Joined(cs, Len(spec))) + 1
      <4>1. cs = [i \in 1..Len(spec) |-> Coding(spec[i])]
        BY <1>1
      <4> QED
        BY <4>1, SpecCodes
    <3>2. Len(J) \in Nat
      BY <1>1, <3>1, LenProperties
    <3> QED
      BY <1>1, <2>1, <3>1, <3>2
<1>3. PICK got : got = Reading(<<>>, b)
  OBVIOUS
<1>4. ReadsTo(Start(<<>>), b, got)
  BY <1>3, ReadingReads
<1>5. 0 \in Byte /\ <<0>> \in Seq(Byte)
  BY DEF Byte
<1>6. <<0>> \o Z \in Seq(Byte) /\ Meets(b, r, J, <<0>> \o Z)
  <2>1. (J \o <<0>>) \o Z = J \o (<<0>> \o Z)
    BY SMTT(40), <1>2, <1>5, ByteAssociative
  <2>2. <<0>> \o Z \in Seq(Byte)
    BY <1>5, Lengths
  <2> QED
    BY <1>2, <2>1, <2>2 DEF Meets
<1>7. SomeRead(spec, cs, n, b, r, <<0>> \o Z, got)
  BY <1>1, <1>2, <1>4, <1>6, SomeIsRead
<1>8. First(spec, n) = spec
  BY <1>1 DEF First
<1>9. CASE got.is = "incomplete" /\ Len(b) < Len(J)
  <2>1. Len(b) < Len(SpecBytes(spec))
    BY <1>2, <1>9, LenProperties
  <2> QED
    BY <1>3, <1>9, <2>1 DEF IsSpecRead
<1>10. ASSUME NEW rest \in Seq(Byte), rest \o r = << 0 >> \o Z, ReadsTo(Start(spec), rest, got)
       PROVE  IsSpecRead(spec, b, r, Z, got)
  <2>1. CASE rest = <<>>
    <3>1. got = Start(spec)
      BY <1>10, <2>1, ReadsNone
    <3>2. Len(b) < Len(SpecBytes(spec))
      <4>1. r = <<0>> \o Z
        BY <1>10, <2>1, ConcatEmptySeq
      <4>2. Len(r) = 1 + Len(Z) /\ Len(Z) \in Nat
        <5>1. Len(<<0>>) = 1
          OBVIOUS
        <5> QED
          BY <1>5, <4>1, <5>1, Lengths
      <4>3. Len(b) + Len(r) = Len(SpecBytes(spec)) + Len(Z)
        <5>1. SpecBytes(spec) \in Seq(Byte)
          BY <1>2, <1>5, Lengths
        <5> QED
          BY <5>1, LengthLeft
      <4>4. Len(b) \in Nat
        BY LenProperties
      <4> QED
        BY <1>2, <4>2, <4>3, <4>4
    <3> QED
      BY <3>1, <3>2 DEF IsSpecRead, Start
  <2>2. CASE rest # <<>>
    <3>1. Meets(rest, r, <<0>>, Z)
      BY <1>10 DEF Meets
    <3>2. StartsWith(rest, r, 0, Z)
      BY <1>5, <2>2, <3>1, FirstByte
    <3>3. PICK t \in Seq(Byte) : rest = <<0>> \o t /\ t \o r = Z
      BY <3>2 DEF StartsWith
    <3>4. ReadsTo(Start(spec), <<0>> \o t, got)
      BY <1>10, <3>3
    <3>5. ReadsTo(ReadBy(Start(spec), 0), t, got)
      BY <1>5, <3>4, ReadsFirst
    <3>6. ReadBy(Start(spec), 0) = Done(spec, <<>>)
      BY DEF ReadBy, Start, Done
    <3>7. ReadsTo(Done(spec, <<>>), t, got)
      BY <3>5, <3>6
    <3>8. got = Done(spec, t)
      BY <3>7, ReadsRest
    <3> QED
      BY <3>3, <3>8 DEF IsSpecRead
  <2> QED
    BY <2>1, <2>2
<1> QED
  BY <1>1, <1>3, <1>7, <1>8, <1>9, <1>10 DEF SomeRead

\* The first byte of a buffer, and the others.
LEMMA HeadTail ==
    ASSUME NEW c \in Byte, NEW t \in Seq(Byte)
    PROVE  Head(<<c>> \o t) = c /\ Tail(<<c>> \o t) = t
<1>1. PICK x, b : x = <<c>> /\ b = x \o t
  OBVIOUS
<1>2. x \in Seq(Byte) /\ Len(x) = 1 /\ x[1] = c
  BY <1>1
<1>3. PICK n \in Nat : n = Len(t)
  BY LenProperties
<1>4. b \in Seq(Byte) /\ Len(b) = 1 + n
  BY <1>1, <1>2, <1>3, Lengths
<1>5. \A i \in 1..(Len(x) + Len(t)) : b[i] = IF i <= Len(x) THEN x[i] ELSE t[i - Len(x)]
  BY <1>1, <1>2, ConcatProperties
<1>6. b[1] = c
  <2>1. 1 \in 1..(Len(x) + Len(t)) /\ 1 <= Len(x)
    BY <1>2, <1>3
  <2> QED
    BY <1>2, <1>5, <2>1
<1>7. ASSUME NEW i \in 1..n PROVE b[i + 1] = t[i]
  <2>1. i + 1 \in 1..(Len(x) + Len(t)) /\ ~ (i + 1 <= Len(x)) /\ i + 1 - Len(x) = i
    BY <1>2, <1>3
  <2> QED
    BY <1>5, <2>1
<1>8. b # <<>>
  <2>1. Len(b) # 0
    BY <1>4
  <2> QED
    BY <2>1
<1>9. Head(b) = b[1]
  BY <1>4, <1>8
<1>10. /\ Tail(b) \in Seq(Byte) /\ Len(Tail(b)) = n
       /\ \A i \in 1..n : Tail(b)[i] = b[i + 1]
  <2>1. Len(b) - 1 = n
    BY <1>4
  <2> QED
    BY <1>4, <1>8, <2>1, HeadTailProperties
<1>11. Tail(b) = t
  BY <1>3, <1>7, <1>10, SeqEqual
<1> QED
  BY <1>1, <1>6, <1>9, <1>11

LEMMA NotEmptyBytes ==
    ASSUME NEW b \in Seq(Byte), b # <<>>
    PROVE  \E c \in Byte, t \in Seq(Byte) : b = <<c>> \o t
<1>1. 1 \in Nat /\ 1 <= Len(b)
  BY NotEmpty, LenProperties
<1>2. SplitsAt(b, 1)
  BY <1>1, SplitAt
<1>3. PICK s, t : s = SubSeq(b, 1, 1) /\ t = After(b, 1)
  OBVIOUS
<1>4. s \in Seq(Byte) /\ Len(s) = 1 /\ t \in Seq(Byte) /\ b = s \o t
  BY <1>2, <1>3 DEF SplitsAt
<1>5. s = <<s[1]>> /\ s[1] \in Byte
  BY <1>4, OneByte
<1> QED
  BY <1>4, <1>5

\* What the codec of a cipher returns for a buffer when it has its spec.
Deciphers(result, codec, v, r, Z) ==
    \/ \E rest \in Seq(Byte) :
          /\ result = [is |-> "packet", from |-> 0, rest |-> rest, packet |-> <<v>>,
                       codec |-> [codec EXCEPT !.upstream = @ + 1]]
          /\ rest \o r = Z
    \/ result = [is |-> "more", from |-> 0, codec |-> codec]

LEMMA ByteDeciphered ==
    ASSUME NEW codec \in Codec, NEW v \in Byte, NEW b \in Seq(Byte), NEW r \in Seq(Byte),
           NEW Z \in Seq(Byte), Meets(b, r, <<EncodeByte(codec.spec, codec.upstream, v)>>, Z)
    PROVE  IF b = <<>> THEN Deciphered(b, codec) = [is |-> "more", from |-> 0, codec |-> codec]
                       ELSE Deciphers(Deciphered(b, codec), codec, v, r, Z)
                            /\ Deciphered(b, codec).is = "packet"
<1>1. PICK c : c = EncodeByte(codec.spec, codec.upstream, v)
  OBVIOUS
<1>2. codec.spec \in Seq(Operation) /\ codec.upstream \in Nat
  BY DEF Codec
<1>3. c \in Byte /\ DecodeByte(codec.spec, codec.upstream, c) = v
  BY <1>1, <1>2, EncodedByte, BytesAreDeciphered
<1>4. CASE b = <<>>
  BY <1>4 DEF Deciphered
<1>5. CASE b # <<>>
  <2>1. StartsWith(b, r, c, Z)
    BY <1>1, <1>3, <1>5, FirstByte
  <2>2. PICK t \in Seq(Byte) : b = <<c>> \o t /\ t \o r = Z
    BY <2>1 DEF StartsWith
  <2>3. Head(b) = c /\ Tail(b) = t
    BY <1>3, <2>2, HeadTail
  <2>4. PICK next : next = [codec EXCEPT !.upstream = @ + 1]
    OBVIOUS
  <2>5. Deciphered(b, codec) =
           [is |-> "packet", from |-> 0, rest |-> t, packet |-> <<v>>, codec |-> next]
    BY <1>3, <1>5, <2>3, <2>4 DEF Deciphered
  <2>6. Deciphers(Deciphered(b, codec), codec, v, r, Z)
    BY <2>2, <2>4, <2>5 DEF Deciphers
  <2>7. Deciphered(b, codec).is = "packet"
    BY <2>5
  <2> QED
    BY <1>5, <2>6, <2>7
<1> QED
  BY <1>4, <1>5

\* Of which kind what a codec returns is, whatever it has read.
CipherTypes(result, codec) ==
    /\ result.from = 0 /\ result.codec \in Codec /\ (codec.cut => result.codec.cut)
    /\ \/ /\ result.is = "packet" /\ result.rest \in Seq(Byte)
          /\ \E v \in Byte : result.packet = <<v>>
       \/ result.is \in {"more", "spins", "bad"}

LEMMA DecipheredTypes ==
    ASSUME NEW codec \in Codec, NEW b \in Seq(Byte)
    PROVE  CipherTypes(Deciphered(b, codec), codec)
<1>1. codec.spec \in Seq(Operation) /\ codec.upstream \in Nat
  BY DEF Codec
<1>2. CASE b = <<>>
  BY <1>2 DEF Deciphered, CipherTypes
<1>3. CASE b # <<>>
  <2>1. PICK c \in Byte, t \in Seq(Byte) : b = <<c>> \o t
    BY <1>3, NotEmptyBytes
  <2>2. Head(b) = c /\ Tail(b) = t
    BY <2>1, HeadTail
  <2>3. PICK v : v = DecodeByte(codec.spec, codec.upstream, c)
    OBVIOUS
  <2>4. v \in Byte
    BY <1>1, <2>3, DecodedByte
  <2>5. PICK next : next = [codec EXCEPT !.upstream = @ + 1]
    OBVIOUS
  <2>6. next \in Codec /\ next.cut = codec.cut
    <3>1. PICK u \in Nat : u = codec.upstream + 1
      BY <1>1
    <3>2. next = [codec EXCEPT !.upstream = u]
      BY <2>5, <3>1
    <3>3. next \in Codec
      BY <3>2 DEF Codec
    <3>4. next.cut = codec.cut
      BY <3>2 DEF Codec
    <3> QED
      BY <3>3, <3>4
  <2>7. Deciphered(b, codec) =
           [is |-> "packet", from |-> 0, rest |-> t, packet |-> <<v>>, codec |-> next]
    BY <1>3, <2>2, <2>3, <2>5 DEF Deciphered
  <2> QED
    BY <2>4, <2>6, <2>7 DEF CipherTypes
<1> QED
  BY <1>2, <1>3

LEMMA SpecReadIs ==
    ASSUME NEW codec \in Codec, NEW b \in Seq(Byte)
    PROVE  /\ ReadSpec(codec, b) = SpecRead(codec, b, Reading(codec.spec, b))
           /\ Reading(codec.spec, b) \in Readings
<1>1. codec.spec \in Seq(Operation)
  BY DEF Codec
<1>2. Start(codec.spec) \in Readings
  BY <1>1, EmptySeq DEF Start, Readings
<1>3. ReadsTo(Start(codec.spec), b, Reading(codec.spec, b))
  BY ReadingReads
<1>4. Reading(codec.spec, b) \in Readings
  BY <1>2, <1>3, ReadsTypes
<1>5. {SpecRead(codec, b, r) : r \in {Reading(codec.spec, b)}} =
         {SpecRead(codec, b, Reading(codec.spec, b))}
  OBVIOUS
<1> QED
  BY <1>4, <1>5, OnceIs DEF ReadSpec

LEMMA SpecReadTypes ==
    ASSUME NEW codec \in Codec, NEW b \in Seq(Byte), NEW read, read = ReadSpec(codec, b)
    PROVE  /\ read.is \in {"more", "spins", "bad", "complete"} /\ read.rest \in Seq(Byte)
           /\ read.codec \in Codec /\ (codec.cut => read.codec.cut)
<1>1. PICK r : r = Reading(codec.spec, b)
  OBVIOUS
<1>2. r \in Readings /\ read = SpecRead(codec, b, r)
  BY <1>1, SpecReadIs
<1>3. /\ r.spec \in Seq(Operation) /\ r.rest \in Seq(Byte)
      /\ r.is \in {"incomplete", "complete", "bad"}
  BY <1>2 DEF Readings
<1>4. read.is \in {"more", "spins", "bad", "complete"} /\ read.rest = r.rest
  BY <1>2, <1>3 DEF SpecRead
<1>5. PICK entire : entire = (read.is = "complete")
  OBVIOUS
<1>6. PICK cut : cut = (codec.cut \/ read.is = "spins" \/ (read.is = "more" /\ b # <<>>))
  OBVIOUS
<1>7. read.codec = [codec EXCEPT !.spec = r.spec, !.complete = entire, !.cut = cut]
  BY <1>2, <1>5, <1>6 DEF SpecRead
<1>8. entire \in BOOLEAN /\ cut \in BOOLEAN /\ (codec.cut => cut)
  BY <1>5, <1>6
<1>9. read.codec \in Codec /\ read.codec.cut = cut
  BY <1>3, <1>7, <1>8 DEF Codec
<1> QED
  BY <1>3, <1>4, <1>8, <1>9

LEMMA CipherIs ==
    ASSUME NEW codec \in Codec, NEW b \in Seq(Byte)
    PROVE  CipherTypes(Cipher(b, codec), codec)
<1>1. PICK read : read = ReadSpec(codec, b)
  OBVIOUS
<1>2. /\ read.is \in {"more", "spins", "bad", "complete"} /\ read.rest \in Seq(Byte)
      /\ read.codec \in Codec /\ (codec.cut => read.codec.cut)
  BY <1>1, SpecReadTypes
<1>3. CASE codec.complete
  <2>1. Cipher(b, codec) = Deciphered(b, codec)
    BY <1>3 DEF Cipher
  <2> QED
    BY <2>1, DecipheredTypes
<1>4. CASE ~codec.complete /\ read.is = "complete"
  <2>1. Cipher(b, codec) = Deciphered(read.rest, read.codec)
    BY <1>1, <1>4 DEF Cipher
  <2>2. CipherTypes(Deciphered(read.rest, read.codec), read.codec)
    BY <1>2, DecipheredTypes
  <2> QED
    BY <1>2, <2>1, <2>2 DEF CipherTypes
<1>5. CASE ~codec.complete /\ read.is # "complete"
  <2>1. Cipher(b, codec) = [is |-> read.is, from |-> 0, codec |-> read.codec]
    BY <1>1, <1>5 DEF Cipher
  <2> QED
    BY <1>2, <1>5, <2>1 DEF CipherTypes
<1> QED
  BY <1>3, <1>4, <1>5
-----------------------------------------------------------------------------
(* The inductive invariant of a connection *)

\* The bytes of each packet of an exchange, those of its first k packets, all from the
\* first packet on, and the cipher spec before.
Codewords(x) == [i \in 1..Len(x.packets) |-> EncodeNth(x, i)]
Upto(x, k) == Joined(Codewords(x), k)
Body(x) == Upto(x, Len(x.packets)) \o x.tail
Leading(x) == IF x.format = "cipher" /\ x.spec # <<>> THEN SpecBytes(x.spec) ELSE <<>>

\* Only t is left of the exchange after its first n packets.
Leaves(x, n, t) == Upto(x, n) \o t = Body(x)

\* The codec has read its spec, and has decoded and encoded n bytes.
Keyed(x, n, codec) ==
    /\ codec.complete /\ ~codec.cut /\ codec.spec = x.spec /\ x.spec # <<>>
    /\ codec.upstream = n /\ codec.downstream = n

\* What is in the buffer and what was not read, together t, is what follows n packets.
Flows(x, n, codec, t) ==
    \/ x.format # "cipher" /\ codec = NoSpec /\ Leaves(x, n, t)
    \/ x.format = "cipher" /\ Keyed(x, n, codec) /\ Leaves(x, n, t)
    \/ x.format = "cipher" /\ n = 0 /\ codec = NoSpec /\ t = Leading(x) \o Body(x)

Unfilled == {"read", "subscribe", "again", "waiting"}

\* An exchange is one of those that the constant has.
IsOne(x) == \E y \in Exchanges :
    x = [format |-> y.format, spec |-> y.spec, packets |-> y.packets, tail |-> y.tail,
         sent |-> Encoded(y) \o y.tail]

Reader == [does : Doings, buffer : Seq(Byte), from : Nat, codec : Codec, eof : BOOLEAN]

StreamsTypeInv ==
    /\ IsOne(exchange) /\ reader \in Reader
    /\ StreamsTypeOK
    /\ closed => arrived = Len(Sent)
    /\ reader.does = "again" => Readable

\* After n packets.
FlowsAt(n) ==
    /\ items = First(exchange.packets, n)
    /\ written \o out = Upto(exchange, n)
    /\ Flows(exchange, n, reader.codec, reader.buffer \o After(Sent, taken))
    /\ IsCipher /\ (reader.does \in Unfilled \/ reader.eof) => reader.buffer = <<>>
    /\ ~IsCipher => Unended(reader.buffer, reader.from)
    /\ reader.eof => taken = Len(Sent)
    /\ reader.does = "ended" => n = Len(exchange.packets) /\ exchange.tail = <<>>
    /\ reader.does = "failed" =>
          n = Len(exchange.packets) /\ (exchange.tail # <<>> \/ exchange.format = "tokio")

StreamsInv ==
    /\ StreamsTypeInv
    /\ Undisturbed => \E n \in 0..Len(exchange.packets) : FlowsAt(n)

LEMMA OneIs ==
    ASSUME NEW x, IsOne(x)
    PROVE  /\ IsExchange(x)
           /\ x.sent = (Leading(x) \o Upto(x, Len(x.packets))) \o x.tail
<1>1. PICK y \in Exchanges :
         x = [format |-> y.format, spec |-> y.spec, packets |-> y.packets, tail |-> y.tail,
              sent |-> Encoded(y) \o y.tail]
  BY DEF IsOne
<1>2. /\ x.format = y.format /\ x.spec = y.spec /\ x.packets = y.packets /\ x.tail = y.tail
      /\ x.sent = Encoded(y) \o y.tail
  BY <1>1
<1>3. IsExchange(y)
  BY ExchangesAssumption
<1>4. IsExchange(x)
  BY <1>2, <1>3 DEF IsExchange
<1>5. \A i : EncodeNth(y, i) = EncodeNth(x, i)
  BY <1>2 DEF EncodeNth
<1>6. [i \in 1..Len(y.packets) |-> EncodeNth(y, i)] = [i \in 1..Len(x.packets) |-> EncodeNth(x, i)]
  BY <1>2, <1>5
<1>7. [i \in 1..Len(x.packets) |-> Codewords(x)[i]] = Codewords(x)
  BY DEF Codewords
<1>8. Encoded(y) = Leading(x) \o Upto(x, Len(x.packets))
  BY <1>2, <1>6, <1>7 DEF Encoded, Leading, Upto, Joined, Codewords
<1> QED
  BY <1>2, <1>4, <1>8

\* Of which kind what is sent in an exchange is.
ExchangeTypes(x) ==
    /\ x.format \in Formats \cup {"cipher"} /\ Len(x.packets) \in Nat
    /\ x.packets = First(x.packets, Len(x.packets))
    /\ x.tail \in Seq(Byte) /\ Leading(x) \in Seq(Byte)
    /\ \A i \in 1..Len(x.packets) :
          EncodeNth(x, i) \in Seq(Byte) /\ IsPacket(x.format, x.packets[i])
    /\ x.format = "cipher" =>
          \/ x.spec \in Seq(Operation) /\ x.spec # <<>> /\ IsValid(x.spec) /\ x.tail = <<>>
          \/ x.spec = <<>> /\ x.packets = <<>>

LEMMA ExchangeIs ==
    ASSUME NEW x, IsExchange(x)
    PROVE  ExchangeTypes(x)
<1>1. x.format \in Formats \cup {"cipher"}
  BY DEF IsExchange, Formats
<1>2. x.packets \in Seq({x.packets[i] : i \in 1..Len(x.packets)}) /\ x.tail \in Seq(Byte)
  BY DEF IsExchange
<1>3. PICK n \in Nat : n = Len(x.packets)
  BY <1>2, LenProperties
<1>4. x.packets = First(x.packets, n)
  BY <1>2, <1>3 DEF First
<1>5. x.format = "cipher" =>
          \/ x.spec \in Seq(Operation) /\ x.spec # <<>> /\ IsValid(x.spec) /\ x.tail = <<>>
          \/ x.spec = <<>> /\ x.packets = <<>>
  BY DEF IsExchange
<1>6. Leading(x) \in Seq(Byte)
  <2>1. CASE x.format = "cipher" /\ x.spec # <<>>
    <3>1. x.spec \in Seq(Operation)
      BY <1>5, <2>1
    <3>2. SpecBytes(x.spec) \in Seq(Byte)
      BY <3>1, SpecCodes
    <3> QED
      BY <2>1, <3>2 DEF Leading
  <2>2. CASE ~ (x.format = "cipher" /\ x.spec # <<>>)
    BY <2>2, EmptySeq DEF Leading
  <2> QED
    BY <2>1, <2>2
<1>7. ASSUME NEW i \in 1..Len(x.packets)
      PROVE  EncodeNth(x, i) \in Seq(Byte) /\ IsPacket(x.format, x.packets[i])
  <2>1. IsPacket(x.format, x.packets[i])
    BY DEF IsExchange
  <2>2. CASE x.format = "cipher"
    <3>1. PICK v : v = x.packets[i][1]
      OBVIOUS
    <3>2. v \in Byte
      BY <2>1, <2>2, <3>1 DEF IsPacket
    <3>3. i - 1 \in Nat
      BY <1>3
    <3>4. x.packets # <<>>
      BY <1>3
    <3>5. x.spec \in Seq(Operation)
      BY <1>5, <2>2, <3>4
    <3>6. EncodeByte(x.spec, i - 1, v) \in Byte
      BY <3>2, <3>3, <3>5, EncodedByte
    <3>7. EncodeNth(x, i) = <<EncodeByte(x.spec, i - 1, v)>>
      BY <2>2, <3>1 DEF EncodeNth
    <3> QED
      BY <2>1, <3>6, <3>7
  <2>3. CASE x.format # "cipher"
    <3>1. x.format \in Formats /\ EncodeNth(x, i) = Encode(x.format, x.packets[i])
      BY <1>1, <2>3 DEF EncodeNth
    <3> QED
      BY <2>1, <3>1, EncodeTypes
  <2> QED
    BY <2>2, <2>3
<1> QED
  BY <1>1, <1>2, <1>3, <1>4, <1>5, <1>6, <1>7 DEF ExchangeTypes

\* The bytes of the packet that is next, and what follows it.
Follows(x, n, Z) == Z \in Seq(Byte) /\ Body(x) = Upto(x, n) \o Z

LEMMA UptoIs ==
    ASSUME NEW x, ExchangeTypes(x), NEW n \in 0..Len(x.packets)
    PROVE  /\ Upto(x, n) \in Seq(Byte) /\ Body(x) \in Seq(Byte)
           /\ \E Z : Follows(x, n, Z)
           /\ Upto(x, 0) = <<>>
           /\ n < Len(x.packets) => Upto(x, n + 1) = Upto(x, n) \o EncodeNth(x, n + 1)
<1>1. PICK N \in Nat : N = Len(x.packets)
  BY DEF ExchangeTypes
<1>2. PICK cs : cs = Codewords(x)
  OBVIOUS
<1>3. n \in Nat /\ N \in 0..N /\ n \in 0..N
  BY <1>1
<1>4. \A i \in 1..N : cs[i] = EncodeNth(x, i) /\ cs[i] \in Seq(Byte)
  BY <1>1, <1>2 DEF Codewords, ExchangeTypes
<1>5. Joined(cs, n) \in Seq(Byte) /\ Joined(cs, N) \in Seq(Byte)
  <2>1. \A i \in 1..n : cs[i] \in Seq(Byte)
    BY <1>3, <1>4
  <2>2. \A i \in 1..N : cs[i] \in Seq(Byte)
    BY <1>4
  <2> QED
    BY <1>3, <2>1, <2>2, JoinTypes
<1>6. x.tail \in Seq(Byte)
  BY DEF ExchangeTypes
<1>7. Body(x) = Joined(cs, N) \o x.tail
  BY <1>1, <1>2 DEF Body, Upto
<1>8. Body(x) \in Seq(Byte)
  BY <1>5, <1>6, <1>7, Lengths
<1>9. \E Z : Follows(x, n, Z)
  <2>1. PICK t \in Seq(Byte) : Joined(cs, N) = Joined(cs, n) \o t
    <3>1. \A i \in 1..N : cs[i] \in Seq(Byte)
      BY <1>4
    <3> QED
      BY <1>3, <3>1, JoinRest
  <2>2. (Joined(cs, n) \o t) \o x.tail = Joined(cs, n) \o (t \o x.tail)
    BY ZenonT(60), <1>5, <1>6, ByteAssociative
  <2>3. t \o x.tail \in Seq(Byte)
    BY <1>6, Lengths
  <2>4. Body(x) = Upto(x, n) \o (t \o x.tail)
    BY <1>2, <1>7, <2>1, <2>2 DEF Upto
  <2> QED
    BY <2>3, <2>4 DEF Follows
<1>10. Upto(x, 0) = <<>>
  BY JoinEmpty DEF Upto
<1>11. ASSUME n < N PROVE Upto(x, n + 1) = Upto(x, n) \o EncodeNth(x, n + 1)
  <2>1. \A i \in 1..(n + 1) : cs[i] \in Seq(Byte)
    BY <1>3, <1>4, <1>11
  <2>2. Joined(cs, n + 1) = Joined(cs, n) \o cs[n + 1]
    BY <1>3, <2>1, JoinedStep
  <2>3. cs[n + 1] = EncodeNth(x, n + 1)
    BY <1>3, <1>4, <1>11
  <2> QED
    BY <1>2, <2>2, <2>3 DEF Upto
<1> QED
  BY <1>1, <1>2, <1>5, <1>8, <1>9, <1>10, <1>11 DEF Upto

LEMMA Cancel ==
    ASSUME NEW s \in Seq(Byte), NEW t \in Seq(Byte), NEW u \in Seq(Byte), s \o t = s \o u
    PROVE  t = u
  BY ConcatSimplifications

\* What is left begins with the bytes of the next packet, and what is left behind
\* them is left after it.
Continues(x, n, t) ==
    \E Z \in Seq(Byte) : Leaves(x, n + 1, Z) /\ t = EncodeNth(x, n + 1) \o Z

LEMMA NextIs ==
    ASSUME NEW x, ExchangeTypes(x), NEW n \in 0..Len(x.packets), n < Len(x.packets),
           NEW t \in Seq(Byte), Leaves(x, n, t)
    PROVE  /\ EncodeNth(x, n + 1) \in Seq(Byte) /\ IsPacket(x.format, x.packets[n + 1])
           /\ Continues(x, n, t)
<1>1. Len(x.packets) \in Nat /\ n \in Nat
  BY DEF ExchangeTypes
<1>2. n + 1 \in 1..Len(x.packets) /\ n + 1 \in 0..Len(x.packets)
  BY <1>1
<1>3. PICK c : c = EncodeNth(x, n + 1)
  OBVIOUS
<1>4. c \in Seq(Byte) /\ IsPacket(x.format, x.packets[n + 1])
  BY <1>2, <1>3 DEF ExchangeTypes
<1>5. PICK Z : Follows(x, n + 1, Z)
  BY <1>2, UptoIs
<1>6. Z \in Seq(Byte) /\ Body(x) = Upto(x, n + 1) \o Z
  BY <1>5 DEF Follows
<1>7. PICK U : U = Upto(x, n)
  OBVIOUS
<1>8. U \in Seq(Byte) /\ Upto(x, n + 1) = U \o c
  BY <1>3, <1>7, UptoIs
<1>9. U \o t = U \o (c \o Z)
  <2>1. U \o t = Body(x)
    BY <1>7 DEF Leaves
  <2>2. (U \o c) \o Z = U \o (c \o Z)
    BY <1>4, <1>6, <1>8, ByteAssociative
  <2> QED
    BY <1>6, <1>8, <2>1, <2>2
<1>10. c \o Z \in Seq(Byte)
  BY <1>4, <1>6, Lengths
<1>11. t = c \o Z
  BY <1>8, <1>9, <1>10, Cancel
<1>12. Leaves(x, n + 1, Z)
  BY <1>6 DEF Leaves
<1>13. Continues(x, n, t)
  BY <1>3, <1>6, <1>11, <1>12 DEF Continues
<1> QED
  BY <1>3, <1>4, <1>13

LEMMA AllLeft ==
    ASSUME NEW x, ExchangeTypes(x), NEW t \in Seq(Byte), Leaves(x, Len(x.packets), t)
    PROVE  t = x.tail
<1>1. PICK U : U = Upto(x, Len(x.packets))
  OBVIOUS
<1>2. Len(x.packets) \in 0..Len(x.packets) /\ x.tail \in Seq(Byte)
  BY DEF ExchangeTypes
<1>3. U \in Seq(Byte)
  BY <1>1, <1>2, UptoIs
<1>4. U \o t = U \o x.tail
  BY <1>1 DEF Leaves, Body
<1> QED
  BY <1>2, <1>3, <1>4, Cancel

-----------------------------------------------------------------------------
(* What a decoder makes of what is in its buffer *)

LEMMA NothingIsMore ==
    ASSUME NEW F \in Formats, NEW codec
    PROVE  Decode(F, <<>>, 0, codec).is = "more"
<1>1. CASE F = "lines"
  <2>1. LineEnds(<<>>, 0) = {}
    BY DEF LineEnds
  <2>2. Decode(F, <<>>, 0, codec) = More(Len(<<>>))
    BY <1>1, <2>1 DEF Decode, Lines
  <2> QED
    BY <2>2 DEF More
<1>2. CASE F = "chunks"
  <2>1. Len(<<>>) < Size
    BY SizeAssumption
  <2>2. Decode(F, <<>>, 0, codec) = More(0)
    BY <1>2, <2>1 DEF Decode, Chunks
  <2> QED
    BY <2>2 DEF More
<1>3. CASE F \in {"wire", "tokio"}
  <2>1. Decode(F, <<>>, 0, codec) = More(0)
    BY <1>3 DEF Decode, Wire
  <2> QED
    BY <2>1 DEF More
<1>4. CASE F = "pest"
  <2>1. Decode(F, <<>>, 0, codec) = More(0)
    BY <1>4 DEF Decode, Pest
  <2> QED
    BY <2>1 DEF More
<1> QED
  BY <1>1, <1>2, <1>3, <1>4 DEF Formats

\* Where the decoder of lines begins matters only to how much it looks at.
LEMMA FromMatters ==
    ASSUME NEW F \in Formats, NEW b \in Seq(Byte), NEW from \in Nat, NEW codec,
           Decode(F, b, from, codec).is = "packet"
    PROVE  Decode(F, b, 0, NoSpec).is = "packet"
<1>1. CASE F = "lines"
  <2>1. Decode(F, b, from, codec) = Lines(b, from) /\ Decode(F, b, 0, NoSpec) = Lines(b, 0)
    BY <1>1 DEF Decode
  <2>2. LineEnds(b, from) # {}
    <3>1. SUFFICES ASSUME LineEnds(b, from) = {} PROVE FALSE
      OBVIOUS
    <3>2. Lines(b, from) = More(Len(b))
      BY <3>1 DEF Lines
    <3> QED
      BY <2>1, <3>2 DEF More
  <2>3. LineEnds(b, 0) # {}
    <3>1. PICK i \in LineEnds(b, from) : TRUE
      BY <2>2
    <3>2. i \in (from + 1)..Len(b) /\ b[i] = 10
      BY <3>1 DEF LineEnds
    <3>3. i \in (0 + 1)..Len(b)
      BY <3>2, LenProperties
    <3> QED
      BY <3>2, <3>3 DEF LineEnds
  <2>4. PICK n : n = FirstEnd(b, 0)
    OBVIOUS
  <2>5. Lines(b, 0) = Packet(<<SubSeq(b, 1, n - 1)>>, After(b, n))
    BY <2>3, <2>4 DEF Lines
  <2> QED
    BY <2>1, <2>5 DEF Packet
<1>2. CASE F # "lines"
  <2>1. Decode(F, b, 0, NoSpec) = Decode(F, b, from, codec)
    BY <1>2 DEF Decode, Formats
  <2> QED
    BY <2>1
<1> QED
  BY <1>1, <1>2

\* No part of a tail is taken for a packet.
LEMMA TailIsNone ==
    ASSUME NEW x, IsExchange(x), x.format \in Formats,
           NEW b \in Seq(Byte), NEW r \in Seq(Byte), b \o r = x.tail,
           NEW from \in Nat, NEW codec
    PROVE  Decode(x.format, b, from, codec).is # "packet"
<1>1. x.tail \in Seq(Byte) /\ x.format # "cipher"
  BY DEF IsExchange, Formats
<1>2. PICK n : n = Len(b)
  OBVIOUS
<1>3. n \in 0..Len(x.tail)
  BY <1>2, Lengths
<1>4. SubSeq(x.tail, 1, n) = b
  <2>1. x.tail \o <<>> = x.tail /\ <<>> \in Seq(Byte)
    BY <1>1, ConcatEmptySeq, EmptySeq
  <2>2. Len(b) <= Len(x.tail)
    BY <1>2, <1>3
  <2>3. CutAt(Byte, x.tail, <<>>, b, r)
    BY <1>1, <2>1, <2>2, Cut
  <2> QED
    BY <1>2, <2>3 DEF CutAt
<1>5. Decode(x.format, b, 0, NoSpec).is # "packet"
  BY <1>1, <1>3, <1>4 DEF IsExchange
<1> QED
  BY <1>5, FromMatters

\* What a decoder of no cipher returns after n packets, and what that leaves.
PlainOutcome(x, n, b, r, result) ==
    \/ \E rest \in Seq(Byte) :
          /\ n < Len(x.packets) /\ result = Packet(x.packets[n + 1], rest)
          /\ Leaves(x, n + 1, rest \o r)
    \/ /\ result.is = "more" /\ Unended(b, result.from)
       /\ n < Len(x.packets) => r # <<>>
    \/ result.is = "bad" /\ n = Len(x.packets) /\ x.tail # <<>>

LEMMA PlainDecodes ==
    ASSUME NEW x, IsExchange(x), x.format \in Formats, NEW n \in 0..Len(x.packets),
           NEW b \in Seq(Byte), NEW r \in Seq(Byte), Leaves(x, n, b \o r),
           NEW from, Unended(b, from), NEW codec
    PROVE  PlainOutcome(x, n, b, r, Decode(x.format, b, from, codec))
<1>1. PICK result : result = Decode(x.format, b, from, codec)
  OBVIOUS
<1>2. ExchangeTypes(x)
  BY ExchangeIs
<1>3. from \in Nat /\ Len(b) \in Nat /\ Unended(b, 0)
  <2>1. Len(b) \in Nat
    BY LenProperties
  <2> QED
    BY <2>1 DEF Unended
<1>4. PICK t : t = b \o r
  OBVIOUS
<1>5. t \in Seq(Byte) /\ Leaves(x, n, t)
  BY <1>4, Lengths
<1>6. ASSUME result.is = "more" PROVE Unended(b, result.from)
  <2>1. \/ Whole(x.format, result, b) \/ result = Bad \/ result = More(0)
        \/ result = More(Len(b)) /\ (Unended(b, from) => Unended(b, Len(b)))
    BY <1>1, <1>3, DecodedIsWhole
  <2>2. ~ Whole(x.format, result, b)
    BY <1>6 DEF Whole, Packet
  <2>3. result # Bad
    BY <1>6 DEF Bad
  <2>4. More(0).from = 0 /\ More(Len(b)).from = Len(b)
    BY DEF More
  <2> QED
    BY <1>3, <2>1, <2>2, <2>3, <2>4
<1>7. CASE n < Len(x.packets)
  <2>1. PICK c, p : c = EncodeNth(x, n + 1) /\ p = x.packets[n + 1]
    OBVIOUS
  <2>2. /\ EncodeNth(x, n + 1) \in Seq(Byte) /\ IsPacket(x.format, x.packets[n + 1])
        /\ Continues(x, n, t)
    BY <1>2, <1>5, <1>7, NextIs
  <2>3. PICK Z \in Seq(Byte) : Leaves(x, n + 1, Z) /\ t = c \o Z
    BY <2>1, <2>2 DEF Continues
  <2>4. c \in Seq(Byte) /\ IsPacket(x.format, p)
    BY <2>1, <2>2
  <2>5. c = Encode(x.format, p)
    BY <2>1 DEF EncodeNth, Formats
  <2>6. Meets(b, r, Encode(x.format, p), Z)
    BY <1>4, <2>3, <2>5 DEF Meets
  <2>7. Delivers(result, p, r, Z)
    BY <1>1, <2>4, <2>6, PacketsAreDecoded
  <2>8. ASSUME NEW rest \in Seq(Byte), result = Packet(p, rest), rest \o r = Z
        PROVE  PlainOutcome(x, n, b, r, result)
    BY <1>7, <2>1, <2>3, <2>8 DEF PlainOutcome
  <2>9. ASSUME result.is = "more", Len(r) > Len(Z)
        PROVE  PlainOutcome(x, n, b, r, result)
    <3>1. r # <<>>
      BY <2>9, NotEmpty, LenProperties
    <3> QED
      BY <1>6, <2>9, <3>1 DEF PlainOutcome
  <2> QED
    BY <1>1, <2>7, <2>8, <2>9 DEF Delivers
<1>8. CASE ~ (n < Len(x.packets))
  <2>1. n = Len(x.packets)
    BY <1>2, <1>8 DEF ExchangeTypes
  <2>2. t = x.tail
    BY <1>2, <1>5, <2>1, AllLeft
  <2>3. result.is # "packet"
    BY <1>1, <1>3, <1>4, <2>2, TailIsNone
  <2>4. result.is = "more" \/ result = Bad
    <3>1. \/ Whole(x.format, result, b) \/ result = Bad \/ result = More(0)
          \/ result = More(Len(b)) /\ (Unended(b, from) => Unended(b, Len(b)))
      BY <1>1, <1>3, DecodedIsWhole
    <3>2. ~ Whole(x.format, result, b)
      BY <2>3 DEF Whole, Packet
    <3>3. More(0).is = "more" /\ More(Len(b)).is = "more"
      BY DEF More
    <3> QED
      BY <3>1, <3>2, <3>3
  <2>5. ASSUME result.is = "more" PROVE PlainOutcome(x, n, b, r, result)
    BY <1>6, <1>8, <2>5 DEF PlainOutcome
  <2>6. ASSUME result = Bad, result.is # "more" PROVE PlainOutcome(x, n, b, r, result)
    <3>1. x.tail # <<>>
      <4>1. SUFFICES ASSUME x.tail = <<>> PROVE FALSE
        OBVIOUS
      <4>2. b = <<>>
        BY <1>4, <2>2, <4>1, ConcatSimplifications
      <4>3. from = 0
        BY <4>2 DEF Unended
      <4>4. result.is = "more"
        BY <1>1, <4>2, <4>3, NothingIsMore
      <4> QED
        BY <2>6, <4>4
    <3>2. result.is = "bad"
      BY <2>6 DEF Bad
    <3> QED
      BY <2>1, <3>1, <3>2 DEF PlainOutcome
  <2> QED
    BY <1>1, <2>4, <2>5, <2>6
<1> QED
  BY <1>1, <1>7, <1>8

\* The codec has decoded a byte more than it has encoded.
Decoding(x, n, codec) ==
    /\ codec \in Codec /\ codec.complete /\ ~codec.cut /\ codec.spec = x.spec /\ x.spec # <<>>
    /\ codec.upstream = n + 1 /\ codec.downstream = n

\* A codec gives out the packet after the first n, and what that leaves.
GivesByte(x, n, r, result) ==
    \E rest \in Seq(Byte) : \E codec :
       /\ n < Len(x.packets)
       /\ result = [is |-> "packet", from |-> 0, rest |-> rest, packet |-> x.packets[n + 1],
                    codec |-> codec]
       /\ Decoding(x, n, codec) /\ Leaves(x, n + 1, rest \o r)

LEMMA KeyedDecodes ==
    ASSUME NEW x, IsExchange(x), x.format = "cipher", NEW n \in 0..Len(x.packets),
           NEW codec \in Codec, Keyed(x, n, codec), NEW b \in Seq(Byte), NEW r \in Seq(Byte),
           Leaves(x, n, b \o r)
    PROVE  IF b = <<>> THEN Deciphered(b, codec) = [is |-> "more", from |-> 0, codec |-> codec]
                       ELSE GivesByte(x, n, r, Deciphered(b, codec))
<1>1. ExchangeTypes(x)
  BY ExchangeIs
<1>2. PICK t : t = b \o r
  OBVIOUS
<1>3. t \in Seq(Byte) /\ Leaves(x, n, t)
  BY <1>2, Lengths
<1>4. x.spec \in Seq(Operation) /\ x.spec # <<>> /\ x.tail = <<>>
  BY <1>1 DEF Keyed, ExchangeTypes
<1>5. CASE b = <<>>
  BY <1>5 DEF Deciphered
<1>6. CASE b # <<>>
  <2>1. n < Len(x.packets)
    <3>1. SUFFICES ASSUME ~ (n < Len(x.packets)) PROVE FALSE
      OBVIOUS
    <3>2. n = Len(x.packets)
      BY <1>1, <3>1 DEF ExchangeTypes
    <3>3. t = <<>>
      BY <1>1, <1>3, <1>4, <3>2, AllLeft
    <3> QED
      BY <1>2, <1>6, <3>3, ConcatSimplifications
  <2>2. PICK v : v = x.packets[n + 1][1]
    OBVIOUS
  <2>3. /\ EncodeNth(x, n + 1) \in Seq(Byte) /\ IsPacket(x.format, x.packets[n + 1])
        /\ Continues(x, n, t)
    BY <1>1, <1>3, <2>1, NextIs
  <2>4. x.packets[n + 1] = <<v>> /\ v \in Byte
    BY <2>2, <2>3 DEF IsPacket
  <2>5. n \in Nat /\ (n + 1) - 1 = n
    OBVIOUS
  <2>6. EncodeNth(x, n + 1) = <<EncodeByte(codec.spec, codec.upstream, v)>>
    BY <2>2, <2>5 DEF EncodeNth, Keyed
  <2>7. PICK Z \in Seq(Byte) : Leaves(x, n + 1, Z) /\ t = EncodeNth(x, n + 1) \o Z
    BY <2>3 DEF Continues
  <2>8. Meets(b, r, <<EncodeByte(codec.spec, codec.upstream, v)>>, Z)
    BY <1>2, <2>6, <2>7 DEF Meets
  <2>9. PICK result : result = Deciphered(b, codec)
    OBVIOUS
  <2>10. Deciphers(result, codec, v, r, Z) /\ result.is = "packet"
    BY <1>6, <2>4, <2>8, <2>9, ByteDeciphered
  <2>11. PICK next : next = [codec EXCEPT !.upstream = @ + 1]
    OBVIOUS
  <2>12. PICK rest \in Seq(Byte) :
           /\ result = [is |-> "packet", from |-> 0, rest |-> rest, packet |-> <<v>>,
                        codec |-> next]
           /\ rest \o r = Z
    BY <2>10, <2>11 DEF Deciphers
  <2>13. Decoding(x, n, next)
    <3>1. /\ codec.complete /\ ~codec.cut /\ codec.spec = x.spec /\ x.spec # <<>>
          /\ codec.upstream = n /\ codec.downstream = n
      BY DEF Keyed
    <3>2. n + 1 \in Nat /\ next = [codec EXCEPT !.upstream = n + 1]
      BY <2>5, <2>11, <3>1
    <3>3. next \in Codec
      BY <3>2 DEF Codec
    <3>4. /\ next.complete = codec.complete /\ next.cut = codec.cut /\ next.spec = codec.spec
          /\ next.upstream = n + 1 /\ next.downstream = codec.downstream
      BY <3>2 DEF Codec
    <3> QED
      BY <3>1, <3>3, <3>4 DEF Decoding
  <2>14. Leaves(x, n + 1, rest \o r)
    BY <2>7, <2>12
  <2>15. GivesByte(x, n, r, result)
    BY <2>1, <2>4, <2>12, <2>13, <2>14 DEF GivesByte
  <2> QED
    BY <1>6, <2>9, <2>15
<1> QED
  BY <1>5, <1>6

\* What the codec makes of what may be its spec.
SpecOutcome(x, b, r, read) ==
    \/ /\ read.is = "complete" /\ read.rest \in Seq(Byte) /\ Leaves(x, 0, read.rest \o r)
       /\ Keyed(x, 0, read.codec)
    \/ read.is \in {"more", "spins"} /\ read.codec.cut
    \/ read.is = "more" /\ b = <<>> /\ read.codec = NoSpec
    \/ read.is = "bad" /\ x.packets = <<>> /\ x.tail # <<>>

LEMMA NothingRead ==
    /\ Reading(<<>>, <<>>) = Start(<<>>)
    /\ ReadSpec(NoSpec, <<>>).is = "more" /\ ReadSpec(NoSpec, <<>>).codec = NoSpec
<1>1. <<>> \in Seq(Byte) /\ NoSpec \in Codec /\ NoSpec.spec = <<>>
  BY EmptySeq DEF NoSpec, Codec
<1>2. Reading(<<>>, <<>>) = Start(<<>>)
  BY <1>1, ReadingReads, ReadsNone
<1>3. ReadSpec(NoSpec, <<>>) = SpecRead(NoSpec, <<>>, Start(<<>>))
  BY <1>1, <1>2, SpecReadIs
<1>4. ReadSpec(NoSpec, <<>>).is = "more"
  BY <1>3 DEF SpecRead, Start
<1>5. ReadSpec(NoSpec, <<>>).codec = NoSpec
  <2>1. PICK read, got : read = ReadSpec(NoSpec, <<>>) /\ got = Start(<<>>)
    OBVIOUS
  <2>2. PICK entire, cut : entire = (read.is = "complete")
               /\ cut = (NoSpec.cut \/ read.is = "spins" \/ (read.is = "more" /\ <<>> # <<>>))
    OBVIOUS
  <2>3. read.codec = [NoSpec EXCEPT !.spec = <<>>, !.complete = entire, !.cut = cut]
    <3>1. read = SpecRead(NoSpec, <<>>, got)
      BY <1>3, <2>1
    <3>2. got.spec = <<>>
      BY <2>1 DEF Start
    <3> QED
      BY <2>2, <3>1, <3>2 DEF SpecRead
  <2>4. entire = FALSE /\ cut = FALSE
    BY <1>4, <2>1, <2>2 DEF NoSpec
  <2> QED
    BY <2>1, <2>3, <2>4 DEF NoSpec
<1> QED
  BY <1>2, <1>4, <1>5

LEMMA SpecOutcomeIs ==
    ASSUME NEW x, IsExchange(x), x.format = "cipher", NEW b \in Seq(Byte), NEW r \in Seq(Byte),
           b \o r = Leading(x) \o Body(x)
    PROVE  SpecOutcome(x, b, r, ReadSpec(NoSpec, b))
<1>1. ExchangeTypes(x) /\ Upto(x, 0) = <<>> /\ Body(x) \in Seq(Byte)
  <2>1. ExchangeTypes(x)
    BY ExchangeIs
  <2>2. 0 \in 0..Len(x.packets)
    BY <2>1 DEF ExchangeTypes
  <2> QED
    BY <2>1, <2>2, UptoIs
<1>2. NoSpec \in Codec /\ NoSpec.spec = <<>>
  BY EmptySeq DEF NoSpec, Codec
<1>3. PICK got, read : got = Reading(<<>>, b) /\ read = ReadSpec(NoSpec, b)
  OBVIOUS
<1>4. got \in Readings /\ read = SpecRead(NoSpec, b, got)
  BY <1>2, <1>3, SpecReadIs
<1>5. /\ got.is \in {"incomplete", "complete", "bad"} /\ got.rest \in Seq(Byte)
      /\ got.spec \in Seq(Operation)
  BY <1>4 DEF Readings
<1>6. b = <<>> => read.is = "more" /\ read.codec = NoSpec
  BY <1>3, NothingRead
<1>7. read.is = "spins" \/ (read.is = "more" /\ b # <<>>) => read.codec.cut
  <2>1. PICK entire, cut : entire = (read.is = "complete")
               /\ cut = (NoSpec.cut \/ read.is = "spins" \/ (read.is = "more" /\ b # <<>>))
    OBVIOUS
  <2>2. read.codec = [NoSpec EXCEPT !.spec = got.spec, !.complete = entire, !.cut = cut]
    BY <1>4, <2>1 DEF SpecRead
  <2>3. read.codec.cut = cut
    BY <2>2 DEF NoSpec
  <2> QED
    BY <2>1, <2>3
<1>8. ASSUME read.is \in {"more", "spins"} PROVE SpecOutcome(x, b, r, read)
  <2>1. CASE b = <<>>
    BY <1>6, <2>1 DEF SpecOutcome
  <2>2. CASE b # <<>>
    BY <1>7, <1>8, <2>2 DEF SpecOutcome
  <2> QED
    BY <2>1, <2>2
<1>9. CASE x.spec # <<>>
  <2>1. x.spec \in Seq(Operation) /\ IsValid(x.spec) /\ Leading(x) = SpecBytes(x.spec)
    BY <1>1, <1>9 DEF ExchangeTypes, Leading
  <2>2. Meets(b, r, SpecBytes(x.spec), Body(x))
    BY <2>1 DEF Meets
  <2>3. IsSpecRead(x.spec, b, r, Body(x), got)
    BY <1>1, <1>3, <2>1, <2>2, SpecIsRead
  <2>4. CASE got.is = "incomplete"
    <3>1. read.is \in {"more", "spins"}
      BY <1>4, <2>4 DEF SpecRead
    <3> QED
      BY <1>3, <1>8, <3>1
  <2>5. ASSUME NEW rest \in Seq(Byte), rest \o r = Body(x), got = Done(x.spec, rest)
        PROVE  SpecOutcome(x, b, r, read)
    <3>1. /\ got.is = "complete" /\ got.spec = x.spec /\ got.rest = rest
      BY <2>5 DEF Done
    <3>2. read.is = "complete" /\ read.rest = rest
      BY <1>4, <2>1, <3>1 DEF SpecRead
    <3>3. PICK entire, cut : entire = (read.is = "complete")
               /\ cut = (NoSpec.cut \/ read.is = "spins" \/ (read.is = "more" /\ b # <<>>))
      OBVIOUS
    <3>4. read.codec = [NoSpec EXCEPT !.spec = x.spec, !.complete = entire, !.cut = cut]
      BY <1>4, <3>1, <3>3 DEF SpecRead
    <3>5. entire = TRUE /\ cut = FALSE
      BY <3>2, <3>3 DEF NoSpec
    <3>6. Keyed(x, 0, read.codec)
      BY <1>9, <3>4, <3>5 DEF NoSpec, Keyed
    <3>7. Leaves(x, 0, rest \o r)
      BY <1>1, <2>5, ConcatEmptySeq DEF Leaves
    <3> QED
      BY <3>2, <3>6, <3>7 DEF SpecOutcome
  <2> QED
    BY <1>3, <2>3, <2>4, <2>5 DEF IsSpecRead
<1>10. CASE x.spec = <<>>
  <2>1. x.packets = <<>> /\ Leading(x) = <<>> /\ x.tail \in Seq(Byte)
    BY <1>1, <1>10 DEF ExchangeTypes, Leading
  <2>2. b \o r = x.tail
    <3>1. Len(x.packets) = 0
      BY <2>1
    <3>2. Body(x) = x.tail
      BY <1>1, <2>1, <3>1, ConcatEmptySeq DEF Body
    <3> QED
      BY <1>1, <2>1, <3>2, ConcatEmptySeq
  <2>3. read.is # "complete"
    <3>1. PICK n : n = Len(b)
      OBVIOUS
    <3>2. n \in 0..Len(x.tail)
      BY <2>2, <3>1, Lengths
    <3>3. x.tail \o <<>> = x.tail /\ <<>> \in Seq(Byte)
      BY <2>1, ConcatEmptySeq, EmptySeq
    <3>4. Len(b) <= Len(x.tail)
      BY <3>1, <3>2
    <3>5. CutAt(Byte, x.tail, <<>>, b, r)
      BY <2>1, <2>2, <3>3, <3>4, Cut
    <3>6. SubSeq(x.tail, 1, n) = b
      BY <3>1, <3>5 DEF CutAt
    <3>7. \A m \in 0..Len(x.tail) : ReadSpec(NoSpec, SubSeq(x.tail, 1, m)).is # "complete"
      BY <1>10 DEF IsExchange
    <3> QED
      BY <1>3, <3>2, <3>6, <3>7
  <2>4. read.is \in {"more", "spins", "bad", "complete"}
    BY <1>2, <1>3, SpecReadTypes
  <2>5. CASE read.is = "bad"
    <3>1. b # <<>>
      BY <1>6, <2>5
    <3>2. x.tail # <<>>
      BY <2>2, <3>1, ConcatSimplifications
    <3> QED
      BY <1>3, <2>1, <2>5, <3>2 DEF SpecOutcome
  <2> QED
    BY <1>3, <1>8, <2>3, <2>4, <2>5
<1> QED
  BY <1>9, <1>10

\* What the codec of a cipher returns after n packets, and what that leaves.
CipherOutcome(x, n, r, result) ==
    \/ GivesByte(x, n, r, result)
    \/ result.is \in {"more", "spins"} /\ result.codec.cut
    \/ result.is = "more" /\ Flows(x, n, result.codec, r)
    \/ result.is = "bad" /\ n = Len(x.packets) /\ x.tail # <<>>

LEMMA CipherDecodes ==
    ASSUME NEW x, IsExchange(x), x.format = "cipher", NEW n \in 0..Len(x.packets),
           NEW codec \in Codec, NEW b \in Seq(Byte), NEW r \in Seq(Byte),
           Flows(x, n, codec, b \o r)
    PROVE  CipherOutcome(x, n, r, Cipher(b, codec))
<1>1. PICK result : result = Cipher(b, codec)
  OBVIOUS
<1>2. CASE Keyed(x, n, codec) /\ Leaves(x, n, b \o r)
  <2>1. result = Deciphered(b, codec)
    BY <1>1, <1>2 DEF Cipher, Keyed
  <2>2. IF b = <<>> THEN result = [is |-> "more", from |-> 0, codec |-> codec]
                    ELSE GivesByte(x, n, r, result)
    BY <1>2, <2>1, KeyedDecodes
  <2>3. CipherOutcome(x, n, r, result)
    <3>1. CASE b # <<>>
      BY <2>2, <3>1 DEF CipherOutcome
    <3>2. CASE b = <<>>
      <4>1. b \o r = r
        BY <3>2, ConcatEmptySeq
      <4>2. Flows(x, n, codec, r)
        BY <1>2, <4>1 DEF Flows
      <4> QED
        BY <2>2, <3>2, <4>2 DEF CipherOutcome
    <3> QED
      BY <3>1, <3>2
  <2> QED
    BY <1>1, <2>3
<1>3. CASE n = 0 /\ codec = NoSpec /\ b \o r = Leading(x) \o Body(x)
  <2>1. PICK read : read = ReadSpec(NoSpec, b)
    OBVIOUS
  <2>2. SpecOutcome(x, b, r, read)
    BY <1>3, <2>1, SpecOutcomeIs
  <2>3. result = IF read.is = "complete" THEN Deciphered(read.rest, read.codec)
                 ELSE [is |-> read.is, from |-> 0, codec |-> read.codec]
    BY <1>1, <1>3, <2>1 DEF Cipher, NoSpec
  <2>4. ASSUME read.is = "complete", read.rest \in Seq(Byte), Leaves(x, 0, read.rest \o r),
               Keyed(x, 0, read.codec)
        PROVE  CipherOutcome(x, n, r, result)
    <3>1. PICK next, rest : next = read.codec /\ rest = read.rest
      OBVIOUS
    <3>2. next \in Codec
      BY <1>3, <2>1, <3>1, SpecReadTypes
    <3>3. rest \in Seq(Byte) /\ Leaves(x, 0, rest \o r) /\ Keyed(x, 0, next)
      BY <2>4, <3>1
    <3>4. 0 \in 0..Len(x.packets)
      BY <1>3
    <3>5. result = Deciphered(rest, next)
      BY <2>3, <2>4, <3>1
    <3>6. IF rest = <<>> THEN result = [is |-> "more", from |-> 0, codec |-> next]
                         ELSE GivesByte(x, 0, r, result)
      BY <3>2, <3>3, <3>4, <3>5, KeyedDecodes
    <3>7. CASE rest # <<>>
      BY <1>3, <3>6, <3>7 DEF CipherOutcome
    <3>8. CASE rest = <<>>
      <4>1. rest \o r = r
        BY <3>8, ConcatEmptySeq
      <4>2. Flows(x, n, next, r)
        BY <1>3, <3>3, <4>1 DEF Flows
      <4> QED
        BY <3>6, <3>8, <4>2 DEF CipherOutcome
    <3> QED
      BY <3>7, <3>8
  <2>5. ASSUME read.is # "complete" PROVE CipherOutcome(x, n, r, result)
    <3>1. result.is = read.is /\ result.codec = read.codec
      BY <2>3, <2>5
    <3>2. x.packets = <<>> => Len(x.packets) = 0
      OBVIOUS
    <3>3. b = <<>> => Flows(x, 0, NoSpec, r)
      <4>1. b = <<>> => b \o r = r
        BY ConcatEmptySeq
      <4> QED
        BY <1>3, <4>1 DEF Flows
    <3> QED
      BY <1>3, <2>2, <2>5, <3>1, <3>2, <3>3 DEF SpecOutcome, CipherOutcome
  <2> QED
    BY <1>1, <2>2, <2>4, <2>5 DEF SpecOutcome
<1> QED
  BY <1>2, <1>3 DEF Flows

\* Nothing is left of an exchange at its end only.
LEMMA NothingLeft ==
    ASSUME NEW x, IsExchange(x), NEW n \in 0..Len(x.packets), NEW codec,
           Flows(x, n, codec, <<>>)
    PROVE  n = Len(x.packets) /\ x.tail = <<>>
<1>1. ExchangeTypes(x) /\ <<>> \in Seq(Byte) /\ <<>> \o <<>> = <<>>
  BY ExchangeIs, EmptySeq, ConcatEmptySeq
<1>2. Len(x.packets) \in Nat /\ x.format \in Formats \cup {"cipher"} /\ x.tail \in Seq(Byte)
  BY <1>1 DEF ExchangeTypes
<1>3. CASE Leaves(x, n, <<>>)
  <2>1. n = Len(x.packets)
    <3>1. SUFFICES ASSUME n < Len(x.packets) PROVE FALSE
      BY <1>2
    <3>2. CASE x.format \in Formats
      <4>1. Unended(<<>>, 0)
        BY DEF Unended
      <4>2. PICK result : result = Decode(x.format, <<>>, 0, NoSpec)
        OBVIOUS
      <4>3. Leaves(x, n, <<>> \o <<>>)
        BY <1>1, <1>3
      <4>4. PlainOutcome(x, n, <<>>, <<>>, result)
        BY <1>1, <3>2, <4>1, <4>2, <4>3, PlainDecodes
      <4>5. result.is = "more"
        BY <3>2, <4>2, NothingIsMore
      <4>6. \A p, rest : result # Packet(p, rest)
        BY <4>5 DEF Packet
      <4> QED
        BY <3>1, <4>4, <4>5, <4>6 DEF PlainOutcome
    <3>3. CASE x.format = "cipher"
      <4>1. EncodeNth(x, n + 1) \in Seq(Byte) /\ Continues(x, n, <<>>)
        BY <1>1, <1>3, <3>1, NextIs
      <4>2. PICK Z \in Seq(Byte) : <<>> = EncodeNth(x, n + 1) \o Z
        BY <4>1 DEF Continues
      <4>3. EncodeNth(x, n + 1) = <<>>
        BY <4>1, <4>2, ConcatSimplifications
      <4>4. PICK c : c = EncodeNth(x, n + 1)
        OBVIOUS
      <4>5. Len(c) = 1
        BY <3>3, <4>4 DEF EncodeNth
      <4>6. c = <<>>
        BY <4>3, <4>4
      <4> QED
        BY <4>5, <4>6
    <3> QED
      BY <1>2, <3>2, <3>3
  <2>2. x.tail = <<>>
    BY <1>1, <1>3, <2>1, AllLeft
  <2> QED
    BY <2>1, <2>2
<1>4. CASE x.format = "cipher" /\ n = 0 /\ <<>> = Leading(x) \o Body(x)
  <2>1. Leading(x) \in Seq(Byte) /\ Body(x) \in Seq(Byte) /\ Upto(x, 0) = <<>>
    <3>1. 0 \in 0..Len(x.packets)
      BY <1>2
    <3>2. Leading(x) \in Seq(Byte)
      BY <1>1 DEF ExchangeTypes
    <3> QED
      BY <1>1, <3>1, <3>2, UptoIs
  <2>2. Leading(x) = <<>> /\ Body(x) = <<>>
    BY <1>4, <2>1, ConcatSimplifications
  <2>3. x.spec = <<>>
    <3>1. SUFFICES ASSUME x.spec # <<>> PROVE FALSE
      OBVIOUS
    <3>2. x.spec \in Seq(Operation) /\ Leading(x) = SpecBytes(x.spec)
      BY <1>1, <1>4, <3>1 DEF ExchangeTypes, Leading
    <3>3. PICK cs : cs = [i \in 1..Len(x.spec) |-> Coding(x.spec[i])]
      OBVIOUS
    <3>4. /\ Len(SpecBytes(x.spec)) = Len(Joined(cs, Len(x.spec))) + 1
          /\ Joined(cs, Len(x.spec)) \in Seq(Byte)
      BY <3>2, <3>3, SpecCodes
    <3>5. Len(Joined(cs, Len(x.spec))) \in Nat
      BY <3>4, LenProperties
    <3>6. Len(SpecBytes(x.spec)) # 0
      BY <3>4, <3>5
    <3> QED
      BY <2>2, <3>2, <3>6
  <2>4. x.packets = <<>>
    BY <1>1, <1>4, <2>3 DEF ExchangeTypes
  <2>5. n = Len(x.packets)
    BY <1>4, <2>4
  <2>6. Body(x) = <<>> \o x.tail
    BY <1>4, <2>1, <2>5 DEF Body
  <2> QED
    BY <1>2, <2>2, <2>5, <2>6, ConcatEmptySeq
<1> QED
  BY <1>3, <1>4 DEF Flows

\* Of which kind what a decoder returns is, whatever it finds in the buffer.
Returns(F, b, codec, result) ==
    /\ result.is \in {"packet", "more", "spins", "bad"}
    /\ result.from \in 0..Len(b)
    /\ result.is = "packet" =>
          /\ result.rest \in Seq(Byte) /\ result.from = 0
          /\ F = "cipher" => \E v \in Byte : result.packet = <<v>>
          /\ F # "cipher" => Encode(F, result.packet) \in Seq(Byte)
    /\ F = "cipher" => /\ result.codec \in Codec /\ (codec.cut => result.codec.cut)
                       /\ result.from = 0
    /\ F # "cipher" => result.is # "spins"

LEMMA DecodeReturns ==
    ASSUME NEW F \in Formats \cup {"cipher"}, NEW b \in Seq(Byte), NEW from \in Nat,
           NEW codec \in Codec
    PROVE  Returns(F, b, codec, Decode(F, b, from, codec))
<1>1. PICK result : result = Decode(F, b, from, codec)
  OBVIOUS
<1>2. Len(b) \in Nat
  BY LenProperties
<1>3. CASE F = "cipher"
  <2>1. result = Cipher(b, codec)
    BY <1>1, <1>3 DEF Decode
  <2>2. CipherTypes(result, codec)
    BY <2>1, CipherIs
  <2>3. Returns(F, b, codec, result)
    BY <1>2, <1>3, <2>2 DEF CipherTypes, Returns
  <2> QED
    BY <1>1, <2>3
<1>4. CASE F # "cipher"
  <2>1. F \in Formats
    BY <1>4
  <2>2. \/ Whole(F, result, b) \/ result = Bad \/ result = More(0) \/ result = More(Len(b))
    BY <1>1, <2>1, DecodedIsWhole
  <2>3. CASE Whole(F, result, b)
    <3>1. PICK p, rest : /\ result = Packet(p, rest) /\ rest \in Seq(Byte)
                         /\ Encode(F, p) \in Seq(Byte)
      BY <2>3 DEF Whole
    <3>2. /\ result.is = "packet" /\ result.rest = rest /\ result.packet = p
          /\ result.from = 0
      BY <3>1 DEF Packet
    <3>3. Returns(F, b, codec, result)
      BY <1>2, <1>4, <3>1, <3>2 DEF Returns
    <3> QED
      BY <1>1, <3>3
  <2>4. CASE result \in {Bad, More(0), More(Len(b))}
    <3>1. result.is \in {"bad", "more"} /\ result.from \in {0, Len(b)}
      BY <2>4 DEF Bad, More
    <3>2. Returns(F, b, codec, result)
      BY <1>2, <1>4, <3>1 DEF Returns
    <3> QED
      BY <1>1, <3>2
  <2> QED
    BY <2>2, <2>3, <2>4
<1> QED
  BY <1>3, <1>4

-----------------------------------------------------------------------------
(* The type invariant *)

LEMMA SentIs ==
    ASSUME IsOne(exchange)
    PROVE  /\ IsExchange(exchange) /\ ExchangeTypes(exchange)
           /\ Sent \in Seq(Byte) /\ Sent = Leading(exchange) \o Body(exchange)
<1>1. /\ IsExchange(exchange)
      /\ Sent = (Leading(exchange) \o Upto(exchange, Len(exchange.packets))) \o exchange.tail
  BY OneIs DEF Sent
<1>2. ExchangeTypes(exchange)
  BY <1>1, ExchangeIs
<1>3. PICK n, U, L, t :
         /\ n = Len(exchange.packets) /\ U = Upto(exchange, n) /\ L = Leading(exchange)
         /\ t = exchange.tail
  OBVIOUS
<1>4. n \in 0..Len(exchange.packets) /\ L \in Seq(Byte) /\ t \in Seq(Byte)
  BY <1>2, <1>3 DEF ExchangeTypes
<1>5. U \in Seq(Byte)
  BY <1>2, <1>3, <1>4, UptoIs
<1>6. Sent = (L \o U) \o t
  BY <1>1, <1>3
<1>7. Sent = L \o (U \o t)
  BY <1>4, <1>5, <1>6, ByteAssociative
<1>8. Body(exchange) = U \o t
  BY <1>3 DEF Body
<1>9. U \o t \in Seq(Byte)
  BY <1>4, <1>5, Lengths
<1>10. L \o (U \o t) \in Seq(Byte)
  BY <1>4, <1>9, Lengths
<1> QED
  BY <1>1, <1>2, <1>3, <1>7, <1>8, <1>10

\* What every step keeps of the types.
LEMMA TypesKept ==
    ASSUME StreamsTypeInv, UNCHANGED exchange,
           arrived' \in arrived..Len(Sent), taken' \in 0..arrived', lost' \in 0..taken',
           closed' \in BOOLEAN, closed' => arrived' = Len(Sent),
           reader' \in Reader, reader'.from \in 0..Len(reader'.buffer),
           reader'.does = "again" => taken' < arrived' \/ closed',
           out' \in Seq(Byte), written' \in Seq(Byte)
    PROVE  StreamsTypeInv'
<1>1. Sent' = Sent
  BY DEF Sent
<1>2. arrived \in 0..Len(Sent) /\ IsOne(exchange)
  BY DEF StreamsTypeInv, StreamsTypeOK
<1>3. Len(Sent) \in Nat
  BY <1>2, SentIs, LenProperties
<1>4. PICK n \in Nat : n = Len(Sent)
  BY <1>3
<1>5. arrived' \in 0..Len(Sent)'
  BY <1>1, <1>2, <1>4
<1>6. reader'.does \in Doings /\ reader'.eof \in BOOLEAN /\ reader'.buffer \in Seq(Byte)
  BY DEF Reader
<1>7. StreamsTypeOK'
  BY <1>5, <1>6 DEF StreamsTypeOK
<1>8. IsOne(exchange)'
  BY <1>2
<1>9. (reader.does = "again" => Readable)'
  BY DEF Readable
<1> QED
  BY <1>1, <1>7, <1>8, <1>9 DEF StreamsTypeInv

LEMMA StreamsTypesFirst ==
    ASSUME StreamsInit
    PROVE  StreamsTypeInv
<1>1. IsOne(exchange)
  BY DEF StreamsInit, IsOne
<1>2. Sent \in Seq(Byte) /\ Len(Sent) \in Nat
  BY <1>1, SentIs, LenProperties
<1>3. NoSpec \in Codec /\ <<>> \in Seq(Byte) /\ Len(<<>>) = 0
  BY EmptySeq DEF NoSpec, Codec
<1>4. reader = [does |-> "poll", buffer |-> <<>>, from |-> 0, codec |-> NoSpec, eof |-> FALSE]
  BY DEF StreamsInit
<1>5. "poll" \in Doings
  BY DEF Doings
<1>6. reader \in Reader
  BY <1>3, <1>4, <1>5 DEF Reader
<1>7. arrived = 0 /\ closed = FALSE /\ taken = 0 /\ lost = 0 /\ out = <<>> /\ written = <<>>
  BY DEF StreamsInit
<1>8. /\ reader.does = "poll" /\ reader.eof = FALSE /\ reader.buffer = <<>> /\ reader.from = 0
  BY <1>4
<1>9. StreamsTypeOK
  <2>1. PICK n \in Nat : n = Len(Sent)
    BY <1>2
  <2>2. arrived \in 0..Len(Sent) /\ taken \in 0..arrived /\ lost \in 0..taken
    BY <1>7, <2>1
  <2>3. closed \in BOOLEAN /\ reader.does \in Doings /\ reader.eof \in BOOLEAN
    BY <1>5, <1>7, <1>8
  <2>4. reader.buffer \in Seq(Byte) /\ out \in Seq(Byte) /\ written \in Seq(Byte)
    BY <1>3, <1>7, <1>8
  <2>5. reader.from \in 0..Len(reader.buffer)
    BY <1>3, <1>8
  <2> QED
    BY <2>2, <2>3, <2>4, <2>5 DEF StreamsTypeOK
<1> QED
  BY <1>1, <1>6, <1>7, <1>8, <1>9 DEF StreamsTypeInv

\* What the invariant says of the types before a step.
LEMMA TypesBefore ==
    ASSUME StreamsTypeInv
    PROVE  /\ reader \in Reader /\ reader.from \in 0..Len(reader.buffer)
           /\ reader.does \in Doings /\ reader.buffer \in Seq(Byte) /\ reader.from \in Nat
           /\ reader.codec \in Codec /\ reader.eof \in BOOLEAN
           /\ Len(Sent) \in Nat /\ Sent \in Seq(Byte)
           /\ arrived \in 0..Len(Sent) /\ taken \in 0..arrived /\ lost \in 0..taken
           /\ arrived \in Nat /\ taken \in Nat /\ lost \in Nat
           /\ closed \in BOOLEAN /\ (closed => arrived = Len(Sent))
           /\ out \in Seq(Byte) /\ written \in Seq(Byte)
           /\ exchange.format \in Formats \cup {"cipher"}
           /\ reader.does = "again" => taken < arrived \/ closed
<1>1. IsOne(exchange) /\ reader \in Reader /\ StreamsTypeOK
  BY DEF StreamsTypeInv
<1>2. Sent \in Seq(Byte) /\ ExchangeTypes(exchange)
  BY <1>1, SentIs
<1>3. Len(Sent) \in Nat
  BY <1>2, LenProperties
<1>4. PICK n \in Nat : n = Len(Sent)
  BY <1>3
<1>5. arrived \in 0..n /\ taken \in 0..arrived /\ lost \in 0..taken
  BY <1>1, <1>4 DEF StreamsTypeOK
<1>6. arrived \in Nat /\ taken \in Nat /\ lost \in Nat
  BY <1>5
<1>7. /\ reader.does \in Doings /\ reader.buffer \in Seq(Byte) /\ reader.from \in Nat
      /\ reader.codec \in Codec /\ reader.eof \in BOOLEAN
  BY <1>1 DEF Reader
<1>8. /\ reader.from \in 0..Len(reader.buffer) /\ closed \in BOOLEAN
      /\ out \in Seq(Byte) /\ written \in Seq(Byte)
  BY <1>1 DEF StreamsTypeOK
<1>9. exchange.format \in Formats \cup {"cipher"}
  BY <1>2 DEF ExchangeTypes
<1>10. /\ closed => arrived = Len(Sent)
       /\ reader.does = "again" => taken < arrived \/ closed
  BY DEF StreamsTypeInv, Readable
<1> QED
  BY <1>1, <1>2, <1>3, <1>4, <1>5, <1>6, <1>7, <1>8, <1>9, <1>10

\* What a reader keeps that goes on with something else.
LEMMA DoesKeeps ==
    ASSUME NEW r \in Reader, NEW what \in Doings, NEW q, q = [r EXCEPT !.does = what]
    PROVE  /\ q \in Reader /\ q.does = what /\ q.buffer = r.buffer /\ q.from = r.from
           /\ q.codec = r.codec /\ q.eof = r.eof
  BY DEF Reader

LEMMA GivesTypes ==
    ASSUME StreamsTypeInv, NEW result,
           Returns(exchange.format, reader.buffer, reader.codec, result),
           result.is = "packet", Gives(result)
    PROVE  /\ reader' \in Reader /\ reader'.does = "sending" /\ reader'.buffer = result.rest
           /\ reader'.from = 0 /\ reader'.eof = reader.eof /\ out' \in Seq(Byte)
           /\ reader'.codec =
                 [CodecAfter(result) EXCEPT !.downstream = @ + (IF IsCipher THEN 1 ELSE 0)]
           /\ CodecAfter(result) \in Codec
<1>1. reader \in Reader /\ reader.codec \in Codec /\ out \in Seq(Byte)
  BY TypesBefore
<1>2. /\ result.rest \in Seq(Byte) /\ result.from = 0
      /\ exchange.format = "cipher" => \E v \in Byte : result.packet = <<v>>
      /\ exchange.format # "cipher" => Encode(exchange.format, result.packet) \in Seq(Byte)
      /\ exchange.format = "cipher" => result.codec \in Codec
  BY DEF Returns
<1>3. PICK codec : codec = CodecAfter(result)
  OBVIOUS
<1>4. codec \in Codec
  BY <1>1, <1>2, <1>3 DEF CodecAfter, IsCipher
<1>5. PICK one : one = IF IsCipher THEN 1 ELSE 0
  OBVIOUS
<1>6. PICK next : next = [codec EXCEPT !.downstream = @ + one]
  OBVIOUS
<1>7. next \in Codec
  <2>1. one \in Nat
    BY <1>5
  <2>2. codec.downstream + one \in Nat
    BY <1>4, <2>1 DEF Codec
  <2> QED
    BY <1>4, <1>6, <2>2 DEF Codec
<1>8. PICK rest, from : rest = result.rest /\ from = result.from
  OBVIOUS
<1>9. reader' = [reader EXCEPT !.does = "sending", !.buffer = rest, !.from = from, !.codec = next]
  BY <1>3, <1>5, <1>6, <1>8 DEF Gives
<1>10. "sending" \in Doings /\ rest \in Seq(Byte) /\ from = 0 /\ from \in Nat
  BY <1>2, <1>8 DEF Doings
<1>11. reader' \in Reader
  BY <1>1, <1>7, <1>9, <1>10 DEF Reader
<1>12. /\ reader'.does = "sending" /\ reader'.buffer = rest /\ reader'.from = from
       /\ reader'.eof = reader.eof /\ reader'.codec = next
  BY <1>1, <1>9 DEF Reader
<1>13. out' \in Seq(Byte)
  <2>1. CASE IsCipher
    <3>1. PICK v \in Byte : result.packet = <<v>>
      BY <1>2, <2>1 DEF IsCipher
    <3>2. PICK c : c = EncodeByte(codec.spec, codec.downstream, v)
      OBVIOUS
    <3>3. codec.spec \in Seq(Operation) /\ codec.downstream \in Nat
      BY <1>4 DEF Codec
    <3>4. c \in Byte
      BY <3>2, <3>3, EncodedByte
    <3>5. result.packet[1] = v
      BY <3>1
    <3>6. out' = out \o <<c>>
      BY <1>3, <2>1, <3>2, <3>5 DEF Gives
    <3>7. <<c>> \in Seq(Byte)
      BY <3>4
    <3> QED
      BY <1>1, <3>6, <3>7, Lengths
  <2>2. CASE ~IsCipher
    <3>1. PICK c : c = Encode(exchange.format, result.packet)
      OBVIOUS
    <3>2. c \in Seq(Byte)
      BY <1>2, <2>2, <3>1 DEF IsCipher
    <3>3. out' = out \o c
      BY <2>2, <3>1 DEF Gives
    <3> QED
      BY <1>1, <3>2, <3>3, Lengths
  <2> QED
    BY <2>1, <2>2
<1> QED
  BY <1>3, <1>4, <1>5, <1>6, <1>8, <1>10, <1>11, <1>12, <1>13

\* What the decoder makes of the buffer.
LEMMA DecodedIs ==
    ASSUME StreamsTypeInv, NEW result \in Decoded
    PROVE  /\ result = Decode(exchange.format, reader.buffer, reader.from, reader.codec)
           /\ Returns(exchange.format, reader.buffer, reader.codec, result)
<1>1. result = Decode(exchange.format, reader.buffer, reader.from, reader.codec)
  BY DEF Decoded
<1> QED
  BY <1>1, TypesBefore, DecodeReturns

\* A decoder that wants more or spins.
Wanting(result) ==
    reader' = [reader EXCEPT !.does = IF result.is = "more" THEN "read" ELSE "spins",
                  !.buffer = IF IsCipher /\ result.is = "more" THEN <<>> ELSE @,
                  !.from = result.from, !.codec = CodecAfter(result)]

LEMMA WantingTypes ==
    ASSUME StreamsTypeInv, NEW result,
           Returns(exchange.format, reader.buffer, reader.codec, result), Wanting(result)
    PROVE  /\ reader' \in Reader
           /\ reader'.does = IF result.is = "more" THEN "read" ELSE "spins"
           /\ reader'.buffer = IF IsCipher /\ result.is = "more" THEN <<>> ELSE reader.buffer
           /\ reader'.from = result.from /\ reader'.codec = CodecAfter(result)
           /\ reader'.eof = reader.eof
<1>1. reader \in Reader /\ reader.codec \in Codec /\ reader.buffer \in Seq(Byte)
  BY TypesBefore
<1>2. PICK does, buffer, from, codec :
         /\ does = IF result.is = "more" THEN "read" ELSE "spins"
         /\ buffer = IF IsCipher /\ result.is = "more" THEN <<>> ELSE reader.buffer
         /\ from = result.from /\ codec = CodecAfter(result)
  OBVIOUS
<1>3. reader' = [reader EXCEPT !.does = does, !.buffer = buffer, !.from = from, !.codec = codec]
  BY <1>1, <1>2 DEF Wanting
<1>4. does \in Doings
  BY <1>2 DEF Doings
<1>5. buffer \in Seq(Byte)
  BY <1>1, <1>2, EmptySeq
<1>6. from \in Nat
  BY <1>1, <1>2, LenProperties DEF Returns
<1>7. codec \in Codec
  BY <1>1, <1>2 DEF Returns, CodecAfter, IsCipher
<1>8. reader' \in Reader
  BY <1>1, <1>3, <1>4, <1>5, <1>6, <1>7 DEF Reader
<1>9. /\ reader'.does = does /\ reader'.buffer = buffer /\ reader'.from = from
      /\ reader'.codec = codec /\ reader'.eof = reader.eof
  BY <1>1, <1>3 DEF Reader
<1> QED
  BY <1>2, <1>8, <1>9

LEMMA DecoderTypes ==
    ASSUME StreamsTypeInv, PollNext \/ HandleEof
    PROVE  StreamsTypeInv'
<1>1. /\ UNCHANGED <<exchange, arrived, closed, taken, lost, written>>
      /\ \E result \in Decoded :
            \/ result.is = "packet" /\ Gives(result)
            \/ Wanting(result) /\ result.is \in {"more", "spins"} /\ UNCHANGED <<items, out>>
            \/ Does("ended") /\ UNCHANGED <<items, out>>
            \/ Does("failed") /\ UNCHANGED <<items, out>>
  BY DEF PollNext, HandleEof, Wanting
<1>2. PICK result \in Decoded :
            \/ result.is = "packet" /\ Gives(result)
            \/ Wanting(result) /\ result.is \in {"more", "spins"} /\ UNCHANGED <<items, out>>
            \/ Does("ended") /\ UNCHANGED <<items, out>>
            \/ Does("failed") /\ UNCHANGED <<items, out>>
  BY <1>1
<1>3. Returns(exchange.format, reader.buffer, reader.codec, result)
  BY DecodedIs
<1>4. /\ arrived' \in arrived..Len(Sent) /\ taken' \in 0..arrived' /\ lost' \in 0..taken'
      /\ closed' \in BOOLEAN /\ (closed' => arrived' = Len(Sent)) /\ written' \in Seq(Byte)
  BY <1>1, TypesBefore
<1>5. /\ reader' \in Reader /\ reader'.from \in 0..Len(reader'.buffer)
      /\ reader'.does # "again" /\ out' \in Seq(Byte)
  <2>1. CASE result.is = "packet" /\ Gives(result)
    <3>1. /\ reader' \in Reader /\ reader'.does = "sending" /\ reader'.buffer = result.rest
          /\ reader'.from = 0 /\ out' \in Seq(Byte)
      BY <1>3, <2>1, GivesTypes
    <3>2. Len(result.rest) \in Nat
      BY <1>3, <2>1, LenProperties DEF Returns
    <3> QED
      BY <3>1, <3>2
  <2>2. CASE Wanting(result) /\ result.is \in {"more", "spins"} /\ UNCHANGED <<items, out>>
    <3>1. /\ reader' \in Reader
          /\ reader'.does = IF result.is = "more" THEN "read" ELSE "spins"
          /\ reader'.buffer = IF IsCipher /\ result.is = "more" THEN <<>> ELSE reader.buffer
          /\ reader'.from = result.from
      BY <1>3, <2>2, WantingTypes
    <3>2. result.from \in 0..Len(reader.buffer) /\ (IsCipher => result.from = 0)
      BY <1>3 DEF Returns, IsCipher
    <3>3. 0 \in 0..Len(<<>>)
      OBVIOUS
    <3>4. reader'.from \in 0..Len(reader'.buffer)
      BY <3>1, <3>2, <3>3
    <3> QED
      BY <2>2, <3>1, <3>4, TypesBefore
  <2>3. CASE \E what \in {"ended", "failed"} : Does(what) /\ UNCHANGED <<items, out>>
    <3>1. PICK what \in {"ended", "failed"} : reader' = [reader EXCEPT !.does = what]
      BY <2>3 DEF Does
    <3>2. what \in Doings
      BY DEF Doings
    <3>3. /\ reader' \in Reader /\ reader'.does = what /\ reader'.buffer = reader.buffer
          /\ reader'.from = reader.from
      BY <3>1, <3>2, TypesBefore, DoesKeeps
    <3>4. reader'.from \in 0..Len(reader'.buffer)
      BY <3>3, TypesBefore
    <3> QED
      BY <2>3, <3>3, <3>4, TypesBefore
  <2> QED
    BY <1>2, <2>1, <2>2, <2>3
<1> QED
  BY <1>1, <1>4, <1>5, TypesKept

\* A step that only goes on with something else.
LEMMA GoesOnTypes ==
    ASSUME StreamsTypeInv, NEW what \in Doings, Does(what), what = "again" => Readable,
           UNCHANGED <<exchange, arrived, closed, taken, lost, out, written>>
    PROVE  StreamsTypeInv'
<1>1. /\ reader' \in Reader /\ reader'.does = what /\ reader'.buffer = reader.buffer
      /\ reader'.from = reader.from
  BY TypesBefore, DoesKeeps DEF Does
<1>2. reader'.from \in 0..Len(reader'.buffer)
  BY <1>1, TypesBefore
<1>3. /\ arrived' \in arrived..Len(Sent) /\ taken' \in 0..arrived' /\ lost' \in 0..taken'
      /\ closed' \in BOOLEAN /\ (closed' => arrived' = Len(Sent)) /\ written' \in Seq(Byte)
      /\ out' \in Seq(Byte)
  BY TypesBefore
<1>4. reader'.does = "again" => taken' < arrived' \/ closed'
  BY <1>1 DEF Readable
<1> QED
  BY <1>1, <1>2, <1>3, <1>4, TypesKept

\* A step that leaves the reader alone.
LEMMA OthersTypes ==
    ASSUME StreamsTypeInv, UNCHANGED <<exchange, taken, lost, reader>>,
           arrived' \in arrived..Len(Sent), closed' \in BOOLEAN, closed => closed',
           closed' => arrived' = Len(Sent), out' \in Seq(Byte), written' \in Seq(Byte)
    PROVE  StreamsTypeInv'
<1>1. /\ reader' \in Reader /\ reader'.from \in 0..Len(reader'.buffer)
      /\ taken' \in 0..arrived' /\ lost' \in 0..taken'
  BY TypesBefore
<1>2. reader'.does = "again" => taken' < arrived' \/ closed'
  BY TypesBefore
<1> QED
  BY <1>1, <1>2, TypesKept

\* A piece of what was sent.
LEMMA Piece ==
    ASSUME NEW s \in Seq(Byte), NEW k \in Nat, NEW n \in Nat, k + n <= Len(s)
    PROVE  /\ SubSeq(s, k + 1, k + n) \in Seq(Byte) /\ After(s, k + n) \in Seq(Byte)
           /\ After(s, k) \in Seq(Byte)
           /\ After(s, k) = SubSeq(s, k + 1, k + n) \o After(s, k + n)
<1>1. PICK m \in Nat : m = Len(s)
  BY LenProperties
<1>2. k + n \in Nat /\ k + n <= m /\ k <= m
  BY <1>1
<1>3. After(s, k + n) \in Seq(Byte) /\ After(s, k) \in Seq(Byte)
  BY <1>1, <1>2, SplitAt DEF SplitsAt
<1>4. SubSeq(s, k + 1, k + n) \in Seq(Byte)
  <2>1. \A i \in (k + 1)..(k + n) : s[i] \in Byte
    BY <1>1, <1>2, ElementOfSeq
  <2>2. k + 1 \in Int /\ k + n \in Int
    OBVIOUS
  <2> QED
    BY <2>1, <2>2, SubSeqProperties
<1>5. SubSeq(s, k + 1, k + n) \o SubSeq(s, (k + n) + 1, Len(s)) = SubSeq(s, k + 1, Len(s))
  <2>1. /\ k + 1 \in 1..(Len(s) + 1) /\ k + n \in ((k + 1) - 1)..Len(s)
        /\ Len(s) \in (k + n)..Len(s)
    BY <1>1, <1>2
  <2> QED
    BY <2>1, ConcatAdjacentSubSeq
<1> QED
  BY <1>3, <1>4, <1>5 DEF After

\* The stream ends.
LEMMA EndsTypes ==
    ASSUME StreamsTypeInv, EndsTheStream,
           UNCHANGED <<exchange, arrived, closed, taken, lost, out, written>>
    PROVE  /\ StreamsTypeInv'
           /\ reader'.does = "poll" /\ reader'.buffer = reader.buffer
           /\ reader'.from = reader.from /\ reader'.codec = reader.codec /\ reader'.eof = TRUE
<1>1. "poll" \in Doings
  BY DEF Doings
<1>2. /\ reader' \in Reader /\ reader'.does = "poll" /\ reader'.buffer = reader.buffer
      /\ reader'.from = reader.from /\ reader'.codec = reader.codec /\ reader'.eof = TRUE
  BY <1>1, TypesBefore DEF EndsTheStream, Reader
<1>3. reader'.from \in 0..Len(reader'.buffer)
  BY <1>2, TypesBefore
<1>4. /\ arrived' \in arrived..Len(Sent) /\ taken' \in 0..arrived' /\ lost' \in 0..taken'
      /\ closed' \in BOOLEAN /\ (closed' => arrived' = Len(Sent)) /\ written' \in Seq(Byte)
      /\ out' \in Seq(Byte)
  BY TypesBefore
<1> QED
  BY <1>2, <1>3, <1>4, TypesKept

LEMMA TakesTypes ==
    ASSUME StreamsTypeInv, NEW n \in 1..(arrived - taken)
    PROVE  /\ n \in Nat /\ n > 0 /\ taken + n \in 0..arrived /\ taken + n <= Len(Sent)
           /\ lost + n \in 0..(taken + n) /\ taken + n \in Nat /\ taken < arrived
  BY TypesBefore

\* Bytes are read.
LEMMA BytesReadTypes ==
    ASSUME StreamsTypeInv, NEW n \in 1..(arrived - taken), Takes(n),
           reader' = [reader EXCEPT !.does = "poll",
                         !.buffer = @ \o SubSeq(Sent, taken + 1, taken + n)],
           UNCHANGED <<exchange, arrived, closed, lost, out, written>>
    PROVE  /\ StreamsTypeInv'
           /\ reader'.does = "poll"
           /\ reader'.buffer = reader.buffer \o SubSeq(Sent, taken + 1, taken + n)
           /\ reader'.from = reader.from /\ reader'.codec = reader.codec
           /\ reader'.eof = reader.eof
<1>1. "poll" \in Doings
  BY DEF Doings
<1>2. PICK piece : piece = SubSeq(Sent, taken + 1, taken + n)
  OBVIOUS
<1>3. piece \in Seq(Byte)
  BY <1>2, TypesBefore, TakesTypes, Piece
<1>4. PICK buffer : buffer = reader.buffer \o piece
  OBVIOUS
<1>5. /\ buffer \in Seq(Byte) /\ Len(buffer) = Len(reader.buffer) + Len(piece)
      /\ Len(piece) \in Nat /\ Len(reader.buffer) \in Nat
  BY <1>3, <1>4, TypesBefore, Lengths
<1>6. reader' = [reader EXCEPT !.does = "poll", !.buffer = buffer]
  BY <1>2, <1>4
<1>7. /\ reader' \in Reader /\ reader'.does = "poll" /\ reader'.buffer = buffer
      /\ reader'.from = reader.from /\ reader'.codec = reader.codec
      /\ reader'.eof = reader.eof
  BY <1>1, <1>5, <1>6, TypesBefore DEF Reader
<1>8. reader'.from \in 0..Len(reader'.buffer)
  <2>1. PICK l \in Nat, m \in Nat : l = Len(reader.buffer) /\ m = Len(piece)
    BY <1>5
  <2>2. reader'.from \in 0..l
    BY <1>7, <2>1, TypesBefore
  <2>3. Len(reader'.buffer) = l + m
    BY <1>5, <1>7, <2>1
  <2>4. \A from \in 0..l : from \in 0..(l + m)
    OBVIOUS
  <2>5. reader'.from \in 0..(l + m)
    BY <2>2, <2>4
  <2> QED
    BY <2>3, <2>5
<1>9. /\ arrived' \in arrived..Len(Sent) /\ taken' \in 0..arrived' /\ lost' \in 0..taken'
      /\ closed' \in BOOLEAN /\ (closed' => arrived' = Len(Sent)) /\ written' \in Seq(Byte)
      /\ out' \in Seq(Byte)
  BY TypesBefore, TakesTypes DEF Takes
<1>10. StreamsTypeInv'
  BY <1>7, <1>8, <1>9, TypesKept
<1> QED
  BY <1>2, <1>4, <1>7, <1>10

\* A piece of what waits is written.
LEMMA WritesTypes ==
    ASSUME StreamsTypeInv, NEW n \in 1..Len(out)
    PROVE  /\ SubSeq(out, 1, n) \in Seq(Byte) /\ After(out, n) \in Seq(Byte)
           /\ written \o SubSeq(out, 1, n) \in Seq(Byte)
           /\ out = SubSeq(out, 1, n) \o After(out, n)
<1>1. out \in Seq(Byte) /\ written \in Seq(Byte) /\ Len(out) \in Nat
  BY TypesBefore, LenProperties
<1>2. n \in Nat /\ n <= Len(out)
  BY <1>1
<1>3. SplitsAt(out, n)
  BY <1>1, <1>2, SplitAt
<1> QED
  BY <1>1, <1>3, Lengths DEF SplitsAt

LEMMA StreamsTypesStep ==
    ASSUME StreamsTypeInv, StreamsNext
    PROVE  StreamsTypeInv'
<1>1. CASE BytesArrive
  <2>1. arrived' = arrived + 1 /\ arrived < Len(Sent) /\ UNCHANGED <<exchange, taken, lost, reader>>
    BY <1>1 DEF BytesArrive
  <2>2. arrived' \in arrived..Len(Sent) /\ closed' \in BOOLEAN /\ (closed => closed')
    BY <1>1, <2>1, TypesBefore DEF BytesArrive
  <2>3. (closed' => arrived' = Len(Sent)) /\ out' \in Seq(Byte) /\ written' \in Seq(Byte)
    BY <1>1, <2>1, TypesBefore DEF BytesArrive
  <2> QED
    BY <2>1, <2>2, <2>3, OthersTypes
<1>2. CASE PeerCloses
  <2>1. /\ UNCHANGED <<exchange, taken, lost, reader>> /\ arrived' \in arrived..Len(Sent)
        /\ closed' \in BOOLEAN /\ (closed => closed') /\ (closed' => arrived' = Len(Sent))
        /\ out' \in Seq(Byte) /\ written' \in Seq(Byte)
    BY <1>2, TypesBefore DEF PeerCloses
  <2> QED
    BY <2>1, OthersTypes
<1>3. CASE PollNext \/ HandleEof
  BY <1>3, DecoderTypes
<1>4. CASE Read
  <2>1. CASE \E n \in 1..(arrived - taken) :
                /\ Takes(n)
                /\ reader' = [reader EXCEPT !.does = "poll",
                                 !.buffer = @ \o SubSeq(Sent, taken + 1, taken + n)]
    <3>1. UNCHANGED <<exchange, arrived, closed, lost, out, written>>
      BY <1>4 DEF Read
    <3> QED
      BY <2>1, <3>1, BytesReadTypes
  <2>2. CASE EndsTheStream /\ UNCHANGED taken
    <3>1. UNCHANGED <<exchange, arrived, closed, lost, out, written>>
      BY <1>4 DEF Read
    <3> QED
      BY <2>2, <3>1, EndsTypes
  <2>3. CASE \E what \in {"waiting", "subscribe"} : Does(what) /\ UNCHANGED taken
    <3>1. UNCHANGED <<exchange, arrived, closed, lost, out, written>>
      BY <1>4 DEF Read
    <3>2. PICK what \in {"waiting", "subscribe"} : Does(what) /\ UNCHANGED taken
      BY <2>3
    <3>3. what \in Doings /\ what # "again"
      BY DEF Doings
    <3> QED
      BY <3>1, <3>2, <3>3, GoesOnTypes
  <2> QED
    BY <1>4, <2>1, <2>2, <2>3 DEF Read
<1>5. CASE Subscribe
  <2>1. PICK what \in {"again", "waiting"} : Does(what) /\ (what = "again" => Readable)
    BY <1>5 DEF Subscribe
  <2>2. what \in Doings /\ UNCHANGED <<exchange, arrived, closed, taken, lost, out, written>>
    BY <1>5 DEF Subscribe, Doings
  <2> QED
    BY <2>1, <2>2, GoesOnTypes
<1>6. CASE ReadAgain
  <2>1. CASE \E n \in 1..(arrived - taken) : Takes(n) /\ lost' = lost + n /\ Does("read")
    <3>1. PICK n \in 1..(arrived - taken) : Takes(n) /\ lost' = lost + n /\ Does("read")
      BY <2>1
    <3>2. "read" \in Doings
      BY DEF Doings
    <3>3. /\ reader' \in Reader /\ reader'.does = "read" /\ reader'.buffer = reader.buffer
          /\ reader'.from = reader.from
      BY <3>1, <3>2, TypesBefore, DoesKeeps DEF Does
    <3>4. reader'.from \in 0..Len(reader'.buffer)
      BY <3>3, TypesBefore
    <3>5. UNCHANGED <<exchange, arrived, closed, out, written>>
      BY <1>6 DEF ReadAgain
    <3>6. /\ arrived' \in arrived..Len(Sent) /\ taken' \in 0..arrived' /\ lost' \in 0..taken'
          /\ closed' \in BOOLEAN /\ (closed' => arrived' = Len(Sent)) /\ written' \in Seq(Byte)
          /\ out' \in Seq(Byte)
      BY <3>1, <3>5, TypesBefore, TakesTypes DEF Takes
    <3> QED
      BY <3>3, <3>4, <3>5, <3>6, TypesKept
  <2>2. CASE EndsTheStream /\ UNCHANGED <<taken, lost>>
    <3>1. UNCHANGED <<exchange, arrived, closed, taken, lost, out, written>>
      BY <1>6, <2>2 DEF ReadAgain
    <3> QED
      BY <2>2, <3>1, EndsTypes
  <2> QED
    BY <1>6, <2>1, <2>2 DEF ReadAgain
<1>7. CASE Write
  <2>1. PICK n \in 1..Len(out) : written' = written \o SubSeq(out, 1, n) /\ out' = After(out, n)
    BY <1>7 DEF Write
  <2>2. UNCHANGED <<exchange, taken, lost, reader>> /\ UNCHANGED <<arrived, closed>>
    BY <1>7 DEF Write
  <2>3. out' \in Seq(Byte) /\ written' \in Seq(Byte)
    BY <2>1, WritesTypes
  <2>4. /\ arrived' \in arrived..Len(Sent) /\ closed' \in BOOLEAN /\ (closed => closed')
        /\ closed' => arrived' = Len(Sent)
    BY <2>2, TypesBefore
  <2> QED
    BY <2>2, <2>3, <2>4, OthersTypes
<1>8. CASE Wake \/ Flushed \/ Breaks
  <2>1. PICK what \in {"poll", "broken"} : Does(what)
    BY <1>8 DEF Wake, Flushed, Breaks
  <2>2. UNCHANGED <<exchange, arrived, closed, taken, lost, out, written>>
    BY <1>8 DEF Wake, Flushed, Breaks
  <2>3. what \in Doings /\ what # "again"
    BY DEF Doings
  <2> QED
    BY <2>1, <2>2, <2>3, GoesOnTypes
<1> QED
  BY <1>1, <1>2, <1>3, <1>4, <1>5, <1>6, <1>7, <1>8 DEF StreamsNext, Handler

\* Nothing but bytes is in a buffer, and the decoder of lines has not looked further than
\* the buffer reaches (StreamsTypeOK): with it, the counts of what the peer has
\* sent, the host has given and a dropped read has taken are in their order.
THEOREM StreamsTypes == StreamsSpec => []StreamsTypeOK
<1>1. StreamsInit => StreamsTypeInv
  BY StreamsTypesFirst
<1>2. StreamsTypeInv /\ [StreamsNext]_streamVars => StreamsTypeInv'
  <2>1. ASSUME StreamsTypeInv, UNCHANGED streamVars PROVE StreamsTypeInv'
    BY <2>1 DEF streamVars, StreamsTypeInv, StreamsTypeOK, Sent, Readable
  <2> QED
    BY <2>1, StreamsTypesStep
<1>3. StreamsTypeInv => StreamsTypeOK
  BY DEF StreamsTypeInv
<1> QED
  BY <1>1, <1>2, <1>3, PTL DEF StreamsSpec

-----------------------------------------------------------------------------
(* The bytes of a connection *)

\* The bytes that were not read.
LEMMA UnreadIs ==
    ASSUME StreamsTypeInv
    PROVE  /\ After(Sent, taken) \in Seq(Byte)
           /\ taken = Len(Sent) => After(Sent, taken) = <<>>
           /\ taken = 0 => After(Sent, taken) = Sent
<1>1. Sent \in Seq(Byte) /\ taken \in Nat /\ taken <= Len(Sent) /\ Len(Sent) \in Nat
  BY TypesBefore
<1>2. PICK s, t : s = Sent /\ t = After(s, taken)
  OBVIOUS
<1>3. SplitsAt(s, taken)
  BY <1>1, <1>2, SplitAt
<1>4. t \in Seq(Byte) /\ Len(t) = Len(s) - taken /\ s = SubSeq(s, 1, taken) \o t
  BY <1>2, <1>3 DEF SplitsAt
<1>5. ASSUME taken = Len(Sent) PROVE t = <<>>
  <2>1. Len(t) = 0
    BY <1>1, <1>2, <1>4, <1>5
  <2> QED
    BY <1>4, <2>1, NotEmpty
<1>6. ASSUME taken = 0 PROVE t = s
  <2>1. SubSeq(s, 1, Len(s)) = s
    BY <1>1, <1>2, SubSeqFull
  <2>2. 0 + 1 = 1
    OBVIOUS
  <2> QED
    BY <1>2, <1>6, <2>1, <2>2 DEF After
<1> QED
  BY <1>2, <1>4, <1>5, <1>6

LEMMA StreamsFlowsFirst ==
    ASSUME StreamsInit
    PROVE  FlowsAt(0) /\ 0 \in 0..Len(exchange.packets)
<1>1. StreamsTypeInv /\ IsOne(exchange)
  BY StreamsTypesFirst DEF StreamsTypeInv
<1>2. /\ ExchangeTypes(exchange) /\ Sent = Leading(exchange) \o Body(exchange)
      /\ Len(exchange.packets) \in Nat
  BY <1>1, SentIs DEF ExchangeTypes
<1>3. 0 \in 0..Len(exchange.packets)
  BY <1>2
<1>4. Upto(exchange, 0) = <<>> /\ Body(exchange) \in Seq(Byte)
  BY <1>2, <1>3, UptoIs
<1>5. /\ reader = [does |-> "poll", buffer |-> <<>>, from |-> 0, codec |-> NoSpec, eof |-> FALSE]
      /\ taken = 0 /\ items = <<>> /\ out = <<>> /\ written = <<>>
  BY DEF StreamsInit
<1>6. /\ reader.does = "poll" /\ reader.eof = FALSE /\ reader.buffer = <<>>
      /\ reader.from = 0 /\ reader.codec = NoSpec
  BY <1>5
<1>7. items = First(exchange.packets, 0)
  BY <1>5 DEF First
<1>8. written \o out = Upto(exchange, 0)
  BY <1>4, <1>5, ConcatEmptySeq, EmptySeq
<1>9. PICK t : t = reader.buffer \o After(Sent, taken)
  OBVIOUS
<1>10. t = Sent
  <2>1. After(Sent, taken) = Sent /\ Sent \in Seq(Byte)
    BY <1>1, <1>5, UnreadIs, TypesBefore
  <2> QED
    BY <1>6, <1>9, <2>1, ConcatEmptySeq
<1>11. Flows(exchange, 0, reader.codec, t)
  <2>1. CASE exchange.format = "cipher"
    BY <1>2, <1>6, <1>10, <2>1 DEF Flows
  <2>2. CASE exchange.format # "cipher"
    <3>1. Leading(exchange) = <<>>
      BY <2>2 DEF Leading
    <3>2. t = Body(exchange)
      BY <1>2, <1>4, <1>10, <3>1, ConcatEmptySeq
    <3>3. Leaves(exchange, 0, t)
      BY <1>4, <3>2, ConcatEmptySeq DEF Leaves
    <3> QED
      BY <1>6, <2>2, <3>3 DEF Flows
  <2> QED
    BY <2>1, <2>2
<1>12. Unended(reader.buffer, reader.from)
  BY <1>6 DEF Unended
<1> QED
  BY <1>3, <1>6, <1>7, <1>8, <1>9, <1>11, <1>12 DEF FlowsAt, Unfilled

\* A step that gives out no packet, and after which the reader goes on.
LEMMA FlowsKept ==
    ASSUME NEW n, FlowsAt(n), UNCHANGED <<exchange, items>>,
           written' \o out' = written \o out,
           Flows(exchange, n, reader'.codec, reader'.buffer \o After(Sent, taken')),
           IsCipher /\ (reader'.does \in Unfilled \/ reader'.eof) => reader'.buffer = <<>>,
           ~IsCipher => Unended(reader'.buffer, reader'.from),
           reader'.eof => taken' = Len(Sent),
           reader'.does \notin {"ended", "failed"}
    PROVE  FlowsAt(n)'
<1>1. Sent' = Sent /\ IsCipher' = IsCipher
  BY DEF Sent, IsCipher
<1>2. items = First(exchange.packets, n) /\ written \o out = Upto(exchange, n)
  BY DEF FlowsAt
<1>3. (items = First(exchange.packets, n))' /\ (written \o out = Upto(exchange, n))'
  BY <1>2
<1>4. Flows(exchange, n, reader.codec, reader.buffer \o After(Sent, taken))'
  BY <1>1
<1>5. (IsCipher /\ (reader.does \in Unfilled \/ reader.eof) => reader.buffer = <<>>)'
  BY <1>1
<1>6. (~IsCipher => Unended(reader.buffer, reader.from))'
  BY <1>1
<1>7. (reader.eof => taken = Len(Sent))'
  BY <1>1
<1>8. (reader.does # "ended" /\ reader.does # "failed")'
  OBVIOUS
<1> QED
  BY <1>3, <1>4, <1>5, <1>6, <1>7, <1>8 DEF FlowsAt

\* What the decoder makes of the buffer after n packets.
LEMMA OutcomeIs ==
    ASSUME StreamsTypeInv, NEW n \in 0..Len(exchange.packets), FlowsAt(n),
           NEW result \in Decoded
    PROVE  IF IsCipher THEN CipherOutcome(exchange, n, After(Sent, taken), result)
           ELSE PlainOutcome(exchange, n, reader.buffer, After(Sent, taken), result)
<1>1. PICK b, r, x, from, codec :
         /\ b = reader.buffer /\ r = After(Sent, taken) /\ x = exchange
         /\ from = reader.from /\ codec = reader.codec
  OBVIOUS
<1>2. IsExchange(x) /\ n \in 0..Len(x.packets)
  <2>1. IsOne(exchange)
    BY DEF StreamsTypeInv
  <2> QED
    BY <1>1, <2>1, SentIs
<1>3. b \in Seq(Byte) /\ r \in Seq(Byte) /\ codec \in Codec
  BY <1>1, TypesBefore, UnreadIs
<1>4. Flows(x, n, codec, b \o r)
  BY <1>1 DEF FlowsAt
<1>5. result = Decode(x.format, b, from, codec) /\ x.format \in Formats \cup {"cipher"}
  BY <1>1, DecodedIs, TypesBefore
<1>6. CASE x.format = "cipher"
  <2>1. result = Cipher(b, codec)
    BY <1>5, <1>6 DEF Decode
  <2>2. CipherOutcome(x, n, r, result)
    BY <1>2, <1>3, <1>4, <1>6, <2>1, CipherDecodes
  <2> QED
    BY <1>1, <1>6, <2>2 DEF IsCipher
<1>7. CASE x.format # "cipher"
  <2>1. Leaves(x, n, b \o r) /\ x.format \in Formats
    BY <1>4, <1>5, <1>7 DEF Flows
  <2>2. Unended(b, from)
    BY <1>1, <1>7 DEF FlowsAt, IsCipher
  <2>3. PlainOutcome(x, n, b, r, result)
    BY <1>2, <1>3, <1>5, <2>1, <2>2, PlainDecodes
  <2> QED
    BY <1>1, <1>7, <2>3 DEF IsCipher
<1> QED
  BY <1>6, <1>7

\* The items after one more.
LEMMA FlowStep ==
    ASSUME StreamsTypeInv, NEW n \in 0..Len(exchange.packets), n < Len(exchange.packets),
           FlowsAt(n), UNCHANGED exchange, NEW p, p = exchange.packets[n + 1],
           items' = Append(items, p)
    PROVE  n + 1 \in 0..Len(exchange.packets) /\ items' = First(exchange.packets, n + 1)
<1>1. PICK ps : ps = exchange.packets
  OBVIOUS
<1>2. Len(ps) \in Nat /\ n \in Nat
  <2>1. ExchangeTypes(exchange)
    BY SentIs DEF StreamsTypeInv
  <2> QED
    BY <1>1, <2>1 DEF ExchangeTypes
<1>3. n + 1 \in 0..Len(ps)
  BY <1>1, <1>2
<1>4. Append(First(ps, n), ps[n + 1]) = First(ps, n + 1)
  BY <1>2, FirstStep
<1>5. items = First(ps, n)
  BY <1>1 DEF FlowsAt
<1> QED
  BY <1>1, <1>3, <1>4, <1>5

\* The bytes sent on after those of one more packet.
LEMMA OneSent ==
    ASSUME StreamsTypeInv, NEW n \in 0..Len(exchange.packets), n < Len(exchange.packets),
           FlowsAt(n), NEW c, c = EncodeNth(exchange, n + 1), written' = written, out' = out \o c
    PROVE  written' \o out' = Upto(exchange, n + 1)
<1>1. ExchangeTypes(exchange)
  BY SentIs DEF StreamsTypeInv
<1>2. n + 1 \in 1..Len(exchange.packets)
  BY <1>1 DEF ExchangeTypes
<1>3. c \in Seq(Byte)
  BY <1>1, <1>2 DEF ExchangeTypes
<1>4. out \in Seq(Byte) /\ written \in Seq(Byte)
  BY TypesBefore
<1>5. (written \o out) \o c = written \o (out \o c)
  BY <1>3, <1>4, ByteAssociative
<1>6. Upto(exchange, n + 1) = Upto(exchange, n) \o c
  BY <1>1, UptoIs
<1>7. written \o out = Upto(exchange, n)
  BY DEF FlowsAt
<1> QED
  BY <1>5, <1>6, <1>7

\* What a reader that sends holds after n packets.
LEMMA SendsFlows ==
    ASSUME StreamsTypeInv, NEW n, UNCHANGED <<exchange, taken>>,
           items' = First(exchange.packets, n), written' \o out' = Upto(exchange, n),
           Flows(exchange, n, reader'.codec, reader'.buffer \o After(Sent, taken)),
           reader'.does = "sending", IsCipher => ~reader'.eof,
           ~IsCipher => Unended(reader'.buffer, reader'.from),
           reader'.eof => taken = Len(Sent)
    PROVE  FlowsAt(n)'
<1>1. Sent' = Sent /\ IsCipher' = IsCipher
  BY DEF Sent, IsCipher
<1>2. (items = First(exchange.packets, n))' /\ (written \o out = Upto(exchange, n))'
  OBVIOUS
<1>3. Flows(exchange, n, reader.codec, reader.buffer \o After(Sent, taken))'
  BY <1>1
<1>4. (IsCipher /\ (reader.does \in Unfilled \/ reader.eof) => reader.buffer = <<>>)'
  BY <1>1 DEF Unfilled
<1>5. (~IsCipher => Unended(reader.buffer, reader.from))'
  BY <1>1
<1>6. (reader.eof => taken = Len(Sent))'
  BY <1>1
<1>7. (reader.does # "ended" /\ reader.does # "failed")'
  OBVIOUS
<1> QED
  BY <1>2, <1>3, <1>4, <1>5, <1>6, <1>7 DEF FlowsAt

LEMMA GivesPlainFlows ==
    ASSUME StreamsTypeInv, NEW n \in 0..Len(exchange.packets), FlowsAt(n),
           NEW result \in Decoded, result.is = "packet", Gives(result), ~IsCipher,
           UNCHANGED <<exchange, taken, written>>
    PROVE  n + 1 \in 0..Len(exchange.packets) /\ FlowsAt(n + 1)'
<1>1. PICK x, r, F : x = exchange /\ r = After(Sent, taken) /\ F = exchange.format
  OBVIOUS
<1>2. Returns(exchange.format, reader.buffer, reader.codec, result)
  BY DecodedIs
<1>3. PlainOutcome(x, n, reader.buffer, r, result)
  BY <1>1, OutcomeIs
<1>4. PICK rest \in Seq(Byte) :
         /\ n < Len(x.packets) /\ result = Packet(x.packets[n + 1], rest)
         /\ Leaves(x, n + 1, rest \o r)
  BY <1>3 DEF PlainOutcome
<1>5. /\ result.packet = x.packets[n + 1] /\ result.rest = rest
  BY <1>4 DEF Packet
<1>6. /\ reader'.does = "sending" /\ reader'.buffer = rest
      /\ reader'.from = 0 /\ reader'.eof = reader.eof
      /\ reader'.codec = [reader.codec EXCEPT !.downstream = @ + 0]
  <2>1. CodecAfter(result) = reader.codec /\ (IF IsCipher THEN 1 ELSE 0) = 0
    BY DEF CodecAfter
  <2> QED
    BY <1>2, <1>5, <2>1, GivesTypes
<1>7. reader.codec = NoSpec
  BY DEF FlowsAt, Flows, IsCipher
<1>8. reader'.codec = NoSpec
  BY <1>6, <1>7 DEF NoSpec
<1>9. PICK c : c = Encode(F, x.packets[n + 1])
  OBVIOUS
<1>10. c = EncodeNth(exchange, n + 1)
  BY <1>1, <1>9 DEF EncodeNth, IsCipher
<1>11. out' = out \o c /\ items' = Append(items, x.packets[n + 1])
  BY <1>1, <1>5, <1>9 DEF Gives
<1>12. n + 1 \in 0..Len(exchange.packets) /\ items' = First(exchange.packets, n + 1)
  BY <1>1, <1>4, <1>11, FlowStep
<1>13. written' \o out' = Upto(exchange, n + 1)
  BY <1>1, <1>4, <1>10, <1>11, OneSent
<1>14. Flows(exchange, n + 1, reader'.codec, reader'.buffer \o After(Sent, taken))
  BY <1>1, <1>4, <1>6, <1>8 DEF Flows, IsCipher
<1>15. Unended(reader'.buffer, reader'.from)
  <2>1. Len(rest) \in Nat
    BY LenProperties
  <2> QED
    BY <1>6, <2>1 DEF Unended
<1>16. reader'.eof => taken = Len(Sent)
  BY <1>6 DEF FlowsAt
<1>17. FlowsAt(n + 1)'
  BY <1>6, <1>12, <1>13, <1>14, <1>15, <1>16, SendsFlows
<1> QED
  BY <1>12, <1>17

LEMMA GivesCipherFlows ==
    ASSUME StreamsTypeInv, NEW n \in 0..Len(exchange.packets), FlowsAt(n),
           NEW result \in Decoded, result.is = "packet", Gives(result), IsCipher, ~reader.eof,
           UNCHANGED <<exchange, taken, written>>
    PROVE  n + 1 \in 0..Len(exchange.packets) /\ FlowsAt(n + 1)'
<1>1. PICK x, r : x = exchange /\ r = After(Sent, taken)
  OBVIOUS
<1>2. Returns(exchange.format, reader.buffer, reader.codec, result)
  BY DecodedIs
<1>3. CipherOutcome(x, n, r, result)
  BY <1>1, OutcomeIs
<1>4. PICK rest \in Seq(Byte), codec \in Codec :
       /\ n < Len(x.packets)
       /\ result = [is |-> "packet", from |-> 0, rest |-> rest, packet |-> x.packets[n + 1],
                    codec |-> codec]
       /\ Decoding(x, n, codec) /\ Leaves(x, n + 1, rest \o r)
  BY <1>3 DEF CipherOutcome, GivesByte, Decoding
<1>5. result.packet = x.packets[n + 1] /\ result.rest = rest /\ result.codec = codec
  BY <1>4
<1>6. /\ reader'.does = "sending" /\ reader'.buffer = rest
      /\ reader'.from = 0 /\ reader'.eof = reader.eof
      /\ reader'.codec = [codec EXCEPT !.downstream = @ + 1]
  <2>1. CodecAfter(result) = codec /\ (IF IsCipher THEN 1 ELSE 0) = 1
    BY <1>5 DEF CodecAfter
  <2> QED
    BY <1>2, <1>5, <2>1, GivesTypes
<1>7. /\ codec \in Codec /\ codec.complete /\ ~codec.cut /\ codec.spec = x.spec
      /\ x.spec # <<>> /\ codec.upstream = n + 1 /\ codec.downstream = n
  BY <1>4 DEF Decoding
<1>8. PICK next : next = reader'.codec
  OBVIOUS
<1>9. /\ next.complete = codec.complete /\ next.cut = codec.cut /\ next.spec = codec.spec
      /\ next.upstream = codec.upstream /\ next.downstream = codec.downstream + 1
  BY <1>6, <1>7, <1>8 DEF Codec
<1>10. Keyed(x, n + 1, next)
  BY <1>7, <1>9 DEF Keyed
<1>11. PICK c : c = EncodeByte(codec.spec, codec.downstream, x.packets[n + 1][1])
  OBVIOUS
<1>12. <<c>> = EncodeNth(exchange, n + 1)
  <2>1. (n + 1) - 1 = n
    OBVIOUS
  <2> QED
    BY <1>1, <1>7, <1>11, <2>1 DEF EncodeNth, IsCipher
<1>13. out' = out \o <<c>> /\ items' = Append(items, x.packets[n + 1])
  <2>1. CodecAfter(result) = codec
    BY <1>5 DEF CodecAfter
  <2> QED
    BY <1>5, <1>11, <2>1 DEF Gives
<1>14. n + 1 \in 0..Len(exchange.packets) /\ items' = First(exchange.packets, n + 1)
  BY <1>1, <1>4, <1>13, FlowStep
<1>15. written' \o out' = Upto(exchange, n + 1)
  BY <1>1, <1>4, <1>12, <1>13, OneSent
<1>16. Flows(exchange, n + 1, reader'.codec, reader'.buffer \o After(Sent, taken))
  BY <1>1, <1>4, <1>6, <1>8, <1>10 DEF Flows, IsCipher
<1>17. FlowsAt(n + 1)'
  BY <1>6, <1>14, <1>15, <1>16, SendsFlows
<1> QED
  BY <1>14, <1>17

LEMMA WantingFlows ==
    ASSUME StreamsTypeInv, NEW n \in 0..Len(exchange.packets), FlowsAt(n), ~reader.eof,
           NEW result \in Decoded, result.is \in {"more", "spins"}, Wanting(result),
           ~reader'.codec.cut, UNCHANGED <<exchange, taken, items, out, written>>
    PROVE  FlowsAt(n)'
<1>1. PICK x, r : x = exchange /\ r = After(Sent, taken)
  OBVIOUS
<1>2. Returns(exchange.format, reader.buffer, reader.codec, result)
  BY DecodedIs
<1>3. /\ reader'.does = IF result.is = "more" THEN "read" ELSE "spins"
      /\ reader'.buffer = IF IsCipher /\ result.is = "more" THEN <<>> ELSE reader.buffer
      /\ reader'.from = result.from /\ reader'.codec = CodecAfter(result)
      /\ reader'.eof = reader.eof
  BY <1>2, WantingTypes
<1>4. reader'.does \notin {"ended", "failed"} /\ ~reader'.eof /\ written' \o out' = written \o out
  BY <1>3
<1>5. CASE IsCipher
  <2>1. CipherOutcome(x, n, r, result)
    BY <1>1, <1>5, OutcomeIs
  <2>2. reader'.codec = result.codec
    BY <1>3, <1>5 DEF CodecAfter
  <2>3. result.is = "more" /\ Flows(x, n, result.codec, r)
    <3>1. ~ GivesByte(x, n, r, result)
      BY DEF GivesByte
    <3> QED
      BY <2>1, <2>2, <3>1 DEF CipherOutcome
  <2>4. reader'.buffer = <<>>
    BY <1>3, <1>5, <2>3
  <2>5. reader'.buffer \o After(Sent, taken') = r
    BY <1>1, <2>4, UnreadIs, ConcatEmptySeq
  <2>6. Flows(exchange, n, reader'.codec, reader'.buffer \o After(Sent, taken'))
    BY <1>1, <2>2, <2>3, <2>5
  <2> QED
    BY <1>4, <1>5, <2>4, <2>6, FlowsKept
<1>6. CASE ~IsCipher
  <2>1. PlainOutcome(x, n, reader.buffer, r, result)
    BY <1>1, <1>6, OutcomeIs
  <2>2. result.is = "more"
    BY <1>2, <1>6 DEF Returns, IsCipher
  <2>3. Unended(reader.buffer, result.from)
    BY <2>1, <2>2 DEF PlainOutcome, Packet
  <2>4. reader'.buffer = reader.buffer /\ reader'.codec = reader.codec
    BY <1>3, <1>6 DEF CodecAfter
  <2>5. Flows(exchange, n, reader'.codec, reader'.buffer \o After(Sent, taken'))
    BY <2>4 DEF FlowsAt
  <2>6. Unended(reader'.buffer, reader'.from)
    BY <1>3, <2>3, <2>4
  <2> QED
    BY <1>4, <1>6, <2>5, <2>6, FlowsKept
<1> QED
  BY <1>5, <1>6

\* A stream ends or fails after its last packet only.
LEMMA OverFlows ==
    ASSUME StreamsTypeInv, NEW n, FlowsAt(n), NEW what \in {"ended", "failed"}, Does(what),
           n = Len(exchange.packets), what = "ended" => exchange.tail = <<>>,
           what = "failed" => exchange.tail # <<>> \/ exchange.format = "tokio",
           UNCHANGED <<exchange, taken, items, out, written>>
    PROVE  FlowsAt(n)'
<1>1. what \in Doings /\ what \notin Unfilled
  BY DEF Doings, Unfilled
<1>2. /\ reader'.does = what /\ reader'.buffer = reader.buffer /\ reader'.from = reader.from
      /\ reader'.codec = reader.codec /\ reader'.eof = reader.eof
  BY <1>1, TypesBefore, DoesKeeps DEF Does
<1>3. Sent' = Sent /\ IsCipher' = IsCipher
  BY DEF Sent, IsCipher
<1>4. items = First(exchange.packets, n) /\ written \o out = Upto(exchange, n)
  BY DEF FlowsAt
<1>5. (items = First(exchange.packets, n))' /\ (written \o out = Upto(exchange, n))'
  BY <1>4
<1>6. Flows(exchange, n, reader.codec, reader.buffer \o After(Sent, taken))'
  <2>1. Flows(exchange, n, reader.codec, reader.buffer \o After(Sent, taken))
    BY DEF FlowsAt
  <2> QED
    BY <1>2, <1>3, <2>1
<1>7. (IsCipher /\ (reader.does \in Unfilled \/ reader.eof) => reader.buffer = <<>>)'
  BY <1>1, <1>2, <1>3 DEF FlowsAt
<1>8. (~IsCipher => Unended(reader.buffer, reader.from))'
  BY <1>2, <1>3 DEF FlowsAt
<1>9. (reader.eof => taken = Len(Sent))'
  BY <1>2, <1>3 DEF FlowsAt
<1>10. /\ (reader.does = "ended" => n = Len(exchange.packets) /\ exchange.tail = <<>>)'
       /\ (reader.does = "failed" =>
              n = Len(exchange.packets) /\ (exchange.tail # <<>> \/ exchange.format = "tokio"))'
  BY <1>2
<1> QED
  BY <1>5, <1>6, <1>7, <1>8, <1>9, <1>10 DEF FlowsAt

LEMMA PollNextFlows ==
    ASSUME StreamsTypeInv, NEW n \in 0..Len(exchange.packets), FlowsAt(n), PollNext,
           ~reader'.codec.cut
    PROVE  \E m \in 0..Len(exchange.packets) : FlowsAt(m)'
<1>1. PICK result \in Decoded :
       \/ result.is = "packet" /\ Gives(result)
       \/ Wanting(result) /\ result.is \in {"more", "spins"} /\ UNCHANGED <<items, out>>
       \/ result.is = "bad" /\ Does("failed") /\ UNCHANGED <<items, out>>
  BY DEF PollNext, Wanting
<1>2. ~reader.eof /\ UNCHANGED <<exchange, taken, written>>
  BY DEF PollNext
<1>3. CASE result.is = "packet" /\ Gives(result)
  <2>1. n + 1 \in 0..Len(exchange.packets) /\ FlowsAt(n + 1)'
    BY <1>2, <1>3, GivesPlainFlows, GivesCipherFlows
  <2> QED
    BY <2>1
<1>4. CASE Wanting(result) /\ result.is \in {"more", "spins"} /\ UNCHANGED <<items, out>>
  BY <1>2, <1>4, WantingFlows
<1>5. CASE result.is = "bad" /\ Does("failed") /\ UNCHANGED <<items, out>>
  <2>1. n = Len(exchange.packets) /\ exchange.tail # <<>>
    <3>1. CASE IsCipher
      <4>1. CipherOutcome(exchange, n, After(Sent, taken), result)
        BY <3>1, OutcomeIs
      <4> QED
        BY <1>5, <4>1 DEF CipherOutcome, GivesByte
    <3>2. CASE ~IsCipher
      <4>1. PlainOutcome(exchange, n, reader.buffer, After(Sent, taken), result)
        BY <3>2, OutcomeIs
      <4> QED
        BY <1>5, <4>1 DEF PlainOutcome, Packet
    <3> QED
      BY <3>1, <3>2
  <2>2. FlowsAt(n)'
    BY <1>2, <1>5, <2>1, OverFlows
  <2> QED
    BY <2>2
<1> QED
  BY <1>1, <1>3, <1>4, <1>5

LEMMA HandleEofFlows ==
    ASSUME StreamsTypeInv, NEW n \in 0..Len(exchange.packets), FlowsAt(n), HandleEof
    PROVE  \E m \in 0..Len(exchange.packets) : FlowsAt(m)'
<1>1. PICK result \in Decoded :
       \/ /\ reader.buffer = <<>> /\ exchange.format # "tokio"
          /\ Does("ended") /\ UNCHANGED <<items, out>>
       \/ reader.buffer # <<>> /\ result.is = "packet" /\ Gives(result)
       \/ /\ reader.buffer # <<>> \/ exchange.format = "tokio"
          /\ result.is # "packet"
          /\ Does("failed") /\ UNCHANGED <<items, out>>
  BY DEF HandleEof
<1>2. reader.eof /\ UNCHANGED <<exchange, taken, written>>
  BY DEF HandleEof
<1>3. PICK b, x, r, codec : b = reader.buffer /\ x = exchange /\ r = After(Sent, taken)
                            /\ codec = reader.codec
  OBVIOUS
<1>4. r = <<>> /\ b \in Seq(Byte) /\ b \o r = b
  <2>1. taken = Len(Sent)
    BY <1>2 DEF FlowsAt
  <2>2. r = <<>> /\ b \in Seq(Byte)
    BY <1>3, <2>1, UnreadIs, TypesBefore
  <2> QED
    BY <2>2, ConcatEmptySeq
<1>5. Flows(x, n, codec, b)
  BY <1>3, <1>4 DEF FlowsAt
<1>6. IsCipher => b = <<>>
  BY <1>2, <1>3 DEF FlowsAt
<1>7. IsExchange(x) /\ ExchangeTypes(x)
  BY <1>3, SentIs DEF StreamsTypeInv
<1>8. CASE /\ reader.buffer = <<>> /\ exchange.format # "tokio"
           /\ Does("ended") /\ UNCHANGED <<items, out>>
  <2>1. n = Len(x.packets) /\ x.tail = <<>>
    <3>1. n \in 0..Len(x.packets) /\ Flows(x, n, codec, <<>>)
      BY <1>3, <1>5, <1>8
    <3> QED
      BY <1>7, <3>1, NothingLeft
  <2>2. FlowsAt(n)'
    BY <1>2, <1>3, <1>8, <2>1, OverFlows
  <2> QED
    BY <2>2
<1>9. CASE reader.buffer # <<>> /\ result.is = "packet" /\ Gives(result)
  <2>1. ~IsCipher
    BY <1>3, <1>6, <1>9
  <2>2. n + 1 \in 0..Len(exchange.packets) /\ FlowsAt(n + 1)'
    BY <1>2, <1>9, <2>1, GivesPlainFlows
  <2> QED
    BY <2>2
<1>10. CASE /\ reader.buffer # <<>> \/ exchange.format = "tokio"
            /\ result.is # "packet"
            /\ Does("failed") /\ UNCHANGED <<items, out>>
  <2>1. ~IsCipher
    BY <1>3, <1>6, <1>10 DEF IsCipher
  <2>2. PlainOutcome(x, n, b, r, result)
    BY <1>3, <2>1, OutcomeIs
  <2>3. \A p, rest : result # Packet(p, rest)
    BY <1>10 DEF Packet
  <2>4. n = Len(x.packets)
    <3>1. CASE result.is = "bad"
      BY <2>2, <2>3, <3>1 DEF PlainOutcome
    <3>2. CASE ~ (n < Len(x.packets))
      BY <1>3, <1>7, <3>2 DEF ExchangeTypes
    <3> QED
      BY <1>4, <2>2, <2>3, <3>1, <3>2 DEF PlainOutcome
  <2>5. x.tail # <<>> \/ x.format = "tokio"
    <3>1. CASE b # <<>>
      <4>1. Leaves(x, Len(x.packets), b)
        BY <1>3, <1>5, <2>1, <2>4 DEF Flows, IsCipher
      <4>2. b = x.tail
        BY <1>4, <1>7, <4>1, AllLeft
      <4> QED
        BY <3>1, <4>2
    <3>2. CASE b = <<>>
      BY <1>3, <1>10, <3>2
    <3> QED
      BY <3>1, <3>2
  <2>6. FlowsAt(n)'
    BY <1>2, <1>3, <1>10, <2>4, <2>5, OverFlows
  <2> QED
    BY <2>6
<1> QED
  BY <1>1, <1>8, <1>9, <1>10

\* What arrives after the part of a buffer that has no end of line.
LEMMA StillUnended ==
    ASSUME NEW b \in Seq(Byte), NEW s \in Seq(Byte), NEW from, Unended(b, from)
    PROVE  Unended(b \o s, from)
<1>1. PICK l \in Nat, m \in Nat : l = Len(b) /\ m = Len(s)
  BY LenProperties
<1>2. PICK c : c = b \o s
  OBVIOUS
<1>3. Len(c) = l + m /\ \A i \in 1..(l + m) : c[i] = IF i <= l THEN b[i] ELSE s[i - l]
  BY <1>1, <1>2, ConcatProperties
<1>4. from \in 0..l /\ \A i \in 1..from : b[i] # 10
  BY <1>1 DEF Unended
<1>5. from \in 0..(l + m)
  BY <1>4
<1>6. ASSUME NEW i \in 1..from PROVE c[i] # 10
  <2>1. i \in 1..(l + m) /\ i <= l
    BY <1>4
  <2>2. c[i] = b[i]
    BY <1>3, <2>1
  <2> QED
    BY <1>4, <2>2
<1> QED
  BY <1>2, <1>3, <1>5, <1>6 DEF Unended

LEMMA EndsFlows ==
    ASSUME StreamsTypeInv, NEW n, FlowsAt(n), reader.does \in Unfilled, EndsTheStream,
           taken = arrived, taken < arrived \/ closed,
           UNCHANGED <<exchange, arrived, closed, taken, lost, items, out, written>>
    PROVE  FlowsAt(n)'
<1>1. /\ reader'.does = "poll" /\ reader'.buffer = reader.buffer
      /\ reader'.from = reader.from /\ reader'.codec = reader.codec /\ reader'.eof = TRUE
  BY EndsTypes
<1>2. taken' = Len(Sent)
  BY TypesBefore
<1>3. written' \o out' = written \o out
  OBVIOUS
<1>4. Flows(exchange, n, reader'.codec, reader'.buffer \o After(Sent, taken'))
  BY <1>1 DEF FlowsAt
<1>5. IsCipher => reader'.buffer = <<>>
  BY <1>1 DEF FlowsAt
<1>6. ~IsCipher => Unended(reader'.buffer, reader'.from)
  BY <1>1 DEF FlowsAt
<1> QED
  BY <1>1, <1>2, <1>3, <1>4, <1>5, <1>6, FlowsKept

LEMMA BytesReadFlows ==
    ASSUME StreamsTypeInv, NEW m, FlowsAt(m), reader.does = "read",
           NEW n \in 1..(arrived - taken), Takes(n),
           reader' = [reader EXCEPT !.does = "poll",
                         !.buffer = @ \o SubSeq(Sent, taken + 1, taken + n)],
           UNCHANGED <<exchange, arrived, closed, lost, items, out, written>>
    PROVE  FlowsAt(m)'
<1>1. PICK piece, b, t, u : /\ piece = SubSeq(Sent, taken + 1, taken + n) /\ b = reader.buffer
                            /\ t = After(Sent, taken) /\ u = After(Sent, taken + n)
  OBVIOUS
<1>2. /\ reader'.does = "poll" /\ reader'.buffer = b \o piece
      /\ reader'.from = reader.from /\ reader'.codec = reader.codec
      /\ reader'.eof = reader.eof
  BY <1>1, BytesReadTypes
<1>3. /\ piece \in Seq(Byte) /\ u \in Seq(Byte) /\ t \in Seq(Byte) /\ t = piece \o u
      /\ b \in Seq(Byte)
  BY ZenonT(60), <1>1, TypesBefore, TakesTypes, Piece
<1>4. (b \o piece) \o u = b \o t
  BY <1>3, ByteAssociative
<1>5. taken' = taken + n
  BY DEF Takes
<1>6. Flows(exchange, m, reader'.codec, reader'.buffer \o After(Sent, taken'))
  <2>1. Flows(exchange, m, reader.codec, b \o t)
    BY <1>1 DEF FlowsAt
  <2> QED
    BY <1>1, <1>2, <1>4, <1>5, <2>1
<1>7. ~reader'.eof
  <2>1. taken < arrived /\ arrived <= Len(Sent) /\ taken \in Nat /\ Len(Sent) \in Nat /\ arrived \in Nat
    BY TypesBefore, TakesTypes
  <2>2. taken # Len(Sent)
    BY <2>1
  <2> QED
    BY <1>2, <2>2 DEF FlowsAt
<1>8. reader'.does \notin Unfilled
  BY <1>2 DEF Unfilled
<1>9. ~IsCipher => Unended(reader'.buffer, reader'.from)
  <2>1. ~IsCipher => Unended(b, reader.from)
    BY <1>1 DEF FlowsAt
  <2> QED
    BY <1>2, <1>3, <2>1, StillUnended
<1>10. written' \o out' = written \o out
  OBVIOUS
<1> QED
  BY <1>2, <1>6, <1>7, <1>8, <1>9, <1>10, FlowsKept

LEMMA GoesOnFlows ==
    ASSUME StreamsTypeInv, NEW n, FlowsAt(n), NEW what \in Doings \ {"ended", "failed"},
           Does(what), what \in Unfilled => reader.does \in Unfilled,
           UNCHANGED <<exchange, taken, items, out, written>>
    PROVE  FlowsAt(n)'
<1>1. /\ reader'.does = what /\ reader'.buffer = reader.buffer /\ reader'.from = reader.from
      /\ reader'.codec = reader.codec /\ reader'.eof = reader.eof
  BY TypesBefore, DoesKeeps DEF Does
<1>2. Flows(exchange, n, reader'.codec, reader'.buffer \o After(Sent, taken'))
  BY <1>1 DEF FlowsAt
<1>3. IsCipher /\ (reader'.does \in Unfilled \/ reader'.eof) => reader'.buffer = <<>>
  BY <1>1 DEF FlowsAt
<1>4. ~IsCipher => Unended(reader'.buffer, reader'.from)
  BY <1>1 DEF FlowsAt
<1>5. reader'.eof => taken' = Len(Sent)
  BY <1>1 DEF FlowsAt
<1>6. written' \o out' = written \o out /\ reader'.does \notin {"ended", "failed"}
  BY <1>1
<1> QED
  BY <1>2, <1>3, <1>4, <1>5, <1>6, FlowsKept

\* A step of others than the reader.
LEMMA OthersFlows ==
    ASSUME NEW n, FlowsAt(n), UNCHANGED <<exchange, taken, reader, items>>,
           written' \o out' = written \o out
    PROVE  FlowsAt(n)'
<1>1. Sent' = Sent /\ IsCipher' = IsCipher
  BY DEF Sent, IsCipher
<1>2. Flows(exchange, n, reader.codec, reader.buffer \o After(Sent, taken))'
  <2>1. Flows(exchange, n, reader.codec, reader.buffer \o After(Sent, taken))
    BY DEF FlowsAt
  <2> QED
    BY <1>1, <2>1
<1>3. items = First(exchange.packets, n) /\ written \o out = Upto(exchange, n)
  BY DEF FlowsAt
<1>4. (items = First(exchange.packets, n))' /\ (written \o out = Upto(exchange, n))'
  BY <1>3
<1>5. (IsCipher /\ (reader.does \in Unfilled \/ reader.eof) => reader.buffer = <<>>)'
  BY <1>1 DEF FlowsAt
<1>6. (~IsCipher => Unended(reader.buffer, reader.from))'
  BY <1>1 DEF FlowsAt
<1>7. (reader.eof => taken = Len(Sent))'
  BY <1>1 DEF FlowsAt
<1>8. /\ (reader.does = "ended" => n = Len(exchange.packets) /\ exchange.tail = <<>>)'
      /\ (reader.does = "failed" =>
             n = Len(exchange.packets) /\ (exchange.tail # <<>> \/ exchange.format = "tokio"))'
  BY DEF FlowsAt
<1> QED
  BY <1>2, <1>4, <1>5, <1>6, <1>7, <1>8 DEF FlowsAt

\* What was lost or cut stays so.
LEMMA StaysUndisturbed ==
    ASSUME StreamsTypeInv, StreamsNext, Undisturbed'
    PROVE  Undisturbed
<1>1. lost' = 0 /\ ~reader'.codec.cut
  BY DEF Undisturbed
<1>2. lost = 0
  <2>1. CASE ReadAgain
    <3>1. CASE \E n \in 1..(arrived - taken) : lost' = lost + n
      BY <1>1, <3>1, TypesBefore
    <3>2. CASE UNCHANGED lost
      BY <1>1, <3>2
    <3> QED
      BY <2>1, <3>1, <3>2 DEF ReadAgain
  <2>2. CASE ~ReadAgain
    <3>1. UNCHANGED lost
      BY <2>2 DEF StreamsNext, Handler, BytesArrive, PeerCloses, PollNext, HandleEof, Read,
                  Subscribe, Wake, Write, Flushed, Breaks
    <3> QED
      BY <1>1, <3>1
  <2> QED
    BY <2>1, <2>2
<1>3. ~reader.codec.cut
  <2>1. ASSUME NEW result \in Decoded, result.is = "packet", Gives(result)
        PROVE  ~reader.codec.cut
    <3>1. Returns(exchange.format, reader.buffer, reader.codec, result)
      BY DecodedIs
    <3>2. PICK next : next = CodecAfter(result)
      OBVIOUS
    <3>3. reader'.codec = [next EXCEPT !.downstream = @ + (IF IsCipher THEN 1 ELSE 0)]
          /\ next \in Codec
      BY <2>1, <3>1, <3>2, GivesTypes
    <3>4. reader'.codec.cut = next.cut
      BY <3>3 DEF Codec
    <3>5. reader.codec.cut => next.cut
      BY <3>1, <3>2 DEF Returns, CodecAfter, IsCipher
    <3> QED
      BY <1>1, <3>4, <3>5
  <2>2. ASSUME NEW result \in Decoded, Wanting(result) PROVE ~reader.codec.cut
    <3>1. Returns(exchange.format, reader.buffer, reader.codec, result)
      BY DecodedIs
    <3>2. reader'.codec = CodecAfter(result)
      BY <2>2, <3>1, WantingTypes
    <3>3. reader.codec.cut => CodecAfter(result).cut
      BY <3>1 DEF Returns, CodecAfter, IsCipher
    <3> QED
      BY <1>1, <3>2, <3>3
  <2>3. ASSUME NEW what, Does(what) PROVE ~reader.codec.cut
    BY <1>1, <2>3, TypesBefore DEF Does, Reader
  <2>4. CASE UNCHANGED reader
    BY <1>1, <2>4
  <2>5. CASE PollNext \/ HandleEof
    <3>1. PICK result \in Decoded :
            \/ result.is = "packet" /\ Gives(result)
            \/ Wanting(result)
            \/ \E what \in {"ended", "failed"} : Does(what)
      BY <2>5 DEF PollNext, HandleEof, Wanting
    <3> QED
      BY <2>1, <2>2, <2>3, <3>1
  <2>6. CASE Read
    <3>1. ASSUME NEW n, reader' = [reader EXCEPT !.does = "poll",
                                      !.buffer = @ \o SubSeq(Sent, taken + 1, taken + n)]
          PROVE  ~reader.codec.cut
      <4>1. PICK buffer : buffer = reader.buffer \o SubSeq(Sent, taken + 1, taken + n)
        OBVIOUS
      <4>2. reader' = [reader EXCEPT !.does = "poll", !.buffer = buffer]
        BY <3>1, <4>1
      <4> QED
        BY <1>1, <4>2, TypesBefore DEF Reader
    <3>2. CASE EndsTheStream
      BY <1>1, <3>2, TypesBefore DEF EndsTheStream, Reader
    <3> QED
      BY <2>3, <2>6, <3>1, <3>2 DEF Read
  <2>7. CASE ReadAgain
    <3>1. CASE EndsTheStream
      BY <1>1, <3>1, TypesBefore DEF EndsTheStream, Reader
    <3> QED
      BY <2>3, <2>7, <3>1 DEF ReadAgain
  <2>8. CASE Subscribe \/ Wake \/ Flushed \/ Breaks
    BY <2>3, <2>8 DEF Subscribe, Wake, Flushed, Breaks
  <2>9. CASE BytesArrive \/ PeerCloses \/ Write
    BY <2>4, <2>9 DEF BytesArrive, PeerCloses, Write
  <2> QED
    BY <2>5, <2>6, <2>7, <2>8, <2>9 DEF StreamsNext, Handler
<1> QED
  BY <1>2, <1>3 DEF Undisturbed

LEMMA StreamsFlowsStep ==
    ASSUME StreamsTypeInv, NEW n \in 0..Len(exchange.packets), FlowsAt(n), StreamsNext,
           Undisturbed', Undisturbed
    PROVE  \E m \in 0..Len(exchange.packets) : FlowsAt(m)'
<1>1. CASE BytesArrive \/ PeerCloses
  BY <1>1, OthersFlows DEF BytesArrive, PeerCloses
<1>2. CASE PollNext
  BY <1>2, PollNextFlows DEF Undisturbed
<1>3. CASE HandleEof
  BY <1>3, HandleEofFlows
<1>4. CASE Read
  <2>1. UNCHANGED <<exchange, arrived, closed, lost, items, out, written>> /\ reader.does = "read"
    BY <1>4 DEF Read
  <2>2. CASE \E k \in 1..(arrived - taken) :
                /\ Takes(k)
                /\ reader' = [reader EXCEPT !.does = "poll",
                                 !.buffer = @ \o SubSeq(Sent, taken + 1, taken + k)]
    BY <2>1, <2>2, BytesReadFlows
  <2>3. CASE Readable /\ taken = arrived /\ EndsTheStream /\ UNCHANGED taken
    <3>1. reader.does \in Unfilled /\ (taken < arrived \/ closed)
      BY <2>1, <2>3 DEF Unfilled, Readable
    <3> QED
      BY <2>1, <2>3, <3>1, EndsFlows
  <2>4. CASE \E what \in {"waiting", "subscribe"} : Does(what) /\ UNCHANGED taken
    <3>1. PICK what \in {"waiting", "subscribe"} : Does(what) /\ UNCHANGED taken
      BY <2>4
    <3>2. what \in Doings \ {"ended", "failed"} /\ reader.does \in Unfilled
      BY <2>1 DEF Doings, Unfilled
    <3> QED
      BY <2>1, <3>1, <3>2, GoesOnFlows
  <2> QED
    BY <1>4, <2>2, <2>3, <2>4 DEF Read
<1>5. CASE Subscribe
  <2>1. PICK what \in {"again", "waiting"} : Does(what)
    BY <1>5 DEF Subscribe
  <2>2. what \in Doings \ {"ended", "failed"} /\ reader.does \in Unfilled
    BY <1>5 DEF Subscribe, Doings, Unfilled
  <2>3. UNCHANGED <<exchange, taken, items, out, written>>
    BY <1>5 DEF Subscribe
  <2> QED
    BY <2>1, <2>2, <2>3, GoesOnFlows
<1>6. CASE ReadAgain
  <2>1. ~ \E k \in 1..(arrived - taken) : lost' = lost + k
    BY TypesBefore DEF Undisturbed
  <2>2. taken = arrived /\ EndsTheStream /\ UNCHANGED <<taken, lost>>
    BY <1>6, <2>1 DEF ReadAgain
  <2>3. reader.does \in Unfilled /\ (taken < arrived \/ closed)
    BY <1>6, TypesBefore DEF ReadAgain, Unfilled
  <2>4. UNCHANGED <<exchange, arrived, closed, items, out, written>>
    BY <1>6 DEF ReadAgain
  <2> QED
    BY <2>2, <2>3, <2>4, EndsFlows
<1>7. CASE Write
  <2>1. PICK k \in 1..Len(out) : written' = written \o SubSeq(out, 1, k) /\ out' = After(out, k)
    BY <1>7 DEF Write
  <2>2. UNCHANGED <<exchange, taken, reader, items>>
    BY <1>7 DEF Write
  <2>3. PICK s, t : s = SubSeq(out, 1, k) /\ t = After(out, k)
    OBVIOUS
  <2>4. s \in Seq(Byte) /\ t \in Seq(Byte) /\ out = s \o t /\ written \in Seq(Byte)
    BY <2>3, WritesTypes, TypesBefore
  <2>5. (written \o s) \o t = written \o (s \o t)
    BY <2>4, ByteAssociative
  <2>6. written' \o out' = written \o out
    BY <2>1, <2>3, <2>4, <2>5
  <2> QED
    BY <2>2, <2>6, OthersFlows
<1>8. CASE Wake \/ Flushed \/ Breaks
  <2>1. PICK what \in {"poll", "broken"} : Does(what)
    BY <1>8 DEF Wake, Flushed, Breaks
  <2>2. UNCHANGED <<exchange, taken, items, out, written>>
    BY <1>8 DEF Wake, Flushed, Breaks
  <2>3. what \in Doings \ {"ended", "failed"} /\ what \notin Unfilled
    BY DEF Doings, Unfilled
  <2> QED
    BY <2>1, <2>2, <2>3, GoesOnFlows
<1> QED
  BY <1>1, <1>2, <1>3, <1>4, <1>5, <1>6, <1>7, <1>8 DEF StreamsNext, Handler

-----------------------------------------------------------------------------
(* The theorems about Streams *)

\* The first packets of an exchange are a prefix of them.
LEMMA FirstIsPrefix ==
    ASSUME NEW p, p \in Seq({p[i] : i \in 1..Len(p)}), NEW n \in 0..Len(p)
    PROVE  IsPrefix(First(p, n), p) /\ (n = Len(p) => First(p, n) = p)
<1>1. PICK m \in Nat : m = Len(p)
  BY LenProperties
<1>2. n \in Nat /\ n <= m
  BY <1>1
<1>3. PICK f : f = First(p, n)
  OBVIOUS
<1>4. Len(f) = n /\ f \in Seq({p[i] : i \in 1..(n + 1)})
  BY <1>2, <1>3, FirstStep
<1>5. SubSeq(f, 1, Len(f)) = f
  BY <1>4, SubSeqFull
<1>6. SubSeq(p, 1, n) = f
  BY <1>1, <1>2, <1>3 DEF First
<1>7. n = Len(p) => f = p
  BY <1>1, <1>3 DEF First
<1> QED
  BY <1>1, <1>2, <1>3, <1>4, <1>5, <1>6, <1>7 DEF IsPrefix

LEMMA StreamsInvFirst == StreamsInit => StreamsInv
  BY StreamsTypesFirst, StreamsFlowsFirst DEF StreamsInv

LEMMA StreamsInvStep == StreamsInv /\ [StreamsNext]_streamVars => StreamsInv'
<1>1. ASSUME StreamsInv, StreamsNext PROVE StreamsInv'
  <2>1. StreamsTypeInv /\ StreamsTypeInv'
    BY <1>1, StreamsTypesStep DEF StreamsInv
  <2>2. ASSUME Undisturbed'
        PROVE  (\E n \in 0..Len(exchange.packets) : FlowsAt(n))'
    <3>1. Undisturbed
      BY <1>1, <2>1, <2>2, StaysUndisturbed
    <3>2. PICK n \in 0..Len(exchange.packets) : FlowsAt(n)
      BY <1>1, <3>1 DEF StreamsInv
    <3>3. PICK m \in 0..Len(exchange.packets) : FlowsAt(m)'
      BY <1>1, <2>1, <2>2, <3>1, <3>2, StreamsFlowsStep
    <3>4. UNCHANGED exchange
      BY <1>1 DEF StreamsNext, Handler, BytesArrive, PeerCloses, PollNext, HandleEof, Read,
                  Subscribe, ReadAgain, Wake, Write, Flushed, Breaks
    <3> QED
      BY <3>3, <3>4
  <2> QED
    BY <2>1, <2>2 DEF StreamsInv
<1>2. ASSUME StreamsInv, UNCHANGED streamVars PROVE StreamsInv'
  <2>1. StreamsTypeInv'
    BY <1>2 DEF StreamsInv, streamVars, StreamsTypeInv, StreamsTypeOK, Sent, Readable
  <2>2. Undisturbed' => Undisturbed
    BY <1>2 DEF streamVars, Undisturbed
  <2>3. ASSUME NEW n, FlowsAt(n) PROVE FlowsAt(n)'
    BY <1>2, <2>3, OthersFlows DEF streamVars
  <2>4. UNCHANGED exchange
    BY <1>2 DEF streamVars
  <2>5. Undisturbed' => (\E n \in 0..Len(exchange.packets) : FlowsAt(n))'
    <3>1. SUFFICES ASSUME Undisturbed'
                   PROVE  (\E n \in 0..Len(exchange.packets) : FlowsAt(n))'
      OBVIOUS
    <3>2. PICK n \in 0..Len(exchange.packets) : FlowsAt(n)
      BY <1>2, <2>2, <3>1 DEF StreamsInv
    <3> QED
      BY <2>3, <2>4, <3>2
  <2> QED
    BY <2>1, <2>5 DEF StreamsInv
<1> QED
  BY <1>1, <1>2

\* However what a peer sends is cut into pieces, and whatever part of its answers the host
\* takes at once, the handler is after some number of the peer's packets: it gave out these
\* and sent on their bytes, and what is in the buffer and not yet read is what follows them.
THEOREM StreamsFlow == StreamsSpec => []StreamsInv
  BY StreamsInvFirst, StreamsInvStep, PTL DEF StreamsSpec

\* FramedRead gives out the packets of the peer in their order, whatever pieces come.
THEOREM ItemsAreInOrder == StreamsSpec => []ItemsInOrder
<1>1. StreamsInv => ItemsInOrder
  <2> SUFFICES ASSUME StreamsInv, Undisturbed PROVE IsPrefix(items, exchange.packets)
    BY DEF ItemsInOrder
  <2>1. PICK n \in 0..Len(exchange.packets) : FlowsAt(n)
    BY DEF StreamsInv
  <2>2. PICK p : p = exchange.packets
    OBVIOUS
  <2>3. p \in Seq({p[i] : i \in 1..Len(p)}) /\ n \in 0..Len(p)
    BY <2>2, SentIs DEF StreamsInv, StreamsTypeInv, IsExchange
  <2>4. items = First(p, n)
    BY <2>1, <2>2 DEF FlowsAt
  <2> QED
    BY <2>2, <2>3, <2>4, FirstIsPrefix
<1> QED
  BY <1>1, StreamsFlow, PTL

\* The handler of a connection ends after the last packet of its peer and without an error
\* if nothing follows, and fails only at what follows and is none (or, in the port for tokio,
\* at the end of the stream).
THEOREM StreamsEnd == StreamsSpec => []EndsAtTheEnd
<1>1. StreamsInv => EndsAtTheEnd
  <2> SUFFICES ASSUME StreamsInv, Undisturbed
               PROVE  /\ reader.does = "ended" => items = exchange.packets /\ exchange.tail = <<>>
                      /\ reader.does = "failed" =>
                            /\ items = exchange.packets
                            /\ exchange.tail # <<>> \/ exchange.format = "tokio"
    BY DEF EndsAtTheEnd
  <2>1. PICK n \in 0..Len(exchange.packets) : FlowsAt(n)
    BY DEF StreamsInv
  <2>2. PICK p : p = exchange.packets
    OBVIOUS
  <2>3. p \in Seq({p[i] : i \in 1..Len(p)}) /\ n \in 0..Len(p)
    BY <2>2, SentIs DEF StreamsInv, StreamsTypeInv, IsExchange
  <2>4. items = First(p, n)
    BY <2>1, <2>2 DEF FlowsAt
  <2>5. n = Len(exchange.packets) => items = exchange.packets
    BY SMTT(40), <2>2, <2>3, <2>4, FirstIsPrefix
  <2> QED
    BY <2>1, <2>5 DEF FlowsAt
<1> QED
  BY <1>1, StreamsFlow, PTL

\* No byte of a packet is lost, doubled or changed on its way through the decoder, the
\* encoder and the buffers of a connection, each byte of a cipher coming back as it came.
THEOREM StreamsKeepBytes == StreamsSpec => []BytesAreKept
<1>1. StreamsInv => BytesAreKept
  <2> SUFFICES ASSUME StreamsInv, Undisturbed
               PROVE  (IF reader.codec.complete THEN SpecBytes(exchange.spec) ELSE <<>>)
                         \o written \o out \o reader.buffer \o After(Sent, taken) = Sent
    BY DEF BytesAreKept
  <2>1. PICK n \in 0..Len(exchange.packets) : FlowsAt(n)
    BY DEF StreamsInv
  <2>2. StreamsTypeInv /\ IsOne(exchange)
    BY DEF StreamsInv, StreamsTypeInv
  <2>3. PICK x, k, w, o, b, r, U, B, L :
           /\ x = exchange
           /\ k = IF reader.codec.complete THEN SpecBytes(exchange.spec) ELSE <<>>
           /\ w = written /\ o = out /\ b = reader.buffer /\ r = After(Sent, taken)
           /\ U = Upto(x, n) /\ B = Body(x) /\ L = Leading(x)
    OBVIOUS
  <2>4. /\ w \in Seq(Byte) /\ o \in Seq(Byte) /\ b \in Seq(Byte) /\ r \in Seq(Byte)
        /\ ExchangeTypes(x) /\ Sent = L \o B
    BY <2>2, <2>3, TypesBefore, UnreadIs, SentIs
  <2>5. L \in Seq(Byte) /\ B \in Seq(Byte) /\ U \in Seq(Byte)
    <3>1. L \in Seq(Byte)
      BY <2>3, <2>4 DEF ExchangeTypes
    <3>2. n \in 0..Len(x.packets)
      BY <2>3
    <3> QED
      BY <2>3, <2>4, <3>1, <3>2, UptoIs
  <2>6. w \o o = U /\ Flows(x, n, reader.codec, b \o r)
    BY <2>1, <2>3 DEF FlowsAt
  <2>7. b \o r \in Seq(Byte)
    BY SMTT(40), <2>4, Lengths
  <2>8. k \in Seq(Byte) /\ k \o (U \o (b \o r)) = L \o B
    <3>1. CASE x.format # "cipher" /\ reader.codec = NoSpec /\ Leaves(x, n, b \o r)
      <4>1. L = <<>> /\ k = <<>>
        BY <2>3, <3>1 DEF Leading, NoSpec
      <4>2. U \o (b \o r) = B
        BY <2>3, <3>1 DEF Leaves
      <4> QED
        BY <4>1, <4>2, EmptySeq
    <3>2. CASE x.format = "cipher" /\ Keyed(x, n, reader.codec) /\ Leaves(x, n, b \o r)
      <4>1. L = k
        BY <2>3, <3>2 DEF Leading, Keyed
      <4>2. U \o (b \o r) = B
        BY <2>3, <3>2 DEF Leaves
      <4> QED
        BY <2>5, <4>1, <4>2
    <3>3. CASE n = 0 /\ reader.codec = NoSpec /\ b \o r = L \o B
      <4>1. k = <<>>
        BY <2>3, <3>3 DEF NoSpec
      <4>2. U = <<>>
        <5>1. 0 \in 0..Len(x.packets)
          BY <2>3, <3>3
        <5> QED
          BY <2>3, <2>4, <3>3, <5>1, UptoIs
      <4>3. <<>> \o (b \o r) = b \o r /\ <<>> \in Seq(Byte)
        BY <2>7, ConcatEmptySeq, EmptySeq
      <4>4. <<>> \o (<<>> \o (b \o r)) = b \o r
        BY <2>7, <4>3
      <4> QED
        BY <3>3, <4>1, <4>2, <4>3, <4>4
    <3> QED
      BY <2>3, <2>6, <3>1, <3>2, <3>3 DEF Flows
  <2>9. (((k \o w) \o o) \o b) \o r = k \o ((w \o o) \o (b \o r))
    <3>1. k \o w \in Seq(Byte) /\ w \o o \in Seq(Byte) /\ k \in Seq(Byte)
      BY <2>4, <2>8, Lengths
    <3>2. (k \o w) \o o = k \o (w \o o)
      BY <2>4, <2>8, ByteAssociative
    <3>3. (k \o w) \o o \in Seq(Byte)
      BY <2>4, <3>1, Lengths
    <3>4. (((k \o w) \o o) \o b) \o r = ((k \o w) \o o) \o (b \o r)
      BY <2>4, <3>3, ByteAssociative
    <3>5. (k \o (w \o o)) \o (b \o r) = k \o ((w \o o) \o (b \o r))
      BY <2>7, <3>1, ByteAssociative
    <3> QED
      BY <3>2, <3>4, <3>5
  <2> QED
    BY <2>3, <2>4, <2>6, <2>8, <2>9
<1> QED
  BY <1>1, StreamsFlow, PTL

=============================================================================
