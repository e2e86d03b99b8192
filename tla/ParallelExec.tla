---------------------------- MODULE ParallelExec ----------------------------
(***************************************************************************)
(* parallel_exec and parallel_exec_noexcept of cuckoohash_map.hpp: a       *)
(* function is run on every index of a range by the calling thread and by  *)
(* max_num_worker_threads extra threads, which are joined before the call  *)
(* returns.  What the function does to an index is left to the module that *)
(* extends this one: a step of it goes with every step of a worker here.   *)
(***************************************************************************)
EXTENDS Integers, FiniteSets

CONSTANT MaxExtra  \* the largest number of extra threads

ASSUME ExtraAssumption == MaxExtra \in Nat

VARIABLES
    stage,    \* "idle", "spawn" while threads are created, "join" after that
    extra,    \* num_extra_threads, read once per call
    start,    \* the first index not handed out
    end,      \* the end of the range; the range begins at 0
    share,    \* work_per_thread
    spawned,  \* how many workers have their range, the caller being the last
    joined,   \* how many extra threads have been joined
    from,     \* the range of each worker: where it begins,
    next,     \* the index it is at,
    to,       \* and where it ends
    failed,   \* the workers that caught an exception: their eptr is set
    handled   \* ghost: the indexes the function has been run on

execVars == <<stage, extra, start, end, share, spawned, joined, from, next, to, failed,
              handled>>

Workers == 1..MaxExtra + 1
Caller == extra + 1

ExecInit ==
    /\ stage = "idle" /\ extra = 0 /\ start = 0 /\ end = 0 /\ share = 0
    /\ spawned = 0 /\ joined = 0
    /\ from = [w \in Workers |-> 0] /\ next = from /\ to = from
    /\ failed = {} /\ handled = {}

\* A worker runs from its creation until its range is done or it has thrown.
Running(w) == w <= spawned /\ w \notin failed /\ next[w] < to[w]
HasFinished(w) == w <= spawned /\ ~Running(w)

-----------------------------------------------------------------------------
\* work_per_thread of a range of n indexes.
WorkPerThread(n, extras) == n \div (extras + 1)

\* The number of workers is read and the range is divided.
StartExec(n) ==
    /\ stage = "idle"
    /\ stage' = "spawn"
    /\ extra' \in 0..MaxExtra
    /\ start' = 0 /\ end' = n
    /\ share' = WorkPerThread(n, extra')
    /\ spawned' = 0 /\ joined' = 0
    /\ from' = [w \in Workers |-> 0] /\ next' = from' /\ to' = from'
    /\ failed' = {} /\ handled' = {}

\* Mutant: start is not moved past the share of a thread.
HandOutInPlace(w, upto) ==
    /\ spawned' = w
    /\ from' = [from EXCEPT ![w] = start]
    /\ next' = [next EXCEPT ![w] = start]
    /\ to' = [to EXCEPT ![w] = upto]
    /\ UNCHANGED start

\* Worker w gets the range from start to upto.
HandOut(w, upto) ==
    /\ spawned' = w
    /\ from' = [from EXCEPT ![w] = start]
    /\ next' = [next EXCEPT ![w] = start]
    /\ to' = [to EXCEPT ![w] = upto]
    /\ start' = upto

\* The next extra thread is created with its share; it may run at once.
Spawn ==
    /\ stage = "spawn" /\ spawned < extra
    /\ HandOut(spawned + 1, start + share)
    /\ UNCHANGED <<stage, extra, end, share, joined, failed, handled>>

\* The caller takes what is left.
OwnRange ==
    /\ stage = "spawn" /\ spawned = extra
    /\ HandOut(Caller, end)
    /\ stage' = "join"
    /\ UNCHANGED <<extra, end, share, joined, failed, handled>>

\* The function is run on the next index of worker w.
HandleIndex(w) ==
    /\ Running(w)
    /\ next' = [next EXCEPT ![w] = @ + 1]
    /\ handled' = handled \cup {next[w]}
    /\ UNCHANGED <<stage, extra, start, end, share, spawned, joined, from, to, failed>>

\* The function throws: the worker stores the exception and leaves its range.
Throw(w) ==
    /\ Running(w)
    /\ failed' = failed \cup {w}
    /\ UNCHANGED <<stage, extra, start, end, share, spawned, joined, from, next, to, handled>>

\* The caller is done with its own range and joins the threads in order.
Join ==
    /\ stage = "join" /\ HasFinished(Caller) /\ joined < extra
    /\ HasFinished(joined + 1)
    /\ joined' = joined + 1
    /\ UNCHANGED <<stage, extra, start, end, share, spawned, from, next, to, failed, handled>>

\* The call may return: the caller's range is done and the threads are joined.
AllJoined == stage = "join" /\ HasFinished(Caller) /\ joined = extra

\* The call returns, its local variables are gone; with failed # {} it throws
\* the exception of the first of them.
Return ==
    /\ AllJoined
    /\ stage' = "idle" /\ extra' = 0 /\ start' = 0 /\ end' = 0 /\ share' = 0
    /\ spawned' = 0 /\ joined' = 0
    /\ from' = [w \in Workers |-> 0] /\ next' = from' /\ to' = from'
    /\ failed' = {} /\ handled' = {}

ExecNext ==
    \/ \E n \in Nat : StartExec(n)
    \/ Spawn \/ OwnRange \/ Join \/ Return
    \/ \E w \in Workers : HandleIndex(w) \/ Throw(w)

ExecSpec == ExecInit /\ [][ExecNext]_execVars

-----------------------------------------------------------------------------
\* No index is handled twice, and when the call returns no thread is left
\* running and, unless one has thrown, every index has been handled, however
\* the range divides by the number of workers (1922-1964).
EveryIndexOnce ==
    /\ \A w \in Workers : Running(w) => next[w] \notin handled
    /\ AllJoined => \A w \in Workers : ~Running(w)
    /\ AllJoined /\ failed = {} => handled = 0..end - 1

=============================================================================
