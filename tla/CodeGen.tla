------------------------------- MODULE CodeGen -------------------------------
(***************************************************************************)
(* Code generation in GolangWorkspaceBuildPlan.prepare (beagle/plan/       *)
(* golang.py): inside "with new_threadpool() as executor", go_generate is  *)
(* called for each workspace module in turn.  go_generate greps the module *)
(* for go:generate, lists its packages with go list, submits one           *)
(* "go generate" task per package that needs it, and walks as_completed,   *)
(* calling result() on each future: the first failure in completion order *)
(* is raised.  Leaving the with block shuts the pool down and waits for   *)
(* every submitted task.                                                  *)
(*                                                                         *)
(* new_threadpool and as_completed come from beagle.subprocess, whose     *)
(* package file is not in the tree; they are modelled as                  *)
(* concurrent.futures' ThreadPoolExecutor (FIFO work queue, at most        *)
(* Workers threads, shutdown(wait=True) on exit) and as_completed.        *)
(*                                                                         *)
(* Every task's run_logged opens the plan's one log file with mode "a" and *)
(* its _tee thread writes the child's lines to that writer.  A writer      *)
(* buffers; a flush appends the buffered lines at the end of the file      *)
(* (O_APPEND), and leaving run_logged's with block, on return or on        *)
(* CommandException, closes the writer and flushes the rest.  When a flush *)
(* happens depends on the lengths of the lines, so it is a free choice     *)
(* after each write.                                                      *)
(***************************************************************************)
EXTENDS Naturals, Sequences, FiniteSets, SequencesExt

CONSTANTS
    Roots,      \* the workspace modules, in go.work order
    Packages,   \* Packages[r]: the packages go list finds under module r
    Workers,    \* the pool's thread count
    None,       \* no error
    ListError,  \* go list (or decoding its output) raised in go_generate
    MaxLines    \* the most lines one go generate child writes

ASSUME Workers \in Nat \ {0}

\* One generation task per package.
AllTasks == UNION {Packages[Roots[k]] : k \in DOMAIN Roots}

VARIABLES
    needs,      \* the packages holding a go:generate directive
    listFails,  \* the workspace modules whose go list raises
    pc,         \* where the calling thread is
    i,          \* the index of the workspace module being handled
    futures,    \* the futures go_generate submitted for module i
    yielded,    \* the futures as_completed has yielded so far
    queue,      \* the pool's work queue
    running,    \* the tasks a pool thread is running
    done,       \* done[t]: "none", "ok" or "failed"
    err,        \* the exception the caller propagates, or None
    out,        \* out[t]: the lines task t's _tee has written to its log writer
    buf,        \* buf[t]: how many of those are still in the writer's buffer
    log         \* the plan's log file: <<t, k>> is line k of task t

vars == <<needs, listFails, pc, i, futures, yielded, queue, running, done, err, out, buf, log>>

logVars == <<out, buf, log>>

\* Line k of task t.
Line(t, k) == <<t, k>>

TypeOK ==
    /\ needs \in SUBSET AllTasks
    /\ listFails \in SUBSET DOMAIN Roots
    /\ pc \in {"loop", "collect", "exit", "returned", "raised"}
    /\ i \in 1..(Len(Roots) + 1)
    /\ futures \in SUBSET AllTasks /\ yielded \subseteq futures
    /\ queue \in Seq(AllTasks)
    /\ running \in SUBSET AllTasks /\ Cardinality(running) <= Workers
    /\ done \in [AllTasks -> {"none", "ok", "failed"}]
    /\ err \in {None, ListError} \cup AllTasks
    /\ out \in [AllTasks -> 0..MaxLines] /\ buf \in [AllTasks -> 0..MaxLines]
    /\ log \in Seq(AllTasks \X (1..MaxLines))

\* Which packages have directives, and which go list calls fail, is fixed
\* before prepare starts.
Init ==
    /\ needs \in SUBSET AllTasks
    /\ listFails \in SUBSET DOMAIN Roots
    /\ pc = "loop"
    /\ i = 1
    /\ futures = {}
    /\ yielded = {}
    /\ queue = <<>>
    /\ running = {}
    /\ done = [t \in AllTasks |-> "none"]
    /\ err = None
    /\ out = [t \in AllTasks |-> 0]
    /\ buf = [t \in AllTasks |-> 0]
    /\ log = <<>>

-----------------------------------------------------------------------------
(* The calling thread.                                                     *)

\* One call of go_generate up to its as_completed loop: a module whose grep
\* finds no directive returns at once; otherwise GoModule.list runs (and may
\* raise, leaving the with block), and a future is submitted for every
\* listed package that needs generation, in the set's iteration order.
go_generate ==
    /\ pc = "loop"
    /\ i <= Len(Roots)
    /\ LET tasks == Packages[Roots[i]] \cap needs IN
       CASE tasks = {} ->
              /\ i' = i + 1
              /\ UNCHANGED <<pc, futures, yielded, queue, err>>
         [] i \in listFails ->
              /\ pc' = "exit"
              /\ err' = ListError
              /\ UNCHANGED <<i, futures, yielded, queue>>
         [] OTHER ->
              /\ futures' = tasks
              /\ yielded' = {}
              /\ \E order \in SetToSeqs(tasks) : queue' = queue \o order
              /\ pc' = "collect"
              /\ UNCHANGED <<i, err>>
    /\ UNCHANGED <<needs, listFails, running, done, logVars>>

\* The loop over the workspace modules ends; the with block is left.
modules_done ==
    /\ pc = "loop"
    /\ i > Len(Roots)
    /\ pc' = "exit"
    /\ UNCHANGED <<needs, listFails, i, futures, yielded, queue, running, done, err, logVars>>

\* Mutant of as_completed_next: only successful futures count as completed.
as_completed_next_ok_only ==
    /\ pc = "collect"
    /\ \E t \in futures \ yielded :
        /\ done[t] = "ok"
        /\ yielded' = yielded \cup {t}
        /\ IF yielded' = futures
           THEN pc' = "loop" /\ i' = i + 1
           ELSE UNCHANGED <<pc, i>>
        /\ UNCHANGED err
    /\ UNCHANGED <<needs, listFails, futures, queue, running, done, logVars>>

\* as_completed yields a finished future and result() is called on it: a
\* failed one raises its exception out of go_generate and the with block;
\* when every future has been yielded, go_generate returns and the loop
\* moves to the next workspace module.
as_completed_next ==
    /\ pc = "collect"
    /\ \E t \in futures \ yielded :
        /\ done[t] # "none"
        /\ yielded' = yielded \cup {t}
        /\ IF done[t] = "failed"
           THEN pc' = "exit" /\ err' = t /\ UNCHANGED i
           ELSE /\ IF yielded' = futures
                   THEN pc' = "loop" /\ i' = i + 1
                   ELSE UNCHANGED <<pc, i>>
                /\ UNCHANGED err
    /\ UNCHANGED <<needs, listFails, futures, queue, running, done, logVars>>

\* Mutant of pool_shutdown: the pool is shut down without waiting.
pool_shutdown_nowait ==
    /\ pc = "exit"
    /\ pc' = IF err = None THEN "returned" ELSE "raised"
    /\ UNCHANGED <<needs, listFails, i, futures, yielded, queue, running, done, err, logVars>>

\* The with block's exit: shutdown(wait=True) returns once the queue is
\* empty and no thread runs a task; prepare goes on, or the exception
\* propagates.
pool_shutdown ==
    /\ pc = "exit"
    /\ queue = <<>>
    /\ running = {}
    /\ pc' = IF err = None THEN "returned" ELSE "raised"
    /\ UNCHANGED <<needs, listFails, i, futures, yielded, queue, running, done, err, logVars>>

-----------------------------------------------------------------------------
(* The pool's threads.                                                     *)

\* Mutant of worker_start: no bound on the threads.
worker_start_unbounded ==
    /\ queue # <<>>
    /\ running' = running \cup {Head(queue)}
    /\ queue' = Tail(queue)
    /\ UNCHANGED <<needs, listFails, pc, i, futures, yielded, done, err, logVars>>

\* An idle thread takes the next task from the queue.
worker_start ==
    /\ queue # <<>>
    /\ Cardinality(running) < Workers
    /\ running' = running \cup {Head(queue)}
    /\ queue' = Tail(queue)
    /\ UNCHANGED <<needs, listFails, pc, i, futures, yielded, done, err, logVars>>

\* Task t's writer flushes: its n buffered lines, the last of which is
\* line last, are appended to the file and the buffer is empty.
Flush(t, last, n) ==
    /\ log' = log \o [k \in 1..n |-> Line(t, last - n + k)]
    /\ buf' = [buf EXCEPT ![t] = 0]

\* _tee writes the child's next line to task t's log writer; the writer
\* may then flush its buffer to the end of the file.
task_write(t) ==
    /\ t \in running
    /\ out[t] < MaxLines
    /\ out' = [out EXCEPT ![t] = @ + 1]
    /\ \/ buf' = [buf EXCEPT ![t] = @ + 1] /\ UNCHANGED log
       \/ Flush(t, out'[t], buf[t] + 1)
    /\ UNCHANGED <<needs, listFails, pc, i, futures, yielded, queue, running, done, err>>

\* _generate(t) ends: the child has exited, run_logged returned or raised
\* CommandException, and leaving its with block closed the log writer.
task_finish(t) ==
    /\ t \in running
    /\ running' = running \ {t}
    /\ done' \in {[done EXCEPT ![t] = s] : s \in {"ok", "failed"}}
    /\ Flush(t, out[t], buf[t])
    /\ UNCHANGED <<needs, listFails, pc, i, futures, yielded, queue, err, out>>

Returned == pc \in {"returned", "raised"}

Next ==
    \/ go_generate \/ modules_done \/ as_completed_next \/ pool_shutdown
    \/ worker_start \/ \E t \in AllTasks : task_write(t) \/ task_finish(t)
    \/ (Returned /\ UNCHANGED vars)

\* The calling thread and the pool threads are OS threads; every go
\* generate process is assumed to end (the code has no timeout).
Fairness ==
    /\ WF_vars(go_generate) /\ WF_vars(modules_done)
    /\ WF_vars(as_completed_next) /\ WF_vars(pool_shutdown)
    /\ WF_vars(worker_start)
    /\ \A t \in AllTasks : WF_vars(task_finish(t))

Spec == Init /\ [][Next]_vars /\ Fairness

-----------------------------------------------------------------------------
(* Refinement and properties.                                              *)

\* A task is idle while queued, running while a thread has it, then done.
TaskStatus(t) ==
    IF done[t] # "none" THEN done[t]
    ELSE IF t \in running THEN "running" ELSE "idle"

FOJ == INSTANCE FanOutJoin WITH
    tasks <- needs,
    status <- [t \in AllTasks |-> TaskStatus(t)],
    result <- CASE pc = "returned" -> "ok"
                [] pc = "raised" -> (IF err = ListError THEN "own" ELSE err)
                [] OTHER -> "none",
    None <- "none",
    OwnError <- "own"

\* prepare implements the fan-out/join contract (spec 4.4): each package
\* needing generation is generated at most once; prepare returns or raises
\* only when no generation task is running; it returns only if every
\* package needing generation was generated successfully; and the error it
\* raises is that of a failed task, or go list's.
ImplementsFanOutJoin == FOJ!Spec

\* prepare's code generation ends, returning or raising, whatever tasks fail
\* and in whatever order they complete.
GenerationTerminates == FOJ!Terminates
=============================================================================
