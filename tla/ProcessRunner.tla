---------------------------- MODULE ProcessRunner ----------------------------
(***************************************************************************)
(* One call of run() (beagle/subprocess/subprocess.py): _run spawns the    *)
(* child with its stdout on a pipe, starts a reader thread running _tee,   *)
(* waits for the child, joins the reader, and run checks the return code.  *)
(* Three actors run concurrently: the child process, the reader thread and *)
(* the calling (main) thread.  The pipe is a bounded FIFO of lines: a      *)
(* child writing to a full pipe blocks until the reader drains it.  A line *)
(* is its position in the child's output; some lines may not be valid     *)
(* UTF-8, and decoding such a line raises in the reader thread.            *)
(*                                                                         *)
(* The sinks of _tee (the capture buffer, the log file of run_logged,      *)
(* stdout) receive the same lines in the same order from the one reader   *)
(* thread; the capture buffer stands for all of them.                     *)
(***************************************************************************)
EXTENDS Naturals, Sequences, SequencesExt

CONSTANTS
    NumLines,        \* how many lines the child writes
    PipeCap,         \* how many lines the pipe holds before a write blocks
    InvalidChoices,  \* the sets of lines that may fail to decode as UTF-8
    ExitCodes        \* the exit statuses the child may end with

ASSUME NumLines \in Nat /\ PipeCap \in Nat \ {0}

Lines == 1..NumLines

\* The whole output of the child, in order.
AllLines == [i \in Lines |-> i]

VARIABLES
    written,   \* how many lines the child has written to the pipe
    pipe,      \* the lines in the pipe, not yet read
    child,     \* "running" or "exited" (the write end is then closed)
    rc,        \* the exit status the child ends with
    invalid,   \* the lines whose bytes are not valid UTF-8
    reader,    \* the _tee thread: "idle", "reading", "done" or "dead"
    capture,   \* the lines written to capture_writer (and every sink)
    main       \* where the calling thread is in _run and run

vars == <<written, pipe, child, rc, invalid, reader, capture, main>>

TypeOK ==
    /\ written \in 0..NumLines
    /\ pipe \in Seq(Lines) /\ Len(pipe) <= PipeCap
    /\ child \in {"running", "exited"}
    /\ rc \in ExitCodes
    /\ invalid \in SUBSET Lines
    /\ reader \in {"idle", "reading", "done", "dead"}
    /\ capture \in Seq(Lines) /\ Len(capture) <= NumLines
    /\ main \in {"start", "wait", "join", "returned", "raised"}

\* Popen has returned: the child runs, nothing is written or read yet.
Init ==
    /\ written = 0
    /\ pipe = <<>>
    /\ child = "running"
    /\ rc \in ExitCodes
    /\ invalid \in InvalidChoices
    /\ reader = "idle"
    /\ capture = <<>>
    /\ main = "start"

-----------------------------------------------------------------------------
(* The child process.                                                      *)

\* Mutant of child_write: the write does not block on a full pipe.
child_write_unbounded ==
    /\ written < NumLines
    /\ written' = written + 1
    /\ pipe' = Append(pipe, written + 1)
    /\ UNCHANGED <<child, rc, invalid, reader, capture, main>>

\* The child writes its next line; the write blocks while the pipe is full.
child_write ==
    /\ written < NumLines
    /\ Len(pipe) < PipeCap
    /\ written' = written + 1
    /\ pipe' = Append(pipe, written + 1)
    /\ UNCHANGED <<child, rc, invalid, reader, capture, main>>

\* The child exits once it has written everything, closing the write end.
child_exit ==
    /\ child = "running"
    /\ written = NumLines
    /\ child' = "exited"
    /\ UNCHANGED <<written, pipe, rc, invalid, reader, capture, main>>

-----------------------------------------------------------------------------
(* The reader thread: _tee.                                                *)

\* One iteration of "for line_bytes in reader": the line is taken from the
\* pipe and decoded; a valid line is written to every writer, an invalid one
\* raises UnicodeDecodeError, which ends the thread (threading prints it).
tee_line ==
    /\ reader = "reading"
    /\ pipe # <<>>
    /\ pipe' = Tail(pipe)
    /\ IF Head(pipe) \in invalid
       THEN /\ reader' = "dead"
            /\ UNCHANGED capture
       ELSE /\ capture' = Append(capture, Head(pipe))
            /\ UNCHANGED reader
    /\ UNCHANGED <<written, child, rc, invalid, main>>

\* The loop ends at end of file: the pipe is empty and its write end closed.
tee_eof ==
    /\ reader = "reading"
    /\ pipe = <<>>
    /\ child = "exited"
    /\ reader' = "done"
    /\ UNCHANGED <<written, pipe, child, rc, invalid, capture, main>>

-----------------------------------------------------------------------------
(* The calling thread: _run and run.                                       *)

\* Mutant of start_output_thread: the reader is started after the wait.
start_output_thread_after_wait ==
    /\ main = "start"
    /\ child = "exited"
    /\ reader' = "reading"
    /\ main' = "wait"
    /\ UNCHANGED <<written, pipe, child, rc, invalid, capture>>

\* output_thread.start().
start_output_thread ==
    /\ main = "start"
    /\ reader' = "reading"
    /\ main' = "wait"
    /\ UNCHANGED <<written, pipe, child, rc, invalid, capture>>

\* process.wait() returns once the child has exited.
process_wait ==
    /\ main = "wait"
    /\ child = "exited"
    /\ main' = "join"
    /\ UNCHANGED <<written, pipe, child, rc, invalid, reader, capture>>

\* Mutant of output_thread_join: _run returns without joining the reader.
output_thread_join_skipped ==
    /\ main = "join"
    /\ main' = IF rc = 0 THEN "returned" ELSE "raised"
    /\ UNCHANGED <<written, pipe, child, rc, invalid, reader, capture>>

\* output_thread.join() returns once the reader has ended (normally or by
\* an exception); _run returns the status, and run returns the rewound
\* capture buffer for status 0 and raises CommandException, holding it,
\* otherwise.
output_thread_join ==
    /\ main = "join"
    /\ reader \in {"done", "dead"}
    /\ main' = IF rc = 0 THEN "returned" ELSE "raised"
    /\ UNCHANGED <<written, pipe, child, rc, invalid, reader, capture>>

\* run has returned or raised.
Returned == main \in {"returned", "raised"}

Next ==
    \/ child_write \/ child_exit
    \/ tee_line \/ tee_eof
    \/ start_output_thread \/ process_wait \/ output_thread_join
    \/ (Returned /\ UNCHANGED vars)

\* The child and the reader are scheduled by the OS and keep running while
\* they can; so is the calling thread.
Fairness ==
    /\ WF_vars(child_write) /\ WF_vars(child_exit)
    /\ WF_vars(tee_line) /\ WF_vars(tee_eof)
    /\ WF_vars(start_output_thread) /\ WF_vars(process_wait)
    /\ WF_vars(output_thread_join)

Spec == Init /\ [][Next]_vars /\ Fairness

-----------------------------------------------------------------------------
(* Properties.                                                             *)

\* Capture is complete (spec 4.1): when run returns its buffer, or raises
\* CommandException holding it, the buffer holds every line the child wrote,
\* in order, even when the child exited with lines still in the pipe.
CaptureComplete == Returned => capture = AllLines

\* run returns (spec 4.1, 5): with the child and the reader thread running
\* concurrently, neither the child's write to a full pipe nor the wait for
\* the child nor the join of the reader blocks forever.
RunReturns == <>Returned
=============================================================================
