---------------------------- MODULE WindowsExecute ----------------------------
(* facter::execution::execute on Windows (lib/src/execution/windows/          *)
(* execution.cc): one call creates a process, puts it into a job, reads its   *)
(* output through pipes with overlapped reads and waits for it; a waitable    *)
(* timer bounds the call. The parent, the child, a descendant of it and the   *)
(* timer take steps independently. Output is counted in chunks.              *)
EXTENDS CommandLine, FiniteSets

CONSTANTS
    Capacity,    \* chunks a pipe holds
    MaxWrites,   \* bound: chunks a command writes to each pipe
    MaxArguments \* bound: the arguments there are

ASSUME WindowsExecuteAssumption == Capacity \in Nat \ {0} /\ MaxWrites \in Nat

Pipe == {"stdout", "stderr"}

VARIABLES
    pc,         \* where the parent is
    call,       \* timed: with a timeout; piped: what it reads
    arguments,  \* the arguments, until the process is created
    line,       \* the command line made of them
    turn,       \* the pipe of the loop over the pipes
    closed,     \* pipes with an invalid handle
    pending,    \* pipes with a read that has not completed
    early,      \* a callback returned false
    terminate,  \* the reaper will terminate the job
    outcome,    \* none, a tuple (ok or failed) or an exception (error, timeout, exit)
    assigned,   \* the child is in the job
    spared,     \* history: the job could not be terminated
    timer,      \* off, armed, fired
    readEnds,   \* the read ends the parent has open
    child,      \* none, running, exited
    failed,     \* its exit code is not 0
    wants,      \* the pipe it is writing to
    childEnds,  \* the write ends it has open
    daemon,     \* a descendant: none, joined (in the job), free, gone
    daemonEnds, \* the write ends it has open
    buffer, written, delivered

texts   == <<arguments, line>>
reads   == <<turn, closed, pending, early>>
fate    == <<terminate, outcome, assigned, spared>>
process == <<child, failed, wants, childEnds, daemon, daemonEnds>>
data    == <<buffer, written, delivered>>
vars    == <<pc, call, texts, reads, fate, timer, readEnds, process, data>>

-----------------------------------------------------------------------------
(* The call *)

\* The command line is made of the arguments.
Compose ==
    /\ pc = "start"
    /\ line' = ArgvToCommandLine(arguments)
    /\ pc' = "create"
    /\ UNCHANGED <<call, arguments, reads, fate, timer, readEnds, process, data>>

\* The command is not found, or a pipe or the process cannot be created.
StartFails ==
    /\ pc = "create"
    /\ outcome' \in {"failed", "exit", "error"}
    /\ pc' = "done"
    /\ arguments' = <<>> /\ line' = <<>>
    /\ UNCHANGED <<call, reads, terminate, assigned, spared, timer, readEnds, process, data>>
\* CreateProcessW: the child runs at once; the parent releases the write ends.
Create ==
    /\ pc = "create"
    /\ child' = "running" /\ childEnds' = call.piped /\ readEnds' = call.piped
    /\ pc' = "assign"
    /\ arguments' = <<>> /\ line' = <<>>
    /\ UNCHANGED <<call, reads, fate, timer, failed, wants, daemon, daemonEnds, data>>

\* Without the job there is no reaper yet: the exception leaves the child running.
AssignFails ==
    /\ pc = "assign"
    /\ outcome' = "error" /\ readEnds' = {}
    /\ pc' = "done"
    /\ UNCHANGED <<call, texts, reads, terminate, assigned, spared, timer, process, data>>
Assign ==
    /\ pc = "assign"
    /\ assigned' = TRUE /\ terminate' = TRUE
    /\ timer' = IF call.timed THEN "armed" ELSE "off"
    /\ pc' = "read"
    /\ UNCHANGED <<call, texts, reads, outcome, spared, readEnds, process, data>>

\* An exception: the reaper runs next.
Throw(exception) == outcome' = exception /\ pc' = "throw"
\* Creating or setting the timer, a read or a wait fails.
CallFails ==
    /\ pc \in {"read", "wait", "process"}
    /\ Throw("error")
    /\ UNCHANGED <<call, texts, reads, terminate, assigned, spared, timer, readEnds, process, data>>

-----------------------------------------------------------------------------
(* read_from_child *)

Writers(p) == p \in childEnds \cup daemonEnds
\* A read that is pending has completed.
Signaled(p) == buffer[p] > 0 \/ ~Writers(p)

\* The loop over the pipes ends with the last, or goes on with the next.
NextPipe == IF turn = "stdout" THEN turn' = "stderr" /\ UNCHANGED pc
            ELSE pc' = "wait" /\ UNCHANGED turn

\* A pipe that is closed or has a read pending ends the loop.
SkipPipe ==
    /\ pc = "read" /\ turn \in closed \cup pending
    /\ pc' = "wait"
    /\ UNCHANGED <<call, texts, reads, fate, timer, readEnds, process, data>>

Reads == pc = "read" /\ turn \notin closed \cup pending
InTime == ~(call.timed /\ timer = "fired")

ReadTimesOut ==
    /\ Reads /\ ~InTime
    /\ Throw("timeout")
    /\ UNCHANGED <<call, texts, reads, terminate, assigned, spared, timer, readEnds, process, data>>
\* Chunks are passed on; the callback goes on, is done, or throws.
Deliver(p, goOn) ==
    /\ \E n \in 1 .. buffer[p] :
         /\ buffer' = [buffer EXCEPT ![p] = @ - n]
         /\ delivered' = [delivered EXCEPT ![p] = @ + n]
    /\ UNCHANGED <<call, texts, terminate, assigned, spared, timer, process, written, closed>>
    /\ \/ pc' = "read" /\ turn' = goOn /\ UNCHANGED <<early, outcome, readEnds>>
       \/ early' = TRUE /\ pc' = "process" /\ readEnds' = {} /\ UNCHANGED <<turn, outcome>>
       \/ Throw("error") /\ UNCHANGED <<turn, early, readEnds>>
\* Mutant of ReadNow: a pipe is read once and left without a read.
ReadNowOnce ==
    /\ Reads /\ InTime /\ buffer[turn] > 0
    /\ Deliver(turn, "stderr")
    /\ UNCHANGED pending
\* The read completes at once; the same pipe is read again.
ReadNow ==
    /\ Reads /\ InTime /\ buffer[turn] > 0
    /\ Deliver(turn, turn)
    /\ UNCHANGED pending
ReadBroken ==
    /\ Reads /\ InTime /\ buffer[turn] = 0 /\ ~Writers(turn)
    /\ closed' = closed \cup {turn}
    /\ NextPipe
    /\ UNCHANGED <<call, texts, pending, early, fate, timer, readEnds, process, data>>
ReadPends ==
    /\ Reads /\ InTime /\ buffer[turn] = 0 /\ Writers(turn)
    /\ pending' = pending \cup {turn}
    /\ NextPipe
    /\ UNCHANGED <<call, texts, closed, early, fate, timer, readEnds, process, data>>

\* There is nothing to wait for: the read ends are closed.
WaitNothing ==
    /\ pc = "wait" /\ pending = {}
    /\ pc' = "process"
    /\ readEnds' = {}
    /\ UNCHANGED <<call, texts, reads, fate, timer, process, data>>
\* WaitForMultipleObjects returns the first handle that is signaled: stdout, stderr, timer.
Woken(p) ==
    /\ pc = "wait" /\ p \in pending /\ Signaled(p)
    /\ p = "stderr" => ~("stdout" \in pending /\ Signaled("stdout"))
    /\ pending' = pending \ {p}
WaitData(p) == Woken(p) /\ buffer[p] > 0 /\ Deliver(p, "stdout")
WaitBroken(p) ==
    /\ Woken(p) /\ buffer[p] = 0
    /\ closed' = closed \cup {p}
    /\ pc' = "read" /\ turn' = "stdout"
    /\ UNCHANGED <<call, texts, early, fate, timer, readEnds, process, data>>
\* Mutant of WaitTimesOut: the timer is not among the handles.
WaitTimesOutNever ==
    /\ pc = "wait" /\ pending = {} /\ ~InTime
    /\ Throw("timeout")
    /\ UNCHANGED <<call, texts, reads, terminate, assigned, spared, timer, readEnds, process, data>>
WaitTimesOut ==
    /\ pc = "wait" /\ pending # {} /\ ~InTime
    /\ \A p \in pending : ~Signaled(p)
    /\ Throw("timeout")
    /\ UNCHANGED <<call, texts, reads, terminate, assigned, spared, timer, readEnds, process, data>>

-----------------------------------------------------------------------------
(* The end of the call *)

\* The reaper is disarmed, then the exit code is asked for, which may fail.
ProcessEnds ==
    /\ pc = "process" /\ child = "exited"
    /\ terminate' = FALSE
    /\ \/ outcome' \in (IF failed THEN {"failed", "exit"} ELSE {"ok"}) /\ pc' = "done"
       \/ Throw("error")
    /\ UNCHANGED <<call, texts, reads, assigned, spared, timer, readEnds, process, data>>
\* Mutant of ProcessTimesOut: the reaper is disarmed before the wait.
ProcessTimesOutQuietly ==
    /\ pc = "process" /\ child = "running" /\ ~InTime
    /\ terminate' = FALSE
    /\ Throw("timeout")
    /\ UNCHANGED <<call, texts, reads, assigned, spared, timer, readEnds, process, data>>
ProcessTimesOut ==
    /\ pc = "process" /\ child = "running" /\ ~InTime
    /\ Throw("timeout")
    /\ UNCHANGED <<call, texts, reads, terminate, assigned, spared, timer, readEnds, process, data>>

\* TerminateJobObject: all of the job.
JobEnds ==
    /\ child' = "exited"
    /\ failed' = (failed \/ child = "running")
    /\ wants' = "none" /\ childEnds' = {}
    /\ IF daemon = "joined" THEN daemon' = "gone" /\ daemonEnds' = {}
       ELSE UNCHANGED <<daemon, daemonEnds>>
\* The reaper terminates the job if it is armed, which may fail and is only logged
\* then; the handles are closed.
Reap ==
    /\ pc = "throw"
    /\ \/ terminate /\ JobEnds /\ UNCHANGED spared
       \/ terminate /\ spared' = TRUE /\ UNCHANGED process
       \/ ~terminate /\ UNCHANGED <<process, spared>>
    /\ readEnds' = {}
    /\ pc' = "done"
    /\ UNCHANGED <<call, texts, reads, terminate, outcome, assigned, timer, data>>

-----------------------------------------------------------------------------
(* The timer, the child and its descendant *)

TimerFires ==
    /\ timer = "armed" /\ pc # "done"
    /\ timer' = "fired"
    /\ UNCHANGED <<pc, call, texts, reads, fate, readEnds, process, data>>

outside == <<pc, call, texts, reads, fate, timer, readEnds, delivered>>
ChildWants(p) ==
    /\ child = "running" /\ wants = "none"
    /\ p \in childEnds /\ written[p] < MaxWrites
    /\ wants' = p
    /\ UNCHANGED <<outside, child, failed, childEnds, daemon, daemonEnds, buffer, written>>
ChildWrites ==
    /\ wants # "none" /\ wants \in readEnds /\ buffer[wants] < Capacity
    /\ buffer' = [buffer EXCEPT ![wants] = @ + 1]
    /\ written' = [written EXCEPT ![wants] = @ + 1]
    /\ wants' = "none"
    /\ UNCHANGED <<outside, child, failed, childEnds, daemon, daemonEnds>>
\* The write fails when the parent has closed the pipe.
ChildWriteFails ==
    /\ wants # "none" /\ wants \notin readEnds
    /\ child' = "exited" /\ failed' = TRUE /\ wants' = "none" /\ childEnds' = {}
    /\ UNCHANGED <<outside, daemon, daemonEnds, buffer, written>>
ChildCloses(p) ==
    /\ child = "running" /\ wants = "none" /\ p \in childEnds
    /\ childEnds' = childEnds \ {p}
    /\ UNCHANGED <<outside, child, failed, wants, daemon, daemonEnds, buffer, written>>
\* A process is in the job of the one that creates it.
ChildSpawns ==
    /\ child = "running" /\ wants = "none" /\ daemon = "none"
    /\ daemon' = IF assigned THEN "joined" ELSE "free"
    /\ daemonEnds' = childEnds
    /\ UNCHANGED <<outside, child, failed, wants, childEnds, buffer, written>>
ChildExits ==
    /\ child = "running" /\ wants = "none"
    /\ child' = "exited" /\ failed' \in BOOLEAN /\ childEnds' = {}
    /\ UNCHANGED <<outside, wants, daemon, daemonEnds, buffer, written>>
DaemonExits ==
    /\ daemon \in {"joined", "free"}
    /\ daemon' = "gone" /\ daemonEnds' = {}
    /\ UNCHANGED <<outside, child, failed, wants, childEnds, buffer, written>>

-----------------------------------------------------------------------------

\* A call: stderr is read, or redirected to stdout or to the NUL device, which makes
\* its handle invalid. Calls share nothing, so there is one.
Init ==
    /\ pc = "start"
    /\ call \in [timed : BOOLEAN, piped : {{"stdout"}, Pipe}]
    /\ arguments \in BoundedSeq(Arguments, MaxArguments) /\ line = <<>>
    /\ turn = "stdout" /\ closed = Pipe \ call.piped /\ pending = {} /\ early = FALSE
    /\ terminate = FALSE /\ outcome = "none" /\ assigned = FALSE
    /\ spared = FALSE /\ timer = "off"
    /\ readEnds = {} /\ child = "none" /\ failed = FALSE /\ wants = "none"
    /\ childEnds = {} /\ daemon = "none" /\ daemonEnds = {}
    /\ buffer = [p \in Pipe |-> 0] /\ written = [p \in Pipe |-> 0]
    /\ delivered = [p \in Pipe |-> 0]

Parent ==
    \/ Compose \/ Create \/ Assign
    \/ SkipPipe \/ ReadTimesOut \/ ReadNow \/ ReadBroken \/ ReadPends
    \/ WaitNothing \/ WaitTimesOut
    \/ \E p \in Pipe : WaitData(p) \/ WaitBroken(p)
    \/ ProcessEnds \/ ProcessTimesOut \/ Reap
Child ==
    \/ ChildWrites \/ ChildWriteFails \/ ChildSpawns \/ ChildExits
    \/ \E p \in Pipe : ChildWants(p) \/ ChildCloses(p)
Failure == StartFails \/ AssignFails \/ CallFails
\* What runs on after the call is not followed.
Next == Parent \/ Failure \/ TimerFires \/ (pc # "done" /\ (Child \/ DaemonExits))

\* The parent and the timer go on; no system call has to fail. A command goes on, and
\* ends, when no timeout is there to end it.
Fairness ==
    /\ WF_vars(Parent)
    /\ WF_vars(TimerFires)
    /\ WF_vars(pc # "done" /\ ~call.timed /\ Child)
    /\ WF_vars(pc # "done" /\ ~call.timed /\ DaemonExits)
Spec == Init /\ [][Next]_vars /\ Fairness

-----------------------------------------------------------------------------
(* Properties *)

\* A call that returns, or throws because of the exit code and takes the output with it,
\* has passed on all of stdout the command wrote, unless a callback was done before. (Not
\* so of stderr: see AllPipesPend.)
StdoutIsComplete ==
    pc = "done" /\ outcome \notin {"error", "timeout"} /\ ~early => buffer["stdout"] = 0

\* After an exception the process of a job has ended, and so has all it started in the
\* job, always so after a timeout; unless the job cannot be terminated. Only an error that
\* comes after the end of the process was seen, when the reaper is disarmed, leaves
\* what it started (lines 504-512 and 544-564).
ExceptionEndsJob ==
    pc = "done" /\ outcome \in {"error", "timeout"} /\ assigned /\ ~spared =>
        /\ child = "exited"
        /\ terminate => daemon # "joined"
        /\ outcome = "timeout" => terminate

\* The process is given the arguments that are not empty, whatever is in them: no two
\* run together and none is split.
ArgumentsArrive ==
    pc = "create" => ParseCommandLine(line) = Given(arguments)

\* A call with a timeout ends, whatever the command does; one that reads only
\* stdout ends when the command does.
CallEnds ==
    (pc # "done" /\ (call.timed \/ call.piped = {"stdout"})) ~> (pc = "done")

\* "All pipes should be pending now": every pipe that is open has a read pending when
\* the parent waits.
AllPipesPend == pc = "wait" => call.piped \ closed \subseteq pending
=============================================================================
