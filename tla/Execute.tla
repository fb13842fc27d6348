------------------------------ MODULE Execute -------------------------------
(***************************************************************************)
(* facter::execution::execute on POSIX systems                             *)
(* (lib/src/execution/posix/execution.cc).                                 *)
(*                                                                         *)
(* One call at a time forks a command, reads its output through pipes and  *)
(* waits for it, while SIGALRM may expire the call's timeout between any   *)
(* two steps.  The parent, the child, a descendant the child leaves in its *)
(* process group, and the interval timer take steps independently.         *)
(*                                                                         *)
(* Data is counted in chunks: a chunk is what one write() puts in a pipe.  *)
(* What the options throw_on_nonzero_exit and throw_on_signal say matters  *)
(* once per call and is chosen there.                                      *)
(***************************************************************************)
EXTENDS Integers, FiniteSets

CONSTANTS
    Capacity,    \* chunks a pipe holds
    MaxWrites,   \* bound: chunks a command writes to each pipe
    ExitCodes    \* the exit codes a command may end with

ASSUME ExecuteAssumption ==
    /\ Capacity \in Nat \ {0}
    /\ MaxWrites \in Nat
    /\ ExitCodes \subseteq 0..255 /\ 1 \in ExitCodes

Pipe == {"stdout", "stderr"}
Signaled == -1      \* the child was terminated by a signal
NotEnded == -2

VARIABLES
    pc,         \* where the parent is in execute()
    call,       \* the call: timed (a timeout was given), piped (the pipes it reads)
    watching,   \* the pipes whose descriptor is not -1 in read_from_child
    ready,      \* the FD_ISSET pipes not yet read
    early,      \* a callback said that it is done before the output ended
    killChild,  \* kill_child
    reaper,     \* the scope_exit reaper still has its callback
    status,     \* what the reaper found: an exit code, Signaled or NotEnded
    outcome,    \* how the call ended: a tuple (ok, failed) or an exception
    reported,   \* the status code a child_exit_exception carries
    timer,      \* the interval timer: off, armed, fired
    timedOut,   \* command_timedout
    parentEnds, \* the read ends the parent has open
    child,      \* none, forked, running (execv succeeded), exited (a zombie), reaped
    grouped,    \* setpgid succeeded
    exit,       \* how the child ended
    wants,      \* the pipe the child is writing to, or none
    childEnds,  \* the write ends the child has open
    daemon,     \* a descendant of the child in its group: none, alive, gone
    daemonEnds, \* the write ends the descendant has open
    buffer, written, delivered,  \* chunks in the pipe, written and passed on
    missed      \* history: kill(-child) found no process group to kill

parent == <<pc, call, watching, ready, early, killChild, reaper, status, outcome, reported>>
alarm == <<timer, timedOut>>
process == <<child, grouped, exit, wants, childEnds, daemon, daemonEnds>>
data == <<buffer, written, delivered>>
vars == <<parent, alarm, parentEnds, process, data, missed>>

-----------------------------------------------------------------------------
(* The call starts *)

NewCall(timed, piped) ==
    /\ call' = [timed |-> timed, piped |-> piped]
    /\ watching' = {} /\ ready' = {} /\ early' = FALSE
    /\ status' = NotEnded /\ reported' = 0
    /\ grouped' = FALSE /\ exit' = NotEnded /\ wants' = "none"
    /\ daemon' = "none" /\ daemonEnds' = {}
    /\ buffer' = [p \in Pipe |-> 0]
    /\ written' = [p \in Pipe |-> 0] /\ delivered' = [p \in Pipe |-> 0]
    /\ missed' = FALSE

\* which() finds nothing, or pipe() or fork() fails: no child, and every
\* descriptor opened so far is closed by its scoped_descriptor.
StartFails(timed, piped) ==
    /\ pc = "idle"
    /\ NewCall(timed, piped)
    /\ outcome' \in {"failed", "exit", "error"}
    /\ child' = "none" /\ childEnds' = {} /\ killChild' = FALSE /\ reaper' = FALSE
    /\ UNCHANGED <<pc, alarm, parentEnds>>

\* fork() succeeds; the parent closes the ends it does not use and sets the reaper.
Fork(timed, piped) ==
    /\ pc = "idle"
    /\ NewCall(timed, piped)
    /\ outcome' = "none"
    /\ child' = "forked" /\ childEnds' = piped /\ parentEnds' = piped
    /\ killChild' = TRUE /\ reaper' = TRUE
    /\ pc' = "arm"
    /\ UNCHANGED alarm

\* An exception leaves the scope: the timer is reset first, then the reaper runs.
Throw(exception) ==
    /\ outcome' = exception
    /\ pc' = "disarm"

\* if (timeout): sigaction and setitimer.
Arm ==
    /\ pc = "arm"
    /\ watching' = call.piped
    /\ timer' = IF call.timed THEN "armed" ELSE "off"
    /\ pc' = "loop"
    /\ UNCHANGED <<call, ready, early, killChild, reaper, status, outcome, reported,
                   timedOut, parentEnds, process, data, missed>>

ArmFails ==
    /\ pc = "arm" /\ call.timed
    /\ Throw("error")
    /\ UNCHANGED <<call, watching, ready, early, killChild, reaper, status, reported,
                   alarm, parentEnds, process, data, missed>>

-----------------------------------------------------------------------------
(* read_from_child *)

reading == <<call, early, killChild, reaper, status, reported>>

LoopTimesOut ==
    /\ pc = "loop" /\ timedOut
    /\ Throw("timeout")
    /\ UNCHANGED <<watching, ready, reading, alarm, parentEnds, process, data, missed>>

\* Mutant of LoopDone: the loop ends with the first pipe that closes.
LoopDoneEarly ==
    /\ pc = "loop" /\ ~timedOut /\ watching # call.piped
    /\ pc' = "drained"
    /\ UNCHANGED <<watching, ready, outcome, reading, alarm, parentEnds, process, data, missed>>

\* max == -1: every pipe has closed.
LoopDone ==
    /\ pc = "loop" /\ ~timedOut /\ watching = {}
    /\ pc' = "drained"
    /\ UNCHANGED <<watching, ready, outcome, reading, alarm, parentEnds, process, data, missed>>

LoopSelects ==
    /\ pc = "loop" /\ ~timedOut /\ watching # {}
    /\ pc' = "select"
    /\ UNCHANGED <<watching, ready, outcome, reading, alarm, parentEnds, process, data, missed>>

\* A read would not block: there is data, or every write end has been closed.
Readable(p) == buffer[p] > 0 \/ p \notin childEnds \cup daemonEnds

\* Mutant of SelectReturns: stderr waits until stdout has closed.
SelectReturnsInTurn ==
    /\ pc = "select"
    /\ ready' = {p \in watching : Readable(p) /\ (p = "stderr" => "stdout" \notin watching)}
    /\ ready' # {}
    /\ pc' = "read"
    /\ UNCHANGED <<watching, outcome, reading, alarm, parentEnds, process, data, missed>>

SelectReturns ==
    /\ pc = "select"
    /\ ready' = {p \in watching : Readable(p)}
    /\ ready' # {}
    /\ pc' = "read"
    /\ UNCHANGED <<watching, outcome, reading, alarm, parentEnds, process, data, missed>>

\* With a timeout select() gives up after 500ms, to look at command_timedout.
SelectExpires ==
    /\ pc = "select" /\ call.timed
    /\ \A p \in watching : ~Readable(p)
    /\ pc' = "loop"
    /\ UNCHANGED <<watching, ready, outcome, reading, alarm, parentEnds, process, data, missed>>

\* select() or read() fails with something else than EINTR.
IoFails ==
    /\ pc \in {"select", "read"}
    /\ Throw("error")
    /\ UNCHANGED <<watching, ready, reading, alarm, parentEnds, process, data, missed>>

\* The pipe whose turn it is: the array holds stdout, then stderr.
Current == IF "stdout" \in ready THEN "stdout" ELSE "stderr"

\* count == 0: the pipe has closed.
ReadEnd ==
    /\ pc = "read" /\ buffer[Current] = 0
    /\ watching' = watching \ {Current}
    /\ ready' = ready \ {Current}
    /\ pc' = IF ready' = {} THEN "loop" ELSE "read"
    /\ UNCHANGED <<outcome, reading, alarm, parentEnds, process, data, missed>>

\* The callback is given what was read; it goes on, is done, or throws.
ReadData ==
    /\ pc = "read" /\ buffer[Current] > 0
    /\ \E n \in 1..buffer[Current] :
         /\ buffer' = [buffer EXCEPT ![Current] = @ - n]
         /\ delivered' = [delivered EXCEPT ![Current] = @ + n]
    /\ \/ /\ ready' = ready \ {Current}
          /\ pc' = IF ready' = {} THEN "loop" ELSE "read"
          /\ UNCHANGED <<early, outcome>>
       \/ early' = TRUE /\ pc' = "drained" /\ UNCHANGED <<ready, outcome>>
       \/ Throw("error") /\ UNCHANGED <<early, ready>>
    /\ UNCHANGED <<call, watching, killChild, reaper, status, reported,
                   alarm, parentEnds, process, written, missed>>

\* process_streams passes on the last partial line; then the read pipes are
\* closed and kill_child = false.
Drained ==
    /\ pc = "drained"
    /\ \/ killChild' = FALSE /\ parentEnds' = {} /\ pc' = "reap" /\ UNCHANGED outcome
       \/ Throw("error") /\ UNCHANGED <<killChild, parentEnds>>
    /\ UNCHANGED <<call, watching, ready, early, reaper, status, reported,
                   alarm, process, data, missed>>

-----------------------------------------------------------------------------
(* The reaper: invoked when the output has ended, or as the scope is left *)

\* The child ends: its write ends close and it becomes a zombie.
Ends(how) ==
    /\ child' = "exited"
    /\ exit' = how
    /\ wants' = "none"
    /\ childEnds' = {}

Alive == child \in {"forked", "running"}

\* Mutant of KillGroup: kill(child, SIGKILL).
KillGroupLeaderOnly ==
    /\ IF Alive /\ grouped THEN Ends(Signaled)
                           ELSE UNCHANGED <<child, exit, wants, childEnds>>
    /\ UNCHANGED <<daemon, daemonEnds>>
    /\ missed' = (Alive /\ ~grouped)

\* kill(-child, SIGKILL): every process of the group, or nothing if the child
\* has not called setpgid.
KillGroup ==
    /\ IF Alive /\ grouped THEN Ends(Signaled)
                           ELSE UNCHANGED <<child, exit, wants, childEnds>>
    /\ daemonEnds' = {}
    /\ daemon' = IF daemon = "alive" THEN "gone" ELSE daemon
    /\ missed' = (Alive /\ ~grouped)

ReaperStarts ==
    /\ pc = "reap"
    /\ pc' = "wait"
    /\ IF killChild THEN KillGroup
       ELSE UNCHANGED <<child, exit, wants, childEnds, daemon, daemonEnds, missed>>
    /\ UNCHANGED <<call, watching, ready, early, killChild, reaper, status, outcome,
                   reported, alarm, parentEnds, grouped, data>>

\* waitpid blocks.
WaitBlocks ==
    /\ pc = "wait" /\ child # "exited"
    /\ pc' = "waitpid"
    /\ UNCHANGED <<call, watching, ready, early, killChild, reaper, status, outcome,
                   reported, alarm, parentEnds, process, data, missed>>

\* After invoke() execution goes on; after the destructor the scope is gone.
AfterReaper ==
    IF killChild THEN pc' = "idle" /\ parentEnds' = {}
                 ELSE pc' = "decide" /\ UNCHANGED parentEnds

\* waitpid returns the child's status; scope_exit drops the callback.
Collect ==
    /\ pc \in {"wait", "waitpid"} /\ child = "exited"
    /\ child' = "reaped"
    /\ status' = exit
    /\ reaper' = FALSE
    /\ AfterReaper
    /\ UNCHANGED <<call, watching, ready, early, killChild, outcome, reported,
                   alarm, grouped, exit, wants, childEnds, daemon, daemonEnds, data, missed>>

\* static_cast<char>(WEXITSTATUS(status)), where char is signed.
AsChar(code) == IF code > 127 THEN code - 256 ELSE code

Succeeded == status = 0

\* Report success or failure.  After an interrupted waitpid neither success nor
\* signaled was set and status is 0: the call reports failure, never throws.
Decide ==
    /\ pc = "decide"
    /\ \/ Succeeded /\ outcome' = "ok" /\ UNCHANGED reported
       \/ ~Succeeded /\ outcome' = "failed" /\ UNCHANGED reported
       \/ ~Succeeded /\ status = Signaled /\ outcome' = "signal" /\ UNCHANGED reported
       \/ ~Succeeded /\ status \in 1..255 /\ outcome' = "exit" /\ reported' = AsChar(status)
    /\ pc' = "disarm"
    /\ UNCHANGED <<call, watching, ready, early, killChild, reaper, status,
                   alarm, parentEnds, process, data, missed>>

\* Mutants of Disarm: only the flag, or only the timer, is reset.
DisarmKeepsTimer ==
    /\ pc = "disarm"
    /\ timedOut' = FALSE
    /\ IF reaper THEN pc' = "reap" /\ UNCHANGED parentEnds
                 ELSE pc' = "idle" /\ parentEnds' = {}
    /\ UNCHANGED <<call, watching, ready, early, killChild, reaper, status, outcome,
                   reported, timer, process, data, missed>>

DisarmKeepsFlag ==
    /\ pc = "disarm"
    /\ timer' = "off"
    /\ IF reaper THEN pc' = "reap" /\ UNCHANGED parentEnds
                 ELSE pc' = "idle" /\ parentEnds' = {}
    /\ UNCHANGED <<call, watching, ready, early, killChild, reaper, status, outcome,
                   reported, timedOut, process, data, missed>>

\* The destructors in order: timer_reset, the reaper, the descriptors.
Disarm ==
    /\ pc = "disarm"
    /\ timer' = "off" /\ timedOut' = FALSE
    /\ IF reaper THEN pc' = "reap" /\ UNCHANGED parentEnds
                 ELSE pc' = "idle" /\ parentEnds' = {}
    /\ UNCHANGED <<call, watching, ready, early, killChild, reaper, status, outcome,
                   reported, process, data, missed>>

-----------------------------------------------------------------------------
(* SIGALRM *)

\* The handler runs between two steps of the parent; a blocked select() returns
\* EINTR, unless the signal came just before it blocked.
TimerFires ==
    /\ timer = "armed" /\ pc # "waitpid"
    /\ timer' = "fired" /\ timedOut' = TRUE
    /\ pc' \in {pc} \cup (IF pc = "select" THEN {"loop"} ELSE {})
    /\ UNCHANGED <<call, watching, ready, early, killChild, reaper, status, outcome,
                   reported, parentEnds, process, data, missed>>

\* A blocked waitpid() returns EINTR: the reaper logs it and returns.
TimerInterruptsWait ==
    /\ timer = "armed" /\ pc = "waitpid"
    /\ timer' = "fired" /\ timedOut' = TRUE
    /\ reaper' = FALSE
    /\ AfterReaper
    /\ UNCHANGED <<call, watching, ready, early, killChild, status, outcome, reported,
                   process, data, missed>>

-----------------------------------------------------------------------------
(* The child, from fork() on, and what it leaves behind *)

child_rest == <<parent, alarm, parentEnds, missed>>

ChildSetsGroup ==
    /\ child = "forked" /\ ~grouped
    /\ grouped' = TRUE
    /\ UNCHANGED <<child_rest, child, exit, wants, childEnds, daemon, daemonEnds, data>>

ChildExecs ==
    /\ child = "forked" /\ grouped
    /\ child' = "running"
    /\ UNCHANGED <<child_rest, grouped, exit, wants, childEnds, daemon, daemonEnds, data>>

\* setpgid, dup2 or execv fails.
ChildFails ==
    /\ child = "forked"
    /\ \E code \in ExitCodes \ {0} : Ends(code)
    /\ UNCHANGED <<child_rest, grouped, daemon, daemonEnds, data>>

ChildStarts == ChildSetsGroup \/ ChildExecs \/ ChildFails

Free == child = "running" /\ wants = "none"

ChildWants(p) ==
    /\ Free /\ p \in childEnds /\ written[p] < MaxWrites
    /\ wants' = p
    /\ UNCHANGED <<child_rest, child, grouped, exit, childEnds, daemon, daemonEnds, data>>

\* write() blocks until the pipe has room.
ChildWrites ==
    /\ child = "running" /\ wants \in parentEnds
    /\ buffer[wants] < Capacity
    /\ buffer' = [buffer EXCEPT ![wants] = @ + 1]
    /\ written' = [written EXCEPT ![wants] = @ + 1]
    /\ wants' = "none"
    /\ UNCHANGED <<child_rest, child, grouped, exit, childEnds, daemon, daemonEnds, delivered>>

\* No reader is left: SIGPIPE, or EPIPE if the command ignores the signal.
ChildWritesToNoReader ==
    /\ child = "running" /\ wants \in Pipe \ parentEnds
    /\ \/ Ends(Signaled)
       \/ wants' = "none" /\ UNCHANGED <<child, exit, childEnds>>
    /\ UNCHANGED <<child_rest, grouped, daemon, daemonEnds, data>>

ChildCloses(p) ==
    /\ Free /\ p \in childEnds
    /\ childEnds' = childEnds \ {p}
    /\ UNCHANGED <<child_rest, child, grouped, exit, wants, daemon, daemonEnds, data>>

\* The command leaves a background process that inherits its write ends.
ChildForksDaemon ==
    /\ Free /\ daemon = "none"
    /\ daemon' = "alive" /\ daemonEnds' = childEnds
    /\ UNCHANGED <<child_rest, child, grouped, exit, wants, childEnds, data>>

DaemonEnds ==
    /\ daemon = "alive"
    /\ daemon' = "gone" /\ daemonEnds' = {}
    /\ UNCHANGED <<child_rest, child, grouped, exit, wants, childEnds, data>>

\* It exits, or is terminated by somebody else's signal.
ChildEnds ==
    /\ Free
    /\ \E how \in ExitCodes \cup {Signaled} : Ends(how)
    /\ UNCHANGED <<child_rest, grouped, daemon, daemonEnds, data>>

-----------------------------------------------------------------------------
Init ==
    /\ pc = "idle"
    /\ call = [timed |-> FALSE, piped |-> {}]
    /\ watching = {} /\ ready = {} /\ early = FALSE
    /\ killChild = FALSE /\ reaper = FALSE
    /\ status = NotEnded /\ outcome = "none" /\ reported = 0
    /\ timer = "off" /\ timedOut = FALSE
    /\ parentEnds = {}
    /\ child = "none" /\ grouped = FALSE /\ exit = NotEnded /\ wants = "none"
    /\ childEnds = {} /\ daemon = "none" /\ daemonEnds = {}
    /\ buffer = [p \in Pipe |-> 0]
    /\ written = [p \in Pipe |-> 0] /\ delivered = [p \in Pipe |-> 0]
    /\ missed = FALSE

\* stderr is piped unless it is redirected to stdout or to /dev/null.
Start ==
    \E timed \in BOOLEAN, piped \in {{"stdout"}, Pipe} :
        StartFails(timed, piped) \/ Fork(timed, piped)

Continue ==
    \/ Arm
    \/ LoopTimesOut \/ LoopDone \/ LoopSelects
    \/ SelectReturns \/ SelectExpires \/ ReadEnd \/ ReadData \/ Drained
    \/ ReaperStarts \/ WaitBlocks \/ Collect \/ Decide \/ Disarm

Fail == ArmFails \/ IoFails

Timer == TimerFires \/ TimerInterruptsWait

Child ==
    \/ ChildStarts
    \/ \E p \in Pipe : ChildWants(p) \/ ChildCloses(p)
    \/ ChildWrites \/ ChildWritesToNoReader
    \/ ChildForksDaemon \/ ChildEnds

Next == Start \/ Continue \/ Fail \/ Timer \/ Child \/ DaemonEnds

Spec == Init /\ [][Next]_vars

\* The kernel schedules the parent, delivers the alarm and runs a new child as
\* far as execv.  No system call has to fail.
FairParent == Spec /\ WF_vars(Continue) /\ WF_vars(Timer) /\ WF_vars(ChildStarts)

\* In addition the command, and what it leaves behind, run to their end: a
\* write that never finds room is the only thing that can hold them up.
FairSpec == FairParent /\ WF_vars(Child) /\ SF_vars(ChildEnds) /\ WF_vars(DaemonEnds)

-----------------------------------------------------------------------------
(* Properties *)

Ended == pc = "idle" /\ child # "none"

\* "This ensures that the child won't become a zombie if an exception is thrown":
\* however execute throws, the child is neither running nor a zombie afterwards.
ThrowReapsChild ==
    Ended /\ outcome \in {"exit", "signal", "timeout", "error"} => child = "reaped"

\* When the output was read to its end, every chunk written to a pipe reached
\* the callback, though signals interrupt the reading and the pipes close in
\* any order.
NoOutputLost ==
    pc \in {"reap", "wait", "waitpid", "decide"} /\ ~killChild /\ ~early =>
        delivered = written

\* After a timeout no process of the command's group survives, its background
\* processes included.
TimeoutKillsGroup ==
    Ended /\ outcome = "timeout" /\ ~missed => child = "reaped" /\ daemon # "alive"

\* The alarm of one call never reaches the application or times out a later
\* call: it is off, and its flag clear, between calls.
TimeoutIsOwn ==
    /\ pc = "idle" => timer # "armed" /\ ~timedOut
    /\ pc = "disarm" /\ outcome = "timeout" => timer = "fired"

\* A command that ends makes execute return: however full its pipes and in
\* whatever order it writes and closes them, parent and child never wait for
\* each other.  (Unless it was missed by kill: then execute waits for a command
\* that nobody killed.)
ExecuteReturns == pc # "idle" ~> (pc = "idle" \/ missed)

\* "Wait for the child to exit": when execute returns normally, the child it
\* started has exited and is collected.
ReturnWaitsForChild == Ended /\ outcome \in {"ok", "failed"} => child = "reaped"

=============================================================================
