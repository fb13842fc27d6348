---------------------------- MODULE ExecuteProofs ----------------------------
(* What holds of a call of execute when it ends, for every capacity of the    *)
(* pipes, every amount of output and every exit code.                         *)
EXTENDS Execute, TLAPS

Reads  == {"arm", "loop", "select", "read", "drained"}
Reaps  == {"reap", "wait", "waitpid"}
Thrown == {"exit", "signal", "timeout", "error"}

---------------------------------------------------------------------------
(* The alarm *)

\* The alarm is off from Disarm to the next Arm: where the reaper runs for an exception
\* (killChild), too. An alarm that was noticed has fired.
AlarmIsOff == timer # "armed" /\ ~timedOut
OffBetween == pc \in {"idle", "arm"} \/ (pc \in Reaps /\ killChild) => AlarmIsOff
NoticedHasFired ==
    /\ timedOut => timer = "fired"
    /\ pc = "disarm" /\ outcome = "timeout" => timer = "fired"
AlarmInv == OffBetween /\ NoticedHasFired

LEMMA AlarmInit == Init => AlarmInv
BY DEF Init, AlarmInv, OffBetween, AlarmIsOff, NoticedHasFired, Reaps

LEMMA AlarmNext == AlarmInv /\ [Next]_vars => AlarmInv'
<1> SUFFICES ASSUME AlarmInv, [Next]_vars PROVE AlarmInv'
    OBVIOUS
<1> USE DEF AlarmInv, OffBetween, AlarmIsOff, NoticedHasFired, Reaps, alarm, parent, child_rest
<1>1. CASE Start
  <2>1. ASSUME NEW timed \in BOOLEAN, NEW piped \in {{"stdout"}, Pipe}, StartFails(timed, piped)
        PROVE AlarmInv'
      BY <2>1 DEF StartFails
  <2>2. ASSUME NEW timed \in BOOLEAN, NEW piped \in {{"stdout"}, Pipe}, Fork(timed, piped)
        PROVE AlarmInv'
      BY <2>2 DEF Fork
  <2> QED
      BY <1>1, <2>1, <2>2 DEF Start
<1>2. CASE Continue
  <2>1. CASE Arm BY <2>1 DEF Arm
  <2>2. CASE LoopTimesOut BY <2>2 DEF LoopTimesOut, Throw, reading
  <2>3. CASE LoopDone BY <2>3 DEF LoopDone, reading
  <2>4. CASE LoopSelects BY <2>4 DEF LoopSelects, reading
  <2>5. CASE SelectReturns BY <2>5 DEF SelectReturns, reading
  <2>6. CASE SelectExpires BY <2>6 DEF SelectExpires, reading
  <2>7. CASE ReadEnd BY <2>7 DEF ReadEnd, reading
  <2>8. CASE ReadData BY <2>8 DEF ReadData, Throw
  <2>9. CASE Drained BY <2>9 DEF Drained, Throw
  <2>10. CASE ReaperStarts BY <2>10 DEF ReaperStarts
  <2>11. CASE WaitBlocks BY <2>11 DEF WaitBlocks
  <2>12. CASE Collect BY <2>12 DEF Collect, AfterReaper
  <2>13. CASE Decide BY <2>13 DEF Decide
  <2>14. CASE Disarm BY <2>14 DEF Disarm
  <2> QED
      BY <1>2, <2>1, <2>2, <2>3, <2>4, <2>5, <2>6, <2>7, <2>8, <2>9, <2>10, <2>11, <2>12,
         <2>13, <2>14 DEF Continue
<1>3. CASE Fail BY <1>3 DEF Fail, ArmFails, IoFails, Throw, reading
<1>4. CASE Timer BY <1>4 DEF Timer, TimerFires, TimerInterruptsWait, AfterReaper
<1>5. CASE Child \/ DaemonEnds \/ UNCHANGED vars
  <2>1. UNCHANGED <<parent, alarm>>
      BY <1>5 DEF Child, ChildStarts, ChildSetsGroup, ChildExecs, ChildFails, ChildWants,
                  ChildCloses, ChildWrites, ChildWritesToNoReader, ChildForksDaemon, ChildEnds,
                  DaemonEnds, vars
  <2> QED
      BY <2>1
<1> QED
  BY <1>1, <1>2, <1>3, <1>4, <1>5 DEF Next

\* The alarm of one call never hits the application or times out a later call (TimeoutIsOwn).
THEOREM TimeoutIsOwnCorrect == Spec => []TimeoutIsOwn
<1>1. AlarmInv => TimeoutIsOwn
      BY DEF AlarmInv, OffBetween, AlarmIsOff, NoticedHasFired, TimeoutIsOwn
<1> QED
  BY AlarmInit, AlarmNext, <1>1, PTL DEF Spec

---------------------------------------------------------------------------
(* The child *)

\* While output is read an exception would find the reaper in place, told to kill.
ReaperWaits ==
    /\ pc \in Reads => killChild /\ reaper /\ outcome = "none"
    /\ pc \in Reads \cup Reaps => status = NotEnded
    /\ pc \in Reaps => reaper
    /\ pc = "disarm" /\ reaper => killChild /\ status = NotEnded
    /\ pc = "disarm" /\ outcome \in {"timeout", "error"} => reaper
    /\ pc \in Reaps /\ ~killChild => outcome = "none"
\* A status comes from waitpid, which leaves the child reaped.
StatusIsReaped ==
    /\ pc = "decide" => outcome = "none" /\ ~reaper /\ (child = "reaped" \/ status = NotEnded)
    /\ pc = "disarm" /\ ~reaper /\ outcome \in Thrown => child = "reaped"
\* What the group leaves after the kill.
GroupIsKilled ==
    pc \in {"wait", "waitpid"} /\ killChild /\ ~missed => ~Alive /\ daemon # "alive"
ReaperInv ==
    /\ ReaperWaits /\ StatusIsReaped /\ GroupIsKilled
    /\ ThrowReapsChild /\ TimeoutKillsGroup

LEMMA ReaperInit == Init => ReaperInv
BY DEF Init, ReaperInv, ReaperWaits, StatusIsReaped, GroupIsKilled, ThrowReapsChild,
       TimeoutKillsGroup, Ended, Reads, Reaps, NotEnded

LEMMA ReaperNext == AlarmInv /\ ReaperInv /\ [Next]_vars => ReaperInv'
<1> SUFFICES ASSUME AlarmInv, ReaperInv, [Next]_vars PROVE ReaperInv'
    OBVIOUS
<1> USE DEF ReaperInv, ReaperWaits, StatusIsReaped, GroupIsKilled, ThrowReapsChild,
            TimeoutKillsGroup, Ended, Alive, Reads, Reaps, Thrown, parent, process, child_rest,
            NotEnded
<1>1. CASE Start
  <2>1. ASSUME NEW timed \in BOOLEAN, NEW piped \in {{"stdout"}, Pipe}, StartFails(timed, piped)
        PROVE ReaperInv'
      BY <2>1 DEF StartFails, NewCall
  <2>2. ASSUME NEW timed \in BOOLEAN, NEW piped \in {{"stdout"}, Pipe}, Fork(timed, piped)
        PROVE ReaperInv'
      BY <2>2 DEF Fork, NewCall
  <2> QED
      BY <1>1, <2>1, <2>2 DEF Start
<1>2. CASE Continue
  <2>1. CASE Arm BY <2>1 DEF Arm
  <2>2. CASE LoopTimesOut BY <2>2 DEF LoopTimesOut, Throw, reading
  <2>3. CASE LoopDone BY <2>3 DEF LoopDone, reading
  <2>4. CASE LoopSelects BY <2>4 DEF LoopSelects, reading
  <2>5. CASE SelectReturns BY <2>5 DEF SelectReturns, reading
  <2>6. CASE SelectExpires BY <2>6 DEF SelectExpires, reading
  <2>7. CASE ReadEnd BY <2>7 DEF ReadEnd, reading
  <2>8. CASE ReadData BY <2>8 DEF ReadData, Throw
  <2>9. CASE Drained BY <2>9 DEF Drained, Throw
  <2>10. CASE ReaperStarts BY <2>10 DEF ReaperStarts, KillGroup, Ends
  <2>11. CASE WaitBlocks BY <2>11 DEF WaitBlocks
  <2>12. CASE Collect BY <2>12 DEF Collect, AfterReaper
  <2>13. CASE Decide BY <2>13 DEF Decide, Succeeded, Signaled
  <2>14. CASE Disarm BY <2>14 DEF Disarm
  <2> QED
      BY <1>2, <2>1, <2>2, <2>3, <2>4, <2>5, <2>6, <2>7, <2>8, <2>9, <2>10, <2>11, <2>12,
         <2>13, <2>14 DEF Continue
<1>3. CASE Fail BY <1>3 DEF Fail, ArmFails, IoFails, Throw, reading
<1>4. CASE Timer
    BY <1>4 DEF Timer, TimerFires, TimerInterruptsWait, AfterReaper, AlarmInv, OffBetween,
                AlarmIsOff
<1>5. CASE Child \/ DaemonEnds \/ UNCHANGED vars
  <2>1. /\ UNCHANGED <<parent, missed>>
        /\ child \notin {"forked", "running"} => child' = child /\ (daemon' = "alive" => daemon = "alive")
      BY <1>5 DEF Child, ChildStarts, ChildSetsGroup, ChildExecs, ChildFails, ChildWants,
                  ChildCloses, ChildWrites, ChildWritesToNoReader, ChildForksDaemon, ChildEnds,
                  DaemonEnds, Free, Ends, vars
  <2> QED
      BY <2>1
<1> QED
  BY <1>1, <1>2, <1>3, <1>4, <1>5 DEF Next

\* However execute throws, the child it started is neither running nor a zombie when the
\* exception leaves it (ThrowReapsChild).
THEOREM ThrowReapsChildCorrect == Spec => []ThrowReapsChild
<1>1. ReaperInv => ThrowReapsChild
      BY DEF ReaperInv
<1> QED
  BY AlarmInit, AlarmNext, ReaperInit, ReaperNext, <1>1, PTL DEF Spec

\* After a timeout no process of the command's group is left, unless kill found no group
\* (TimeoutKillsGroup).
THEOREM TimeoutKillsGroupCorrect == Spec => []TimeoutKillsGroup
<1>1. ReaperInv => TimeoutKillsGroup
      BY DEF ReaperInv
<1> QED
  BY AlarmInit, AlarmNext, ReaperInit, ReaperNext, <1>1, PTL DEF Spec

---------------------------------------------------------------------------
(* The output *)

DataType ==
    /\ buffer \in [Pipe -> Nat] /\ written \in [Pipe -> Nat] /\ delivered \in [Pipe -> Nat]
    /\ watching \subseteq Pipe /\ ready \subseteq Pipe /\ call.piped \subseteq Pipe
    /\ childEnds \subseteq Pipe /\ daemonEnds \subseteq Pipe /\ parentEnds \subseteq Pipe
\* Nothing is in the pipe and nobody can write to it any more.
Closed(p) == buffer[p] = 0 /\ p \notin childEnds \cup daemonEnds
Counted == \A p \in Pipe : written[p] = delivered[p] + buffer[p]
WantsAnEnd == Alive /\ wants # "none" => wants \in childEnds
\* A pipe is left alone only when it has closed, and select said so of what is read.
ClosedUnlessWatched ==
    /\ \A p \in Pipe \ call.piped : Closed(p)
    /\ pc \in {"loop", "select", "read"} => \A p \in Pipe \ watching : Closed(p)
    /\ pc = "read" => ready # {} /\ \A p \in ready : Readable(p)
    /\ pc \in {"drained"} \cup Reaps \cup {"decide"} /\ (pc = "drained" \/ ~killChild) /\ ~early =>
           \A p \in Pipe : Closed(p)
DataInv == DataType /\ Counted /\ WantsAnEnd /\ ClosedUnlessWatched

LEMMA DataInit == Init => DataInv
BY DEF Init, DataInv, DataType, Counted, WantsAnEnd, Alive, ClosedUnlessWatched, Closed, Pipe, Reaps

\* A read takes what it returns out of the pipe and passes it on.
LEMMA ReadTakes ==
  ReadData => \E n \in 1..buffer[Current] :
                  /\ buffer' = [buffer EXCEPT ![Current] = @ - n]
                  /\ delivered' = [delivered EXCEPT ![Current] = @ + n]
BY DEF ReadData

LEMMA DataNext == ReaperInv /\ DataInv /\ [Next]_vars => DataInv'
<1> SUFFICES ASSUME ReaperInv, DataInv, [Next]_vars PROVE DataInv'
    OBVIOUS
<1> USE DEF DataInv, DataType, Counted, WantsAnEnd, Alive, ClosedUnlessWatched, Closed, Readable,
            Reaps, parent, process, data, child_rest
<1>1. CASE Start
  <2>1. ASSUME NEW timed \in BOOLEAN, NEW piped \in {{"stdout"}, Pipe}, StartFails(timed, piped)
        PROVE DataInv'
      BY <2>1 DEF StartFails, NewCall, Pipe
  <2>2. ASSUME NEW timed \in BOOLEAN, NEW piped \in {{"stdout"}, Pipe}, Fork(timed, piped)
        PROVE DataInv'
      BY <2>2 DEF Fork, NewCall, Pipe
  <2> QED
      BY <1>1, <2>1, <2>2 DEF Start
<1>2. CASE Continue
  <2>1. CASE Arm BY <2>1 DEF Arm, Closed
  <2>2. CASE LoopTimesOut BY <2>2 DEF LoopTimesOut, Throw, reading
  <2>3. CASE LoopDone BY <2>3 DEF LoopDone, reading
  <2>4. CASE LoopSelects BY <2>4 DEF LoopSelects, reading
  <2>5. CASE SelectReturns BY <2>5 DEF SelectReturns, reading, Readable
  <2>6. CASE SelectExpires BY <2>6 DEF SelectExpires, reading
  <2>7. CASE ReadEnd
    <3>1. Current \in ready /\ pc = "read"
        BY <2>7 DEF ReadEnd, Current, Pipe
    <3>2. Closed(Current)
        BY <2>7, <3>1 DEF ReadEnd
    <3> QED
        BY <2>7, <3>1, <3>2 DEF ReadEnd, reading
  <2>8. CASE ReadData
    <3>1. Current \in ready /\ Current \in Pipe /\ pc = "read"
      <4>1. pc = "read" BY <2>8 DEF ReadData
      <4>2. ready # {} /\ ready \subseteq Pipe BY <4>1
      <4>3. QED BY <4>1, <4>2 DEF Current, Pipe
    <3>2. PICK n \in 1..buffer[Current] :
              /\ buffer' = [buffer EXCEPT ![Current] = @ - n]
              /\ delivered' = [delivered EXCEPT ![Current] = @ + n]
        BY <2>8, ReadTakes
    <3>3. /\ buffer' \in [Pipe -> Nat] /\ delivered' \in [Pipe -> Nat]
          /\ \A p \in Pipe : written[p] = delivered'[p] + buffer'[p]
          /\ \A p \in Pipe \ {Current} : buffer'[p] = buffer[p]
        BY <3>1, <3>2
    <3>4. UNCHANGED <<call, watching, killChild, childEnds, daemonEnds, parentEnds, child,
                      wants, written>>
        BY <2>8 DEF ReadData
    <3>5. \A p \in Pipe : Closed(p) => Closed(p)' 
        BY <3>1, <3>2, <3>4
    <3>6. DataType' /\ Counted' /\ WantsAnEnd'
        BY <2>8, <3>3, <3>4 DEF ReadData
    <3>7. CASE /\ ready' = ready \ {Current}
               /\ pc' = IF ready' = {} THEN "loop" ELSE "read"
        BY <3>1, <3>3, <3>4, <3>5, <3>6, <3>7
    <3>8. CASE early' = TRUE /\ pc' = "drained"
        BY <3>4, <3>5, <3>6, <3>8
    <3>9. CASE Throw("error")
        BY <3>4, <3>5, <3>6, <3>9 DEF Throw
    <3> QED
        BY <2>8, <3>7, <3>8, <3>9 DEF ReadData
  <2>9. CASE Drained BY <2>9 DEF Drained, Throw
  <2>10. CASE ReaperStarts BY <2>10 DEF ReaperStarts, KillGroup, Ends, Closed
  <2>11. CASE WaitBlocks BY <2>11 DEF WaitBlocks
  <2>12. CASE Collect BY <2>12 DEF Collect, AfterReaper
  <2>13. CASE Decide BY <2>13 DEF Decide
  <2>14. CASE Disarm BY <2>14 DEF Disarm, ReaperInv, ReaperWaits
  <2> QED
      BY <1>2, <2>1, <2>2, <2>3, <2>4, <2>5, <2>6, <2>7, <2>8, <2>9, <2>10, <2>11, <2>12,
         <2>13, <2>14 DEF Continue
<1>3. CASE Fail BY <1>3 DEF Fail, ArmFails, IoFails, Throw, reading
<1>4. CASE Timer
    BY <1>4 DEF Timer, TimerFires, TimerInterruptsWait, AfterReaper
<1>5. CASE Child
  <2>1. CASE ChildStarts
      BY <2>1 DEF ChildStarts, ChildSetsGroup, ChildExecs, ChildFails, Ends
  <2>2. ASSUME NEW p \in Pipe, ChildWants(p) \/ ChildCloses(p) PROVE DataInv'
    <3>1. CASE ChildWants(p) BY <3>1 DEF ChildWants, Free
    <3>2. CASE ChildCloses(p) BY <3>2 DEF ChildCloses, Free
    <3> QED
        BY <2>2, <3>1, <3>2
  <2>3. CASE ChildWrites
    <3>1. wants \in Pipe /\ wants \in childEnds
        BY <2>3 DEF ChildWrites, Pipe
    <3>2. /\ buffer' \in [Pipe -> Nat] /\ written' \in [Pipe -> Nat]
          /\ \A p \in Pipe : written'[p] = delivered[p] + buffer'[p]
          /\ \A p \in Pipe : buffer'[p] # 0 \/ buffer'[p] = buffer[p]
          /\ \A p \in Pipe \ {wants} : buffer'[p] = buffer[p]
          /\ buffer'[wants] > 0
        BY <2>3, <3>1 DEF ChildWrites
    <3>3. UNCHANGED <<pc, call, watching, ready, early, killChild, childEnds, daemonEnds,
                      parentEnds, child, delivered>> /\ wants' = "none"
        BY <2>3 DEF ChildWrites
    <3> QED
        BY <3>1, <3>2, <3>3
  <2>4. CASE ChildWritesToNoReader BY <2>4 DEF ChildWritesToNoReader, Ends
  <2>5. CASE ChildForksDaemon BY <2>5 DEF ChildForksDaemon, Free
  <2>6. CASE ChildEnds BY <2>6 DEF ChildEnds, Ends
  <2> QED
      BY <1>5, <2>1, <2>2, <2>3, <2>4, <2>5, <2>6 DEF Child
<1>6. CASE DaemonEnds BY <1>6 DEF DaemonEnds
<1>7. CASE UNCHANGED vars BY <1>7 DEF vars
<1> QED
  BY <1>1, <1>2, <1>3, <1>4, <1>5, <1>6, <1>7 DEF Next

\* When the output was read to its end, every chunk written reached the callback, for pipes of
\* any capacity and any amount of output (NoOutputLost).
THEOREM NoOutputLostCorrect == Spec => []NoOutputLost
<1>1. DataInv => NoOutputLost
  <2> SUFFICES ASSUME DataInv, pc \in Reaps \cup {"decide"}, ~killChild, ~early
               PROVE delivered = written
      BY DEF NoOutputLost, Reaps
  <2>1. \A p \in Pipe : delivered[p] = written[p]
      BY DEF DataInv, DataType, Counted, ClosedUnlessWatched, Closed, Reaps
  <2> QED
      BY <2>1 DEF DataInv, DataType
<1> QED
  BY AlarmInit, AlarmNext, ReaperInit, ReaperNext, DataInit, DataNext, <1>1, PTL DEF Spec

===============================================================================
