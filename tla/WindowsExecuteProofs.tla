------------------------- MODULE WindowsExecuteProofs -------------------------
(* What holds of a call of execute on Windows, for every capacity of the      *)
(* pipes, every amount of output and all arguments: what has been read and    *)
(* what has been ended when it ends, and that the arguments arrive.           *)
EXTENDS WindowsExecute, SequenceTheorems, TLAPS

-----------------------------------------------------------------------------
(* The inductive invariants *)

\* Until the loop over the pipes starts nothing is read, and until the child is
\* created nothing is written.
Opens   == {"start", "create"}
Assigns == {"start", "create", "assign"}
OpenAtFirst ==
    /\ pc \in Assigns => turn = "stdout"
    /\ pc \in Opens => "stdout" \notin closed /\ child = "none"
    /\ child = "none" => wants = "none" /\ buffer["stdout"] = 0

\* A process writes to a pipe it keeps open.
WritesToOpen == wants # "none" => wants \in childEnds

\* A pipe whose handle is given up is empty, and nobody can write to it.
Drained ==
    "stdout" \in closed =>
        buffer["stdout"] = 0 /\ "stdout" \notin childEnds \cup daemonEnds

\* The call came to its end; one whose command could not be started wrote nothing.
Returned == pc = "done" /\ outcome \notin {"error", "timeout"} /\ child # "none"

\* Standard output has a read pending or is given up whenever the loop has passed
\* it; only a callback that is done ends the reading before it is given up.
Passed ==
    /\ (pc = "read" /\ turn # "stdout") \/ pc = "wait" => "stdout" \in closed \cup pending
    /\ (pc = "process" \/ Returned) /\ ~early => "stdout" \in closed
    /\ pc = "throw" => outcome \in {"error", "timeout"}

ReadInv ==
    /\ buffer \in [Pipe -> Nat] /\ turn \in Pipe
    /\ OpenAtFirst /\ WritesToOpen /\ Drained /\ Passed

\* The reaper is armed from the assignment to the job until the end of the process is seen.
Armed ==
    /\ pc \in Assigns => ~assigned
    /\ pc \in {"read", "wait", "process"} => terminate
    /\ pc = "throw" => terminate \/ (child = "exited" /\ outcome = "error")

JobInv == Armed /\ ExceptionEndsJob

-----------------------------------------------------------------------------
(* Everything is read *)

LEMMA ReadInit == Init => ReadInv
BY DEF Init, ReadInv, OpenAtFirst, Opens, Assigns, WritesToOpen, Drained, Passed, Returned, Pipe

\* Chunks of one pipe are taken: the rest stays as it was.
LEMMA DeliverKeeps ==
  ASSUME ReadInv, NEW p \in Pipe, NEW q \in Pipe, Deliver(p, q)
  PROVE  /\ buffer' \in [Pipe -> Nat]
         /\ p # "stdout" => buffer'["stdout"] = buffer["stdout"]
         /\ p = "stdout" => buffer["stdout"] # 0
<1>1. PICK n \in 1 .. buffer[p] : buffer' = [buffer EXCEPT ![p] = @ - n]
  BY DEF Deliver
<1>2. buffer \in [Pipe -> Nat] /\ buffer[p] \in Nat /\ "stdout" \in Pipe
  BY DEF ReadInv, Pipe
<1>3. buffer[p] - n \in Nat /\ buffer[p] # 0
  BY <1>1, <1>2
<1>4. QED BY <1>1, <1>2, <1>3

\* After a delivery the loop goes on with a pipe, ends early, or throws.
LEMMA DeliverReads ==
  ASSUME ReadInv, NEW p \in Pipe, NEW q \in Pipe, Deliver(p, q), pc \in {"read", "wait"},
         q # "stdout" => "stdout" \in closed \cup pending',
         p = "stdout" => "stdout" \notin closed
  PROVE  ReadInv'
<1>1. /\ buffer' \in [Pipe -> Nat]
      /\ p # "stdout" => buffer'["stdout"] = buffer["stdout"]
      /\ p = "stdout" => "stdout" \notin closed
  BY DeliverKeeps
<1>2. /\ UNCHANGED <<process, closed>>
      /\ \/ pc' = "read" /\ turn' = q /\ UNCHANGED early
         \/ pc' = "process" /\ early' = TRUE /\ UNCHANGED turn
         \/ pc' = "throw" /\ outcome' = "error" /\ UNCHANGED turn
  BY DEF Deliver, Throw
<1>3. WritesToOpen' /\ turn' \in Pipe
  BY <1>2 DEF ReadInv, WritesToOpen, process
<1>4. Drained'
  BY <1>1, <1>2 DEF ReadInv, Drained, process
<1>5. OpenAtFirst' /\ Passed'
  BY <1>1, <1>2, DeliverKeeps DEF ReadInv, OpenAtFirst, Opens, Assigns, Passed, Returned, process
<1>6. QED BY <1>1, <1>3, <1>4, <1>5 DEF ReadInv

\* The parent.
LEMMA ParentReads ==
  ASSUME ReadInv, Parent
  PROVE  ReadInv'
<1> USE DEF ReadInv, OpenAtFirst, Opens, Assigns, WritesToOpen, Drained, Passed, Returned, Pipe,
            texts, reads, fate, process, data
<1>1. CASE Compose
  BY <1>1 DEF Compose
<1>2. CASE Create
  BY <1>2 DEF Create
<1>3. CASE Assign
  BY <1>3 DEF Assign
<1>4. CASE SkipPipe
  BY <1>4 DEF SkipPipe
<1>5. CASE ReadTimesOut
  BY <1>5 DEF ReadTimesOut, Reads, Throw
<1>6. CASE ReadNow
  BY <1>6, DeliverReads DEF ReadNow, Reads
<1>7. CASE ReadBroken
  BY <1>7 DEF ReadBroken, Reads, NextPipe, Writers
<1>8. CASE ReadPends
  BY <1>8 DEF ReadPends, Reads, NextPipe
<1>9. CASE WaitNothing
  BY <1>9 DEF WaitNothing
<1>10. CASE WaitTimesOut
  BY <1>10 DEF WaitTimesOut, Throw
<1>11. ASSUME NEW p \in Pipe, WaitData(p) PROVE ReadInv'
  BY <1>11, DeliverReads DEF WaitData, Woken
<1>12. ASSUME NEW p \in Pipe, WaitBroken(p) PROVE ReadInv'
  BY <1>12 DEF WaitBroken, Woken, Signaled, Writers
<1>13. CASE ProcessEnds
  BY <1>13 DEF ProcessEnds, Throw
<1>14. CASE ProcessTimesOut
  BY <1>14 DEF ProcessTimesOut, Throw
<1>15. CASE Reap
  BY <1>15 DEF Reap, JobEnds
<1>16. QED
  BY <1>1, <1>2, <1>3, <1>4, <1>5, <1>6, <1>7, <1>8, <1>9, <1>10, <1>11, <1>12, <1>13,
     <1>14, <1>15 DEF Parent


\* The command and what it starts, which write to pipes and close them; the
\* failures and the timer.
LEMMA OthersRead ==
  ASSUME ReadInv, Child \/ DaemonExits \/ TimerFires \/ Failure
  PROVE  ReadInv'
<1> USE DEF ReadInv, OpenAtFirst, Opens, Assigns, WritesToOpen, Drained, Passed, Returned, Pipe,
            texts, reads, fate, process, data, outside
<1>1. CASE ChildWrites
  <2>1. /\ wants \in childEnds /\ wants \in {"stdout", "stderr"} => wants \in Pipe
        /\ buffer' = [buffer EXCEPT ![wants] = @ + 1]
    BY <1>1 DEF ChildWrites
  <2>2. "stdout" \in closed => wants # "stdout"
    BY <2>1
  <2>3. buffer' \in [Pipe -> Nat]
    <3>1. CASE wants \in Pipe
      <4>1. buffer[wants] + 1 \in Nat
        BY <3>1
      <4>2. QED BY <2>1, <3>1, <4>1
    <3>2. CASE wants \notin Pipe
      BY <2>1, <3>2
    <3>3. QED BY <3>1, <3>2
  <2>4. wants # "stdout" => buffer'["stdout"] = buffer["stdout"]
    BY <2>1
  <2>5. QED BY <1>1, <2>2, <2>3, <2>4 DEF ChildWrites
<1>2. CASE ChildWriteFails
  BY <1>2 DEF ChildWriteFails
<1>3. CASE ChildSpawns
  BY <1>3 DEF ChildSpawns
<1>4. CASE ChildExits
  BY <1>4 DEF ChildExits
<1>5. ASSUME NEW p \in Pipe, ChildWants(p) PROVE ReadInv'
  BY <1>5 DEF ChildWants
<1>6. ASSUME NEW p \in Pipe, ChildCloses(p) PROVE ReadInv'
  BY <1>6 DEF ChildCloses
<1>7. CASE DaemonExits
  BY <1>7 DEF DaemonExits
<1>8. CASE TimerFires
  BY <1>8 DEF TimerFires
<1>9. CASE StartFails
  BY <1>9 DEF StartFails
<1>10. CASE AssignFails
  BY <1>10 DEF AssignFails
<1>11. CASE CallFails
  BY <1>11 DEF CallFails, Throw
<1>12. QED
  BY <1>1, <1>2, <1>3, <1>4, <1>5, <1>6, <1>7, <1>8, <1>9, <1>10, <1>11 DEF Child, Failure

\* A call that returns without a callback being done has passed on all of stdout:
\* its handle is given up only when the pipe is empty and has no writer left.
THEOREM StdoutIsCompleteCorrect == Spec => []StdoutIsComplete
<1>1. ReadInv /\ [Next]_vars => ReadInv'
  <2>1. ReadInv /\ UNCHANGED vars => ReadInv'
    BY DEF ReadInv, OpenAtFirst, Opens, Assigns, WritesToOpen, Drained, Passed, Returned, vars,
           texts, reads, fate, process, data
  <2>2. QED BY <2>1, ParentReads, OthersRead DEF Next
<1>2. ReadInv => StdoutIsComplete
  BY DEF ReadInv, OpenAtFirst, Drained, Passed, Returned, StdoutIsComplete
<1>3. QED BY <1>1, <1>2, ReadInit, PTL DEF Spec

-----------------------------------------------------------------------------
(* Nothing of the job runs on *)

LEMMA ParentReaps ==
  ASSUME JobInv, Parent
  PROVE  JobInv'
<1> USE DEF JobInv, Armed, Assigns, ExceptionEndsJob, texts, reads, fate, process, data
<1>1. CASE Compose BY <1>1 DEF Compose
<1>2. CASE Create BY <1>2 DEF Create
<1>3. CASE Assign BY <1>3 DEF Assign
<1>4. CASE SkipPipe BY <1>4 DEF SkipPipe
<1>5. CASE ReadTimesOut BY <1>5 DEF ReadTimesOut, Reads, Throw
<1>6. CASE ReadNow BY <1>6 DEF ReadNow, Reads, Deliver, Throw
<1>7. CASE ReadBroken BY <1>7 DEF ReadBroken, Reads, NextPipe
<1>8. CASE ReadPends BY <1>8 DEF ReadPends, Reads, NextPipe
<1>9. CASE WaitNothing BY <1>9 DEF WaitNothing
<1>10. CASE WaitTimesOut BY <1>10 DEF WaitTimesOut, Throw
<1>11. ASSUME NEW p \in Pipe, WaitData(p) PROVE JobInv'
  BY <1>11 DEF WaitData, Woken, Deliver, Throw
<1>12. ASSUME NEW p \in Pipe, WaitBroken(p) PROVE JobInv'
  BY <1>12 DEF WaitBroken, Woken
<1>13. CASE ProcessEnds BY <1>13 DEF ProcessEnds, Throw
<1>14. CASE ProcessTimesOut BY <1>14 DEF ProcessTimesOut, Throw
<1>15. CASE Reap BY <1>15 DEF Reap, JobEnds
<1>16. QED
  BY <1>1, <1>2, <1>3, <1>4, <1>5, <1>6, <1>7, <1>8, <1>9, <1>10, <1>11, <1>12, <1>13,
     <1>14, <1>15 DEF Parent

LEMMA OthersReap ==
  ASSUME JobInv, TimerFires \/ (pc # "done" /\ (Child \/ DaemonExits)) \/ Failure
  PROVE  JobInv'
<1> USE DEF JobInv, Armed, Assigns, ExceptionEndsJob, texts, reads, fate, process, data, outside
<1>1. CASE TimerFires BY <1>1 DEF TimerFires
<1>2. CASE pc # "done" /\ (Child \/ DaemonExits)
  <2>1. UNCHANGED outside /\ (child = "exited" => child' = "exited")
    BY <1>2 DEF Child, ChildWrites, ChildWriteFails, ChildSpawns, ChildExits, ChildWants,
                ChildCloses, DaemonExits
  <2>2. QED BY <1>2, <2>1
<1>3. CASE StartFails BY <1>3 DEF StartFails
<1>4. CASE AssignFails BY <1>4 DEF AssignFails
<1>5. CASE CallFails BY <1>5 DEF CallFails, Throw
<1>6. QED BY <1>1, <1>2, <1>3, <1>4, <1>5 DEF Failure

\* However a call throws once the child is in its job, the reaper is armed, and ends all of
\* the job if it can, unless the child itself has ended already and no timeout is reported.
THEOREM ExceptionEndsJobCorrect == Spec => []ExceptionEndsJob
<1>1. Init => JobInv
  BY DEF Init, JobInv, Armed, Assigns, ExceptionEndsJob
<1>2. JobInv /\ [Next]_vars => JobInv'
  <2>1. JobInv /\ UNCHANGED vars => JobInv'
    BY DEF JobInv, Armed, Assigns, ExceptionEndsJob, vars, texts, reads, fate, process, data
  <2>2. QED BY <2>1, ParentReaps, OthersReap DEF Next
<1>3. JobInv => ExceptionEndsJob
  BY DEF JobInv
<1>4. QED BY <1>1, <1>2, <1>3, PTL DEF Spec


-----------------------------------------------------------------------------
(* The command line: the folds of CommandLine.tla *)

Writing  == INSTANCE FoldFacts WITH op <- Put
Reading  == INSTANCE FoldFacts WITH op <- Take
Lining   == INSTANCE FoldFacts WITH op <- Extend
Choosing == INSTANCE FoldFacts WITH op <- Keep

PutAll(s, text)     == FoldLeft(Put, s, text)
TakeAll(s, text)    == FoldLeft(Take, s, text)
LineOf(args)        == FoldLeft(Extend, <<>>, args)

LEMMA PutAllIsFold ==
  ASSUME NEW s, NEW text
  PROVE  PutAll(s, text) = Writing!Fold(s, text)
<1> HIDE DEF Put
<1>1. QED
  BY DEF PutAll, FoldLeft, MapThenFoldSet, Max,
         Writing!Fold, Writing!FoldLeft, Writing!MapThenFoldSet, Writing!Max

LEMMA TakeAllIsFold ==
  ASSUME NEW s, NEW text
  PROVE  TakeAll(s, text) = Reading!Fold(s, text)
<1> HIDE DEF Take
<1>1. QED
  BY DEF TakeAll, FoldLeft, MapThenFoldSet, Max,
         Reading!Fold, Reading!FoldLeft, Reading!MapThenFoldSet, Reading!Max

LEMMA LineOfIsFold ==
  ASSUME NEW args
  PROVE  LineOf(args) = Lining!Fold(<<>>, args)
<1> HIDE DEF Extend
<1>1. QED
  BY DEF LineOf, FoldLeft, MapThenFoldSet, Max,
         Lining!Fold, Lining!FoldLeft, Lining!MapThenFoldSet, Lining!Max

LEMMA GivenIsFold ==
  ASSUME NEW args
  PROVE  Given(args) = Choosing!Fold(<<>>, args)
<1> HIDE DEF Keep
<1>1. QED
  BY DEF Given, FoldLeft, MapThenFoldSet, Max,
         Choosing!Fold, Choosing!FoldLeft, Choosing!MapThenFoldSet, Choosing!Max

\* What the folds compute, step by step.
LEMMA PutSteps ==
  ASSUME NEW S, NEW text \in Seq(S), NEW c \in S, NEW s
  PROVE  /\ PutAll(s, <<>>) = s
         /\ PutAll(s, Append(text, c)) = Put(PutAll(s, text), c)
<1> HIDE DEF Put
<1>1. QED BY PutAllIsFold, Writing!FoldEmpty, Writing!FoldAppend

LEMMA TakeSteps ==
  ASSUME NEW S, NEW text \in Seq(S), NEW c \in S, NEW s
  PROVE  /\ TakeAll(s, <<>>) = s
         /\ TakeAll(s, Append(text, c)) = Take(TakeAll(s, text), c)
<1> HIDE DEF Take
<1>1. QED BY TakeAllIsFold, Reading!FoldEmpty, Reading!FoldAppend

LEMMA TakeConcat ==
  ASSUME NEW S, NEW text \in Seq(S), NEW more \in Seq(S), NEW s
  PROVE  TakeAll(s, text \o more) = TakeAll(TakeAll(s, text), more)
<1> HIDE DEF Take
<1>1. QED BY TakeAllIsFold, Reading!FoldConcat

LEMMA LineSteps ==
  ASSUME NEW S, NEW args \in Seq(S), NEW a \in S
  PROVE  /\ LineOf(<<>>) = <<>>
         /\ LineOf(Append(args, a)) = Extend(LineOf(args), a)
<1> HIDE DEF Extend
<1>1. QED BY LineOfIsFold, Lining!FoldEmpty, Lining!FoldAppend

LEMMA GivenSteps ==
  ASSUME NEW S, NEW args \in Seq(S), NEW a \in S
  PROVE  /\ Given(<<>>) = <<>>
         /\ Given(Append(args, a)) = Keep(Given(args), a)
<1> HIDE DEF Keep
<1>1. QED BY GivenIsFold, Choosing!FoldEmpty, Choosing!FoldAppend

-----------------------------------------------------------------------------
(* The command line: an argument is read back *)

\* One more backslash is put at the end.
LEMMA BackslashesGrow ==
  ASSUME NEW S, Backslash \in S, NEW n \in Nat, NEW q \in Seq(S)
  PROVE  /\ Backslashes(0) = <<>>
         /\ Backslashes(n) \in Seq(S)
         /\ Backslashes(n + 1) = Append(Backslashes(n), Backslash)
         /\ q \o Backslashes(n) \in Seq(S)
         /\ q \o Backslashes(n + 1) = Append(q \o Backslashes(n), Backslash)
<1>1. Backslashes(0) = <<>>
  BY DEF Backslashes
<1>2. Backslashes(n) \in Seq(S)
  BY DEF Backslashes
<1>3. Backslashes(n + 1) = Append(Backslashes(n), Backslash)
  BY DEF Backslashes
<1>4. q \o Backslashes(n) \in Seq(S)
  BY <1>2, ConcatProperties
<1>5. q \o Append(Backslashes(n), Backslash) = Append(q \o Backslashes(n), Backslash)
  BY <1>2, <1>4, AppendIsConcat, ConcatAssociative, ConcatProperties
<1>6. QED BY <1>1, <1>2, <1>3, <1>4, <1>5

\* Backslashes wait until the character after them is known.
LEMMA TakeBackslashes ==
  ASSUME NEW words, NEW word, NEW held \in Nat, NEW n \in Nat
  PROVE  TakeAll(State(words, word, held, "quoted"), Backslashes(n)) =
             State(words, word, held + n, "quoted")
<1> DEFINE s == State(words, word, held, "quoted")
           T == {m \in Nat : TakeAll(s, Backslashes(m)) = State(words, word, held + m, "quoted")}
<1>1. 0 \in T
  <2>1. Backslashes(0) = <<>>
    BY DEF Backslashes
  <2>2. TakeAll(s, <<>>) = s
    BY TakeSteps, EmptySeq
  <2>3. QED BY <2>1, <2>2
<1>2. ASSUME NEW m \in Nat, m \in T PROVE m + 1 \in T
  <2>1. Backslashes(m) \in Seq({Backslash}) /\ Backslashes(m + 1) = Append(Backslashes(m), Backslash)
    BY BackslashesGrow, EmptySeq
  <2>2. TakeAll(s, Backslashes(m + 1)) = Take(TakeAll(s, Backslashes(m)), Backslash)
    BY <2>1, TakeSteps
  <2> DEFINE h == held + m
  <2>3. Take(State(words, word, h, "quoted"), Backslash) =
            State(words, word, h + 1, "quoted")
    <3> HIDE DEF h
    <3>1. QED BY DEF Take, State, Begun, Quote, Backslash, Blank
  <2>4. h + 1 = held + (m + 1)
    OBVIOUS
  <2> HIDE DEF s
  <2>5. QED BY <1>2, <2>2, <2>3, <2>4
<1> HIDE DEF T
<1>3. Nat \subseteq T
  BY <1>1, <1>2, Reading!NatInduct
<1>4. QED BY <1>3 DEF T

\* State quotes every other character, a blank too, is one of the argument.
LEMMA TakeOther ==
  ASSUME NEW words, NEW word, NEW held \in Nat, NEW c, c \notin {Backslash, Quote}
  PROVE  Take(State(words, word, held, "quoted"), c) =
             State(words, word \o Backslashes(held) \o <<c>>, 0, "quoted")
BY DEF Take, State, Begun

\* An odd number of backslashes makes a quote one of the argument, an even one does not.
LEMMA TakeQuote ==
  ASSUME NEW words, NEW word, NEW held \in Nat
  PROVE  /\ Take(State(words, word, 2 * held + 1, "quoted"), Quote) =
                State(words, word \o Backslashes(held) \o <<Quote>>, 0, "quoted")
         /\ Take(State(words, word, 2 * held, "quoted"), Quote) =
                State(words, word \o Backslashes(held), 0, "bare")
<1>1. Quote # Backslash /\ Quote # Blank /\ Blank # Backslash
  BY DEF Quote, Backslash, Blank
<1>2. /\ (2 * held + 1) % 2 = 1 /\ (2 * held + 1) \div 2 = held
      /\ (2 * held) % 2 = 0 /\ (2 * held) \div 2 = held
  OBVIOUS
<1>3. Take(State(words, word, 2 * held + 1, "quoted"), Quote) =
          State(words, word \o Backslashes(held) \o <<Quote>>, 0, "quoted")
  <2> DEFINE h == 2 * held + 1
  <2>1. h \in Nat /\ h % 2 = 1 /\ h \div 2 = held
    BY <1>2
  <2> HIDE DEF h
  <2>2. Take(State(words, word, h, "quoted"), Quote) =
            State(words, word \o Backslashes(h \div 2) \o <<Quote>>, 0, "quoted")
    BY <1>1, <2>1 DEF Take, State, Begun
  <2>3. QED BY <2>1, <2>2 DEF h
<1>4. Take(State(words, word, 2 * held, "quoted"), Quote) =
          State(words, word \o Backslashes(held), 0, "bare")
  <2> DEFINE h == 2 * held
  <2>1. h \in Nat /\ h % 2 = 0 /\ h \div 2 = held
    BY <1>2
  <2> HIDE DEF h
  <2>2. Take(State(words, word, h, "quoted"), Quote) =
            State(words, word \o Backslashes(h \div 2), 0, "bare")
    BY <1>1, <2>1 DEF Take, State, Begun
  <2>3. QED BY <2>1, <2>2 DEF h
<1>5. QED BY <1>3, <1>4

\* A quote starts an argument.
LEMMA TakeOpening ==
  ASSUME NEW words
  PROVE  TakeAll(Between(words), <<Quote>>) = State(words, <<>>, 0, "quoted")
<1>1. <<Quote>> = Append(<<>>, Quote) /\ <<>> \in Seq({Quote})
  OBVIOUS
<1>2. TakeAll(Between(words), <<Quote>>) = Take(Between(words), Quote)
  <2> DEFINE s == Between(words)
  <2>1. TakeAll(s, <<>>) = s /\ TakeAll(s, Append(<<>>, Quote)) = Take(TakeAll(s, <<>>), Quote)
    <3> HIDE DEF s
    <3>1. Quote \in {Quote}
      OBVIOUS
    <3>2. QED BY <1>1, <3>1, TakeSteps
  <2>2. QED BY <1>1, <2>1
<1>3. Quote # Backslash /\ Quote # Blank /\ 0 % 2 = 0 /\ 0 \div 2 = 0
  BY DEF Quote, Backslash, Blank
<1>4. Take(Between(words), Quote) = State(words, <<>> \o Backslashes(0), 0, "quoted")
  BY <1>3 DEF Take, Between, State, Begun
<1>5. <<>> \o Backslashes(0) = <<>>
  BY DEF Backslashes
<1>6. QED BY <1>2, <1>4, <1>5

\* A blank ends it.
LEMMA TakeClosing ==
  ASSUME NEW S, NEW words, NEW word \in Seq(S), NEW held \in Nat
  PROVE  Take(State(words, word, held, "bare"), Blank) =
             Between(Append(words, word \o Backslashes(held)))
<1>1. Quote # Blank /\ Blank # Backslash
  BY DEF Quote, Backslash, Blank
<1>2. QED BY <1>1 DEF Take, State, Begun

\* Of what is put down for the first characters of an argument, the characters are read.
Restored(words, s, text, S) ==
    /\ s.out \in Seq(S) /\ s.held \in Nat
    /\ \E word \in Seq(S) :
          /\ word \o Backslashes(s.held) = text
          /\ TakeAll(Between(words), s.out) = State(words, word, 0, "quoted")

\* The next character.
LEMMA RestoredStep ==
  ASSUME NEW S, {Quote, Backslash, Blank} \subseteq S, NEW words, NEW s, NEW text \in Seq(S), NEW c \in S,
         Restored(words, s, text, S)
  PROVE  Restored(words, Put(s, c), Append(text, c), S)
<1>1. PICK word \in Seq(S) :
          /\ word \o Backslashes(s.held) = text
          /\ TakeAll(Between(words), s.out) = State(words, word, 0, "quoted")
  BY DEF Restored
<1>2. s.out \in Seq(S) /\ s.held \in Nat
  BY DEF Restored
<1> DEFINE out == s.out
           held == s.held
<1>3. Quote # Backslash
  BY DEF Quote, Backslash
<1>4. text = word \o Backslashes(held) /\ TakeAll(Between(words), out) = State(words, word, 0, "quoted")
  BY <1>1
<1> HIDE DEF out, held
<1>5. CASE c = Backslash
  <2>1. Put(s, c) = [out |-> out, held |-> held + 1]
    BY <1>3, <1>5 DEF Put, out, held
  <2>2. held + 1 \in Nat /\ out \in Seq(S)
    BY <1>2 DEF out, held
  <2>3. word \o Backslashes(held + 1) = Append(text, c)
    BY <1>2, <1>4, <1>5, BackslashesGrow DEF held
  <2>4. Put(s, c).out = out /\ Put(s, c).held = held + 1
    BY <2>1
  <2>5. Put(s, c) = [out |-> Put(s, c).out, held |-> Put(s, c).held]
    BY <2>1
  <2>6. QED BY <2>2, <2>3, <2>4, <2>5, <1>4 DEF Restored
<1>6. ASSUME NEW n \in Nat, c # Backslash,
             Put(s, c) = [out |-> out \o Backslashes(n) \o <<c>>, held |-> 0],
             Take(State(words, word, n, "quoted"), c) =
                 State(words, word \o Backslashes(held) \o <<c>>, 0, "quoted")
      PROVE  Restored(words, Put(s, c), Append(text, c), S)
  <2> DEFINE spelled == out \o Backslashes(n)
             all == spelled \o <<c>>
  <2>1. Backslashes(n) \in Seq(S) /\ out \in Seq(S) /\ spelled \in Seq(S)
    BY <1>2, BackslashesGrow DEF out
  <2>2. TakeAll(Between(words), spelled) = State(words, word, n, "quoted")
    <3>1. TakeAll(Between(words), spelled) = TakeAll(TakeAll(Between(words), out), Backslashes(n))
      BY <2>1, TakeConcat
    <3>2. TakeAll(State(words, word, 0, "quoted"), Backslashes(n)) = State(words, word, 0 + n, "quoted")
      BY TakeBackslashes
    <3>3. 0 + n = n
      OBVIOUS
    <3>4. QED BY <3>1, <3>2, <3>3, <1>4
  <2>3. all = Append(spelled, c) /\ all \in Seq(S)
    BY <2>1, AppendIsConcat, AppendProperties
  <2>4. TakeAll(Between(words), all) = Take(TakeAll(Between(words), spelled), c)
    <3> HIDE DEF all, spelled
    <3>1. QED BY <2>1, <2>3, TakeSteps
  <2>5. word \o Backslashes(held) \o <<c>> = Append(text, c) /\ Append(text, c) \in Seq(S)
    BY <1>4, AppendIsConcat, AppendProperties
  <2>6. TakeAll(Between(words), all) = State(words, Append(text, c), 0, "quoted")
    BY <2>2, <2>4, <2>5, <1>6
  <2>7. Append(text, c) \o Backslashes(0) = Append(text, c)
    <3>1. Backslashes(0) = <<>>
      BY DEF Backslashes
    <3>2. QED BY <2>5, <3>1, ConcatEmptySeq
  <2>8. Put(s, c).out = all /\ Put(s, c).held = 0
    BY <1>6
  <2> DEFINE p == Put(s, c)
             read == Append(text, c)
  <2> HIDE DEF all, spelled, p, read
  <2>9. /\ p.out \in Seq(S) /\ p.held \in Nat /\ read \in Seq(S)
        /\ read \o Backslashes(p.held) = read
        /\ TakeAll(Between(words), p.out) = State(words, read, 0, "quoted")
    BY <2>3, <2>5, <2>6, <2>7, <2>8 DEF p, read
  <2>10. Restored(words, p, read, S)
    BY <2>9 DEF Restored
  <2>11. QED BY <2>10 DEF p, read
<1>7. CASE c = Quote
  <2>1. 2 * held + 1 \in Nat /\ held \in Nat
    BY <1>2 DEF held
  <2>2. Put(s, c) = [out |-> out \o Backslashes(2 * held + 1) \o <<c>>, held |-> 0]
    BY <1>3, <1>7 DEF Put, out, held
  <2>3. Take(State(words, word, 2 * held + 1, "quoted"), c) =
            State(words, word \o Backslashes(held) \o <<c>>, 0, "quoted")
    BY <1>7, <2>1, TakeQuote
  <2>4. QED BY <1>3, <1>6, <1>7, <2>1, <2>2, <2>3
<1>8. CASE c \notin {Backslash, Quote}
  <2>1. held \in Nat
    BY <1>2 DEF held
  <2>2. Put(s, c) = [out |-> out \o Backslashes(held) \o <<c>>, held |-> 0]
    BY <1>8 DEF Put, out, held
  <2>3. Take(State(words, word, held, "quoted"), c) =
            State(words, word \o Backslashes(held) \o <<c>>, 0, "quoted")
    BY <1>8, <2>1, TakeOther
  <2>4. QED BY <1>6, <1>8, <2>1, <2>2, <2>3
<1>9. QED BY <1>5, <1>7, <1>8

\* An argument in quotes is read back, and a blank ends it.
LEMMA QuotedIsRead ==
  ASSUME NEW S, {Quote, Backslash, Blank} \subseteq S, NEW words, NEW arg \in Seq(S)
  PROVE  /\ Quoted(arg) \in Seq(S)
         /\ TakeAll(Between(words), Quoted(arg) \o <<Blank>>) = Between(Append(words, arg))
<1> DEFINE start == [out |-> <<Quote>>, held |-> 0]
           T == {text \in Seq(S) : Restored(words, PutAll(start, text), text, S)}
<1>1. <<>> \in T
  <2>1. PutAll(start, <<>>) = start
    <3> HIDE DEF start
    <3>1. QED BY PutSteps, EmptySeq
  <2>2. start.out = <<Quote>> /\ start.held = 0 /\ <<Quote>> \in Seq(S)
    OBVIOUS
  <2>3. <<>> \o Backslashes(0) = <<>> /\ <<>> \in Seq(S)
    BY DEF Backslashes
  <2> DEFINE p == PutAll(start, <<>>)
  <2>4. p.out = <<Quote>> /\ p.held = 0
    BY <2>1, <2>2
  <2> HIDE DEF start, p
  <2>5. Restored(words, p, <<>>, S)
    <3>1. p.out \in Seq(S) /\ p.held \in Nat /\ <<>> \o Backslashes(p.held) = <<>>
      BY <2>2, <2>3, <2>4
    <3>2. TakeAll(Between(words), p.out) = State(words, <<>>, 0, "quoted")
      BY <2>4, TakeOpening
    <3>3. QED BY <3>1, <3>2, <2>3 DEF Restored
  <2>6. QED BY <2>3, <2>5 DEF p
<1>2. ASSUME NEW text \in Seq(S), NEW c \in S, text \in T PROVE Append(text, c) \in T
  <2> HIDE DEF start
  <2>1. PutAll(start, Append(text, c)) = Put(PutAll(start, text), c)
    BY PutSteps
  <2>2. Append(text, c) \in Seq(S)
    BY AppendProperties
  <2>3. QED BY <1>2, <2>1, <2>2, RestoredStep
<1> HIDE DEF T
<1>3. Seq(S) \subseteq T
  BY <1>1, <1>2, Reading!SeqInduct
<1> DEFINE s == PutAll(start, arg)
           out == s.out
           held == s.held
<1>4. out \in Seq(S) /\ held \in Nat
  BY <1>3 DEF T, Restored
<1>5. PICK word \in Seq(S) :
          /\ word \o Backslashes(held) = arg
          /\ TakeAll(Between(words), out) = State(words, word, 0, "quoted")
  BY <1>3 DEF T, Restored
<1> DEFINE body == out \o Backslashes(2 * held)
           quoted == body \o <<Quote>>
           ended == quoted \o <<Blank>>
<1>6. Quoted(arg) = quoted
  BY DEF Quoted, PutAll
<1> HIDE DEF start, s, out, held
<1>7. 2 * held \in Nat /\ Backslashes(2 * held) \in Seq(S) /\ body \in Seq(S)
  BY <1>4, BackslashesGrow
<1>8. TakeAll(Between(words), body) = State(words, word, 2 * held, "quoted")
  <2>1. TakeAll(Between(words), body) = TakeAll(TakeAll(Between(words), out), Backslashes(2 * held))
    BY <1>4, <1>7, TakeConcat
  <2>2. TakeAll(State(words, word, 0, "quoted"), Backslashes(2 * held)) =
            State(words, word, 0 + 2 * held, "quoted")
    BY <1>7, TakeBackslashes
  <2>3. 0 + 2 * held = 2 * held
    BY <1>7
  <2>4. QED BY <2>1, <2>2, <2>3, <1>5
<1>9. /\ quoted = Append(body, Quote) /\ quoted \in Seq(S)
      /\ ended = Append(quoted, Blank)
  BY <1>7, AppendIsConcat, AppendProperties
<1> HIDE DEF body, quoted, ended
<1>10. TakeAll(Between(words), quoted) = State(words, arg, 0, "bare")
  <2>1. TakeAll(Between(words), quoted) = Take(State(words, word, 2 * held, "quoted"), Quote)
    BY <1>7, <1>8, <1>9, TakeSteps
  <2>2. QED BY <2>1, <1>4, <1>5, TakeQuote
<1>11. TakeAll(Between(words), ended) = Between(Append(words, arg))
  <2>1. TakeAll(Between(words), ended) = Take(State(words, arg, 0, "bare"), Blank)
    <3>1. Blank \in S
      OBVIOUS
    <3>2. TakeAll(Between(words), Append(quoted, Blank)) = Take(TakeAll(Between(words), quoted), Blank)
      BY <3>1, <1>9, TakeSteps
    <3>3. QED BY <3>2, <1>9, <1>10
  <2>2. arg \o Backslashes(0) = arg
    <3>1. Backslashes(0) = <<>>
      BY DEF Backslashes
    <3>2. QED BY <3>1, ConcatEmptySeq
  <2>3. QED BY <2>1, <2>2, TakeClosing
<1>12. QED BY <1>6, <1>9, <1>11 DEF ended

\* An argument without blanks and quotes is read as it is.
LEMMA PlainIsRead ==
  ASSUME NEW S, NEW words, NEW arg \in Seq(S), arg # <<>>, Blank \notin S, Quote \notin S,
         Backslash \in S
  PROVE  TakeAll(Between(words), arg \o <<Blank>>) = Between(Append(words, arg))
<1> DEFINE Is(text) == \E word \in Seq(S), held \in Nat :
               /\ word \o Backslashes(held) = text
               /\ TakeAll(Between(words), text) =
                      State(words, word, held, IF text = <<>> THEN "between" ELSE "bare")
           T == {text \in Seq(S) : Is(text)}
<1>1. <<>> \in T
  <2>1. <<>> \o Backslashes(0) = <<>> /\ <<>> \in Seq(S)
    BY DEF Backslashes
  <2>2. TakeAll(Between(words), <<>>) = State(words, <<>>, 0, "between")
    BY TakeSteps, EmptySeq DEF Between
  <2>3. QED BY <2>1, <2>2
<1>2. ASSUME NEW text \in Seq(S), NEW c \in S, text \in T PROVE Append(text, c) \in T
  <2>1. PICK word \in Seq(S), held \in Nat :
            /\ word \o Backslashes(held) = text
            /\ TakeAll(Between(words), text) =
                   State(words, word, held, IF text = <<>> THEN "between" ELSE "bare")
    BY <1>2
  <2> DEFINE phase == IF text = <<>> THEN "between" ELSE "bare"
  <2>2. phase \in {"between", "bare"} /\ Begun(phase) = "bare"
    BY DEF Begun
  <2> HIDE DEF phase
  <2>3. TakeAll(Between(words), Append(text, c)) = Take(State(words, word, held, phase), c)
    BY <2>1, TakeSteps DEF phase
  <2>4. Append(text, c) \in Seq(S) /\ Append(text, c) # <<>>
    BY AppendProperties
  <2>5. c # Blank /\ c # Quote /\ Quote # Backslash /\ Blank # Backslash
    BY DEF Quote, Backslash, Blank
  <2>6. CASE c = Backslash
    <3>1. Take(State(words, word, held, phase), c) = State(words, word, held + 1, "bare")
      BY <2>2, <2>5, <2>6 DEF Take, State
    <3>2. word \o Backslashes(held + 1) = Append(text, c) /\ held + 1 \in Nat
      <4>1. word \o Backslashes(held + 1) = Append(word \o Backslashes(held), Backslash)
        BY BackslashesGrow
      <4>2. QED BY <4>1, <2>1, <2>6
    <3>3. QED BY <3>1, <3>2, <2>3, <2>4
  <2>7. CASE c # Backslash
    <3>1. Take(State(words, word, held, phase), c) =
              State(words, word \o Backslashes(held) \o <<c>>, 0, "bare")
      BY <2>2, <2>5, <2>7 DEF Take, State
    <3>2. word \o Backslashes(held) \o <<c>> = Append(text, c)
      BY <2>1, AppendIsConcat
    <3>3. Append(text, c) \o Backslashes(0) = Append(text, c)
      <4>1. Backslashes(0) = <<>>
        BY DEF Backslashes
      <4>2. QED BY <2>4, <4>1, ConcatEmptySeq
    <3>4. TakeAll(Between(words), Append(text, c)) = State(words, Append(text, c), 0, "bare")
      BY <2>3, <3>1, <3>2
    <3>5. QED BY <3>3, <3>4, <2>4
  <2>8. QED BY <2>6, <2>7
<1> HIDE DEF T
<1>3. Seq(S) \subseteq T
  BY <1>1, <1>2, Reading!SeqInduct
<1>4. PICK word \in Seq(S), held \in Nat :
          /\ word \o Backslashes(held) = arg
          /\ TakeAll(Between(words), arg) = State(words, word, held, "bare")
  BY <1>3 DEF T
<1>5. TakeAll(Between(words), Append(arg, Blank)) = Take(State(words, word, held, "bare"), Blank)
  <2>1. arg \in Seq(S \cup {Blank}) /\ Blank \in S \cup {Blank}
    BY SeqMonotonic
  <2>2. QED BY <2>1, <1>4, TakeSteps
<1>6. Append(arg, Blank) = arg \o <<Blank>>
  OBVIOUS
<1>7. QED BY <1>4, <1>5, <1>6, TakeClosing

-----------------------------------------------------------------------------
(* The command line: all arguments *)

\* With or without quotes, an argument is read back.
LEMMA ArgumentIsRead ==
  ASSUME NEW S, {Quote, Backslash, Blank} \subseteq S, NEW words, NEW arg \in Seq(S), arg # <<>>
  PROVE  /\ Argument(arg) \in Seq(S)
         /\ TakeAll(Between(words), Argument(arg) \o <<Blank>>) = Between(Append(words, arg))
<1>1. CASE ToSet(arg) \cap {Blank, Quote} = {}
  <2> DEFINE plain == ToSet(arg) \cup {Backslash}
  <2>1. arg \in Seq(plain)
    BY DEF ToSet
  <2>2. Blank \notin plain /\ Quote \notin plain
    BY <1>1 DEF Quote, Backslash, Blank
  <2>3. Backslash \in plain
    OBVIOUS
  <2> HIDE DEF plain
  <2>4. TakeAll(Between(words), arg \o <<Blank>>) = Between(Append(words, arg))
    BY <2>1, <2>2, <2>3, PlainIsRead
  <2>5. QED BY <1>1, <2>4 DEF Argument
<1>2. CASE ToSet(arg) \cap {Blank, Quote} # {}
  BY <1>2, QuotedIsRead DEF Argument
<1>3. QED BY <1>1, <1>2

\* The line of some arguments is empty or ends in a blank, and is read as the arguments.
LineIsRead(args, S) ==
    /\ LineOf(args) = <<>> \/ \E text \in Seq(S) : LineOf(args) = Append(text, Blank)
    /\ LineOf(args) \in Seq(S)
    /\ TakeAll(Between(<<>>), LineOf(args)) = Between(Given(args))

\* One more argument is one more word.
LEMMA LineIsReadStep ==
  ASSUME NEW S, {Quote, Backslash, Blank} \subseteq S, NEW args \in Seq(Seq(S)), NEW a \in Seq(S),
         LineIsRead(args, S)
  PROVE  LineIsRead(Append(args, a), S)
<1>1. LineOf(Append(args, a)) = Extend(LineOf(args), a) /\ Given(Append(args, a)) = Keep(Given(args), a)
  BY LineSteps, GivenSteps
<1>2. CASE a = <<>>
  BY <1>1, <1>2 DEF Extend, Keep, LineIsRead
<1>3. CASE a # <<>>
  <2> DEFINE made == LineOf(args)
             more == Argument(a) \o <<Blank>>
  <2>1. Extend(made, a) = made \o Argument(a) \o <<Blank>> /\ Keep(Given(args), a) = Append(Given(args), a)
    BY <1>3 DEF Extend, Keep
  <2>2. made \in Seq(S) /\ Argument(a) \in Seq(S) /\ <<Blank>> \in Seq(S) /\ Blank \in S
    <3>1. LineOf(args) \in Seq(S)
      BY DEF LineIsRead
    <3>2. Argument(a) \in Seq(S)
      BY <1>3, ArgumentIsRead
    <3>3. QED BY <3>1, <3>2
  <2> HIDE DEF made
  <2>3. made \o Argument(a) \o <<Blank>> = made \o more /\ more \in Seq(S)
    <3>1. more \in Seq(S)
      BY <2>2, ConcatProperties
    <3>2. (made \o Argument(a)) \o <<Blank>> = made \o (Argument(a) \o <<Blank>>)
      BY <2>2, ConcatAssociative
    <3>3. QED BY <3>1, <3>2
  <2>4. made \o Argument(a) \in Seq(S)
    BY <2>2, ConcatProperties
  <2>5. made \o Argument(a) \o <<Blank>> = Append(made \o Argument(a), Blank)
    BY <2>2, <2>4, AppendIsConcat
  <2>6. made \o more \in Seq(S)
    BY <2>2, <2>3, ConcatProperties
  <2> HIDE DEF more
  <2>7. TakeAll(Between(<<>>), made \o more) = TakeAll(Between(Given(args)), more)
    <3>1. TakeAll(Between(<<>>), made) = Between(Given(args))
      BY DEF made, LineIsRead
    <3>2. QED BY <2>2, <2>3, <3>1, TakeConcat
  <2>8. TakeAll(Between(Given(args)), more) = Between(Append(Given(args), a))
    BY <1>3, ArgumentIsRead DEF more
  <2> DEFINE next == LineOf(Append(args, a))
  <2>9. next = made \o more /\ next = Append(made \o Argument(a), Blank)
    BY <1>1, <2>1, <2>3, <2>5 DEF made
  <2>10. Given(Append(args, a)) = Append(Given(args), a)
    BY <1>1, <2>1
  <2>11. TakeAll(Between(<<>>), next) = Between(Given(Append(args, a)))
    <3> HIDE DEF next
    <3>1. QED BY <2>7, <2>8, <2>9, <2>10
  <2>12. next \in Seq(S) /\ \E text \in Seq(S) : next = Append(text, Blank)
    <3> HIDE DEF next
    <3>1. QED BY <2>4, <2>6, <2>9
  <2>13. QED BY <2>11, <2>12 DEF LineIsRead
<1>4. QED BY <1>2, <1>3

\* Whatever the arguments are, the line made of them is taken apart into those that are
\* not empty.
LEMMA LineIsParsed ==
  ASSUME NEW S, {Quote, Backslash, Blank} \subseteq S, NEW args \in Seq(Seq(S))
  PROVE  ParseCommandLine(ArgvToCommandLine(args)) = Given(args)
<1> DEFINE T == {q \in Seq(Seq(S)) : LineIsRead(q, S)}
<1>1. <<>> \in T
  <2>1. <<>> \in Seq(Seq(S)) /\ <<>> \in Seq(S)
    OBVIOUS
  <2>2. LineOf(<<>>) = <<>> /\ Given(<<>>) = <<>>
    BY LineSteps, GivenSteps, EmptySeq
  <2>3. TakeAll(Between(<<>>), <<>>) = Between(<<>>)
    BY TakeSteps, EmptySeq
  <2>4. QED BY <2>1, <2>2, <2>3 DEF LineIsRead
<1>2. ASSUME NEW q \in Seq(Seq(S)), NEW a \in Seq(S), q \in T PROVE Append(q, a) \in T
  BY <1>2, LineIsReadStep, AppendProperties
<1> HIDE DEF T
<1>3. Seq(Seq(S)) \subseteq T
  BY <1>1, <1>2, Reading!SeqInduct
<1> DEFINE made == LineOf(args)
           argv == IF made = <<>> THEN made ELSE Front(made)
<1>4. LineIsRead(args, S)
  BY <1>3 DEF T
<1>5. ArgvToCommandLine(args) = argv
  BY DEF ArgvToCommandLine, LineOf
<1>6. TakeAll(Between(<<>>), Append(argv, Blank)) = Between(Given(args))
  <2>1. CASE made = <<>>
    <3>1. TakeAll(Between(<<>>), Append(<<>>, Blank)) = Take(TakeAll(Between(<<>>), <<>>), Blank)
      BY TakeSteps, EmptySeq
    <3>2. TakeAll(Between(<<>>), <<>>) = Between(Given(args))
      BY <1>4, <2>1 DEF LineIsRead
    <3>3. Take(Between(Given(args)), Blank) = Between(Given(args))
      BY DEF Take, Between, State, Quote, Backslash, Blank
    <3>4. QED BY <2>1, <3>1, <3>2, <3>3
  <2>2. CASE made # <<>>
    <3>1. PICK text \in Seq(S) : made = Append(text, Blank)
      BY <1>4, <2>2 DEF LineIsRead
    <3>2. Front(made) = text
      <4>1. Front(Append(text, Blank)) = text
        BY DEF Front
      <4>2. QED BY <3>1, <4>1
    <3> HIDE DEF made
    <3>3. Append(argv, Blank) = made
      BY <2>2, <3>1, <3>2
    <3>4. QED BY <1>4, <3>3 DEF LineIsRead, made
  <2>3. QED BY <2>1, <2>2
<1>7. Between(Given(args)).words = Given(args)
  BY DEF Between, State
<1> HIDE DEF argv
<1>8. QED BY <1>5, <1>6, <1>7 DEF ParseCommandLine, TakeAll

\* What is proved of every step: the arguments are sequences of characters until the line
\* is made of them.
ComposedInv ==
    /\ pc = "start" => arguments \in Seq(Seq(Characters \cup {Quote, Backslash, Blank}))
    /\ ArgumentsArrive

\* On the way from the arguments to the process, whatever quotes, blanks and backslashes
\* are in them, none is lost, split or run together with another, for arguments of any
\* number and length.
THEOREM ArgumentsArriveCorrect == Spec => []ArgumentsArrive
<1> DEFINE S == Characters \cup {Quote, Backslash, Blank}
<1>1. Init => ComposedInv
  <2> SUFFICES ASSUME Init PROVE ComposedInv
    OBVIOUS
  <2>1. pc = "start" /\ arguments \in BoundedSeq(BoundedSeq(S, MaxLength), MaxArguments)
    BY DEF Init, Arguments
  <2>2. \A T, n : BoundedSeq(T, n) \subseteq Seq(T)
    BY DEF BoundedSeq, SeqOf
  <2>3. arguments \in Seq(Seq(S))
    BY <2>1, <2>2, SeqMonotonic
  <2>4. QED BY <2>1, <2>3 DEF ComposedInv, ArgumentsArrive
<1>2. ComposedInv /\ [Next]_vars => ComposedInv'
  <2> SUFFICES ASSUME ComposedInv, [Next]_vars PROVE ComposedInv'
    OBVIOUS
  <2>1. CASE Compose
    <3>1. arguments \in Seq(Seq(S)) /\ line' = ArgvToCommandLine(arguments)
          /\ arguments' = arguments /\ pc' = "create"
      BY <2>1 DEF Compose, ComposedInv
    <3>2. ParseCommandLine(line') = Given(arguments')
      BY <3>1, LineIsParsed
    <3>3. QED BY <3>1, <3>2 DEF ComposedInv, ArgumentsArrive
  <2>2. CASE UNCHANGED <<pc, arguments, line>>
    BY <2>2 DEF ComposedInv, ArgumentsArrive
  <2>3. CASE pc' \notin {"start", "create"}
    BY <2>3 DEF ComposedInv, ArgumentsArrive
  <2>4. UNCHANGED <<pc, arguments, line>> \/ pc' \notin {"start", "create"} \/ Compose
    <3>1. CASE UNCHANGED vars
      BY <3>1 DEF vars, texts
    <3>2. CASE Failure
      BY <3>2 DEF Failure, StartFails, AssignFails, CallFails, Throw
    <3>3. CASE TimerFires
      BY <3>3 DEF TimerFires, texts
    <3>4. CASE Child
      BY <3>4 DEF Child, ChildWrites, ChildWriteFails, ChildSpawns, ChildExits, ChildWants,
                  ChildCloses, outside, texts
    <3>5. CASE DaemonExits
      BY <3>5 DEF DaemonExits, outside, texts
    <3>6. CASE Parent
      BY <3>6 DEF Parent, Create, Assign, SkipPipe, ReadTimesOut, ReadNow, ReadBroken, ReadPends,
                  WaitNothing, WaitTimesOut, WaitData, WaitBroken, Woken, Deliver, NextPipe, Reads,
                  Throw, ProcessEnds, ProcessTimesOut, Reap, JobEnds, texts
    <3>7. QED BY <3>1, <3>2, <3>3, <3>4, <3>5, <3>6 DEF Next
  <2>5. QED BY <2>1, <2>2, <2>3, <2>4
<1>3. ComposedInv => ArgumentsArrive
  BY DEF ComposedInv
<1>4. QED BY <1>1, <1>2, <1>3, PTL DEF Spec
=============================================================================
