----------------------------- MODULE CommandLine -----------------------------
(* ArgvToCommandLine of lib/src/execution/windows/execution.cc: a process of  *)
(* Windows is given one line, which its run-time library takes apart. Texts   *)
(* are sequences of characters; a blank stands for the white space that makes *)
(* an argument be quoted. A return or a form feed does not, and is trimmed    *)
(* from the end of the line; the model has no such character.                 *)
EXTENDS Naturals, SequencesExt

CONSTANTS
    Characters,    \* some that are not special
    MaxLength      \* bound: the characters of an argument

Quote == "\""
Backslash == "\\"
Blank == " "
Backslashes(n) == [i \in 1 .. n |-> Backslash]

\* An argument in quotes: `held` backslashes wait for the character after them.
Put(s, c) ==
    CASE c = Backslash -> [out |-> s.out, held |-> s.held + 1]
      [] c = Quote     -> [out |-> s.out \o Backslashes(2 * s.held + 1) \o <<c>>, held |-> 0]
      [] OTHER         -> [out |-> s.out \o Backslashes(s.held) \o <<c>>, held |-> 0]
Quoted(arg) ==
    LET all == FoldLeft(Put, [out |-> <<Quote>>, held |-> 0], arg)
    IN  all.out \o Backslashes(2 * all.held) \o <<Quote>>
\* Mutant of Argument: a backslash before the closing quote is not doubled.
ArgumentPlain(arg) ==
    IF ToSet(arg) \cap {Blank, Quote} = {} THEN arg ELSE <<Quote>> \o arg \o <<Quote>>
Argument(arg) == IF ToSet(arg) \cap {Blank, Quote} = {} THEN arg ELSE Quoted(arg)

\* An empty argument is left out; the blank after the last one is trimmed.
Extend(line, arg) == IF arg = <<>> THEN line ELSE line \o Argument(arg) \o <<Blank>>
ArgvToCommandLine(arguments) ==
    LET line == FoldLeft(Extend, <<>>, arguments)
    IN  IF line = <<>> THEN line ELSE Front(line)

\* How the run-time library takes a line apart: 2n backslashes before a quote are n,
\* one more makes the quote part of the argument; a quote starts and ends quoting,
\* and a blank that is not quoted ends an argument.
State(words, word, held, phase) ==
    [words |-> words, word |-> word, held |-> held, phase |-> phase]
Between(words) == State(words, <<>>, 0, "between")
Begun(phase) == IF phase = "between" THEN "bare" ELSE phase
Take(s, c) ==
    CASE c = Backslash -> State(s.words, s.word, s.held + 1, Begun(s.phase))
      [] c = Quote /\ s.held % 2 = 1 ->
           State(s.words, s.word \o Backslashes(s.held \div 2) \o <<c>>, 0, s.phase)
      [] c = Quote /\ s.held % 2 = 0 ->
           State(s.words, s.word \o Backslashes(s.held \div 2), 0,
                 IF s.phase = "quoted" THEN "bare" ELSE "quoted")
      [] c = Blank /\ s.phase # "quoted" ->
           Between(IF s.phase = "between" THEN s.words
                   ELSE Append(s.words, s.word \o Backslashes(s.held)))
      [] OTHER -> State(s.words, s.word \o Backslashes(s.held) \o <<c>>, 0, Begun(s.phase))
ParseCommandLine(line) == FoldLeft(Take, Between(<<>>), Append(line, Blank)).words

\* The arguments that are not empty.
Keep(given, arg) == IF arg = <<>> THEN given ELSE Append(given, arg)
Given(arguments) == FoldLeft(Keep, <<>>, arguments)

\* The arguments there are.
Arguments == BoundedSeq(Characters \cup {Quote, Backslash, Blank}, MaxLength)
=============================================================================
