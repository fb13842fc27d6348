---------------------------- MODULE StreamLines -----------------------------
(***************************************************************************)
(* Cutting the output of a command into lines: process_data and            *)
(* process_streams of lib/src/execution/execution.cc.                      *)
(*                                                                         *)
(* read_from_child passes on whatever a read() returned, so a chunk may    *)
(* end anywhere: inside a line, inside the spaces around it, or between    *)
(* the characters of "\r\n".  The model feeds one stream chunk by chunk    *)
(* and compares the lines with those of the whole output.                  *)
(***************************************************************************)
EXTENDS Integers, Sequences, SequencesExt

CONSTANTS
    Letters,   \* characters that are neither white space nor line ends
    MaxChunk,  \* bound: characters a read() returns
    MaxOutput  \* bound: characters the command writes

Newlines == {"\n", "\r"}
Blanks == {" "} \cup Newlines
Char == Letters \cup Blanks

ASSUME StreamAssumption ==
    MaxChunk \in Nat \ {0} /\ MaxOutput \in Nat /\ Letters \cap Blanks = {}

VARIABLES
    trim,     \* the option trim_output
    buffer,   \* stdout_buffer: the part of a line read so far
    lines,    \* the lines given to the callback
    output,   \* history: everything the command wrote
    state     \* reading; done (the callback returned false); ended

vars == <<trim, buffer, lines, output, state>>

-----------------------------------------------------------------------------
(* boost::trim and the token finder *)

\* boost::trim(s).
Trim(s) ==
    LET kept == {i \in 1..Len(s) : s[i] \notin Blanks}
    IN IF kept = {} THEN <<>>
       ELSE SubSeq(s, CHOOSE i \in kept : \A j \in kept : i <= j,
                      CHOOSE i \in kept : \A j \in kept : j <= i)

\* data.find_last_of("\n\r"), or 0.
LastNewline(data) == SelectLastInSeq(data, LAMBDA c : c \in Newlines)

\* The split iterator over a range with token_compress_on: the maximal runs of
\* characters that are no line ends, and an empty token at an end of the range
\* that is one (so an empty range has one, empty, token).
Tokens(range) ==
    LET n == Len(range)
        Ends == {i \in 1..(n + 1) : i = n + 1 \/ range[i] \in Newlines}
        \* A token ends where a run of line ends begins, or with the range.
        Stops == {i \in Ends : i = 1 \/ i - 1 \notin Ends \/ (i = n + 1 /\ n > 0)}
        Start(i) == LET before == {j \in Ends : j < i}
                    IN IF before = {} THEN 1
                       ELSE 1 + (CHOOSE j \in before : \A k \in before : k <= j)
    IN [k \in 1..Len(SetToSortSeq(Stops, <)) |->
            LET i == SetToSortSeq(Stops, <)[k] IN SubSeq(range, Start(i), i - 1)]

\* What one token does to the buffer and the lines: the callback gets the buffer
\* unless it is empty.
Token(acc, token) ==
    LET text == IF trim THEN Trim(acc.buffer \o token) ELSE acc.buffer \o token
    IN IF text = <<>> THEN [acc EXCEPT !.buffer = <<>>]
       ELSE [buffer |-> <<>>, lines |-> Append(acc.lines, text)]

-----------------------------------------------------------------------------
(* process_data and the end of process_streams *)

\* A chunk is read and the callback asks for more.  What follows the last line
\* end is kept, with that line end in front of it.
Data(data) ==
    /\ state = "reading"
    /\ output' = output \o data
    /\ LET last == LastNewline(data) IN
         IF last = 0
         THEN buffer' = buffer \o data /\ UNCHANGED <<lines, state>>
         ELSE LET done == FoldLeft(Token, [buffer |-> buffer, lines |-> lines],
                                   Tokens(SubSeq(data, 1, last - 1)))
              IN lines' = done.lines /\ buffer' = SubSeq(data, last, Len(data))
                 /\ UNCHANGED state
    /\ UNCHANGED trim

\* The callback returns false for one of the lines of the chunk: the buffer is
\* cleared and the rest of the chunk is dropped.
DataDone(data) ==
    /\ state = "reading"
    /\ LastNewline(data) # 0
    /\ output' = output \o data
    /\ LET done == FoldLeft(Token, [buffer |-> buffer, lines |-> lines],
                            Tokens(SubSeq(data, 1, LastNewline(data) - 1)))
       IN \E n \in (Len(lines) + 1)..Len(done.lines) : lines' = SubSeq(done.lines, 1, n)
    /\ buffer' = <<>>
    /\ state' = "done"
    /\ UNCHANGED trim

\* Mutant of Finish: a last line without a line end is not passed on.
FinishDropsRest ==
    /\ state \in {"reading", "done"}
    /\ buffer' = <<>>
    /\ state' = IF state = "done" THEN "stopped" ELSE "ended"
    /\ UNCHANGED <<trim, lines, output>>

\* The streams have been read: the partial line, if any, is the last line.
Finish ==
    /\ state \in {"reading", "done"}
    /\ LET text == IF trim THEN Trim(buffer) ELSE buffer
       IN lines' = IF text = <<>> THEN lines ELSE Append(lines, text)
    /\ buffer' = <<>>
    /\ state' = IF state = "done" THEN "stopped" ELSE "ended"
    /\ UNCHANGED <<trim, output>>

\* The next execution.
Restart ==
    /\ state \in {"ended", "stopped"}
    /\ trim' \in BOOLEAN
    /\ buffer' = <<>> /\ lines' = <<>> /\ output' = <<>> /\ state' = "reading"

Init ==
    /\ trim \in BOOLEAN
    /\ buffer = <<>> /\ lines = <<>> /\ output = <<>> /\ state = "reading"

Chunks == UNION {[1..n -> Char] : n \in 1..MaxChunk}

Next ==
    \/ \E data \in Chunks :
         /\ Len(output) + Len(data) <= MaxOutput
         /\ Data(data) \/ DataDone(data)
    \/ Finish
    \/ Restart

Spec == Init /\ [][Next]_vars

-----------------------------------------------------------------------------
(* Properties.  First, the lines of a text, defined without chunks.        *)

\* The maximal stretches of a text between line ends, as pairs of positions.
Stretches(text) ==
    {<<i, j>> \in (1..Len(text)) \X (1..Len(text)) :
        /\ i <= j /\ \A k \in i..j : text[k] \notin Newlines
        /\ i = 1 \/ text[i - 1] \in Newlines
        /\ j = Len(text) \/ text[j + 1] \in Newlines}

\* The lines of a text: what is between line ends, trimmed, unless it is blank.
LinesOf(text) ==
    LET all == SetToSortSeq(Stretches(text), LAMBDA a, b : a[1] < b[1])
        cut == [k \in 1..Len(all) |-> Trim(SubSeq(text, all[k][1], all[k][2]))]
    IN SelectSeq(cut, LAMBDA line : line # <<>>)

\* With trim_output the lines do not depend on where the reads cut the output: at the
\* end they are the lines of the whole output. Before, and when the callback stopped
\* it, they are a beginning of those: none is skipped, cut or passed on twice.
LinesIgnoreChunks ==
    trim => /\ IsPrefix(lines, LinesOf(output))
            /\ (state = "ended" => lines = LinesOf(output))
=============================================================================
