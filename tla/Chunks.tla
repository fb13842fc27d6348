------------------------------- MODULE Chunks -------------------------------
(***************************************************************************)
(* An aggregate resolution: chunks that require each other, whose values   *)
(* are merged or passed to an aggregate block                              *)
(* (lib/src/ruby/aggregate_resolution.cc and chunk.cc), as the fact it     *)
(* belongs to evaluates it (lib/src/ruby/fact.cc).                         *)
(***************************************************************************)
EXTENDS Integers, Sequences, SequencesExt

CONSTANTS
    NumChunks,       \* chunks are 1..NumChunks, in the order of the map _chunks
    RequireLists,    \* what a chunk may require: chunks, 0 for an unknown name
    MaxRedefinitions \* bound: how often a chunk is defined again

Chunk == 1..NumChunks

ASSUME ChunksAssumption ==
    /\ NumChunks \in Nat /\ MaxRedefinitions \in Nat
    /\ RequireLists \subseteq Seq(0..NumChunks)

(***************************************************************************)
(* A value: its type, and the chunk blocks it was made from, each with the *)
(* number of definitions before its own.                                   *)
(***************************************************************************)
Kind == {"nil", "hash", "array", "other"}
Part == Chunk \X (0..MaxRedefinitions)
Value == [kind : Kind, parts : SUBSET Part]
Nil == [kind |-> "nil", parts |-> {}]

VARIABLES
    requires,    \* _dependencies of every chunk
    version,     \* its _block: how many definitions came before
    hasBlock,    \* the resolution has an aggregate block
    at,          \* the iterator over _chunks in value(); 0 when it is not running
    merged,      \* what the loop has collected
    stack,       \* calls of chunk::value in progress: the chunk, its arguments so far
    raising,     \* a Ruby exception is on its way up
    resolving,   \* the chunks whose _resolving is set
    resolved,    \* the chunks whose _resolved is set
    value,       \* _value of every chunk
    answered,    \* the fact is _resolved
    answer       \* _value of the fact

chunks == <<resolving, resolved, value>>
fact == <<answered, answer>>
defined == <<requires, version, hasBlock>>
vars == <<defined, at, merged, stack, raising, chunks, fact>>

Frame == [chunk : Chunk, args : Seq(Value)]
Top == Last(stack)
Running == at # 0 /\ ~raising
InChunk == Running /\ stack # <<>>

-----------------------------------------------------------------------------
\* deep_merge: what the merge can give; nothing when it raises.  Two hashes may
\* hold values under one key that do not merge.
Merge(left, right) ==
    IF right = Nil THEN {left} ELSE IF left = Nil THEN {right}
    ELSE IF left.kind = right.kind /\ left.kind \in {"hash", "array"}
         THEN {[left EXCEPT !.parts = @ \cup right.parts]}
         ELSE {}
MayRaise(left, right) ==
    Nil \notin {left, right} /\ (left.kind # right.kind \/ left.kind \in {"hash", "other"})

\* The loop of value() is given the value of the chunk it is at.
Collect(v) ==
    \/ /\ hasBlock
       /\ merged' = [kind |-> "hash", parts |-> merged.parts \cup v.parts]
       /\ at' = at + 1 /\ UNCHANGED raising
    \/ /\ ~hasBlock
       /\ merged' \in Merge(merged, v)
       /\ at' = at + 1 /\ UNCHANGED raising
    \/ /\ ~hasBlock /\ MayRaise(merged, v)
       /\ raising' = TRUE /\ UNCHANGED <<at, merged>>

\* The caller of a chunk among frames, or the loop, is given v.
Deliver(frames, v) ==
    IF frames = <<>> THEN stack' = <<>> /\ Collect(v)
    ELSE /\ stack' = [frames EXCEPT ![Len(frames)].args = Append(@, v)]
         /\ UNCHANGED <<at, merged, raising>>

\* The chunk that is asked for next: by the loop, or for a required chunk.
Asks(c) ==
    /\ Running
    /\ IF stack = <<>> THEN c = at /\ at <= NumChunks
       ELSE Len(Top.args) < Len(requires[Top.chunk])
            /\ c = requires[Top.chunk][Len(Top.args) + 1]

\* "chunk dependency cycle detected".
CycleRaises ==
    /\ \E c \in resolving : Asks(c)
    /\ raising' = TRUE
    /\ UNCHANGED <<at, merged, stack, defined, chunks, fact>>

\* A chunk that is not known is nil, one that is resolved has its value.
ReturnsValue ==
    /\ \/ Asks(0) /\ Deliver(stack, Nil)
       \/ \E c \in resolved \ resolving : Asks(c) /\ Deliver(stack, value[c])
    /\ UNCHANGED <<defined, chunks, fact>>

Enters ==
    \E c \in Chunk \ (resolving \cup resolved) :
        /\ Asks(c)
        /\ stack' = Append(stack, [chunk |-> c, args |-> <<>>])
        /\ resolving' = resolving \cup {c}
        /\ UNCHANGED <<at, merged, raising, resolved, value, defined, fact>>

HasArguments == InChunk /\ Len(Top.args) = Len(requires[Top.chunk])

\* The block gives the chunk's value.
BlockGives ==
    /\ HasArguments
    /\ \E kind \in Kind :
         LET c == Top.chunk
             v == IF kind = "nil" THEN Nil
                  ELSE [kind |-> kind, parts |-> {<<c, version[c]>>}]
         IN /\ resolving' = resolving \ {c}
            /\ resolved' = resolved \cup {c}
            /\ value' = [value EXCEPT ![c] = v]
            /\ Deliver(Front(stack), v)
    /\ UNCHANGED <<defined, fact>>

\* The block raises.
BlockRaises ==
    /\ HasArguments
    /\ raising' = TRUE
    /\ UNCHANGED <<at, merged, stack, defined, chunks, fact>>

\* Mutant of Unwinds: the exception passes without resetting _resolving.
UnwindsResolving ==
    /\ raising /\ stack # <<>>
    /\ stack' = Front(stack)
    /\ UNCHANGED <<at, merged, raising, defined, chunks, fact>>

\* chunk::value catches the exception, resets _resolving and jumps on.
Unwinds ==
    /\ raising /\ stack # <<>>
    /\ resolving' = resolving \ {Top.chunk}
    /\ stack' = Front(stack)
    /\ UNCHANGED <<at, merged, raising, resolved, value, defined, fact>>

Answers(v) ==
    /\ answered' = TRUE /\ answer' = v
    /\ at' = 0 /\ merged' = Nil /\ raising' = FALSE
    /\ UNCHANGED <<stack, defined, chunks>>

\* Mutant of Rescued: the chunks are evaluated once more.
RescuedRetries ==
    /\ raising /\ stack = <<>>
    /\ at' = 1 /\ merged' = Nil /\ raising' = FALSE
    /\ UNCHANGED <<stack, defined, chunks, fact>>

\* The fact rescues the exception and becomes nil.
Rescued == raising /\ stack = <<>> /\ Answers(Nil)

\* value() returns what was merged, or what the aggregate block gives, which may
\* raise.
Returns ==
    /\ Running /\ stack = <<>> /\ at > NumChunks
    /\ \/ Answers(merged)
       \/ hasBlock /\ raising' = TRUE
          /\ UNCHANGED <<at, merged, stack, defined, chunks, fact>>

-----------------------------------------------------------------------------
\* The fact is asked for and not resolved: its loop calls value().
Begins ==
    /\ at = 0 /\ ~answered
    /\ at' = 1 /\ merged' = Nil
    /\ UNCHANGED <<stack, raising, defined, chunks, fact>>

\* fact::flush: the resolution's own flush() only runs its on_flush block.
Flush ==
    /\ at = 0
    /\ answered' = FALSE /\ answer' = Nil
    /\ UNCHANGED <<at, merged, stack, raising, defined, chunks>>

\* The definition of a chunk that has one is replaced.
Redefines(c) ==
    /\ at = 0 /\ version[c] < MaxRedefinitions
    /\ \E list \in RequireLists : requires' = [requires EXCEPT ![c] = list]
    /\ version' = [version EXCEPT ![c] = @ + 1]
    /\ UNCHANGED <<hasBlock, at, merged, stack, raising, fact>>

\* Mutant of DefineChunk: what the chunk was resolved to stays.
DefineChunkKeeps == \E c \in Chunk : Redefines(c) /\ UNCHANGED chunks

\* define_chunk for a name that has a chunk: the chunk is no longer resolved, while
\* the fact and the chunks that required it keep their values.
DefineChunk ==
    \E c \in Chunk :
        /\ Redefines(c)
        /\ resolved' = resolved \ {c}
        /\ value' = [value EXCEPT ![c] = Nil]
        /\ UNCHANGED resolving

Init ==
    /\ requires \in [Chunk -> RequireLists] /\ hasBlock \in BOOLEAN
    /\ version = [c \in Chunk |-> 0]
    /\ at = 0 /\ merged = Nil /\ stack = <<>> /\ raising = FALSE
    /\ resolving = {} /\ resolved = {} /\ value = [c \in Chunk |-> Nil]
    /\ answered = FALSE /\ answer = Nil

Step == CycleRaises \/ ReturnsValue \/ Enters \/ BlockGives \/ BlockRaises \/ Unwinds
        \/ Rescued \/ Returns
Next == DefineChunk \/ Begins \/ Flush \/ Step

Spec == Init /\ [][Next]_vars
FairSpec == Spec /\ WF_vars(Step)

-----------------------------------------------------------------------------
\* _resolving (chunk.cc:38, 46, 84) is set exactly for the chunks being evaluated,
\* none of them twice, also while an exception unwinds and after it was rescued: a
\* later evaluation does not report a cycle that is not there.
ResolvingMatchesStack ==
    /\ resolving = {stack[i].chunk : i \in 1..Len(stack)}
    /\ \A i, j \in 1..Len(stack) : stack[i].chunk = stack[j].chunk => i = j

\* Every variable has its type, and the resolving marks are those of the calls in
\* progress (ResolvingMatchesStack).
TypeOK ==
    /\ requires \in [Chunk -> RequireLists] /\ hasBlock \in BOOLEAN
    /\ at \in 0..NumChunks + 1 /\ merged \in Value /\ stack \in Seq(Frame)
    /\ raising \in BOOLEAN /\ answered \in BOOLEAN /\ answer \in Value
    /\ resolving \subseteq Chunk /\ resolved \subseteq Chunk
    /\ value \in [Chunk -> Value] /\ version \in [Chunk -> 0..MaxRedefinitions]
    /\ ResolvingMatchesStack

\* When the fact is given a value, it is made of the chunks as they are defined by then:
\* each was resolved, and of each that is not nil the value is part, the value of its
\* last block and of no block before (aggregate_resolution.cc:39-61, 126-131).
AnswerHasEveryChunk ==
    [][ ~answered /\ answered' /\ answer' # Nil =>
          /\ resolved = Chunk
          /\ answer'.parts = {<<c, version[c]>> : c \in {d \in Chunk : value[d] # Nil}} ]_vars

\* The evaluation of an aggregate resolution ends, whichever chunks require each
\* other and whichever of them raise.
EvaluationEnds == (at # 0) ~> (at = 0)
=============================================================================
