---------------------------- MODULE CustomFacts -----------------------------
(***************************************************************************)
(* Custom facts: the Ruby Facter module and its facts and resolutions      *)
(* (lib/src/ruby/module.cc, fact.cc, resolution.cc, confine.cc and         *)
(* simple_resolution.cc).                                                  *)
(*                                                                         *)
(* Files in the search path define resolutions of facts.  They are loaded  *)
(* when a fact is asked for that nobody knows yet, and may ask for facts   *)
(* themselves; asking a fact for its value evaluates its resolutions,      *)
(* whose confines and blocks ask for other facts.  The model makes the     *)
(* call stack explicit.  The collection is seen through what it promises   *)
(* (module LazyFacts): asking it for a name gives what is built in.        *)
(***************************************************************************)
EXTENDS Integers, Sequences, FiniteSets, SequencesExt

CONSTANTS
    NumFacts,        \* facts are 1..NumFacts, in the order std::map sorts names
    BuiltIn,         \* the names the collection answers by itself
    FromEnvironment, \* the names given by FACTER_ variables
    NumFiles,        \* custom fact files, in the order of the search path
    FileFact,        \* FileFact[f]: the fact file f is named after, or 0
    Statements,      \* Statements[f]: what file f does, see Statement
    NumResolutions,  \* definitions of resolutions
    FactOf,          \* FactOf[r]: the fact definition r belongs to
    NameOf,          \* NameOf[r]: the name of the resolution it defines, or 0
    Aggregates,      \* those that define aggregate resolutions, the others simple ones
    HasWeight,       \* HasWeight[r]: the explicit weight, or -1
    Confines,        \* Confines[r]: the fact each confine names, 0 for a block alone
    Asks,            \* Asks[r]: the facts its block asks for, in order
    MaxResolutions,  \* MAXIMUM_RESOLUTIONS, of one fact
    MaxFlushes       \* bound: calls of Facter.flush

Fact == 1..NumFacts
File == 1..NumFiles
Resolution == 1..NumResolutions      \* each named by the statement that defines it
\* Facter.add defines a resolution; Facter.value asks for a fact.
Statement == [add : Resolution] \cup [value : Fact]
\* The resolution that statement k of file f adds, or 0.
Added(f, k) == IF "add" \in DOMAIN Statements[f][k] THEN Statements[f][k].add ELSE 0
AddsTo(f, n) ==
    \E k \in DOMAIN Statements[f] : Added(f, k) # 0 /\ FactOf[Added(f, k)] = n
\* All resolutions of fact n are in one file.
OneFile(n) == \A f, g \in File : AddsTo(f, n) /\ AddsTo(g, n) => f = g

ASSUME CustomFactsAssumption ==
    /\ NumFacts \in Nat /\ NumFiles \in Nat /\ NumResolutions \in Nat
    /\ BuiltIn \subseteq Fact /\ FromEnvironment \subseteq Fact
    /\ FileFact \in [File -> 0..NumFacts]
    /\ Statements \in [File -> Seq(Statement)]
    /\ FactOf \in [Resolution -> Fact] /\ NameOf \in [Resolution -> Nat]
    /\ Aggregates \subseteq Resolution
    /\ HasWeight \in [Resolution -> Nat \cup {-1}]
    /\ Confines \in [Resolution -> Seq(0..NumFacts)]
    /\ Asks \in [Resolution -> Seq(Fact)]
    /\ MaxResolutions \in Nat /\ MaxFlushes \in Nat

\* No two statements have the same definition: a definition is called after its statement.
\* What two of them define may still be one resolution, when they give it one name.
ASSUME StatementsDiffer ==
    \A f, g \in File : \A k \in DOMAIN Statements[f], l \in DOMAIN Statements[g] :
        Added(f, k) # 0 /\ Added(f, k) = Added(g, l) => f = g /\ k = l

(***************************************************************************)
(* A value says where it comes from and, for the value of a resolution,    *)
(* after how many flushes it was computed.                                 *)
(***************************************************************************)
Value == [by : -2..NumResolutions, gen : 0..MaxFlushes]
Nil == [by |-> 0, gen |-> 0]
Native == [by |-> -1, gen |-> 0]
Environment == [by |-> -2, gen |-> 0]
Unasked == [by |-> -3, gen |-> 0]    \* no answer yet

\* A resolution as it was defined last: the definition its block comes from, its explicit
\* weight and its _confines.
Object == [code : Resolution, weight : Nat \cup {-1}, confines : Seq(0..NumFacts)]

VARIABLES
    collection,   \* the value the collection answers a name with
    populated,    \* the collection is not empty()
    defined,      \* the keys of _facts
    resolutions,  \* _resolutions of every fact, as a vector
    value,        \* _value of every fact
    resolved,     \* the facts whose _resolved is set
    resolving,    \* the facts whose _resolving is set
    loadedFiles, loadedAll,
    stack,        \* the calls in progress, see the frames below
    broken,       \* history: the files that raised since the last reset
    generation,   \* how often the facts were flushed
    lost          \* memory that was given back has been read: anything may follow

world == <<collection, populated, defined, resolutions, value, resolved,
           loadedFiles, loadedAll>>
vars == <<world, resolving, stack, broken, generation, lost>>

\* fact::value: the resolution looked at, whether its confines or its block are
\* evaluated, how many of those have been asked, the last answer, the definition the
\* block is from, and whether _resolutions or the _confines looked at have moved.
ValueFields == [kind : {"value"}, fact : Fact, step : {"enter", "confine", "block"},
                it : Nat \ {0}, asked : Nat, answer : Value \cup {Unasked},
                code : 0..NumResolutions, moved : BOOLEAN, torn : BOOLEAN]
ValueFrame == {f \in ValueFields : f.step = "block" => f.code # 0}
\* module::resolve_facts: the fact the iterator over _facts is at.
DrainFrame == [kind : {"drain"}, fact : 0..NumFacts]
\* module::load_fact, or load_facts when there is no fact: it looks for files named
\* after the fact, then for all, and has come to file number at.
LoadFrame == [kind : {"load"}, fact : 0..NumFacts, step : {"named", "all"},
              at : 0..NumFiles]
\* module::load_file: the statement that is next.
FileFrame == [kind : {"file"}, file : File, it : Nat \ {0}]
Frame == ValueFrame \cup DrainFrame \cup LoadFrame \cup FileFrame

Idle == stack = <<>> /\ ~lost
Top == Last(stack)
InValue(step) == stack # <<>> /\ Top.kind = "value" /\ Top.step = step
Enter(n) == [kind |-> "value", fact |-> n, step |-> "enter", it |-> 1, asked |-> 0,
             answer |-> Unasked, code |-> 0, moved |-> FALSE, torn |-> FALSE]

\* resolution::weight().
Weight(o) == IF o.weight >= 0 THEN o.weight ELSE Len(o.confines)

-----------------------------------------------------------------------------
(* Loading.  A World is what the operations of the module change.          *)

World == [collection |-> collection, populated |-> populated, defined |-> defined,
          resolutions |-> resolutions, value |-> value, resolved |-> resolved,
          files |-> loadedFiles, all |-> loadedAll]

\* Mutant of Populate: a fact from the environment is not given its value.
PopulateUnset(w) ==
    IF w.populated THEN w
    ELSE [w EXCEPT !.populated = TRUE,
                   !.collection = [n \in Fact |-> IF n \in FromEnvironment THEN Environment
                                                  ELSE IF n \in BuiltIn THEN Native ELSE Nil],
                   !.defined = @ \cup FromEnvironment]

\* module::facts(): default, external and environment facts; the latter are
\* created as custom facts with their value set.
Populate(w) ==
    IF w.populated THEN w
    ELSE [w EXCEPT !.populated = TRUE,
                   !.collection = [n \in Fact |-> IF n \in FromEnvironment THEN Environment
                                                  ELSE IF n \in BuiltIn THEN Native ELSE Nil],
                   !.defined = @ \cup FromEnvironment,
                   !.value = [n \in Fact |-> IF n \in FromEnvironment THEN Environment
                                                                      ELSE @[n]],
                   !.resolved = @ \cup FromEnvironment]

\* create_fact, for a fact that is there already, too.
Create(w, n) == IF n \in w.defined THEN w ELSE [Populate(w) EXCEPT !.defined = @ \cup {n}]

\* find_resolution: o is the resolution that definition r names.
Names(o, r) == NameOf[r] # 0 /\ NameOf[o.code] = NameOf[r]
Named(rs, r) == {i \in 1..Len(rs) : Names(rs[i], r)}

New(r) == [code |-> r, weight |-> HasWeight[r], confines |-> Confines[r]]

\* A new block, and a new weight if it is given one; confines are only added.
Redefined(o, r) == [code |-> r,
                    weight |-> IF HasWeight[r] >= 0 THEN HasWeight[r] ELSE o.weight,
                    confines |-> o.confines \o Confines[r]]

\* Mutant of Defined: a resolution of the same name is not looked for.
DefinedTwice(rs, r) == Append(rs, New(r))

\* define_resolution appends to the vector, unless it holds a resolution of that name.
Defined(rs, r) ==
    IF Named(rs, r) = {} THEN Append(rs, New(r))
    ELSE [i \in 1..Len(rs) |-> IF Names(rs[i], r) THEN Redefined(rs[i], r) ELSE rs[i]]

\* It raises for a resolution of that name and the other kind, or one too many.
Definable(rs, r) ==
    /\ \A i \in Named(rs, r) : rs[i].code \in Aggregates <=> r \in Aggregates
    /\ Named(rs, r) = {} => Len(rs) < MaxResolutions

Define(w, r) == [Create(w, FactOf[r]) EXCEPT !.resolutions[FactOf[r]] = Defined(@, r)]

\* A vector that grows from m to k elements moves: its capacity is a power of two.
Outgrows(m, k) == \E p \in m..k - 1 : \E e \in 0..p : p = 2^e

\* The vectors that frames of fact::value point into, and that an operation moves.
Shifts(frame, w) == Outgrows(Len(resolutions[frame.fact]), Len(w.resolutions[frame.fact]))
Tears(frame, w) ==
    /\ frame.step = "confine" /\ frame.it <= Len(resolutions[frame.fact])
    /\ Outgrows(Len(resolutions[frame.fact][frame.it].confines),
                Len(w.resolutions[frame.fact][frame.it].confines))
Moved(frames, w) ==
    [i \in 1..Len(frames) |->
        IF frames[i].kind = "value" /\ frames[i].step # "enter"
        THEN [frames[i] EXCEPT !.moved = @ \/ Shifts(frames[i], w),
                               !.torn = @ \/ Tears(frames[i], w)]
        ELSE frames[i]]

Become(w) ==
    /\ collection' = w.collection /\ populated' = w.populated
    /\ defined' = w.defined /\ resolutions' = w.resolutions
    /\ value' = w.value /\ resolved' = w.resolved
    /\ loadedFiles' = w.files /\ loadedAll' = w.all

Advance(frame) == [stack EXCEPT ![Len(stack)] = frame]

\* The call that ends answers its caller, if that looks at answers.
Answered(frames, v) ==
    IF frames # <<>> /\ Last(frames).kind = "value"
    THEN [frames EXCEPT ![Len(frames)].answer = v] ELSE frames

\* Where the search for files begins: there is none once all files are loaded.
SearchStart == IF loadedAll THEN NumFiles ELSE 0

\* The files a load still comes to.
FilesLeft(frame) ==
    {f \in File : f > frame.at /\ (frame.step = "all" \/ FileFact[f] = frame.fact)}

\* Facter.value(n), or Facter.fact(n).value: callers is the stack of the caller.
\* A fact that is known is asked, any other one is looked for.
Ask(n, callers) ==
    /\ stack' = Append(callers,
                  IF n \in defined THEN Enter(n)
                  ELSE [kind |-> "load", fact |-> n, step |-> "named", at |-> SearchStart])
    /\ UNCHANGED <<world, resolving, broken, generation, lost>>

InLoad == stack # <<>> /\ Top.kind = "load"

\* Mutant of LoadFile: a file is loaded whenever it is found.
LoadFileAgain(f, frames) ==
    /\ loadedFiles' = loadedFiles \cup {f}
    /\ stack' = Append(frames, [kind |-> "file", file |-> f, it |-> 1])

\* load_file, unless it was called for the file before.
LoadFile(f, frames) ==
    /\ loadedFiles' = loadedFiles \cup {f}
    /\ stack' = IF f \in loadedFiles THEN frames
                ELSE Append(frames, [kind |-> "file", file |-> f, it |-> 1])

LoadsNext ==
    /\ InLoad
    /\ \E f \in FilesLeft(Top) :
         /\ \A g \in FilesLeft(Top) : f <= g
         /\ LoadFile(f, Advance([Top EXCEPT !.at = f]))
    /\ UNCHANGED <<collection, populated, defined, resolutions, value, resolved,
                   loadedAll, resolving, broken, generation, lost>>

\* load_fact after the files of that name: the fact is defined now, or in the
\* collection, or looked for in all files.
LoadedNamed ==
    /\ InLoad /\ Top.step = "named" /\ FilesLeft(Top) = {}
    /\ LET n == Top.fact
           found == n \in defined \/ Populate(World).collection[n] # Nil
       IN /\ Become(IF found THEN Create(World, n) ELSE Populate(World))
          /\ stack' = Advance(IF found THEN Enter(n)
                              ELSE [Top EXCEPT !.step = "all", !.at = SearchStart])
    /\ UNCHANGED <<resolving, broken, generation, lost>>

\* All files are loaded: the fact is known now, or nil.
LoadedAll ==
    /\ InLoad /\ Top.step = "all" /\ FilesLeft(Top) = {}
    /\ loadedAll' = TRUE
    /\ stack' = IF Top.fact \in defined THEN Advance(Enter(Top.fact))
                                        ELSE Answered(Front(stack), Nil)
    /\ UNCHANGED <<collection, populated, defined, resolutions, value, resolved,
                   loadedFiles, resolving, broken, generation, lost>>

AtStatement(op) ==
    /\ stack # <<>> /\ Top.kind = "file"
    /\ Top.it <= Len(Statements[Top.file])
    /\ op \in DOMAIN Statements[Top.file][Top.it]
NextStatement == Advance([Top EXCEPT !.it = @ + 1])

\* Facter.add; where it raises see FileRaises.
FileAdds ==
    /\ AtStatement("add")
    /\ LET r == Statements[Top.file][Top.it].add
           w == Define(World, r)
       IN /\ Definable(resolutions[FactOf[r]], r)
          /\ Become(w)
          /\ stack' = Moved(NextStatement, w)
    /\ UNCHANGED <<resolving, broken, generation, lost>>

FileAsks ==
    /\ AtStatement("value")
    /\ Ask(Statements[Top.file][Top.it].value, NextStatement)

FileEnds ==
    /\ stack # <<>> /\ Top.kind = "file" /\ Top.it > Len(Statements[Top.file])
    /\ stack' = Front(stack)
    /\ UNCHANGED <<world, resolving, broken, generation, lost>>

-----------------------------------------------------------------------------
(* fact::value                                                             *)

\* The call on top returns v to its caller.
Return(v) == stack' = Answered(Front(stack), v)

\* Mutant of Finish: nil is not passed on, so what is built in stays.
FinishKeepsOld(v, add) ==
    LET n == Top.fact IN
    /\ value' = [value EXCEPT ![n] = v]
    /\ resolved' = IF add THEN resolved \cup {n} ELSE resolved
    /\ collection' = IF add /\ v # Nil THEN [collection EXCEPT ![n] = v] ELSE collection
    /\ resolving' = resolving \ {n}
    /\ Return(v)
    /\ UNCHANGED <<populated, defined, loadedFiles, loadedAll, broken, generation, lost>>

\* The fact is given a value, which replaces what the collection holds unless it
\* came from there (`add`); nil removes it.
Finish(v, add) ==
    LET n == Top.fact IN
    /\ value' = [value EXCEPT ![n] = v]
    /\ resolved' = IF add THEN resolved \cup {n} ELSE resolved
    /\ collection' = IF add THEN [collection EXCEPT ![n] = v] ELSE collection
    /\ resolving' = resolving \ {n}
    /\ Return(v)
    /\ UNCHANGED <<populated, defined, loadedFiles, loadedAll, broken, generation, lost>>

\* load_file rescues: the file ends, what it defined stays.
FileBreaks(frames) ==
    /\ stack' = Front(frames)
    /\ broken' = broken \cup {Last(frames).file}
    /\ UNCHANGED <<world, resolving, generation, lost>>

\* The innermost caller that loads a file or evaluates resolutions rescues the
\* exception: the file ends, or the fact becomes nil.
Rescue(frames) ==
    IF Last(frames).kind = "file" THEN FileBreaks(frames)
    ELSE LET n == Last(frames).fact IN
         /\ value' = [value EXCEPT ![n] = Nil]
         /\ resolved' = resolved \cup {n}
         /\ collection' = [collection EXCEPT ![n] = Nil]
         /\ resolving' = resolving \ {n}
         /\ stack' = Answered(Front(frames), Nil)
         /\ UNCHANGED <<populated, defined, resolutions, loadedFiles, loadedAll, broken,
                        generation, lost>>

\* A file raises, before or after any of its statements.
FileRaises == stack # <<>> /\ Top.kind = "file" /\ Rescue(stack)

\* "cycle detected while requesting value of fact".
CycleRaises ==
    /\ InValue("enter") /\ Top.fact \in resolving
    /\ Rescue(Front(stack))

ReturnsResolved ==
    /\ InValue("enter") /\ Top.fact \in resolved \ resolving
    /\ Return(value[Top.fact])
    /\ UNCHANGED <<world, resolving, broken, generation, lost>>

\* std::sort keeps the order of equal weights (for up to 16 of them).
Before(rs, i, j) == \/ Weight(rs[i]) > Weight(rs[j])
                    \/ Weight(rs[i]) = Weight(rs[j]) /\ i < j

\* The place of the i-th one among the sorted resolutions.
Place(rs, i) == 1 + Cardinality({j \in 1..Len(rs) : Before(rs, j, i)})

\* Mutant of Sorted: by ascending weight.
SortedAscending(rs) ==
    [k \in 1..Len(rs) |-> rs[CHOOSE i \in 1..Len(rs) : Place(rs, i) = Len(rs) + 1 - k]]

\* The resolutions by descending weight.
Sorted(rs) == [k \in 1..Len(rs) |-> rs[CHOOSE i \in 1..Len(rs) : Place(rs, i) = k]]

\* Mutant of Begins: _resolving does not stop the evaluation.
BeginsWhileResolving == InValue("enter") /\ Top.fact \notin resolved

Begins == InValue("enter") /\ Top.fact \notin resolving \cup resolved

Sorts(n) == resolutions' = [resolutions EXCEPT ![n] = Sorted(@)]

\* There are no resolutions or the best one has weight 0, and the collection knows
\* the fact.
BuiltInFirst(n) ==
    /\ \A r \in Range(resolutions[n]) : Weight(r) = 0
    /\ collection[n] # Nil

\* The value is in the collection already: it is not added and not resolved.
UsesCollection ==
    /\ Begins
    /\ LET n == Top.fact IN
         /\ BuiltInFirst(n)
         /\ Finish(collection[n], FALSE)
         /\ Sorts(n)

\* A value kept from an earlier call although the fact is not _resolved: the
\* resolutions are not evaluated.
KeepsValue ==
    /\ Begins
    /\ LET n == Top.fact IN
         /\ ~BuiltInFirst(n) /\ value[n] # Nil
         /\ collection' = [collection EXCEPT ![n] = value[n]]
         /\ Return(value[n])
         /\ Sorts(n)
    /\ UNCHANGED <<populated, defined, value, resolved, loadedFiles, loadedAll,
                   resolving, broken, generation, lost>>

\* Sort the resolutions and look at the first.
BeginsLoop ==
    /\ Begins
    /\ LET n == Top.fact IN
         /\ ~BuiltInFirst(n) /\ value[n] = Nil
         /\ resolving' = resolving \cup {n}
         /\ Sorts(n)
    /\ stack' = [stack EXCEPT ![Len(stack)].step = "confine"]
    /\ UNCHANGED <<collection, populated, defined, value, resolved, loadedFiles,
                   loadedAll, broken, generation, lost>>

Chosen == resolutions[Top.fact][Top.it]
AtResolution(step) == InValue(step) /\ Top.it <= Len(resolutions[Top.fact])
NextFrame == [Top EXCEPT !.step = "confine", !.it = @ + 1, !.asked = 0,
                         !.answer = Unasked, !.code = 0, !.torn = FALSE]

\* ++it.  The iterator of a vector that moved points into memory given back.
NextResolution ==
    /\ IF Top.moved THEN stack' = <<>> /\ lost' = TRUE
                    ELSE stack' = Advance(NextFrame) /\ UNCHANGED lost
    /\ UNCHANGED <<world, resolving, broken, generation>>

\* A confine asks for its fact: facter.fact(name), then value.
ConfineAsks ==
    /\ AtResolution("confine") /\ Top.answer = Unasked
    /\ Top.asked < Len(Chosen.confines) /\ Chosen.confines[Top.asked + 1] # 0
    /\ Ask(Chosen.confines[Top.asked + 1], Advance([Top EXCEPT !.asked = @ + 1]))

\* A confine that is only a block.
ConfineBlock ==
    /\ AtResolution("confine") /\ Top.answer = Unasked
    /\ Top.asked < Len(Chosen.confines) /\ Chosen.confines[Top.asked + 1] = 0
    /\ \/ NextResolution
       \/ /\ stack' = Advance([Top EXCEPT !.asked = @ + 1])
          /\ UNCHANGED <<world, resolving, broken, generation, lost>>

\* The answer is nil or does not match: on to the next resolution.  Otherwise on
\* to the next confine; if they have moved, the confine that compares is not there.
ConfineDecides ==
    /\ AtResolution("confine") /\ Top.answer # Unasked
    /\ \/ (Top.torn => Top.answer = Nil) /\ NextResolution
       \/ /\ Top.answer # Nil /\ ~Top.torn
          /\ stack' = Advance([Top EXCEPT !.answer = Unasked])
          /\ UNCHANGED <<world, resolving, broken, generation, lost>>
       \/ /\ Top.answer # Nil /\ Top.torn
          /\ stack' = <<>> /\ lost' = TRUE
          /\ UNCHANGED <<world, resolving, broken, generation>>

\* Every confine is suitable: res->value().
Suitable ==
    /\ AtResolution("confine") /\ Top.answer = Unasked
    /\ Top.asked = Len(Chosen.confines)
    /\ stack' = Advance([Top EXCEPT !.step = "block", !.asked = 0, !.code = Chosen.code])
    /\ UNCHANGED <<world, resolving, broken, generation, lost>>

BlockAsks ==
    /\ AtResolution("block")
    /\ Top.asked < Len(Asks[Top.code])
    /\ Ask(Asks[Top.code][Top.asked + 1], Advance([Top EXCEPT !.asked = @ + 1]))

BlockDone == AtResolution("block") /\ Top.asked = Len(Asks[Top.code])

\* The block, the explicit value or the command gives a value.
BlockGives ==
    /\ BlockDone
    /\ Finish([by |-> Top.code, gen |-> generation], TRUE)
    /\ UNCHANGED resolutions

\* It gives nil: the next resolution is tried.
BlockGivesNil == BlockDone /\ NextResolution

\* The block raises, or a confine does.
BlockRaises ==
    /\ \/ AtResolution("block")
       \/ AtResolution("confine") /\ Chosen.confines # <<>>
    /\ Rescue(stack)

\* No resolution gave a value.
LoopEnds ==
    /\ InValue("confine") /\ Top.it > Len(resolutions[Top.fact])
    /\ Finish(Nil, TRUE)
    /\ UNCHANGED resolutions

-----------------------------------------------------------------------------
(* The Facter module *)

\* Facter.value(n) called by the application.
FacterValue(n) == Idle /\ Ask(n, <<>>)

LoadFacts == [kind |-> "load", fact |-> 0, step |-> "all", at |-> SearchStart]

\* Facter.loadfacts.
FacterLoadFacts ==
    /\ Idle
    /\ stack' = <<LoadFacts>>
    /\ UNCHANGED <<world, resolving, broken, generation, lost>>

\* module::resolve_facts: the collection, the files, then its loop over _facts.
ResolveFacts ==
    /\ Idle
    /\ Become(Populate(World))
    /\ stack' = <<[kind |-> "drain", fact |-> 0], LoadFacts>>
    /\ UNCHANGED <<resolving, broken, generation, lost>>

InDrain == stack # <<>> /\ Top.kind = "drain"

\* Mutant of DrainLeft: the iterator is not advanced.
DrainLeftSame == {n \in defined : n >= Top.fact}

\* The facts after the iterator, those inserted meanwhile included.
DrainLeft == {n \in defined : n > Top.fact}

DrainNext ==
    /\ InDrain
    /\ \E n \in DrainLeft :
         /\ \A m \in DrainLeft : n <= m
         /\ stack' = <<[Top EXCEPT !.fact = n], Enter(n)>>
    /\ UNCHANGED <<world, resolving, broken, generation, lost>>

DrainReturns ==
    /\ InDrain /\ DrainLeft = {}
    /\ stack' = <<>>
    /\ UNCHANGED <<world, resolving, broken, generation, lost>>

\* Facter.flush: the on_flush blocks run and the values are reset, fact by fact, up to
\* one whose block raises (last) if there is one.
Flush ==
    /\ Idle /\ generation < MaxFlushes
    /\ generation' = generation + 1
    /\ \E last \in 1..NumFacts + 1 :
         LET flushed == {n \in defined : n < last}
         IN /\ resolved' = resolved \ flushed
            /\ value' = [n \in Fact |-> IF n \in flushed THEN Nil ELSE value[n]]
    /\ UNCHANGED <<collection, populated, defined, resolutions, loadedFiles, loadedAll,
                   resolving, stack, broken, lost>>

\* Facter.reset and Facter.clear, which flushes first: the facts, the collection and
\* what was loaded are forgotten.
Reset ==
    /\ Idle
    /\ collection' = [n \in Fact |-> Nil] /\ populated' = FALSE
    /\ defined' = {} /\ resolutions' = [n \in Fact |-> <<>>]
    /\ value' = [n \in Fact |-> Nil] /\ resolved' = {}
    /\ loadedFiles' = {} /\ loadedAll' = FALSE /\ broken' = {}
    /\ UNCHANGED <<resolving, stack, generation, lost>>

Init ==
    /\ collection = [n \in Fact |-> Nil] /\ populated = FALSE
    /\ defined = {} /\ resolutions = [n \in Fact |-> <<>>]
    /\ value = [n \in Fact |-> Nil] /\ resolved = {} /\ resolving = {}
    /\ loadedFiles = {} /\ loadedAll = FALSE
    /\ stack = <<>> /\ broken = {} /\ generation = 0 /\ lost = FALSE

Call == (\E n \in Fact : FacterValue(n)) \/ FacterLoadFacts \/ ResolveFacts \/ Flush \/ Reset

Step ==
    \/ LoadsNext \/ LoadedNamed \/ LoadedAll
    \/ FileAdds \/ FileAsks \/ FileEnds \/ FileRaises
    \/ CycleRaises \/ ReturnsResolved \/ UsesCollection \/ KeepsValue \/ BeginsLoop
    \/ ConfineAsks \/ ConfineBlock \/ ConfineDecides \/ Suitable
    \/ BlockAsks \/ BlockGives \/ BlockGivesNil \/ BlockRaises \/ LoopEnds
    \/ DrainNext \/ DrainReturns

Next == Call \/ Step

Spec == Init /\ [][Next]_vars
FairSpec == Spec /\ WF_vars(Step)

-----------------------------------------------------------------------------
Evaluating(n) == {i \in 1..Len(stack) : /\ stack[i].kind = "value"
                                        /\ stack[i].step # "enter"
                                        /\ stack[i].fact = n}

\* _resolving (fact.cc:64, 79, 129) is set exactly while the resolutions of the fact
\* are evaluated, and no fact is evaluated within its own evaluation, whichever
\* exceptions were rescued on the way.
ResolvingMatchesStack ==
    ~lost => \A n \in Fact : Cardinality(Evaluating(n)) = IF n \in resolving THEN 1 ELSE 0

Types ==
    /\ collection \in [Fact -> Value] /\ value \in [Fact -> Value]
    /\ populated \in BOOLEAN /\ loadedAll \in BOOLEAN /\ lost \in BOOLEAN
    /\ defined \subseteq Fact /\ resolved \subseteq Fact /\ resolving \subseteq Fact
    /\ resolutions \in [Fact -> Seq(Object)]
    /\ loadedFiles \subseteq File /\ broken \subseteq File /\ generation \in 0..MaxFlushes
    /\ stack \in Seq(Frame)

\* Every variable has its type, and the resolving marks are those of the calls in
\* progress (ResolvingMatchesStack).
TypeOK == Types /\ ResolvingMatchesStack

\* The statements of file f that have been executed, unless it raised.
Executed(f) ==
    LET active == {i \in 1..Len(stack) : stack[i].kind = "file" /\ stack[i].file = f}
    IN IF f \notin loadedFiles THEN {}
       ELSE {k \in DOMAIN Statements[f] : \A i \in active : k < stack[i].it}

\* Two definitions of one resolution.
SameResolution(q, r) ==
    FactOf[q] = FactOf[r] /\ (q = r \/ (NameOf[r] # 0 /\ NameOf[q] = NameOf[r]))

\* Where the resolutions of its fact hold what definition r defines.
Places(r) ==
    {i \in DOMAIN resolutions[FactOf[r]] : SameResolution(resolutions[FactOf[r]][i].code, r)}

\* A file that raises ends alone: every other file that was loaded, whatever it or a
\* fact asked for meanwhile, has defined each of its resolutions, once; and once all
\* are said to be loaded each file has been begun (module.cc:246-263, 867-886).
\* "adding a resolution with the same name overrides the existing resolution"
\* (tests/ruby/ruby.cc:394): there is one resolution of a name, and an earlier definition
\* of the file does not take the place of a later one (fact.cc:229-263).
FilesDefineOnce ==
    /\ loadedAll => loadedFiles = File
    /\ ~lost => \A f \in File \ broken : \A k \in DOMAIN Statements[f] :
         Added(f, k) # 0 =>
            LET rs == resolutions[FactOf[Added(f, k)]]
            IN IF k \in Executed(f)
               THEN \E i \in DOMAIN rs : /\ Places(Added(f, k)) = {i}
                                         /\ \A l \in 1..k - 1 : rs[i].code # Added(f, l)
               ELSE \A i \in DOMAIN rs : rs[i].code # Added(f, k)

\* What a fact answers is what the collection answers for its name, so Facter.value,
\* Facter.to_hash and the output agree (fact.cc:125-127, module.cc:336): also after
\* nil, which removes the name.
AnswersAgree ==
    \A n \in Fact : n \in resolved \/ value[n] # Nil => collection[n] = value[n]

\* "We honor environment variables above custom fact resolutions" (module.cc:335),
\* whatever the weight of the resolutions, as long as the facts are not flushed
\* (flush resets these facts like any other, fact.cc:277-279).
EnvironmentWins ==
    populated /\ generation = 0 => \A n \in FromEnvironment : collection[n] = Environment

\* A resolution gives the value only after every heavier one of the fact was asked
\* (fact.cc:72-77, 99-109), unless another file adds to the fact meanwhile.
HeavierAskedFirst ==
    [][BlockGives /\ OneFile(Top.fact) =>
         \A i \in Top.it + 1..Len(resolutions[Top.fact]) :
            Weight(resolutions[Top.fact][i]) <= Weight(Chosen)]_vars

\* push_back never moves the vector under the loop over _resolutions (fact.cc:100,
\* 236-238) nor the one under the loop over the _confines of one (resolution.cc:69, 109)
\* when the resolutions of the fact are in one file, however files and facts load and ask
\* for each other.
IteratorsStayValid ==
    \A i \in 1..Len(stack) :
        stack[i].kind = "value" /\ (stack[i].moved \/ stack[i].torn)
            => ~OneFile(stack[i].fact)

\* A call returns: cycles are noticed, the loops over resolutions and facts end.
CallsReturn == (stack # <<>>) ~> (stack = <<>>)
=============================================================================
