----------------------------- MODULE GatherProofs -----------------------------
(* For every set of resolvers, directories, environments, custom facts and     *)
(* queries: the exit status tells of every loss, the strongest source wins, and *)
(* a listing is whole.                                                         *)
EXTENDS Gather, TLAPS, SequenceTheorems, FiniteSetTheorems

\* What carries ExitTellsLoss: a file that breaks off is flagged when it does, unless it is a
\* text file, one that is open is closed before the files end, and an exception of a resolver
\* leads to main's catch.
Untouched  == pc = "options" => broken = {} /\ file = <<>> /\ ~coll.raised
BreakIsFlagged == flagged \/ \A b \in broken : b.kind = "text" /\ b.opened
FileIsClosed == pc \notin {"files", "fatal", "done"} => file = <<>>
ExceptionIsCaught == coll.raised => pc \in {"fatal", "done"}
Honest == Untouched /\ BreakIsFlagged /\ FileIsClosed /\ ExceptionIsCaught /\ ExitTellsLoss

LEMMA HonestInit == Init => Honest
<1> SUFFICES ASSUME Init PROVE Honest
    OBVIOUS
<1>1. /\ pc = "options" /\ exit = "" /\ file = <<>>
      /\ broken = {}
    BY DEF Init
<1>2. ~coll.raised
  BY DEF Init, Empty
<1> QED
  BY <1>1, <1>2 DEF Honest, Untouched, BreakIsFlagged, FileIsClosed, ExceptionIsCaught,
                    ExitTellsLoss

LEMMA HonestNext == Honest /\ [Next]_vars => Honest'
<1> SUFFICES ASSUME Honest, [Next]_vars PROVE Honest'
    OBVIOUS
<1> USE DEF Honest, Untouched, BreakIsFlagged, FileIsClosed, ExceptionIsCaught, ExitTellsLoss,
            given
<1>1. CASE Reject BY <1>1 DEF Reject, Ends, NothingGathered, Only
<1>2. CASE Help BY <1>2 DEF Help, Ends, NothingGathered, Only
<1>3. CASE Version BY <1>3 DEF Version, Ends, NothingGathered, Only
<1>4. CASE Start BY <1>4 DEF Start
<1>5. CASE NextDirectory BY <1>5 DEF NextDirectory, EndDirectory
<1>6. CASE EndFiles BY <1>6 DEF EndFiles, EndDirectory
<1>7. CASE SkipFile BY <1>7 DEF SkipFile
<1>8. CASE FileRefused BY <1>8 DEF FileRefused, Failed
<1>9. CASE OpenFile BY <1>9 DEF OpenFile
<1>10. CASE IgnoreLine BY <1>10 DEF IgnoreLine, Reading
<1>11. CASE AddEntry BY <1>11 DEF AddEntry, Reading, Says
<1>12. CASE JsonEvent BY <1>12 DEF JsonEvent, Reading, Says
<1>13. CASE FileBreaks BY <1>13 DEF FileBreaks, Failed
<1>14. CASE EndFile BY <1>14 DEF EndFile
<1>22. CASE TextStops BY <1>22 DEF TextStops, BrokenOff
<1>15. CASE AddVariable BY <1>15 DEF AddVariable, Says
<1>16. CASE EndEnvironment BY <1>16 DEF EndEnvironment
<1>17. CASE AddCustom BY <1>17 DEF AddCustom, Says
<1>18. CASE EndCustom BY <1>18 DEF EndCustom
<1>19. CASE Write BY <1>19 DEF Write, Ends
<1>20. CASE Fatal BY <1>20 DEF Fatal, Ends, Only
<1>21. CASE UNCHANGED vars BY <1>21 DEF vars
<1> QED
  BY <1>1, <1>2, <1>3, <1>4, <1>5, <1>6, <1>7, <1>8, <1>9, <1>10, <1>11, <1>12, <1>13, <1>14,
     <1>15, <1>16, <1>17, <1>18, <1>19, <1>20, <1>21, <1>22 DEF Next

\* The program exits with success only when it has written what was asked for, has read every
\* file it took up to its end but for a text file that could no longer be read, and no resolver threw (ExitTellsLoss).
THEOREM ExitTellsLossCorrect == Spec => []ExitTellsLoss
<1>1. Honest => ExitTellsLoss
      BY DEF Honest
<1> QED
  BY HonestInit, HonestNext, <1>1, PTL DEF Spec

-----------------------------------------------------------------------------
(* Which source wins *)

Told(name, os) == \E o \in os : o.name = name
Strongest(name, os) ==
    {o \in os : o.name = name /\ \A p \in os : p.name = name => p.rank <= o.rank}
ValueIn(c, name) == IF name \in DOMAIN c.facts THEN c.facts[name] ELSE NullValue
Resolved(c) == host \ c.unresolved

\* What a collection knows of a name when the sources made some offers: what one of the
\* strongest said; without an offer, what is built in once that was resolved. It is
\* resolved before an offer is taken, so that nothing resolves over it later.
TakenOver(c, os, name) ==
    /\ name \notin NamesOf(c.unresolved) \cup c.hidden
    /\ \E o \in Strongest(name, os) : ValueIn(c, name) = o.value
BuiltIn(c, name) ==
    /\ name \in DOMAIN c.facts <=> name \in NamesOf(Resolved(c))
    /\ \A g \in Resolved(c) : name \in DOMAIN g.facts => c.facts[name] = g.facts[name]
    /\ name \in c.hidden <=> \E g \in Resolved(c) : name \in g.hidden
Sound(c, os) ==
    /\ c.unresolved \subseteq host
    /\ \A name : /\ Told(name, os) => TakenOver(c, os, name)
                 /\ ~Told(name, os) => BuiltIn(c, name)

\* The built-in resolvers of a host share no name.
Apart ==
    \A g \in host : /\ g.hidden \subseteq DOMAIN g.facts
                    /\ \A h \in host : g # h => DOMAIN g.facts \cap DOMAIN h.facts = {}

\* A name of one of some groups has the value this group gives it.
LEMMA OneGroup ==
  ASSUME Apart, NEW groups \in SUBSET host, NEW g \in groups, NEW name \in DOMAIN g.facts
  PROVE  (CHOOSE h \in groups : name \in DOMAIN h.facts) = g
<1>1. \A h \in groups : name \in DOMAIN h.facts => h = g
  BY DEF Apart
<1>2. QED BY <1>1

LEMMA ResolveIs ==
  ASSUME NEW c, NEW groups
  PROVE  /\ DOMAIN Resolve(c, groups).facts = DOMAIN c.facts \cup NamesOf(groups)
         /\ \A n \in NamesOf(groups) :
                Resolve(c, groups).facts[n] = (CHOOSE g \in groups : n \in DOMAIN g.facts).facts[n]
         /\ \A n \in DOMAIN c.facts \ NamesOf(groups) : Resolve(c, groups).facts[n] = c.facts[n]
         /\ Resolve(c, groups).hidden = c.hidden \cup UNION {g.hidden : g \in groups}
         /\ Resolve(c, groups).unresolved = c.unresolved \ groups
         /\ Resolve(c, groups).raised <=> c.raised \/ \E g \in groups : g.raises
BY DEF Resolve

\* Resolving leaves a collection sound.
LEMMA ResolveKeeps ==
  ASSUME Apart, NEW c, NEW os, Sound(c, os), NEW groups \in SUBSET c.unresolved
  PROVE  Sound(Resolve(c, groups), os)
<1> DEFINE d == Resolve(c, groups)
<1>1. c.unresolved \subseteq host /\ groups \subseteq host /\ d.unresolved = c.unresolved \ groups
  BY ResolveIs DEF Sound
<1>2. d.hidden = c.hidden \cup UNION {g.hidden : g \in groups}
  BY ResolveIs
<1>3. /\ DOMAIN d.facts = DOMAIN c.facts \cup NamesOf(groups)
      /\ \A n \in DOMAIN c.facts \ NamesOf(groups) : d.facts[n] = c.facts[n]
  BY ResolveIs
<1>4. \A g \in groups : \A n \in DOMAIN g.facts : d.facts[n] = g.facts[n]
  <2> SUFFICES ASSUME NEW g \in groups, NEW n \in DOMAIN g.facts PROVE d.facts[n] = g.facts[n]
    OBVIOUS
  <2>1. n \in NamesOf(groups)
    BY DEF NamesOf
  <2>2. (CHOOSE h \in groups : n \in DOMAIN h.facts) = g
    BY <1>1, OneGroup
  <2>3. d.facts[n] = (CHOOSE h \in groups : n \in DOMAIN h.facts).facts[n]
    BY <2>1, ResolveIs
  <2>4. QED BY <2>2, <2>3
<1> HIDE DEF d
<1>5. Resolved(d) = Resolved(c) \cup groups
  BY <1>1 DEF Resolved
<1>6. ASSUME NEW name, Told(name, os) PROVE TakenOver(d, os, name)
  <2>1. TakenOver(c, os, name)
    BY <1>6 DEF Sound
  <2>2. name \notin NamesOf(groups) /\ name \notin NamesOf(d.unresolved)
    BY <1>1, <2>1 DEF TakenOver, NamesOf
  <2>3. \A g \in groups : name \notin g.hidden
    BY <1>1, <2>2 DEF Apart, NamesOf
  <2>4. name \notin d.hidden
    BY <1>2, <2>1, <2>3 DEF TakenOver
  <2>5. ValueIn(d, name) = ValueIn(c, name)
    BY <1>3, <2>2 DEF ValueIn
  <2>6. QED BY <2>1, <2>2, <2>4, <2>5 DEF TakenOver
<1>7. ASSUME NEW name, ~Told(name, os) PROVE BuiltIn(d, name)
  <2>1. BuiltIn(c, name)
    BY <1>7 DEF Sound
  <2>2. name \in DOMAIN d.facts <=> name \in NamesOf(Resolved(d))
    BY <1>3, <1>5, <2>1 DEF BuiltIn, NamesOf
  <2>3. name \in d.hidden <=> \E g \in Resolved(d) : name \in g.hidden
    BY <1>2, <1>5, <2>1 DEF BuiltIn
  <2>4. ASSUME NEW g \in Resolved(d), name \in DOMAIN g.facts PROVE d.facts[name] = g.facts[name]
    <3>1. CASE g \in groups
      BY <1>4, <2>4, <3>1
    <3>2. CASE g \notin groups
      <4>1. g \in Resolved(c)
        BY <1>5, <3>2
      <4>2. name \in DOMAIN c.facts /\ c.facts[name] = g.facts[name]
        BY <2>1, <2>4, <4>1 DEF BuiltIn, NamesOf
      <4>3. name \notin NamesOf(groups)
        BY <1>1, <2>4, <3>2, <4>1 DEF Apart, NamesOf, Resolved
      <4>4. QED BY <1>3, <4>2, <4>3
    <3>3. QED BY <3>1, <3>2
  <2>5. QED BY <2>2, <2>3, <2>4 DEF BuiltIn
<1>8. QED BY <1>1, <1>6, <1>7 DEF Sound, d

LEMMA AskedKeeps ==
  ASSUME Apart, NEW c, NEW os, Sound(c, os), NEW names
  PROVE  /\ Sound(AskedFor(c, names), os)
         /\ \A name \in names : name \notin NamesOf(AskedFor(c, names).unresolved)
<1> DEFINE groups == {g \in c.unresolved : DOMAIN g.facts \cap names # {}}
<1>1. AskedFor(c, names) = Resolve(c, groups) /\ groups \in SUBSET c.unresolved
  BY DEF AskedFor
<1>2. AskedFor(c, names).unresolved = c.unresolved \ groups
  BY <1>1, ResolveIs
<1>3. \A name \in names : name \notin NamesOf(c.unresolved \ groups)
  BY DEF NamesOf
<1> HIDE DEF groups
<1>4. QED BY <1>1, <1>2, <1>3, ResolveKeeps

\* What add and remove change of a collection that was asked before.
Changed(d, name, v) == IF v = NullValue THEN Without(d, name) ELSE With(d, name, v)
ChangedRight(e, d, name, v) ==
    /\ e.unresolved = d.unresolved /\ e.hidden = d.hidden \ {name}
    /\ ValueIn(e, name) = v
    /\ \A n : n # name => /\ n \in DOMAIN e.facts <=> n \in DOMAIN d.facts
                          /\ n \in DOMAIN d.facts => e.facts[n] = d.facts[n]
LEMMA ChangedIs ==
  ASSUME NEW c, NEW names, NEW name, NEW v
  PROVE  ChangedRight(Changed(AskedFor(c, names), name, v), AskedFor(c, names), name, v)
<1> DEFINE d == AskedFor(c, names)
           e == Changed(d, name, v)
<1>1. CASE v = NullValue
  <2>1. e = Without(d, name)
    BY <1>1 DEF Changed
  <2>2. e.facts = [n \in DOMAIN d.facts \ {name} |-> d.facts[n]]
    BY <2>1 DEF Without, AskedFor, Resolve
  <2>3. e.unresolved = d.unresolved /\ e.hidden = d.hidden \ {name}
    BY <2>1 DEF Without, AskedFor, Resolve
  <2> HIDE DEF d, e
  <2>4. ChangedRight(e, d, name, v)
    BY <1>1, <2>2, <2>3 DEF ValueIn, ChangedRight
  <2>5. QED BY <2>4 DEF d, e
<1>2. CASE v # NullValue
  <2>1. e = With(d, name, v)
    BY <1>2 DEF Changed
  <2>2. e.facts = [n \in DOMAIN d.facts \cup {name} |-> IF n = name THEN v ELSE d.facts[n]]
    BY <2>1 DEF With, AskedFor, Resolve
  <2>3. e.unresolved = d.unresolved /\ e.hidden = d.hidden \ {name}
    BY <2>1 DEF With, AskedFor, Resolve
  <2> HIDE DEF d, e
  <2>4. ChangedRight(e, d, name, v)
    BY <1>2, <2>2, <2>3 DEF ValueIn, ChangedRight
  <2>5. QED BY <2>4 DEF d, e
<1>3. QED BY <1>1, <1>2

\* A source that is as strong as those before it is believed.
LEMMA AddKeeps ==
  ASSUME Apart, NEW c, NEW os, Sound(c, os), NEW name, NEW v, NEW rank \in Int,
         \A o \in os : o.rank \in Int, \A o \in os : o.name = name => o.rank <= rank,
         ~Add(c, name, v).raised
  PROVE  Sound(Add(c, name, v), os \cup {[rank |-> rank, name |-> name, value |-> v]})
<1> DEFINE d == AskedFor(c, {name})
           e == Add(c, name, v)
           offer == [rank |-> rank, name |-> name, value |-> v]
           new == os \cup {offer}
<1>1. Sound(d, os) /\ name \notin NamesOf(d.unresolved)
  BY AskedKeeps
<1>2. e = Changed(d, name, v)
  <2>1. ~d.raised
    BY DEF Add, Asked
  <2>2. QED BY <2>1 DEF Add, Asked, Changed
<1>3. ChangedRight(e, d, name, v)
  <2>1. ChangedRight(Changed(AskedFor(c, {name}), name, v), AskedFor(c, {name}), name, v)
    BY ChangedIs
  <2>2. QED BY <1>2, <2>1
<1>4. offer.rank = rank /\ offer.name = name /\ offer.value = v
  OBVIOUS
<1> HIDE DEF d, e, offer
<1>5. TakenOver(e, new, name)
  <2>1. offer \in Strongest(name, new)
    BY <1>4 DEF Strongest
  <2>2. QED BY <1>1, <1>3, <1>4, <2>1 DEF TakenOver, ChangedRight
<1>6. ASSUME NEW n, n # name PROVE (Told(n, new) <=> Told(n, os)) /\ Strongest(n, new) = Strongest(n, os)
  BY <1>4, <1>6 DEF Told, Strongest
<1>7. ASSUME NEW n, n # name, Told(n, new) PROVE TakenOver(e, new, n)
  <2>1. TakenOver(d, os, n)
    BY <1>1, <1>6, <1>7 DEF Sound
  <2>2. ValueIn(e, n) = ValueIn(d, n)
    BY <1>3, <1>7 DEF ValueIn, ChangedRight
  <2>3. QED BY <1>3, <1>6, <1>7, <2>1, <2>2 DEF TakenOver, ChangedRight
<1>8. ASSUME NEW n, n # name, ~Told(n, new) PROVE BuiltIn(e, n)
  <2>1. BuiltIn(d, n)
    BY <1>1, <1>6, <1>8 DEF Sound
  <2>2. Resolved(e) = Resolved(d)
    BY <1>3 DEF Resolved, ChangedRight
  <2>3. QED BY <1>3, <1>8, <2>1, <2>2 DEF BuiltIn, NamesOf, ChangedRight
<1>9. Told(name, new)
  BY <1>4 DEF Told
<1>10. e.unresolved \subseteq host
  BY <1>1, <1>3 DEF Sound, ChangedRight
<1>11. Sound(e, new)
  BY <1>5, <1>7, <1>8, <1>9, <1>10 DEF Sound
<1>12. QED BY <1>11 DEF e, offer


-----------------------------------------------------------------------------
(* Queries resolve what they ask for, and change nothing else *)

Walking   == INSTANCE FoldFacts WITH op <- Char
Answering == INSTANCE FoldFacts WITH op <- Answer
Squeezing == INSTANCE FoldFacts WITH op <- Squeeze

WalkOver(w, query) == FoldLeft(Char, w, query)
Squeezed(chars)    == FoldLeft(Squeeze, <<>>, chars)
AnswersOf(state, asked) == FoldSet(Answer, state, asked)

LEMMA WalkOverIsFold ==
  ASSUME NEW w, NEW query
  PROVE  WalkOver(w, query) = Walking!Fold(w, query)
<1> HIDE DEF Char
<1>1. QED
  BY DEF WalkOver, FoldLeft, MapThenFoldSet, Max,
         Walking!Fold, Walking!FoldLeft, Walking!MapThenFoldSet, Walking!Max

LEMMA SqueezedIsFold ==
  ASSUME NEW chars
  PROVE  Squeezed(chars) = Squeezing!Fold(<<>>, chars)
<1> HIDE DEF Squeeze
<1>1. QED
  BY DEF Squeezed, FoldLeft, MapThenFoldSet, Max,
         Squeezing!Fold, Squeezing!FoldLeft, Squeezing!MapThenFoldSet, Squeezing!Max

LEMMA AnswersOfIsFold ==
  ASSUME NEW state, NEW asked
  PROVE  AnswersOf(state, asked) = Answering!FoldAll(state, asked)
<1> HIDE DEF Answer
<1>1. QED
  BY DEF AnswersOf, FoldSet, MapThenFoldSet,
         Answering!FoldAll, Answering!FoldSet, Answering!MapThenFoldSet

LEMMA WalkSteps ==
  ASSUME NEW S, NEW query \in Seq(S), NEW ch \in S, NEW w
  PROVE  /\ WalkOver(w, <<>>) = w
         /\ WalkOver(w, Append(query, ch)) = Char(WalkOver(w, query), ch)
<1> HIDE DEF Char
<1>1. QED BY WalkOverIsFold, Walking!FoldEmpty, Walking!FoldAppend

\* A walk whose collection is sound.
OnGround(w, os) == "c" \in DOMAIN w /\ Sound(w.c, os)

LEMMA GetValueKeeps ==
  ASSUME Apart, NEW w, NEW os, OnGround(w, os), NEW chars
  PROVE  OnGround(GetValue(w, chars), os)
<1> DEFINE asked == AskedFor(w.c, Named(DOMAIN Spelling, chars))
<1>1. Sound(asked, os)
  BY AskedKeeps DEF OnGround
<1> HIDE DEF asked
<1>2. PICK found : GetValue(w, chars) = [w EXCEPT !.c = asked, !.current = found]
  BY DEF GetValue, asked
<1>3. QED BY <1>1, <1>2 DEF OnGround

LEMMA LookUpKeeps ==
  ASSUME Apart, NEW w, NEW os, OnGround(w, os)
  PROVE  OnGround(LookUp(w), os)
<1>1. CASE w.current = <<>>
  BY <1>1, GetValueKeeps DEF LookUp
<1>2. CASE w.current # <<>>
  <2>1. PICK found : LookUp(w) = [w EXCEPT !.current = found]
    BY <1>2 DEF LookUp
  <2>2. QED BY <2>1 DEF OnGround
<1>3. QED BY <1>1, <1>2

LEMMA CharKeeps ==
  ASSUME Apart, NEW w, NEW os, OnGround(w, os), NEW ch
  PROVE  OnGround(Char(w, ch), os)
<1> DEFINE found == LookUp(w)
<1>1. OnGround(found, os)
  BY LookUpKeeps
<1> HIDE DEF found
<1>2. OnGround([w EXCEPT !.quotes = ~@], os)
  BY DEF OnGround
<1>3. OnGround([w EXCEPT !.segment = Append(@, ch)], os)
  BY DEF OnGround
<1>4. OnGround([found EXCEPT !.segment = <<>>, !.stopped = found.current = <<>>], os)
  BY <1>1 DEF OnGround
<1>5. \/ Char(w, ch) = w
      \/ Char(w, ch) = [w EXCEPT !.quotes = ~@]
      \/ Char(w, ch) = [found EXCEPT !.segment = <<>>, !.stopped = found.current = <<>>]
      \/ Char(w, ch) = [w EXCEPT !.segment = Append(@, ch)]
  BY DEF Char, found
<1>6. QED BY <1>2, <1>3, <1>4, <1>5

LEMMA WalkOverKeeps ==
  ASSUME Apart, NEW w, NEW os, OnGround(w, os), NEW S, NEW query \in Seq(S)
  PROVE  OnGround(WalkOver(w, query), os)
<1> DEFINE Q == {q \in Seq(S) : OnGround(WalkOver(w, q), os)}
<1>1. <<>> \in Q
  <2>1. WalkOver(w, <<>>) = w
    <3> HIDE DEF Char
    <3>1. QED BY WalkOverIsFold, Walking!FoldEmpty
  <2>2. QED BY <2>1, EmptySeq
<1>2. ASSUME NEW q \in Seq(S), NEW x \in S, q \in Q PROVE Append(q, x) \in Q
  <2>1. OnGround(Char(WalkOver(w, q), x), os)
    BY <1>2, CharKeeps
  <2>2. QED BY <2>1, WalkSteps, AppendProperties
<1> HIDE DEF Q
<1>3. Seq(S) \subseteq Q
  BY <1>1, <1>2, Walking!SeqInduct
<1>4. QED BY <1>3 DEF Q

LEMMA QueryValueKeeps ==
  ASSUME Apart, NEW c, NEW os, Sound(c, os), NEW S, NEW query \in Seq(S)
  PROVE  Sound(QueryValue(c, query).c, os)
<1> DEFINE whole == GetValue(Walk(c), query)
           walked == WalkOver(whole, query)
<1>1. OnGround(Walk(c), os)
  BY DEF OnGround, Walk
<1>2. OnGround(whole, os)
  BY <1>1, GetValueKeeps
<1>3. OnGround(walked, os)
  <2> HIDE DEF whole
  <2>1. QED BY <1>2, WalkOverKeeps
<1>4. OnGround(LookUp(walked), os)
  <2> HIDE DEF walked
  <2>1. QED BY <1>3, LookUpKeeps
<1>5. \/ QueryValue(c, query) = whole
      \/ QueryValue(c, query) = walked
      \/ QueryValue(c, query) = LookUp(walked)
  BY DEF QueryValue, WalkOver
<1> HIDE DEF whole, walked
<1>6. QED BY <1>2, <1>3, <1>4, <1>5 DEF OnGround

LEMMA AnswersKeep ==
  ASSUME Apart, NEW state, NEW os, Sound(state.c, os),
         NEW asked, IsFiniteSet(asked), \A q \in asked : \E S : q \in Seq(S)
  PROVE  Sound(AnswersOf(state, asked).c, os)
<1>0. Answering!IsFiniteSet(asked)
  BY DEF IsFiniteSet, Answering!IsFiniteSet
<1>1. PICK h : Answering!FoldAll(state, asked) = h[asked] /\ Answering!Follows(h, state, asked)
  <2> HIDE DEF Answer
  <2>1. QED BY <1>0, Answering!FoldAllRun
<1> DEFINE T == {t \in SUBSET asked : Sound(h[t].c, os)}
<1>2. {} \in T
  <2> HIDE DEF Answer
  <2>1. QED BY <1>1 DEF Answering!Follows
<1>3. ASSUME NEW t \in SUBSET asked, t # {}, t \ {Answering!Chosen(t)} \in T PROVE t \in T
  <2> DEFINE q == Answering!Chosen(t)
             before == h[t \ {q}]
  <2>1. h[t] = Answer(q, before) /\ Sound(before.c, os)
    <3> HIDE DEF Answer
    <3>1. QED BY <1>1, <1>3 DEF Answering!Follows
  <2>2. q \in t
    BY <1>3 DEF Answering!Chosen
  <2> HIDE DEF q, before
  <2>3. PICK S : q \in Seq(S)
    BY <2>2
  <2>4. Sound(QueryValue(before.c, q).c, os)
    BY <2>1, <2>3, QueryValueKeeps
  <2>5. h[t].c = QueryValue(before.c, q).c
    BY <2>1 DEF Answer
  <2>6. QED BY <2>4, <2>5
<1> HIDE DEF T
<1>4. SUBSET asked \subseteq T
  BY <1>0, <1>2, <1>3, Answering!SubsetInduct
<1>5. asked \in T
  BY <1>4
<1>6. QED BY <1>1, <1>5, AnswersOfIsFold DEF T


-----------------------------------------------------------------------------
(* The queries as they are typed *)

LEMMA LeastAndGreatest ==
  ASSUME NEW n \in Nat, NEW kept \in SUBSET (1 .. n), kept # {}
  PROVE  Min(kept) \in kept /\ Max(kept) \in kept
<1>1. kept \in SUBSET Nat
  OBVIOUS
<1>2. PICK m \in kept : \A k \in kept : m <= k
  BY <1>1, Squeezing!NatMin
<1>3. Min(kept) \in kept
  BY <1>2 DEF Min
<1> DEFINE mirrored == {n - k : k \in kept}
<1>4. mirrored \in SUBSET Nat /\ mirrored # {}
  OBVIOUS
<1>5. PICK least \in mirrored : \A k \in mirrored : least <= k
  BY <1>4, Squeezing!NatMin
<1>6. PICK top \in kept : least = n - top
  BY <1>5
<1>7. \A k \in kept : top >= k
  <2> SUFFICES ASSUME NEW k \in kept PROVE top >= k
    OBVIOUS
  <2>1. n - k \in mirrored
    OBVIOUS
  <2>2. least <= n - k
    BY <1>5, <2>1
  <2>3. QED BY <1>6, <2>2
<1>8. Max(kept) \in kept
  BY <1>7 DEF Max
<1>9. QED BY <1>3, <1>8

\* A query is made of the characters that were typed.
LEMMA NormalisedIsText ==
  ASSUME NEW S, NEW raw \in Seq(S)
  PROVE  Normalised(raw) \in Seq(S)
<1> DEFINE kept == {i \in DOMAIN raw : raw[i] \notin Blank}
           trimmed == IF kept = {} THEN <<>> ELSE SubSeq(raw, Min(kept), Max(kept))
<1>1. trimmed \in Seq(S)
  <2>1. CASE kept = {}
    BY <2>1, EmptySeq
  <2>2. CASE kept # {}
    <3>1. DOMAIN raw = 1 .. Len(raw) /\ Len(raw) \in Nat
      BY LenProperties
    <3>2. Min(kept) \in 1 .. Len(raw) /\ Max(kept) \in 1 .. Len(raw)
      BY <2>2, <3>1, LeastAndGreatest
    <3>3. SubSeq(raw, Min(kept), Max(kept)) \in Seq(S)
      <4> HIDE DEF kept
      <4>1. QED BY <3>1, <3>2, SubSeqProperties
    <3>4. QED BY <2>2, <3>3
  <2>3. QED BY <2>1, <2>2
<1>2. Normalised(raw) = Squeezed(trimmed)
  BY DEF Normalised, Squeezed
<1> HIDE DEF trimmed
<1>3. \A t \in Seq(S), ch \in S : Squeeze(t, ch) \in Seq(S)
  BY AppendProperties DEF Squeeze
<1>4. Squeezing!Fold(<<>>, trimmed) \in Seq(S)
  <2> HIDE DEF Squeeze
  <2>1. QED BY <1>1, <1>3, EmptySeq, Squeezing!FoldKeeps
<1>5. QED BY <1>2, <1>4, SqueezedIsFold

-----------------------------------------------------------------------------
(* The steps of the program, by what they do to the collection *)

Quiet ==
    /\ UNCHANGED <<host, queries, coll, offers, dirs>>
    /\ pc' \in {"options", "files"} => pc' = pc
    /\ pc' = "done" /\ output'.kind = "facts" => pc = "done" /\ output' = output
Tells ==
    /\ pc \in {"files", "environment", "custom"}
    /\ UNCHANGED <<host, queries, dirs>>
    /\ \E name, v : /\ Says(name, v, pc)
                    /\ pc = "custom" => ~\E o \in offers : o.rank = 102 /\ o.name = name
Asks ==
    /\ pc = "custom" /\ pc' \in {"custom", "fatal"}
    /\ UNCHANGED <<host, queries, offers, dirs>>
    /\ \E name : coll' = Asked(coll, name)

LEMMA Steps == [Next]_vars => Quiet \/ Tells \/ Asks \/ Start \/ NextDirectory \/ Write
<1> SUFFICES ASSUME [Next]_vars PROVE Quiet \/ Tells \/ Asks \/ Start \/ NextDirectory \/ Write
  OBVIOUS
<1> USE DEF given
<1>1. CASE Reject BY <1>1 DEF Reject, Ends, NothingGathered, Only, Quiet
<1>2. CASE Help BY <1>2 DEF Help, Ends, NothingGathered, Only, Quiet
<1>3. CASE Version BY <1>3 DEF Version, Ends, NothingGathered, Only, Quiet
<1>4. CASE Start BY <1>4
<1>5. CASE NextDirectory BY <1>5
<1>6. CASE EndFiles BY <1>6 DEF EndFiles, EndDirectory, Quiet
<1>7. CASE SkipFile BY <1>7 DEF SkipFile, Quiet
<1>8. CASE FileRefused BY <1>8 DEF FileRefused, Failed, Quiet
<1>9. CASE OpenFile BY <1>9 DEF OpenFile, Quiet
<1>10. CASE IgnoreLine BY <1>10 DEF IgnoreLine, Quiet
<1>11. CASE AddEntry
  <2>1. Says(Lower(Entry.name), Entry.value, pc) /\ pc = "files" /\ UNCHANGED <<host, queries, dirs>>
    BY <1>11 DEF AddEntry, Reading
  <2>2. QED BY <2>1 DEF Tells
<1>12. CASE JsonEvent
  <2>1. pc = "files" /\ UNCHANGED <<host, queries, dirs, output>>
    BY <1>12 DEF JsonEvent, Reading
  <2>2. UNCHANGED <<pc, coll, offers>> \/ \E name, v : Says(name, v, pc)
    BY <1>12 DEF JsonEvent
  <2>3. QED BY <2>1, <2>2 DEF Tells, Quiet
<1>13. CASE FileBreaks BY <1>13 DEF FileBreaks, Failed, Quiet
<1>14. CASE EndFile BY <1>14 DEF EndFile, Quiet
<1>22. CASE TextStops BY <1>22 DEF TextStops, Quiet
<1>15. CASE AddVariable
  <2>1. pc = "environment" /\ UNCHANGED <<host, queries, dirs, output>>
    BY <1>15 DEF AddVariable
  <2>2. UNCHANGED <<pc, coll, offers>> \/ \E name, v : Says(name, v, pc)
    BY <1>15 DEF AddVariable
  <2>3. QED BY <2>1, <2>2 DEF Tells, Quiet
<1>16. CASE EndEnvironment BY <1>16 DEF EndEnvironment, Quiet
<1>17. CASE AddCustom
  <2> DEFINE fact == Head(custom)
             named == \E o \in offers : o.rank = 102 /\ o.name = fact.name
  <2>1. pc = "custom" /\ UNCHANGED <<host, queries, dirs, output>>
    BY <1>17 DEF AddCustom
  <2>2. CASE named
    BY <1>17, <2>1, <2>2 DEF AddCustom, Quiet
  <2>3. CASE ~named
    <3>1. \/ coll' = Asked(coll, fact.name) /\ pc' \in {"custom", "fatal"} /\ UNCHANGED offers
          \/ \E v : Says(fact.name, v, pc)
      BY <1>17, <2>1, <2>3 DEF AddCustom
    <3>2. QED BY <2>1, <2>3, <3>1 DEF Asks, Tells
  <2>4. QED BY <2>2, <2>3
<1>18. CASE EndCustom BY <1>18 DEF EndCustom, Quiet
<1>19. CASE Write BY <1>19
<1>20. CASE Fatal BY <1>20 DEF Fatal, Ends, Only, Quiet
<1>21. CASE UNCHANGED vars BY <1>21 DEF vars, Quiet
<1> QED
  BY <1>1, <1>2, <1>3, <1>4, <1>5, <1>6, <1>7, <1>8, <1>9, <1>10, <1>11, <1>12, <1>13, <1>14,
     <1>15, <1>16, <1>17, <1>18, <1>19, <1>20, <1>21, <1>22 DEF Next


-----------------------------------------------------------------------------
(* The inductive invariant *)

HostIsKnown == host \in Hosts
\* Nothing was told before the files; a directory is weaker than those after it, and all are
\* weaker than the other sources.
Ranked ==
    /\ \A o \in offers : o.rank \in Int /\ o.rank <= 102
    /\ \E D : dirs \in Seq(D)
    /\ pc = "options" => offers = {}
    /\ pc = "files" => \A o \in offers : o.rank <= 100 - Len(dirs)
QueriesAreTexts == IsFiniteSet(queries) /\ \A q \in queries : \E S : q \in Seq(S)
Believed == ~coll.raised => Sound(coll, offers)
WrittenWhole ==
    pc = "done" /\ output.kind = "facts" /\ queries = {} =>
        coll.unresolved = {} /\ output.shown = <<Listed(coll)>>
Telling == HostIsKnown /\ Ranked /\ QueriesAreTexts /\ Believed /\ WrittenWhole

LEMMA HostsAreApart == HostIsKnown => Apart
BY QueriesAssumption DEF HostIsKnown, Apart

LEMMA TellingInit == Init => Telling
<1> SUFFICES ASSUME Init PROVE Telling
  OBVIOUS
<1>1. HostIsKnown /\ QueriesAreTexts /\ WrittenWhole
  BY FS_EmptySet DEF Init, HostIsKnown, QueriesAreTexts, WrittenWhole
<1>2. Ranked
  BY EmptySeq DEF Init, Ranked
<1>3. coll = Empty(host) /\ offers = {}
  BY DEF Init
<1>4. coll.unresolved = host /\ coll.hidden = {} /\ DOMAIN coll.facts = {}
  BY <1>3 DEF Empty, EmptyMap
<1>5. Resolved(coll) = {}
  BY <1>4 DEF Resolved
<1>6. Sound(coll, offers)
  BY <1>3, <1>4, <1>5 DEF Sound, Told, BuiltIn, NamesOf
<1>7. QED BY <1>1, <1>2, <1>6 DEF Telling, Believed

LEMMA QueriesNext == QueriesAreTexts /\ [Next]_vars => QueriesAreTexts'
<1> SUFFICES ASSUME QueriesAreTexts, [Next]_vars PROVE QueriesAreTexts'
  OBVIOUS
<1>1. CASE UNCHANGED queries
  BY <1>1 DEF QueriesAreTexts
<1>2. CASE Start
  <2>1. PICK raw \in RawQueries : queries' = {Normalised(q) : q \in raw} \ {<<>>}
    BY <1>2 DEF Start
  <2>2. IsFiniteSet(raw) /\ \A q \in raw : q \in Seq(ToSet(q))
    BY GatherAssumption
  <2>3. IsFiniteSet({Normalised(q) : q \in raw})
    <3> DEFINE T == {Normalised(q) : q \in raw}
               f == [q \in raw |-> Normalised(q)]
    <3>1. f \in Surjection(raw, T)
      BY DEF Surjection
    <3> HIDE DEF f, T
    <3>2. IsFiniteSet(T)
      BY <2>2, <3>1, FS_Surjection
    <3>3. QED BY <3>2 DEF T
  <2>4. IsFiniteSet(queries')
    BY <2>1, <2>3, FS_Subset
  <2>5. \A q \in raw : Normalised(q) \in Seq(ToSet(q))
    BY <2>2, NormalisedIsText
  <2>6. ASSUME NEW q \in queries' PROVE \E S : q \in Seq(S)
    BY <2>1, <2>5
  <2>7. QED BY <2>4, <2>6 DEF QueriesAreTexts
<1>3. UNCHANGED queries \/ Start
  BY Steps DEF Quiet, Tells, Asks, NextDirectory, Write, given
<1>4. QED BY <1>1, <1>2, <1>3

LEMMA RankIs ==
  ASSUME Ranked
  PROVE  /\ Len(dirs) \in Nat
         /\ pc = "files" => Rank = 100 - Len(dirs)
         /\ pc = "environment" => Rank = 102
         /\ pc = "custom" => Rank = 101
<1>1. Len(dirs) \in Nat
  BY LenProperties DEF Ranked
<1>2. QED BY <1>1 DEF Rank

LEMMA RankedNext == Ranked /\ [Next]_vars => Ranked'
<1> SUFFICES ASSUME Ranked, [Next]_vars PROVE Ranked'
  OBVIOUS
<1>1. CASE Quiet
  BY <1>1 DEF Ranked, Quiet
<1>2. CASE Tells
  <2>1. PICK name, v : Says(name, v, pc)
    BY <1>2 DEF Tells
  <2>2. /\ offers' = offers \cup {[rank |-> Rank, name |-> name, value |-> v]}
        /\ pc' \in {pc, "fatal"} /\ dirs' = dirs /\ pc \in {"files", "environment", "custom"}
    BY <1>2, <2>1 DEF Tells, Says
  <2>3. Rank \in Int /\ Rank <= 102 /\ (pc = "files" => Rank <= 100 - Len(dirs))
    BY <2>2, RankIs
  <2>4. QED BY <2>2, <2>3 DEF Ranked
<1>3. CASE Asks
  BY <1>3 DEF Ranked, Asks
<1>4. CASE Start
  <2>1. offers' = {} /\ pc' = "files"
    BY <1>4 DEF Start, Ranked
  <2>2. PICK l \in Layouts :
            dirs' = IF "no-external-facts" \in options THEN <<>>
                    ELSE l.defaults \o (IF "external-dir" \in options THEN l.user ELSE <<>>)
    BY <1>4 DEF Start
  <2> DEFINE D == ToSet(l.defaults) \cup ToSet(l.user)
  <2>3. l.defaults \in Seq(ToSet(l.defaults)) /\ l.user \in Seq(ToSet(l.user))
    BY GatherAssumption
  <2>4. l.defaults \in Seq(D) /\ l.user \in Seq(D) /\ <<>> \in Seq(D)
    BY <2>3, SeqDef, EmptySeq
  <2> HIDE DEF D
  <2>5. dirs' \in Seq(D)
    BY <2>2, <2>4, ConcatProperties
  <2>6. QED BY <2>1, <2>5 DEF Ranked
<1>5. CASE NextDirectory
  <2>1. UNCHANGED <<pc, offers>> /\ pc = "files" /\ dirs # <<>> /\ dirs' = Tail(dirs)
    BY <1>5 DEF NextDirectory, EndDirectory
  <2>2. PICK D : dirs \in Seq(D)
    BY DEF Ranked
  <2>3. Tail(dirs) \in Seq(D) /\ Len(Tail(dirs)) = Len(dirs) - 1 /\ Len(dirs) \in Nat
    BY <2>1, <2>2, HeadTailProperties, LenProperties
  <2>4. QED BY <2>1, <2>3 DEF Ranked
<1>6. CASE Write
  BY <1>6 DEF Ranked, Write, Ends
<1>7. QED BY <1>1, <1>2, <1>3, <1>4, <1>5, <1>6, Steps

LEMMA WrittenNext == WrittenWhole /\ [Next]_vars => WrittenWhole'
<1> SUFFICES ASSUME WrittenWhole, [Next]_vars PROVE WrittenWhole'
  OBVIOUS
<1>1. CASE Quiet
  BY <1>1 DEF WrittenWhole, Quiet, Listed, Shown
<1>2. CASE Tells
  BY <1>2 DEF WrittenWhole, Tells, Says
<1>3. CASE Asks
  BY <1>3 DEF WrittenWhole, Asks
<1>4. CASE Start
  BY <1>4 DEF WrittenWhole, Start
<1>5. CASE NextDirectory
  BY <1>5 DEF WrittenWhole, NextDirectory, EndDirectory
<1>6. CASE Write
  <2> SUFFICES ASSUME pc' = "done", queries' = {}
               PROVE coll'.unresolved = {} /\ output'.shown = <<Listed(coll')>>
    BY DEF WrittenWhole, Listed, Shown
  <2>1. queries = {} /\ coll' = ResolveAll(coll)
    BY <1>6 DEF Write, given
  <2>2. output'.shown = <<Listed(coll')>>
    BY <1>6, <2>1 DEF Write, Ends
  <2>3. coll'.unresolved = {}
    BY <2>1, ResolveIs DEF ResolveAll
  <2>4. QED BY <2>2, <2>3
<1>7. QED BY <1>1, <1>2, <1>3, <1>4, <1>5, <1>6, Steps


\* A sound collection is one in the next state, too: the host stays the same.
LEMMA HostStays ==
  ASSUME host' = host, Sound(coll', offers')
  PROVE  Sound(coll, offers)'
<1>1. coll'.unresolved \subseteq host'
  BY DEF Sound
<1>2. ASSUME NEW name PROVE /\ Told(name, offers') => TakenOver(coll', offers', name)
                            /\ ~Told(name, offers') => BuiltIn(coll', name)
  BY DEF Sound
<1>3. host' \ coll'.unresolved = host \ coll'.unresolved
  OBVIOUS
<1>4. QED BY <1>1, <1>2, <1>3 DEF Sound, BuiltIn, Resolved, TakenOver, Told, Strongest, ValueIn, NamesOf

LEMMA BelievedNext ==
  HostIsKnown /\ Ranked /\ QueriesAreTexts /\ ExceptionIsCaught /\ Believed /\ [Next]_vars => Believed'
<1> SUFFICES ASSUME HostIsKnown, Ranked, QueriesAreTexts, ExceptionIsCaught, Believed,
                    [Next]_vars, ~coll'.raised
             PROVE  Sound(coll, offers)'
  BY DEF Believed
<1>1. Apart
  BY HostsAreApart
<1>2. host' = host
  BY Steps DEF Quiet, Tells, Asks, Start, NextDirectory, Write, given
<1>3. CASE UNCHANGED <<coll, offers>>
  <2>1. Sound(coll', offers')
    BY <1>3 DEF Believed
  <2>2. QED BY <1>2, <2>1, HostStays
<1>4. CASE Tells
  <2>1. PICK name, v : /\ Says(name, v, pc)
                       /\ pc = "custom" => ~\E o \in offers : o.rank = 102 /\ o.name = name
    BY <1>4 DEF Tells
  <2>2. /\ coll' = Add(coll, name, v)
        /\ offers' = offers \cup {[rank |-> Rank, name |-> name, value |-> v]}
    BY <2>1 DEF Says
  <2>3. Sound(coll, offers)
    BY <1>4 DEF Tells, ExceptionIsCaught, Believed
  <2>4. Rank \in Int /\ \A o \in offers : o.rank \in Int
    BY <1>4, RankIs DEF Tells, Ranked
  <2>5. \A o \in offers : o.name = name => o.rank <= Rank
    <3>1. CASE pc = "files"
      BY <3>1, RankIs DEF Ranked
    <3>2. CASE pc = "environment"
      BY <3>2, RankIs DEF Ranked
    <3>3. CASE pc = "custom"
      BY <2>1, <3>3, RankIs DEF Ranked
    <3>4. QED BY <1>4, <3>1, <3>2, <3>3 DEF Tells
  <2>6. ~Add(coll, name, v).raised
    BY <2>2
  <2>7. Sound(Add(coll, name, v), offers \cup {[rank |-> Rank, name |-> name, value |-> v]})
    BY <1>1, <2>3, <2>4, <2>5, <2>6, AddKeeps
  <2>8. QED BY <1>2, <2>2, <2>7, HostStays
<1>5. CASE Asks
  <2>1. PICK name : coll' = AskedFor(coll, {name}) /\ offers' = offers
    BY <1>5 DEF Asks, Asked
  <2>2. Sound(coll, offers)
    BY <1>5 DEF Asks, ExceptionIsCaught, Believed
  <2>3. Sound(AskedFor(coll, {name}), offers)
    BY <1>1, <2>2, AskedKeeps
  <2>4. QED BY <1>2, <2>1, <2>3, HostStays
<1>6. CASE Write
  <2>1. Sound(coll, offers)
    BY <1>6 DEF Write, ExceptionIsCaught, Believed
  <2>2. offers' = offers /\ coll' = IF queries = {} THEN ResolveAll(coll) ELSE Answers.c
    BY <1>6 DEF Write
  <2>3. CASE queries = {}
    <3>1. Sound(ResolveAll(coll), offers)
      BY <1>1, <2>1, ResolveKeeps DEF ResolveAll
    <3>2. QED BY <1>2, <2>2, <2>3, <3>1, HostStays
  <2>4. CASE queries # {}
    <3> DEFINE state == [c |-> coll, answers |-> EmptyMap]
    <3>1. Sound(state.c, offers)
      BY <2>1
    <3>2. Answers = AnswersOf(state, queries)
      BY DEF Answers, AnswersOf
    <3> HIDE DEF state
    <3>3. Sound(AnswersOf(state, queries).c, offers)
      BY <1>1, <3>1, AnswersKeep DEF QueriesAreTexts
    <3>4. Sound(Answers.c, offers)
      BY <3>2, <3>3
    <3>5. QED BY <1>2, <2>2, <2>4, <3>4, HostStays
  <2>5. QED BY <2>3, <2>4
<1>7. UNCHANGED <<coll, offers>> \/ Tells \/ Asks \/ Write
  BY Steps DEF Quiet, Start, NextDirectory
<1>8. QED BY <1>3, <1>4, <1>5, <1>6, <1>7

LEMMA TellingNext == Honest /\ Telling /\ [Next]_vars => Telling'
<1> SUFFICES ASSUME Honest, Telling, [Next]_vars PROVE Telling'
  OBVIOUS
<1>1. host' = host
  BY Steps DEF Quiet, Tells, Asks, Start, NextDirectory, Write, given
<1>2. HostIsKnown'
  BY <1>1 DEF Telling, HostIsKnown
<1>3. QED
  BY <1>2, QueriesNext, RankedNext, BelievedNext, WrittenNext DEF Telling, Honest

LEMMA TellingIsWins == Telling => StrongestSourceWins
<1> SUFFICES ASSUME Telling, Gathered, ~AllFacts.raised, NEW name \in DOMAIN Spelling
             PROVE  LET named == {o \in offers : o.name = name}
                        strongest == {o \in named : \A p \in named : p.rank <= o.rank}
                        v == IF name \in DOMAIN AllFacts.facts THEN AllFacts.facts[name]
                             ELSE NullValue
                    IN  IF named = {} THEN v = BuiltInValue(name)
                        ELSE \E o \in strongest : v = o.value
  BY DEF StrongestSourceWins
<1> DEFINE named == {o \in offers : o.name = name}
           strongest == {o \in named : \A p \in named : p.rank <= o.rank}
           groups == {g \in host : name \in DOMAIN g.facts}
<1>1. Apart /\ Sound(coll, offers)
  BY HostsAreApart DEF Telling, Believed, Gathered
<1>2. Sound(AllFacts, offers) /\ AllFacts.unresolved = {}
  BY <1>1, ResolveKeeps, ResolveIs DEF AllFacts, ResolveAll
<1>3. strongest = Strongest(name, offers)
  BY DEF Strongest
<1>4. named = {} <=> ~Told(name, offers)
  BY DEF Told
<1>5. CASE Told(name, offers)
  <2>1. TakenOver(AllFacts, offers, name)
    BY <1>2, <1>5 DEF Sound
  <2>2. \E o \in strongest : ValueIn(AllFacts, name) = o.value
    BY <1>3, <2>1 DEF TakenOver
  <2> HIDE DEF strongest, named
  <2>3. QED BY <1>4, <1>5, <2>2 DEF ValueIn, strongest, named
<1>6. CASE ~Told(name, offers)
  <2>1. BuiltIn(AllFacts, name) /\ Resolved(AllFacts) = host
    BY <1>2, <1>6 DEF Sound, Resolved
  <2>2. BuiltInValue(name) = IF groups = {} THEN NullValue
                             ELSE (CHOOSE g \in groups : TRUE).facts[name]
    BY DEF BuiltInValue
  <2>3. ValueIn(AllFacts, name) = BuiltInValue(name)
    <3>1. CASE groups = {}
      BY <2>1, <2>2, <3>1 DEF BuiltIn, NamesOf, ValueIn
    <3>2. CASE groups # {}
      <4>1. PICK g \in groups : g = CHOOSE h \in groups : TRUE
        BY <3>2
      <4>2. g \in host /\ name \in DOMAIN g.facts
        BY <4>1
      <4>3. ValueIn(AllFacts, name) = g.facts[name]
        BY <2>1, <4>2 DEF BuiltIn, NamesOf, ValueIn
      <4>4. QED BY <2>2, <3>2, <4>1, <4>3
    <3>3. QED BY <3>1, <3>2
  <2>4. QED BY <1>4, <1>6, <2>3 DEF ValueIn
<1>7. QED BY <1>5, <1>6

LEMMA TellingIsWhole == Telling => ListingIsWhole
<1> SUFFICES ASSUME Telling, Gathered, queries = {}
             PROVE  /\ coll.unresolved = {}
                    /\ \A name \in DOMAIN coll.facts :
                           LET told == \E o \in offers : o.name = name
                               hides == \E g \in host : name \in g.hidden
                           IN  name \in DOMAIN output.shown[1] <=> told \/ ~hides
  BY DEF ListingIsWhole
<1>1. Sound(coll, offers) /\ coll.unresolved = {} /\ output.shown = <<Listed(coll)>>
  BY DEF Telling, Believed, WrittenWhole, Gathered
<1>2. DOMAIN output.shown[1] = DOMAIN coll.facts \ coll.hidden
  BY <1>1 DEF Listed, Shown
<1>3. Resolved(coll) = host
  BY <1>1 DEF Resolved
<1>4. ASSUME NEW name \in DOMAIN coll.facts
      PROVE  name \in coll.hidden <=> ~Told(name, offers) /\ \E g \in host : name \in g.hidden
  BY <1>1, <1>3 DEF Sound, TakenOver, BuiltIn
<1>5. QED BY <1>1, <1>2, <1>4 DEF Told

\* Whatever is built in, and wherever external facts, variables and custom facts come from: a
\* fact has the value that the strongest source which names it gives (StrongestSourceWins).
THEOREM StrongestSourceWinsCorrect == Spec => []StrongestSourceWins
<1>1. Init => Honest /\ Telling
  BY HonestInit, TellingInit
<1>2. Honest /\ Telling /\ [Next]_vars => (Honest /\ Telling)'
  BY HonestNext, TellingNext
<1> QED
  BY <1>1, <1>2, TellingIsWins, PTL DEF Spec

\* Without a query, all facts were resolved and each is written, unless it is built in and
\* hidden (ListingIsWhole).
THEOREM ListingIsWholeCorrect == Spec => []ListingIsWhole
<1>1. Init => Honest /\ Telling
  BY HonestInit, TellingInit
<1>2. Honest /\ Telling /\ [Next]_vars => (Honest /\ Telling)'
  BY HonestNext, TellingNext
<1> QED
  BY <1>1, <1>2, TellingIsWhole, PTL DEF Spec
=============================================================================
