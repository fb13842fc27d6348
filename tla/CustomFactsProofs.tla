--------------------------- MODULE CustomFactsProofs ---------------------------
(***************************************************************************)
(* Theorems about CustomFacts, for any number of facts, files and          *)
(* resolutions, whatever the files and the resolutions ask for and         *)
(* whichever of them raise.                                                *)
(*                                                                         *)
(* The inductive invariant is the conjunction of the named parts below,    *)
(* proved in the order in which they lean on each other: the nesting of    *)
(* the calls, the marks, the values, the files, and the vectors of         *)
(* resolutions.  Moves sorts the steps into classes by what they do to     *)
(* the stack and to the facts; that a step keeps a part is proved of each  *)
(* class.                                                                  *)
(***************************************************************************)
EXTENDS CustomFacts, FiniteSetTheorems, SequenceTheorems, TLAPS

-----------------------------------------------------------------------------
(* The inductive invariant                                                 *)

\* Frame i evaluates the resolutions of its fact.
Loops(i) == stack[i].kind = "value" /\ stack[i].step # "enter"

\* No vector that frame f points into has moved.
Intact(f) == ~f.moved /\ ~f.torn

\* Who calls whom: a fact is asked by a file, by a fact that is evaluated or by
\* resolve_facts, which is called by the application alone.
Nesting ==
    /\ lost => stack = <<>>
    /\ \A i \in 1..Len(stack) :
         /\ stack[i].kind = "drain" => i = 1
         /\ stack[i].kind = "file" => i > 1 /\ stack[i - 1].kind = "load"
         /\ stack[i].kind = "value" /\ stack[i].step = "enter" => i = Len(stack) /\ Intact(stack[i])
         /\ stack[i].kind = "load" /\ i < Len(stack) => stack[i + 1].kind = "file"
         /\ stack[i].kind = "load" /\ stack[i].step = "named" => stack[i].fact # 0

\* The resolving marks are those of the calls in progress.
Marks ==
    /\ \A i \in 1..Len(stack) : Loops(i) => stack[i].fact \in resolving
    /\ \A i, j \in 1..Len(stack) :
         Loops(i) /\ Loops(j) /\ stack[i].fact = stack[j].fact => i = j
    /\ ~lost => \A n \in resolving : \E i \in 1..Len(stack) : Loops(i) /\ stack[i].fact = n

\* A fact that is asked is known, and nothing is known before the collection is filled.
KnownFacts ==
    /\ \A i \in 1..Len(stack) : stack[i].kind = "value" => stack[i].fact \in defined
    /\ ~populated => /\ defined = {} /\ resolved = {}
                     /\ \A n \in Fact : collection[n] = Nil /\ value[n] = Nil

\* Until the first flush a fact of the environment has its value and is not evaluated.
EnvironmentKept ==
    generation = 0 =>
        /\ populated => \A n \in FromEnvironment :
             n \in resolved /\ value[n] = Environment /\ collection[n] = Environment
        /\ \A i \in 1..Len(stack) : Loops(i) => stack[i].fact \notin FromEnvironment

\* A file is begun once, and those that ended by an exception are over.
BegunOnce ==
    /\ broken \subseteq loadedFiles
    /\ \A i \in 1..Len(stack) :
         stack[i].kind = "file" => stack[i].file \in loadedFiles \ broken
    /\ \A i, j \in 1..Len(stack) :
         stack[i].kind = "file" /\ stack[j].kind = "file" /\ stack[i].file = stack[j].file
         => i = j

\* A search for all files has begun those it passed.
SearchesAll ==
    /\ loadedAll => loadedFiles = File
    /\ \A i \in 1..Len(stack) : stack[i].kind = "load" /\ stack[i].step = "all" =>
         \A f \in File : f > stack[i].at \/ f \in loadedFiles

\* Every resolution is as a file that was begun has defined it for its fact.
FromFiles ==
    \A n \in Fact : \A i \in 1..Len(resolutions[n]) :
        /\ FactOf[resolutions[n][i].code] = n
        /\ \E f \in loadedFiles : \E k \in DOMAIN Statements[f] :
              Added(f, k) = resolutions[n][i].code

\* A fact that asks is at one of its resolutions, and the files it led to do not add to
\* a fact that is defined in one file.
NotExtended ==
    /\ \A i \in 1..Len(stack) : Loops(i) /\ i < Len(stack) =>
         stack[i].it <= Len(resolutions[stack[i].fact])
    /\ \A i, j \in 1..Len(stack) :
         Loops(i) /\ i < j /\ OneFile(stack[i].fact) /\ stack[j].kind = "file" =>
             ~AddsTo(stack[j].file, stack[i].fact)

\* The resolutions of such a fact stay sorted while it is evaluated.
StaySorted ==
    \A i \in 1..Len(stack) : Loops(i) /\ OneFile(stack[i].fact) =>
        \A k, l \in 1..Len(resolutions[stack[i].fact]) :
            k < l => Weight(resolutions[stack[i].fact][k]) >= Weight(resolutions[stack[i].fact][l])

-----------------------------------------------------------------------------
(* Frames and stacks                                                       *)

\* The kind of a frame says what it has.
LEMMA FrameKinds ==
  ASSUME NEW f \in Frame
  PROVE  /\ f.kind \in {"value", "drain", "load", "file"}
         /\ f.kind = "value" => f \in ValueFrame
         /\ f.kind = "drain" => f \in DrainFrame
         /\ f.kind = "load" => f \in LoadFrame
         /\ f.kind = "file" => f \in FileFrame
BY DEF Frame, ValueFrame, ValueFields, DrainFrame, LoadFrame, FileFrame

\* Two frames of one call, which may have got on.
Alike(a, b) ==
    /\ a.kind = b.kind
    /\ a.kind = "value" =>
         /\ a.fact = b.fact /\ (a.step = "enter" <=> b.step = "enter")
         /\ a.step = "enter" /\ Intact(a) => Intact(b)
    /\ a.kind = "file" => a.file = b.file
    /\ a.kind = "load" => a.step = b.step /\ a.fact = b.fact

\* The iterators of a point into memory given back only if those of b do.
Steady(a, b) == a.kind = "value" /\ Intact(a) => Intact(b)

\* A call that waits stays where it is.
SamePlace(a, b) ==
    /\ a.kind = "value" => a.it = b.it
    /\ a.kind = "file" => a.it = b.it
    /\ a.kind = "load" => a.at = b.at

LEMMA AlikeSame == \A a : Alike(a, a) /\ Steady(a, a) /\ SamePlace(a, a)
BY DEF Alike, Steady, SamePlace

\* A frame that stays at its step, or comes to one that is not a block.
LEMMA SameStep ==
  ASSUME NEW f \in ValueFrame, NEW g \in ValueFields,
         g.step # "block" \/ (g.step = f.step /\ g.code = f.code)
  PROVE  g \in ValueFrame /\ g \in Frame
BY DEF ValueFrame, Frame

LEMMA StackFacts ==
  ASSUME Types, stack # <<>>
  PROVE  /\ Len(stack) \in Nat \ {0} /\ Top = stack[Len(stack)] /\ Top \in Frame
         /\ Len(stack) \in 1..Len(stack)
         /\ \A i \in 1..Len(stack) : stack[i] \in Frame
BY EmptySeq, ElementOfSeq DEF Types, Top, Last

\* Returning from a call leaves the calls below it.
LEMMA FrontOfSeq ==
  ASSUME NEW S, NEW s \in Seq(S), s # <<>>
  PROVE  /\ Front(s) \in Seq(S) /\ Last(s) \in S
         /\ Len(s) \in Nat \ {0} /\ Len(Front(s)) = Len(s) - 1
         /\ \A i \in 1..(Len(s) - 1) : Front(s)[i] = s[i]
<1>1. Len(s) \in Nat \ {0} /\ \A i \in 1..Len(s) : s[i] \in S
  BY EmptySeq, ElementOfSeq
<1>2. PICK n \in Nat : Len(s) = n + 1
  <2>1. Len(s) - 1 \in Nat /\ Len(s) = (Len(s) - 1) + 1
    BY <1>1
  <2>2. QED BY <2>1
<1>3. Len(s) - 1 = n /\ \A i \in 1..n : s[i] \in S
  BY <1>1, <1>2
<1>4. /\ SubSeq(s, 1, n) \in Seq(S)
      /\ Len(SubSeq(s, 1, n)) = IF 1 <= n THEN n - 1 + 1 ELSE 0
      /\ \A i \in 1..(n - 1 + 1) : SubSeq(s, 1, n)[i] = s[1 + i - 1]
  BY <1>3, SubSeqProperties
<1>5. Len(SubSeq(s, 1, n)) = n
  BY <1>4
<1>6. ASSUME NEW i \in 1..n PROVE SubSeq(s, 1, n)[i] = s[i]
  <2>1. i \in 1..(n - 1 + 1) /\ 1 + i - 1 = i
    OBVIOUS
  <2>2. QED BY <2>1, <1>4
<1>7. Front(s) = SubSeq(s, 1, n)
  BY <1>3 DEF Front
<1>8. QED BY <1>1, <1>2, <1>3, <1>4, <1>5, <1>6, <1>7 DEF Last

LEMMA AdvanceShape ==
  ASSUME Types, stack # <<>>, NEW f \in Frame
  PROVE  /\ Advance(f) \in Seq(Frame) /\ Len(Advance(f)) = Len(stack)
         /\ \A i \in 1..(Len(stack) - 1) : Advance(f)[i] = stack[i]
         /\ Advance(f)[Len(stack)] = f
BY StackFacts, ExceptSeq DEF Types, Advance

LEMMA AppendShape ==
  ASSUME NEW s \in Seq(Frame), NEW f \in Frame
  PROVE  /\ Append(s, f) \in Seq(Frame) /\ Len(Append(s, f)) = Len(s) + 1
         /\ Len(s) \in Nat
         /\ \A i \in 1..Len(s) : Append(s, f)[i] = s[i]
         /\ Append(s, f)[Len(s) + 1] = f
BY AppendProperties, LenProperties

\* A caller that is given the answer is the same call.
LEMMA AnsweredShape ==
  ASSUME NEW s \in Seq(Frame), NEW v \in Value
  PROVE  /\ Answered(s, v) \in Seq(Frame) /\ Len(Answered(s, v)) = Len(s)
         /\ \A i \in 1..Len(s) : Alike(s[i], Answered(s, v)[i]) /\ Steady(s[i], Answered(s, v)[i])
<1>1. CASE s # <<>> /\ Last(s).kind = "value"
  <2> DEFINE f == [Last(s) EXCEPT !.answer = v]
  <2>1. Len(s) \in Nat \ {0} /\ Last(s) = s[Len(s)] /\ Last(s) \in Frame
        /\ Len(s) \in 1..Len(s)
    BY <1>1, EmptySeq, ElementOfSeq DEF Last
  <2>2. Last(s) \in ValueFrame
    BY <2>1, <1>1, FrameKinds
  <2>3. f \in ValueFrame /\ f \in Frame /\ Alike(Last(s), f) /\ Steady(Last(s), f)
    <3>1. Last(s) \in ValueFields
      BY <2>2 DEF ValueFrame
    <3>2. /\ f \in ValueFields /\ f.step = Last(s).step /\ f.code = Last(s).code
          /\ Alike(Last(s), f) /\ Steady(Last(s), f)
      BY <3>1 DEF ValueFields, Alike, Steady, Intact
    <3> HIDE DEF f
    <3>3. QED BY <2>2, <3>2, SameStep
  <2>4. Answered(s, v) = [s EXCEPT ![Len(s)] = f]
    BY <1>1, <2>1 DEF Answered
  <2> HIDE DEF f
  <2>5. /\ Answered(s, v) \in Seq(Frame) /\ Len(Answered(s, v)) = Len(s)
        /\ \A i \in 1..(Len(s) - 1) : Answered(s, v)[i] = s[i]
        /\ Answered(s, v)[Len(s)] = f
    BY <2>1, <2>3, <2>4, ExceptSeq
  <2>6. \A i \in 1..Len(s) : i \in 1..(Len(s) - 1) \/ i = Len(s)
    BY <2>1
  <2>7. \A a : Alike(a, a) /\ Steady(a, a)
    BY DEF Alike, Steady
  <2>8. QED BY <2>1, <2>3, <2>5, <2>6, <2>7
<1>2. CASE ~(s # <<>> /\ Last(s).kind = "value")
  <2>1. Answered(s, v) = s
    BY <1>2 DEF Answered
  <2>2. QED BY <2>1 DEF Alike, Steady
<1>3. QED BY <1>1, <1>2

\* The resolutions that frame f looks at are others after an operation.
Shifted(f, w) ==
    f.kind = "value" /\ f.step # "enter" /\ w.resolutions[f.fact] # resolutions[f.fact]

LEMMA SameDoesNotMove ==
  ASSUME Types, NEW f \in ValueFrame, NEW w, w.resolutions[f.fact] = resolutions[f.fact]
  PROVE  ~Shifts(f, w) /\ ~Tears(f, w)
<1>1. \A m \in Nat : ~Outgrows(m, m)
  BY DEF Outgrows
<1>2. f.fact \in Fact /\ f.it \in Nat \ {0}
  BY DEF ValueFrame, ValueFields
<1> DEFINE rs == resolutions[f.fact]
<1>3. rs \in Seq(Object) /\ Len(rs) \in Nat
  BY <1>2, LenProperties DEF Types
<1> HIDE DEF rs
<1>4. ASSUME f.it <= Len(rs) PROVE Len(rs[f.it].confines) \in Nat
  <2>1. f.it \in 1..Len(rs)
    BY <1>2, <1>3, <1>4
  <2>2. rs[f.it] \in Object
    BY <1>3, <2>1, ElementOfSeq
  <2>3. rs[f.it].confines \in Seq(0..NumFacts)
    BY <2>2 DEF Object
  <2>4. QED BY <2>3, LenProperties
<1>5. ~Shifts(f, w)
  BY <1>1, <1>3 DEF Shifts, rs
<1>6. ~Tears(f, w)
  BY <1>1, <1>4 DEF Tears, rs
<1>7. QED BY <1>5, <1>6

Marked(f, w) == [f EXCEPT !.moved = f.moved \/ Shifts(f, w), !.torn = f.torn \/ Tears(f, w)]

\* A frame after an operation: the marks are all that may be new.
LEMMA MovedFrame ==
  ASSUME NEW s \in Seq(Frame), NEW w, NEW i \in 1..Len(s)
  PROVE  /\ s[i] \in Frame
         /\ s[i].kind = "value" /\ s[i].step # "enter" =>
              s[i] \in ValueFrame /\ Moved(s, w)[i] = Marked(s[i], w)
         /\ ~(s[i].kind = "value" /\ s[i].step # "enter") => Moved(s, w)[i] = s[i]
<1>1. s[i] \in Frame
  BY ElementOfSeq
<1>2. ASSUME s[i].kind = "value", s[i].step # "enter"
      PROVE  s[i] \in ValueFrame /\ Moved(s, w)[i] = Marked(s[i], w)
  <2>1. s[i] \in ValueFrame /\ s[i] \in ValueFields
    BY <1>1, <1>2, FrameKinds DEF ValueFrame
  <2>2. Moved(s, w)[i] = [s[i] EXCEPT !.moved = @ \/ Shifts(s[i], w),
                                      !.torn = @ \/ Tears(s[i], w)]
    BY <1>2 DEF Moved
  <2> DEFINE a == s[i]
             m == Shifts(s[i], w)
             n == Tears(s[i], w)
  <2>3. a \in ValueFields
    BY <2>1
  <2> HIDE DEF a, m, n
  <2>4. [a EXCEPT !.moved = @ \/ m, !.torn = @ \/ n]
          = [a EXCEPT !.moved = a.moved \/ m, !.torn = a.torn \/ n]
    BY <2>3 DEF ValueFields
  <2>5. QED BY <2>1, <2>2, <2>4 DEF Marked, a, m, n
<1>3. ASSUME ~(s[i].kind = "value" /\ s[i].step # "enter") PROVE Moved(s, w)[i] = s[i]
  BY <1>3 DEF Moved
<1>4. QED BY <1>1, <1>2, <1>3

LEMMA MarkedFacts ==
  ASSUME Types, NEW a \in ValueFrame, a.step # "enter", NEW w
  PROVE  /\ Marked(a, w) \in Frame /\ Marked(a, w).kind = "value" /\ a.kind = "value"
         /\ Alike(a, Marked(a, w)) /\ SamePlace(a, Marked(a, w))
         /\ Steady(a, Marked(a, w)) \/ Shifted(a, w)
<1> DEFINE m == a.moved \/ Shifts(a, w)
           n == a.torn \/ Tears(a, w)
           b == Marked(a, w)
<1>1. a \in ValueFields
  BY DEF ValueFrame
<1>2. b = [a EXCEPT !.moved = m, !.torn = n] /\ m \in BOOLEAN /\ n \in BOOLEAN
  BY DEF Marked
<1>3. ~Shifted(a, w) => (m <=> a.moved) /\ (n <=> a.torn)
  BY <1>1, SameDoesNotMove DEF Shifted, ValueFields
<1> HIDE DEF m, n, b
<1>4. /\ b \in ValueFields /\ b.moved = m /\ b.torn = n /\ b.kind = "value" /\ a.kind = "value"
      /\ b.fact = a.fact /\ b.step = a.step /\ b.it = a.it /\ b.code = a.code
  BY <1>1, <1>2 DEF ValueFields
<1>5. b \in Frame
  BY <1>4, SameStep
<1>6. Alike(a, b) /\ SamePlace(a, b)
  BY <1>4 DEF Alike, SamePlace
<1>7. Steady(a, b) \/ Shifted(a, w)
  BY <1>3, <1>4 DEF Steady, Intact
<1>8. QED BY <1>4, <1>5, <1>6, <1>7 DEF b

\* A vector that moves marks the loops over it.
LEMMA MovedShape ==
  ASSUME Types, NEW s \in Seq(Frame), NEW w
  PROVE  /\ Moved(s, w) \in Seq(Frame) /\ Len(Moved(s, w)) = Len(s)
         /\ \A i \in 1..Len(s) :
              /\ Alike(s[i], Moved(s, w)[i]) /\ SamePlace(s[i], Moved(s, w)[i])
              /\ Steady(s[i], Moved(s, w)[i]) \/ Shifted(s[i], w)
              /\ s[i].kind = "file" => Moved(s, w)[i] = s[i]
<1> DEFINE t == Moved(s, w)
<1>1. Len(s) \in Nat /\ \A i \in 1..Len(s) : s[i] \in Frame
  BY ElementOfSeq, LenProperties
<1>2. ASSUME NEW i \in 1..Len(s)
      PROVE  /\ t[i] \in Frame /\ Alike(s[i], t[i]) /\ SamePlace(s[i], t[i])
             /\ Steady(s[i], t[i]) \/ Shifted(s[i], w)
             /\ s[i].kind = "file" => t[i] = s[i]
  <2> DEFINE a == s[i]
             b == t[i]
  <2>1. CASE a.kind = "value" /\ a.step # "enter"
    <3>1. a \in ValueFrame /\ b = Marked(a, w)
      BY <2>1, MovedFrame
    <3> HIDE DEF a, b
    <3>2. QED BY <2>1, <3>1, MarkedFacts DEF a, b
  <2>2. CASE ~(a.kind = "value" /\ a.step # "enter")
    <3>1. b = a
      BY <2>2, MovedFrame
    <3> HIDE DEF a, b
    <3>2. QED BY <1>1, <3>1, AlikeSame DEF a, b
  <2>3. QED BY <2>1, <2>2
<1>3. t = [i \in 1..Len(s) |-> t[i]] /\ Len(s) \in Nat
  BY <1>1 DEF Moved
<1> HIDE DEF t
<1>4. t \in Seq(Frame) /\ Len(t) = Len(s)
  BY <1>2, <1>3, IsASeq
<1>5. QED BY <1>2, <1>4 DEF t

-----------------------------------------------------------------------------
(* What the module does to its facts                                       *)

LEMMA ValueTypes ==
  /\ Nil \in Value /\ Native \in Value /\ Environment \in Value
  /\ \A r \in Resolution : \A g \in 0..MaxFlushes : [by |-> r, gen |-> g] \in Value
BY CustomFactsAssumption DEF Nil, Native, Environment, Value, Resolution

\* What the collection and the facts are after they were filled.
FilledCollection ==
    [n \in Fact |-> IF n \in FromEnvironment THEN Environment
                    ELSE IF n \in BuiltIn THEN Native ELSE Nil]
FilledValue == [n \in Fact |-> IF n \in FromEnvironment THEN Environment ELSE value[n]]

\* The facts are filled if they were not, and others are created.
Fills ==
    /\ defined \subseteq defined' /\ defined' \subseteq Fact
    /\ loadedFiles' = loadedFiles /\ loadedAll' = loadedAll
    /\ \/ /\ collection' = collection /\ value' = value
          /\ resolved' = resolved /\ populated' = populated
          /\ populated = TRUE \/ defined' = defined
       \/ /\ populated = FALSE /\ populated' = TRUE
          /\ FromEnvironment \subseteq defined'
          /\ collection' = FilledCollection /\ value' = FilledValue
          /\ resolved' = resolved \cup FromEnvironment

LEMMA WorldFields ==
  /\ World.collection = collection /\ World.populated = populated
  /\ World.defined = defined /\ World.resolutions = resolutions
  /\ World.value = value /\ World.resolved = resolved
  /\ World.files = loadedFiles /\ World.all = loadedAll
BY DEF World

LEMMA PopulateFields ==
  ASSUME NEW w, w = Populate(World)
  PROVE  /\ w.resolutions = resolutions /\ w.files = loadedFiles /\ w.all = loadedAll
        
         /\ populated = TRUE =>
              /\ w.collection = collection /\ w.value = value /\ w.resolved = resolved
              /\ w.defined = defined /\ w.populated = populated
         /\ populated = FALSE =>
              /\ w.collection = FilledCollection /\ w.value = FilledValue
              /\ w.resolved = resolved \cup FromEnvironment
              /\ w.defined = defined \cup FromEnvironment /\ w.populated = TRUE
BY WorldFields DEF Populate, World, FilledCollection, FilledValue

LEMMA CreateFields ==
  ASSUME NEW n \in Fact, NEW w, w = Create(World, n)
  PROVE  /\ w.resolutions = resolutions /\ w.files = loadedFiles /\ w.all = loadedAll
        
         /\ populated = TRUE \/ n \in defined =>
              /\ w.collection = collection /\ w.value = value /\ w.resolved = resolved
              /\ w.defined = defined \cup {n} /\ w.populated = populated
         /\ populated = FALSE /\ n \notin defined =>
              /\ w.collection = FilledCollection /\ w.value = FilledValue
              /\ w.resolved = resolved \cup FromEnvironment
              /\ w.defined = defined \cup FromEnvironment \cup {n} /\ w.populated = TRUE
<1>1. CASE n \in defined
  <2>1. w = World /\ defined \cup {n} = defined
    BY <1>1, WorldFields DEF Create
  <2>2. QED BY <1>1, <2>1, WorldFields
<1>2. CASE n \notin defined
  <2> DEFINE p == Populate(World)
  <2>1. w = [p EXCEPT !.defined = @ \cup {n}]
    BY <1>2, WorldFields DEF Create
  <2>2. /\ w.resolutions = p.resolutions /\ w.files = p.files /\ w.all = p.all
        /\ w.collection = p.collection /\ w.value = p.value
        /\ w.resolved = p.resolved /\ w.populated = p.populated
        /\ w.defined = p.defined \cup {n}
    BY ZenonT(30), <2>1 DEF Populate, World
  <2> HIDE DEF p
  <2>3. QED BY <1>2, <2>2, PopulateFields DEF p
<1>3. QED BY <1>1, <1>2

LEMMA DefineFields ==
  ASSUME Types, NEW r \in Resolution, NEW w, w = Define(World, r)
  PROVE  LET n == FactOf[r]  c == Create(World, n)
         IN  /\ n \in Fact
             /\ w.collection = c.collection /\ w.populated = c.populated
             /\ w.defined = c.defined /\ w.value = c.value /\ w.resolved = c.resolved
             /\ w.files = loadedFiles /\ w.all = loadedAll
             /\ w.resolutions = [resolutions EXCEPT ![n] = Defined(@, r)]
<1> DEFINE n == FactOf[r]
           c == Create(World, n)
<1>1. n \in Fact
  BY CustomFactsAssumption
<1>2. c.resolutions = resolutions /\ c.files = loadedFiles /\ c.all = loadedAll
  BY <1>1, CreateFields
<1>3. w = [c EXCEPT !.resolutions[n] = Defined(@, r)]
  BY DEF Define
<1>4. /\ w.collection = c.collection /\ w.populated = c.populated
      /\ w.defined = c.defined /\ w.value = c.value /\ w.resolved = c.resolved
      /\ w.files = c.files /\ w.all = c.all
      /\ w.resolutions = [c.resolutions EXCEPT ![n] = Defined(@, r)]
  <2>1. DOMAIN c = DOMAIN World
    BY DEF Create, Populate
  <2>2. DOMAIN World = {"collection", "populated", "defined", "resolutions", "value",
                        "resolved", "files", "all"}
    BY DEF World
  <2>3. n \in DOMAIN c.resolutions
    BY <1>1, <1>2 DEF Types
  <2> HIDE DEF c, n
  <2>4. QED BY <1>3, <2>1, <2>2, <2>3
<1> HIDE DEF n, c
<1>5. QED BY <1>1, <1>2, <1>4 DEF n, c

LEMMA PopulateFills ==
  ASSUME Types, Become(Populate(World))
  PROVE  Fills /\ resolutions' = resolutions
<1> DEFINE w == Populate(World)
<1>1. /\ collection' = w.collection /\ populated' = w.populated
      /\ defined' = w.defined /\ resolutions' = w.resolutions
      /\ value' = w.value /\ resolved' = w.resolved
      /\ loadedFiles' = w.files /\ loadedAll' = w.all
  BY DEF Become
<1>2. w = Populate(World)
  OBVIOUS
<1> HIDE DEF w
<1>3. populated \in BOOLEAN /\ defined \subseteq Fact /\ FromEnvironment \subseteq Fact
  BY CustomFactsAssumption DEF Types
<1>4. QED BY <1>1, <1>2, <1>3, PopulateFields DEF Fills

LEMMA CreateFills ==
  ASSUME Types, NEW n \in Fact, Become(Create(World, n))
  PROVE  Fills /\ resolutions' = resolutions /\ n \in defined'
<1> DEFINE w == Create(World, n)
<1>1. /\ collection' = w.collection /\ populated' = w.populated
      /\ defined' = w.defined /\ resolutions' = w.resolutions
      /\ value' = w.value /\ resolved' = w.resolved
      /\ loadedFiles' = w.files /\ loadedAll' = w.all
  BY DEF Become
<1>2. w = Create(World, n)
  OBVIOUS
<1> HIDE DEF w
<1>3. populated \in BOOLEAN /\ defined \subseteq Fact /\ FromEnvironment \subseteq Fact
  BY CustomFactsAssumption DEF Types
<1>4. n \in defined => defined \cup {n} = defined
  OBVIOUS
<1>5. /\ resolutions' = resolutions /\ loadedFiles' = loadedFiles /\ loadedAll' = loadedAll
      /\ populated = TRUE \/ n \in defined =>
           /\ collection' = collection /\ value' = value /\ resolved' = resolved
           /\ defined' = defined \cup {n} /\ populated' = populated
      /\ populated = FALSE /\ n \notin defined =>
           /\ collection' = FilledCollection /\ value' = FilledValue
           /\ resolved' = resolved \cup FromEnvironment
           /\ defined' = defined \cup FromEnvironment \cup {n} /\ populated' = TRUE
  BY <1>1, <1>2, CreateFields
<1>6. QED BY <1>3, <1>4, <1>5 DEF Fills

LEMMA DefineFills ==
  ASSUME Types, NEW r \in Resolution, Become(Define(World, r))
  PROVE  /\ Fills /\ FactOf[r] \in Fact
         /\ resolutions' = [resolutions EXCEPT ![FactOf[r]] = Defined(@, r)]
<1> DEFINE n == FactOf[r]
           c == Create(World, n)
           w == Define(World, r)
<1>1. /\ collection' = w.collection /\ populated' = w.populated
      /\ defined' = w.defined /\ resolutions' = w.resolutions
      /\ value' = w.value /\ resolved' = w.resolved
      /\ loadedFiles' = w.files /\ loadedAll' = w.all
  BY DEF Become
<1>2. /\ n \in Fact
      /\ w.collection = c.collection /\ w.populated = c.populated
      /\ w.defined = c.defined /\ w.value = c.value /\ w.resolved = c.resolved
      /\ w.files = loadedFiles /\ w.all = loadedAll
      /\ w.resolutions = [resolutions EXCEPT ![n] = Defined(@, r)]
  BY DefineFields
<1>3. c = Create(World, n)
  OBVIOUS
<1> HIDE DEF c, w
<1>4. populated \in BOOLEAN /\ defined \subseteq Fact /\ FromEnvironment \subseteq Fact
  BY CustomFactsAssumption DEF Types
<1> HIDE DEF n
<1>5. n \in defined => defined \cup {n} = defined
  OBVIOUS
<1>6. /\ loadedFiles' = loadedFiles /\ loadedAll' = loadedAll
      /\ populated = TRUE \/ n \in defined =>
           /\ collection' = collection /\ value' = value /\ resolved' = resolved
           /\ defined' = defined \cup {n} /\ populated' = populated
      /\ populated = FALSE /\ n \notin defined =>
           /\ collection' = FilledCollection /\ value' = FilledValue
           /\ resolved' = resolved \cup FromEnvironment
           /\ defined' = defined \cup FromEnvironment \cup {n} /\ populated' = TRUE
  BY <1>1, <1>2, <1>3, CreateFields
<1>7. Fills
  BY <1>2, <1>4, <1>5, <1>6 DEF Fills
<1>8. QED BY <1>1, <1>2, <1>7 DEF n

\* Filling keeps the types.
LEMMA FillsTypes ==
  ASSUME Types, Fills
  PROVE  /\ collection' \in [Fact -> Value] /\ value' \in [Fact -> Value]
         /\ populated' \in BOOLEAN /\ loadedAll' \in BOOLEAN
         /\ defined' \subseteq Fact /\ resolved' \subseteq Fact
         /\ loadedFiles' \subseteq File
BY ValueTypes, CustomFactsAssumption DEF Types, Fills, FilledCollection, FilledValue

-----------------------------------------------------------------------------
(* Sorting                                                                 *)

LEMMA WeightType == \A o \in Object : Weight(o) \in Nat
<1> SUFFICES ASSUME NEW o \in Object PROVE Weight(o) \in Nat
  OBVIOUS
<1>1. o.weight \in Nat \cup {-1} /\ o.confines \in Seq(0..NumFacts)
  BY DEF Object
<1>2. Len(o.confines) \in Nat
  BY <1>1, LenProperties
<1>3. QED BY <1>1, <1>2 DEF Weight

\* What a definition makes of the resolutions of its fact: one more, or one of them is
\* another.
LEMMA DefinedFacts ==
  ASSUME NEW rs \in Seq(Object), NEW r \in Resolution
  PROVE  /\ Defined(rs, r) \in Seq(Object)
         /\ Named(rs, r) = {} =>
              /\ Defined(rs, r) = Append(rs, New(r)) /\ New(r).code = r
              /\ \A i \in 1..Len(rs) : ~Names(rs[i], r)
         /\ Named(rs, r) # {} =>
              /\ Len(Defined(rs, r)) = Len(rs)
              /\ \A i \in 1..Len(rs) :
                   /\ Names(rs[i], r) => Defined(rs, r)[i].code = r
                   /\ ~Names(rs[i], r) => Defined(rs, r)[i] = rs[i]
<1>1. Len(rs) \in Nat /\ \A i \in 1..Len(rs) : rs[i] \in Object
  BY LenProperties, ElementOfSeq
<1>2. HasWeight[r] \in Nat \cup {-1} /\ Confines[r] \in Seq(0..NumFacts)
  BY CustomFactsAssumption
<1>3. CASE Named(rs, r) = {}
  <2>1. New(r) \in Object /\ New(r).code = r
    BY <1>2 DEF New, Object
  <2>2. Defined(rs, r) = Append(rs, New(r))
    BY <1>3 DEF Defined
  <2>3. \A i \in 1..Len(rs) : ~Names(rs[i], r)
    BY <1>3 DEF Named
  <2> HIDE DEF New
  <2>4. Append(rs, New(r)) \in Seq(Object)
    BY <2>1, AppendProperties
  <2>5. QED BY <1>3, <2>1, <2>2, <2>3, <2>4
<1>4. CASE Named(rs, r) # {}
  <2> DEFINE d == [i \in 1..Len(rs) |->
                     IF Names(rs[i], r) THEN Redefined(rs[i], r) ELSE rs[i]]
  <2>1. Defined(rs, r) = d
    BY <1>4 DEF Defined
  <2>2. \A o \in Object : Redefined(o, r) \in Object /\ Redefined(o, r).code = r
    <3> SUFFICES ASSUME NEW o \in Object
                 PROVE  Redefined(o, r) \in Object /\ Redefined(o, r).code = r
      OBVIOUS
    <3>1. o.weight \in Nat \cup {-1} /\ o.confines \in Seq(0..NumFacts)
      BY DEF Object
    <3>2. o.confines \o Confines[r] \in Seq(0..NumFacts)
      BY <1>2, <3>1, ConcatProperties
    <3> DEFINE cs == o.confines \o Confines[r]
    <3> HIDE DEF cs
    <3>3. Redefined(o, r) = [code |-> r, confines |-> cs,
                             weight |-> IF HasWeight[r] >= 0 THEN HasWeight[r] ELSE o.weight]
      BY DEF Redefined, cs
    <3>4. QED BY <1>2, <3>1, <3>2, <3>3 DEF Object, cs
  <2>3. \A i \in 1..Len(rs) : /\ d[i] \in Object
                              /\ Names(rs[i], r) => d[i].code = r
                              /\ ~Names(rs[i], r) => d[i] = rs[i]
    BY <1>1, <2>2
  <2>4. d = [i \in 1..Len(rs) |-> d[i]]
    OBVIOUS
  <2> HIDE DEF d
  <2>5. d \in Seq(Object) /\ Len(d) = Len(rs)
    BY <1>1, <2>3, <2>4, IsASeq
  <2>6. QED BY <1>4, <2>1, <2>3, <2>5
<1>5. QED BY <1>3, <1>4

\* Any two resolutions are ordered, and those before the earlier one are before the
\* other, too.
LEMMA BeforeIsOrder ==
  ASSUME NEW rs \in Seq(Object), NEW i \in 1..Len(rs), NEW j \in 1..Len(rs)
  PROVE  /\ ~Before(rs, i, i)
         /\ i # j => Before(rs, i, j) \/ Before(rs, j, i)
         /\ Before(rs, i, j) => Weight(rs[i]) >= Weight(rs[j])
         /\ Before(rs, i, j) => \A k \in 1..Len(rs) : Before(rs, k, i) => Before(rs, k, j)
<1>1. /\ \A k \in 1..Len(rs) : Weight(rs[k]) \in Nat
      /\ Len(rs) \in Nat
  BY WeightType, ElementOfSeq, LenProperties
<1> DEFINE W(k) == Weight(rs[k])
<1>2. \A k, l : Before(rs, k, l) <=> W(k) > W(l) \/ (W(k) = W(l) /\ k < l)
  BY DEF Before
<1>3. W(i) \in Nat /\ W(j) \in Nat /\ i \in Int /\ j \in Int
  BY <1>1
<1>4. ASSUME NEW k \in 1..Len(rs), Before(rs, i, j), Before(rs, k, i) PROVE Before(rs, k, j)
  <2>1. W(k) \in Nat /\ k \in Int
    BY <1>1
  <2>2. (W(i) > W(j) \/ (W(i) = W(j) /\ i < j)) /\ (W(k) > W(i) \/ (W(k) = W(i) /\ k < i))
    BY <1>2, <1>4
  <2> HIDE DEF W
  <2>3. W(k) > W(j) \/ (W(k) = W(j) /\ k < j)
    BY <1>3, <2>1, <2>2
  <2>4. QED BY <1>2, <2>3
<1> HIDE DEF W
<1>5. ~Before(rs, i, i)
  BY <1>2, <1>3
<1>6. i # j => Before(rs, i, j) \/ Before(rs, j, i)
  BY <1>2, <1>3
<1>7. Before(rs, i, j) => W(i) >= W(j)
  BY <1>2, <1>3
<1>8. QED BY <1>4, <1>5, <1>6, <1>7 DEF W

LEMMA PlaceFacts ==
  ASSUME NEW rs \in Seq(Object)
  PROVE  /\ \A i \in 1..Len(rs) : Place(rs, i) \in 1..Len(rs)
         /\ \A i, j \in 1..Len(rs) : Before(rs, i, j) => Place(rs, i) < Place(rs, j)
<1> DEFINE n == Len(rs)
           B(i) == {j \in 1..n : Before(rs, j, i)}
<1>1. n \in Nat /\ IsFiniteSet(1..n) /\ Cardinality(1..n) = n
  <2>1. n \in Nat
    BY LenProperties
  <2>2. IsFiniteSet(1..n) /\ Cardinality(1..n) = IF 1 > n THEN 0 ELSE n - 1 + 1
    BY <2>1, FS_Interval
  <2>3. QED BY <2>1, <2>2
<1>2. \A i : Place(rs, i) = 1 + Cardinality(B(i))
  BY DEF Place
<1>3. \A i \in 1..n : IsFiniteSet(B(i)) /\ Cardinality(B(i)) \in Nat
  <2>1. \A i \in 1..n : B(i) \in SUBSET (1..n)
    OBVIOUS
  <2> HIDE DEF B, n
  <2>2. QED BY <1>1, <2>1, FS_Subset, FS_CardinalityType
<1>4. ASSUME NEW i \in 1..n PROVE Place(rs, i) \in 1..n
  <2>1. B(i) \in SUBSET ((1..n) \ {i})
    BY BeforeIsOrder
  <2>2. IsFiniteSet((1..n) \ {i}) /\ Cardinality((1..n) \ {i}) = n - 1
    <3> HIDE DEF n
    <3>1. QED BY <1>1, <1>4, FS_RemoveElement
  <2> HIDE DEF B, n
  <2>3. Cardinality(B(i)) <= n - 1
    BY <2>1, <2>2, FS_Subset
  <2>4. QED BY <1>1, <1>2, <1>3, <1>4, <2>3
<1>5. ASSUME NEW i \in 1..n, NEW j \in 1..n, Before(rs, i, j)
      PROVE  Place(rs, i) < Place(rs, j)
  <2>1. B(i) \in SUBSET B(j) /\ i \in B(j) /\ i \notin B(i)
    BY <1>5, BeforeIsOrder
  <2> HIDE DEF B, n
  <2>2. Cardinality(B(i)) <= Cardinality(B(j)) /\ Cardinality(B(i)) # Cardinality(B(j))
    BY <1>3, <2>1, FS_Subset
  <2>3. QED BY <1>2, <1>3, <2>2
<1>6. QED BY <1>4, <1>5

\* Sorting permutes the resolutions, and puts the heavier ones first.
LEMMA SortedFacts ==
  ASSUME NEW rs \in Seq(Object)
  PROVE  /\ Sorted(rs) \in Seq(Object) /\ Len(Sorted(rs)) = Len(rs)
         /\ \E p \in Bijection(1..Len(rs), 1..Len(rs)) :
              \A k \in 1..Len(rs) : Sorted(rs)[k] = rs[p[k]]
         /\ \A k, l \in 1..Len(rs) :
              k < l => Weight(Sorted(rs)[k]) >= Weight(Sorted(rs)[l])
<1> DEFINE n == Len(rs)
           f == [i \in 1..n |-> Place(rs, i)]
           p == [k \in 1..n |-> CHOOSE i \in 1..n : Place(rs, i) = k]
<1>1. n \in Nat /\ IsFiniteSet(1..n) /\ \A k \in 1..n : rs[k] \in Object
  <2>1. n \in Nat /\ \A k \in 1..n : rs[k] \in Object
    BY LenProperties, ElementOfSeq
  <2>2. QED BY <2>1, FS_Interval
<1>2. \A i, j \in 1..n : Place(rs, i) = Place(rs, j) => i = j
  <2> SUFFICES ASSUME NEW i \in 1..n, NEW j \in 1..n, i # j
               PROVE  Place(rs, i) # Place(rs, j)
    OBVIOUS
  <2>1. Before(rs, i, j) \/ Before(rs, j, i)
    BY BeforeIsOrder
  <2>2. Place(rs, i) \in 1..n /\ Place(rs, j) \in 1..n
    BY PlaceFacts
  <2>3. Place(rs, i) < Place(rs, j) \/ Place(rs, j) < Place(rs, i)
    BY <2>1, PlaceFacts
  <2>4. QED BY <2>2, <2>3
<1>3. f \in Injection(1..n, 1..n)
  BY <1>2, PlaceFacts DEF Injection, IsInjective
<1>4. f \in Surjection(1..n, 1..n)
  <2> HIDE DEF f, n
  <2>1. QED BY <1>1, <1>3, FS_Injection
<1>5. \A k \in 1..n : \E i \in 1..n : Place(rs, i) = k
  BY <1>4 DEF Surjection
<1>6. \A k \in 1..n : p[k] \in 1..n /\ Place(rs, p[k]) = k
  BY <1>5
<1>7. \A i \in 1..n : p[Place(rs, i)] = i
  BY <1>2, <1>6, PlaceFacts
<1>8. p \in Bijection(1..n, 1..n)
  <2>1. p \in [1..n -> 1..n]
    BY <1>6
  <2>2. \A a, b \in 1..n : p[a] = p[b] => a = b
    BY <1>6
  <2>3. \A i \in 1..n : \E k \in 1..n : p[k] = i
    BY <1>7, PlaceFacts
  <2> HIDE DEF p
  <2>4. QED BY <2>1, <2>2, <2>3 DEF Bijection, Injection, Surjection, IsInjective
<1>9. Sorted(rs) = [k \in 1..n |-> rs[p[k]]]
  BY DEF Sorted
<1>10. ASSUME NEW k \in 1..n, NEW l \in 1..n, k < l
       PROVE  Weight(rs[p[k]]) >= Weight(rs[p[l]])
  <2>1. ~Before(rs, p[l], p[k])
    <3>1. Before(rs, p[l], p[k]) => l < k
      BY <1>6, PlaceFacts
    <3>2. QED BY <3>1, <1>1, <1>10
  <2>2. p[k] # p[l]
    BY <1>1, <1>6, <1>10
  <2>3. Before(rs, p[k], p[l])
    BY <1>6, <2>1, <2>2, BeforeIsOrder
  <2>4. QED BY <1>6, <2>3, BeforeIsOrder
<1> HIDE DEF p, f, n
<1>11. Sorted(rs) \in Seq(Object) /\ Len(Sorted(rs)) = n
  <2>1. \A k \in 1..n : rs[p[k]] \in Object
    BY <1>1, <1>6
  <2>2. QED BY <1>1, <1>9, <2>1, IsASeq
<1>12. \A k \in 1..n : Sorted(rs)[k] = rs[p[k]]
  BY <1>9
<1>13. QED BY <1>8, <1>10, <1>11, <1>12 DEF n

-----------------------------------------------------------------------------
(* What a step does to the calls in progress                               *)

Depth == Len(stack)

\* The k outermost calls go on, and there is at most one call above them.
Shape(k) ==
    /\ k \in 0..Depth /\ stack' \in Seq(Frame) /\ Len(stack') \in {k, k + 1}
    /\ \A i \in 1..k : Alike(stack[i], stack'[i])

Waiting(k) == \A i \in 1..k : SamePlace(stack[i], stack'[i]) /\ Steady(stack[i], stack'[i])

\* A call that begins.
NewCall(f) ==
    \/ f.kind = "value" /\ f.step = "enter" /\ f.fact \in defined /\ Intact(f)
    \/ f.kind = "load" /\ f.at = SearchStart /\ (f.step = "named" => f.fact # 0)

\* Somebody asks for a fact or for all files.
Calls ==
    /\ Shape(Depth) /\ Len(stack') = Depth + 1 /\ Waiting(Depth - 1)
    /\ Depth > 0 =>
         /\ Steady(stack[Depth], stack'[Depth])
         /\ \/ /\ Loops(Depth) /\ stack[Depth].it <= Len(resolutions[stack[Depth].fact])
               /\ stack'[Depth].it = stack[Depth].it
            \/ /\ stack[Depth].kind = "file"
               /\ stack[Depth].it \in DOMAIN Statements[stack[Depth].file]
               /\ Added(stack[Depth].file, stack[Depth].it) = 0
               /\ stack'[Depth].it = stack[Depth].it + 1
            \/ stack[Depth].kind = "drain"
    /\ NewCall(stack'[Depth + 1])
    /\ lost = FALSE
    /\ UNCHANGED <<world, resolving, broken, generation, lost>>

\* A search comes to a file.
Finds ==
    /\ Depth > 0 /\ stack[Depth].kind = "load" /\ Shape(Depth) /\ Waiting(Depth - 1)
    /\ \E f \in FilesLeft(stack[Depth]) :
         /\ \A g \in FilesLeft(stack[Depth]) : f <= g
         /\ stack'[Depth].at = f
         /\ loadedFiles' = loadedFiles \cup {f}
         /\ f \in loadedFiles => Len(stack') = Depth
         /\ f \notin loadedFiles =>
              /\ Len(stack') = Depth + 1
              /\ stack'[Depth + 1].kind = "file" /\ stack'[Depth + 1].file = f
              /\ stack'[Depth + 1].it = 1
    /\ UNCHANGED <<collection, populated, defined, resolutions, value, resolved,
                   loadedAll, resolving, broken, generation, lost>>

\* A search by name ends.
Fetches ==
    /\ Depth > 0 /\ stack[Depth].kind = "load"
    /\ Shape(Depth - 1) /\ Len(stack') = Depth /\ Waiting(Depth - 1)
    /\ Fills /\ resolutions' = resolutions
    /\ LET f == stack'[Depth]
       IN  \/ f.kind = "value" /\ f.step = "enter" /\ f.fact \in defined' /\ Intact(f)
           \/ f.kind = "load" /\ f.step = "all" /\ f.at = SearchStart
    /\ UNCHANGED <<resolving, broken, generation, lost>>

\* A search for all ends.
LoadEnds ==
    /\ Depth > 0 /\ stack[Depth].kind = "load" /\ stack[Depth].step = "all"
    /\ FilesLeft(stack[Depth]) = {} /\ loadedAll' = TRUE
    /\ Shape(Depth - 1) /\ Waiting(Depth - 1)
    /\ Len(stack') = Depth => NewCall(stack'[Depth]) /\ stack'[Depth].kind = "value"
    /\ UNCHANGED <<collection, populated, defined, resolutions, value, resolved,
                   loadedFiles, resolving, broken, generation, lost>>

\* A file adds a resolution.
Extends(r) ==
    /\ Depth > 0 /\ stack[Depth].kind = "file"
    /\ stack[Depth].it \in DOMAIN Statements[stack[Depth].file]
    /\ Added(stack[Depth].file, stack[Depth].it) = r
    /\ Shape(Depth) /\ Len(stack') = Depth
    /\ \A i \in 1..(Depth - 1) :
         /\ SamePlace(stack[i], stack'[i])
         /\ \/ Steady(stack[i], stack'[i])
            \/ Loops(i) /\ stack[i].fact = FactOf[r]
    /\ stack'[Depth].it = stack[Depth].it + 1
    /\ Fills /\ FactOf[r] \in Fact
    /\ resolutions' = [resolutions EXCEPT ![FactOf[r]] = Defined(@, r)]
    /\ UNCHANGED <<resolving, broken, generation, lost>>

\* A fact goes on with its resolutions.
Walks ==
    /\ Depth > 0 /\ Loops(Depth)
    /\ Shape(Depth) /\ Len(stack') = Depth /\ Waiting(Depth - 1)
    /\ Steady(stack[Depth], stack'[Depth])
    /\ UNCHANGED <<world, resolving, broken, generation, lost>>

Loses ==
    /\ stack' = <<>> /\ lost' = TRUE
    /\ UNCHANGED <<world, resolving, broken, generation>>

\* The evaluation of a fact begins.
EntersLoop ==
    /\ Depth > 0 /\ stack[Depth].kind = "value" /\ stack[Depth].step = "enter"
    /\ LET n == stack[Depth].fact
       IN  /\ n \in Fact /\ n \notin resolving /\ n \notin resolved
           /\ Shape(Depth - 1) /\ Len(stack') = Depth /\ Waiting(Depth - 1)
           /\ stack'[Depth].kind = "value" /\ stack'[Depth].step # "enter"
           /\ stack'[Depth].fact = n /\ Intact(stack'[Depth])
           /\ resolving' = resolving \cup {n}
           /\ resolutions' = [resolutions EXCEPT ![n] = Sorted(@)]
    /\ UNCHANGED <<collection, populated, defined, value, resolved, loadedFiles,
                   loadedAll, broken, generation, lost>>

\* The call on top, or the one below a call that finds a cycle.
Ending(k) ==
    \/ k + 1 = Depth
    \/ k + 2 = Depth /\ stack[Depth].kind = "value" /\ stack[Depth].step = "enter"

\* A call ends that changes nothing.
Returns ==
    /\ Depth > 0 /\ Shape(Depth - 1) /\ Len(stack') = Depth - 1 /\ Waiting(Depth - 1)
    /\ \/ stack[Depth].kind = "value" /\ stack[Depth].step = "enter"
       \/ stack[Depth].kind = "file" /\ stack[Depth].it \notin DOMAIN Statements[stack[Depth].file]
    /\ UNCHANGED <<world, resolving, broken, generation, lost>>

\* A fact is given a value.
Gives(k, v) ==
    /\ Ending(k) /\ Shape(k) /\ Len(stack') = k /\ Waiting(k)
    /\ stack[k + 1].kind = "value"
    /\ LET n == stack[k + 1].fact
       IN  /\ n \in Fact
           /\ stack[k + 1].step = "enter" => n \notin resolving /\ n \notin resolved
           /\ value' = [value EXCEPT ![n] = v]
           /\ collection' = [collection EXCEPT ![n] = v]
           /\ resolved \subseteq resolved' /\ resolved' \subseteq resolved \cup {n}
           /\ resolving' = resolving \ {n}
           /\ \/ resolutions' = resolutions
              \/ /\ n \notin resolving
                 /\ resolutions' = [resolutions EXCEPT ![n] = Sorted(@)]
    /\ UNCHANGED <<populated, defined, loadedFiles, loadedAll, broken, generation, lost>>

\* A file ends by an exception.
Breaks(k) ==
    /\ Ending(k) /\ Shape(k) /\ Len(stack') = k /\ Waiting(k)
    /\ stack[k + 1].kind = "file"
    /\ broken' = broken \cup {stack[k + 1].file}
    /\ UNCHANGED <<world, resolving, generation, lost>>

\* resolve_facts begins, and ends.
Drains ==
    /\ stack = <<>> /\ lost = FALSE /\ Fills /\ resolutions' = resolutions
    /\ stack' \in Seq(Frame) /\ Len(stack') = 2
    /\ stack'[1].kind = "drain"
    /\ stack'[2].kind = "load" /\ stack'[2].step = "all" /\ stack'[2].at = SearchStart
    /\ UNCHANGED <<resolving, broken, generation, lost>>

DrainEnds ==
    /\ Depth = 1 /\ stack[1].kind = "drain" /\ stack' = <<>>
    /\ UNCHANGED <<world, resolving, broken, generation, lost>>

\* The steps of the system, as far as the proofs look at them.
Moves ==
    \/ Calls \/ Finds \/ Fetches \/ LoadEnds \/ Walks \/ Loses \/ EntersLoop \/ Returns
    \/ \E r \in Resolution : Extends(r)
    \/ \E k \in Nat : \E v \in Value : Gives(k, v)
    \/ \E k \in Nat : Breaks(k)
    \/ Drains \/ DrainEnds \/ Flush \/ Reset

LEMMA StatementFacts ==
  ASSUME NEW f \in File, NEW k \in DOMAIN Statements[f]
  PROVE  /\ Added(f, k) \in Resolution \cup {0} /\ 0 \notin Resolution
         /\ "add" \in DOMAIN Statements[f][k] =>
              Added(f, k) = Statements[f][k].add /\ Added(f, k) \in Resolution
         /\ "value" \in DOMAIN Statements[f][k] =>
              Added(f, k) = 0 /\ Statements[f][k].value \in Fact
<1>1. Statements[f] \in Seq(Statement)
  BY CustomFactsAssumption
<1>2. Statements[f][k] \in Statement
  BY <1>1, ElementOfSeq, LenProperties
<1>3. 0 \notin Resolution
  BY CustomFactsAssumption DEF Resolution
<1>4. CASE Statements[f][k] \in [add : Resolution]
  BY <1>3, <1>4 DEF Added
<1>5. CASE Statements[f][k] \in [value : Fact]
  BY <1>3, <1>5 DEF Added
<1>6. QED BY <1>2, <1>4, <1>5 DEF Statement

LEMMA StatementDomain ==
  ASSUME NEW f \in File
  PROVE  DOMAIN Statements[f] = 1..Len(Statements[f]) /\ Len(Statements[f]) \in Nat
BY CustomFactsAssumption, LenProperties

\* The top frame goes on.
LEMMA TopGoesOn ==
  ASSUME Types, stack # <<>>, NEW t \in Frame, stack' = Advance(t), Alike(Top, t)
  PROVE  /\ Shape(Depth) /\ Len(stack') = Depth /\ Waiting(Depth - 1)
         /\ stack'[Depth] = t /\ Depth > 0 /\ Top = stack[Depth]
<1>1. /\ Depth \in Nat \ {0} /\ Top = stack[Depth]
      /\ stack' \in Seq(Frame) /\ Len(stack') = Depth
      /\ \A i \in 1..(Depth - 1) : stack'[i] = stack[i]
      /\ stack'[Depth] = t
  BY StackFacts, AdvanceShape DEF Depth
<1>2. \A i \in 1..Depth : i \in 1..(Depth - 1) \/ i = Depth
  BY <1>1
<1>3. \A i \in 1..Depth : Alike(stack[i], stack'[i])
  BY <1>1, <1>2, AlikeSame
<1>4. QED BY <1>1, <1>3, AlikeSame DEF Shape, Waiting

\* Another call takes the place of the top frame.
LEMMA TopIsReplaced ==
  ASSUME Types, stack # <<>>, NEW t \in Frame, stack' = Advance(t)
  PROVE  /\ Shape(Depth - 1) /\ Len(stack') = Depth /\ Waiting(Depth - 1)
         /\ stack'[Depth] = t /\ Depth > 0 /\ Top = stack[Depth]
<1>1. /\ Depth \in Nat \ {0} /\ Top = stack[Depth]
      /\ stack' \in Seq(Frame) /\ Len(stack') = Depth
      /\ \A i \in 1..(Depth - 1) : stack'[i] = stack[i]
      /\ stack'[Depth] = t
  BY StackFacts, AdvanceShape DEF Depth
<1>2. Depth - 1 \in 0..Depth /\ Len(stack') = (Depth - 1) + 1
  BY <1>1
<1>3. QED BY <1>1, <1>2, AlikeSame DEF Shape, Waiting

\* The top frame goes on and calls.
LEMMA TopCalls ==
  ASSUME Types, stack # <<>>, NEW t \in Frame, NEW f \in Frame,
         stack' = Append(Advance(t), f), Alike(Top, t)
  PROVE  /\ Shape(Depth) /\ Len(stack') = Depth + 1 /\ Waiting(Depth - 1)
         /\ stack'[Depth] = t /\ stack'[Depth + 1] = f /\ Depth > 0 /\ Top = stack[Depth]
<1> DEFINE s == Advance(t)
<1>1. /\ Depth \in Nat \ {0} /\ Top = stack[Depth]
      /\ s \in Seq(Frame) /\ Len(s) = Depth
      /\ \A i \in 1..(Depth - 1) : s[i] = stack[i]
      /\ s[Depth] = t
  BY StackFacts, AdvanceShape DEF Depth
<1>2. /\ stack' \in Seq(Frame) /\ Len(stack') = Len(s) + 1
      /\ \A i \in 1..Len(s) : stack'[i] = s[i]
      /\ stack'[Len(s) + 1] = f
  BY <1>1, AppendShape
<1> HIDE DEF s
<1>3. \A i \in 1..Depth : i \in 1..(Depth - 1) \/ i = Depth
  BY <1>1
<1>4. /\ \A i \in 1..(Depth - 1) : i \in 1..Depth /\ stack'[i] = stack[i]
      /\ stack'[Depth] = t /\ stack'[Depth + 1] = f
  BY <1>1, <1>2
<1>5. \A i \in 1..Depth : Alike(stack[i], stack'[i])
  BY <1>1, <1>3, <1>4, AlikeSame
<1>6. QED BY <1>1, <1>2, <1>4, <1>5, AlikeSame DEF Shape, Waiting

\* The top frame returns a value.
LEMMA TopReturns ==
  ASSUME Types, stack # <<>>, NEW v \in Value, Return(v)
  PROVE  /\ Shape(Depth - 1) /\ Len(stack') = Depth - 1 /\ Waiting(Depth - 1)
         /\ Depth > 0 /\ Top = stack[Depth] /\ Depth \in Nat
<1> DEFINE s == Front(stack)
<1>1. /\ Depth \in Nat \ {0} /\ Top = stack[Depth]
  BY StackFacts DEF Depth
<1>2. /\ s \in Seq(Frame) /\ Len(s) = Depth - 1
      /\ \A i \in 1..(Depth - 1) : s[i] = stack[i]
  BY FrontOfSeq DEF Types, Depth
<1>3. /\ stack' \in Seq(Frame) /\ Len(stack') = Len(s)
      /\ \A i \in 1..Len(s) : Alike(s[i], stack'[i]) /\ Steady(s[i], stack'[i])
  BY <1>2, AnsweredShape DEF Return
<1>4. \A i \in 1..Len(s) : SamePlace(s[i], stack'[i])
  BY <1>2, <1>3 DEF Return, Answered, SamePlace
<1> HIDE DEF s
<1>5. QED BY <1>1, <1>2, <1>3, <1>4 DEF Shape, Waiting

LEMMA EnterFrame ==
  ASSUME NEW n \in Fact
  PROVE  /\ Enter(n) \in Frame /\ Enter(n).kind = "value" /\ Enter(n).step = "enter"
         /\ Enter(n).fact = n /\ Intact(Enter(n))
<1>1. 0 \in 0..NumResolutions
  BY CustomFactsAssumption
<1>2. Enter(n) \in ValueFields /\ Enter(n).step = "enter"
  BY <1>1 DEF Enter, ValueFields
<1>3. QED BY <1>2 DEF Enter, Intact, Frame, ValueFrame

LEMMA SearchStartType == ASSUME Types PROVE SearchStart \in 0..NumFiles
BY CustomFactsAssumption DEF SearchStart, Types

\* Whoever asks waits for a fact that is known or for a search.
LEMMA AskFrames ==
  ASSUME Types, NEW n \in Fact, NEW s \in Seq(Frame), Ask(n, s)
  PROVE  /\ \E f \in Frame : stack' = Append(s, f) /\ NewCall(f)
         /\ UNCHANGED <<world, resolving, broken, generation, lost>>
<1>1. CASE n \in defined
  <2>1. stack' = Append(s, Enter(n))
    BY <1>1 DEF Ask
  <2>2. NewCall(Enter(n))
    BY <1>1, EnterFrame DEF NewCall
  <2>3. QED BY <2>1, <2>2, EnterFrame DEF Ask
<1>2. CASE n \notin defined
  <2> DEFINE f == [kind |-> "load", fact |-> n, step |-> "named", at |-> SearchStart]
  <2>1. stack' = Append(s, f)
    BY <1>2 DEF Ask
  <2>2. n \in 0..NumFacts
    BY CustomFactsAssumption DEF Fact
  <2>3. f \in Frame
    BY <2>2, SearchStartType DEF Frame, LoadFrame
  <2>4. NewCall(f)
    BY CustomFactsAssumption DEF NewCall, Fact
  <2> HIDE DEF f
  <2>5. QED BY <2>1, <2>3, <2>4 DEF Ask
<1>3. QED BY <1>1, <1>2

\* The application calls.
LEMMA FirstCall ==
  ASSUME stack = <<>>, lost = FALSE, stack' \in Seq(Frame), Len(stack') = 1,
         NewCall(stack'[1]), UNCHANGED <<world, resolving, broken, generation, lost>>
  PROVE  Calls
<1>1. Depth = 0
  BY EmptySeq DEF Depth
<1>2. Shape(Depth) /\ Waiting(Depth - 1) /\ Len(stack') = Depth + 1
      /\ NewCall(stack'[Depth + 1]) /\ ~(Depth > 0)
  BY <1>1 DEF Shape, Waiting
<1>3. QED BY <1>2 DEF Calls

LEMMA FacterValueMoves ==
  ASSUME Types, NEW n \in Fact, FacterValue(n)
  PROVE  Calls
<1>1. stack = <<>> /\ lost = FALSE /\ Ask(n, <<>>)
  BY DEF FacterValue, Idle, Types
<1>2. <<>> \in Seq(Frame) /\ Len(<<>>) = 0
  BY EmptySeq
<1>3. PICK f \in Frame : stack' = Append(<<>>, f) /\ NewCall(f)
  BY <1>1, <1>2, AskFrames
<1>4. stack' \in Seq(Frame) /\ Len(stack') = 1 /\ stack'[1] = f
  BY <1>2, <1>3, AppendShape
<1>5. UNCHANGED <<world, resolving, broken, generation, lost>>
  BY <1>1, <1>2, AskFrames
<1>6. QED BY <1>1, <1>3, <1>4, <1>5, FirstCall

LEMMA LoadFactsMoves ==
  ASSUME Types, FacterLoadFacts
  PROVE  Calls
<1>1. /\ stack = <<>> /\ lost = FALSE /\ stack' = <<LoadFacts>>
      /\ UNCHANGED <<world, resolving, broken, generation, lost>>
  BY DEF FacterLoadFacts, Idle, Types
<1>2. LoadFacts \in Frame /\ NewCall(LoadFacts)
  <2>1. 0 \in 0..NumFacts
    BY CustomFactsAssumption
  <2>2. QED BY <2>1, SearchStartType DEF LoadFacts, Frame, LoadFrame, NewCall
<1>3. stack' \in Seq(Frame) /\ Len(stack') = 1 /\ stack'[1] = LoadFacts
  BY <1>1, <1>2
<1>4. QED BY <1>1, <1>2, <1>3, FirstCall

\* The frame of a fact that is evaluated, and the resolution it is at.
LEMMA AtResolutionFacts ==
  ASSUME Types, stack # <<>>, Top.kind = "value", Top.step # "enter",
         Top.it <= Len(resolutions[Top.fact])
  PROVE  /\ Top \in ValueFrame /\ Loops(Depth) /\ Depth > 0 /\ Top = stack[Depth]
         /\ Chosen \in Object /\ Chosen.confines \in Seq(0..NumFacts)
         /\ Chosen.code \in Resolution
         /\ Top.step = "block" => Top.code \in Resolution /\ Asks[Top.code] \in Seq(Fact)
<1>1. Top \in ValueFrame /\ Top = stack[Depth] /\ Depth \in Nat \ {0}
  BY StackFacts, FrameKinds DEF Depth
<1>2. resolutions[Top.fact] \in Seq(Object) /\ Top.it \in Nat \ {0}
  BY <1>1 DEF Types, ValueFrame, ValueFields
<1>3. Chosen \in Object
  <2>1. Top.it \in 1..Len(resolutions[Top.fact])
    BY <1>2, LenProperties
  <2>2. QED BY <1>2, <2>1, ElementOfSeq DEF Chosen
<1>4. Chosen.confines \in Seq(0..NumFacts) /\ Chosen.code \in Resolution
  BY <1>3 DEF Object
<1>5. Top.step = "block" => Top.code \in Resolution
  BY <1>1, CustomFactsAssumption DEF ValueFrame, ValueFields, Resolution
<1>6. QED BY <1>1, <1>3, <1>4, <1>5, CustomFactsAssumption DEF Loops

\* A fact that is evaluated counts what it has asked, and asks.
LEMMA LoopAsks ==
  ASSUME Types, stack # <<>>, Top.kind = "value", Top.step # "enter",
         Top.it <= Len(resolutions[Top.fact]), lost = FALSE,
         NEW n \in Fact, Ask(n, Advance([Top EXCEPT !.asked = @ + 1]))
  PROVE  Calls
<1> DEFINE t == [Top EXCEPT !.asked = @ + 1]
<1>1. Top \in ValueFrame /\ Loops(Depth) /\ Depth > 0 /\ Top = stack[Depth]
  BY AtResolutionFacts
<1>2. /\ t \in ValueFrame /\ t \in Frame /\ Alike(Top, t) /\ Steady(Top, t)
      /\ t.it = Top.it
  <2>1. Top \in ValueFields
    BY <1>1 DEF ValueFrame
  <2>2. /\ t \in ValueFields /\ t.step = Top.step /\ t.code = Top.code
        /\ Alike(Top, t) /\ Steady(Top, t) /\ t.it = Top.it
    BY <2>1 DEF ValueFields, Alike, Steady, Intact
  <2> HIDE DEF t
  <2>3. QED BY <1>1, <2>2, SameStep
<1> HIDE DEF t
<1>3. Advance(t) \in Seq(Frame)
  BY <1>2, AdvanceShape
<1>4. PICK f \in Frame : stack' = Append(Advance(t), f) /\ NewCall(f)
  BY <1>3, AskFrames DEF t
<1>5. /\ Shape(Depth) /\ Len(stack') = Depth + 1 /\ Waiting(Depth - 1)
      /\ stack'[Depth] = t /\ stack'[Depth + 1] = f
  BY <1>2, <1>4, TopCalls
<1>6. UNCHANGED <<world, resolving, broken, generation, lost>>
  BY <1>3, AskFrames DEF t
<1>7. QED BY <1>1, <1>2, <1>4, <1>5, <1>6 DEF Calls

LEMMA ConfineAsksMoves ==
  ASSUME Types, Nesting, ConfineAsks
  PROVE  Calls
<1>1. /\ stack # <<>> /\ Top.kind = "value" /\ Top.step = "confine"
      /\ Top.it <= Len(resolutions[Top.fact])
      /\ Top.asked < Len(Chosen.confines) /\ Chosen.confines[Top.asked + 1] # 0
      /\ Ask(Chosen.confines[Top.asked + 1], Advance([Top EXCEPT !.asked = @ + 1]))
  BY DEF ConfineAsks, AtResolution, InValue
<1>2. Chosen.confines \in Seq(0..NumFacts) /\ Top.asked \in Nat
  BY <1>1, AtResolutionFacts DEF ValueFrame, ValueFields
<1>3. Chosen.confines[Top.asked + 1] \in Fact
  <2>1. Top.asked + 1 \in 1..Len(Chosen.confines)
    BY <1>1, <1>2, LenProperties
  <2>2. Chosen.confines[Top.asked + 1] \in 0..NumFacts
    BY <1>2, <2>1, ElementOfSeq
  <2>3. QED BY <1>1, <2>2, CustomFactsAssumption DEF Fact
<1>4. lost = FALSE
  BY <1>1 DEF Nesting, Types
<1>5. QED BY <1>1, <1>3, <1>4, LoopAsks

LEMMA BlockAsksMoves ==
  ASSUME Types, Nesting, BlockAsks
  PROVE  Calls
<1>1. /\ stack # <<>> /\ Top.kind = "value" /\ Top.step = "block"
      /\ Top.it <= Len(resolutions[Top.fact])
      /\ Top.asked < Len(Asks[Top.code])
      /\ Ask(Asks[Top.code][Top.asked + 1], Advance([Top EXCEPT !.asked = @ + 1]))
  BY DEF BlockAsks, AtResolution, InValue
<1>2. Asks[Top.code] \in Seq(Fact) /\ Top.asked \in Nat
  BY <1>1, AtResolutionFacts DEF ValueFrame, ValueFields
<1>3. Asks[Top.code][Top.asked + 1] \in Fact
  <2>1. Top.asked + 1 \in 1..Len(Asks[Top.code])
    BY <1>1, <1>2, LenProperties
  <2>2. QED BY <1>2, <2>1, ElementOfSeq
<1>4. lost = FALSE
  BY <1>1 DEF Nesting, Types
<1>5. QED BY <1>1, <1>3, <1>4, LoopAsks

\* A statement that is next.
LEMMA AtStatementFacts ==
  ASSUME Types, NEW op, AtStatement(op)
  PROVE  /\ stack # <<>> /\ Top = stack[Depth] /\ Depth > 0 /\ Depth \in Nat
         /\ Top \in FileFrame /\ Top.kind = "file" /\ Top.file \in File
         /\ Top.it \in DOMAIN Statements[Top.file]
         /\ op \in DOMAIN Statements[Top.file][Top.it]
<1>1. /\ stack # <<>> /\ Top.kind = "file" /\ Top.it <= Len(Statements[Top.file])
      /\ op \in DOMAIN Statements[Top.file][Top.it]
  BY DEF AtStatement
<1>2. Top \in FileFrame /\ Top = stack[Depth] /\ Depth \in Nat \ {0}
  BY <1>1, StackFacts, FrameKinds DEF Depth
<1>3. Top.file \in File /\ Top.it \in Nat \ {0}
  BY <1>2 DEF FileFrame
<1>4. Top.it \in DOMAIN Statements[Top.file]
  BY <1>1, <1>3, StatementDomain
<1>5. QED BY <1>1, <1>2, <1>3, <1>4

LEMMA NextStatementFrame ==
  ASSUME Top \in FileFrame
  PROVE  LET t == [Top EXCEPT !.it = @ + 1]
         IN  t \in FileFrame /\ t \in Frame /\ Alike(Top, t) /\ Steady(Top, t)
             /\ t.it = Top.it + 1
BY DEF FileFrame, Frame, Alike, Steady

LEMMA FileAsksMoves ==
  ASSUME Types, Nesting, FileAsks
  PROVE  Calls
<1> DEFINE t == [Top EXCEPT !.it = @ + 1]
           n == Statements[Top.file][Top.it].value
<1>1. AtStatement("value") /\ Ask(n, Advance(t))
  BY DEF FileAsks, NextStatement
<1>2. /\ stack # <<>> /\ Top = stack[Depth] /\ Depth > 0
      /\ Top \in FileFrame /\ Top.kind = "file" /\ Top.file \in File
      /\ Top.it \in DOMAIN Statements[Top.file]
      /\ "value" \in DOMAIN Statements[Top.file][Top.it]
  BY <1>1, AtStatementFacts
<1>3. Added(Top.file, Top.it) = 0 /\ n \in Fact
  BY <1>2, StatementFacts
<1>4. t \in Frame /\ Alike(Top, t) /\ Steady(Top, t) /\ t.it = Top.it + 1
  BY <1>2, NextStatementFrame
<1> HIDE DEF t, n
<1>5. Advance(t) \in Seq(Frame)
  BY <1>2, <1>4, AdvanceShape
<1>6. PICK f \in Frame : stack' = Append(Advance(t), f) /\ NewCall(f)
  BY <1>1, <1>3, <1>5, AskFrames
<1>7. /\ Shape(Depth) /\ Len(stack') = Depth + 1 /\ Waiting(Depth - 1)
      /\ stack'[Depth] = t /\ stack'[Depth + 1] = f
  BY <1>2, <1>4, <1>6, TopCalls
<1>8. UNCHANGED <<world, resolving, broken, generation, lost>> /\ lost = FALSE
  BY <1>1, <1>2, <1>3, <1>5, AskFrames DEF Nesting, Types
<1>9. QED BY <1>2, <1>3, <1>4, <1>6, <1>7, <1>8 DEF Calls

-----------------------------------------------------------------------------
(* Searches and files                                                      *)

\* A search on top of the stack.
LEMMA InLoadFacts ==
  ASSUME Types, InLoad
  PROVE  /\ stack # <<>> /\ Top = stack[Depth] /\ Depth > 0 /\ Depth \in Nat
         /\ Top \in LoadFrame /\ Top.kind = "load"
BY StackFacts, FrameKinds DEF InLoad, Depth

LEMMA DrainNextMoves ==
  ASSUME Types, Nesting, DrainNext
  PROVE  Calls
<1>1. stack # <<>> /\ Top.kind = "drain"
  BY DEF DrainNext, InDrain
<1>2. Depth \in Nat \ {0} /\ Top = stack[Depth] /\ Top \in DrainFrame /\ Depth \in 1..Len(stack)
  BY <1>1, StackFacts, FrameKinds DEF Depth
<1>3. Depth = 1
  BY <1>1, <1>2 DEF Nesting
<1>4. PICK n \in DrainLeft : stack' = <<[Top EXCEPT !.fact = n], Enter(n)>>
  BY DEF DrainNext
<1> DEFINE t == [Top EXCEPT !.fact = n]
<1>5. n \in Fact /\ n \in defined
  BY DEF DrainLeft, Types
<1>6. n \in 0..NumFacts
  BY <1>5, CustomFactsAssumption DEF Fact
<1>7. t \in Frame /\ t.kind = "drain"
  BY <1>2, <1>6 DEF DrainFrame, Frame
<1> HIDE DEF t
<1>8. Alike(stack[1], t)
  BY <1>1, <1>2, <1>3, <1>7 DEF Alike
<1>9. stack' \in Seq(Frame) /\ Len(stack') = 2 /\ stack'[1] = t /\ stack'[2] = Enter(n)
  <2>1. stack' = <<t, Enter(n)>>
    BY <1>4 DEF t
  <2>2. t \in Frame /\ Enter(n) \in Frame
    BY <1>5, <1>7, EnterFrame
  <2>3. QED BY ONLY <2>1, <2>2
<1>10. Shape(Depth) /\ Waiting(Depth - 1) /\ Len(stack') = Depth + 1 /\ stack'[Depth + 1] = Enter(n)
  BY <1>3, <1>8, <1>9 DEF Shape, Waiting, Depth
<1>11. NewCall(Enter(n)) /\ Steady(stack[Depth], stack'[Depth]) /\ lost = FALSE
  BY <1>1, <1>2, <1>3, <1>5, <1>7, <1>9, EnterFrame DEF NewCall, Steady, Nesting, Types
<1>12. UNCHANGED <<world, resolving, broken, generation, lost>>
  BY DEF DrainNext
<1>13. stack[Depth].kind = "drain"
  BY <1>1, <1>2
<1>14. QED BY <1>10, <1>11, <1>12, <1>13 DEF Calls

LEMMA LoadsNextMoves ==
  ASSUME Types, Nesting, LoadsNext
  PROVE  Finds
<1>1. /\ stack # <<>> /\ Top = stack[Depth] /\ Depth > 0 /\ Depth \in Nat
      /\ Top \in LoadFrame /\ Top.kind = "load"
  BY InLoadFacts DEF LoadsNext
<1>2. PICK f \in FilesLeft(Top) : /\ \A g \in FilesLeft(Top) : f <= g
                                  /\ LoadFile(f, Advance([Top EXCEPT !.at = f]))
  BY DEF LoadsNext
<1> DEFINE t == [Top EXCEPT !.at = f]
           u == [kind |-> "file", file |-> f, it |-> 1]
<1>3. f \in File /\ f \in 0..NumFiles
  BY CustomFactsAssumption DEF FilesLeft, File
<1>4. t \in LoadFrame /\ t \in Frame /\ Alike(Top, t) /\ t.at = f
  BY <1>1, <1>3 DEF LoadFrame, Frame, Alike
<1>5. u \in Frame /\ u.kind = "file" /\ u.file = f /\ u.it = 1
  BY <1>3 DEF FileFrame, Frame
<1>6. UNCHANGED <<collection, populated, defined, resolutions, value, resolved,
                  loadedAll, resolving, broken, generation, lost>>
  BY DEF LoadsNext
<1>7. /\ loadedFiles' = loadedFiles \cup {f}
      /\ stack' = IF f \in loadedFiles THEN Advance(t) ELSE Append(Advance(t), u)
  BY <1>2 DEF LoadFile
<1> HIDE DEF t, u
<1>8. CASE f \in loadedFiles
  <2>1. Shape(Depth) /\ Len(stack') = Depth /\ Waiting(Depth - 1) /\ stack'[Depth] = t
    BY <1>1, <1>4, <1>7, <1>8, TopGoesOn
  <2>2. QED BY <1>1, <1>2, <1>4, <1>6, <1>7, <1>8, <2>1 DEF Finds
<1>9. CASE f \notin loadedFiles
  <2>1. /\ Shape(Depth) /\ Len(stack') = Depth + 1 /\ Waiting(Depth - 1)
        /\ stack'[Depth] = t /\ stack'[Depth + 1] = u
    BY <1>1, <1>4, <1>5, <1>7, <1>9, TopCalls
  <2>2. QED BY <1>1, <1>2, <1>4, <1>5, <1>6, <1>7, <1>9, <2>1 DEF Finds
<1>10. QED BY <1>8, <1>9

LEMMA LoadedNamedMoves ==
  ASSUME Types, Nesting, LoadedNamed
  PROVE  Fetches
<1>1. /\ stack # <<>> /\ Top = stack[Depth] /\ Depth > 0 /\ Depth \in Nat
      /\ Top \in LoadFrame /\ Top.kind = "load"
  BY InLoadFacts DEF LoadedNamed
<1>2. UNCHANGED <<resolving, broken, generation, lost>>
  BY DEF LoadedNamed
<1> DEFINE n == Top.fact
           t == [Top EXCEPT !.step = "all", !.at = SearchStart]
           found == n \in defined \/ Populate(World).collection[n] # Nil
<1>3. /\ Become(IF found THEN Create(World, n) ELSE Populate(World))
      /\ stack' = Advance(IF found THEN Enter(n) ELSE t)
      /\ Top.step = "named"
  BY DEF LoadedNamed
<1>4. n \in Fact
  <2>1. n \in 0..NumFacts /\ n # 0
    BY <1>1, <1>3 DEF LoadFrame, Nesting, Depth
  <2>2. QED BY <2>1, CustomFactsAssumption DEF Fact
<1>5. t \in Frame /\ t.kind = "load" /\ t.step = "all" /\ t.at = SearchStart
  BY <1>1, SearchStartType DEF LoadFrame, Frame
<1> HIDE DEF t, n, found
<1>6. CASE found
  <2>1. Fills /\ resolutions' = resolutions /\ n \in defined'
    BY <1>3, <1>4, <1>6, CreateFills
  <2>2. /\ Shape(Depth - 1) /\ Len(stack') = Depth /\ Waiting(Depth - 1)
        /\ stack'[Depth] = Enter(n)
    BY <1>1, <1>3, <1>4, <1>6, EnterFrame, TopIsReplaced
  <2>3. QED BY ZenonT(30), <1>1, <1>2, <1>4, <2>1, <2>2, EnterFrame DEF Fetches
<1>7. CASE ~found
  <2>1. Fills /\ resolutions' = resolutions
    BY <1>3, <1>7, PopulateFills
  <2>2. /\ Shape(Depth - 1) /\ Len(stack') = Depth /\ Waiting(Depth - 1)
        /\ stack'[Depth] = t
    BY <1>1, <1>3, <1>5, <1>7, TopIsReplaced
  <2>3. QED BY <1>1, <1>2, <1>5, <2>1, <2>2 DEF Fetches
<1>8. QED BY <1>6, <1>7

LEMMA LoadedAllMoves ==
  ASSUME Types, Nesting, LoadedAll
  PROVE  LoadEnds
<1>1. /\ stack # <<>> /\ Top = stack[Depth] /\ Depth > 0 /\ Depth \in Nat
      /\ Top \in LoadFrame /\ Top.kind = "load"
  BY InLoadFacts DEF LoadedAll
<1>2. /\ Top.step = "all" /\ FilesLeft(Top) = {} /\ loadedAll' = TRUE
      /\ UNCHANGED <<collection, populated, defined, resolutions, value, resolved,
                     loadedFiles, resolving, broken, generation, lost>>
  BY DEF LoadedAll
<1>3. CASE Top.fact \in defined
  <2>1. stack' = Advance(Enter(Top.fact)) /\ Top.fact \in Fact
    BY <1>3 DEF LoadedAll, Types
  <2>2. /\ Shape(Depth - 1) /\ Len(stack') = Depth /\ Waiting(Depth - 1)
        /\ stack'[Depth] = Enter(Top.fact)
    BY <1>1, <2>1, EnterFrame, TopIsReplaced
  <2>3. NewCall(stack'[Depth]) /\ stack'[Depth].kind = "value"
    BY <1>3, <2>1, <2>2, EnterFrame DEF NewCall
  <2>4. QED BY <1>1, <1>2, <2>2, <2>3 DEF LoadEnds
<1>4. CASE Top.fact \notin defined
  <2>1. Return(Nil)
    BY <1>4 DEF LoadedAll, Return
  <2>2. Shape(Depth - 1) /\ Len(stack') = Depth - 1 /\ Waiting(Depth - 1)
    BY <1>1, <2>1, ValueTypes, TopReturns
  <2>3. Len(stack') # Depth
    BY <1>1, <2>2
  <2>4. QED BY <1>1, <1>2, <2>2, <2>3 DEF LoadEnds
<1>5. QED BY <1>3, <1>4

\* A file adds what its statement says.
LEMMA FileAddsMoves ==
  ASSUME Types, Nesting, FileAdds
  PROVE  \E r \in Resolution : Extends(r)
<1> DEFINE t == [Top EXCEPT !.it = @ + 1]
           r == Statements[Top.file][Top.it].add
           w == Define(World, r)
<1>1. /\ AtStatement("add") /\ Become(w) /\ stack' = Moved(Advance(t), w)
      /\ UNCHANGED <<resolving, broken, generation, lost>>
  BY DEF FileAdds, NextStatement
<1>2. /\ stack # <<>> /\ Top = stack[Depth] /\ Depth > 0 /\ Depth \in Nat
      /\ Top \in FileFrame /\ Top.kind = "file" /\ Top.file \in File
      /\ Top.it \in DOMAIN Statements[Top.file]
      /\ "add" \in DOMAIN Statements[Top.file][Top.it]
  BY <1>1, AtStatementFacts
<1>3. Added(Top.file, Top.it) = r /\ r \in Resolution
  BY <1>2, StatementFacts
<1>4. t \in Frame /\ Alike(Top, t) /\ t.it = Top.it + 1 /\ t.kind = "file"
  BY <1>2, NextStatementFrame DEF FileFrame
<1>5. /\ Fills /\ FactOf[r] \in Fact
      /\ resolutions' = [resolutions EXCEPT ![FactOf[r]] = Defined(@, r)]
  <2> HIDE DEF r
  <2>1. QED BY <1>1, <1>3, DefineFills
<1>6. \A f \in Fact : w.resolutions[f] # resolutions[f] => f = FactOf[r]
  <2> HIDE DEF r
  <2>1. /\ FactOf[r] \in Fact
        /\ w.resolutions = [resolutions EXCEPT ![FactOf[r]] = Defined(@, r)]
    BY <1>3, DefineFields
  <2> HIDE DEF w
  <2>2. QED BY <2>1 DEF Types
<1> DEFINE s == Advance(t)
<1> HIDE DEF t, r, w
<1>7. /\ s \in Seq(Frame) /\ Len(s) = Depth
      /\ \A i \in 1..(Depth - 1) : s[i] = stack[i]
      /\ s[Depth] = t
  BY <1>2, <1>4, AdvanceShape DEF Depth
<1>8. stack' = Moved(s, w)
  BY <1>1
<1> HIDE DEF s
<1>9. /\ stack' \in Seq(Frame) /\ Len(stack') = Depth
      /\ \A i \in 1..Len(s) :
           /\ Alike(s[i], stack'[i]) /\ SamePlace(s[i], stack'[i])
           /\ Steady(s[i], stack'[i]) \/ Shifted(s[i], w)
           /\ s[i].kind = "file" => stack'[i] = s[i]
  BY <1>7, <1>8, MovedShape
<1>10. stack'[Depth] = t
  <2>1. Depth \in 1..Len(s)
    BY <1>2, <1>7
  <2>2. QED BY <2>1, <1>4, <1>7, <1>9
<1>11. Shape(Depth)
  <2>1. \A i \in 1..Depth : i \in 1..(Depth - 1) \/ i = Depth
    BY <1>2
  <2>2. \A i \in 1..(Depth - 1) : i \in 1..Len(s) /\ Alike(stack[i], stack'[i])
    BY <1>2, <1>7, <1>9
  <2>3. Alike(stack[Depth], stack'[Depth])
    BY <1>2, <1>4, <1>10
  <2>4. QED BY <1>2, <1>9, <2>1, <2>2, <2>3 DEF Shape
<1>12. ASSUME NEW i \in 1..(Depth - 1)
       PROVE  /\ SamePlace(stack[i], stack'[i])
              /\ \/ Steady(stack[i], stack'[i])
                 \/ Loops(i) /\ stack[i].fact = FactOf[r]
  <2>1. i \in 1..Len(s) /\ s[i] = stack[i]
    BY <1>2, <1>7
  <2>2. Shifted(s[i], w) => Loops(i) /\ stack[i].fact = FactOf[r]
    <3>1. s[i] \in Frame
      BY <1>7, <2>1, ElementOfSeq
    <3>2. s[i].kind = "value" => s[i].fact \in Fact
      BY <3>1, FrameKinds DEF ValueFrame, ValueFields
    <3>3. QED BY <1>6, <2>1, <3>2 DEF Shifted, Loops
  <2>3. QED BY <1>9, <2>1, <2>2
<1>13. Extends(r)
  BY <1>1, <1>2, <1>3, <1>4, <1>5, <1>9, <1>10, <1>11, <1>12 DEF Extends
<1>14. QED BY <1>3, <1>13

LEMMA FileEndsMoves ==
  ASSUME Types, Nesting, FileEnds
  PROVE  Returns
<1>1. /\ stack # <<>> /\ Top.kind = "file" /\ Top.it > Len(Statements[Top.file])
      /\ stack' = Front(stack)
      /\ UNCHANGED <<world, resolving, broken, generation, lost>>
  BY DEF FileEnds
<1>2. Top \in FileFrame /\ Top = stack[Depth] /\ Depth \in Nat \ {0} /\ Depth \in 1..Len(stack)
  BY <1>1, StackFacts, FrameKinds DEF Depth
<1>3. Top.it \notin DOMAIN Statements[Top.file]
  BY <1>1, <1>2, StatementDomain DEF FileFrame
<1>4. /\ stack' \in Seq(Frame) /\ Len(stack') = Depth - 1
      /\ \A i \in 1..(Depth - 1) : stack'[i] = stack[i]
  BY <1>1, FrontOfSeq DEF Types, Depth
<1>5. Shape(Depth - 1) /\ Waiting(Depth - 1)
  BY <1>2, <1>4, AlikeSame DEF Shape, Waiting
<1>6. QED BY <1>1, <1>2, <1>3, <1>4, <1>5 DEF Returns

-----------------------------------------------------------------------------
(* Facts that are evaluated                                                *)

\* An exception found while the k outermost calls and one more went on ends that one.
LEMMA RescueMoves ==
  ASSUME Types, NEW s \in Seq(Frame), s # <<>>, NEW k \in Nat, Len(s) = k + 1,
         \A i \in 1..Len(s) : i <= Depth /\ s[i] = stack[i],
         Depth \in Nat, Ending(k), Rescue(s),
         s[k + 1].kind = "file" \/ Loops(k + 1)
  PROVE  (\E v \in Value : Gives(k, v)) \/ Breaks(k)
<1>1. /\ Last(s) = stack[k + 1] /\ Last(s) \in Frame
      /\ Front(s) \in Seq(Frame) /\ Len(Front(s)) = k
      /\ \A i \in 1..k : Front(s)[i] = stack[i] /\ i <= Depth
  <2>1. /\ Front(s) \in Seq(Frame) /\ Last(s) \in Frame /\ Len(Front(s)) = Len(s) - 1
        /\ \A i \in 1..(Len(s) - 1) : Front(s)[i] = s[i]
    BY FrontOfSeq
  <2>2. k + 1 \in 1..Len(s) /\ Last(s) = s[k + 1] /\ Len(s) - 1 = k
    BY DEF Last
  <2>3. \A i \in 1..k : i \in 1..Len(s) /\ i \in 1..(Len(s) - 1)
    BY <2>2
  <2>4. Len(Front(s)) = k
    BY <2>1, <2>2
  <2>5. QED BY <2>1, <2>2, <2>3, <2>4
<1>2. k \in 0..Depth
  BY DEF Ending
<1>3. CASE Last(s).kind = "file"
  <2>1. /\ stack' = Front(s) /\ broken' = broken \cup {Last(s).file}
        /\ UNCHANGED <<world, resolving, generation, lost>>
    BY <1>3 DEF Rescue, FileBreaks
  <2>2. Shape(k) /\ Len(stack') = k /\ Waiting(k)
    BY <1>1, <1>2, <2>1, AlikeSame DEF Shape, Waiting
  <2>3. Breaks(k)
    BY <1>1, <1>3, <2>1, <2>2 DEF Breaks
  <2>4. QED BY <2>3
<1>4. CASE Last(s).kind # "file"
  <2> DEFINE n == Last(s).fact
  <2>1. /\ value' = [value EXCEPT ![n] = Nil] /\ resolved' = resolved \cup {n}
        /\ collection' = [collection EXCEPT ![n] = Nil] /\ resolving' = resolving \ {n}
        /\ stack' = Answered(Front(s), Nil)
        /\ UNCHANGED <<populated, defined, resolutions, loadedFiles, loadedAll, broken,
                       generation, lost>>
    BY <1>4 DEF Rescue
  <2>2. Loops(k + 1) /\ stack[k + 1].kind = "value" /\ stack[k + 1].step # "enter"
    BY <1>1, <1>4 DEF Loops
  <2>3. stack[k + 1].fact \in Fact /\ n = stack[k + 1].fact
    BY <1>1, <2>2, FrameKinds DEF ValueFrame, ValueFields
  <2> DEFINE t == Front(s)
  <2>4. /\ stack' \in Seq(Frame) /\ Len(stack') = k
        /\ \A i \in 1..k : Alike(t[i], stack'[i]) /\ Steady(t[i], stack'[i])
    BY <1>1, <2>1, ValueTypes, AnsweredShape
  <2>5. \A i \in 1..k : SamePlace(t[i], stack'[i])
    BY <1>1, <2>1, <2>4 DEF Answered, SamePlace
  <2> HIDE DEF n
  <2>6. Shape(k) /\ Waiting(k)
    BY <1>1, <1>2, <2>4, <2>5 DEF Shape, Waiting
  <2>7. Gives(k, Nil)
    BY <2>1, <2>2, <2>3, <2>4, <2>6 DEF Gives
  <2>8. QED BY <2>7, ValueTypes
<1>5. QED BY <1>3, <1>4

\* The frame on top raises.
LEMMA TopRaises ==
  ASSUME Types, stack # <<>>, Rescue(stack), Top.kind = "file" \/ Loops(Depth)
  PROVE  Moves
<1>1. Depth \in Nat \ {0} /\ Top = stack[Depth] /\ stack \in Seq(Frame) /\ Len(stack) = Depth
  BY StackFacts DEF Depth, Types
<1>2. PICK k \in Nat : Depth = k + 1
  <2>1. Depth - 1 \in Nat /\ Depth = (Depth - 1) + 1
    BY <1>1
  <2>2. QED BY <2>1
<1>3. Ending(k)
  BY <1>2 DEF Ending
<1>4. (\E v \in Value : Gives(k, v)) \/ Breaks(k)
  BY <1>1, <1>2, <1>3, RescueMoves
<1>5. QED BY <1>4 DEF Moves

LEMMA FileRaisesMoves ==
  ASSUME Types, FileRaises
  PROVE  Moves
<1>1. stack # <<>> /\ Top.kind = "file" /\ Rescue(stack)
  BY DEF FileRaises
<1>2. QED BY <1>1, TopRaises

LEMMA BlockRaisesMoves ==
  ASSUME Types, BlockRaises
  PROVE  Moves
<1>1. /\ stack # <<>> /\ Top.kind = "value" /\ Top.step # "enter" /\ Rescue(stack)
  BY DEF BlockRaises, AtResolution, InValue
<1>2. Loops(Depth)
  BY <1>1, StackFacts DEF Loops, Depth
<1>3. QED BY <1>1, <1>2, TopRaises

\* The caller of a fact in a cycle evaluates a fact or is a file.
LEMMA CycleRaisesMoves ==
  ASSUME Types, Nesting, Marks, CycleRaises
  PROVE  Moves
<1>1. /\ stack # <<>> /\ Top.kind = "value" /\ Top.step = "enter"
      /\ Top.fact \in resolving /\ Rescue(Front(stack))
  BY DEF CycleRaises, InValue
<1>2. Depth \in Nat \ {0} /\ Top = stack[Depth] /\ Len(stack) = Depth /\ Depth \in 1..Len(stack)
  BY <1>1, StackFacts DEF Depth
<1>3. lost = FALSE
  BY <1>1 DEF Nesting, Types
<1>4. PICK i \in 1..Depth : Loops(i) /\ stack[i].fact = Top.fact
  BY <1>1, <1>2, <1>3 DEF Marks
<1>5. i # Depth
  BY <1>1, <1>2, <1>4 DEF Loops
<1>6. PICK k \in Nat : Depth = k + 2
  <2>1. Depth - 2 \in Nat /\ Depth = (Depth - 2) + 2
    BY <1>2, <1>4, <1>5
  <2>2. QED BY <2>1
<1> DEFINE s == Front(stack)
<1>7. /\ s \in Seq(Frame) /\ Len(s) = k + 1
      /\ \A j \in 1..(k + 1) : s[j] = stack[j] /\ j <= Depth
  <2>1. /\ s \in Seq(Frame) /\ Len(s) = Depth - 1
        /\ \A j \in 1..(Depth - 1) : s[j] = stack[j]
    BY <1>1, FrontOfSeq DEF Types, Depth
  <2>2. Depth - 1 = k + 1 /\ \A j \in 1..(k + 1) : j <= Depth
    BY <1>6
  <2> HIDE DEF s
  <2>3. QED BY <2>1, <2>2
<1> HIDE DEF s
<1>8. s # <<>>
  BY <1>6, <1>7, EmptySeq
<1>9. Ending(k)
  BY <1>1, <1>2, <1>6 DEF Ending
<1>10. s[k + 1].kind = "file" \/ Loops(k + 1)
  <2>1. k + 1 \in 1..Len(stack) /\ k + 1 # Len(stack) /\ k + 1 < Len(stack)
        /\ (k + 1) + 1 = Depth /\ k + 1 \in 1..(k + 1) /\ i <= k + 1
    BY <1>2, <1>4, <1>5, <1>6
  <2>2. stack[k + 1] \in Frame
    BY <1>1, <2>1, StackFacts
  <2>3. stack[k + 1].kind # "load"
    BY <1>1, <1>2, <2>1 DEF Nesting
  <2>4. stack[k + 1].kind # "drain"
    <3>1. SUFFICES ASSUME stack[k + 1].kind = "drain" PROVE FALSE
      OBVIOUS
    <3>2. k + 1 = 1
      BY <2>1, <3>1 DEF Nesting
    <3>3. i = k + 1
      BY <1>4, <2>1, <3>2
    <3>4. QED BY <1>4, <3>1, <3>3 DEF Loops
  <2>5. stack[k + 1].kind = "value" => stack[k + 1].step # "enter"
    BY <2>1 DEF Nesting
  <2>6. s[k + 1] = stack[k + 1]
    BY <1>7, <2>1
  <2>7. QED BY <2>2, <2>3, <2>4, <2>5, <2>6, FrameKinds DEF Loops
<1>11. Rescue(s)
  BY <1>1 DEF s
<1>12. (\E v \in Value : Gives(k, v)) \/ Breaks(k)
  BY <1>2, <1>6, <1>7, <1>8, <1>9, <1>10, <1>11, RescueMoves
<1>13. QED BY <1>12 DEF Moves

\* A call of fact::value on top.
LEMMA TopValue ==
  ASSUME Types, stack # <<>>, Top.kind = "value"
  PROVE  /\ Top \in ValueFrame /\ Top = stack[Depth] /\ Depth > 0 /\ Depth \in Nat
         /\ Top.fact \in Fact /\ value[Top.fact] \in Value /\ collection[Top.fact] \in Value
<1>1. Top \in ValueFrame /\ Top = stack[Depth] /\ Depth \in Nat \ {0}
  BY StackFacts, FrameKinds DEF Depth
<1>2. Top.fact \in Fact
  BY <1>1 DEF ValueFrame, ValueFields
<1>3. QED BY <1>1, <1>2 DEF Types

LEMMA ReturnsResolvedMoves ==
  ASSUME Types, ReturnsResolved
  PROVE  Returns
<1>1. /\ stack # <<>> /\ Top.kind = "value" /\ Top.step = "enter"
      /\ Return(value[Top.fact])
      /\ UNCHANGED <<world, resolving, broken, generation, lost>>
  BY DEF ReturnsResolved, InValue
<1>2. value[Top.fact] \in Value /\ Top = stack[Depth]
  BY <1>1, TopValue
<1>3. Shape(Depth - 1) /\ Len(stack') = Depth - 1 /\ Waiting(Depth - 1) /\ Depth > 0
  BY <1>1, <1>2, TopReturns
<1>4. QED BY <1>1, <1>2, <1>3 DEF Returns

\* The top frame gives its fact a value.
LEMMA TopGives ==
  ASSUME Types, stack # <<>>, Top.kind = "value", NEW v \in Value, Return(v),
         Top.step = "enter" => Top.fact \notin resolving /\ Top.fact \notin resolved,
         value' = [value EXCEPT ![Top.fact] = v],
         collection' = [collection EXCEPT ![Top.fact] = v],
         resolved \subseteq resolved', resolved' \subseteq resolved \cup {Top.fact},
         resolving' = resolving \ {Top.fact},
         \/ resolutions' = resolutions
         \/ /\ Top.fact \notin resolving
            /\ resolutions' = [resolutions EXCEPT ![Top.fact] = Sorted(@)],
         UNCHANGED <<populated, defined, loadedFiles, loadedAll, broken, generation, lost>>
  PROVE  Moves
<1>1. Top = stack[Depth] /\ Depth > 0 /\ Depth \in Nat /\ Top.fact \in Fact
  BY TopValue
<1>2. Shape(Depth - 1) /\ Len(stack') = Depth - 1 /\ Waiting(Depth - 1)
  BY TopReturns
<1>3. PICK k \in Nat : k = Depth - 1 /\ k + 1 = Depth
  <2>1. Depth - 1 \in Nat /\ (Depth - 1) + 1 = Depth
    BY <1>1
  <2>2. QED BY <2>1
<1>4. Ending(k) /\ Shape(k) /\ Len(stack') = k /\ Waiting(k) /\ stack[k + 1] = Top
  BY <1>1, <1>2, <1>3 DEF Ending
<1>5. Gives(k, v)
  BY <1>1, <1>4 DEF Gives
<1>6. QED BY <1>5 DEF Moves

LEMMA BeginsFacts ==
  ASSUME Types, Begins
  PROVE  /\ stack # <<>> /\ Top.kind = "value" /\ Top.step = "enter"
         /\ Top.fact \notin resolving /\ Top.fact \notin resolved
         /\ resolving \ {Top.fact} = resolving
BY DEF Begins, InValue

LEMMA UsesCollectionMoves ==
  ASSUME Types, UsesCollection
  PROVE  Moves
<1> DEFINE n == Top.fact
           v == collection[n]
<1>1. Begins /\ Finish(v, FALSE) /\ Sorts(n)
  BY DEF UsesCollection
<1>2. /\ stack # <<>> /\ Top.kind = "value" /\ n \notin resolving /\ n \notin resolved
  BY <1>1, BeginsFacts
<1>3. v \in Value /\ n \in Fact
  BY <1>2, TopValue
<1>4. /\ value' = [value EXCEPT ![n] = v] /\ resolved' = resolved
      /\ collection' = collection /\ resolving' = resolving \ {n} /\ Return(v)
      /\ UNCHANGED <<populated, defined, loadedFiles, loadedAll, broken, generation, lost>>
  BY <1>1 DEF Finish
<1>5. collection' = [collection EXCEPT ![n] = v]
  BY <1>3, <1>4 DEF Types
<1>6. resolutions' = [resolutions EXCEPT ![n] = Sorted(@)]
  BY <1>1 DEF Sorts
<1> HIDE DEF v
<1>7. QED BY <1>2, <1>3, <1>4, <1>5, <1>6, TopGives

LEMMA KeepsValueMoves ==
  ASSUME Types, KeepsValue
  PROVE  Moves
<1> DEFINE n == Top.fact
           v == value[n]
<1>1. /\ Begins /\ collection' = [collection EXCEPT ![n] = v] /\ Return(v) /\ Sorts(n)
      /\ UNCHANGED <<populated, defined, value, resolved, loadedFiles, loadedAll,
                     resolving, broken, generation, lost>>
  BY DEF KeepsValue
<1>2. /\ stack # <<>> /\ Top.kind = "value" /\ n \notin resolving /\ n \notin resolved
      /\ resolving \ {n} = resolving
  BY <1>1, BeginsFacts
<1>3. v \in Value /\ n \in Fact
  BY <1>2, TopValue
<1>4. value' = [value EXCEPT ![n] = v]
  BY <1>1, <1>3 DEF Types
<1>5. resolutions' = [resolutions EXCEPT ![n] = Sorted(@)]
  BY <1>1 DEF Sorts
<1> HIDE DEF v
<1>6. QED BY <1>1, <1>2, <1>3, <1>4, <1>5, TopGives

LEMMA BeginsLoopMoves ==
  ASSUME Types, Nesting, BeginsLoop
  PROVE  EntersLoop
<1> DEFINE n == Top.fact
           t == [Top EXCEPT !.step = "confine"]
<1>1. /\ Begins /\ resolving' = resolving \cup {n} /\ Sorts(n)
      /\ stack' = [stack EXCEPT ![Len(stack)].step = "confine"]
      /\ UNCHANGED <<collection, populated, defined, value, resolved, loadedFiles,
                     loadedAll, broken, generation, lost>>
  BY DEF BeginsLoop
<1>2. /\ stack # <<>> /\ Top.kind = "value" /\ Top.step = "enter"
      /\ n \notin resolving /\ n \notin resolved
  BY <1>1, BeginsFacts
<1>3. Top \in ValueFrame /\ Top = stack[Depth] /\ n \in Fact /\ Depth \in Nat /\ Depth > 0
  BY <1>2, TopValue
<1>4. Intact(Top)
  <2>1. Depth \in 1..Len(stack)
    BY <1>2, StackFacts DEF Depth
  <2>2. QED BY <1>2, <1>3, <2>1 DEF Nesting, ValueFrame
<1>5. /\ t \in Frame /\ t.kind = "value" /\ t.step # "enter" /\ t.fact = n /\ Intact(t)
  <2>1. Top \in ValueFields
    BY <1>3 DEF ValueFrame
  <2>2. /\ t \in ValueFields /\ t.kind = "value" /\ t.step = "confine" /\ t.fact = n
        /\ Intact(t)
    BY <1>4, <2>1 DEF ValueFields, Intact
  <2> HIDE DEF t
  <2>3. QED BY <1>3, <2>2, SameStep
<1>6. stack' = Advance(t)
  BY <1>1, <1>3 DEF Advance, Depth
<1> HIDE DEF t
<1>7. /\ Shape(Depth - 1) /\ Len(stack') = Depth /\ Waiting(Depth - 1) /\ stack'[Depth] = t
  BY <1>2, <1>5, <1>6, TopIsReplaced
<1>8. resolutions' = [resolutions EXCEPT ![n] = Sorted(@)]
  BY <1>1 DEF Sorts
<1>9. QED BY <1>1, <1>2, <1>3, <1>5, <1>7, <1>8 DEF EntersLoop

LEMMA BlockGivesMoves ==
  ASSUME Types, BlockGives
  PROVE  Moves
<1> DEFINE n == Top.fact
           v == [by |-> Top.code, gen |-> generation]
<1>1. /\ stack # <<>> /\ Top.kind = "value" /\ Top.step = "block"
      /\ Top.it <= Len(resolutions[n]) /\ Finish(v, TRUE) /\ resolutions' = resolutions
  BY DEF BlockGives, BlockDone, AtResolution, InValue
<1>2. v \in Value
  <2>1. Top.code \in Resolution /\ generation \in 0..MaxFlushes
    BY <1>1, AtResolutionFacts DEF Types
  <2>2. QED BY <2>1, ValueTypes
<1>3. /\ value' = [value EXCEPT ![n] = v] /\ resolved' = resolved \cup {n}
      /\ collection' = [collection EXCEPT ![n] = v] /\ resolving' = resolving \ {n}
      /\ Return(v)
      /\ UNCHANGED <<populated, defined, loadedFiles, loadedAll, broken, generation, lost>>
  BY <1>1 DEF Finish
<1> HIDE DEF v
<1>4. QED BY <1>1, <1>2, <1>3, TopGives

LEMMA LoopEndsMoves ==
  ASSUME Types, LoopEnds
  PROVE  Moves
<1> DEFINE n == Top.fact
<1>1. /\ stack # <<>> /\ Top.kind = "value" /\ Top.step = "confine"
      /\ Finish(Nil, TRUE) /\ resolutions' = resolutions
  BY DEF LoopEnds, InValue
<1>2. /\ value' = [value EXCEPT ![n] = Nil] /\ resolved' = resolved \cup {n}
      /\ collection' = [collection EXCEPT ![n] = Nil] /\ resolving' = resolving \ {n}
      /\ Return(Nil)
      /\ UNCHANGED <<populated, defined, loadedFiles, loadedAll, broken, generation, lost>>
  BY <1>1 DEF Finish
<1>3. QED BY <1>1, <1>2, ValueTypes, TopGives

\* A fact that is evaluated goes on.
LEMMA TopWalks ==
  ASSUME Types, stack # <<>>, Top.kind = "value", Top.step # "enter",
         NEW t \in ValueFrame, t.fact = Top.fact, t.step # "enter", (Intact(Top) => Intact(t)),
         stack' = Advance(t), UNCHANGED <<world, resolving, broken, generation, lost>>
  PROVE  Walks
<1>1. Top \in ValueFrame /\ Top = stack[Depth] /\ Depth > 0
  BY TopValue
<1>2. t \in Frame /\ Alike(Top, t) /\ Steady(Top, t)
  <2>1. t.kind = "value" /\ Top.kind = "value"
    BY <1>1 DEF ValueFrame, ValueFields
  <2>2. QED BY <2>1 DEF Frame, Alike, Steady
<1>3. /\ Shape(Depth) /\ Len(stack') = Depth /\ Waiting(Depth - 1) /\ stack'[Depth] = t
  BY <1>2, TopGoesOn
<1>4. QED BY <1>1, <1>2, <1>3 DEF Walks, Loops

LEMMA NextResolutionMoves ==
  ASSUME Types, stack # <<>>, Top.kind = "value", Top.step # "enter", NextResolution
  PROVE  Moves
<1>1. UNCHANGED <<world, resolving, broken, generation>>
  BY DEF NextResolution
<1>2. Top \in ValueFrame
  BY TopValue
<1>3. CASE Top.moved
  <2>1. stack' = <<>> /\ lost' = TRUE
    BY <1>3 DEF NextResolution
  <2>2. QED BY <1>1, <2>1 DEF Loses, Moves
<1>4. CASE ~Top.moved
  <2>1. stack' = Advance(NextFrame) /\ UNCHANGED lost
    BY <1>4 DEF NextResolution
  <2>2. /\ NextFrame \in ValueFrame /\ NextFrame.fact = Top.fact
        /\ NextFrame.step # "enter" /\ (Intact(Top) => Intact(NextFrame))
    <3>1. Top.it + 1 \in Nat \ {0} /\ 0 \in Nat
      BY <1>2 DEF ValueFrame, ValueFields
    <3>2. /\ NextFrame.fact = Top.fact /\ NextFrame.step = "confine"
          /\ (Intact(Top) => Intact(NextFrame))
      BY <1>2 DEF NextFrame, ValueFields, ValueFrame, Intact
    <3> DEFINE s == [Top EXCEPT !.step = "confine", !.asked = 0, !.answer = Unasked,
                                !.code = 0, !.torn = FALSE]
    <3>3. s \in ValueFields /\ s.it = Top.it
      <4>1. 0 \in 0..NumResolutions /\ Top \in ValueFields
        BY <1>2, CustomFactsAssumption DEF ValueFrame
      <4>2. QED BY <3>1, <4>1 DEF ValueFields
    <3>4. NextFrame = [s EXCEPT !.it = @ + 1]
      BY <1>2 DEF NextFrame, ValueFields, ValueFrame
    <3> HIDE DEF s
    <3>5. NextFrame \in ValueFields
      BY <3>1, <3>3, <3>4 DEF ValueFields
    <3>7. NextFrame \in ValueFrame
      BY <1>2, <3>2, <3>5, SameStep
    <3>6. QED BY <3>2, <3>7
  <2>3. Walks
    BY <1>1, <2>1, <2>2, TopWalks
  <2>4. QED BY <2>3 DEF Moves
<1>5. QED BY <1>3, <1>4

LEMMA ConfineBlockMoves ==
  ASSUME Types, ConfineBlock
  PROVE  Moves
<1>1. stack # <<>> /\ Top.kind = "value" /\ Top.step = "confine"
  BY DEF ConfineBlock, AtResolution, InValue
<1>2. CASE NextResolution
  BY <1>1, <1>2, NextResolutionMoves
<1>3. CASE /\ stack' = Advance([Top EXCEPT !.asked = @ + 1])
           /\ UNCHANGED <<world, resolving, broken, generation, lost>>
  <2> DEFINE t == [Top EXCEPT !.asked = @ + 1]
  <2>1. Top \in ValueFrame
    BY <1>1, TopValue
  <2>2. t \in ValueFrame /\ t.fact = Top.fact /\ t.step # "enter" /\ (Intact(Top) => Intact(t))
    <3>1. /\ t \in ValueFields /\ t.fact = Top.fact /\ t.step = "confine"
          /\ (Intact(Top) => Intact(t))
      BY <1>1, <2>1 DEF ValueFields, ValueFrame, Intact
    <3> HIDE DEF t
    <3>2. QED BY <2>1, <3>1, SameStep
  <2>3. stack' = Advance(t)
    BY <1>3
  <2> HIDE DEF t
  <2>4. Walks
    BY <1>1, <1>3, <2>2, <2>3, TopWalks
  <2>5. QED BY <2>4 DEF Moves
<1>4. QED BY <1>2, <1>3 DEF ConfineBlock

LEMMA ConfineDecidesMoves ==
  ASSUME Types, ConfineDecides
  PROVE  Moves
<1>1. stack # <<>> /\ Top.kind = "value" /\ Top.step = "confine"
  BY DEF ConfineDecides, AtResolution, InValue
<1>2. CASE NextResolution
  BY <1>1, <1>2, NextResolutionMoves
<1>3. CASE /\ stack' = Advance([Top EXCEPT !.answer = Unasked])
           /\ UNCHANGED <<world, resolving, broken, generation, lost>>
  <2> DEFINE t == [Top EXCEPT !.answer = Unasked]
  <2>1. Top \in ValueFrame
    BY <1>1, TopValue
  <2>2. t \in ValueFrame /\ t.fact = Top.fact /\ t.step # "enter" /\ (Intact(Top) => Intact(t))
    <3>1. /\ t \in ValueFields /\ t.fact = Top.fact /\ t.step = "confine"
          /\ (Intact(Top) => Intact(t))
      BY <1>1, <2>1 DEF ValueFields, ValueFrame, Intact
    <3> HIDE DEF t
    <3>2. QED BY <2>1, <3>1, SameStep
  <2>3. stack' = Advance(t)
    BY <1>3
  <2> HIDE DEF t
  <2>4. Walks
    BY <1>1, <1>3, <2>2, <2>3, TopWalks
  <2>5. QED BY <2>4 DEF Moves
<1>4. CASE /\ stack' = <<>> /\ lost' = TRUE
           /\ UNCHANGED <<world, resolving, broken, generation>>
  BY <1>4 DEF Loses, Moves
<1>5. QED BY <1>2, <1>3, <1>4 DEF ConfineDecides

LEMMA SuitableMoves ==
  ASSUME Types, Suitable
  PROVE  Walks
<1> DEFINE c == Chosen.code
           t == [Top EXCEPT !.step = "block", !.asked = 0, !.code = c]
<1>1. /\ stack # <<>> /\ Top.kind = "value" /\ Top.step = "confine"
      /\ Top.it <= Len(resolutions[Top.fact]) /\ stack' = Advance(t)
      /\ UNCHANGED <<world, resolving, broken, generation, lost>>
  BY DEF Suitable, AtResolution, InValue
<1>2. Top \in ValueFrame /\ Top \in ValueFields
  BY <1>1, TopValue DEF ValueFrame
<1>3. c \in 0..NumResolutions /\ c # 0
  <2>1. c \in Resolution
    BY <1>1, AtResolutionFacts
  <2> HIDE DEF c
  <2>2. QED BY <2>1, CustomFactsAssumption DEF Resolution
<1> HIDE DEF c
<1>4. /\ t \in ValueFields /\ t.fact = Top.fact /\ t.step = "block" /\ t.code = c
      /\ (Intact(Top) => Intact(t))
  BY <1>2, <1>3 DEF ValueFields, Intact
<1> HIDE DEF t
<1>5. t \in ValueFrame
  BY <1>3, <1>4 DEF ValueFrame
<1>6. QED BY <1>1, <1>4, <1>5, TopWalks

LEMMA BlockGivesNilMoves ==
  ASSUME Types, BlockGivesNil
  PROVE  Moves
<1>1. stack # <<>> /\ Top.kind = "value" /\ Top.step = "block" /\ NextResolution
  BY DEF BlockGivesNil, BlockDone, AtResolution, InValue
<1>2. QED BY <1>1, NextResolutionMoves

-----------------------------------------------------------------------------
(* The module *)

LEMMA ResolveFactsMoves ==
  ASSUME Types, ResolveFacts
  PROVE  Drains
<1> DEFINE d == [kind |-> "drain", fact |-> 0]
<1>1. /\ stack = <<>> /\ lost = FALSE /\ Become(Populate(World))
      /\ stack' = <<d, LoadFacts>>
      /\ UNCHANGED <<resolving, broken, generation, lost>>
  BY DEF ResolveFacts, Idle, Types
<1>2. Fills /\ resolutions' = resolutions
  BY <1>1, PopulateFills
<1>3. 0 \in 0..NumFacts
  BY CustomFactsAssumption
<1>4. d \in Frame /\ d.kind = "drain"
  BY <1>3 DEF Frame, DrainFrame
<1>5. /\ LoadFacts \in Frame /\ LoadFacts.kind = "load" /\ LoadFacts.at = SearchStart
      /\ LoadFacts.step = "all"
  BY <1>3, SearchStartType DEF LoadFacts, Frame, LoadFrame
<1> HIDE DEF d
<1>6. stack' \in Seq(Frame) /\ Len(stack') = 2 /\ stack'[1] = d /\ stack'[2] = LoadFacts
  BY ONLY <1>1, <1>4, <1>5
<1>7. QED BY <1>1, <1>2, <1>4, <1>5, <1>6 DEF Drains

LEMMA DrainReturnsMoves ==
  ASSUME Types, Nesting, DrainReturns
  PROVE  DrainEnds
<1>1. /\ stack # <<>> /\ Top.kind = "drain" /\ stack' = <<>>
      /\ UNCHANGED <<world, resolving, broken, generation, lost>>
  BY DEF DrainReturns, InDrain
<1>2. Depth \in 1..Len(stack) /\ Top = stack[Depth]
  BY <1>1, StackFacts DEF Depth
<1>3. Depth = 1
  BY <1>1, <1>2 DEF Nesting
<1>4. QED BY <1>1, <1>2, <1>3 DEF DrainEnds

\* Every step is one of the moves.
LEMMA NextMoves ==
  ASSUME Types, Nesting, Marks, Next
  PROVE  Moves
<1>1. CASE Call
  <2>1. CASE \E n \in Fact : FacterValue(n)
    BY <2>1, FacterValueMoves DEF Moves
  <2>2. CASE FacterLoadFacts
    BY <2>2, LoadFactsMoves DEF Moves
  <2>3. CASE ResolveFacts
    BY <2>3, ResolveFactsMoves DEF Moves
  <2>4. CASE Flush \/ Reset
    BY <2>4 DEF Moves
  <2>5. QED BY <1>1, <2>1, <2>2, <2>3, <2>4 DEF Call
<1>2. CASE Step
  <2>1. CASE LoadsNext \/ LoadedNamed \/ LoadedAll
    BY <2>1, LoadsNextMoves, LoadedNamedMoves, LoadedAllMoves DEF Moves
  <2>2. CASE FileAdds
    BY <2>2, FileAddsMoves DEF Moves
  <2>3. CASE FileAsks \/ FileEnds
    BY <2>3, FileAsksMoves, FileEndsMoves DEF Moves
  <2>4. CASE FileRaises \/ CycleRaises \/ BlockRaises
    BY <2>4, FileRaisesMoves, CycleRaisesMoves, BlockRaisesMoves
  <2>5. CASE ReturnsResolved \/ BeginsLoop
    BY <2>5, ReturnsResolvedMoves, BeginsLoopMoves DEF Moves
  <2>6. CASE UsesCollection \/ KeepsValue \/ BlockGives \/ LoopEnds
    BY <2>6, UsesCollectionMoves, KeepsValueMoves, BlockGivesMoves, LoopEndsMoves
  <2>7. CASE ConfineAsks \/ BlockAsks \/ DrainNext
    BY <2>7, ConfineAsksMoves, BlockAsksMoves, DrainNextMoves DEF Moves
  <2>8. CASE ConfineBlock \/ ConfineDecides \/ BlockGivesNil
    BY <2>8, ConfineBlockMoves, ConfineDecidesMoves, BlockGivesNilMoves
  <2>9. CASE Suitable \/ DrainReturns
    BY <2>9, SuitableMoves, DrainReturnsMoves DEF Moves
  <2>10. QED BY <1>2, <2>1, <2>2, <2>3, <2>4, <2>5, <2>6, <2>7, <2>8, <2>9 DEF Step
<1>3. QED BY <1>1, <1>2 DEF Next

-----------------------------------------------------------------------------
(* The types and the nesting of the calls                                  *)

\* The frame that is looked at is one of the stack.
LEMMA Below ==
  ASSUME Types, NEW k, Shape(k)
  PROVE  /\ Depth \in Nat /\ k \in Nat /\ k <= Depth /\ Len(stack') \in Nat
         /\ \A i \in 1..k : i \in 1..Len(stack) /\ i \in 1..Len(stack') /\ Alike(stack[i], stack'[i])
         /\ \A i \in 1..Len(stack') : i \in 1..k \/ (i = k + 1 /\ Len(stack') = k + 1)
<1>1. Depth \in Nat
  BY LenProperties DEF Depth, Types
<1>2. k \in 0..Depth /\ Len(stack') \in {k, k + 1} /\ \A i \in 1..k : Alike(stack[i], stack'[i])
  BY DEF Shape
<1>3. QED BY <1>1, <1>2 DEF Depth

LEMMA EndingFacts ==
  ASSUME Types, NEW k \in Nat, Ending(k)
  PROVE  /\ k + 1 \in 1..Len(stack) /\ stack[k + 1] \in Frame /\ Depth \in Nat
         /\ \A i \in 1..Len(stack) : 
              \/ i \in 1..k
              \/ i = k + 1
              \/ i = Depth /\ stack[i].kind = "value" /\ stack[i].step = "enter"
<1>1. Depth \in Nat
  BY LenProperties DEF Depth, Types
<1>2. k + 1 \in 1..Len(stack)
  BY <1>1 DEF Ending, Depth
<1>3. stack[k + 1] \in Frame
  BY <1>2, ElementOfSeq DEF Types
<1>4. QED BY <1>1, <1>2, <1>3 DEF Ending, Depth

LEMMA MovesTypes ==
  ASSUME Types, Moves
  PROVE  Types'
<1>1. CASE Calls \/ Walks \/ Returns
  BY <1>1 DEF Types, Calls, Walks, Returns, Shape, world
<1>2. CASE Finds
  BY <1>2 DEF Types, Finds, Shape, FilesLeft
<1>3. CASE Fetches
  BY <1>3, FillsTypes DEF Types, Fetches, Shape
<1>4. CASE LoadEnds
  BY <1>4 DEF Types, LoadEnds, Shape
<1>5. CASE Loses \/ DrainEnds
  <2>1. stack' = <<>> /\ lost' \in BOOLEAN /\ UNCHANGED <<world, resolving, broken, generation>>
    BY <1>5 DEF Loses, DrainEnds, Types
  <2>2. QED BY <2>1 DEF Types, world
<1>6. CASE EntersLoop
  <2>1. PICK n \in Fact : /\ resolving' = resolving \cup {n}
                          /\ resolutions' = [resolutions EXCEPT ![n] = Sorted(@)]
    BY <1>6 DEF EntersLoop
  <2>2. Sorted(resolutions[n]) \in Seq(Object)
    BY SortedFacts DEF Types
  <2>3. QED BY <1>6, <2>1, <2>2 DEF EntersLoop, Types, Shape
<1>7. ASSUME NEW r \in Resolution, Extends(r) PROVE Types'
  <2>1. FactOf[r] \in Fact /\ resolutions' = [resolutions EXCEPT ![FactOf[r]] = Defined(@, r)]
    BY <1>7 DEF Extends
  <2>2. Defined(resolutions[FactOf[r]], r) \in Seq(Object)
    BY <2>1, DefinedFacts DEF Types
  <2>3. resolutions' \in [Fact -> Seq(Object)]
    BY <2>1, <2>2 DEF Types
  <2>4. QED BY <1>7, <2>3, FillsTypes DEF Types, Extends, Shape
<1>8. ASSUME NEW k \in Nat, NEW v \in Value, Gives(k, v) PROVE Types'
  <2>1. PICK n \in Fact :
           /\ value' = [value EXCEPT ![n] = v]
           /\ collection' = [collection EXCEPT ![n] = v]
           /\ resolved' \subseteq resolved \cup {n}
           /\ resolving' = resolving \ {n}
           /\ \/ resolutions' = resolutions
              \/ resolutions' = [resolutions EXCEPT ![n] = Sorted(@)]
    BY <1>8 DEF Gives
  <2>2. Sorted(resolutions[n]) \in Seq(Object)
    BY SortedFacts DEF Types
  <2>3. resolutions' \in [Fact -> Seq(Object)]
    BY <2>1, <2>2 DEF Types
  <2>4. /\ collection' \in [Fact -> Value] /\ value' \in [Fact -> Value]
        /\ resolved' \subseteq Fact /\ resolving' \subseteq Fact
    BY <2>1 DEF Types
  <2>5. /\ stack' \in Seq(Frame)
        /\ UNCHANGED <<populated, defined, loadedFiles, loadedAll, broken, generation, lost>>
    BY <1>8 DEF Gives, Shape
  <2>6. QED BY <2>3, <2>4, <2>5 DEF Types
<1>9. ASSUME NEW k \in Nat, Breaks(k) PROVE Types'
  <2>1. stack[k + 1].file \in File
    BY <1>9, EndingFacts, FrameKinds DEF Breaks, FileFrame
  <2>2. QED BY <1>9, <2>1 DEF Types, Breaks, Shape, world
<1>10. CASE Drains
  BY <1>10, FillsTypes DEF Types, Drains
<1>11. CASE Flush
  BY <1>11, ValueTypes, CustomFactsAssumption DEF Types, Flush, Idle
<1>12. CASE Reset
  <2>1. [n \in Fact |-> Nil] \in [Fact -> Value] /\ [n \in Fact |-> <<>>] \in [Fact -> Seq(Object)]
    BY ValueTypes, EmptySeq
  <2>2. QED BY <1>12, <2>1 DEF Types, Reset, Idle
<1>13. QED BY <1>1, <1>2, <1>3, <1>4, <1>5, <1>6, <1>7, <1>8, <1>9, <1>10, <1>11, <1>12 DEF Moves

\* What a new call on top of the k outermost ones must be like.
Nested(k) ==
    /\ lost' => stack' = <<>>
    /\ Len(stack') = k + 1 =>
         LET f == stack'[k + 1]
         IN  /\ f.kind = "drain" => k = 0
             /\ f.kind = "file" => k > 0 /\ stack[k].kind = "load"
             /\ f.kind = "value" /\ f.step = "enter" => Intact(f)
             /\ f.kind = "load" /\ f.step = "named" => f.fact # 0
             /\ k > 0 => /\ ~(stack[k].kind = "value" /\ stack[k].step = "enter")
                         /\ stack[k].kind = "load" => f.kind = "file"

LEMMA NestingKept ==
  ASSUME Types, Nesting, NEW k, Shape(k), Nested(k)
  PROVE  Nesting'
<1>1. /\ Depth \in Nat /\ k \in Nat /\ k <= Depth /\ Depth = Len(stack) /\ Len(stack') \in {k, k + 1}
      /\ \A i \in 1..k : i \in 1..Len(stack) /\ Alike(stack[i], stack'[i])
      /\ \A i \in 1..Len(stack') : i \in 1..k \/ (i = k + 1 /\ Len(stack') = k + 1)
  BY Below DEF Depth, Shape
<1>2. ASSUME NEW i \in 1..k
      PROVE  /\ stack'[i].kind = "drain" => i = 1
             /\ stack'[i].kind = "file" => i > 1 /\ stack'[i - 1].kind = "load"
             /\ stack'[i].kind = "value" /\ stack'[i].step = "enter" => i = Len(stack') /\ Intact(stack'[i])
             /\ stack'[i].kind = "load" /\ i < Len(stack') => stack'[i + 1].kind = "file"
             /\ stack'[i].kind = "load" /\ stack'[i].step = "named" => stack'[i].fact # 0
  <2>1. i \in 1..Len(stack) /\ Alike(stack[i], stack'[i])
    BY <1>1
  <2>2. stack'[i].kind = "drain" => i = 1
    BY <2>1 DEF Nesting, Alike
  <2>3. stack'[i].kind = "file" => i > 1 /\ stack'[i - 1].kind = "load"
    <3>1. stack'[i].kind = "file" => i > 1 /\ stack[i - 1].kind = "load"
      BY <2>1 DEF Nesting, Alike
    <3>2. i > 1 => i - 1 \in 1..k
      BY <1>1
    <3>3. QED BY <1>1, <3>1, <3>2 DEF Alike
  <2>4. stack'[i].kind = "load" /\ stack'[i].step = "named" => stack'[i].fact # 0
    BY <2>1 DEF Nesting, Alike
  <2>5. stack'[i].kind = "value" /\ stack'[i].step = "enter" => i = Len(stack') /\ Intact(stack'[i])
    <3>1. SUFFICES ASSUME stack'[i].kind = "value", stack'[i].step = "enter"
                   PROVE  i = Len(stack') /\ Intact(stack'[i])
      OBVIOUS
    <3>2. stack[i].kind = "value" /\ stack[i].step = "enter" /\ i = Len(stack) /\ Intact(stack[i])
      BY <2>1, <3>1 DEF Nesting, Alike
    <3>3. i = k
      BY <1>1, <3>2
    <3>4. Len(stack') # k + 1
      BY <1>1, <3>2, <3>3 DEF Nested
    <3>5. QED BY <1>1, <2>1, <3>1, <3>2, <3>3, <3>4 DEF Alike
  <2>6. stack'[i].kind = "load" /\ i < Len(stack') => stack'[i + 1].kind = "file"
    <3>1. SUFFICES ASSUME stack'[i].kind = "load", i < Len(stack') PROVE stack'[i + 1].kind = "file"
      OBVIOUS
    <3>2. stack[i].kind = "load"
      BY <2>1, <3>1 DEF Alike
    <3>3. CASE i < k
      <4>1. i < Len(stack) /\ i + 1 \in 1..k
        BY <1>1, <3>3
      <4>2. QED BY <1>1, <2>1, <3>2, <4>1 DEF Nesting, Alike
    <3>4. CASE i = k
      <4>1. Len(stack') = k + 1 /\ k > 0
        BY <1>1, <3>1, <3>4
      <4>2. QED BY <3>2, <3>4, <4>1 DEF Nested
    <3>5. QED BY <1>1, <3>3, <3>4
  <2>7. QED BY <2>2, <2>3, <2>4, <2>5, <2>6
<1>3. ASSUME NEW i, i = k + 1, Len(stack') = k + 1
      PROVE  /\ stack'[i].kind = "drain" => i = 1
             /\ stack'[i].kind = "file" => i > 1 /\ stack'[i - 1].kind = "load"
             /\ stack'[i].kind = "value" /\ stack'[i].step = "enter" => i = Len(stack') /\ Intact(stack'[i])
             /\ stack'[i].kind = "load" /\ i < Len(stack') => stack'[i + 1].kind = "file"
             /\ stack'[i].kind = "load" /\ stack'[i].step = "named" => stack'[i].fact # 0
  <2>1. i - 1 = k /\ ~(i < Len(stack'))
    BY <1>1, <1>3
  <2>2. stack'[i].kind = "file" => k \in 1..k /\ stack[k].kind = "load"
    BY <1>1, <1>3 DEF Nested
  <2>3. stack'[i].kind = "file" => i > 1 /\ stack'[i - 1].kind = "load"
    BY <1>1, <1>3, <2>1, <2>2 DEF Alike
  <2>4. QED BY <1>1, <1>3, <2>1, <2>3 DEF Nested
<1>4. lost' => stack' = <<>>
  BY DEF Nested
<1>5. QED BY <1>1, <1>2, <1>3, <1>4 DEF Nesting

LEMMA EmptyNests ==
  ASSUME stack' = <<>>
  PROVE  Nesting'
BY EmptySeq DEF Nesting

LEMMA DepthFacts ==
  ASSUME Types, Nesting, Depth > 0
  PROVE  /\ Depth \in Nat \ {0} /\ Depth = Len(stack) /\ Depth \in 1..Len(stack)
         /\ stack # <<>> /\ ~lost /\ stack[Depth] \in Frame
         /\ Depth - 1 \in Nat /\ (Depth - 1) + 1 = Depth
         /\ \A i \in 1..(Depth - 1) :
              /\ ~(stack[i].kind = "value" /\ stack[i].step = "enter")
              /\ stack[i].kind = "load" => stack[i + 1].kind = "file"
         /\ \A i \in 1..Len(stack) : i \in 1..(Depth - 1) \/ i = Depth
<1>1. Depth \in Nat /\ Depth = Len(stack)
  BY LenProperties DEF Depth, Types
<1>2. Depth \in 1..Len(stack) /\ Depth - 1 \in Nat /\ (Depth - 1) + 1 = Depth
  BY <1>1
<1>3. stack # <<>> /\ stack[Depth] \in Frame
  BY <1>1, <1>2, EmptySeq, ElementOfSeq DEF Types
<1>4. ASSUME NEW i \in 1..(Depth - 1)
      PROVE  /\ ~(stack[i].kind = "value" /\ stack[i].step = "enter")
             /\ stack[i].kind = "load" => stack[i + 1].kind = "file"
  <2>1. i \in 1..Len(stack) /\ i < Len(stack) /\ i # Len(stack)
    BY <1>1
  <2>2. QED BY <2>1 DEF Nesting
<1>5. QED BY <1>1, <1>2, <1>3, <1>4 DEF Nesting

\* Another call takes the place of the one on top, which is not a file.
LEMMA ReplacementNests ==
  ASSUME Types, Nesting, Depth > 0, Shape(Depth - 1), lost' = lost,
         Len(stack') = Depth => stack[Depth].kind # "file" /\
            \/ stack'[Depth].kind = "value" /\ (stack'[Depth].step = "enter" => Intact(stack'[Depth]))
            \/ stack'[Depth].kind = "load" /\ (stack'[Depth].step = "named" => stack'[Depth].fact # 0)
  PROVE  Nesting'
<1>1. /\ Depth \in Nat /\ Depth - 1 \in Nat /\ (Depth - 1) + 1 = Depth
      /\ stack[Depth] \in Frame /\ ~lost
      /\ Depth - 1 > 0 => Depth - 1 \in 1..(Depth - 1)
  BY DepthFacts
<1>2. Depth - 1 > 0 => /\ ~(stack[Depth - 1].kind = "value" /\ stack[Depth - 1].step = "enter")
                       /\ stack[Depth - 1].kind = "load" => stack[Depth].kind = "file"
  BY <1>1, DepthFacts
<1>3. Nested(Depth - 1)
  BY <1>1, <1>2 DEF Nested
<1>4. QED BY <1>3, NestingKept

LEMMA MovesNesting ==
  ASSUME Types, Nesting, Moves
  PROVE  Nesting'
<1>1. CASE Calls
  <2>1. Depth \in Nat /\ lost' = lost
    BY <1>1, LenProperties DEF Calls, Types, Depth
  <2>2. Depth > 0 => /\ ~(stack[Depth].kind = "value" /\ stack[Depth].step = "enter")
                     /\ stack[Depth].kind # "load"
    BY <1>1 DEF Calls, Loops
  <2>3. Nested(Depth)
    BY <1>1, <2>1, <2>2 DEF Nested, Calls, NewCall
  <2>4. Shape(Depth)
    BY <1>1 DEF Calls
  <2>5. QED BY <2>3, <2>4, NestingKept
<1>2. CASE Finds
  <2>1. Depth > 0 /\ stack[Depth].kind = "load" /\ Shape(Depth) /\ lost' = lost
    BY <1>2 DEF Finds
  <2>2. Len(stack') = Depth \/ stack'[Depth + 1].kind = "file"
    BY <1>2 DEF Finds
  <2>3. Depth \in Nat /\ ~lost
    BY <2>1, DepthFacts
  <2>4. Nested(Depth)
    BY <2>1, <2>2, <2>3 DEF Nested
  <2>5. QED BY <2>1, <2>4, NestingKept
<1>3. CASE Fetches
  BY <1>3, ReplacementNests DEF Fetches
<1>4. CASE LoadEnds
  BY <1>4, ReplacementNests DEF LoadEnds, NewCall
<1>5. CASE Loses \/ DrainEnds
  BY <1>5, EmptyNests DEF Loses, DrainEnds
<1>6. CASE EntersLoop
  BY <1>6, ReplacementNests DEF EntersLoop
<1>7. CASE Walks \/ \E r \in Resolution : Extends(r)
  <2>1. Depth > 0 /\ Shape(Depth) /\ Len(stack') = Depth /\ lost' = lost
    BY <1>7 DEF Walks, Extends
  <2>2. Nested(Depth)
    BY <2>1, DepthFacts DEF Nested
  <2>3. QED BY <2>1, <2>2, NestingKept
<1>8. CASE Returns
  <2>1. Depth > 0 /\ Shape(Depth - 1) /\ Len(stack') = Depth - 1 /\ lost' = lost
    BY <1>8 DEF Returns
  <2>2. Len(stack') # Depth
    BY <2>1, DepthFacts
  <2>3. QED BY <2>1, <2>2, ReplacementNests
<1>9. ASSUME NEW k \in Nat, Shape(k), Len(stack') = k, k < Depth, lost' = lost PROVE Nesting'
  <2>1. Depth > 0 /\ Depth \in Nat
    BY <1>9, Below
  <2>2. ~lost
    BY <2>1, DepthFacts
  <2>3. Nested(k)
    BY <1>9, <2>2 DEF Nested
  <2>4. QED BY <1>9, <2>3, NestingKept
<1>10. ASSUME NEW k \in Nat, NEW v \in Value, Gives(k, v) PROVE Nesting'
  <2>1. k < Depth
    BY <1>10, EndingFacts DEF Gives, Ending
  <2>2. QED BY <1>9, <1>10, <2>1 DEF Gives
<1>11. ASSUME NEW k \in Nat, Breaks(k) PROVE Nesting'
  <2>1. k < Depth
    BY <1>11, EndingFacts DEF Breaks, Ending
  <2>2. QED BY <1>9, <1>11, <2>1 DEF Breaks
<1>12. CASE Drains
  <2>1. /\ Len(stack') = 2 /\ stack'[1].kind = "drain" /\ stack'[2].kind = "load"
        /\ stack'[2].step = "all" /\ lost' = FALSE
    BY <1>12 DEF Drains
  <2>2. \A i \in 1..Len(stack') : i = 1 \/ i = 2
    BY <2>1
  <2>3. QED BY <2>1, <2>2 DEF Nesting
<1>13. CASE Flush \/ Reset
  <2>1. stack' = <<>>
    BY <1>13 DEF Flush, Reset, Idle
  <2>2. QED BY <2>1, EmptyNests
<1>14. QED BY <1>1, <1>2, <1>3, <1>4, <1>5, <1>6, <1>7, <1>8, <1>10, <1>11, <1>12, <1>13 DEF Moves

-----------------------------------------------------------------------------
(* The resolving marks                                                     *)

\* The frame evaluates the resolutions of its fact.
IsLoop(f) == f.kind = "value" /\ f.step # "enter"

\* A fact that is evaluated by one of the outermost calls still is.
LEMMA LoopsKept ==
  ASSUME Types, NEW k, Shape(k)
  PROVE  \A i \in 1..k :
           /\ Loops(i)' <=> Loops(i)
           /\ Loops(i) => stack'[i].fact = stack[i].fact
BY Below DEF Alike, Loops

LEMMA MarksKept ==
  ASSUME Types, Marks, NEW k, Shape(k), lost' = lost,
         Len(stack') = k + 1 => ~IsLoop(stack'[k + 1]),
         \A i \in 1..k : Loops(i) => stack[i].fact \in resolving',
         ~lost => \A n \in resolving' : \E i \in 1..k : Loops(i) /\ stack[i].fact = n
  PROVE  Marks'
<1>1. \A i \in 1..k : /\ Loops(i)' <=> Loops(i)
                      /\ Loops(i) => stack'[i].fact = stack[i].fact
                      /\ i \in 1..Len(stack) /\ i \in 1..Len(stack')
  BY LoopsKept, Below
<1>2. \A i \in 1..Len(stack') : Loops(i)' => i \in 1..k
  BY Below DEF Loops, IsLoop
<1>3. \A i \in 1..Len(stack') : Loops(i)' => stack'[i].fact \in resolving'
  BY <1>1, <1>2
<1>4. \A i, j \in 1..Len(stack') :
         Loops(i)' /\ Loops(j)' /\ stack'[i].fact = stack'[j].fact => i = j
  BY <1>1, <1>2 DEF Marks
<1>5. ~lost => \A n \in resolving' : \E i \in 1..Len(stack') : Loops(i)' /\ stack'[i].fact = n
  BY <1>1
<1>6. QED BY <1>3, <1>4, <1>5 DEF Marks, Loops

\* No loop begins or ends.
LEMMA NoLoopMarks ==
  ASSUME Types, Marks, NEW k, Shape(k), lost' = lost, resolving' = resolving,
         Len(stack') = k + 1 => ~IsLoop(stack'[k + 1]),
         \A i \in 1..Len(stack) : Loops(i) => i \in 1..k
  PROVE  Marks'
<1>1. \A i \in 1..k : i \in 1..Len(stack)
  BY Below
<1>2. \A i \in 1..k : Loops(i) => stack[i].fact \in resolving'
  BY <1>1 DEF Marks
<1>3. ~lost => \A n \in resolving' : \E i \in 1..k : Loops(i) /\ stack[i].fact = n
  BY DEF Marks
<1>4. QED BY <1>2, <1>3, MarksKept

\* The frame that is looked at begins with the call.
LEMMA NewIsNoLoop ==
  ASSUME NEW k, NewCall(stack'[k])
  PROVE  ~IsLoop(stack'[k])
BY DEF NewCall, IsLoop

LEMMA MovesMarks ==
  ASSUME Types, Nesting, Marks, Moves
  PROVE  Marks'
<1>1. CASE Calls
  <2>1. Shape(Depth) /\ lost' = lost /\ resolving' = resolving /\ ~IsLoop(stack'[Depth + 1])
    BY <1>1, NewIsNoLoop DEF Calls
  <2>2. QED BY <2>1, NoLoopMarks DEF Depth
<1>2. CASE Finds
  <2>1. Shape(Depth) /\ lost' = lost /\ resolving' = resolving
    BY <1>2 DEF Finds
  <2>2. Len(stack') = Depth \/ stack'[Depth + 1].kind = "file"
    BY <1>2 DEF Finds
  <2>3. Depth \in Nat
    BY <2>1, Below
  <2>4. Len(stack') = Depth + 1 => ~IsLoop(stack'[Depth + 1])
    BY <2>2, <2>3 DEF IsLoop
  <2>5. QED BY <2>1, <2>4, NoLoopMarks DEF Depth
<1>3. CASE Fetches \/ LoadEnds \/ Returns
  <2>1. /\ Depth > 0 /\ Shape(Depth - 1) /\ lost' = lost /\ resolving' = resolving
        /\ ~Loops(Depth)
    BY <1>3 DEF Fetches, LoadEnds, Returns, Loops
  <2>2. /\ (Depth - 1) + 1 = Depth
        /\ \A i \in 1..Len(stack) : i \in 1..(Depth - 1) \/ i = Depth
    BY <2>1, DepthFacts
  <2>3. Len(stack') = Depth => ~IsLoop(stack'[Depth])
    <3>1. CASE Fetches
      BY <3>1 DEF Fetches, IsLoop
    <3>2. CASE LoadEnds
      BY <3>2, NewIsNoLoop DEF LoadEnds
    <3>3. CASE Returns
      BY <3>3, <2>1, DepthFacts DEF Returns
    <3>4. QED BY <1>3, <3>1, <3>2, <3>3
  <2>4. QED BY <2>1, <2>2, <2>3, NoLoopMarks
<1>4. CASE Walks \/ \E r \in Resolution : Extends(r)
  <2>1. Depth > 0 /\ Shape(Depth) /\ Len(stack') = Depth /\ lost' = lost /\ resolving' = resolving
    BY <1>4 DEF Walks, Extends
  <2>2. Len(stack') # Depth + 1
    BY <2>1, DepthFacts
  <2>3. QED BY <2>1, <2>2, NoLoopMarks DEF Depth
<1>5. CASE EntersLoop
  <2> DEFINE d == Depth
             n == stack[d].fact
  <2>1. /\ d > 0 /\ Shape(d - 1) /\ lost' = lost /\ Len(stack') = d
        /\ n \notin resolving /\ resolving' = resolving \cup {n}
        /\ IsLoop(stack'[d]) /\ stack'[d].fact = n /\ ~Loops(d)
    BY <1>5 DEF EntersLoop, Loops, IsLoop
  <2>2. /\ (d - 1) + 1 = d /\ d \in Nat /\ ~lost
        /\ \A i \in 1..Len(stack) : i \in 1..(d - 1) \/ i = d
    BY <2>1, DepthFacts
  <2>3. \A i \in 1..(d - 1) : /\ IsLoop(stack'[i]) <=> Loops(i)
                              /\ Loops(i) => stack'[i].fact = stack[i].fact
                              /\ i \in 1..Len(stack) /\ i \in 1..Len(stack')
    BY <2>1, LoopsKept, Below DEF Loops, IsLoop
  <2>4. \A i \in 1..Len(stack') : i \in 1..(d - 1) \/ i = d
    BY <2>1, <2>2
  <2>5. d \in 1..Len(stack')
    BY <2>1, <2>2
  <2> HIDE DEF d, n
  <2>6. \A i \in 1..(d - 1) : IsLoop(stack'[i]) => stack'[i].fact \in resolving /\ stack'[i].fact # n
    BY <2>1, <2>3 DEF Marks
  <2>7. \A i \in 1..Len(stack') : IsLoop(stack'[i]) => stack'[i].fact \in resolving'
    BY <2>1, <2>4, <2>6
  <2>8. \A i, j \in 1..Len(stack') :
          IsLoop(stack'[i]) /\ IsLoop(stack'[j]) /\ stack'[i].fact = stack'[j].fact => i = j
    <3>1. \A i, j \in 1..(d - 1) :
            IsLoop(stack'[i]) /\ IsLoop(stack'[j]) /\ stack'[i].fact = stack'[j].fact => i = j
      BY <2>3 DEF Marks
    <3>2. QED BY <2>1, <2>4, <2>6, <3>1
  <2>9. \A m \in resolving' : \E i \in 1..Len(stack') : IsLoop(stack'[i]) /\ stack'[i].fact = m
    <3>1. ASSUME NEW m \in resolving PROVE \E i \in 1..Len(stack') : IsLoop(stack'[i]) /\ stack'[i].fact = m
      <4>1. PICK i \in 1..Len(stack) : Loops(i) /\ stack[i].fact = m
        BY <2>2 DEF Marks
      <4>2. QED BY <2>1, <2>2, <2>3, <4>1
    <3>2. QED BY <2>1, <2>5, <3>1
  <2>10. QED BY <2>7, <2>8, <2>9 DEF Marks, Loops, IsLoop
<1>6. CASE Loses \/ DrainEnds
  <2>1. Len(stack') = 0 /\ resolving' = resolving
    BY <1>6, EmptySeq DEF Loses, DrainEnds
  <2>2. CASE Loses
    BY <2>1, <2>2 DEF Marks, Loops, Loses
  <2>3. CASE DrainEnds
    <3>1. \A i \in 1..Len(stack) : ~Loops(i)
      BY <2>3 DEF DrainEnds, Loops, Depth
    <3>2. lost' = lost
      BY <2>3 DEF DrainEnds
    <3>3. QED BY <2>1, <3>1, <3>2 DEF Marks
  <2>4. QED BY <1>6, <2>2, <2>3
<1>7. ASSUME NEW k \in Nat, NEW v \in Value, Gives(k, v) PROVE Marks'
  <2> DEFINE n == stack[k + 1].fact
  <2>1. /\ Ending(k) /\ Shape(k) /\ Len(stack') = k /\ stack[k + 1].kind = "value"
        /\ lost' = lost /\ resolving' = resolving \ {n}
        /\ stack[k + 1].step = "enter" => n \notin resolving
    BY <1>7 DEF Gives
  <2>2. /\ \A i \in 1..Len(stack) : Loops(i) => i \in 1..k \/ i = k + 1
        /\ k + 1 \in 1..Len(stack) /\ Len(stack') # k + 1
    BY <2>1, EndingFacts DEF Loops
  <2>3. \A i \in 1..k : i \in 1..Len(stack) /\ i # k + 1
    BY <2>1, Below
  <2>4. ASSUME NEW i \in 1..k, Loops(i) PROVE stack[i].fact \in resolving /\ stack[i].fact # n
    <3>1. stack[i].fact \in resolving
      BY <2>3, <2>4 DEF Marks
    <3>2. CASE stack[k + 1].step = "enter"
      BY <2>1, <3>1, <3>2
    <3>3. CASE stack[k + 1].step # "enter"
      <4>1. Loops(k + 1)
        BY <2>1, <3>3 DEF Loops
      <4>2. QED BY <2>2, <2>3, <2>4, <3>1, <4>1 DEF Marks
    <3>4. QED BY <3>2, <3>3
  <2>5. ~lost => \A m \in resolving' : \E i \in 1..k : Loops(i) /\ stack[i].fact = m
    <3>1. ASSUME ~lost, NEW m \in resolving, m # n
          PROVE  \E i \in 1..k : Loops(i) /\ stack[i].fact = m
      <4>1. PICK i \in 1..Len(stack) : Loops(i) /\ stack[i].fact = m
        BY <3>1 DEF Marks
      <4>2. QED BY <2>2, <3>1, <4>1
    <3>2. QED BY <2>1, <3>1
  <2> HIDE DEF n
  <2>6. QED BY <2>1, <2>2, <2>4, <2>5, MarksKept
<1>8. ASSUME NEW k \in Nat, Breaks(k) PROVE Marks'
  <2>1. /\ Ending(k) /\ Shape(k) /\ Len(stack') = k /\ stack[k + 1].kind = "file"
        /\ lost' = lost /\ resolving' = resolving
    BY <1>8 DEF Breaks
  <2>2. \A i \in 1..Len(stack) : Loops(i) => i \in 1..k
    BY <2>1, EndingFacts DEF Loops
  <2>3. QED BY <2>1, <2>2, NoLoopMarks
<1>9. CASE Drains
  <2>1. stack = <<>> /\ Len(stack) = 0 /\ ~lost /\ resolving' = resolving
    BY <1>9, EmptySeq DEF Drains
  <2>2. resolving' = {}
    BY <2>1 DEF Marks
  <2>3. /\ Len(stack') = 2 /\ stack'[1].kind = "drain" /\ stack'[2].kind = "load"
    BY <1>9 DEF Drains
  <2>4. \A i \in 1..Len(stack') : ~Loops(i)'
    <3>1. \A i \in 1..Len(stack') : i = 1 \/ i = 2
      BY <2>3
    <3>2. QED BY <2>3, <3>1 DEF Loops
  <2>5. QED BY <2>2, <2>4 DEF Marks, Loops
<1>10. CASE Flush \/ Reset
  <2>1. stack' = stack /\ lost' = lost /\ resolving' = resolving
    BY <1>10 DEF Flush, Reset
  <2>2. QED BY <2>1 DEF Marks, Loops
<1>11. QED BY <1>1, <1>2, <1>3, <1>4, <1>5, <1>6, <1>7, <1>8, <1>9, <1>10 DEF Moves

\* The part of the invariant the others lean on.
Core == Types /\ Nesting /\ Marks

LEMMA CoreHolds == Spec => []Core
<1>1. Init => Core
  <2> SUFFICES ASSUME Init PROVE Core
    OBVIOUS
  <2>1. Len(stack) = 0 /\ stack = <<>>
    BY EmptySeq DEF Init
  <2>2. [n \in Fact |-> Nil] \in [Fact -> Value] /\ [n \in Fact |-> <<>>] \in [Fact -> Seq(Object)]
    BY ValueTypes, EmptySeq
  <2>3. 0 \in 0..MaxFlushes
    BY CustomFactsAssumption
  <2>4. Types
    BY <2>2, <2>3, EmptySeq DEF Init, Types
  <2>5. Nesting /\ Marks
    BY <2>1 DEF Init, Nesting, Marks
  <2>6. QED BY <2>4, <2>5 DEF Core
<1>2. Core /\ [Next]_vars => Core'
  <2>1. ASSUME Core, Next PROVE Core'
    BY <2>1, NextMoves, MovesTypes, MovesNesting, MovesMarks DEF Core
  <2>2. ASSUME Core, UNCHANGED vars PROVE Core'
    BY <2>2 DEF Core, Types, Nesting, Marks, Loops, vars, world
  <2>3. QED BY <2>1, <2>2
<1>3. QED BY <1>1, <1>2, PTL DEF Spec

\* Whatever was rescued on the way, a fact is marked exactly while one call evaluates it.
LEMMA MarksMatch ==
  ASSUME Types, Marks
  PROVE  ResolvingMatchesStack
<1> SUFFICES ASSUME ~lost, NEW n \in Fact
             PROVE  Cardinality(Evaluating(n)) = IF n \in resolving THEN 1 ELSE 0
  BY DEF ResolvingMatchesStack
<1>1. Evaluating(n) = {i \in 1..Len(stack) : Loops(i) /\ stack[i].fact = n}
  BY DEF Evaluating, Loops
<1>2. CASE n \in resolving
  <2>1. PICK i \in 1..Len(stack) : Loops(i) /\ stack[i].fact = n
    BY <1>2 DEF Marks
  <2>2. Evaluating(n) = {i}
    BY <1>1, <2>1 DEF Marks
  <2>3. QED BY <1>2, <2>2, FS_Singleton
<1>3. CASE n \notin resolving
  <2>1. Evaluating(n) = {}
    BY <1>1, <1>3 DEF Marks
  <2>2. QED BY <1>3, <2>1, FS_EmptySet
<1>4. QED BY <1>2, <1>3

\* Every variable keeps its type, and _resolving (fact.cc:64, 79, 129) is set exactly
\* while the resolutions of the fact are evaluated: no fact is evaluated within its own
\* evaluation, whichever exceptions were rescued on the way.
THEOREM TypeCorrect == Spec => []TypeOK
<1>1. Core => TypeOK
  BY MarksMatch DEF Core, TypeOK
<1>2. QED BY CoreHolds, <1>1, PTL

-----------------------------------------------------------------------------
(* What the facts and the collection answer                                *)

\* A frame that asks a known fact.
Known(f) == f.kind = "value" => f.fact \in defined'

LEMMA KnownKept ==
  ASSUME Types, KnownFacts, defined \subseteq defined', NEW k, Shape(k),
         Len(stack') = k + 1 => Known(stack'[k + 1])
  PROVE  \A i \in 1..Len(stack') : stack'[i].kind = "value" => stack'[i].fact \in defined'
<1>1. \A i \in 1..k : i \in 1..Len(stack) /\ Alike(stack[i], stack'[i])
  BY Below
<1>2. \A i \in 1..k : stack'[i].kind = "value" => stack'[i].fact \in defined'
  BY <1>1 DEF KnownFacts, Alike
<1>3. QED BY <1>2, Below DEF Known

\* What is filled is filled from nothing.
LEMMA FillsKnown ==
  ASSUME Types, KnownFacts, Fills
  PROVE  /\ defined \subseteq defined'
         /\ ~populated' => /\ defined' = {} /\ resolved' = {}
                           /\ \A n \in Fact : collection'[n] = Nil /\ value'[n] = Nil
BY DEF Types, KnownFacts, Fills

LEMMA MovesKnown ==
  ASSUME Core, KnownFacts, Moves
  PROVE  KnownFacts'
<1> USE DEF Core
<1>1. CASE Calls \/ Finds \/ Walks
  <2>1. /\ Shape(Depth) /\ Depth \in Nat
        /\ defined' = defined /\ UNCHANGED <<populated, resolved, collection, value>>
    BY <1>1, Below DEF Calls, Finds, Walks, world
  <2>2. Len(stack') = Depth + 1 => Known(stack'[Depth + 1])
    <3>1. CASE Calls
      BY <3>1 DEF Calls, NewCall, Known, world
    <3>2. CASE Finds
      BY <3>2, <2>1 DEF Finds, Known
    <3>3. CASE Walks
      BY <3>3, <2>1 DEF Walks
    <3>4. QED BY <1>1, <3>1, <3>2, <3>3
  <2>3. QED BY <2>1, <2>2, KnownKept DEF KnownFacts
<1>2. CASE Fetches
  <2>1. Shape(Depth - 1) /\ Fills /\ (Depth - 1) + 1 = Depth
    BY <1>2, DepthFacts DEF Fetches
  <2>2. Known(stack'[Depth])
    BY <1>2 DEF Fetches, Known
  <2>3. QED BY <2>1, <2>2, KnownKept, FillsKnown DEF KnownFacts
<1>3. CASE LoadEnds \/ EntersLoop \/ Returns
  <2>1. /\ Shape(Depth - 1) /\ (Depth - 1) + 1 = Depth /\ Depth \in 1..Len(stack) /\ Depth > 0
        /\ defined' = defined /\ UNCHANGED <<populated, resolved, collection, value>>
    BY <1>3, DepthFacts DEF LoadEnds, EntersLoop, Returns, world
  <2>2. Len(stack') = Depth => Known(stack'[Depth])
    <3>1. CASE LoadEnds
      BY <3>1, <2>1 DEF LoadEnds, NewCall, Known
    <3>2. CASE EntersLoop
      BY <3>2, <2>1 DEF EntersLoop, Known, KnownFacts
    <3>3. CASE Returns
      BY <3>3, <2>1, DepthFacts DEF Returns
    <3>4. QED BY <1>3, <3>1, <3>2, <3>3
  <2>3. QED BY <2>1, <2>2, KnownKept DEF KnownFacts
<1>4. ASSUME NEW r \in Resolution, Extends(r) PROVE KnownFacts'
  <2>1. Shape(Depth) /\ Fills /\ Len(stack') = Depth /\ Depth \in Nat
    BY <1>4, Below DEF Extends
  <2>2. Len(stack') # Depth + 1
    BY <2>1
  <2>3. QED BY <2>1, <2>2, KnownKept, FillsKnown DEF KnownFacts
<1>5. ASSUME NEW k \in Nat, NEW v \in Value, Gives(k, v) PROVE KnownFacts'
  <2>1. /\ Shape(k) /\ Len(stack') = k /\ stack[k + 1].kind = "value" /\ k + 1 \in 1..Len(stack)
        /\ defined' = defined /\ populated' = populated
    BY <1>5, EndingFacts DEF Gives
  <2>2. populated
    BY <2>1 DEF KnownFacts
  <2>3. Len(stack') # k + 1
    BY <2>1
  <2>4. QED BY <2>1, <2>2, <2>3, KnownKept DEF KnownFacts
<1>6. ASSUME NEW k \in Nat, Breaks(k) PROVE KnownFacts'
  <2>1. /\ Shape(k) /\ Len(stack') = k /\ Len(stack') # k + 1
        /\ defined' = defined /\ UNCHANGED <<populated, resolved, collection, value>>
    BY <1>6 DEF Breaks, world
  <2>2. QED BY <2>1, KnownKept DEF KnownFacts
<1>7. CASE Loses \/ DrainEnds
  <2>1. Len(stack') = 0 /\ UNCHANGED <<defined, populated, resolved, collection, value>>
    BY <1>7, EmptySeq DEF Loses, DrainEnds, world
  <2>2. QED BY <2>1 DEF KnownFacts
<1>8. CASE Drains
  <2>1. Fills /\ Len(stack') = 2 /\ stack'[1].kind = "drain" /\ stack'[2].kind = "load"
    BY <1>8 DEF Drains
  <2>2. \A i \in 1..Len(stack') : i = 1 \/ i = 2
    BY <2>1
  <2>3. QED BY <2>1, <2>2, FillsKnown DEF KnownFacts
<1>9. CASE Flush
  <2>1. Len(stack') = 0
    BY <1>9, EmptySeq DEF Flush, Idle
  <2>2. QED BY <1>9, <2>1 DEF KnownFacts, Flush
<1>10. CASE Reset
  <2>1. Len(stack') = 0
    BY <1>10, EmptySeq DEF Reset, Idle
  <2>2. QED BY <1>10, <2>1 DEF KnownFacts, Reset
<1>11. QED BY <1>1, <1>2, <1>3, <1>4, <1>5, <1>6, <1>7, <1>8, <1>9, <1>10 DEF Moves

LEMMA MovesAgree ==
  ASSUME Core, KnownFacts, AnswersAgree, Moves
  PROVE  AnswersAgree'
<1> USE DEF Core
<1>1. CASE UNCHANGED <<resolved, collection, value>>
  BY <1>1 DEF AnswersAgree
<1>2. CASE Fills
  <2>1. CASE populated = FALSE /\ collection' = FilledCollection /\ value' = FilledValue
             /\ resolved' = resolved \cup FromEnvironment
    BY <2>1 DEF AnswersAgree, KnownFacts, FilledCollection, FilledValue
  <2>2. QED BY <1>1, <1>2, <2>1 DEF Fills
<1>3. ASSUME NEW k \in Nat, NEW v \in Value, Gives(k, v) PROVE AnswersAgree'
  <2>1. PICK n \in Fact :
           /\ value' = [value EXCEPT ![n] = v]
           /\ collection' = [collection EXCEPT ![n] = v]
           /\ resolved' \subseteq resolved \cup {n}
    BY <1>3 DEF Gives
  <2>2. QED BY <2>1 DEF AnswersAgree, Types
<1>4. CASE Flush
  BY <1>4 DEF AnswersAgree, Flush
<1>5. CASE Reset
  BY <1>5 DEF AnswersAgree, Reset
<1>6. CASE \/ Calls \/ Finds \/ LoadEnds \/ Walks \/ Loses \/ EntersLoop \/ Returns \/ DrainEnds
           \/ \E k \in Nat : Breaks(k)
  BY <1>1, <1>6 DEF Calls, Finds, LoadEnds, Walks, Loses, EntersLoop, Returns, DrainEnds, Breaks, world
<1>7. CASE Fetches \/ Drains \/ \E r \in Resolution : Extends(r)
  BY <1>2, <1>7 DEF Fetches, Drains, Extends
<1>8. QED BY <1>3, <1>4, <1>5, <1>6, <1>7 DEF Moves

Knows == Core /\ KnownFacts /\ AnswersAgree

LEMMA KnowsHolds == Spec => []Knows
<1>1. Init => KnownFacts /\ AnswersAgree
  BY EmptySeq DEF Init, KnownFacts, AnswersAgree
<1>2. Core /\ KnownFacts /\ AnswersAgree /\ [Next]_vars => (KnownFacts /\ AnswersAgree)'
  <2>1. ASSUME Core, KnownFacts, AnswersAgree, Next PROVE (KnownFacts /\ AnswersAgree)'
    BY <2>1, NextMoves, MovesKnown, MovesAgree DEF Core
  <2>2. ASSUME KnownFacts, AnswersAgree, UNCHANGED vars PROVE (KnownFacts /\ AnswersAgree)'
    BY <2>2 DEF KnownFacts, AnswersAgree, vars, world
  <2>3. QED BY <2>1, <2>2
<1>3. QED BY <1>1, <1>2, CoreHolds, PTL DEF Spec, Knows

\* Facter.value, Facter.to_hash and the output agree (fact.cc:125-127, module.cc:336):
\* what a fact answers is what the collection answers for its name, also after nil,
\* which removes the name.
THEOREM AnswersAgreeCorrect == Spec => []AnswersAgree
<1>1. Knows => AnswersAgree
  BY DEF Knows
<1>2. QED BY KnowsHolds, <1>1, PTL

\* A fact that is asked is known, so the collection has been filled.
LEMMA AskedIsFilled ==
  ASSUME Core, KnownFacts, NEW i \in 1..Len(stack), stack[i].kind = "value"
  PROVE  populated
BY DEF KnownFacts

LEMMA EnvironmentLoops ==
  ASSUME Types, EnvironmentKept, generation = 0, NEW k, Shape(k),
         Len(stack') = k + 1 /\ IsLoop(stack'[k + 1]) => stack'[k + 1].fact \notin FromEnvironment
  PROVE  \A i \in 1..Len(stack') : Loops(i)' => stack'[i].fact \notin FromEnvironment
<1>1. \A i \in 1..k : i \in 1..Len(stack)
  BY Below
<1>2. \A i \in 1..k : Loops(i)' => stack'[i].fact \notin FromEnvironment
  BY <1>1, LoopsKept DEF EnvironmentKept
<1>3. QED BY <1>2, Below DEF Loops, IsLoop

LEMMA MovesEnvironment ==
  ASSUME Core, KnownFacts, EnvironmentKept, Moves
  PROVE  EnvironmentKept'
<1> USE DEF Core
<1> DEFINE Kept == populated => \A n \in FromEnvironment :
                     n \in resolved /\ value[n] = Environment /\ collection[n] = Environment
           Off == \A i \in 1..Len(stack) : Loops(i) => stack[i].fact \notin FromEnvironment
<1>1. FromEnvironment \subseteq Fact
  BY CustomFactsAssumption
<1>2. ASSUME generation' = 0, Moves PROVE generation = 0 /\ Kept
  <2>1. generation' # 0 \/ generation' = generation
    <3>1. CASE Flush
      <4>1. generation \in Nat /\ generation' = generation + 1
        BY <3>1, CustomFactsAssumption DEF Flush, Types
      <4>2. QED BY <4>1
    <3>2. CASE Calls \/ Finds \/ Fetches \/ LoadEnds
      BY <3>2 DEF Calls, Finds, Fetches, LoadEnds
    <3>3. CASE Walks \/ Loses \/ EntersLoop \/ Returns
      BY <3>3 DEF Walks, Loses, EntersLoop, Returns
    <3>4. CASE \E r \in Resolution : Extends(r)
      BY <3>4 DEF Extends
    <3>5. CASE \E k \in Nat : \E v \in Value : Gives(k, v)
      BY <3>5 DEF Gives
    <3>6. CASE (\E k \in Nat : Breaks(k)) \/ Drains \/ DrainEnds
      BY <3>6 DEF Breaks, Drains, DrainEnds
    <3>7. CASE Reset
      BY <3>7, <1>2 DEF Reset
    <3>8. QED
      BY <1>2, <3>1, <3>2, <3>3, <3>4, <3>5, <3>6, <3>7 DEF Moves
  <2>2. QED BY <1>2, <2>1 DEF EnvironmentKept
<1>3. ASSUME generation' = 0, Fills PROVE Kept'
  <2>1. Kept
    BY <1>2, <1>3
  <2>2. CASE populated = FALSE /\ collection' = FilledCollection /\ value' = FilledValue
             /\ resolved' = resolved \cup FromEnvironment
    BY <1>1, <2>2 DEF FilledCollection, FilledValue
  <2>3. QED BY <1>3, <2>1, <2>2 DEF Fills
<1>4. ASSUME generation' = 0, UNCHANGED <<populated, resolved, value, collection>> PROVE Kept'
  BY <1>2, <1>4
<1>5. ASSUME generation' = 0, stack' = <<>> PROVE Off'
  BY <1>5, EmptySeq
<1>6. CASE Calls \/ Finds \/ Walks \/ \E r \in Resolution : Extends(r)
  <2>1. Shape(Depth) /\ Depth \in Nat
    BY <1>6, Below DEF Calls, Finds, Walks, Extends
  <2>2. Len(stack') = Depth + 1 => ~IsLoop(stack'[Depth + 1])
    <3>1. CASE Calls
      BY <3>1, NewIsNoLoop DEF Calls
    <3>2. CASE Finds
      BY <3>2, <2>1 DEF Finds, IsLoop
    <3>3. CASE Walks \/ \E r \in Resolution : Extends(r)
      BY <3>3, <2>1 DEF Walks, Extends
    <3>4. QED BY <1>6, <3>1, <3>2, <3>3
  <2>3. generation' = 0 => Off'
    BY <1>2, <2>1, <2>2, EnvironmentLoops
  <2>4. generation' = 0 => Kept'
    BY <1>3, <1>4, <1>6 DEF Calls, Finds, Walks, Extends, world
  <2>5. QED BY <2>3, <2>4 DEF EnvironmentKept
<1>7. CASE Fetches \/ LoadEnds \/ Returns
  <2>1. Shape(Depth - 1) /\ Depth > 0 /\ (Depth - 1) + 1 = Depth /\ Depth - 1 # Depth
    BY <1>7, DepthFacts DEF Fetches, LoadEnds, Returns
  <2>2. Len(stack') = Depth => ~IsLoop(stack'[Depth])
    <3>1. CASE Fetches
      BY <3>1 DEF Fetches, IsLoop
    <3>2. CASE LoadEnds
      BY <3>2, NewIsNoLoop DEF LoadEnds
    <3>3. CASE Returns
      BY <3>3, <2>1 DEF Returns
    <3>4. QED BY <1>7, <3>1, <3>2, <3>3
  <2>3. generation' = 0 => Off'
    BY <1>2, <2>1, <2>2, EnvironmentLoops
  <2>4. generation' = 0 => Kept'
    BY <1>3, <1>4, <1>7 DEF Fetches, LoadEnds, Returns, world
  <2>5. QED BY <2>3, <2>4 DEF EnvironmentKept
<1>8. CASE EntersLoop
  <2>1. /\ Shape(Depth - 1) /\ Depth > 0 /\ (Depth - 1) + 1 = Depth
        /\ stack[Depth].kind = "value" /\ stack[Depth].fact \notin resolved
        /\ stack'[Depth].fact = stack[Depth].fact /\ Depth \in 1..Len(stack)
    BY <1>8, DepthFacts DEF EntersLoop
  <2>2. populated
    BY <2>1, AskedIsFilled
  <2>3. generation' = 0 => stack'[Depth].fact \notin FromEnvironment
    BY <1>2, <2>1, <2>2
  <2>4. generation' = 0 => Off'
    BY <1>2, <2>1, <2>3, EnvironmentLoops
  <2>5. generation' = 0 => Kept'
    BY <1>4, <1>8 DEF EntersLoop
  <2>6. QED BY <2>4, <2>5 DEF EnvironmentKept
<1>9. ASSUME NEW k \in Nat, NEW v \in Value, Gives(k, v) PROVE EnvironmentKept'
  <2>1. /\ Shape(k) /\ Len(stack') = k /\ Len(stack') # k + 1 /\ k + 1 \in 1..Len(stack)
        /\ stack[k + 1].kind = "value" /\ populated' = populated
        /\ stack[k + 1].step = "enter" => stack[k + 1].fact \notin resolved
        /\ value' = [value EXCEPT ![stack[k + 1].fact] = v]
        /\ collection' = [collection EXCEPT ![stack[k + 1].fact] = v]
        /\ resolved \subseteq resolved'
    BY <1>9, EndingFacts DEF Gives
  <2>2. populated
    BY <2>1, AskedIsFilled
  <2>3. generation' = 0 => stack[k + 1].fact \notin FromEnvironment
    <3>1. CASE stack[k + 1].step = "enter"
      BY <1>2, <2>1, <2>2, <3>1
    <3>2. CASE stack[k + 1].step # "enter"
      BY <1>2, <2>1, <3>2 DEF EnvironmentKept, Loops
    <3>3. QED BY <3>1, <3>2
  <2>4. generation' = 0 => Off'
    BY <1>2, <2>1, EnvironmentLoops
  <2>5. generation' = 0 => Kept'
    BY <1>1, <1>2, <2>1, <2>3 DEF Types
  <2>6. QED BY <2>4, <2>5 DEF EnvironmentKept
<1>10. ASSUME NEW k \in Nat, Breaks(k) PROVE EnvironmentKept'
  <2>1. Shape(k) /\ Len(stack') = k /\ Len(stack') # k + 1
    BY <1>10 DEF Breaks
  <2>2. generation' = 0 => Off'
    BY <1>2, <2>1, EnvironmentLoops
  <2>3. generation' = 0 => Kept'
    BY <1>4, <1>10 DEF Breaks, world
  <2>4. QED BY <2>2, <2>3 DEF EnvironmentKept
<1>11. CASE Loses \/ DrainEnds
  BY <1>4, <1>5, <1>11 DEF EnvironmentKept, Loses, DrainEnds, world
<1>12. CASE Drains
  <2>1. Fills /\ Len(stack') = 2 /\ stack'[1].kind = "drain" /\ stack'[2].kind = "load"
    BY <1>12 DEF Drains
  <2>2. \A i \in 1..Len(stack') : ~Loops(i)'
    <3>1. \A i \in 1..Len(stack') : i = 1 \/ i = 2
      BY <2>1
    <3>2. QED BY <2>1, <3>1 DEF Loops
  <2>3. QED BY <1>3, <2>1, <2>2 DEF EnvironmentKept
<1>13. CASE Flush
  <2>1. generation' # 0
    BY <1>13 DEF Flush, Types
  <2>2. QED BY <2>1 DEF EnvironmentKept
<1>14. CASE Reset
  <2>1. populated' = FALSE /\ stack' = <<>>
    BY <1>14 DEF Reset, Idle
  <2>2. QED BY <1>5, <2>1 DEF EnvironmentKept
<1>15. QED BY <1>6, <1>7, <1>8, <1>9, <1>10, <1>11, <1>12, <1>13, <1>14 DEF Moves

\* "We honor environment variables above custom fact resolutions" (module.cc:335),
\* until the facts are flushed, whatever is defined for the fact, however heavy it is and
\* whoever asks for it.
THEOREM EnvironmentWinsCorrect == Spec => []EnvironmentWins
<1>1. Init => EnvironmentKept
  BY EmptySeq DEF Init, EnvironmentKept
<1>2. Knows /\ EnvironmentKept /\ [Next]_vars => EnvironmentKept'
  <2>1. ASSUME Knows, EnvironmentKept, Next PROVE EnvironmentKept'
    BY <2>1, NextMoves, MovesEnvironment DEF Knows, Core
  <2>2. ASSUME EnvironmentKept, UNCHANGED vars PROVE EnvironmentKept'
    BY <2>2 DEF EnvironmentKept, Loops, vars, world
  <2>3. QED BY <2>1, <2>2
<1>3. EnvironmentKept => EnvironmentWins
  BY DEF EnvironmentKept, EnvironmentWins
<1>4. QED BY <1>1, <1>2, <1>3, KnowsHolds, PTL DEF Spec

-----------------------------------------------------------------------------
(* The files and what they define                                          *)

\* Two definitions of one resolution, of which any chain is one.
LEMMA SameIsEquivalence ==
  /\ \A q : SameResolution(q, q)
  /\ \A q, r : SameResolution(q, r) => SameResolution(r, q)
  /\ \A q, r, s : SameResolution(q, r) /\ SameResolution(r, s) => SameResolution(q, s)
BY DEF SameResolution

\* One of the resolutions is as r defines it, and no two are of one name.
Holds(rs, r) == \E i \in 1..Len(rs) : rs[i].code = r
Unique(rs) == \A i, j \in 1..Len(rs) : SameResolution(rs[i].code, rs[j].code) => i = j

\* There is the resolution that r defines, as no definition among `over` left it.
Stands(rs, r, over) ==
    \E i \in 1..Len(rs) : SameResolution(rs[i].code, r) /\ rs[i].code \notin over

LEMMA SortedHolds ==
  ASSUME NEW rs \in Seq(Object), NEW r
  PROVE  /\ Holds(Sorted(rs), r) <=> Holds(rs, r)
         /\ Unique(rs) => Unique(Sorted(rs))
         /\ \A over : Stands(rs, r, over) => Stands(Sorted(rs), r, over)
<1>1. Len(Sorted(rs)) = Len(rs)
  BY SortedFacts
<1>2. PICK p \in Bijection(1..Len(rs), 1..Len(rs)) :
         \A k \in 1..Len(rs) : Sorted(rs)[k] = rs[p[k]]
  BY SortedFacts
<1>3. /\ \A k \in 1..Len(rs) : p[k] \in 1..Len(rs)
      /\ \A k, l \in 1..Len(rs) : p[k] = p[l] => k = l
      /\ \A i \in 1..Len(rs) : \E k \in 1..Len(rs) : p[k] = i
  BY <1>2 DEF Bijection, Injection, Surjection, IsInjective
<1> DEFINE n == Len(rs)
           S == Sorted(rs)
<1>4. Len(S) = n /\ \A k \in 1..n : S[k] = rs[p[k]]
  BY <1>1, <1>2
<1> HIDE DEF S
<1>5. ASSUME Holds(S, r) PROVE Holds(rs, r)
  <2>1. PICK k \in 1..n : S[k].code = r
    BY <1>4, <1>5 DEF Holds
  <2>2. QED BY <1>3, <1>4, <2>1 DEF Holds
<1>6. ASSUME Holds(rs, r) PROVE Holds(S, r)
  <2>1. PICK i \in 1..n : rs[i].code = r
    BY <1>6 DEF Holds
  <2>2. PICK k \in 1..n : p[k] = i
    BY <1>3
  <2>3. QED BY <1>4, <2>1, <2>2 DEF Holds
<1>7. ASSUME Unique(rs), NEW k \in 1..n, NEW l \in 1..n, SameResolution(S[k].code, S[l].code)
      PROVE  k = l
  <2>1. p[k] \in 1..n /\ p[l] \in 1..n /\ SameResolution(rs[p[k]].code, rs[p[l]].code)
    BY <1>3, <1>4, <1>7
  <2>2. p[k] = p[l]
    BY <1>7, <2>1 DEF Unique
  <2>3. QED BY <1>3, <2>2
<1>8. Unique(rs) => Unique(S)
  BY <1>4, <1>7 DEF Unique
<1>9. ASSUME NEW over, Stands(rs, r, over) PROVE Stands(S, r, over)
  <2>1. PICK i \in 1..n : SameResolution(rs[i].code, r) /\ rs[i].code \notin over
    BY <1>9 DEF Stands
  <2>2. PICK k \in 1..n : p[k] = i
    BY <1>3
  <2>3. QED BY <1>4, <2>1, <2>2 DEF Stands
<1>10. QED BY <1>5, <1>6, <1>8, <1>9 DEF S

\* What a definition makes of the resolutions of its fact: it is there, nothing else is
\* new, no name is there twice, and every resolution stays, unless q is among `over`.
LEMMA DefinedHolds ==
  ASSUME NEW rs \in Seq(Object), NEW q \in Resolution, Unique(rs), ~Holds(rs, q),
         \A i \in 1..Len(rs) : FactOf[rs[i].code] = FactOf[q]
  PROVE  LET t == Defined(rs, q)
         IN  /\ Unique(t) /\ Holds(t, q)
             /\ \A r : Holds(t, r) => Holds(rs, r) \/ r = q
             /\ \A r, over : Stands(rs, r, over) /\ q \notin over => Stands(t, r, over)
<1> DEFINE n == Len(rs)
           t == Defined(rs, q)
<1>1. n \in Nat
  BY LenProperties
<1>2. CASE Named(rs, q) = {}
  <2> DEFINE o == New(q)
  <2>1. t = Append(rs, o) /\ o.code = q /\ \A i \in 1..n : ~Names(rs[i], q)
    BY <1>2, DefinedFacts
  <2> HIDE DEF o, t
  <2>2. Len(t) = n + 1 /\ t[n + 1] = o /\ \A i \in 1..n : t[i] = rs[i]
    BY <2>1, AppendProperties
  <2>3. /\ \A i \in 1..Len(t) : i \in 1..n \/ i = n + 1
        /\ (\A i \in 1..n : i \in 1..Len(t)) /\ n + 1 \in 1..Len(t)
    BY <1>1, <2>2
  <2>4. \A i \in 1..n : ~SameResolution(rs[i].code, q) /\ ~SameResolution(q, rs[i].code)
    BY <2>1 DEF SameResolution, Names, Holds
  <2>5. Unique(t)
    <3> SUFFICES ASSUME NEW i \in 1..Len(t), NEW j \in 1..Len(t),
                        SameResolution(t[i].code, t[j].code)
                 PROVE  i = j
      BY DEF Unique
    <3>1. QED BY <2>1, <2>2, <2>3, <2>4 DEF Unique
  <2>6. Holds(t, q)
    BY <2>1, <2>2, <2>3 DEF Holds
  <2>7. ASSUME NEW r, Holds(t, r) PROVE Holds(rs, r) \/ r = q
    BY <2>1, <2>2, <2>3, <2>7 DEF Holds
  <2>8. ASSUME NEW r, NEW over, Stands(rs, r, over) PROVE Stands(t, r, over)
    BY <2>2, <2>3, <2>8 DEF Stands
  <2>9. QED BY <2>5, <2>6, <2>7, <2>8 DEF t
<1>3. CASE Named(rs, q) # {}
  <2>1. /\ Len(t) = n
        /\ \A i \in 1..n : /\ Names(rs[i], q) => t[i].code = q
                           /\ ~Names(rs[i], q) => t[i] = rs[i]
    BY <1>3, DefinedFacts
  <2> HIDE DEF t
  <2>2. \A i \in 1..n : SameResolution(t[i].code, rs[i].code)
    BY <2>1 DEF SameResolution, Names
  <2>3. \A i \in 1..n : SameResolution(rs[i].code, t[i].code)
    BY <2>2, SameIsEquivalence
  <2>4. Unique(t)
    <3> SUFFICES ASSUME NEW i \in 1..n, NEW j \in 1..n, SameResolution(t[i].code, t[j].code)
                 PROVE  i = j
      BY <2>1 DEF Unique
    <3>1. SameResolution(rs[i].code, t[j].code)
      BY <2>3, SameIsEquivalence
    <3>2. SameResolution(rs[i].code, rs[j].code)
      BY <2>2, <3>1, SameIsEquivalence
    <3>3. QED BY <3>2 DEF Unique
  <2>5. Holds(t, q)
    <3>1. PICK i \in 1..n : Names(rs[i], q)
      BY <1>3 DEF Named
    <3>2. QED BY <2>1, <3>1 DEF Holds
  <2>6. ASSUME NEW r, Holds(t, r) PROVE Holds(rs, r) \/ r = q
    BY <2>1, <2>6 DEF Holds
  <2>7. ASSUME NEW r, NEW over, Stands(rs, r, over), q \notin over PROVE Stands(t, r, over)
    <3>1. PICK i \in 1..n : SameResolution(rs[i].code, r) /\ rs[i].code \notin over
      BY <2>7 DEF Stands
    <3>2. SameResolution(t[i].code, r)
      BY <2>2, <3>1, SameIsEquivalence
    <3>3. t[i].code \notin over
      BY <2>1, <2>7, <3>1
    <3>4. QED BY <2>1, <3>2, <3>3 DEF Stands
  <2>8. QED BY <2>4, <2>5, <2>6, <2>7 DEF t
<1>4. QED BY <1>2, <1>3

\* Of any resolutions a definition keeps what it does not redefine.
LEMMA DefinedKeeps ==
  ASSUME NEW rs \in Seq(Object), NEW q \in Resolution
  PROVE  /\ \A i \in 1..Len(Defined(rs, q)) : Holds(rs, Defined(rs, q)[i].code)
                                             \/ Defined(rs, q)[i].code = q
         /\ Len(rs) \in Nat /\ Len(Defined(rs, q)) \in Nat /\ Len(rs) <= Len(Defined(rs, q))
<1> DEFINE n == Len(rs)
           t == Defined(rs, q)
<1>1. n \in Nat /\ Len(t) \in Nat
  BY LenProperties, DefinedFacts
<1>2. CASE Named(rs, q) = {}
  <2> DEFINE o == New(q)
  <2>1. t = Append(rs, o) /\ o.code = q
    BY <1>2, DefinedFacts
  <2> HIDE DEF o, t
  <2>2. Len(t) = n + 1 /\ t[n + 1] = o /\ \A i \in 1..n : t[i] = rs[i]
    BY <2>1, AppendProperties
  <2>3. \A i \in 1..Len(t) : i \in 1..n \/ i = n + 1
    BY <1>1, <2>2
  <2>4. QED BY <1>1, <2>1, <2>2, <2>3 DEF Holds, t
<1>3. CASE Named(rs, q) # {}
  <2>1. /\ Len(t) = n
        /\ \A i \in 1..n : /\ Names(rs[i], q) => t[i].code = q
                           /\ ~Names(rs[i], q) => t[i] = rs[i]
    BY <1>3, DefinedFacts
  <2> HIDE DEF t
  <2>2. QED BY <1>1, <2>1 DEF Holds, t
<1>4. QED BY <1>2, <1>3

\* Some of the vectors are sorted.
SomeSorted ==
    \A n \in Fact : resolutions'[n] = resolutions[n] \/ resolutions'[n] = Sorted(resolutions[n])

LEMMA MovesSort ==
  ASSUME Types, Moves
  PROVE  SomeSorted \/ Reset \/ \E r \in Resolution : Extends(r)
<1>1. CASE EntersLoop
  <2>1. PICK n \in Fact : resolutions' = [resolutions EXCEPT ![n] = Sorted(@)]
    BY <1>1 DEF EntersLoop
  <2>2. QED BY <2>1 DEF SomeSorted, Types
<1>2. ASSUME NEW k \in Nat, NEW v \in Value, Gives(k, v) PROVE SomeSorted
  <2>1. PICK n \in Fact : \/ resolutions' = resolutions
                          \/ resolutions' = [resolutions EXCEPT ![n] = Sorted(@)]
    BY <1>2 DEF Gives
  <2>2. QED BY <2>1 DEF SomeSorted, Types
<1>3. CASE resolutions' = resolutions
  BY <1>3 DEF SomeSorted
<1>4. QED BY <1>1, <1>2, <1>3 DEF Moves, Calls, Finds, Fetches, LoadEnds, Walks, Loses, Returns,
                                 Breaks, Drains, DrainEnds, Flush, world

\* What a step does to the files that are begun: nothing, a search begins one, one ends by
\* an exception, or all is forgotten.
LEMMA MovesFiles ==
  ASSUME Moves
  PROVE  \/ loadedFiles' = loadedFiles /\ broken' = broken
         \/ Finds
         \/ \E k \in Nat : Breaks(k)
         \/ Reset
BY DEF Moves, Calls, Fetches, Fills, LoadEnds, Walks, Loses, EntersLoop, Returns, Extends, Gives,
       Drains, DrainEnds, Flush, world

\* Calls that begin no file.
LEMMA MovesNoFile ==
  ASSUME Core, Moves, ~Finds
  PROVE  \A i \in 1..Len(stack') : stack'[i].kind = "file" =>
            i \in 1..Len(stack) /\ Alike(stack[i], stack'[i])
<1> USE DEF Core
<1>1. ASSUME NEW k, Shape(k), Len(stack') = k + 1 => stack'[k + 1].kind # "file"
      PROVE  \A i \in 1..Len(stack') : stack'[i].kind = "file" =>
                i \in 1..Len(stack) /\ Alike(stack[i], stack'[i])
  BY <1>1, Below
<1>2. CASE Calls
  BY <1>1, <1>2 DEF Calls, NewCall
<1>3. CASE Walks \/ \E r \in Resolution : Extends(r)
  <2>1. Shape(Depth) /\ Len(stack') = Depth /\ Depth \in Nat
    BY <1>3, Below DEF Walks, Extends
  <2>2. QED BY <1>1, <2>1
<1>4. CASE Fetches \/ LoadEnds \/ EntersLoop \/ Returns
  <2>1. Shape(Depth - 1) /\ (Depth - 1) + 1 = Depth /\ Depth - 1 # Depth
    BY <1>4, DepthFacts DEF Fetches, LoadEnds, EntersLoop, Returns
  <2>2. Len(stack') = Depth => stack'[Depth].kind # "file"
    BY <1>4, <2>1 DEF Fetches, LoadEnds, EntersLoop, Returns, NewCall
  <2>3. QED BY <1>1, <2>1, <2>2
<1>5. CASE \/ \E k \in Nat : \E v \in Value : Gives(k, v)
           \/ \E k \in Nat : Breaks(k)
  <2>1. PICK k \in Nat : Shape(k) /\ Len(stack') = k
    BY <1>5 DEF Gives, Breaks
  <2>2. QED BY <1>1, <2>1
<1>6. CASE Loses \/ DrainEnds \/ Flush \/ Reset
  <2>1. Len(stack') = 0
    BY <1>6, EmptySeq DEF Loses, DrainEnds, Flush, Reset, Idle
  <2>2. QED BY <2>1
<1>7. CASE Drains
  <2>1. Len(stack') = 2 /\ stack'[1].kind = "drain" /\ stack'[2].kind = "load"
    BY <1>7 DEF Drains
  <2>2. \A i \in 1..Len(stack') : i = 1 \/ i = 2
    BY <2>1
  <2>3. QED BY <2>1, <2>2
<1>8. QED BY <1>2, <1>3, <1>4, <1>5, <1>6, <1>7 DEF Moves

\* The file that is found, and its frame.
LEMMA FindsFacts ==
  ASSUME Core, Finds
  PROVE  /\ Shape(Depth) /\ Depth \in Nat /\ Waiting(Depth - 1)
         /\ \A i \in 1..Depth : i \in 1..Len(stack) /\ Alike(stack[i], stack'[i])
         /\ \E f \in File :
              /\ f > stack[Depth].at
              /\ \A g \in FilesLeft(stack[Depth]) : f <= g
              /\ stack'[Depth].at = f /\ loadedFiles' = loadedFiles \cup {f}
              /\ \A i \in 1..Len(stack') : i \in 1..Depth
                    \/ (/\ i = Depth + 1 /\ f \notin loadedFiles
                        /\ stack'[i].kind = "file" /\ stack'[i].file = f /\ stack'[i].it = 1)
<1>1. Shape(Depth) /\ Waiting(Depth - 1)
  BY DEF Finds
<1>2. PICK f \in FilesLeft(stack[Depth]) :
         /\ \A g \in FilesLeft(stack[Depth]) : f <= g
         /\ stack'[Depth].at = f
         /\ loadedFiles' = loadedFiles \cup {f}
         /\ f \in loadedFiles => Len(stack') = Depth
         /\ f \notin loadedFiles =>
              /\ Len(stack') = Depth + 1
              /\ stack'[Depth + 1].kind = "file" /\ stack'[Depth + 1].file = f
              /\ stack'[Depth + 1].it = 1
  BY DEF Finds
<1>3. f \in File /\ f > stack[Depth].at
  BY DEF FilesLeft
<1>4. /\ Depth \in Nat
      /\ \A i \in 1..Len(stack') : i \in 1..Depth \/ (i = Depth + 1 /\ Len(stack') = Depth + 1)
      /\ \A i \in 1..Depth : i \in 1..Len(stack) /\ Alike(stack[i], stack'[i])
  BY <1>1, Below DEF Core
<1>5. QED BY <1>1, <1>2, <1>3, <1>4

LEMMA MovesBegun ==
  ASSUME Core, BegunOnce, Moves
  PROVE  BegunOnce'
<1> USE DEF Core
<1>1. CASE Finds
  <2>1. broken' = broken
    BY <1>1 DEF Finds
  <2>2. PICK f \in File :
          /\ loadedFiles' = loadedFiles \cup {f}
          /\ \A i \in 1..Len(stack') : i \in 1..Depth
               \/ (/\ i = Depth + 1 /\ f \notin loadedFiles
                   /\ stack'[i].kind = "file" /\ stack'[i].file = f /\ stack'[i].it = 1)
    BY <1>1, FindsFacts
  <2>3. \A i \in 1..Depth : stack'[i].kind = "file" =>
          i \in 1..Len(stack) /\ stack[i].kind = "file" /\ stack'[i].file = stack[i].file
    BY <1>1, FindsFacts DEF Alike
  <2>4. \A i \in 1..Depth : stack'[i].kind = "file" => stack'[i].file \in loadedFiles \ broken
    BY <2>3 DEF BegunOnce
  <2>5. \A i \in 1..Len(stack') : stack'[i].kind = "file" => stack'[i].file \in loadedFiles' \ broken'
    BY <2>1, <2>2, <2>4 DEF BegunOnce
  <2>6. \A i, j \in 1..Depth :
          stack'[i].kind = "file" /\ stack'[j].kind = "file" /\ stack'[i].file = stack'[j].file => i = j
    BY <2>3 DEF BegunOnce
  <2>7. \A i, j \in 1..Len(stack') :
          stack'[i].kind = "file" /\ stack'[j].kind = "file" /\ stack'[i].file = stack'[j].file => i = j
    BY <2>2, <2>4, <2>6
  <2>8. QED BY <2>1, <2>2, <2>5, <2>7 DEF BegunOnce
<1>2. ASSUME ~Finds
      PROVE  \A i \in 1..Len(stack') : stack'[i].kind = "file" =>
                i \in 1..Len(stack) /\ stack[i].kind = "file" /\ stack'[i].file = stack[i].file
  BY <1>2, MovesNoFile DEF Alike
<1>3. CASE ~Finds /\ loadedFiles' = loadedFiles /\ broken' = broken
  BY <1>2, <1>3 DEF BegunOnce
<1>4. ASSUME NEW k \in Nat, Breaks(k) PROVE BegunOnce'
  <2>1. /\ Shape(k) /\ Len(stack') = k /\ broken' = broken \cup {stack[k + 1].file}
        /\ stack[k + 1].kind = "file" /\ k + 1 \in 1..Len(stack) /\ loadedFiles' = loadedFiles
    BY <1>4, EndingFacts DEF Breaks, world
  <2>2. \A i \in 1..Len(stack') : stack'[i].kind = "file" =>
          /\ i \in 1..Len(stack) /\ stack[i].kind = "file" /\ stack'[i].file = stack[i].file
          /\ i # k + 1
    BY <2>1, Below DEF Alike
  <2>3. \A i \in 1..Len(stack') : stack'[i].kind = "file" => stack'[i].file # stack[k + 1].file
    BY <2>1, <2>2 DEF BegunOnce
  <2>4. QED BY <2>1, <2>2, <2>3 DEF BegunOnce
<1>5. CASE Reset
  <2>1. Len(stack') = 0
    BY <1>5, EmptySeq DEF Reset, Idle
  <2>2. QED BY <1>5, <2>1 DEF BegunOnce, Reset
<1>6. QED BY <1>1, <1>3, <1>4, <1>5, MovesFiles

\* Searches that wait stay where they are, and a new one starts at the beginning.
LEMMA SearchesKept ==
  ASSUME Types, SearchesAll, NEW k, Shape(k),
         loadedFiles \subseteq loadedFiles', loadedFiles' \subseteq File, loadedAll' = loadedAll,
         \A i \in 1..k : stack[i].kind = "load" => stack'[i].at = stack[i].at,
         Len(stack') = k + 1 /\ stack'[k + 1].kind = "load" => stack'[k + 1].at = SearchStart
  PROVE  SearchesAll'
<1>1. \A i \in 1..k : i \in 1..Len(stack) /\ Alike(stack[i], stack'[i])
  BY Below
<1>2. \A i \in 1..k : stack'[i].kind = "load" /\ stack'[i].step = "all" =>
        \A f \in File : f > stack'[i].at \/ f \in loadedFiles'
  BY <1>1 DEF SearchesAll, Alike
<1>3. \A f \in File : f > SearchStart \/ f \in loadedFiles'
  BY CustomFactsAssumption DEF SearchesAll, SearchStart, File
<1>4. Len(stack') = k + 1 /\ stack'[k + 1].kind = "load" =>
        \A f \in File : f > stack'[k + 1].at \/ f \in loadedFiles'
  BY <1>3
<1>5. loadedAll' => loadedFiles' = File
  BY DEF SearchesAll
<1>6. QED BY <1>2, <1>4, <1>5, Below DEF SearchesAll

\* The calls that wait are not moved.
LEMMA WaitingLoads ==
  ASSUME NEW k, Waiting(k), NEW i \in 1..k, stack[i].kind = "load"
  PROVE  stack'[i].at = stack[i].at
BY DEF Waiting, SamePlace

LEMMA MovesSearches ==
  ASSUME Core, BegunOnce, SearchesAll, Moves
  PROVE  SearchesAll'
<1> USE DEF Core
<1>1. loadedFiles \subseteq File
  BY DEF Types
<1>2. CASE Calls \/ Walks \/ \E r \in Resolution : Extends(r)
  <2>1. /\ Shape(Depth) /\ Depth \in Nat
        /\ loadedFiles' = loadedFiles /\ loadedAll' = loadedAll
    BY <1>2, Below DEF Calls, Walks, Extends, Fills, world
  <2>2. \A i \in 1..(Depth - 1) : stack[i].kind = "load" => stack'[i].at = stack[i].at
    BY <1>2 DEF Calls, Walks, Extends, Waiting, SamePlace
  <2>3. Depth > 0 => stack[Depth].kind # "load"
    BY <1>2 DEF Calls, Walks, Extends, Loops
  <2>4. \A i \in 1..Depth : stack[i].kind = "load" => stack'[i].at = stack[i].at
    <3>1. \A i \in 1..Depth : i \in 1..(Depth - 1) \/ (i = Depth /\ Depth > 0)
      BY <2>1
    <3>2. QED BY <2>2, <2>3, <3>1
  <2>5. Len(stack') = Depth + 1 /\ stack'[Depth + 1].kind = "load" => stack'[Depth + 1].at = SearchStart
    BY <1>2, <2>1 DEF Calls, NewCall, Walks, Extends
  <2>6. QED BY <1>1, <2>1, <2>4, <2>5, SearchesKept
<1>3. CASE Finds
  <2> DEFINE d == Depth
  <2>1. loadedAll' = loadedAll /\ stack[d].kind = "load" /\ d > 0
    BY <1>3 DEF Finds
  <2>2. /\ Waiting(d - 1) /\ d \in Nat
        /\ \A i \in 1..d : i \in 1..Len(stack) /\ Alike(stack[i], stack'[i])
    BY <1>3, FindsFacts
  <2>3. PICK f \in File :
          /\ f > stack[d].at
          /\ \A g \in FilesLeft(stack[d]) : f <= g
          /\ stack'[d].at = f /\ loadedFiles' = loadedFiles \cup {f}
          /\ \A i \in 1..Len(stack') : i \in 1..d
               \/ (/\ i = d + 1 /\ f \notin loadedFiles
                   /\ stack'[i].kind = "file" /\ stack'[i].file = f /\ stack'[i].it = 1)
    BY <1>3, FindsFacts
  <2>4. \A i \in 1..(d - 1) : stack[i].kind = "load" => stack'[i].at = stack[i].at
    BY <2>2, WaitingLoads
  <2> HIDE DEF d
  <2>5. \A i \in 1..(d - 1) : stack'[i].kind = "load" /\ stack'[i].step = "all" =>
          \A g \in File : g > stack'[i].at \/ g \in loadedFiles'
    <3>1. SUFFICES ASSUME NEW i \in 1..(d - 1), stack'[i].kind = "load", stack'[i].step = "all",
                          NEW g \in File
                   PROVE  g > stack'[i].at \/ g \in loadedFiles'
      OBVIOUS
    <3>2. i \in 1..d
      BY <2>2
    <3>3. i \in 1..Len(stack) /\ stack[i].kind = "load" /\ stack[i].step = "all"
      BY <2>2, <3>1, <3>2 DEF Alike
    <3>4. g > stack[i].at \/ g \in loadedFiles
      BY <3>3 DEF SearchesAll
    <3>5. QED BY <2>3, <2>4, <3>3, <3>4
  <2>6. stack'[d].step = "all" => \A g \in File : g > stack'[d].at \/ g \in loadedFiles'
    <3>1. d \in 1..Len(stack) /\ Alike(stack[d], stack'[d])
      BY <2>1, <2>2
    <3>2. SUFFICES ASSUME stack'[d].step = "all", NEW g \in File, ~(g > f) PROVE g \in loadedFiles'
      BY <2>3
    <3>3. stack[d].step = "all"
      BY <2>1, <3>1, <3>2 DEF Alike
    <3>4. CASE g > stack[d].at
      <4>1. g \in FilesLeft(stack[d])
        BY <3>3, <3>4 DEF FilesLeft
      <4>2. f <= g /\ g \in Int /\ f \in Int
        BY <2>3, <4>1 DEF File
      <4>3. QED BY <2>3, <3>2, <4>2
    <3>5. CASE ~(g > stack[d].at)
      BY <2>1, <2>3, <3>1, <3>3, <3>5 DEF SearchesAll
    <3>6. QED BY <3>4, <3>5
  <2>7. \A i \in 1..Len(stack') : i \in 1..(d - 1) \/ i = d \/ stack'[i].kind = "file"
    BY <2>2, <2>3
  <2>8. \A i \in 1..Len(stack') : stack'[i].kind = "load" /\ stack'[i].step = "all" =>
          \A g \in File : g > stack'[i].at \/ g \in loadedFiles'
    BY <2>5, <2>6, <2>7
  <2>9. loadedAll' => loadedFiles' = File
    BY <2>1, <2>3 DEF SearchesAll
  <2>10. QED BY <2>8, <2>9 DEF SearchesAll
<1>4. CASE Fetches \/ EntersLoop \/ Returns
  <2>1. /\ Shape(Depth - 1) /\ Waiting(Depth - 1) /\ (Depth - 1) + 1 = Depth /\ Depth - 1 # Depth
        /\ loadedFiles' = loadedFiles /\ loadedAll' = loadedAll
    BY <1>4, DepthFacts DEF Fetches, EntersLoop, Returns, Fills, world
  <2>2. Len(stack') = Depth /\ stack'[Depth].kind = "load" => stack'[Depth].at = SearchStart
    BY <1>4, <2>1 DEF Fetches, EntersLoop, Returns
  <2>3. \A i \in 1..(Depth - 1) : stack[i].kind = "load" => stack'[i].at = stack[i].at
    BY <2>1, WaitingLoads
  <2>4. QED BY <1>1, <2>1, <2>2, <2>3, SearchesKept
<1>5. CASE LoadEnds
  <2> DEFINE d == Depth
  <2>1. /\ Shape(d - 1) /\ Waiting(d - 1) /\ (d - 1) + 1 = d /\ d \in 1..Len(stack)
        /\ stack[d].kind = "load" /\ stack[d].step = "all" /\ FilesLeft(stack[d]) = {}
        /\ loadedFiles' = loadedFiles
        /\ Len(stack') = d => stack'[d].kind = "value"
    BY <1>5, DepthFacts DEF LoadEnds
  <2>2. \A f \in File : f \in loadedFiles
    BY <2>1 DEF FilesLeft, SearchesAll
  <2>3. loadedFiles' = File
    BY <1>1, <2>1, <2>2
  <2>4. QED BY <2>3 DEF SearchesAll
<1>6. ASSUME NEW k, Shape(k), Waiting(k), Len(stack') = k, loadedFiles' = loadedFiles,
             loadedAll' = loadedAll
      PROVE  SearchesAll'
  <2>1. Len(stack') # k + 1
    BY <1>6, Below
  <2>2. \A i \in 1..k : stack[i].kind = "load" => stack'[i].at = stack[i].at
    BY <1>6, WaitingLoads
  <2>3. QED BY <1>1, <1>6, <2>1, <2>2, SearchesKept
<1>7. CASE \/ \E k \in Nat : \E v \in Value : Gives(k, v)
           \/ \E k \in Nat : Breaks(k)
  BY <1>6, <1>7 DEF Gives, Breaks, world
<1>8. CASE Drains
  <2>1. /\ Len(stack') = 2 /\ stack'[1].kind = "drain" /\ stack'[2].at = SearchStart
        /\ loadedFiles' = loadedFiles /\ loadedAll' = loadedAll
    BY <1>8 DEF Drains, Fills
  <2>2. \A i \in 1..Len(stack') : i = 1 \/ i = 2
    BY <2>1
  <2>3. \A f \in File : f > SearchStart \/ f \in loadedFiles
    BY CustomFactsAssumption DEF SearchesAll, SearchStart, File
  <2>4. QED BY <2>1, <2>2, <2>3 DEF SearchesAll
<1>9. CASE Loses \/ DrainEnds \/ Flush \/ Reset
  <2>1. Len(stack') = 0
    BY <1>9, EmptySeq DEF Loses, DrainEnds, Flush, Reset, Idle
  <2>2. loadedAll' => loadedFiles' = File
    BY <1>9 DEF Loses, DrainEnds, Flush, Reset, SearchesAll, world
  <2>3. QED BY <2>1, <2>2 DEF SearchesAll
<1>10. QED BY <1>2, <1>3, <1>4, <1>5, <1>7, <1>8, <1>9 DEF Moves

\* FromFiles, of one vector.
LEMMA FromFilesHolds ==
  ASSUME FromFiles, NEW n \in Fact, NEW r, Holds(resolutions[n], r)
  PROVE  /\ FactOf[r] = n
         /\ \E f \in loadedFiles : \E k \in DOMAIN Statements[f] : Added(f, k) = r
BY DEF FromFiles, Holds

LEMMA MovesFrom ==
  ASSUME Core, BegunOnce, FromFiles, Moves
  PROVE  FromFiles'
<1> USE DEF Core
<1>1. \A n \in Fact : resolutions[n] \in Seq(Object)
  BY DEF Types
<1>2. CASE SomeSorted /\ loadedFiles \subseteq loadedFiles'
  <2> SUFFICES ASSUME NEW n \in Fact, NEW i \in 1..Len(resolutions'[n])
               PROVE  /\ FactOf[resolutions'[n][i].code] = n
                      /\ \E f \in loadedFiles' : \E k \in DOMAIN Statements[f] :
                            Added(f, k) = resolutions'[n][i].code
    BY DEF FromFiles
  <2>1. Holds(resolutions'[n], resolutions'[n][i].code)
    BY DEF Holds
  <2>2. Holds(resolutions[n], resolutions'[n][i].code)
    BY <1>1, <1>2, <2>1, SortedHolds DEF SomeSorted
  <2>3. QED BY <1>2, <2>2, FromFilesHolds
<1>3. ASSUME NEW r \in Resolution, Extends(r) PROVE FromFiles'
  <2> DEFINE n == FactOf[r]
  <2>1. /\ Depth \in 1..Len(stack) /\ stack[Depth].kind = "file"
        /\ stack[Depth].it \in DOMAIN Statements[stack[Depth].file]
        /\ Added(stack[Depth].file, stack[Depth].it) = r
        /\ n \in Fact /\ resolutions' = [resolutions EXCEPT ![n] = Defined(@, r)]
        /\ loadedFiles' = loadedFiles
    BY <1>3, DepthFacts DEF Extends, Fills
  <2>2. stack[Depth].file \in loadedFiles
    BY <2>1 DEF BegunOnce
  <2> SUFFICES ASSUME NEW m \in Fact, NEW i \in 1..Len(resolutions'[m])
               PROVE  /\ FactOf[resolutions'[m][i].code] = m
                      /\ \E f \in loadedFiles' : \E k \in DOMAIN Statements[f] :
                            Added(f, k) = resolutions'[m][i].code
    BY DEF FromFiles
  <2> DEFINE s == resolutions'[m][i].code
  <2>3. Holds(resolutions'[m], s)
    BY DEF Holds
  <2>4. CASE m = n
    <3>1. resolutions'[m] = Defined(resolutions[m], r)
      BY <2>1, <2>4 DEF Types
    <3>2. Holds(resolutions[m], s) \/ s = r
      BY <1>1, <3>1, DefinedKeeps
    <3>3. CASE Holds(resolutions[m], s)
      BY <2>1, <3>3, FromFilesHolds
    <3>4. CASE s = r
      BY <2>1, <2>2, <2>4, <3>4
    <3>5. QED BY <3>2, <3>3, <3>4
  <2>5. CASE m # n
    <3>1. resolutions'[m] = resolutions[m]
      BY <2>1, <2>5 DEF Types
    <3>2. QED BY <2>1, <2>3, <3>1, FromFilesHolds
  <2>6. QED BY <2>4, <2>5
<1>4. CASE Reset
  BY <1>4, EmptySeq DEF Reset, FromFiles
<1>5. loadedFiles \subseteq loadedFiles' \/ Reset
  BY MovesFiles DEF Finds, Breaks, world
<1>6. QED BY <1>2, <1>3, <1>4, <1>5, MovesSort

\* Statement m of file f has been executed, if the file has not raised.
Ran(f, m) ==
    /\ f \in loadedFiles
    /\ \A i \in 1..Len(stack) : stack[i].kind = "file" /\ stack[i].file = f => m < stack[i].it

\* The definitions of file f before statement m.
Earlier(f, m) == {Added(f, l) : l \in 1..m - 1}

\* What FilesDefineOnce says, and that no name is there twice.
DefinesOnce ==
    ~lost =>
        /\ \A n \in Fact : Unique(resolutions[n])
        /\ \A f \in File \ broken : \A m \in DOMAIN Statements[f] :
             Added(f, m) # 0 =>
                LET r == Added(f, m)
                IN  IF Ran(f, m) THEN Stands(resolutions[FactOf[r]], r, Earlier(f, m))
                                 ELSE ~Holds(resolutions[FactOf[r]], r)

\* Frame i of a file has the same statements behind it that add something.
Adding(i) ==
    \A m \in DOMAIN Statements[stack[i].file] :
        Added(stack[i].file, m) # 0 => (m < stack'[i].it <=> m < stack[i].it)

\* The statements behind the files in progress stay those that add something.
RanSame ==
    \A f \in File \ broken' : \A m \in DOMAIN Statements[f] :
        Added(f, m) # 0 => (Ran(f, m)' <=> Ran(f, m))

LEMMA RanKept ==
  ASSUME Types, NEW k, Shape(k), loadedFiles' = loadedFiles,
         \A i \in 1..k : stack[i].kind = "file" => Adding(i),
         \A i \in 1..Len(stack) : stack[i].kind = "file" =>
            \/ i \in 1..k
            \/ \A m \in DOMAIN Statements[stack[i].file] : m < stack[i].it
            \/ stack[i].file \in broken',
         Len(stack') = k + 1 => stack'[k + 1].kind # "file"
  PROVE  RanSame
<1> SUFFICES ASSUME NEW f \in File \ broken', NEW m \in DOMAIN Statements[f], Added(f, m) # 0
             PROVE  Ran(f, m)' <=> Ran(f, m)
  BY DEF RanSame
<1>1. /\ \A i \in 1..k : i \in 1..Len(stack) /\ i \in 1..Len(stack') /\ Alike(stack[i], stack'[i])
      /\ \A i \in 1..Len(stack') : i \in 1..k \/ (i = k + 1 /\ Len(stack') = k + 1)
  BY Below
<1>2. \A i \in 1..k : stack[i].kind = "file" /\ stack[i].file = f =>
        /\ stack'[i].kind = "file" /\ stack'[i].file = f
        /\ m < stack'[i].it <=> m < stack[i].it
  BY <1>1 DEF Alike, Adding
<1>3. \A i \in 1..k : stack'[i].kind = "file" /\ stack'[i].file = f =>
        stack[i].kind = "file" /\ stack[i].file = f
  BY <1>1 DEF Alike
<1>4. \A i \in 1..Len(stack) : stack[i].kind = "file" /\ stack[i].file = f =>
        i \in 1..k \/ m < stack[i].it
  OBVIOUS
<1>5. \A i \in 1..Len(stack') : stack'[i].kind = "file" => i \in 1..k
  BY <1>1
<1>6. ASSUME Ran(f, m) PROVE Ran(f, m)'
  BY <1>1, <1>2, <1>3, <1>5, <1>6 DEF Ran
<1>7. ASSUME Ran(f, m)' PROVE Ran(f, m)
  BY <1>1, <1>2, <1>4, <1>7 DEF Ran
<1>8. QED BY <1>6, <1>7

LEMMA SameIsAdding ==
  ASSUME NEW i, stack'[i].it = stack[i].it
  PROVE  Adding(i)
BY DEF Adding

LEMMA WaitingFiles ==
  ASSUME NEW k, Waiting(k), NEW i \in 1..k, stack[i].kind = "file"
  PROVE  Adding(i)
BY SameIsAdding DEF Waiting, SamePlace

\* A file that goes past a statement that adds nothing.
LEMMA StepIsAdding ==
  ASSUME NEW f \in FileFrame, NEW i, f = stack[i], f.it \in DOMAIN Statements[f.file],
         Added(f.file, f.it) = 0, stack'[i].it = f.it + 1
  PROVE  Adding(i)
<1>1. f.file \in File /\ f.it \in Nat
  BY DEF FileFrame
<1>2. SUFFICES ASSUME NEW m \in DOMAIN Statements[f.file], Added(f.file, m) # 0
               PROVE  m < stack'[i].it <=> m < f.it
  BY DEF Adding
<1>3. m \in Nat /\ m # f.it
  BY <1>1, <1>2, StatementDomain
<1>4. QED BY <1>1, <1>3

LEMMA MovesRan ==
  ASSUME Core, Moves, ~Reset, ~lost', ~\E r \in Resolution : Extends(r)
  PROVE  RanSame
<1> USE DEF Core
<1>1. CASE Calls
  <2>1. /\ Shape(Depth) /\ Depth \in Nat /\ loadedFiles' = loadedFiles /\ Waiting(Depth - 1)
        /\ Len(stack') = Depth + 1 => stack'[Depth + 1].kind # "file"
    BY <1>1, Below DEF Calls, NewCall, world
  <2>2. \A i \in 1..Depth : i \in 1..(Depth - 1) \/ (i = Depth /\ Depth > 0)
    BY <2>1
  <2>3. Depth > 0 /\ stack[Depth].kind = "file" => Adding(Depth)
    <3>1. Depth > 0 /\ stack[Depth].kind = "file" =>
            /\ stack[Depth] \in FileFrame
            /\ stack[Depth].it \in DOMAIN Statements[stack[Depth].file]
            /\ Added(stack[Depth].file, stack[Depth].it) = 0
            /\ stack'[Depth].it = stack[Depth].it + 1
      BY <1>1, DepthFacts, FrameKinds DEF Calls, Loops
    <3>2. QED BY <3>1, StepIsAdding
  <2>4. \A i \in 1..Depth : stack[i].kind = "file" => Adding(i)
    BY <2>1, <2>2, <2>3, WaitingFiles
  <2>5. QED BY <2>1, <2>4, RanKept DEF Depth
<1>2. CASE Walks
  <2>1. /\ Shape(Depth) /\ Depth \in Nat /\ loadedFiles' = loadedFiles /\ Waiting(Depth - 1)
        /\ Len(stack') = Depth /\ stack[Depth].kind = "value"
    BY <1>2, Below DEF Walks, Loops, world
  <2>2. \A i \in 1..Depth : i \in 1..(Depth - 1) \/ i = Depth
    BY <2>1
  <2>3. \A i \in 1..Depth : stack[i].kind = "file" => Adding(i)
    BY <2>1, <2>2, WaitingFiles
  <2>4. Len(stack') # Depth + 1
    BY <2>1
  <2>5. QED BY <2>1, <2>3, <2>4, RanKept DEF Depth
<1>3. CASE Finds
  <2> DEFINE d == Depth
  <2>1. /\ d \in Nat /\ d > 0 /\ stack[d].kind = "load" /\ Waiting(d - 1)
        /\ \A i \in 1..d : i \in 1..Len(stack) /\ Alike(stack[i], stack'[i])
        /\ d = Len(stack) /\ Len(stack') \in {d, d + 1}
    BY <1>3, FindsFacts DEF Finds, Shape, Depth
  <2>2. PICK g \in File :
          /\ loadedFiles' = loadedFiles \cup {g}
          /\ g \in loadedFiles => Len(stack') = d
          /\ g \notin loadedFiles =>
               /\ Len(stack') = d + 1
               /\ stack'[d + 1].kind = "file" /\ stack'[d + 1].file = g
               /\ stack'[d + 1].it = 1
    BY <1>3 DEF Finds, FilesLeft
  <2> HIDE DEF d
  <2>3. ASSUME NEW i \in 1..d, NEW f
        PROVE  /\ i \in 1..Len(stack) /\ i \in 1..Len(stack')
               /\ stack'[i].kind = "file" /\ stack'[i].file = f <=>
                    (stack[i].kind = "file" /\ stack[i].file = f)
               /\ stack[i].kind = "file" => stack'[i].it = stack[i].it
    <3>1. stack[i].kind = "file" => i \in 1..(d - 1)
      BY <2>1
    <3>2. QED BY <2>1, <2>3, <3>1 DEF Alike, Waiting, SamePlace
  <2>4. SUFFICES ASSUME NEW f \in File \ broken', NEW m \in DOMAIN Statements[f], Added(f, m) # 0
                 PROVE  Ran(f, m)' <=> Ran(f, m)
    BY DEF RanSame
  <2>5. CASE g \notin loadedFiles /\ f = g
    <3>1. m \in Nat \ {0} /\ ~(m < 1)
      BY StatementDomain
    <3>2. d + 1 \in 1..Len(stack')
      BY <2>1, <2>2, <2>5
    <3>3. ~Ran(f, m)'
      BY <2>2, <2>5, <3>1, <3>2 DEF Ran
    <3>4. QED BY <2>5, <3>3 DEF Ran
  <2>6. CASE g \in loadedFiles \/ f # g
    <3>1. f \in loadedFiles' <=> f \in loadedFiles
      BY <2>2, <2>6
    <3>2. \A i \in 1..Len(stack') : stack'[i].kind = "file" /\ stack'[i].file = f => i \in 1..d
      <4>1. \A i \in 1..Len(stack') : i \in 1..d \/ (i = d + 1 /\ Len(stack') # d)
        BY <2>1
      <4>2. QED BY <2>2, <2>6, <4>1
    <3>3. Ran(f, m) => Ran(f, m)'
      BY <2>3, <3>1, <3>2 DEF Ran
    <3>4. Ran(f, m)' => Ran(f, m)
      BY <2>1, <2>3, <3>1 DEF Ran
    <3>5. QED BY <3>3, <3>4
  <2>7. QED BY <2>5, <2>6
<1>4. CASE Fetches \/ LoadEnds \/ EntersLoop \/ Returns
  <2>1. /\ Shape(Depth - 1) /\ Waiting(Depth - 1) /\ loadedFiles' = loadedFiles
        /\ Depth > 0 /\ (Depth - 1) + 1 = Depth /\ Depth - 1 # Depth
        /\ \A i \in 1..Len(stack) : i \in 1..(Depth - 1) \/ i = Depth
        /\ stack[Depth] \in Frame
    BY <1>4, DepthFacts DEF Fetches, LoadEnds, EntersLoop, Returns, Fills, world
  <2>2. Len(stack') = Depth => stack'[Depth].kind # "file"
    BY <1>4, <2>1 DEF Fetches, LoadEnds, EntersLoop, Returns, NewCall
  <2>3. stack[Depth].kind = "file" =>
          \A m \in DOMAIN Statements[stack[Depth].file] : m < stack[Depth].it
    <3>1. SUFFICES ASSUME stack[Depth].kind = "file", NEW m \in DOMAIN Statements[stack[Depth].file]
                   PROVE  m < stack[Depth].it
      OBVIOUS
    <3>2. Returns
      BY <1>4, <3>1 DEF Fetches, LoadEnds, EntersLoop
    <3>3. /\ stack[Depth].it \notin DOMAIN Statements[stack[Depth].file]
          /\ stack[Depth].it \in Nat \ {0} /\ stack[Depth].file \in File
      BY <2>1, <3>1, <3>2, FrameKinds DEF Returns, FileFrame
    <3>4. QED BY <3>1, <3>3, StatementDomain
  <2>4. \A i \in 1..(Depth - 1) : stack[i].kind = "file" => Adding(i)
    BY <2>1, WaitingFiles
  <2>5. QED BY <2>1, <2>2, <2>3, <2>4, RanKept
<1>5. ASSUME NEW k \in Nat, NEW v \in Value, Gives(k, v) PROVE RanSame
  <2>1. /\ Shape(k) /\ Waiting(k) /\ Len(stack') = k /\ loadedFiles' = loadedFiles
        /\ Ending(k) /\ stack[k + 1].kind = "value" /\ Len(stack') # k + 1
    BY <1>5 DEF Gives
  <2>2. \A i \in 1..Len(stack) : stack[i].kind = "file" => i \in 1..k
    BY <2>1, EndingFacts
  <2>3. \A i \in 1..k : stack[i].kind = "file" => Adding(i)
    BY <2>1, WaitingFiles
  <2>4. QED BY <2>1, <2>2, <2>3, RanKept
<1>6. ASSUME NEW k \in Nat, Breaks(k) PROVE RanSame
  <2>1. /\ Shape(k) /\ Waiting(k) /\ Len(stack') = k /\ loadedFiles' = loadedFiles
        /\ Ending(k) /\ Len(stack') # k + 1 /\ stack[k + 1].file \in broken'
    BY <1>6 DEF Breaks, world
  <2>2. \A i \in 1..Len(stack) : stack[i].kind = "file" => i \in 1..k \/ stack[i].file \in broken'
    BY <2>1, EndingFacts
  <2>3. \A i \in 1..k : stack[i].kind = "file" => Adding(i)
    BY <2>1, WaitingFiles
  <2>4. QED BY <2>1, <2>2, <2>3, RanKept
<1>7. ASSUME loadedFiles' = loadedFiles, \A i \in 1..Len(stack) : stack[i].kind # "file",
             \A i \in 1..Len(stack') : stack'[i].kind # "file"
      PROVE  RanSame
  BY <1>7 DEF RanSame, Ran
<1>8. CASE Drains
  <2>1. /\ Len(stack) = 0 /\ Len(stack') = 2 /\ stack'[1].kind = "drain" /\ stack'[2].kind = "load"
        /\ loadedFiles' = loadedFiles
    BY <1>8, EmptySeq DEF Drains, Fills
  <2>2. \A i \in 1..Len(stack') : i = 1 \/ i = 2
    BY <2>1
  <2>3. \A i \in 1..Len(stack) : FALSE
    BY <2>1
  <2>4. QED BY <1>7, <2>1, <2>2, <2>3
<1>9. CASE DrainEnds
  <2>1. /\ Len(stack') = 0 /\ Len(stack) = 1 /\ stack[1].kind = "drain" /\ loadedFiles' = loadedFiles
    BY <1>9, EmptySeq DEF DrainEnds, Depth, world
  <2>2. QED BY <1>7, <2>1
<1>10. CASE Flush
  BY <1>10 DEF Flush, RanSame, Ran
<1>11. QED BY <1>1, <1>2, <1>3, <1>4, <1>5, <1>6, <1>8, <1>9, <1>10 DEF Moves, Loses

LEMMA ExtendsDefines ==
  ASSUME Core, BegunOnce, FromFiles, DefinesOnce, ~lost, NEW q \in Resolution, Extends(q)
  PROVE  DefinesOnce'
<1> USE DEF Core
<1> DEFINE d == Depth
           F == stack[d].file
           K == stack[d].it
<1>1. /\ d > 0 /\ stack[d].kind = "file" /\ K \in DOMAIN Statements[F] /\ Added(F, K) = q
      /\ Shape(d) /\ Len(stack') = d /\ stack'[d].it = K + 1
      /\ \A i \in 1..(d - 1) : SamePlace(stack[i], stack'[i])
      /\ FactOf[q] \in Fact /\ resolutions' = [resolutions EXCEPT ![FactOf[q]] = Defined(@, q)]
      /\ loadedFiles' = loadedFiles /\ broken' = broken
  BY DEF Extends, Fills
<1>2. /\ d = Len(stack) /\ d \in 1..Len(stack) /\ d \in Nat /\ stack[d] \in FileFrame
      /\ \A i \in 1..d : i \in 1..(d - 1) \/ i = d
      /\ \A i \in 1..d : Alike(stack[i], stack'[i])
  BY <1>1, DepthFacts, FrameKinds DEF Shape
<1>3. F \in File /\ K \in Nat \ {0} /\ F \in loadedFiles \ broken
  BY <1>1, <1>2 DEF FileFrame, BegunOnce
<1>4. q # 0
  BY CustomFactsAssumption DEF Resolution
<1> HIDE DEF d, F, K
<1>5. \A i \in 1..d : stack'[i].kind = "file" <=> stack[i].kind = "file"
  BY <1>2 DEF Alike
<1>6. \A i \in 1..d : stack[i].kind = "file" => stack'[i].file = stack[i].file
  BY <1>2 DEF Alike
<1>7. \A i \in 1..(d - 1) : stack[i].kind = "file" => stack'[i].it = stack[i].it
  BY <1>1 DEF SamePlace
<1>8. \A i \in 1..d : stack[i].kind = "file" /\ stack[i].file = F => i = d
  BY <1>1, <1>2 DEF BegunOnce, F
<1>9. ~Ran(F, K)
  BY <1>1, <1>2, <1>3 DEF Ran, F, K
<1>10. ASSUME NEW f \in File, NEW m, f = F, m = K PROVE Ran(f, m)'
  <2>1. \A i \in 1..Len(stack') : stack'[i].kind = "file" /\ stack'[i].file = F => K < stack'[i].it
    BY <1>1, <1>3, <1>5, <1>6, <1>8
  <2>2. QED BY <1>1, <1>3, <1>10, <2>1 DEF Ran
<1>11. ASSUME NEW f \in File, NEW m \in DOMAIN Statements[f], f # F \/ m # K
       PROVE  Ran(f, m)' <=> Ran(f, m)
  <2>1. m \in Nat
    BY StatementDomain
  <2>2. f = F => (m < K + 1 <=> m < K)
    BY <1>3, <1>11, <2>1
  <2>3. \A i \in 1..d : stack[i].kind = "file" /\ stack[i].file = f =>
          (m < stack'[i].it <=> m < stack[i].it)
    <3>1. stack[d].file = F /\ stack[d].it = K /\ stack'[d].it = K + 1
      BY <1>1 DEF F, K
    <3>2. QED BY <1>2, <1>7, <2>2, <3>1
  <2>4. \A i \in 1..d : stack'[i].kind = "file" /\ stack'[i].file = f <=>
          (stack[i].kind = "file" /\ stack[i].file = f)
    BY <1>5, <1>6
  <2>5. Len(stack) = d /\ Len(stack') = d
    BY <1>1, <1>2
  <2>6. QED BY <1>1, <2>3, <2>4, <2>5 DEF Ran
<1>12. \A n \in Fact : resolutions[n] \in Seq(Object)
  BY DEF Types
<1>13. /\ Unique(resolutions'[FactOf[q]]) /\ Holds(resolutions'[FactOf[q]], q)
       /\ \A r : Holds(resolutions'[FactOf[q]], r) => Holds(resolutions[FactOf[q]], r) \/ r = q
       /\ \A r, over : Stands(resolutions[FactOf[q]], r, over) /\ q \notin over
                         => Stands(resolutions'[FactOf[q]], r, over)
  <2> DEFINE rs == resolutions[FactOf[q]]
  <2>1. resolutions'[FactOf[q]] = Defined(rs, q)
    BY <1>1 DEF Types
  <2>2. Unique(rs) /\ rs \in Seq(Object)
    BY <1>1, <1>12 DEF DefinesOnce
  <2>3. ~Holds(rs, q)
    BY <1>1, <1>3, <1>4, <1>9 DEF DefinesOnce
  <2>4. \A i \in 1..Len(rs) : FactOf[rs[i].code] = FactOf[q]
    BY <1>1 DEF FromFiles
  <2> HIDE DEF rs
  <2>5. QED BY <2>1, <2>2, <2>3, <2>4, DefinedHolds DEF rs
<1>14. ASSUME NEW n \in Fact PROVE Unique(resolutions'[n])
  <2>1. n # FactOf[q] => resolutions'[n] = resolutions[n]
    BY <1>1 DEF Types
  <2>2. Unique(resolutions[n])
    BY DEF DefinesOnce
  <2>3. QED BY <1>13, <2>1, <2>2
<1>15. SUFFICES ASSUME NEW f \in File \ broken, NEW m \in DOMAIN Statements[f], Added(f, m) # 0
                PROVE  LET r == Added(f, m)
                       IN  IF Ran(f, m)' THEN Stands(resolutions'[FactOf[r]], r, Earlier(f, m))
                                         ELSE ~Holds(resolutions'[FactOf[r]], r)
  BY <1>1, <1>14 DEF DefinesOnce, Earlier
<1> DEFINE r == Added(f, m)
<1>16. r \in Resolution /\ FactOf[r] \in Fact /\ m \in Nat
  BY <1>15, StatementFacts, StatementDomain, CustomFactsAssumption
<1>17. IF Ran(f, m) THEN Stands(resolutions[FactOf[r]], r, Earlier(f, m))
                    ELSE ~Holds(resolutions[FactOf[r]], r)
  BY <1>15 DEF DefinesOnce
<1>18. ASSUME f # F \/ m <= K PROVE q \notin Earlier(f, m)
  <2> SUFFICES ASSUME NEW l \in 1..m - 1, q = Added(f, l) PROVE FALSE
    BY DEF Earlier
  <2>1. l \in DOMAIN Statements[f] /\ l < m
    BY <1>16, StatementDomain
  <2>2. f = F /\ l = K
    BY <1>1, <1>3, <1>4, <2>1, StatementsDiffer
  <2>3. QED BY <1>3, <1>16, <1>18, <2>1, <2>2
<1>19. CASE f = F /\ m = K
  <2>1. r = q
    BY <1>1, <1>19
  <2>2. PICK i \in 1..Len(resolutions'[FactOf[q]]) : resolutions'[FactOf[q]][i].code = q
    BY <1>13 DEF Holds
  <2>3. q \notin Earlier(f, m)
    BY <1>3, <1>18, <1>19
  <2>4. Stands(resolutions'[FactOf[q]], q, Earlier(f, m))
    BY <2>2, <2>3, SameIsEquivalence DEF Stands
  <2>5. QED BY <1>10, <1>19, <2>1, <2>4
<1>20. CASE f # F \/ m # K
  <2>1. r # q
    BY <1>1, <1>3, <1>4, <1>20, StatementsDiffer
  <2>2. Ran(f, m)' <=> Ran(f, m)
    BY <1>11, <1>20
  <2>3. CASE FactOf[r] = FactOf[q]
    <3>1. ~Ran(f, m) => ~Holds(resolutions'[FactOf[r]], r)
      BY <1>13, <1>17, <2>1, <2>3
    <3>2. Ran(f, m) => f # F \/ m <= K
      <4>1. Ran(f, m) /\ f = F => m < K
        BY <1>1, <1>2 DEF Ran, F, K
      <4>2. QED BY <1>3, <1>16, <4>1
    <3>3. Ran(f, m) => Stands(resolutions'[FactOf[r]], r, Earlier(f, m))
      BY <1>13, <1>17, <1>18, <2>3, <3>2
    <3>4. QED BY <2>2, <3>1, <3>3
  <2>4. CASE FactOf[r] # FactOf[q]
    <3>1. resolutions'[FactOf[r]] = resolutions[FactOf[r]]
      BY <1>1, <1>16, <2>4 DEF Types
    <3>2. QED BY <1>17, <2>2, <3>1
  <2>5. QED BY <2>3, <2>4
<1>21. QED BY <1>19, <1>20

LEMMA MovesDefines ==
  ASSUME Core, BegunOnce, FromFiles, DefinesOnce, Moves
  PROVE  DefinesOnce'
<1> USE DEF Core
<1>1. CASE lost'
  BY <1>1 DEF DefinesOnce
<1>2. lost' \/ lost' = lost
  BY DEF Moves, Calls, Finds, Fetches, LoadEnds, Walks, Loses, EntersLoop, Returns, Extends, Gives,
         Breaks, Drains, DrainEnds, Flush, Reset
<1>3. CASE \E r \in Resolution : Extends(r)
  BY <1>1, <1>2, <1>3, ExtendsDefines
<1>4. CASE Reset
  <2>1. loadedFiles' = {} /\ \A n \in Fact : Len(resolutions'[n]) = 0
    BY <1>4, EmptySeq DEF Reset
  <2>2. \A f \in File : \A m \in DOMAIN Statements[f] : Added(f, m) # 0 => FactOf[Added(f, m)] \in Fact
    BY StatementFacts, CustomFactsAssumption
  <2>3. QED BY <2>1, <2>2 DEF DefinesOnce, Unique, Holds, Ran
<1>5. CASE ~lost' /\ ~Reset /\ ~\E r \in Resolution : Extends(r)
  <2>1. RanSame /\ SomeSorted
    BY <1>5, MovesRan, MovesSort
  <2>2. broken \subseteq broken'
    BY <1>5, MovesFiles DEF Finds, Breaks
  <2>3. ~lost /\ \A n \in Fact : Unique(resolutions[n]) /\ resolutions[n] \in Seq(Object)
    BY <1>2, <1>5 DEF DefinesOnce, Types
  <2>4. \A n \in Fact : Unique(resolutions'[n])
    BY <2>1, <2>3, SortedHolds DEF SomeSorted
  <2>5. SUFFICES ASSUME NEW f \in File \ broken', NEW m \in DOMAIN Statements[f], Added(f, m) # 0
                 PROVE  LET r == Added(f, m)
                        IN  IF Ran(f, m)' THEN Stands(resolutions'[FactOf[r]], r, Earlier(f, m))
                                          ELSE ~Holds(resolutions'[FactOf[r]], r)
    BY <2>4 DEF DefinesOnce, Earlier
  <2> DEFINE r == Added(f, m)
  <2>6. FactOf[r] \in Fact /\ resolutions[FactOf[r]] \in Seq(Object)
    BY <2>5, StatementFacts, CustomFactsAssumption DEF Types
  <2>7. IF Ran(f, m) THEN Stands(resolutions[FactOf[r]], r, Earlier(f, m))
                     ELSE ~Holds(resolutions[FactOf[r]], r)
    BY <2>2, <2>3, <2>5 DEF DefinesOnce
  <2>8. Ran(f, m)' <=> Ran(f, m)
    BY <2>1, <2>5 DEF RanSame
  <2>9. QED BY <2>1, <2>6, <2>7, <2>8, SortedHolds DEF SomeSorted
<1>6. QED BY <1>1, <1>3, <1>4, <1>5

Defines == Knows /\ BegunOnce /\ SearchesAll /\ FromFiles /\ DefinesOnce

LEMMA DefinesHolds == Spec => []Defines
<1>1. Init => BegunOnce /\ SearchesAll /\ FromFiles /\ DefinesOnce
  <2> SUFFICES ASSUME Init PROVE BegunOnce /\ SearchesAll /\ FromFiles /\ DefinesOnce
    OBVIOUS
  <2>1. /\ Len(stack) = 0 /\ loadedFiles = {} /\ broken = {} /\ loadedAll = FALSE
        /\ \A n \in Fact : Len(resolutions[n]) = 0
    BY EmptySeq DEF Init
  <2>2. \A f \in File : \A m \in DOMAIN Statements[f] : Added(f, m) # 0 => FactOf[Added(f, m)] \in Fact
    BY StatementFacts, CustomFactsAssumption
  <2>3. BegunOnce /\ SearchesAll /\ FromFiles
    BY <2>1 DEF BegunOnce, SearchesAll, FromFiles
  <2>4. QED BY <2>1, <2>2, <2>3 DEF DefinesOnce, Unique, Holds, Ran
<1>2. Knows /\ BegunOnce /\ SearchesAll /\ FromFiles /\ DefinesOnce /\ [Next]_vars
        => (BegunOnce /\ SearchesAll /\ FromFiles /\ DefinesOnce)'
  <2>1. ASSUME Knows, BegunOnce, SearchesAll, FromFiles, DefinesOnce, Next
        PROVE  (BegunOnce /\ SearchesAll /\ FromFiles /\ DefinesOnce)'
    <3>1. Core /\ Moves
      BY <2>1, NextMoves DEF Knows, Core
    <3>2. QED BY <2>1, <3>1, MovesBegun, MovesSearches, MovesFrom, MovesDefines
  <2>2. ASSUME BegunOnce, SearchesAll, FromFiles, DefinesOnce, UNCHANGED vars
        PROVE  (BegunOnce /\ SearchesAll /\ FromFiles /\ DefinesOnce)'
    BY <2>2 DEF BegunOnce, SearchesAll, FromFiles, DefinesOnce, Ran, vars, world
  <2>3. QED BY <2>1, <2>2
<1>3. QED BY <1>1, <1>2, KnowsHolds, PTL DEF Spec, Defines

\* A file that raises ends alone: every other file that was loaded has defined each of its
\* resolutions, once, whatever it or a fact asked for meanwhile; a later definition of the
\* same name takes the place of an earlier one (fact.cc:229-263); and once all are said to
\* be loaded each file has been begun (module.cc:246-263, 867-886).
THEOREM FilesDefineOnceCorrect == Spec => []FilesDefineOnce
<1>1. Defines => FilesDefineOnce
  <2> SUFFICES ASSUME Defines PROVE FilesDefineOnce
    OBVIOUS
  <2>1. loadedAll => loadedFiles = File
    BY DEF Defines, SearchesAll
  <2>2. ASSUME ~lost, NEW f \in File \ broken, NEW k \in DOMAIN Statements[f], Added(f, k) # 0
        PROVE  LET rs == resolutions[FactOf[Added(f, k)]]
               IN IF k \in Executed(f)
                  THEN \E i \in DOMAIN rs : /\ Places(Added(f, k)) = {i}
                                            /\ \A l \in 1..k - 1 : rs[i].code # Added(f, l)
                  ELSE \A i \in DOMAIN rs : rs[i].code # Added(f, k)
    <3> DEFINE r == Added(f, k)
               rs == resolutions[FactOf[r]]
    <3>1. FactOf[r] \in Fact
      BY <2>2, StatementFacts, CustomFactsAssumption
    <3>2. IF Ran(f, k) THEN Stands(rs, r, Earlier(f, k)) ELSE ~Holds(rs, r)
      BY <2>2 DEF Defines, DefinesOnce
    <3>3. Unique(rs)
      BY <2>2, <3>1 DEF Defines, DefinesOnce
    <3>4. k \in Executed(f) <=> Ran(f, k)
      BY DEF Executed, Ran
    <3>5. DOMAIN rs = 1..Len(rs)
      BY <3>1, LenProperties DEF Defines, Knows, Core, Types
    <3>6. Places(r) = {i \in DOMAIN rs : SameResolution(rs[i].code, r)}
      BY DEF Places
    <3> HIDE DEF rs, r
    <3>7. CASE Ran(f, k)
      <4>1. PICK i \in 1..Len(rs) : SameResolution(rs[i].code, r) /\ rs[i].code \notin Earlier(f, k)
        BY <3>2, <3>7 DEF Stands
      <4>2. ASSUME NEW j \in 1..Len(rs), SameResolution(rs[j].code, r) PROVE j = i
        <5>1. SameResolution(r, rs[i].code)
          BY <4>1, SameIsEquivalence
        <5>2. SameResolution(rs[j].code, rs[i].code)
          BY <4>2, <5>1, SameIsEquivalence
        <5>3. QED BY <3>3, <5>2 DEF Unique
      <4>3. Places(r) = {i}
        BY <3>5, <3>6, <4>1, <4>2
      <4>4. \A l \in 1..k - 1 : rs[i].code # Added(f, l)
        BY <4>1 DEF Earlier
      <4>5. QED BY <3>4, <3>5, <3>7, <4>3, <4>4 DEF rs, r
    <3>8. CASE ~Ran(f, k)
      <4>1. \A i \in DOMAIN rs : rs[i].code # r
        BY <3>2, <3>5, <3>8 DEF Holds
      <4>2. QED BY <3>4, <3>8, <4>1 DEF rs, r
    <3>9. QED BY <3>7, <3>8
  <2>3. QED BY <2>1, <2>2 DEF FilesDefineOnce
<1>2. QED BY DefinesHolds, <1>1, PTL

-----------------------------------------------------------------------------
(* The vectors of resolutions under the loops over them                    *)

\* Only the evaluation that begins is new.
LEMMA MovesLoops ==
  ASSUME Core, Moves
  PROVE  \A i \in 1..Len(stack') : Loops(i)' =>
           \/ /\ i \in 1..Len(stack) /\ Loops(i) /\ stack'[i].fact = stack[i].fact
           \/ EntersLoop /\ i = Depth
<1> USE DEF Core
<1>1. ASSUME NEW k, Shape(k), Len(stack') = k + 1 => ~IsLoop(stack'[k + 1]),
             NEW i \in 1..Len(stack'), Loops(i)'
      PROVE  i \in 1..Len(stack) /\ Loops(i) /\ stack'[i].fact = stack[i].fact
  <2>1. i \in 1..k
    BY <1>1, Below DEF Loops, IsLoop
  <2>2. QED BY <1>1, <2>1, Below, LoopsKept
<1>2. CASE Calls
  BY <1>1, <1>2, NewIsNoLoop DEF Calls
<1>3. CASE Finds
  <2>1. /\ Shape(Depth) /\ Depth \in Nat
        /\ Len(stack') = Depth \/ stack'[Depth + 1].kind = "file"
    BY <1>3, Below DEF Finds
  <2>2. Len(stack') = Depth + 1 => ~IsLoop(stack'[Depth + 1])
    BY <2>1 DEF IsLoop
  <2>3. QED BY <1>1, <2>1, <2>2
<1>4. CASE Walks \/ \E r \in Resolution : Extends(r)
  <2>1. Shape(Depth) /\ Len(stack') = Depth /\ Depth \in Nat
    BY <1>4, Below DEF Walks, Extends
  <2>2. Len(stack') # Depth + 1
    BY <2>1
  <2>3. QED BY <1>1, <2>1, <2>2
<1>5. CASE Fetches \/ LoadEnds \/ Returns
  <2>1. Shape(Depth - 1) /\ (Depth - 1) + 1 = Depth /\ Depth - 1 # Depth
    BY <1>5, DepthFacts DEF Fetches, LoadEnds, Returns
  <2>2. Len(stack') = Depth => ~IsLoop(stack'[Depth])
    BY <1>5, <2>1, NewIsNoLoop DEF Fetches, LoadEnds, Returns, IsLoop
  <2>3. QED BY <1>1, <2>1, <2>2
<1>6. CASE EntersLoop
  <2>1. Shape(Depth - 1) /\ (Depth - 1) + 1 = Depth
    BY <1>6, DepthFacts DEF EntersLoop
  <2>2. \A i \in 1..Len(stack') : i \in 1..(Depth - 1) \/ i = Depth
    BY <2>1, Below
  <2>3. \A i \in 1..(Depth - 1) : Loops(i)' =>
          i \in 1..Len(stack) /\ Loops(i) /\ stack'[i].fact = stack[i].fact
    BY <2>1, LoopsKept, Below
  <2>4. QED BY <1>6, <2>2, <2>3
<1>7. CASE \/ \E k \in Nat : \E v \in Value : Gives(k, v)
           \/ \E k \in Nat : Breaks(k)
  <2>1. PICK k \in Nat : Shape(k) /\ Len(stack') = k
    BY <1>7 DEF Gives, Breaks
  <2>2. Len(stack') # k + 1
    BY <2>1
  <2>3. QED BY <1>1, <2>1, <2>2
<1>8. CASE Loses \/ DrainEnds \/ Flush \/ Reset
  <2>1. Len(stack') = 0
    BY <1>8, EmptySeq DEF Loses, DrainEnds, Flush, Reset, Idle
  <2>2. QED BY <2>1
<1>9. CASE Drains
  <2>1. Len(stack') = 2 /\ stack'[1].kind = "drain" /\ stack'[2].kind = "load"
    BY <1>9 DEF Drains
  <2>2. \A i \in 1..Len(stack') : i = 1 \/ i = 2
    BY <2>1
  <2>3. QED BY <2>1, <2>2 DEF Loops
<1>10. QED BY <1>2, <1>3, <1>4, <1>5, <1>6, <1>7, <1>8, <1>9 DEF Moves

\* A vector never gets shorter while a fact is evaluated.
LEMMA VectorsGrow ==
  ASSUME Types, Moves, ~Reset
  PROVE  \A n \in Fact : Len(resolutions[n]) \in Nat /\ Len(resolutions[n]) <= Len(resolutions'[n])
<1> SUFFICES ASSUME NEW n \in Fact
             PROVE  Len(resolutions[n]) \in Nat /\ Len(resolutions[n]) <= Len(resolutions'[n])
  OBVIOUS
<1>1. resolutions[n] \in Seq(Object) /\ Len(resolutions[n]) \in Nat
  BY LenProperties DEF Types
<1>2. CASE SomeSorted
  BY <1>1, <1>2, SortedFacts DEF SomeSorted
<1>3. ASSUME NEW r \in Resolution, Extends(r)
      PROVE  Len(resolutions[n]) <= Len(resolutions'[n])
  <2>1. resolutions' = [resolutions EXCEPT ![FactOf[r]] = Defined(@, r)]
    BY <1>3 DEF Extends
  <2>2. resolutions'[n] = resolutions[n] \/ resolutions'[n] = Defined(resolutions[n], r)
    BY <2>1 DEF Types
  <2>3. QED BY <1>1, <2>2, DefinedKeeps
<1>4. QED BY <1>1, <1>2, <1>3, MovesSort

\* A fact that asks, or that waits, stays at its resolution.
LEMMA MovesPlaces ==
  ASSUME Core, NotExtended, Moves
  PROVE  \A i \in 1..Len(stack') : Loops(i)' /\ i < Len(stack') =>
           stack'[i].it <= Len(resolutions'[stack'[i].fact])
<1> USE DEF Core
<1>1. ASSUME NEW k, Shape(k), ~Reset,
             \A i \in 1..k : Loops(i) /\ i < Len(stack') =>
                stack'[i].it = stack[i].it /\ stack[i].it <= Len(resolutions[stack[i].fact]),
             NEW i \in 1..Len(stack'), Loops(i)', i < Len(stack')
      PROVE  stack'[i].it <= Len(resolutions'[stack'[i].fact])
  <2>1. i \in 1..k
    BY <1>1, Below
  <2>2. /\ Loops(i) /\ stack'[i].fact = stack[i].fact /\ i \in 1..Len(stack)
        /\ stack[i] \in Frame
    BY <1>1, <2>1, LoopsKept, Below, ElementOfSeq DEF Types
  <2>3. stack[i] \in ValueFrame
    BY <2>2, FrameKinds DEF Loops
  <2>4. stack[i].it \in Nat /\ stack[i].fact \in Fact
    BY <2>3 DEF ValueFrame, ValueFields
  <2>5. stack'[i].it = stack[i].it /\ stack[i].it <= Len(resolutions[stack[i].fact])
    BY <1>1, <2>1, <2>2
  <2>6. /\ Len(resolutions[stack[i].fact]) \in Nat
        /\ Len(resolutions[stack[i].fact]) <= Len(resolutions'[stack[i].fact])
    BY <1>1, <2>4, VectorsGrow
  <2>7. Len(resolutions'[stack[i].fact]) \in Nat
    BY <2>4, MovesTypes, LenProperties DEF Types
  <2>8. QED BY <2>2, <2>4, <2>5, <2>6, <2>7
<1>2. ASSUME NEW k, NEW i \in 1..k, Waiting(k), Shape(k), k < Depth, Loops(i)
      PROVE  stack'[i].it = stack[i].it /\ stack[i].it <= Len(resolutions[stack[i].fact])
  <2>1. i \in 1..Len(stack) /\ i < Len(stack)
    BY <1>2, Below DEF Depth
  <2>2. QED BY <1>2, <2>1 DEF NotExtended, Waiting, SamePlace, Loops
<1>3. ASSUME NEW k, Shape(k), Waiting(k), k < Depth, ~Reset
      PROVE  \A i \in 1..Len(stack') : Loops(i)' /\ i < Len(stack') =>
               stack'[i].it <= Len(resolutions'[stack'[i].fact])
  BY <1>1, <1>2, <1>3
<1>4. CASE Calls \/ Finds \/ Walks \/ \E r \in Resolution : Extends(r)
  <2>1. Shape(Depth) /\ Depth \in Nat
    BY <1>4, Below DEF Calls, Finds, Walks, Extends
  <2>2. CASE Reset
    <3>1. Len(stack') = 0
      BY <2>2, EmptySeq DEF Reset, Idle
    <3>2. QED BY <3>1
  <2>3. \A i \in 1..(Depth - 1) : Loops(i) =>
          stack'[i].it = stack[i].it /\ stack[i].it <= Len(resolutions[stack[i].fact])
    <3>1. SUFFICES ASSUME NEW i \in 1..(Depth - 1), Loops(i)
                   PROVE  stack'[i].it = stack[i].it /\ stack[i].it <= Len(resolutions[stack[i].fact])
      OBVIOUS
    <3>2. SamePlace(stack[i], stack'[i])
      BY <1>4 DEF Calls, Finds, Walks, Extends, Waiting
    <3>3. i \in 1..Len(stack) /\ i < Len(stack)
      BY <2>1 DEF Depth
    <3>4. QED BY <3>1, <3>2, <3>3 DEF NotExtended, SamePlace, Loops
  <2>4. Depth > 0 /\ Loops(Depth) /\ Depth < Len(stack') =>
          stack'[Depth].it = stack[Depth].it /\ stack[Depth].it <= Len(resolutions[stack[Depth].fact])
    BY <1>4, <2>1 DEF Calls, Finds, Walks, Extends, Loops
  <2>5. \A i \in 1..Depth : i \in 1..(Depth - 1) \/ (i = Depth /\ Depth > 0)
    BY <2>1
  <2>6. \A i \in 1..Depth : Loops(i) /\ i < Len(stack') =>
          stack'[i].it = stack[i].it /\ stack[i].it <= Len(resolutions[stack[i].fact])
    BY <2>3, <2>4, <2>5
  <2>7. CASE ~Reset
    BY <1>1, <2>1, <2>6, <2>7
  <2>8. QED BY <2>2, <2>7
<1>5. CASE Fetches \/ LoadEnds \/ EntersLoop \/ Returns
  <2>1. Shape(Depth - 1) /\ Waiting(Depth - 1) /\ Depth \in Nat /\ Depth > 0
    BY <1>5, DepthFacts DEF Fetches, LoadEnds, EntersLoop, Returns
  <2>2. Depth - 1 < Depth
    BY <2>1
  <2>3. ~Reset
    BY <2>1, EmptySeq DEF Reset, Idle, Depth
  <2>4. QED BY <1>3, <2>1, <2>2, <2>3
<1>6. CASE \/ \E k \in Nat : \E v \in Value : Gives(k, v)
           \/ \E k \in Nat : Breaks(k)
  <2>1. PICK k \in Nat : Shape(k) /\ Waiting(k) /\ Ending(k)
    BY <1>6 DEF Gives, Breaks
  <2>2. k < Depth /\ Depth > 0
    BY <2>1, EndingFacts DEF Ending
  <2>3. ~Reset
    BY <2>2, EmptySeq DEF Reset, Idle, Depth
  <2>4. QED BY <1>3, <2>1, <2>2, <2>3
<1>7. CASE Loses \/ DrainEnds \/ Flush \/ Reset
  <2>1. Len(stack') = 0
    BY <1>7, EmptySeq DEF Loses, DrainEnds, Flush, Reset, Idle
  <2>2. QED BY <2>1
<1>8. CASE Drains
  <2>1. Len(stack') = 2 /\ stack'[1].kind = "drain" /\ stack'[2].kind = "load"
    BY <1>8 DEF Drains
  <2>2. \A i \in 1..Len(stack') : i = 1 \/ i = 2
    BY <2>1
  <2>3. QED BY <2>1, <2>2 DEF Loops
<1>9. QED BY <1>4, <1>5, <1>6, <1>7, <1>8 DEF Moves

\* A file that is found adds nothing to the facts that are evaluated and are defined in
\* one file: that file has been begun before.
LEMMA FoundIsApart ==
  ASSUME Core, FromFiles, NotExtended, NEW f \in File, f \notin loadedFiles,
         NEW i \in 1..Len(stack), Loops(i), i < Len(stack), OneFile(stack[i].fact)
  PROVE  ~AddsTo(f, stack[i].fact)
<1> DEFINE n == stack[i].fact
           t == stack[i].it
<1>1. stack[i] \in ValueFrame
  BY ElementOfSeq, FrameKinds DEF Core, Types, Loops
<1>2. n \in Fact /\ t \in Nat \ {0} /\ t <= Len(resolutions[n])
  BY <1>1 DEF ValueFrame, ValueFields, NotExtended
<1>3. resolutions[n] \in Seq(Object)
  BY <1>2 DEF Core, Types
<1>4. t \in 1..Len(resolutions[n])
  BY <1>2, <1>3, LenProperties
<1> DEFINE r == resolutions[n][t].code
<1>5. r \in Resolution
  <2>1. resolutions[n][t] \in Object
    BY <1>3, <1>4, ElementOfSeq
  <2>2. QED BY <2>1 DEF Object
<1>6. PICK g \in loadedFiles : \E k \in DOMAIN Statements[g] : Added(g, k) = r
  BY <1>2, <1>4 DEF FromFiles
<1>7. FactOf[r] = n
  BY <1>2, <1>4 DEF FromFiles
<1>8. r # 0
  BY <1>5, CustomFactsAssumption DEF Resolution
<1>9. g \in File /\ AddsTo(g, n)
  BY <1>6, <1>7, <1>8 DEF AddsTo, Core, Types
<1>10. QED BY <1>6, <1>9 DEF OneFile

LEMMA MovesNotExtended ==
  ASSUME Core, FromFiles, NotExtended, Moves
  PROVE  NotExtended'
<1> USE DEF Core
<1>1. SUFFICES ASSUME NEW i \in 1..Len(stack'), NEW j \in 1..Len(stack'), Loops(i)', i < j,
                      OneFile(stack'[i].fact), stack'[j].kind = "file"
               PROVE  ~AddsTo(stack'[j].file, stack'[i].fact)
  BY MovesPlaces DEF NotExtended, Loops
<1>2. CASE ~Finds
  <2>1. j \in 1..Len(stack) /\ stack[j].kind = "file" /\ stack'[j].file = stack[j].file
    BY <1>1, <1>2, MovesNoFile DEF Alike
  <2>2. CASE i \in 1..Len(stack) /\ Loops(i) /\ stack'[i].fact = stack[i].fact
    BY <1>1, <2>1, <2>2 DEF NotExtended
  <2>3. CASE EntersLoop /\ i = Depth
    <3>1. Len(stack') = Depth /\ Depth \in Nat
      BY <2>3, DepthFacts DEF EntersLoop
    <3>2. QED BY <1>1, <2>3, <3>1
  <2>4. QED BY <1>1, <2>2, <2>3, MovesLoops
<1>3. CASE Finds
  <2> DEFINE d == Depth
  <2>1. /\ d \in Nat /\ stack[d].kind = "load" /\ d = Len(stack)
        /\ \A m \in 1..d : m \in 1..Len(stack) /\ Alike(stack[m], stack'[m])
    BY <1>3, FindsFacts DEF Finds, Depth
  <2>2. PICK f \in File :
          \A m \in 1..Len(stack') : m \in 1..d
             \/ (/\ m = d + 1 /\ f \notin loadedFiles
                 /\ stack'[m].kind = "file" /\ stack'[m].file = f /\ stack'[m].it = 1)
    BY <1>3, FindsFacts
  <2>3. ~EntersLoop
    BY <2>1 DEF EntersLoop
  <2>4. i \in 1..Len(stack) /\ Loops(i) /\ stack'[i].fact = stack[i].fact
    BY <1>1, <2>3, MovesLoops
  <2>5. i < Len(stack)
    BY <2>1, <2>4 DEF Loops
  <2>6. CASE j \in 1..d
    <3>1. j \in 1..Len(stack) /\ stack[j].kind = "file" /\ stack'[j].file = stack[j].file
      BY <1>1, <2>1, <2>6 DEF Alike
    <3>2. QED BY <1>1, <2>4, <3>1 DEF NotExtended
  <2>7. CASE f \notin loadedFiles /\ stack'[j].file = f
    BY <1>1, <2>4, <2>5, <2>7, FoundIsApart
  <2>8. QED BY <2>2, <2>6, <2>7
<1>4. QED BY <1>2, <1>3

\* Only the addition of a resolution makes an iterator invalid.
LEMMA MovesSteady ==
  ASSUME Core, Moves
  PROVE  \A i \in 1..Len(stack') : stack'[i].kind = "value" /\ ~Intact(stack'[i]) =>
           /\ i \in 1..Len(stack) /\ stack[i].kind = "value" /\ stack'[i].fact = stack[i].fact
           /\ \/ ~Intact(stack[i])
              \/ \E r \in Resolution :
                   Extends(r) /\ Loops(i) /\ i < Depth /\ stack[i].fact = FactOf[r]
<1> USE DEF Core
<1> DEFINE Was(i) ==
      /\ i \in 1..Len(stack) /\ stack[i].kind = "value" /\ stack'[i].fact = stack[i].fact
      /\ \/ ~Intact(stack[i])
         \/ \E r \in Resolution :
              Extends(r) /\ Loops(i) /\ i < Depth /\ stack[i].fact = FactOf[r]
<1>1. ASSUME NEW k, Shape(k), \A i \in 1..k : stack[i].kind = "value" => Steady(stack[i], stack'[i]),
             Len(stack') = k + 1 /\ stack'[k + 1].kind = "value" => Intact(stack'[k + 1])
      PROVE  \A i \in 1..Len(stack') : stack'[i].kind = "value" /\ ~Intact(stack'[i]) => Was(i)
  <2>1. \A i \in 1..k : stack'[i].kind = "value" /\ ~Intact(stack'[i]) => Was(i)
    BY <1>1, Below DEF Alike, Steady
  <2>2. QED BY <1>1, <2>1, Below
<1>2. CASE Calls \/ Finds \/ Walks
  <2>1. Shape(Depth) /\ Depth \in Nat /\ Waiting(Depth - 1)
    BY <1>2, Below DEF Calls, Finds, Walks
  <2>2. Depth > 0 /\ stack[Depth].kind = "value" => Steady(stack[Depth], stack'[Depth])
    BY <1>2 DEF Calls, Finds, Walks
  <2>3. \A i \in 1..Depth : i \in 1..(Depth - 1) \/ (i = Depth /\ Depth > 0)
    BY <2>1
  <2>4. \A i \in 1..Depth : stack[i].kind = "value" => Steady(stack[i], stack'[i])
    BY <2>1, <2>2, <2>3 DEF Waiting
  <2>5. Len(stack') = Depth + 1 /\ stack'[Depth + 1].kind = "value" => Intact(stack'[Depth + 1])
    BY <1>2, <2>1 DEF Calls, Finds, Walks, NewCall
  <2>6. QED BY <1>1, <2>1, <2>4, <2>5
<1>3. CASE Fetches \/ LoadEnds \/ EntersLoop \/ Returns
  <2>1. /\ Shape(Depth - 1) /\ Waiting(Depth - 1) /\ (Depth - 1) + 1 = Depth /\ Depth - 1 # Depth
    BY <1>3, DepthFacts DEF Fetches, LoadEnds, EntersLoop, Returns
  <2>2. Len(stack') = Depth /\ stack'[Depth].kind = "value" => Intact(stack'[Depth])
    BY <1>3, <2>1 DEF Fetches, LoadEnds, EntersLoop, Returns, NewCall
  <2>3. QED BY <1>1, <2>1, <2>2 DEF Waiting
<1>4. CASE \/ \E k \in Nat : \E v \in Value : Gives(k, v)
           \/ \E k \in Nat : Breaks(k)
  <2>1. PICK k \in Nat : Shape(k) /\ Waiting(k) /\ Len(stack') = k
    BY <1>4 DEF Gives, Breaks
  <2>2. Len(stack') # k + 1
    BY <2>1
  <2>3. QED BY <1>1, <2>1, <2>2 DEF Waiting
<1>5. ASSUME NEW r \in Resolution, Extends(r), NEW i \in 1..Len(stack'),
             stack'[i].kind = "value", ~Intact(stack'[i])
      PROVE  Was(i)
  <2>1. /\ Shape(Depth) /\ Len(stack') = Depth /\ stack[Depth].kind = "file"
        /\ \A m \in 1..(Depth - 1) : \/ Steady(stack[m], stack'[m])
                                     \/ Loops(m) /\ stack[m].fact = FactOf[r]
    BY <1>5 DEF Extends
  <2>2. Depth \in Nat /\ i \in 1..Len(stack) /\ Alike(stack[i], stack'[i])
    BY <1>5, <2>1, Below
  <2>3. stack[i].kind = "value" /\ stack'[i].fact = stack[i].fact
    BY <1>5, <2>2 DEF Alike
  <2>4. i \in 1..(Depth - 1) /\ i < Depth
    BY <1>5, <2>1, <2>2, <2>3
  <2>5. QED BY <1>5, <2>1, <2>2, <2>3, <2>4 DEF Steady
<1>6. CASE Loses \/ DrainEnds \/ Flush \/ Reset
  <2>1. Len(stack') = 0
    BY <1>6, EmptySeq DEF Loses, DrainEnds, Flush, Reset, Idle
  <2>2. QED BY <2>1
<1>7. CASE Drains
  <2>1. Len(stack') = 2 /\ stack'[1].kind = "drain" /\ stack'[2].kind = "load"
    BY <1>7 DEF Drains
  <2>2. \A i \in 1..Len(stack') : i = 1 \/ i = 2
    BY <2>1
  <2>3. QED BY <2>1, <2>2
<1>8. QED BY <1>2, <1>3, <1>4, <1>5, <1>6, <1>7 DEF Moves

\* A fact that is defined in one file is not extended while it is evaluated.
LEMMA ExtendsOthers ==
  ASSUME Core, NotExtended, NEW r \in Resolution, Extends(r),
         NEW i \in 1..Len(stack), Loops(i), stack[i].fact = FactOf[r]
  PROVE  ~OneFile(stack[i].fact)
<1>1. /\ Depth > 0 /\ stack[Depth].kind = "file"
      /\ stack[Depth].it \in DOMAIN Statements[stack[Depth].file]
      /\ Added(stack[Depth].file, stack[Depth].it) = r
  BY DEF Extends
<1>2. Depth \in 1..Len(stack) /\ Depth = Len(stack)
  BY <1>1, DepthFacts DEF Core
<1>3. r # 0
  BY CustomFactsAssumption DEF Resolution
<1>4. AddsTo(stack[Depth].file, stack[i].fact)
  BY <1>1, <1>3 DEF AddsTo
<1>5. i < Depth
  BY <1>1, <1>2 DEF Loops
<1>6. QED BY <1>1, <1>2, <1>4, <1>5 DEF NotExtended

LEMMA MovesIterators ==
  ASSUME Core, NotExtended, IteratorsStayValid, Moves
  PROVE  IteratorsStayValid'
<1> SUFFICES ASSUME NEW i \in 1..Len(stack'), stack'[i].kind = "value", ~Intact(stack'[i])
             PROVE  ~OneFile(stack'[i].fact)
  BY DEF IteratorsStayValid, Intact
<1>1. i \in 1..Len(stack) /\ stack[i].kind = "value" /\ stack'[i].fact = stack[i].fact
  BY MovesSteady
<1>2. CASE ~Intact(stack[i])
  BY <1>1, <1>2 DEF IteratorsStayValid, Intact
<1>3. CASE \E r \in Resolution :
             Extends(r) /\ Loops(i) /\ i < Depth /\ stack[i].fact = FactOf[r]
  BY <1>1, <1>3, ExtendsOthers
<1>4. QED BY <1>2, <1>3, MovesSteady

\* The resolutions are in the order in which they are asked.
Descending(rs) == \A k, l \in 1..Len(rs) : k < l => Weight(rs[k]) >= Weight(rs[l])

LEMMA SortedDescends ==
  ASSUME NEW rs \in Seq(Object)
  PROVE  Descending(Sorted(rs))
BY SortedFacts DEF Descending

LEMMA MovesSorted ==
  ASSUME Core, NotExtended, StaySorted, Moves
  PROVE  StaySorted'
<1> USE DEF Core
<1> SUFFICES ASSUME NEW i \in 1..Len(stack'), Loops(i)', OneFile(stack'[i].fact)
             PROVE  Descending(resolutions'[stack'[i].fact])
  BY DEF StaySorted, Descending, Loops
<1> DEFINE n == stack'[i].fact
<1>1. \A m \in Fact : resolutions[m] \in Seq(Object)
  BY DEF Types
<1>2. stack'[i] \in Frame
  BY MovesTypes, ElementOfSeq DEF Types
<1>3. n \in Fact
  BY <1>2, FrameKinds DEF Loops, ValueFrame, ValueFields
<1>4. CASE i \in 1..Len(stack) /\ Loops(i) /\ n = stack[i].fact
  <2>1. Descending(resolutions[n])
    BY <1>4 DEF StaySorted, Descending
  <2>2. CASE SomeSorted
    BY <1>1, <1>3, <2>1, <2>2, SortedDescends DEF SomeSorted
  <2>3. ASSUME NEW r \in Resolution, Extends(r) PROVE Descending(resolutions'[n])
    <3>1. n # FactOf[r]
      BY <1>4, <2>3, ExtendsOthers
    <3>2. resolutions' = [resolutions EXCEPT ![FactOf[r]] = Defined(@, r)]
      BY <2>3 DEF Extends
    <3>3. resolutions'[n] = resolutions[n]
      BY <3>1, <3>2
    <3>4. QED BY <2>1, <3>3
  <2>4. CASE Reset
    <3>1. Len(stack') = 0
      BY <2>4, EmptySeq DEF Reset, Idle
    <3>2. QED BY <3>1
  <2>5. QED BY <2>2, <2>3, <2>4, MovesSort
<1>5. CASE EntersLoop /\ i = Depth
  <2>1. /\ stack'[Depth].fact = stack[Depth].fact
        /\ resolutions' = [resolutions EXCEPT ![stack[Depth].fact] = Sorted(@)]
    BY <1>5 DEF EntersLoop
  <2>2. resolutions'[n] = Sorted(resolutions[n])
    BY <1>3, <1>5, <2>1 DEF Types
  <2>3. QED BY <1>1, <1>3, <2>2, SortedDescends
<1>6. QED BY <1>4, <1>5, MovesLoops

Vectors == Defines /\ NotExtended /\ IteratorsStayValid /\ StaySorted

LEMMA VectorsHolds == Spec => []Vectors
<1>1. Init => NotExtended /\ IteratorsStayValid /\ StaySorted
  BY EmptySeq DEF Init, NotExtended, IteratorsStayValid, StaySorted
<1>2. Defines /\ NotExtended /\ IteratorsStayValid /\ StaySorted /\ [Next]_vars
        => (NotExtended /\ IteratorsStayValid /\ StaySorted)'
  <2>1. ASSUME Defines, NotExtended, IteratorsStayValid, StaySorted, Next
        PROVE  (NotExtended /\ IteratorsStayValid /\ StaySorted)'
    <3>1. Core /\ FromFiles /\ Moves
      BY <2>1, NextMoves DEF Defines, Knows, Core
    <3>2. QED BY <2>1, <3>1, MovesNotExtended, MovesIterators, MovesSorted
  <2>2. ASSUME NotExtended, IteratorsStayValid, StaySorted, UNCHANGED vars
        PROVE  (NotExtended /\ IteratorsStayValid /\ StaySorted)'
    BY <2>2 DEF NotExtended, IteratorsStayValid, StaySorted, Loops, vars, world
  <2>3. QED BY <2>1, <2>2
<1>3. QED BY <1>1, <1>2, DefinesHolds, PTL DEF Spec, Vectors

\* push_back never moves the vector under the loop over _resolutions (fact.cc:100,
\* 236-238), nor the one under the loop over _confines (resolution.cc:69, 109), when the
\* resolutions of the fact are in one file, however files and facts load and ask for
\* each other.
THEOREM IteratorsStayValidCorrect == Spec => []IteratorsStayValid
<1>1. Vectors => IteratorsStayValid
  BY DEF Vectors
<1>2. QED BY VectorsHolds, <1>1, PTL

\* A resolution of such a fact gives the value only after every heavier one was asked
\* (fact.cc:72-77, 99-109).
THEOREM HeavierAskedFirstCorrect == Spec => HeavierAskedFirst
<1> DEFINE P == BlockGives /\ OneFile(Top.fact) =>
                  \A i \in Top.it + 1..Len(resolutions[Top.fact]) :
                     Weight(resolutions[Top.fact][i]) <= Weight(Chosen)
<1>1. ASSUME Vectors, BlockGives, OneFile(Top.fact),
             NEW i \in Top.it + 1..Len(resolutions[Top.fact])
      PROVE  Weight(resolutions[Top.fact][i]) <= Weight(Chosen)
  <2>1. Types /\ StaySorted
    BY <1>1 DEF Vectors, Defines, Knows, Core
  <2>2. /\ stack # <<>> /\ Top.kind = "value" /\ Top.step = "block"
        /\ Top.it <= Len(resolutions[Top.fact])
    BY <1>1 DEF BlockGives, BlockDone, AtResolution, InValue
  <2>3. /\ Top \in ValueFrame /\ Top = stack[Depth] /\ Depth > 0 /\ Depth \in Nat
        /\ Top.fact \in Fact
    BY <2>1, <2>2, TopValue
  <2>4. Depth \in 1..Len(stack) /\ Loops(Depth)
    BY <2>2, <2>3 DEF Loops, Depth
  <2>5. resolutions[Top.fact] \in Seq(Object)
    BY <2>1, <2>3 DEF Types
  <2>6. Len(resolutions[Top.fact]) \in Nat /\ Top.it \in Nat \ {0}
    BY <2>3, <2>5, LenProperties DEF ValueFrame, ValueFields
  <2>7. /\ i \in 1..Len(resolutions[Top.fact]) /\ Top.it \in 1..Len(resolutions[Top.fact])
        /\ Top.it < i
    BY <1>1, <2>2, <2>6
  <2>8. Weight(resolutions[Top.fact][Top.it]) >= Weight(resolutions[Top.fact][i])
    BY <1>1, <2>1, <2>3, <2>4, <2>7 DEF StaySorted
  <2>9. /\ Weight(resolutions[Top.fact][Top.it]) \in Nat
        /\ Weight(resolutions[Top.fact][i]) \in Nat
    BY <2>5, <2>7, ElementOfSeq, WeightType
  <2>10. QED BY <2>8, <2>9 DEF Chosen
<1>2. Vectors => P
  BY <1>1
<1>3. Vectors /\ [Next]_vars => [P]_vars
  BY <1>2
<1>4. Spec => [][P]_vars
  BY VectorsHolds, <1>3, PTL DEF Spec
<1>5. QED BY <1>4 DEF HeavierAskedFirst
=============================================================================
