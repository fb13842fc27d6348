----------------------------- MODULE ChunksProofs -----------------------------
(***************************************************************************)
(* Theorems about Chunks, for every number of chunks, whatever they        *)
(* require of each other and whichever of them raise.                      *)
(*                                                                         *)
(* The inductive invariant is ChunkInv: the resolving marks are those of   *)
(* the calls in progress, a chunk's value is that of its last block, and   *)
(* the loop of value() has collected every chunk it has passed.            *)
(***************************************************************************)
EXTENDS Chunks, SequenceTheorems, TLAPS

-----------------------------------------------------------------------------
(* The inductive invariant *)

\* The marks are those of the calls in s, and no chunk is evaluated twice in it.
Marked(s, marks) ==
    /\ marks = {s[i].chunk : i \in 1..Len(s)}
    /\ \A i, j \in 1..Len(s) : s[i].chunk = s[j].chunk => i = j

\* The value of a chunk is that of its last block.
Current == \A c \in Chunk : value[c] = Nil \/ value[c].parts = {<<c, version[c]>>}

\* What the chunks before n have to give.
MadeBefore(n) == {<<c, version[c]>> : c \in {d \in Chunk : d < n /\ value[d] # Nil}}

\* What the loop has passed is resolved, and is what it has collected.
Collected ==
    at # 0 /\ ~raising =>
        /\ \A c \in Chunk : c < at => c \in resolved
        /\ merged.parts = MadeBefore(at)

\* The calls in progress were begun by the loop for the chunk it is at.
LoopInv ==
    /\ at = 0 => stack = <<>> /\ ~raising
    /\ at # 0 => ~answered
    /\ stack # <<>> => at \in Chunk /\ stack[1].chunk = at
    /\ resolving \cap resolved = {}

ChunkInv == TypeOK /\ LoopInv /\ Collected /\ Current

-----------------------------------------------------------------------------
(* Calls in progress *)

LEMMA MarkedNow == /\ ResolvingMatchesStack <=> Marked(stack, resolving)
                   /\ ResolvingMatchesStack' <=> Marked(stack', resolving')
BY DEF ResolvingMatchesStack, Marked

\* Returning from a call leaves the calls below it.
LEMMA FrontOfSeq ==
  ASSUME NEW S, NEW s \in Seq(S), s # <<>>
  PROVE  /\ Front(s) \in Seq(S) /\ Last(s) \in S
         /\ Len(s) \in Nat \ {0} /\ Len(Front(s)) = Len(s) - 1
         /\ \A i \in 1..(Len(s) - 1) : Front(s)[i] = s[i]
<1>1. Len(s) \in Nat \ {0} /\ \A i \in 1..Len(s) : s[i] \in S
  BY EmptySeq, ElementOfSeq
<1>2. PICK n \in Nat : Len(s) = n + 1
  <2>1. Len(s) - 1 \in Nat /\ Len(s) = (Len(s) - 1) + 1
    BY <1>1
  <2>2. QED BY <2>1
<1>3. Len(s) - 1 = n /\ \A i \in 1..n : s[i] \in S
  BY <1>1, <1>2
<1>4. /\ SubSeq(s, 1, n) \in Seq(S)
      /\ Len(SubSeq(s, 1, n)) = IF 1 <= n THEN n - 1 + 1 ELSE 0
      /\ \A i \in 1..(n - 1 + 1) : SubSeq(s, 1, n)[i] = s[1 + i - 1]
  BY <1>3, SubSeqProperties
<1>5. Len(SubSeq(s, 1, n)) = n
  BY <1>4
<1>6. ASSUME NEW i \in 1..n PROVE SubSeq(s, 1, n)[i] = s[i]
  <2>1. i \in 1..(n - 1 + 1) /\ 1 + i - 1 = i
    OBVIOUS
  <2>2. QED BY <2>1, <1>4
<1>7. Front(s) = SubSeq(s, 1, n)
  BY <1>3 DEF Front
<1>8. QED BY <1>1, <1>2, <1>3, <1>4, <1>5, <1>6, <1>7 DEF Last

\* Marks do not depend on the arguments collected so far.
LEMMA MarkedSame ==
  ASSUME NEW s, NEW t, NEW marks, Marked(s, marks), Len(t) = Len(s),
         \A i \in 1..Len(s) : t[i].chunk = s[i].chunk
  PROVE  Marked(t, marks)
BY DEF Marked

LEMMA MarkedPop ==
  ASSUME NEW s \in Seq(Frame), s # <<>>, NEW marks, Marked(s, marks)
  PROVE  Marked(Front(s), marks \ {Last(s).chunk}) /\ Last(s).chunk \in marks
<1>1. /\ Len(s) \in Nat \ {0} /\ Len(Front(s)) = Len(s) - 1
      /\ \A i \in 1..(Len(s) - 1) : Front(s)[i] = s[i]
  BY FrontOfSeq
<1>2. Len(s) \in 1..Len(s) /\ \A i \in 1..(Len(s) - 1) : i \in 1..Len(s) /\ i # Len(s)
  BY <1>1
<1>3. \A i \in 1..Len(s) : i \in 1..(Len(s) - 1) \/ i = Len(s)
  BY <1>1
<1>4. {Front(s)[i].chunk : i \in 1..(Len(s) - 1)} = marks \ {s[Len(s)].chunk}
  BY <1>1, <1>2, <1>3 DEF Marked
<1>5. \A i, j \in 1..(Len(s) - 1) : Front(s)[i].chunk = Front(s)[j].chunk => i = j
  BY <1>1, <1>2 DEF Marked
<1>6. s[Len(s)].chunk \in marks
  BY <1>2 DEF Marked
<1>7. QED BY <1>1, <1>4, <1>5, <1>6 DEF Marked, Last

LEMMA MarkedPush ==
  ASSUME NEW s \in Seq(Frame), NEW f \in Frame, NEW marks, Marked(s, marks),
         f.chunk \notin marks
  PROVE  Marked(Append(s, f), marks \cup {f.chunk})
<1> DEFINE t == Append(s, f)
<1>1. /\ Len(s) \in Nat /\ Len(t) = Len(s) + 1
      /\ \A i \in 1..Len(s) : t[i] = s[i]
      /\ t[Len(s) + 1] = f
  BY AppendProperties, LenProperties
<1>2. \A i \in 1..Len(t) : i \in 1..Len(s) \/ i = Len(s) + 1
  BY <1>1
<1>3. Len(s) + 1 \in 1..Len(t) /\ \A i \in 1..Len(s) : i \in 1..Len(t)
  BY <1>1
<1> HIDE DEF t
<1>4. {t[i].chunk : i \in 1..Len(t)} = marks \cup {f.chunk}
  BY <1>1, <1>2, <1>3 DEF Marked
<1>5. \A i \in 1..Len(s) : s[i].chunk # f.chunk
  BY DEF Marked
<1>6. \A i, j \in 1..Len(t) : t[i].chunk = t[j].chunk => i = j
  BY <1>1, <1>2, <1>5 DEF Marked
<1>7. QED BY <1>4, <1>6 DEF Marked, t


-----------------------------------------------------------------------------
(* A value is given to the loop or to the chunk that asked for it *)

\* What is merged is a value made of the parts of both.
LEMMA MergeKeeps ==
  ASSUME NEW left \in Value, NEW right \in Value, NEW m \in Merge(left, right)
  PROVE  m \in Value /\ m.parts = left.parts \cup right.parts
<1>1. Nil.parts = {}
  BY DEF Nil
<1>2. CASE right = Nil
  BY <1>1, <1>2 DEF Merge
<1>3. CASE right # Nil /\ left = Nil
  BY <1>1, <1>3 DEF Merge
<1>4. CASE right # Nil /\ left # Nil
  <2>1. m = [left EXCEPT !.parts = left.parts \cup right.parts]
    BY <1>4 DEF Merge
  <2>2. left.parts \cup right.parts \in SUBSET Part
    BY DEF Value
  <2>3. QED BY <2>1, <2>2 DEF Value
<1>5. QED BY <1>2, <1>3, <1>4

\* The loop goes on to the next chunk with all parts, or raises where it is.
LEMMA CollectKeeps ==
  ASSUME at \in Chunk, merged \in Value, raising = FALSE, NEW v \in Value, Collect(v)
  PROVE  /\ merged' \in Value /\ at' \in 1..(NumChunks + 1) /\ raising' \in BOOLEAN
         /\ \/ raising' /\ at' = at
            \/ ~raising' /\ at' = at + 1 /\ merged'.parts = merged.parts \cup v.parts
<1>1. at + 1 \in 1..(NumChunks + 1) /\ at \in 1..(NumChunks + 1)
  BY ChunksAssumption DEF Chunk
<1>2. CASE hasBlock
  <2>1. CASE /\ merged' = [kind |-> "hash", parts |-> merged.parts \cup v.parts]
             /\ at' = at + 1 /\ UNCHANGED raising
    BY <1>1, <2>1 DEF Value, Kind
  <2>2. QED BY <1>2, <2>1 DEF Collect
<1>3. CASE ~hasBlock
  <2>1. CASE merged' \in Merge(merged, v) /\ at' = at + 1 /\ UNCHANGED raising
    BY <1>1, <2>1, MergeKeeps
  <2>2. CASE raising' = TRUE /\ UNCHANGED <<at, merged>>
    BY <1>1, <2>2
  <2>3. QED BY <1>3, <2>1, <2>2 DEF Collect
<1>4. QED BY <1>2, <1>3

\* With the value of the chunk it is at, the loop has collected one chunk more.
LEMMA CollectsMore ==
  ASSUME at \in Chunk, raising = FALSE, Collected, Current', at' = at + 1,
         \A d \in Chunk : d < at => value'[d] = value[d] /\ (d \in resolved => d \in resolved'),
         at \in resolved', version' = version, merged'.parts = merged.parts \cup value'[at].parts
  PROVE  Collected'
<1>1. at \in Nat /\ at # 0 /\ \A d \in Chunk : d \in Nat /\ (d < at + 1 <=> d < at \/ d = at)
  BY ChunksAssumption DEF Chunk
<1>2. merged.parts = MadeBefore(at) /\ \A d \in Chunk : d < at => d \in resolved
  BY <1>1 DEF Collected
<1>3. MadeBefore(at) = {<<c, version[c]>> : c \in {d \in Chunk : d < at /\ value'[d] # Nil}}
  BY DEF MadeBefore
<1>4. Nil.parts = {}
  BY DEF Nil
<1>5. value'[at].parts = IF value'[at] = Nil THEN {} ELSE {<<at, version[at]>>}
  BY <1>4 DEF Current
<1>6. {<<c, version[c]>> : c \in {d \in Chunk : d < at + 1 /\ value'[d] # Nil}} =
          MadeBefore(at) \cup value'[at].parts
  BY <1>1, <1>3, <1>5
<1>7. \A d \in Chunk : d < at' => d \in resolved'
  BY <1>1, <1>2
<1>8. merged'.parts = MadeBefore(at)'
  BY <1>2, <1>6 DEF MadeBefore
<1>9. QED BY <1>7, <1>8 DEF Collected

\* Only the arguments of the caller change.
LEMMA DeliverKeeps ==
  ASSUME NEW s \in Seq(Frame), s # <<>>, NEW v \in Value, Deliver(s, v)
  PROVE  /\ stack' \in Seq(Frame) /\ Len(stack') = Len(s)
         /\ \A i \in 1..Len(s) : stack'[i].chunk = s[i].chunk
         /\ UNCHANGED <<at, merged, raising>>
<1>1. /\ stack' = [s EXCEPT ![Len(s)].args = Append(@, v)]
      /\ UNCHANGED <<at, merged, raising>>
  BY DEF Deliver
<1>2. Len(s) \in 1..Len(s) /\ s[Len(s)] \in Frame /\ \A i \in 1..Len(s) : s[i] \in Frame
  BY FrontOfSeq, ElementOfSeq DEF Last
<1> DEFINE f == [s[Len(s)] EXCEPT !.args = Append(@, v)]
<1>3. f \in Frame /\ f.chunk = s[Len(s)].chunk
  <2>1. Append(s[Len(s)].args, v) \in Seq(Value)
    BY <1>2, AppendProperties DEF Frame
  <2>2. QED BY <1>2, <2>1 DEF Frame
<1>4. stack' = [s EXCEPT ![Len(s)] = f]
  BY <1>1
<1> HIDE DEF f
<1>5. stack' \in Seq(Frame) /\ Len(stack') = Len(s)
      /\ \A i \in 1..Len(s) : stack'[i] = IF i = Len(s) THEN f ELSE s[i]
  BY <1>2, <1>3, <1>4, ExceptSeq
<1>6. QED BY <1>1, <1>3, <1>5

\* Where the next chunk comes from.
LEMMA AskedFor ==
  ASSUME TypeOK, LoopInv, NEW c, Asks(c)
  PROVE  /\ at # 0 /\ at \in 1..(NumChunks + 1) /\ raising = FALSE /\ ~answered
         /\ stack = <<>> => c = at /\ at \in Chunk
<1>1. at \in Nat /\ at # 0 /\ raising = FALSE /\ at \in 1..(NumChunks + 1)
  BY ChunksAssumption DEF Asks, Running, TypeOK
<1>2. stack = <<>> => c = at /\ at <= NumChunks
  BY DEF Asks
<1>3. QED BY <1>1, <1>2, ChunksAssumption DEF LoopInv, Chunk

-----------------------------------------------------------------------------
(* Each step keeps the invariant *)

LEMMA ReturnsValueKeeps ==
  ASSUME ChunkInv, ReturnsValue
  PROVE  ChunkInv'
<1>1. /\ stack \in Seq(Frame) /\ merged \in Value /\ Len(stack) \in Nat
      /\ Marked(stack, resolving)
      /\ UNCHANGED <<defined, chunks, fact>>
  BY MarkedNow, LenProperties DEF ChunkInv, TypeOK, ReturnsValue
<1>2. PICK c \in Chunk \cup {0}, v \in Value :
        Asks(c) /\ Deliver(stack, v) /\ (c = 0 \/ (c \in resolved /\ v = value[c]))
  <2>1. Nil \in Value
    BY DEF Nil, Value, Kind
  <2>2. \A c \in resolved : c \in Chunk /\ value[c] \in Value
    BY DEF ChunkInv, TypeOK
  <2>3. QED BY <2>1, <2>2 DEF ReturnsValue
<1>3. /\ at # 0 /\ at \in 1..(NumChunks + 1) /\ raising = FALSE /\ ~answered
      /\ stack = <<>> => c = at /\ at \in Chunk
  BY <1>2, AskedFor DEF ChunkInv
<1>4. CASE stack = <<>>
  <2>1. stack' = <<>> /\ Collect(v)
    BY <1>2, <1>4 DEF Deliver
  <2>2. at \in Chunk /\ at \in resolved /\ v = value[at] /\ at \in Nat
    BY <1>2, <1>3, <1>4, ChunksAssumption DEF Chunk
  <2>3. /\ merged' \in Value /\ at' \in 1..(NumChunks + 1) /\ raising' \in BOOLEAN
        /\ \/ raising' /\ at' = at
           \/ ~raising' /\ at' = at + 1 /\ merged'.parts = merged.parts \cup v.parts
    BY <1>1, <1>3, <2>1, <2>2, CollectKeeps
  <2>4. at' # 0 /\ at' \in 0..NumChunks + 1
    BY <2>3, ChunksAssumption
  <2>5. TypeOK'
    BY <1>1, <1>4, <2>1, <2>3, <2>4, EmptySeq
       DEF ChunkInv, TypeOK, ResolvingMatchesStack, defined, chunks, fact
  <2>6. LoopInv'
    BY <1>1, <1>3, <2>1, <2>4 DEF ChunkInv, LoopInv, chunks, fact
  <2>7. Current' /\ value' = value /\ resolved' = resolved /\ version' = version
    BY <1>1 DEF ChunkInv, Current, chunks, defined
  <2>8. Collected'
    BY <1>3, <2>2, <2>3, <2>7, CollectsMore DEF ChunkInv, Collected, MadeBefore
  <2>9. QED BY <2>5, <2>6, <2>7, <2>8 DEF ChunkInv
<1>5. CASE stack # <<>>
  <2>1. /\ stack' \in Seq(Frame) /\ Len(stack') = Len(stack)
        /\ \A i \in 1..Len(stack) : stack'[i].chunk = stack[i].chunk
        /\ UNCHANGED <<at, merged, raising>>
    BY <1>1, <1>2, <1>5, DeliverKeeps
  <2>2. Marked(stack', resolving)
    BY <1>1, <2>1, MarkedSame
  <2>3. TypeOK'
    BY <1>1, <2>1, <2>2, MarkedNow DEF ChunkInv, TypeOK, defined, chunks, fact
  <2>4. 1 \in 1..Len(stack)
    BY <1>1, <1>5, EmptySeq, FrontOfSeq
  <2>5. LoopInv'
    BY <1>1, <1>3, <1>5, <2>1, <2>4 DEF ChunkInv, LoopInv, chunks, fact
  <2>6. QED
    BY <1>1, <1>3, <2>1, <2>3, <2>5
       DEF ChunkInv, Collected, MadeBefore, Current, chunks, defined
<1>6. QED BY <1>4, <1>5

LEMMA EntersKeeps ==
  ASSUME ChunkInv, Enters
  PROVE  ChunkInv'
<1>1. PICK c \in Chunk \ (resolving \cup resolved) :
        /\ Asks(c) /\ stack' = Append(stack, [chunk |-> c, args |-> <<>>])
        /\ resolving' = resolving \cup {c}
        /\ UNCHANGED <<at, merged, raising, resolved, value, defined, fact>>
  BY DEF Enters
<1> DEFINE f == [chunk |-> c, args |-> <<>>]
<1>2. f \in Frame /\ f.chunk = c /\ stack \in Seq(Frame) /\ Marked(stack, resolving)
  BY EmptySeq, MarkedNow DEF Frame, ChunkInv, TypeOK
<1>3. /\ at # 0 /\ at \in 1..(NumChunks + 1) /\ raising = FALSE /\ ~answered
      /\ stack = <<>> => c = at /\ at \in Chunk
  BY <1>1, AskedFor DEF ChunkInv
<1>4. stack' = Append(stack, f)
  BY <1>1
<1> HIDE DEF f
<1>5. /\ stack' \in Seq(Frame) /\ Len(stack) \in Nat
      /\ \A i \in 1..Len(stack) : stack'[i] = stack[i]
      /\ stack'[Len(stack) + 1] = f
  BY <1>2, <1>4, AppendProperties, LenProperties
<1>6. Marked(stack', resolving')
  BY <1>1, <1>2, <1>4, MarkedPush
<1>7. TypeOK'
  BY <1>1, <1>5, <1>6, MarkedNow DEF ChunkInv, TypeOK, defined, fact
<1>8. at \in Chunk /\ stack'[1].chunk = at
  <2>1. CASE stack = <<>>
    BY <1>2, <1>3, <1>5, <2>1, EmptySeq
  <2>2. CASE stack # <<>>
    <3>1. 1 \in 1..Len(stack)
      BY <1>2, <1>5, <2>2, FrontOfSeq
    <3>2. QED BY <1>5, <2>2, <3>1 DEF ChunkInv, LoopInv
  <2>3. QED BY <2>1, <2>2
<1>9. LoopInv'
  BY <1>1, <1>3, <1>8 DEF ChunkInv, LoopInv, fact
<1>10. QED
  BY <1>1, <1>3, <1>7, <1>9 DEF ChunkInv, Collected, MadeBefore, Current, defined


LEMMA BlockGivesKeeps ==
  ASSUME ChunkInv, BlockGives
  PROVE  ChunkInv'
<1> DEFINE c == Top.chunk
           s == Front(stack)
<1>1. /\ stack \in Seq(Frame) /\ stack # <<>> /\ at # 0 /\ raising = FALSE /\ ~answered
      /\ Marked(stack, resolving) /\ merged \in Value
      /\ at \in Chunk /\ stack[1].chunk = at
  BY MarkedNow DEF BlockGives, HasArguments, InChunk, Running, ChunkInv, LoopInv, TypeOK
<1>2. /\ s \in Seq(Frame) /\ Top \in Frame /\ Len(stack) \in Nat \ {0}
      /\ Len(s) = Len(stack) - 1 /\ \A i \in 1..(Len(stack) - 1) : s[i] = stack[i]
  BY <1>1, FrontOfSeq DEF Top
<1>3. Marked(s, resolving \ {c}) /\ c \in resolving /\ c \in Chunk /\ c \notin resolved
  <2>1. Marked(s, resolving \ {c}) /\ c \in resolving
    BY <1>1, MarkedPop DEF Top
  <2>2. QED BY <2>1 DEF ChunkInv, LoopInv, TypeOK
<1>4. PICK v \in Value : /\ resolving' = resolving \ {c} /\ resolved' = resolved \cup {c}
                         /\ value' = [value EXCEPT ![c] = v]
                         /\ (v = Nil \/ v.parts = {<<c, version[c]>>})
                         /\ Deliver(s, v) /\ UNCHANGED <<defined, fact>>
  <2>1. version[c] \in 0..MaxRedefinitions
    BY <1>3 DEF ChunkInv, TypeOK
  <2>2. <<c, version[c]>> \in Part
    BY <1>3, <2>1 DEF Part
  <2>3. \A kind \in Kind : [kind |-> kind, parts |-> {<<c, version[c]>>}] \in Value
    BY <2>2 DEF Value
  <2>4. Nil \in Value
    BY DEF Nil, Value, Kind
  <2>5. QED BY <2>3, <2>4 DEF BlockGives
<1>5. /\ value' \in [Chunk -> Value] /\ value'[c] = v
      /\ \A d \in Chunk \ {c} : value'[d] = value[d]
      /\ resolving' \subseteq Chunk /\ resolved' \subseteq Chunk
      /\ resolving' \cap resolved' = {}
      /\ Current' /\ version' = version
  BY <1>3, <1>4 DEF ChunkInv, TypeOK, LoopInv, Current, defined
<1> HIDE DEF c, s
<1>6. CASE s = <<>>
  <2>1. stack' = <<>> /\ Collect(v)
    BY <1>4, <1>6 DEF Deliver
  <2>2. c = at
    <3>1. Len(stack) = 1
      BY <1>2, <1>6, EmptySeq
    <3>2. QED BY <1>1, <3>1 DEF c, Top, Last
  <2>3. /\ merged' \in Value /\ at' \in 1..(NumChunks + 1) /\ raising' \in BOOLEAN
        /\ \/ raising' /\ at' = at
           \/ ~raising' /\ at' = at + 1 /\ merged'.parts = merged.parts \cup v.parts
    BY <1>1, <2>1, CollectKeeps
  <2>4. at' # 0 /\ at' \in 0..NumChunks + 1
    BY <2>3, ChunksAssumption
  <2>5. TypeOK'
    BY <1>3, <1>4, <1>5, <1>6, <2>1, <2>3, <2>4, EmptySeq, MarkedNow
       DEF ChunkInv, TypeOK, defined, fact
  <2>6. LoopInv'
    BY <1>1, <1>4, <1>5, <2>1, <2>4 DEF ChunkInv, LoopInv, fact
  <2>7. \A d \in Chunk : d < at => d # c
    BY <1>1, <2>2, ChunksAssumption DEF Chunk
  <2>8. Collected'
    <3>1. CASE raising'
      BY <3>1 DEF Collected
    <3>2. CASE ~raising'
      BY <1>1, <1>4, <1>5, <2>2, <2>3, <2>7, <3>2, CollectsMore DEF ChunkInv
    <3>3. QED BY <3>1, <3>2
  <2>9. QED BY <1>5, <2>5, <2>6, <2>8 DEF ChunkInv
<1>7. CASE s # <<>>
  <2>1. /\ stack' \in Seq(Frame) /\ Len(stack') = Len(s)
        /\ \A i \in 1..Len(s) : stack'[i].chunk = s[i].chunk
        /\ UNCHANGED <<at, merged, raising>>
    BY <1>2, <1>4, <1>7, DeliverKeeps
  <2>2. Marked(stack', resolving')
    BY <1>3, <1>4, <2>1, MarkedSame
  <2>3. TypeOK'
    BY <1>4, <1>5, <2>1, <2>2, MarkedNow DEF ChunkInv, TypeOK, defined, fact
  <2>4. 1 \in 1..Len(s) /\ 1 \in 1..(Len(stack) - 1)
    BY <1>2, <1>7, FrontOfSeq
  <2>5. stack'[1].chunk = at
    BY <1>1, <1>2, <2>1, <2>4
  <2>6. LoopInv'
    BY <1>1, <1>4, <1>5, <2>1, <2>5 DEF ChunkInv, LoopInv, fact
  <2>7. \A d \in Chunk : d < at => d # c
    BY <1>1, <1>3 DEF ChunkInv, Collected
  <2>8. MadeBefore(at)' = MadeBefore(at)
    BY <1>5, <2>1, <2>7 DEF MadeBefore
  <2>9. Collected'
    BY <1>4, <2>1, <2>8 DEF ChunkInv, Collected
  <2>10. QED BY <1>5, <2>3, <2>6, <2>9 DEF ChunkInv
<1>8. QED BY <1>6, <1>7

\* A Ruby exception leaves the calls one by one, and the fact rescues it.
LEMMA UnwindsKeeps ==
  ASSUME ChunkInv, Unwinds
  PROVE  ChunkInv'
<1>1. /\ stack \in Seq(Frame) /\ stack # <<>> /\ raising /\ at # 0
      /\ Marked(stack, resolving) /\ at \in Chunk /\ stack[1].chunk = at
  BY MarkedNow DEF Unwinds, ChunkInv, LoopInv, TypeOK
<1>2. /\ resolving' = resolving \ {Top.chunk} /\ stack' = Front(stack)
      /\ UNCHANGED <<at, merged, raising, resolved, value, defined, fact>>
  BY DEF Unwinds
<1>3. Marked(stack', resolving') /\ stack' \in Seq(Frame)
  BY <1>1, <1>2, MarkedPop, FrontOfSeq DEF Top
<1>4. stack' # <<>> => stack'[1].chunk = at
  <2>1. SUFFICES ASSUME stack' # <<>> PROVE stack'[1].chunk = at
    OBVIOUS
  <2>2. /\ Len(stack) \in Nat /\ Len(stack') = Len(stack) - 1
        /\ \A i \in 1..(Len(stack) - 1) : stack'[i] = stack[i]
    BY <1>1, <1>2, FrontOfSeq
  <2>3. Len(stack') \in Nat \ {0}
    BY <1>3, <2>1, FrontOfSeq
  <2>4. 1 \in 1..(Len(stack) - 1)
    BY <2>2, <2>3
  <2>5. QED BY <1>1, <2>2, <2>4
<1>5. TypeOK'
  BY <1>2, <1>3, MarkedNow DEF ChunkInv, TypeOK, defined, fact
<1>6. QED
  BY <1>1, <1>2, <1>4, <1>5 DEF ChunkInv, LoopInv, Collected, Current, defined, fact

LEMMA RaisesKeeps ==
  ASSUME ChunkInv, at # 0, raising' = TRUE,
         UNCHANGED <<at, merged, stack, defined, chunks, fact>>
  PROVE  ChunkInv'
BY DEF ChunkInv, TypeOK, ResolvingMatchesStack, LoopInv, Collected, Current, defined, chunks,
       fact

\* The fact takes the value when every chunk was passed, or nil.
LEMMA AnswersKeeps ==
  ASSUME ChunkInv, NEW v \in Value, Answers(v), stack = <<>>
  PROVE  ChunkInv'
<1>1. /\ answered' = TRUE /\ answer' = v /\ at' = 0 /\ merged' = Nil /\ raising' = FALSE
      /\ UNCHANGED <<stack, defined, chunks>>
  BY DEF Answers
<1>2. Nil \in Value /\ 0 \in 0..NumChunks + 1
  BY ChunksAssumption DEF Nil, Value, Kind
<1>3. TypeOK'
  <2>1. Marked(stack', resolving')
    BY <1>1, MarkedNow DEF ChunkInv, TypeOK, chunks
  <2>2. QED BY <1>1, <1>2, <2>1, MarkedNow DEF ChunkInv, TypeOK, defined, chunks
<1>4. LoopInv' /\ Collected' /\ Current'
  BY <1>1 DEF ChunkInv, LoopInv, Collected, Current, chunks, defined
<1>5. QED BY <1>3, <1>4 DEF ChunkInv

\* At its end the loop has passed every chunk.
LEMMA LoopEnds ==
  ASSUME ChunkInv, at = NumChunks + 1, raising = FALSE
  PROVE  /\ resolved = Chunk
         /\ merged.parts = {<<c, version[c]>> : c \in {d \in Chunk : value[d] # Nil}}
<1>1. at # 0 /\ \A d \in Chunk : d < at
  BY ChunksAssumption DEF Chunk
<1>2. resolved \subseteq Chunk
  BY DEF ChunkInv, TypeOK
<1>3. (\A c \in Chunk : c \in resolved) /\ merged.parts = MadeBefore(at)
  BY <1>1 DEF ChunkInv, Collected
<1>4. QED BY <1>1, <1>2, <1>3 DEF MadeBefore

LEMMA NextKeeps == ChunkInv /\ [Next]_vars => ChunkInv'
<1> SUFFICES ASSUME ChunkInv, [Next]_vars PROVE ChunkInv'
  OBVIOUS
<1>0. Nil \in Value /\ Nil.parts = {} /\ NumChunks \in Nat
  BY ChunksAssumption DEF Nil, Value, Kind
<1>1. CASE CycleRaises
  BY <1>1, RaisesKeeps DEF CycleRaises, Asks, Running
<1>2. CASE ReturnsValue
  BY <1>2, ReturnsValueKeeps
<1>3. CASE Enters
  BY <1>3, EntersKeeps
<1>4. CASE BlockGives
  BY <1>4, BlockGivesKeeps
<1>5. CASE BlockRaises
  BY <1>5, RaisesKeeps DEF BlockRaises, HasArguments, InChunk, Running
<1>6. CASE Unwinds
  BY <1>6, UnwindsKeeps
<1>7. CASE Rescued
  BY <1>0, <1>7, AnswersKeeps DEF Rescued
<1>8. CASE Returns
  <2>1. /\ at # 0 /\ ~raising /\ stack = <<>> /\ merged \in Value
        /\ at \in 0..NumChunks + 1 /\ at > NumChunks
    BY <1>8 DEF Returns, Running, ChunkInv, TypeOK
  <2>2. CASE Answers(merged)
    BY <2>1, <2>2, AnswersKeeps
  <2>3. QED BY <1>8, <2>1, <2>2, RaisesKeeps DEF Returns
<1>9. CASE Begins
  <2>1. /\ at = 0 /\ ~answered /\ at' = 1 /\ merged' = Nil
        /\ UNCHANGED <<stack, raising, defined, chunks, fact>>
    BY <1>9 DEF Begins
  <2>2. 1 \in 0..NumChunks + 1 /\ \A c \in Chunk : ~(c < 1)
    BY <1>0 DEF Chunk
  <2>3. TypeOK'
    BY <1>0, <2>1, <2>2 DEF ChunkInv, TypeOK, ResolvingMatchesStack, defined, chunks, fact
  <2>4. LoopInv'
    BY <2>1 DEF ChunkInv, LoopInv, chunks, fact
  <2>5. QED
    BY <1>0, <2>1, <2>2, <2>3, <2>4
       DEF ChunkInv, Collected, MadeBefore, Current, chunks, defined
<1>10. CASE Flush
  <2>1. TypeOK'
    BY <1>0, <1>10 DEF Flush, ChunkInv, TypeOK, ResolvingMatchesStack, defined, chunks
  <2>2. LoopInv' /\ Collected' /\ Current'
    BY <1>10 DEF Flush, ChunkInv, LoopInv, Collected, Current, chunks, defined
  <2>3. QED BY <2>1, <2>2 DEF ChunkInv
<1>11. CASE DefineChunk
  <2>1. PICK c \in Chunk : /\ Redefines(c)
                           /\ resolved' = resolved \ {c}
                           /\ value' = [value EXCEPT ![c] = Nil]
                           /\ UNCHANGED resolving
    BY <1>11 DEF DefineChunk
  <2>2. PICK list \in RequireLists : requires' = [requires EXCEPT ![c] = list]
    BY <2>1 DEF Redefines
  <2>3. /\ at = 0 /\ version[c] < MaxRedefinitions
        /\ version' = [version EXCEPT ![c] = version[c] + 1]
        /\ UNCHANGED <<hasBlock, at, merged, stack, raising, fact>>
    BY <2>1 DEF Redefines
  <2>4. version \in [Chunk -> 0..MaxRedefinitions] /\ version' \in [Chunk -> 0..MaxRedefinitions]
    <3>1. version \in [Chunk -> 0..MaxRedefinitions]
      BY DEF ChunkInv, TypeOK
    <3>2. version[c] + 1 \in 0..MaxRedefinitions
      BY <2>3, <3>1, ChunksAssumption
    <3>3. QED BY <2>3, <3>1, <3>2
  <2>5. TypeOK'
    BY <1>0, <2>1, <2>2, <2>3, <2>4 DEF ChunkInv, TypeOK, ResolvingMatchesStack, fact
  <2>6. LoopInv' /\ Collected'
    BY <2>1, <2>3 DEF ChunkInv, LoopInv, Collected, fact
  <2>7. Current'
    BY <2>1, <2>3, <2>4 DEF ChunkInv, TypeOK, Current
  <2>8. QED BY <2>5, <2>6, <2>7 DEF ChunkInv
<1>12. CASE UNCHANGED vars
  <2>1. TypeOK'
    BY <1>12 DEF vars, ChunkInv, TypeOK, ResolvingMatchesStack, defined, chunks, fact
  <2>2. LoopInv' /\ Collected' /\ Current'
    BY <1>12 DEF vars, ChunkInv, LoopInv, Collected, MadeBefore, Current, defined, chunks, fact
  <2>3. QED BY <2>1, <2>2 DEF ChunkInv
<1>13. QED
  BY <1>1, <1>2, <1>3, <1>4, <1>5, <1>6, <1>7, <1>8, <1>9, <1>10, <1>11, <1>12
     DEF Next, Step

LEMMA ChunkInvCorrect == Spec => []ChunkInv
<1>1. Init => ChunkInv
  <2>1. SUFFICES ASSUME Init PROVE ChunkInv
    OBVIOUS
  <2>2. Nil \in Value /\ 0 \in 0..NumChunks + 1 /\ 0 \in 0..MaxRedefinitions
    BY ChunksAssumption DEF Nil, Value, Kind
  <2>3. Marked(<<>>, {})
    BY EmptySeq DEF Marked
  <2>4. TypeOK
    BY <2>1, <2>2, <2>3, MarkedNow, EmptySeq DEF Init, TypeOK
  <2>5. QED
    BY <2>1, <2>4 DEF Init, ChunkInv, LoopInv, Collected, Current
<1>2. QED BY <1>1, NextKeeps, PTL DEF Spec

-----------------------------------------------------------------------------
(* The theorems *)

\* The marks of chunk.cc are those of the evaluations in progress, however an
\* exception left them, so a cycle is reported only where there is one.
THEOREM TypeCorrect == Spec => []TypeOK
BY ChunkInvCorrect, PTL DEF ChunkInv

\* Only the end of the loop gives the fact a value that is not nil.
LEMMA AnswerStep ==
  ASSUME ChunkInv, [Next]_vars, ~answered, answered', answer' # Nil
  PROVE  /\ resolved = Chunk
         /\ answer'.parts = {<<c, version[c]>> : c \in {d \in Chunk : value[d] # Nil}}
<1>1. Returns
  <2>1. answered' = answered \/ answer' = Nil \/ Returns
    BY DEF Next, Step, vars, fact, CycleRaises, ReturnsValue, Enters, BlockGives, BlockRaises,
           Unwinds, Rescued, Answers, Begins, Flush, DefineChunk, Redefines
  <2>2. QED BY <2>1
<1>2. /\ Answers(merged) /\ ~raising /\ at > NumChunks /\ at \in 0..NumChunks + 1
      /\ raising \in BOOLEAN
  BY <1>1 DEF Returns, Running, fact, ChunkInv, TypeOK
<1>3. at = NumChunks + 1 /\ raising = FALSE
  BY <1>2, ChunksAssumption
<1>4. answer' = merged
  BY <1>2 DEF Answers
<1>5. QED BY <1>3, <1>4, LoopEnds

\* An aggregate value that was not rescued is made of every chunk as it was last defined.
THEOREM AnswerHasEveryChunkCorrect == Spec => AnswerHasEveryChunk
<1>1. ChunkInv /\ [Next]_vars =>
        [ ~answered /\ answered' /\ answer' # Nil =>
            /\ resolved = Chunk
            /\ answer'.parts = {<<c, version[c]>> : c \in {d \in Chunk : value[d] # Nil}} ]_vars
  BY AnswerStep
<1>2. QED BY <1>1, ChunkInvCorrect, PTL DEF Spec, AnswerHasEveryChunk
=============================================================================
