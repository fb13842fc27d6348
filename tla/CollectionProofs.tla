-------------------------- MODULE CollectionProofs --------------------------
(***************************************************************************)
(* Theorems about Collection, for every graph of resolvers.                *)
(*                                                                         *)
(* A resolver is entered from one of three loops, and each takes it from   *)
(* an index; because the indexes agree it is then in `resolvers`, hence    *)
(* not in `resolved`, and Forget takes it off all of them:                 *)
(*     TypeOK /\ Fresh /\ IndexesAgree /\ ResolvedOnce                     *)
(* is inductive.  What a lookup has done when it returns, and that its     *)
(* iterators stay valid, rest on two more invariants: LookupsAhead         *)
(* (whatever is registered for the name of a lookup in progress lies at or *)
(* after its iterator) and ValidIfApart (an iterator kept across resolve() *)
(* is at the end of its range, or at a node that no call above it comes    *)
(* to).                                                                    *)
(***************************************************************************)
EXTENDS Collection, FiniteSetTheorems, SequenceTheorems, WellFoundedInduction, TLAPS

-----------------------------------------------------------------------------
(* Least elements *)

\* The least element of a set of naturals.
Least == INSTANCE FoldFacts WITH op <- LAMBDA x, y : y

\* FrontOf returns the least element of a non-empty list of resolvers.
LEMMA FrontOfIsLeast ==
  ASSUME NEW rs \in SUBSET Resolver, rs # {}
  PROVE  FrontOf(rs) \in rs /\ \A s \in rs : FrontOf(rs) <= s
<1>1. rs \in SUBSET Nat
  BY CollectionAssumption DEF Resolver
<1>2. \E r \in rs : \A s \in rs : r <= s
  BY <1>1, Least!NatMin
<1>3. QED BY <1>2 DEF FrontOf

\* FirstOf returns the least node of a non-empty set of nodes.
LEMMA FirstOfIsLeast ==
  ASSUME NEW nodes \in SUBSET Node, nodes # {}
  PROVE  /\ FirstOf(nodes) \in nodes
         /\ \A b \in nodes : FirstOf(nodes) = b \/ Before(FirstOf(nodes), b)
<1> DEFINE keys == {a[1] : a \in nodes}
<1>1. PICK n \in keys : \A k \in keys : n <= k
  <2>1. keys \in SUBSET Nat /\ keys # {}
    BY CollectionAssumption DEF Node, Name, Resolver
  <2>2. QED BY <2>1, Least!NatMin
<1> DEFINE mine == {a \in nodes : a[1] = n}
           ids == {a[2] : a \in mine}
<1>2. PICK r \in ids : \A k \in ids : r <= k
  <2>1. ids \in SUBSET Nat /\ ids # {}
    BY CollectionAssumption, <1>1 DEF Node, Name, Resolver
  <2>2. QED BY <2>1, Least!NatMin
<1>3. PICK a \in mine : a[2] = r
  BY <1>2
<1>4. ASSUME NEW b \in nodes PROVE a = b \/ Before(a, b)
  <2>1. /\ a = <<a[1], a[2]>> /\ b = <<b[1], b[2]>>
        /\ a[1] \in Nat /\ a[2] \in Nat /\ b[1] \in Nat /\ b[2] \in Nat
    BY SMTT(20), CollectionAssumption DEF Node, Name, Resolver
  <2>2. a[1] = n /\ n <= b[1]
    BY <1>1, <1>3
  <2>3. b[1] = n => a[2] <= b[2]
    BY <1>2, <1>3
  <2>4. QED BY <2>1, <2>2, <2>3 DEF Before
<1>5. a \in nodes
  BY <1>3
<1>6. QED BY <1>4, <1>5 DEF FirstOf

\* FirstOf is an iterator and FrontOf a position of the pattern list.
LEMMA FirstOfType ==
  ASSUME NEW nodes \in SUBSET Node
  PROVE  FirstOf(nodes) \in Iterator
BY FirstOfIsLeast DEF FirstOf, Iterator

LEMMA FrontOfType ==
  ASSUME NEW rs \in SUBSET Resolver
  PROVE  FrontOf(rs) \in Resolver \cup {NoPattern}
BY FrontOfIsLeast DEF FrontOf

-----------------------------------------------------------------------------
(* The call stack *)

\* A pending lookup of n can be pushed.
LEMMA LookupType ==
  ASSUME resolverMap \subseteq Node, NEW n \in Name
  PROVE  Lookup(n) \in LookupFrame
<1>1. FirstOf({a \in resolverMap : a[1] >= n}) \in Iterator
  BY FirstOfType
<1>2. FirstOf({a \in resolverMap : a[1] > n}) \in Iterator
  BY FirstOfType
<1>3. QED BY <1>1, <1>2 DEF Lookup, LookupFrame

\* The kind of a frame says which of the frame types it belongs to.
LEMMA FrameKinds ==
  ASSUME NEW f \in Frame
  PROVE  /\ f.kind = "lookup" => f \in LookupFrame
         /\ f.kind = "run"    => f \in RunFrame
         /\ f.kind = "add"    => f \in AddFrame
         /\ f.kind = "remove" => f \in RemoveFrame
         /\ f.kind = "drain"  => f \in DrainFrame
         /\ f.kind = "write"  => f \in WriteFrame
<1>1. /\ \A g \in LookupFrame : g.kind = "lookup"
      /\ \A g \in RunFrame : g.kind = "run"
      /\ \A g \in AddFrame : g.kind = "add"
      /\ \A g \in RemoveFrame : g.kind = "remove"
      /\ \A g \in DrainFrame : g.kind = "drain"
      /\ \A g \in WriteFrame : g.kind = "write"
  BY DEF LookupFrame, RunFrame, AddFrame, RemoveFrame, DrainFrame, WriteFrame
<1>2. QED BY <1>1 DEF Frame

\* Dropping the last element of a sequence leaves the others.
LEMMA PopSeq ==
  ASSUME NEW S, NEW s \in Seq(S), s # <<>>
  PROVE  /\ SubSeq(s, 1, Len(s) - 1) \in Seq(S)
         /\ Len(s) \in Nat \ {0}
         /\ Len(SubSeq(s, 1, Len(s) - 1)) = Len(s) - 1
         /\ \A i \in 1..(Len(s) - 1) : SubSeq(s, 1, Len(s) - 1)[i] = s[i]
         /\ s[Len(s)] \in S
<1>1. Len(s) \in Nat \ {0} /\ \A i \in 1..Len(s) : s[i] \in S
  BY EmptySeq, ElementOfSeq
<1>2. PICK n \in Nat : Len(s) = n + 1
  <2>1. Len(s) - 1 \in Nat /\ Len(s) = (Len(s) - 1) + 1
    BY <1>1
  <2>2. QED BY <2>1
<1>3. Len(s) - 1 = n
  BY <1>2
<1>4. \A i \in 1..n : s[i] \in S
  BY <1>1, <1>2
<1>5. /\ SubSeq(s, 1, n) \in Seq(S)
      /\ Len(SubSeq(s, 1, n)) = IF 1 <= n THEN n - 1 + 1 ELSE 0
      /\ \A i \in 1..(n - 1 + 1) : SubSeq(s, 1, n)[i] = s[1 + i - 1]
  BY <1>4, SubSeqProperties
<1>6. Len(SubSeq(s, 1, n)) = n
  BY <1>5
<1>7. ASSUME NEW i \in 1..n PROVE SubSeq(s, 1, n)[i] = s[i]
  <2>1. i \in 1..(n - 1 + 1) /\ 1 + i - 1 = i
    OBVIOUS
  <2>2. QED BY <2>1, <1>5
<1>8. QED BY <1>1, <1>2, <1>3, <1>5, <1>6, <1>7

\* Popping a frame leaves the frames below it.
LEMMA PopStack ==
  ASSUME stack \in Seq(Frame), stack # <<>>
  PROVE  /\ Pop \in Seq(Frame)
         /\ Len(stack) \in Nat \ {0}
         /\ Len(Pop) = Len(stack) - 1
         /\ \A i \in 1..(Len(stack) - 1) : Pop[i] = stack[i]
         /\ Top \in Frame
BY PopSeq DEF Pop, Top

\* Pushing a frame on a call stack.
LEMMA PushFrame ==
  ASSUME NEW s \in Seq(Frame), NEW f \in Frame
  PROVE  /\ Append(s, f) \in Seq(Frame)
         /\ Append(s, f) # <<>>
         /\ Len(s) \in Nat
         /\ Len(Append(s, f)) = Len(s) + 1
         /\ \A i \in 1..Len(s) : Append(s, f)[i] = s[i]
         /\ Append(s, f)[Len(s) + 1] = f
BY AppendProperties, LenProperties

\* Replacing the top frame.
LEMMA ReplaceTop ==
  ASSUME stack \in Seq(Frame), stack # <<>>, NEW f \in Frame
  PROVE  /\ Replace(f) \in Seq(Frame)
         /\ Len(Replace(f)) = Len(stack)
         /\ Len(stack) \in Nat \ {0}
         /\ \A i \in 1..(Len(stack) - 1) : Replace(f)[i] = stack[i]
         /\ Replace(f)[Len(stack)] = f
<1>1. /\ Pop \in Seq(Frame) /\ Len(Pop) = Len(stack) - 1
      /\ Len(stack) \in Nat \ {0}
      /\ \A i \in 1..(Len(stack) - 1) : Pop[i] = stack[i]
  BY PopStack
<1>2. /\ Append(Pop, f) \in Seq(Frame)
      /\ Len(Append(Pop, f)) = Len(Pop) + 1
      /\ \A i \in 1..Len(Pop) : Append(Pop, f)[i] = Pop[i]
      /\ Append(Pop, f)[Len(Pop) + 1] = f
  BY <1>1, PushFrame
<1>3. QED BY <1>1, <1>2 DEF Replace

-----------------------------------------------------------------------------
(* Type correctness *)

\* A step that only changes the call stack keeps the types.
LEMMA StackOnlyType ==
  ASSUME TypeOK, stack' \in Seq(Frame), UNCHANGED <<facts, index, rest>>
  PROVE  TypeOK'
BY DEF TypeOK, index, rest, Node

\* Entering a resolver keeps the types.
LEMMA ResolveType ==
  ASSUME TypeOK, NEW r \in Resolver, NEW callers \in Seq(Frame), Resolve(r, callers)
  PROVE  TypeOK'
<1>1. Run(r) \in Frame
  BY DEF Run, Frame, RunFrame
<1>2. stack' \in Seq(Frame)
  BY <1>1, PushFrame DEF Resolve
<1>3. QED BY <1>2 DEF TypeOK, Resolve, Forget

\* The two-frame pushes of add and remove are call stacks.
LEMMA AddCallType ==
  ASSUME TypeOK, NEW callers \in Seq(Frame), NEW n \in Name,
         NEW v \in Value \cup {Absent}, AddCall(callers, n, v)
  PROVE  stack' \in Seq(Frame)
<1>1. [kind |-> "add", name |-> n, val |-> v] \in Frame
  BY DEF Frame, AddFrame
<1>2. Lookup(n) \in Frame
  BY LookupType DEF Frame, TypeOK
<1>3. QED BY <1>1, <1>2, PushFrame DEF AddCall

LEMMA RemoveCallType ==
  ASSUME TypeOK, NEW callers \in Seq(Frame), NEW n \in Name, RemoveCall(callers, n)
  PROVE  stack' \in Seq(Frame)
<1>1. [kind |-> "remove", name |-> n] \in Frame
  BY DEF Frame, RemoveFrame
<1>2. Lookup(n) \in Frame
  BY LookupType DEF Frame, TypeOK
<1>3. QED BY <1>1, <1>2, PushFrame DEF RemoveCall

\* Every call of the application keeps the types.
LEMMA CallType ==
  ASSUME TypeOK, Call
  PROVE  TypeOK'
<1>0. stack \in Seq(Frame)
  BY DEF TypeOK
<1>1. CASE AddResolver
  BY <1>1, CollectionAssumption
     DEF TypeOK, AddResolver, Resolver, Node, Idle
<1>2. CASE \E r \in Resolver : RemoveResolver(r)
  BY <1>2 DEF TypeOK, RemoveResolver, Forget, rest
<1>3. CASE Clear
  BY <1>3 DEF TypeOK, Clear, rest
<1>4. ASSUME NEW n \in Asked, Get(n) PROVE TypeOK'
  <2>1. n \in Name
    BY CollectionAssumption
  <2>2. Lookup(n) \in Frame
    BY <2>1, LookupType DEF Frame, TypeOK
  <2>3. stack' \in Seq(Frame)
    BY <1>0, <1>4, <2>2, PushFrame DEF Get, Push
  <2>4. QED BY <1>4, <2>3, StackOnlyType DEF Get
<1>5. ASSUME NEW n \in Supplied, Remove(n) PROVE TypeOK'
  <2>1. n \in Name
    BY CollectionAssumption
  <2>2. stack' \in Seq(Frame)
    BY <1>0, <1>5, <2>1, RemoveCallType DEF Remove
  <2>3. QED BY <1>5, <2>2, StackOnlyType DEF Remove
<1>6. ASSUME NEW n \in Supplied, NEW v \in {App, Absent}, Add(n, v) PROVE TypeOK'
  <2>1. n \in Name /\ v \in Value \cup {Absent}
    BY CollectionAssumption DEF Value
  <2>2. stack' \in Seq(Frame)
    BY <1>0, <1>6, <2>1, AddCallType DEF Add
  <2>3. QED BY <1>6, <2>2, StackOnlyType DEF Add
<1>7. CASE ResolveAll
  <2>1. [kind |-> "drain"] \in Frame
    BY DEF Frame, DrainFrame
  <2>2. stack' \in Seq(Frame)
    BY <1>0, <1>7, <2>1, PushFrame DEF ResolveAll, Push
  <2>3. QED BY <1>7, <2>2, StackOnlyType DEF ResolveAll
<1>8. ASSUME NEW qs \in Queries, Write(qs) PROVE TypeOK'
  <2>1. qs \in SUBSET Name
    BY CollectionAssumption
  <2>2. [kind |-> "write", asked |-> {}, todo |-> qs, held |-> {}] \in Frame
    BY <2>1 DEF Frame, WriteFrame
  <2>3. stack' \in Seq(Frame)
    BY <1>0, <1>8, <2>2, PushFrame DEF Write, Push
  <2>4. QED BY <1>8, <2>3, StackOnlyType DEF Write
<1>9. QED BY <1>1, <1>2, <1>3, <1>4, <1>5, <1>6, <1>7, <1>8 DEF Call

\* The frame a lookup, a running resolver, an add or a write has on top.
LEMMA TopLookup ==
  ASSUME TypeOK, InCall("lookup") PROVE Top \in LookupFrame /\ stack # <<>>
BY PopStack, FrameKinds DEF TypeOK, InCall

LEMMA TopRun ==
  ASSUME TypeOK, InCall("run") PROVE Top \in RunFrame /\ stack # <<>>
BY PopStack, FrameKinds DEF TypeOK, InCall

\* Each of the three loops enters a resolver with a well-formed call stack.
LEMMA LoopType ==
  ASSUME TypeOK, ResolveByName \/ ResolveByPattern \/ ResolveFront
  PROVE  \E r \in Resolver, callers \in Seq(Frame) : Resolve(r, callers)
<1>1. CASE ResolveByName
  <2> DEFINE next == FirstOf({a \in resolverMap : Before(Top.it, a)})
             f == [Top EXCEPT !.it = next]
  <2>1. Top \in LookupFrame /\ stack # <<>>
    BY <1>1, TopLookup DEF ResolveByName
  <2>2. Top.it \in Node /\ next \in Iterator
    BY <1>1, FirstOfType DEF ResolveByName, TypeOK
  <2>3. f \in Frame
    BY <2>1, <2>2 DEF LookupFrame, Frame
  <2>4. Replace(f) \in Seq(Frame)
    BY <2>1, <2>3, ReplaceTop DEF TypeOK
  <2>5. Top.it[2] \in Resolver
    BY <2>2 DEF Node
  <2>6. Resolve(Top.it[2], Replace(f))
    BY <1>1 DEF ResolveByName
  <2>7. QED BY <2>4, <2>5, <2>6
<1>2. CASE ResolveByPattern
  <2> DEFINE r == FrontOf(MatchesLeft)
             next == FrontOf({s \in patternResolvers : s > r})
             f == [Top EXCEPT !.pit = next]
  <2>1. Top \in LookupFrame /\ stack # <<>>
    BY <1>2, TopLookup DEF ResolveByPattern
  <2>2. r \in Resolver
    BY <1>2, FrontOfIsLeast DEF ResolveByPattern, MatchesLeft, TypeOK
  <2>3. next \in Resolver \cup {NoPattern}
    BY FrontOfType DEF TypeOK
  <2>4. f \in Frame
    BY <2>1, <2>3 DEF LookupFrame, Frame
  <2>5. Replace(f) \in Seq(Frame)
    BY <2>1, <2>4, ReplaceTop DEF TypeOK
  <2>6. Resolve(r, Replace(f))
    BY <1>2 DEF ResolveByPattern
  <2>7. QED BY <2>2, <2>5, <2>6
<1>3. CASE ResolveFront
  <2>1. FrontOf(resolvers) \in Resolver
    BY <1>3, FrontOfIsLeast DEF ResolveFront, TypeOK
  <2>2. QED BY <1>3, <2>1 DEF ResolveFront, TypeOK
<1>4. QED BY <1>1, <1>2, <1>3

\* Every step of a call in progress keeps the types.
LEMMA StepType ==
  ASSUME TypeOK, Step
  PROVE  TypeOK'
<1>0. stack \in Seq(Frame) /\ <<>> \in Seq(Frame) /\ resolverMap \subseteq Node
  BY EmptySeq DEF TypeOK
<1>1. stack # <<>> => Pop \in Seq(Frame) /\ Top \in Frame
  BY <1>0, PopStack
<1>2. CASE ResolveByName \/ ResolveByPattern \/ ResolveFront
  BY <1>2, LoopType, ResolveType
<1>3. CASE BeginPatterns
  <2>1. Top \in LookupFrame /\ stack # <<>>
    BY <1>3, TopLookup DEF BeginPatterns
  <2>2. FrontOf(patternResolvers) \in Resolver \cup {NoPattern}
    BY FrontOfType DEF TypeOK
  <2>3. [Top EXCEPT !.phase = "patterns", !.pit = FrontOf(patternResolvers)] \in Frame
    BY <2>1, <2>2 DEF LookupFrame, Frame
  <2>4. stack' \in Seq(Frame)
    BY <1>0, <1>3, <2>1, <2>3, ReplaceTop DEF BeginPatterns
  <2>5. QED BY <1>3, <2>4, StackOnlyType DEF BeginPatterns
<1>4. CASE LookupReturns
  <2>1. Top \in LookupFrame /\ stack # <<>>
    BY <1>4, TopLookup DEF LookupReturns
  <2>2. Top.name \in Name
    BY <2>1 DEF LookupFrame
  <2>3. seen' \subseteq Name
    BY <1>4, <2>2 DEF LookupReturns, TypeOK
  <2>4. stack' \in Seq(Frame)
    BY <1>1, <1>4, <2>1 DEF LookupReturns
  <2>5. QED BY <1>4, <2>3, <2>4 DEF LookupReturns, TypeOK, index, Node
<1>5. CASE DereferenceInvalid
  <2>1. stack # <<>>
    BY <1>5 DEF DereferenceInvalid, InvalidIterator, InCall
  <2>2. stack' \in Seq(Frame) /\ crashed' \in BOOLEAN
    BY <1>0, <1>1, <1>5, <2>1 DEF DereferenceInvalid
  <2>3. QED BY <1>5, <2>2 DEF DereferenceInvalid, TypeOK, index, Node
<1>6. CASE AddStores
  <2>1. Top \in AddFrame /\ stack # <<>>
    BY <1>0, <1>1, <1>6, FrameKinds DEF AddStores, InCall
  <2>2. Top.name \in Name /\ Top.val \in Value \cup {Absent}
    BY <2>1 DEF AddFrame
  <2>3. facts' \in [Name -> Value \cup {Absent}]
    BY <1>6, <2>2 DEF AddStores, TypeOK
  <2>4. stack' \in Seq(Frame)
    BY <1>1, <1>6, <2>1 DEF AddStores
  <2>5. QED BY <1>6, <2>3, <2>4 DEF AddStores, TypeOK, index, rest, Node
<1>7. CASE AddNull
  <2>1. Top \in AddFrame /\ stack # <<>>
    BY <1>0, <1>1, <1>7, FrameKinds DEF AddNull, InCall
  <2>2. Top.name \in Name
    BY <2>1 DEF AddFrame
  <2>3. stack' \in Seq(Frame)
    BY <1>1, <1>7, <2>1, <2>2, RemoveCallType DEF AddNull
  <2>4. QED BY <1>7, <2>3, StackOnlyType DEF AddNull
<1>8. CASE RemoveErases
  <2>1. Top \in RemoveFrame /\ stack # <<>>
    BY <1>0, <1>1, <1>8, FrameKinds DEF RemoveErases, InCall
  <2>2. facts' \in [Name -> Value \cup {Absent}]
    BY <1>8 DEF RemoveErases, TypeOK
  <2>3. stack' \in Seq(Frame)
    BY <1>1, <1>8, <2>1 DEF RemoveErases
  <2>4. QED BY <1>8, <2>2, <2>3 DEF RemoveErases, TypeOK, index, rest, Node
<1>9. CASE DrainReturns \/ WritePrints \/ RunReturns \/ RunThrows
  <2>1. stack' \in Seq(Frame)
    BY <1>0, <1>1, <1>9 DEF DrainReturns, WritePrints, RunReturns, RunThrows, InCall
  <2>2. UNCHANGED <<facts, index, rest>>
    BY <1>9 DEF DrainReturns, WritePrints, RunReturns, RunThrows
  <2>3. QED BY <2>1, <2>2, StackOnlyType
<1>10. CASE WriteAsks
  <2>1. PICK n \in Top.todo :
          stack' = Append(Replace([WithAnswer EXCEPT !.asked = {n}, !.todo = @ \ {n}]),
                          Lookup(n))
    BY <1>10 DEF WriteAsks
  <2>2. Top \in WriteFrame /\ stack # <<>>
    BY <1>0, <1>1, <1>10, FrameKinds DEF WriteAsks, InCall
  <2>3. n \in Name
    BY <2>1, <2>2 DEF WriteFrame
  <2>4. WithAnswer \in WriteFrame
    BY <2>2 DEF WriteFrame, WithAnswer
  <2>5. [WithAnswer EXCEPT !.asked = {n}, !.todo = @ \ {n}] \in Frame
    BY <2>3, <2>4 DEF WriteFrame, Frame
  <2>6. Lookup(n) \in Frame
    BY <1>0, <2>3, LookupType DEF Frame
  <2>7. stack' \in Seq(Frame)
    BY <1>0, <2>1, <2>2, <2>5, <2>6, ReplaceTop, PushFrame
  <2>8. QED BY <1>10, <2>7, StackOnlyType DEF WriteAsks
<1>11. ASSUME AtOp PROVE /\ Advanced \in Seq(Frame) /\ NextOp \in Op
                         /\ Top.res \in Value \cup {Absent}
  <2>1. Top \in RunFrame /\ stack # <<>>
    BY <1>11, TopRun DEF AtOp
  <2>2. Top.res \in Resolver /\ Top.pc \in Nat \ {0}
    BY <2>1 DEF RunFrame
  <2>3. [Top EXCEPT !.pc = @ + 1] \in Frame
    BY <2>1, <2>2 DEF RunFrame, Frame
  <2>4. Advanced \in Seq(Frame)
    BY <1>0, <2>1, <2>3, ReplaceTop DEF Advanced
  <2>5. NextOp \in Op
    <3>1. Program[Top.res] \in Seq(Op)
      BY <2>2, CollectionAssumption
    <3>2. Top.pc <= Len(Program[Top.res])
      BY <1>11 DEF AtOp
    <3>3. Top.pc \in 1..Len(Program[Top.res])
      BY <3>1, <3>2, <2>2, LenProperties
    <3>4. QED BY <3>1, <3>3, ElementOfSeq DEF NextOp
  <2>6. QED BY <2>2, <2>4, <2>5 DEF Value
<1>12. CASE RunGets
  <2>1. Advanced \in Seq(Frame) /\ NextOp.name \in Name
    BY <1>11, <1>12 DEF RunGets, Op
  <2>2. Lookup(NextOp.name) \in Frame
    BY <1>0, <2>1, LookupType DEF Frame
  <2>3. stack' \in Seq(Frame)
    BY <1>12, <2>1, <2>2, PushFrame DEF RunGets
  <2>4. QED BY <1>12, <2>3, StackOnlyType DEF RunGets
<1>13. CASE RunAdds
  <2>1. /\ Advanced \in Seq(Frame) /\ NextOp.name \in Name
        /\ Top.res \in Value \cup {Absent}
    BY <1>11, <1>13 DEF RunAdds, Op
  <2>2. stack' \in Seq(Frame)
    BY <1>13, <2>1, AddCallType DEF RunAdds
  <2>3. QED BY <1>13, <2>2, StackOnlyType DEF RunAdds
<1>14. CASE RunSkips
  BY <1>11, <1>14, StackOnlyType DEF RunSkips
<1>15. QED
  BY <1>2, <1>3, <1>4, <1>5, <1>6, <1>7, <1>8, <1>9, <1>10, <1>12, <1>13, <1>14 DEF Step

\* Every variable of the collection keeps its type, whatever the resolvers.
THEOREM TypeCorrect == Spec => []TypeOK
<1>1. Init => TypeOK
  <2>1. <<>> \in Seq(Frame)
    BY EmptySeq
  <2>2. 0 \in 0..NumResolvers
    BY CollectionAssumption
  <2>3. QED BY <2>1, <2>2 DEF Init, TypeOK
<1>2. TypeOK /\ [Next]_vars => TypeOK'
  <2>1. TypeOK /\ UNCHANGED vars => TypeOK'
    BY DEF TypeOK, vars, Node
  <2>2. QED BY <2>1, CallType, StepType DEF Next
<1>3. QED BY <1>1, <1>2, PTL DEF Spec

-----------------------------------------------------------------------------
(* The indexes agree *)

\* add(resolver) fills and remove(resolver) empties all three indexes, and no
\* other step touches them.
LEMMA IndexesStep ==
  ASSUME TypeOK, IndexesAgree, [Next]_vars
  PROVE  IndexesAgree'
<1> USE DEF TypeOK, IndexesAgree
<1>1. ASSUME NEW r \in Resolver, Forget(r) PROVE IndexesAgree'
  BY <1>1 DEF Forget
<1>2. CASE AddResolver
  <2> DEFINE r == registered + 1
  <2>1. r \in Resolver
    BY <1>2, CollectionAssumption DEF AddResolver, Resolver
  <2>2. Names[r] \subseteq Name
    BY <2>1, CollectionAssumption
  <2>3. resolverMap' = resolverMap \cup (Names[r] \X {r}) /\ resolvers' = resolvers \cup {r}
    BY <1>2 DEF AddResolver
  <2>4. ASSUME NEW a \in Node
        PROVE  a \in Names[r] \X {r} <=> a[2] = r /\ a[1] \in Names[a[2]]
    BY DEF Node
  <2>5. Names[r] \X {r} \subseteq Node
    BY <2>1, <2>2 DEF Node
  <2>6. resolverMap' = {a \in Node : a[2] \in resolvers' /\ a[1] \in Names[a[2]]}
    BY <2>3, <2>4, <2>5
  <2>7. patternResolvers' = resolvers' \cap Patterned
    BY <1>2 DEF AddResolver
  <2>8. QED BY <2>6, <2>7
<1>3. CASE Clear
  BY <1>3 DEF Clear
<1>4. CASE \E r \in Resolver : RemoveResolver(r)
  BY <1>1, <1>4 DEF RemoveResolver
<1>5. CASE ResolveByName \/ ResolveByPattern \/ ResolveFront
  BY <1>1, <1>5, LoopType DEF Resolve
<1>6. CASE UNCHANGED index
  BY <1>6 DEF index
<1>7. UNCHANGED vars => UNCHANGED index
  BY DEF vars, index
<1>8. Call => \/ AddResolver \/ Clear \/ (\E r \in Resolver : RemoveResolver(r))
              \/ UNCHANGED index
  BY DEF Call, Get, Remove, Add, ResolveAll, Write, index
<1>9. Step => \/ ResolveByName \/ ResolveByPattern \/ ResolveFront
              \/ UNCHANGED index
  BY DEF Step, BeginPatterns, LookupReturns, DereferenceInvalid, AddStores, AddNull,
         RemoveErases, DrainReturns, WriteAsks, WritePrints, RunGets, RunAdds, RunSkips,
         RunReturns, RunThrows, index
<1>10. QED BY <1>2, <1>3, <1>4, <1>5, <1>6, <1>7, <1>8, <1>9 DEF Next

\* After any sequence of calls and exceptions the three indexes describe the same
\* resolvers.
THEOREM IndexesCorrect == Spec => []IndexesAgree
<1>1. Init => IndexesAgree
  BY DEF Init, IndexesAgree
<1>2. TypeOK /\ IndexesAgree /\ [Next]_vars => IndexesAgree'
  BY IndexesStep
<1>3. QED BY <1>1, <1>2, TypeCorrect, PTL DEF Spec

-----------------------------------------------------------------------------
(* Resolvers are entered at most once *)

\* Only resolvers that were registered are pending or have run.
Fresh == resolvers \cup resolved \subseteq 1..registered

\* Every run of t is at the same place in s.
NoNewRun(t, s) ==
    \A i \in 1..Len(t) : t[i].kind = "run" =>
        i \in 1..Len(s) /\ s[i].kind = "run" /\ s[i].res = t[i].res

\* The resolvers running in s are distinct and have all been entered.
RunsOnce(s, entered) ==
    \A i \in 1..Len(s) : s[i].kind = "run" =>
        /\ s[i].res \in entered
        /\ \A j \in 1..Len(s) : s[j].kind = "run" /\ s[j].res = s[i].res => i = j

\* Call stacks without a new run inherit RunsOnce.
LEMMA RunsOnceInherited ==
  ASSUME NEW s, NEW t, NEW R, RunsOnce(s, R), NoNewRun(t, s)
  PROVE  RunsOnce(t, R)
BY DEF RunsOnce, NoNewRun

\* A call stack plus a frame that is no run, plus a run, minus the top frame.
LEMMA NoNewRunPush ==
  ASSUME NEW s, NEW t \in Seq(Frame), NEW f \in Frame, NoNewRun(t, s), f.kind # "run"
  PROVE  NoNewRun(Append(t, f), s)
<1>1. /\ Len(t) \in Nat /\ Len(Append(t, f)) = Len(t) + 1
      /\ \A i \in 1..Len(t) : Append(t, f)[i] = t[i]
      /\ Append(t, f)[Len(t) + 1] = f
  BY PushFrame
<1>2. QED BY <1>1 DEF NoNewRun

LEMMA NoNewRunPop ==
  ASSUME stack \in Seq(Frame), stack # <<>>
  PROVE  NoNewRun(Pop, stack)
BY PopStack DEF NoNewRun

LEMMA NoNewRunReplace ==
  ASSUME stack \in Seq(Frame), stack # <<>>, NEW f \in Frame,
         f.kind = Top.kind, f.kind = "run" => f.res = Top.res
  PROVE  NoNewRun(Replace(f), stack)
<1>1. /\ Len(Replace(f)) = Len(stack)
      /\ Len(stack) \in Nat \ {0}
      /\ \A i \in 1..(Len(stack) - 1) : Replace(f)[i] = stack[i]
      /\ Replace(f)[Len(stack)] = f
  BY ReplaceTop
<1>2. QED BY <1>1 DEF NoNewRun, Top

LEMMA NoNewRunRefl ==
  ASSUME NEW s PROVE NoNewRun(s, s)
BY DEF NoNewRun

\* Entering a resolver that has not run keeps the runs distinct.
LEMMA RunsOnceEnter ==
  ASSUME NEW s \in Seq(Frame), NEW R, RunsOnce(s, R), NEW r \in Resolver, r \notin R
  PROVE  RunsOnce(Append(s, Run(r)), R \cup {r})
<1>1. Run(r) \in Frame /\ Run(r).kind = "run" /\ Run(r).res = r
  BY DEF Run, Frame, RunFrame
<1>2. /\ Len(s) \in Nat /\ Len(Append(s, Run(r))) = Len(s) + 1
      /\ \A i \in 1..Len(s) : Append(s, Run(r))[i] = s[i]
      /\ Append(s, Run(r))[Len(s) + 1] = Run(r)
  BY <1>1, PushFrame
<1>3. QED BY <1>1, <1>2 DEF RunsOnce

\* The loops only enter pending resolvers, below the frame of the loop itself.
LEMMA LoopEntersPending ==
  ASSUME TypeOK, IndexesAgree, ResolveByName \/ ResolveByPattern \/ ResolveFront
  PROVE  \E r \in resolvers, callers \in Seq(Frame) :
            Resolve(r, callers) /\ NoNewRun(callers, stack)
<1>1. CASE ResolveByName
  <2> DEFINE next == FirstOf({a \in resolverMap : Before(Top.it, a)})
             f == [Top EXCEPT !.it = next]
  <2>1. Top \in LookupFrame /\ stack # <<>>
    BY <1>1, TopLookup DEF ResolveByName
  <2>2. Top.it \in Node /\ next \in Iterator
    BY <1>1, FirstOfType DEF ResolveByName, TypeOK
  <2>3. f \in Frame /\ f.kind = Top.kind /\ f.kind # "run"
    BY <2>1, <2>2 DEF LookupFrame, Frame
  <2>4. Replace(f) \in Seq(Frame) /\ NoNewRun(Replace(f), stack)
    BY <2>1, <2>3, ReplaceTop, NoNewRunReplace DEF TypeOK
  <2>5. Top.it[2] \in resolvers
    BY <1>1, <2>2 DEF ResolveByName, IndexesAgree
  <2>6. Resolve(Top.it[2], Replace(f))
    BY <1>1 DEF ResolveByName
  <2>7. QED BY <2>4, <2>5, <2>6
<1>2. CASE ResolveByPattern
  <2> DEFINE r == FrontOf(MatchesLeft)
             next == FrontOf({s \in patternResolvers : s > r})
             f == [Top EXCEPT !.pit = next]
  <2>1. Top \in LookupFrame /\ stack # <<>>
    BY <1>2, TopLookup DEF ResolveByPattern
  <2>2. r \in patternResolvers
    BY <1>2, FrontOfIsLeast DEF ResolveByPattern, MatchesLeft, TypeOK
  <2>3. r \in resolvers
    BY <2>2 DEF IndexesAgree
  <2>4. next \in Resolver \cup {NoPattern}
    BY FrontOfType DEF TypeOK
  <2>5. f \in Frame /\ f.kind = Top.kind /\ f.kind # "run"
    BY <2>1, <2>4 DEF LookupFrame, Frame
  <2>6. Replace(f) \in Seq(Frame) /\ NoNewRun(Replace(f), stack)
    BY <2>1, <2>5, ReplaceTop, NoNewRunReplace DEF TypeOK
  <2>7. Resolve(r, Replace(f))
    BY <1>2 DEF ResolveByPattern
  <2>8. QED BY <2>3, <2>6, <2>7
<1>3. CASE ResolveFront
  <2>1. FrontOf(resolvers) \in resolvers
    BY <1>3, FrontOfIsLeast DEF ResolveFront, TypeOK
  <2>2. Resolve(FrontOf(resolvers), stack) /\ stack \in Seq(Frame)
    BY <1>3 DEF ResolveFront, TypeOK
  <2>3. QED BY <2>1, <2>2, NoNewRunRefl
<1>4. QED BY <1>1, <1>2, <1>3

\* add and remove push frames, but no run.
LEMMA AddCallNoRun ==
  ASSUME TypeOK, NEW callers \in Seq(Frame), NEW n \in Name,
         NEW v \in Value \cup {Absent}, AddCall(callers, n, v), NoNewRun(callers, stack)
  PROVE  NoNewRun(stack', stack)
<1> DEFINE f == [kind |-> "add", name |-> n, val |-> v]
<1>1. f \in Frame /\ f.kind # "run"
  BY DEF Frame, AddFrame
<1>2. Lookup(n) \in Frame /\ Lookup(n).kind # "run"
  BY LookupType DEF Frame, TypeOK, Lookup
<1>3. Append(callers, f) \in Seq(Frame) /\ NoNewRun(Append(callers, f), stack)
  BY <1>1, PushFrame, NoNewRunPush
<1>4. QED BY <1>2, <1>3, NoNewRunPush DEF AddCall

LEMMA RemoveCallNoRun ==
  ASSUME TypeOK, NEW callers \in Seq(Frame), NEW n \in Name,
         RemoveCall(callers, n), NoNewRun(callers, stack)
  PROVE  NoNewRun(stack', stack)
<1> DEFINE f == [kind |-> "remove", name |-> n]
<1>1. f \in Frame /\ f.kind # "run"
  BY DEF Frame, RemoveFrame
<1>2. Lookup(n) \in Frame /\ Lookup(n).kind # "run"
  BY LookupType DEF Frame, TypeOK, Lookup
<1>3. Append(callers, f) \in Seq(Frame) /\ NoNewRun(Append(callers, f), stack)
  BY <1>1, PushFrame, NoNewRunPush
<1>4. QED BY <1>2, <1>3, NoNewRunPush DEF RemoveCall

\* The steps of a call that enter no resolver leave the runs below them alone.
LEMMA StepNoRun ==
  ASSUME TypeOK, Step, ~(ResolveByName \/ ResolveByPattern \/ ResolveFront)
  PROVE  NoNewRun(stack', stack) /\ UNCHANGED <<resolvers, resolved, registered>>
<1>0. stack \in Seq(Frame) /\ <<>> \in Seq(Frame) /\ resolverMap \subseteq Node
  BY EmptySeq DEF TypeOK
<1>1. stack # <<>> => Pop \in Seq(Frame) /\ Top \in Frame /\ NoNewRun(Pop, stack)
  BY <1>0, PopStack, NoNewRunPop
<1>2. NoNewRun(<<>>, stack)
  BY DEF NoNewRun
<1>3. UNCHANGED <<resolvers, resolved, registered>>
  BY DEF Step, BeginPatterns, LookupReturns, DereferenceInvalid, AddStores, AddNull,
         RemoveErases, DrainReturns, WriteAsks, WritePrints, RunGets, RunAdds, RunSkips,
         RunReturns, RunThrows, index, rest
<1>4. CASE BeginPatterns
  <2> DEFINE f == [Top EXCEPT !.phase = "patterns", !.pit = FrontOf(patternResolvers)]
  <2>1. Top \in LookupFrame /\ stack # <<>>
    BY <1>4, TopLookup DEF BeginPatterns
  <2>2. FrontOf(patternResolvers) \in Resolver \cup {NoPattern}
    BY FrontOfType DEF TypeOK
  <2>3. f \in Frame /\ f.kind = Top.kind /\ f.kind # "run"
    BY <2>1, <2>2 DEF LookupFrame, Frame
  <2>4. NoNewRun(Replace(f), stack)
    BY <1>0, <2>1, <2>3, NoNewRunReplace
  <2>5. QED BY <1>3, <1>4, <2>4 DEF BeginPatterns
<1>5. CASE LookupReturns \/ DereferenceInvalid \/ AddStores \/ RemoveErases
           \/ DrainReturns \/ WritePrints \/ RunReturns \/ RunThrows
  <2>1. stack # <<>> /\ (stack' = Pop \/ stack' = <<>>)
    BY <1>5 DEF LookupReturns, DereferenceInvalid, InvalidIterator, AddStores, RemoveErases,
                DrainReturns, WritePrints, RunReturns, RunThrows, InCall
  <2>2. QED BY <1>1, <1>2, <1>3, <2>1
<1>6. CASE AddNull
  <2>1. Top \in AddFrame /\ stack # <<>>
    BY <1>0, <1>1, <1>6, FrameKinds DEF AddNull, InCall
  <2>2. Top.name \in Name
    BY <2>1 DEF AddFrame
  <2>3. NoNewRun(stack', stack)
    BY <1>1, <1>6, <2>1, <2>2, RemoveCallNoRun DEF AddNull
  <2>4. QED BY <1>3, <2>3
<1>7. CASE WriteAsks
  <2>1. PICK n \in Top.todo :
          stack' = Append(Replace([WithAnswer EXCEPT !.asked = {n}, !.todo = @ \ {n}]),
                          Lookup(n))
    BY <1>7 DEF WriteAsks
  <2> DEFINE f == [WithAnswer EXCEPT !.asked = {n}, !.todo = @ \ {n}]
  <2>2. Top \in WriteFrame /\ stack # <<>>
    BY <1>0, <1>1, <1>7, FrameKinds DEF WriteAsks, InCall
  <2>3. n \in Name
    BY <2>1, <2>2 DEF WriteFrame
  <2>4. WithAnswer \in WriteFrame
    BY <2>2 DEF WriteFrame, WithAnswer
  <2>5. f \in Frame /\ f.kind = Top.kind /\ f.kind # "run"
    BY <2>2, <2>3, <2>4 DEF WriteFrame, Frame
  <2>6. Lookup(n) \in Frame /\ Lookup(n).kind # "run"
    BY <1>0, <2>3, LookupType DEF Frame, Lookup
  <2>7. Replace(f) \in Seq(Frame) /\ NoNewRun(Replace(f), stack)
    BY <1>0, <2>2, <2>5, ReplaceTop, NoNewRunReplace
  <2>8. NoNewRun(stack', stack)
    BY <2>1, <2>6, <2>7, NoNewRunPush
  <2>9. QED BY <1>3, <2>8
<1>8. ASSUME AtOp PROVE /\ Advanced \in Seq(Frame) /\ NextOp \in Op
                        /\ Top.res \in Value \cup {Absent}
                        /\ NoNewRun(Advanced, stack)
  <2>1. Top \in RunFrame /\ stack # <<>>
    BY <1>8, TopRun DEF AtOp
  <2>2. Top.res \in Resolver /\ Top.pc \in Nat \ {0}
    BY <2>1 DEF RunFrame
  <2> DEFINE f == [Top EXCEPT !.pc = @ + 1]
  <2>3. f \in Frame /\ f.kind = Top.kind /\ f.res = Top.res
    BY <2>1, <2>2 DEF RunFrame, Frame
  <2>4. Advanced \in Seq(Frame) /\ NoNewRun(Advanced, stack)
    BY <1>0, <2>1, <2>3, ReplaceTop, NoNewRunReplace DEF Advanced
  <2>5. NextOp \in Op
    <3>1. Program[Top.res] \in Seq(Op)
      BY <2>2, CollectionAssumption
    <3>2. Top.pc \in 1..Len(Program[Top.res])
      BY <1>8, <2>2, <3>1, LenProperties DEF AtOp
    <3>3. QED BY <3>1, <3>2, ElementOfSeq DEF NextOp
  <2>6. QED BY <2>2, <2>4, <2>5 DEF Value
<1>9. CASE RunGets
  <2>1. Advanced \in Seq(Frame) /\ NextOp.name \in Name /\ NoNewRun(Advanced, stack)
    BY <1>8, <1>9 DEF RunGets, Op
  <2>2. Lookup(NextOp.name) \in Frame /\ Lookup(NextOp.name).kind # "run"
    BY <1>0, <2>1, LookupType DEF Frame, Lookup
  <2>3. NoNewRun(stack', stack)
    BY <1>9, <2>1, <2>2, NoNewRunPush DEF RunGets
  <2>4. QED BY <1>3, <2>3
<1>10. CASE RunAdds
  <2>1. /\ Advanced \in Seq(Frame) /\ NextOp.name \in Name
        /\ Top.res \in Value \cup {Absent} /\ NoNewRun(Advanced, stack)
    BY <1>8, <1>10 DEF RunAdds, Op
  <2>2. NoNewRun(stack', stack)
    BY <1>10, <2>1, AddCallNoRun DEF RunAdds
  <2>3. QED BY <1>3, <2>2
<1>11. CASE RunSkips
  BY <1>3, <1>8, <1>11 DEF RunSkips
<1>12. QED
  BY <1>4, <1>5, <1>6, <1>7, <1>9, <1>10, <1>11 DEF Step

\* The calls of the application start from an empty stack and enter no resolver.
LEMMA CallNoRun ==
  ASSUME TypeOK, Call
  PROVE  /\ NoNewRun(stack', <<>>) /\ stack = <<>>
         /\ resolved' = resolved
         /\ \/ resolvers' \subseteq resolvers /\ registered' = registered
            \/ resolvers' = resolvers \cup {registered + 1} /\ registered' = registered + 1
<1>0. stack \in Seq(Frame) /\ <<>> \in Seq(Frame) /\ Len(<<>>) = 0
  BY EmptySeq DEF TypeOK
<1>1. stack = <<>>
  BY DEF Call, AddResolver, RemoveResolver, Clear, Get, Add, Remove, ResolveAll, Write, Idle
<1>2. NoNewRun(stack, stack)
  BY NoNewRunRefl
<1>3. CASE AddResolver \/ Clear \/ \E r \in Resolver : RemoveResolver(r)
  BY <1>1, <1>2, <1>3 DEF AddResolver, Clear, RemoveResolver, Forget, rest
<1>4. CASE \E n \in Asked : Get(n)
  <2>1. PICK n \in Name : Get(n)
    BY <1>4, CollectionAssumption
  <2>2. Lookup(n) \in Frame /\ Lookup(n).kind # "run"
    BY <2>1, LookupType DEF Frame, Lookup, TypeOK
  <2>3. NoNewRun(stack', stack)
    BY <1>0, <1>2, <2>1, <2>2, NoNewRunPush DEF Get, Push
  <2>4. QED BY <1>1, <2>1, <2>3 DEF Get, index, rest
<1>5. CASE \E n \in Supplied : Remove(n)
  <2>1. PICK n \in Name : Remove(n)
    BY <1>5, CollectionAssumption
  <2>2. NoNewRun(stack', stack)
    BY <1>0, <1>2, <2>1, RemoveCallNoRun DEF Remove
  <2>3. QED BY <1>1, <2>1, <2>2 DEF Remove, index, rest
<1>6. CASE \E n \in Supplied : Add(n, App) \/ Add(n, Absent)
  <2>1. PICK n \in Name, v \in Value \cup {Absent} : Add(n, v)
    BY <1>6, CollectionAssumption DEF Value
  <2>2. NoNewRun(stack', stack)
    BY <1>0, <1>2, <2>1, AddCallNoRun DEF Add
  <2>3. QED BY <1>1, <2>1, <2>2 DEF Add, index, rest
<1>7. CASE ResolveAll
  <2>1. [kind |-> "drain"] \in Frame
    BY DEF Frame, DrainFrame
  <2>2. NoNewRun(stack', stack)
    BY <1>0, <1>2, <1>7, <2>1, NoNewRunPush DEF ResolveAll, Push
  <2>3. QED BY <1>1, <1>7, <2>2 DEF ResolveAll, index, rest
<1>8. CASE \E qs \in Queries : Write(qs)
  <2>1. PICK qs \in Queries : Write(qs)
    BY <1>8
  <2> DEFINE f == [kind |-> "write", asked |-> {}, todo |-> qs, held |-> {}]
  <2>2. f \in Frame /\ f.kind # "run"
    BY CollectionAssumption DEF Frame, WriteFrame
  <2>3. NoNewRun(stack', stack)
    BY <1>0, <1>2, <2>1, <2>2, NoNewRunPush DEF Write, Push
  <2>4. QED BY <1>1, <2>1, <2>3 DEF Write, index, rest
<1>9. QED BY <1>3, <1>4, <1>5, <1>6, <1>7, <1>8 DEF Call

\* What makes ResolvedOnce inductive: registration numbers are never reused, so
\* a resolver that has been entered cannot become pending again.
Once ==
    /\ Fresh
    /\ resolvers \cap resolved = {}
    /\ RunsOnce(stack, resolved)

LEMMA OnceStep ==
  ASSUME TypeOK, IndexesAgree, Once, [Next]_vars
  PROVE  Once'
<1>0. registered \in Nat /\ stack \in Seq(Frame) /\ resolvers \subseteq Resolver
  BY CollectionAssumption DEF TypeOK
<1>1. CASE UNCHANGED vars
  BY <1>1 DEF vars, Once, Fresh, RunsOnce
<1>2. CASE Call
  <2>1. RunsOnce(stack', resolved')
    BY <1>2, CallNoRun, RunsOnceInherited DEF Once
  <2>2. registered + 1 \notin 1..registered /\ registered + 1 \in 1..(registered + 1)
    BY <1>0
  <2>3. 1..registered \subseteq 1..(registered + 1)
    BY <1>0
  <2>4. Fresh' /\ resolvers' \cap resolved' = {}
    BY <1>2, <2>2, <2>3, CallNoRun DEF Once, Fresh
  <2>5. QED BY <2>1, <2>4 DEF Once
<1>3. CASE ResolveByName \/ ResolveByPattern \/ ResolveFront
  <2>1. PICK r \in resolvers, callers \in Seq(Frame) :
             Resolve(r, callers) /\ NoNewRun(callers, stack)
    BY <1>3, LoopEntersPending
  <2>2. RunsOnce(callers, resolved)
    BY <2>1, RunsOnceInherited DEF Once
  <2>3. r \in Resolver /\ r \notin resolved
    BY <1>0, <2>1 DEF Once
  <2>4. RunsOnce(Append(callers, Run(r)), resolved \cup {r})
    BY <2>1, <2>2, <2>3, RunsOnceEnter
  <2>5. RunsOnce(stack', resolved')
    BY <2>1, <2>4 DEF Resolve
  <2>6. Fresh' /\ resolvers' \cap resolved' = {}
    BY <2>1 DEF Resolve, Forget, Once, Fresh
  <2>7. QED BY <2>5, <2>6 DEF Once
<1>4. CASE Step /\ ~(ResolveByName \/ ResolveByPattern \/ ResolveFront)
  <2>1. NoNewRun(stack', stack) /\ UNCHANGED <<resolvers, resolved, registered>>
    BY <1>4, StepNoRun
  <2>2. RunsOnce(stack', resolved)
    BY <2>1, RunsOnceInherited DEF Once
  <2>3. QED BY <2>1, <2>2 DEF Once, Fresh
<1>5. QED BY <1>1, <1>2, <1>3, <1>4 DEF Next

LEMMA OnceCorrect == Spec => []Once
<1>1. Init => Once
  <2>1. RunsOnce(<<>>, {})
    BY DEF RunsOnce
  <2>2. QED BY <2>1 DEF Init, Once, Fresh
<1>2. TypeOK /\ IndexesAgree /\ Once /\ [Next]_vars => Once'
  BY OnceStep
<1>3. QED BY <1>1, <1>2, TypeCorrect, IndexesCorrect, PTL DEF Spec

\* However the calls nest, and whatever the resolvers announce and ask for, none
\* is entered twice.
THEOREM ResolvedOnceCorrect == Spec => []ResolvedOnce
<1>1. Once => ResolvedOnce
  BY DEF Once, RunsOnce, ResolvedOnce, Runs
<1>2. QED BY <1>1, OnceCorrect, PTL

-----------------------------------------------------------------------------
(* Lookups: the inductive invariants *)

\* Whatever a multimap and a pattern list hold for the name of a lookup is still
\* in front of it.
AheadIn(f, map, pats) ==
    f.kind = "lookup" =>
        /\ f.stop[1] > f.name
        /\ f.phase = "names" =>
             \A a \in map : a[1] = f.name => a = f.it \/ Before(f.it, a)
        /\ f.phase = "patterns" =>
             /\ \A a \in map : a[1] # f.name
             /\ \A r \in pats : f.name \in Matches[r] => r >= f.pit

Ahead(f) == AheadIn(f, resolverMap, patternResolvers)

\* The same of a frame and the indexes after the step.
AheadNext(f) == AheadIn(f, resolverMap', patternResolvers')

LookupsAhead == \A i \in 1..Len(stack) : Ahead(stack[i])

\* A lookup that has not moved its iterators.
AtStart(f, map) ==
    /\ f.it = FirstOf({a \in map : a[1] >= f.name})
    /\ f.stop = FirstOf({a \in map : a[1] > f.name})

\* An iterator over the names is at the end of its range, or the lookup has not
\* entered a resolver yet; the next resolver with patterns is still listed.
IteratorsKept(i) ==
    /\ stack[i].phase = "names" =>
         \/ stack[i].it = stack[i].stop
         \/ i = Len(stack) /\ AtStart(stack[i], resolverMap)
    /\ stack[i].phase = "patterns" =>
         stack[i].pit = NoPattern \/ stack[i].pit \in patternResolvers

\* What a call does stays within a set of resolvers.
Within(f, S) ==
    /\ f.kind \notin {"write", "drain"}
    /\ f.kind = "run" => f.res \in S
    /\ f.kind \in {"lookup", "add", "remove"} =>
         \A t \in Resolver : f.name \in Covers(t) => t \in S

\* The calls above a walk of the pattern list never come to its next resolver.
WalkApart(i) ==
    stack[i].phase = "patterns" /\ i < Len(stack) =>
        \E S \in SUBSET Resolver :
            /\ ClosedUnderAsking(S) /\ stack[i].pit \notin S
            /\ \A j \in (i+1)..Len(stack) : Within(stack[j], S)

IteratorsValid ==
    /\ ~crashed
    /\ \A i \in 1..Len(stack) : stack[i].kind = "lookup" =>
         IteratorsKept(i) /\ WalkApart(i)

ValidIfApart == NamesDisjoint /\ PatternsApart => IteratorsValid

-----------------------------------------------------------------------------
(* What a step does to the call stack *)

\* The frames below the top are those of before.
SameBelow == \A i \in 1..(Len(stack) - 1) : stack'[i] = stack[i]

Popped ==
    /\ stack # <<>>
    /\ stack' = <<>> \/ Len(stack') = Len(stack) - 1
    /\ \A i \in 1..Len(stack') : stack'[i] = stack[i]

Changed(f) ==
    /\ Len(stack') = Len(stack) /\ SameBelow
    /\ f \in Frame /\ stack'[Len(stack)] = f

Called(f, g) ==
    /\ Len(stack') = Len(stack) + 1 /\ SameBelow
    /\ f \in Frame /\ stack'[Len(stack)] = f
    /\ g \in Frame /\ stack'[Len(stack) + 1] = g

CalledTwice(f, g, h) ==
    /\ Len(stack') = Len(stack) + 2 /\ SameBelow
    /\ f \in Frame /\ stack'[Len(stack)] = f
    /\ g \in Frame /\ stack'[Len(stack) + 1] = g
    /\ h \in Frame /\ stack'[Len(stack) + 2] = h

\* The frame of a call of add or remove.
AddOf(n, v) == [kind |-> "add", name |-> n, val |-> v]
RemoveOf(n) == [kind |-> "remove", name |-> n]

LEMMA StackBasics ==
  ASSUME TypeOK
  PROVE  /\ stack \in Seq(Frame) /\ Len(stack) \in Nat
         /\ stack # <<>> => Len(stack) \in Nat \ {0} /\ Len(stack) \in 1..Len(stack)
         /\ \A i \in 1..Len(stack) : stack[i] \in Frame
         /\ Len(<<>>) = 0
<1>1. stack \in Seq(Frame)
  BY DEF TypeOK
<1>2. Len(stack) \in Nat /\ \A i \in 1..Len(stack) : stack[i] \in Frame
  BY <1>1, LenProperties, ElementOfSeq
<1>3. stack # <<>> => Len(stack) # 0
  BY <1>1, EmptySeq
<1>4. Len(<<>>) = 0
  BY EmptySeq
<1>5. QED BY <1>1, <1>2, <1>3, <1>4

LEMMA PopShape ==
  ASSUME TypeOK, stack # <<>>, stack' = Pop \/ stack' = <<>>
  PROVE  Popped
<1>1. CASE stack' = Pop
  BY <1>1, PopStack, StackBasics DEF Popped
<1>2. CASE stack' = <<>>
  BY <1>2, StackBasics DEF Popped
<1>3. QED BY <1>1, <1>2

LEMMA ReplaceShape ==
  ASSUME TypeOK, stack # <<>>, NEW f \in Frame, stack' = Replace(f)
  PROVE  Changed(f)
BY ReplaceTop, StackBasics DEF Changed, SameBelow

LEMMA CallShape ==
  ASSUME TypeOK, stack # <<>>, NEW f \in Frame, NEW g \in Frame,
         stack' = Append(Replace(f), g)
  PROVE  Called(f, g)
<1>1. /\ Replace(f) \in Seq(Frame) /\ Len(Replace(f)) = Len(stack)
      /\ Len(stack) \in Nat \ {0}
      /\ \A i \in 1..(Len(stack) - 1) : Replace(f)[i] = stack[i]
      /\ Replace(f)[Len(stack)] = f
  BY ReplaceTop, StackBasics
<1>2. /\ Len(stack') = Len(stack) + 1
      /\ \A i \in 1..Len(stack) : stack'[i] = Replace(f)[i]
      /\ stack'[Len(stack) + 1] = g
  BY <1>1, PushFrame
<1>3. QED BY <1>1, <1>2 DEF Called, SameBelow

LEMMA CallTwiceShape ==
  ASSUME TypeOK, stack # <<>>, NEW f \in Frame, NEW g \in Frame, NEW h \in Frame,
         stack' = Append(Append(Replace(f), g), h)
  PROVE  CalledTwice(f, g, h)
<1> DEFINE s == Append(Replace(f), g)
<1>1. /\ Replace(f) \in Seq(Frame) /\ Len(Replace(f)) = Len(stack)
      /\ Len(stack) \in Nat \ {0}
      /\ \A i \in 1..(Len(stack) - 1) : Replace(f)[i] = stack[i]
      /\ Replace(f)[Len(stack)] = f
  BY ReplaceTop, StackBasics
<1>2. /\ s \in Seq(Frame) /\ Len(s) = Len(stack) + 1
      /\ \A i \in 1..Len(stack) : s[i] = Replace(f)[i]
      /\ s[Len(stack) + 1] = g
  BY <1>1, PushFrame
<1> HIDE DEF s
<1>3. stack' = Append(s, h)
  BY DEF s
<1>4. /\ Len(stack') = Len(s) + 1
      /\ \A i \in 1..Len(s) : stack'[i] = s[i]
      /\ stack'[Len(s) + 1] = h
  BY <1>2, <1>3, PushFrame
<1>5. QED BY <1>1, <1>2, <1>4 DEF CalledTwice, SameBelow

\* The bodies of a resolver and of the loops, as calls on the stack.
LEMMA RunShape ==
  ASSUME TypeOK, AtOp
  PROVE  /\ stack # <<>> /\ Top \in RunFrame /\ NextOp \in Op
         /\ Top.pc \in 1..Len(Program[Top.res])
         /\ [Top EXCEPT !.pc = @ + 1] \in RunFrame
         /\ [Top EXCEPT !.pc = @ + 1].kind = "run"
         /\ [Top EXCEPT !.pc = @ + 1].res = Top.res
         /\ RunFrame \subseteq Frame
<1>1. Top \in RunFrame /\ stack # <<>>
  BY TopRun DEF AtOp
<1>2. Top.res \in Resolver /\ Top.pc \in Nat \ {0}
  BY <1>1 DEF RunFrame
<1>3. Program[Top.res] \in Seq(Op)
  BY <1>2, CollectionAssumption
<1>4. Top.pc \in 1..Len(Program[Top.res])
  BY <1>2, <1>3, LenProperties DEF AtOp
<1>5. NextOp \in Op
  BY <1>3, <1>4, ElementOfSeq DEF NextOp
<1>6. QED BY <1>1, <1>2, <1>4, <1>5 DEF RunFrame, Frame

LEMMA RunGetsShape ==
  ASSUME TypeOK, RunGets
  PROVE  /\ Called([Top EXCEPT !.pc = @ + 1], Lookup(NextOp.name))
         /\ NextOp.name \in Name
<1>1. NextOp.name \in Name
  BY RunShape DEF RunGets, Op
<1>2. Lookup(NextOp.name) \in Frame
  BY <1>1, LookupType DEF Frame, TypeOK
<1>3. QED BY <1>1, <1>2, RunShape, CallShape DEF RunGets, Advanced

LEMMA RunAddsShape ==
  ASSUME TypeOK, RunAdds
  PROVE  /\ CalledTwice([Top EXCEPT !.pc = @ + 1], AddOf(NextOp.name, Top.res),
                         Lookup(NextOp.name))
         /\ NextOp.name \in Name /\ Top.res \in Resolver
<1>1. NextOp.name \in Name /\ Top.res \in Resolver
  BY RunShape DEF RunAdds, Op, RunFrame
<1>2. Lookup(NextOp.name) \in Frame /\ AddOf(NextOp.name, Top.res) \in Frame
  BY <1>1, LookupType DEF Frame, TypeOK, AddOf, AddFrame, Value
<1>3. stack' = Append(Append(Advanced, AddOf(NextOp.name, Top.res)), Lookup(NextOp.name))
  BY DEF RunAdds, AddCall, AddOf
<1>4. QED BY <1>1, <1>2, <1>3, RunShape, CallTwiceShape DEF RunAdds, Advanced

LEMMA RunSkipsShape ==
  ASSUME TypeOK, RunSkips
  PROVE  Changed([Top EXCEPT !.pc = @ + 1])
BY RunShape, ReplaceShape DEF RunSkips, Advanced

LEMMA WriteAsksShape ==
  ASSUME TypeOK, WriteAsks
  PROVE  /\ Top \in WriteFrame /\ stack # <<>>
         /\ \E n \in Name : LET w == [WithAnswer EXCEPT !.asked = {n}, !.todo = @ \ {n}]
                           IN  /\ Called(w, Lookup(n))
                               /\ w.kind = "write" /\ w.asked = {n}
                               /\ \A m \in w.held : m \in Top.held \cup Top.asked
<1>1. PICK n \in Top.todo :
        stack' = Append(Replace([WithAnswer EXCEPT !.asked = {n}, !.todo = @ \ {n}]),
                        Lookup(n))
  BY DEF WriteAsks
<1>2. Top \in WriteFrame /\ stack # <<>>
  BY PopStack, FrameKinds DEF WriteAsks, InCall, TypeOK
<1>3. n \in Name
  BY <1>2 DEF WriteFrame
<1> DEFINE w == [WithAnswer EXCEPT !.asked = {n}, !.todo = @ \ {n}]
<1>4. /\ w \in Frame /\ w.kind = "write" /\ w.asked = {n}
      /\ \A m \in w.held : m \in Top.held \cup Top.asked
  BY <1>2, <1>3 DEF WriteFrame, WithAnswer, Frame
<1>5. Lookup(n) \in Frame
  BY <1>3, LookupType DEF Frame, TypeOK
<1>6. Called(w, Lookup(n))
  BY <1>1, <1>2, <1>4, <1>5, CallShape
<1>7. QED BY <1>2, <1>3, <1>4, <1>6

LEMMA AddNullShape ==
  ASSUME TypeOK, AddNull
  PROVE  /\ Top \in AddFrame /\ stack # <<>> /\ Top.name \in Name
         /\ Popped \/ Called(RemoveOf(Top.name), Lookup(Top.name))
<1>1. Top \in AddFrame /\ stack # <<>>
  BY PopStack, FrameKinds DEF AddNull, InCall, TypeOK
<1>2. Top.name \in Name
  BY <1>1 DEF AddFrame
<1>3. RemoveOf(Top.name) \in Frame /\ Lookup(Top.name) \in Frame
  BY <1>2, LookupType DEF RemoveOf, RemoveFrame, Frame, TypeOK
<1>4. CASE stack' = Pop
  BY <1>1, <1>2, <1>4, PopShape
<1>5. CASE RemoveCall(Pop, Top.name)
  <2>1. stack' = Append(Replace(RemoveOf(Top.name)), Lookup(Top.name))
    BY <1>5 DEF RemoveCall, Replace, RemoveOf
  <2>2. QED BY <1>1, <1>2, <1>3, <2>1, CallShape
<1>6. QED BY <1>4, <1>5 DEF AddNull

LEMMA BeginPatternsShape ==
  ASSUME TypeOK, BeginPatterns
  PROVE  /\ Top \in LookupFrame /\ stack # <<>>
         /\ Changed([Top EXCEPT !.phase = "patterns", !.pit = FrontOf(patternResolvers)])
<1>1. Top \in LookupFrame /\ stack # <<>>
  BY TopLookup DEF BeginPatterns
<1>2. FrontOf(patternResolvers) \in Resolver \cup {NoPattern}
  BY FrontOfType DEF TypeOK
<1>3. [Top EXCEPT !.phase = "patterns", !.pit = FrontOf(patternResolvers)] \in Frame
  BY <1>1, <1>2 DEF LookupFrame, Frame
<1>4. QED BY <1>1, <1>3, ReplaceShape DEF BeginPatterns

\* What the three loops have in common: a waiting resolver that answers to the
\* name is forgotten by the indexes and runs above the frame of the loop.
LEMMA ByNameShape ==
  ASSUME TypeOK, IndexesAgree, ResolveByName
  PROVE  LET r == Top.it[2]
             next == FirstOf({a \in resolverMap : Before(Top.it, a)})
         IN  /\ Top \in LookupFrame /\ stack # <<>>
             /\ Top.it \in resolverMap /\ r \in resolvers /\ r \in Resolver
             /\ Top.it[1] \in Names[r]
             /\ next \in Iterator
             /\ Forget(r)
             /\ UNCHANGED <<facts, registered, seen, crashed>>
             /\ Called([Top EXCEPT !.it = next], Run(r))
<1> DEFINE r == Top.it[2]
           next == FirstOf({a \in resolverMap : Before(Top.it, a)})
           f == [Top EXCEPT !.it = next]
<1>1. Top \in LookupFrame /\ stack # <<>>
  BY TopLookup DEF ResolveByName
<1>2. Top.it \in resolverMap /\ Top.it \in Node
  BY DEF ResolveByName, TypeOK
<1>3. r \in resolvers /\ r \in Resolver /\ Top.it[1] \in Names[r]
  BY <1>2 DEF IndexesAgree, Node
<1>4. next \in Iterator
  BY FirstOfType DEF TypeOK
<1>5. f \in Frame /\ Run(r) \in Frame
  BY <1>1, <1>3, <1>4 DEF LookupFrame, Frame, Run, RunFrame
<1>6. Resolve(r, Replace(f))
  BY DEF ResolveByName
<1>7. Called(f, Run(r))
  BY <1>1, <1>5, <1>6, CallShape DEF Resolve
<1>8. QED BY <1>1, <1>2, <1>3, <1>4, <1>6, <1>7 DEF Resolve

LEMMA ByPatternShape ==
  ASSUME TypeOK, IndexesAgree, ResolveByPattern
  PROVE  LET r == FrontOf(MatchesLeft)
             next == FrontOf({s \in patternResolvers : s > r})
         IN  /\ Top \in LookupFrame /\ stack # <<>>
             /\ r \in MatchesLeft /\ \A s \in MatchesLeft : r <= s
             /\ r \in resolvers /\ r \in Resolver
             /\ next \in Resolver \cup {NoPattern}
             /\ Forget(r)
             /\ UNCHANGED <<facts, registered, seen, crashed>>
             /\ Called([Top EXCEPT !.pit = next], Run(r))
<1> DEFINE r == FrontOf(MatchesLeft)
           next == FrontOf({s \in patternResolvers : s > r})
           f == [Top EXCEPT !.pit = next]
<1>1. Top \in LookupFrame /\ stack # <<>>
  BY TopLookup DEF ResolveByPattern
<1>2. r \in MatchesLeft /\ \A s \in MatchesLeft : r <= s
  BY FrontOfIsLeast DEF ResolveByPattern, MatchesLeft, TypeOK
<1>3. r \in resolvers /\ r \in Resolver
  BY <1>2 DEF IndexesAgree, MatchesLeft, TypeOK
<1>4. next \in Resolver \cup {NoPattern}
  BY FrontOfType DEF TypeOK
<1>5. f \in Frame /\ Run(r) \in Frame
  BY <1>1, <1>3, <1>4 DEF LookupFrame, Frame, Run, RunFrame
<1>6. Resolve(r, Replace(f))
  BY DEF ResolveByPattern
<1>7. Called(f, Run(r))
  BY <1>1, <1>5, <1>6, CallShape DEF Resolve
<1>8. QED BY <1>1, <1>2, <1>3, <1>4, <1>6, <1>7 DEF Resolve

LEMMA FrontShape ==
  ASSUME TypeOK, ResolveFront
  PROVE  LET r == FrontOf(resolvers)
         IN  /\ stack # <<>> /\ Top.kind = "drain"
             /\ r \in resolvers /\ r \in Resolver
             /\ Forget(r)
             /\ UNCHANGED <<facts, registered, seen, crashed>>
             /\ Called(Top, Run(r))
<1> DEFINE r == FrontOf(resolvers)
<1>1. stack # <<>> /\ Top.kind = "drain" /\ stack \in Seq(Frame) /\ Top \in Frame
  BY PopStack DEF ResolveFront, InCall, TypeOK
<1>2. r \in resolvers /\ r \in Resolver
  BY FrontOfIsLeast DEF ResolveFront, TypeOK
<1>3. Run(r) \in Frame
  BY <1>2 DEF Run, RunFrame, Frame
<1>4. Resolve(r, stack)
  BY DEF ResolveFront
<1>5. Called(Top, Run(r))
  BY <1>1, <1>3, <1>4, PushFrame, StackBasics DEF Resolve, Called, SameBelow, Top
<1>6. QED BY <1>1, <1>2, <1>4, <1>5 DEF Resolve

\* The steps by which a call ends.
Ends == \/ LookupReturns \/ DereferenceInvalid \/ AddStores \/ RemoveErases
        \/ DrainReturns \/ WritePrints \/ RunReturns \/ RunThrows

LEMMA EndsShape ==
  ASSUME TypeOK, Ends
  PROVE  Popped
<1>1. stack # <<>> /\ (stack' = Pop \/ stack' = <<>>)
  BY DEF Ends, LookupReturns, DereferenceInvalid, InvalidIterator, AddStores, RemoveErases,
         DrainReturns, WritePrints, RunReturns, RunThrows, InCall
<1>2. QED BY <1>1, PopShape

\* The resolvers leave the indexes one by one while a call is in progress.
LEMMA IndexesShrink ==
  ASSUME TypeOK, IndexesAgree, Step
  PROVE  /\ resolvers' \subseteq resolvers /\ resolverMap' \subseteq resolverMap
         /\ patternResolvers' \subseteq patternResolvers
         /\ \/ ResolveByName \/ ResolveByPattern \/ ResolveFront
            \/ UNCHANGED index
<1>1. CASE ResolveByName
  BY <1>1, ByNameShape DEF Forget
<1>2. CASE ResolveByPattern
  BY <1>2, ByPatternShape DEF Forget
<1>3. CASE ResolveFront
  BY <1>3, FrontShape DEF Forget
<1>4. CASE ~(ResolveByName \/ ResolveByPattern \/ ResolveFront)
  <2>1. UNCHANGED index
    BY <1>4 DEF Step, BeginPatterns, LookupReturns, DereferenceInvalid, AddStores, AddNull,
         RemoveErases, DrainReturns, WriteAsks, WritePrints, RunGets, RunAdds, RunSkips,
         RunReturns, RunThrows, index
  <2>2. QED BY <2>1 DEF index
<1>5. QED BY <1>1, <1>2, <1>3, <1>4

\* The stack after a call of the application that does not return at once.
Opened ==
    \/ \E n \in Name : Len(stack') = 1 /\ stack'[1] = Lookup(n)
    \/ \E n \in Name : \E f \in AddFrame \cup RemoveFrame :
         Len(stack') = 2 /\ f.name = n /\ stack'[1] = f /\ stack'[2] = Lookup(n)
    \/ Len(stack') = 1 /\ stack'[1].kind = "drain"
    \/ Len(stack') = 1 /\ stack'[1].kind = "write" /\ stack'[1].asked = {}
         /\ stack'[1].held = {}

LEMMA CallShapes ==
  ASSUME TypeOK, Call
  PROVE  /\ stack = <<>> /\ ~crashed /\ crashed' = crashed
         /\ \/ stack' = <<>>
            \/ Opened /\ UNCHANGED <<facts, index, rest>>
<1>0. stack = <<>> /\ ~crashed /\ crashed' = crashed
  BY DEF Call, AddResolver, RemoveResolver, Clear, Get, Add, Remove, ResolveAll, Write, Idle,
         rest
<1>1. ASSUME NEW f PROVE Len(Append(<<>>, f)) = 1 /\ Append(<<>>, f)[1] = f
  OBVIOUS
<1>2. ASSUME NEW f, NEW g
      PROVE  /\ Len(Append(Append(<<>>, f), g)) = 2
             /\ Append(Append(<<>>, f), g)[1] = f
             /\ Append(Append(<<>>, f), g)[2] = g
  OBVIOUS
<1>3. CASE AddResolver \/ Clear \/ \E r \in Resolver : RemoveResolver(r)
  BY <1>0, <1>3 DEF AddResolver, Clear, RemoveResolver
<1>4. CASE \E n \in Asked : Get(n)
  <2>1. PICK n \in Name : Get(n)
    BY <1>4, CollectionAssumption
  <2>2. Len(stack') = 1 /\ stack'[1] = Lookup(n)
    BY <1>0, <1>1, <2>1 DEF Get, Push
  <2>3. QED BY <1>0, <2>1, <2>2 DEF Opened, Get
<1>5. CASE \E n \in Supplied : Remove(n)
  <2>1. PICK n \in Name : Remove(n)
    BY <1>5, CollectionAssumption
  <2> DEFINE f == RemoveOf(n)
  <2>2. f \in RemoveFrame /\ f.name = n
    BY DEF RemoveOf, RemoveFrame
  <2>3. Len(stack') = 2 /\ stack'[1] = f /\ stack'[2] = Lookup(n)
    BY <1>0, <1>2, <2>1 DEF Remove, RemoveCall, RemoveOf
  <2>4. QED BY <1>0, <2>1, <2>2, <2>3 DEF Opened, Remove
<1>6. CASE \E n \in Supplied : Add(n, App) \/ Add(n, Absent)
  <2>1. PICK n \in Name, v \in {App, Absent} : Add(n, v)
    BY <1>6, CollectionAssumption
  <2> DEFINE f == AddOf(n, v)
  <2>2. f \in AddFrame /\ f.name = n
    BY DEF AddOf, AddFrame, Value
  <2>3. Len(stack') = 2 /\ stack'[1] = f /\ stack'[2] = Lookup(n)
    BY <1>0, <1>2, <2>1 DEF Add, AddCall, AddOf
  <2>4. QED BY <1>0, <2>1, <2>2, <2>3 DEF Opened, Add
<1>7. CASE ResolveAll
  <2>1. Len(stack') = 1 /\ stack'[1] = [kind |-> "drain"]
    BY <1>0, <1>1, <1>7 DEF ResolveAll, Push
  <2>2. QED BY <1>0, <1>7, <2>1 DEF Opened, ResolveAll
<1>8. CASE \E qs \in Queries : Write(qs)
  <2>1. PICK qs \in Queries : Write(qs)
    BY <1>8
  <2> DEFINE f == [kind |-> "write", asked |-> {}, todo |-> qs, held |-> {}]
  <2>2. Len(stack') = 1 /\ stack'[1] = f
    BY <1>0, <1>1, <2>1 DEF Write, Push
  <2>3. f.kind = "write" /\ f.asked = {} /\ f.held = {}
    OBVIOUS
  <2>4. QED BY <1>0, <2>1, <2>2, <2>3 DEF Opened, Write
<1>9. QED BY <1>3, <1>4, <1>5, <1>6, <1>7, <1>8 DEF Call

-----------------------------------------------------------------------------
(* An answer is complete *)

\* Before orders the nodes of the multimap.
LEMMA BeforeOrders ==
  ASSUME NEW a \in Iterator, NEW b \in Iterator, NEW c \in Iterator
  PROVE  /\ a[1] \in Nat /\ a[2] \in Nat /\ ~Before(a, a)
         /\ a = b \/ Before(a, b) \/ Before(b, a)
         /\ Before(a, b) /\ Before(b, c) => Before(a, c)
<1>1. \A x \in Iterator : x = <<x[1], x[2]>> /\ x[1] \in Nat /\ x[2] \in Nat
  BY SMTT(20), CollectionAssumption DEF Iterator, Node, Name, Resolver, End
<1>2. QED BY <1>1 DEF Before

\* A lookup starts in front of every node of its name.
LEMMA LookupStartsAhead ==
  ASSUME resolverMap \subseteq Node, NEW n \in Name
  PROVE  Ahead(Lookup(n))
<1> DEFINE here == {a \in resolverMap : a[1] >= n}
           after == {a \in resolverMap : a[1] > n}
<1>1. n \in Nat /\ End[1] > n
  BY CollectionAssumption DEF Name, End
<1>2. FirstOf(after)[1] > n
  <2>1. CASE after = {}
    BY <1>1, <2>1 DEF FirstOf
  <2>2. CASE after # {}
    BY <2>2, FirstOfIsLeast
  <2>3. QED BY <2>1, <2>2
<1>3. ASSUME NEW a \in resolverMap, a[1] = n
      PROVE  a = FirstOf(here) \/ Before(FirstOf(here), a)
  <2>1. a \in here
    BY <1>1, <1>3
  <2>2. QED BY <2>1, FirstOfIsLeast
<1>4. /\ Lookup(n).kind = "lookup" /\ Lookup(n).phase = "names" /\ Lookup(n).name = n
      /\ Lookup(n).it = FirstOf(here) /\ Lookup(n).stop = FirstOf(after)
  BY DEF Lookup
<1>5. QED BY <1>2, <1>3, <1>4 DEF Ahead, AheadNext, AheadIn

\* A lookup stays in front of its nodes when nodes are erased.
LEMMA AheadInherited ==
  ASSUME NEW f, Ahead(f), resolverMap' \subseteq resolverMap,
         patternResolvers' \subseteq patternResolvers
  PROVE  AheadNext(f)
BY DEF Ahead, AheadNext, AheadIn

\* The step of the iterator past the node it was at.
LEMMA NextIsAhead ==
  ASSUME TypeOK, IndexesAgree, ResolveByName, Ahead(Top)
  PROVE  AheadNext([Top EXCEPT !.it = FirstOf({a \in resolverMap : Before(Top.it, a)})])
<1> DEFINE next == FirstOf({a \in resolverMap : Before(Top.it, a)})
           f == [Top EXCEPT !.it = next]
<1>1. /\ Top \in LookupFrame /\ Top.it \in resolverMap /\ Forget(Top.it[2])
      /\ Top.phase = "names" /\ Top.kind = "lookup"
  BY ByNameShape DEF ResolveByName, InCall
<1>2. /\ f.kind = "lookup" /\ f.phase = "names" /\ f.name = Top.name
      /\ f.it = next /\ f.stop = Top.stop
  BY <1>1 DEF LookupFrame
<1>3. ASSUME NEW a \in resolverMap', a[1] = Top.name
      PROVE  a = next \/ Before(next, a)
  <2>1. a \in resolverMap /\ a # Top.it
    BY <1>1 DEF Forget
  <2>2. Before(Top.it, a)
    BY <1>1, <1>3, <2>1 DEF Ahead, AheadNext, AheadIn
  <2>3. QED BY <2>1, <2>2, FirstOfIsLeast DEF TypeOK
<1>4. Top.stop[1] > Top.name
  BY <1>1 DEF Ahead, AheadNext, AheadIn
<1>5. QED BY <1>2, <1>3, <1>4 DEF Ahead, AheadNext, AheadIn

\* At the end of the range no node of the name is left.
LEMMA PatternsAreAhead ==
  ASSUME TypeOK, BeginPatterns, Ahead(Top)
  PROVE  AheadNext([Top EXCEPT !.phase = "patterns", !.pit = FrontOf(patternResolvers)])
<1> DEFINE f == [Top EXCEPT !.phase = "patterns", !.pit = FrontOf(patternResolvers)]
<1>1. Top \in LookupFrame /\ Top.kind = "lookup" /\ Top.phase = "names" /\ Top.it = Top.stop
  BY BeginPatternsShape DEF BeginPatterns, InCall
<1>2. /\ f.kind = "lookup" /\ f.phase = "patterns" /\ f.name = Top.name
      /\ f.stop = Top.stop /\ f.pit = FrontOf(patternResolvers)
  BY <1>1 DEF LookupFrame
<1>3. Top.stop[1] > Top.name /\ Top.name \in Nat
  BY <1>1, CollectionAssumption DEF Ahead, AheadNext, AheadIn, LookupFrame, Name
<1>4. \A a \in resolverMap : a[1] # Top.name
  <2>1. ASSUME NEW a \in resolverMap, a[1] = Top.name PROVE FALSE
    <3>1. a = Top.stop \/ Before(Top.stop, a)
      BY <1>1, <2>1 DEF Ahead, AheadNext, AheadIn
    <3>2. Top.stop[1] \in Nat
      BY <1>1, BeforeOrders DEF LookupFrame
    <3>3. QED BY <1>3, <2>1, <3>1, <3>2 DEF Before
  <2>2. QED BY <2>1
<1>5. \A r \in patternResolvers : r >= FrontOf(patternResolvers)
  <2>1. patternResolvers \subseteq Nat
    BY CollectionAssumption DEF TypeOK, Resolver
  <2>2. patternResolvers # {} => /\ FrontOf(patternResolvers) \in patternResolvers
                                 /\ \A r \in patternResolvers : FrontOf(patternResolvers) <= r
    BY FrontOfIsLeast DEF TypeOK
  <2>3. QED BY <2>1, <2>2
<1>6. UNCHANGED <<resolverMap, patternResolvers>>
  BY DEF BeginPatterns, index
<1>7. QED BY <1>2, <1>3, <1>4, <1>5, <1>6 DEF Ahead, AheadNext, AheadIn

\* The step of pattern_it past the resolver that runs.
LEMMA NextPatternIsAhead ==
  ASSUME TypeOK, IndexesAgree, ResolveByPattern, Ahead(Top)
  PROVE  LET r == FrontOf(MatchesLeft)
         IN  AheadNext([Top EXCEPT !.pit = FrontOf({s \in patternResolvers : s > r})])
<1> DEFINE r == FrontOf(MatchesLeft)
           later == {s \in patternResolvers : s > r}
           f == [Top EXCEPT !.pit = FrontOf(later)]
<1>1. /\ Top \in LookupFrame /\ Top.kind = "lookup" /\ Top.phase = "patterns"
      /\ \A s \in MatchesLeft : r <= s
      /\ Forget(r) /\ r \in Resolver
  BY ByPatternShape DEF ResolveByPattern, InCall
<1>2. /\ f.kind = "lookup" /\ f.phase = "patterns" /\ f.name = Top.name
      /\ f.stop = Top.stop /\ f.pit = FrontOf(later)
  BY <1>1 DEF LookupFrame
<1>3. ASSUME NEW s \in patternResolvers', Top.name \in Matches[s]
      PROVE  s >= FrontOf(later)
  <2>1. s \in patternResolvers /\ s # r
    BY <1>1 DEF Forget
  <2>2. s \in MatchesLeft
    BY <1>1, <1>3, <2>1 DEF Ahead, AheadNext, AheadIn, MatchesLeft
  <2>3. s \in Nat /\ r \in Nat /\ later \subseteq Resolver
    <3>1. s \in Resolver /\ r \in Resolver /\ patternResolvers \subseteq Resolver
      BY <1>1, <2>1 DEF TypeOK
    <3>2. Resolver \subseteq Nat
      BY CollectionAssumption DEF Resolver
    <3>3. QED BY <3>1, <3>2
  <2>4. s \in later
    BY <1>1, <2>1, <2>2, <2>3
  <2>5. FrontOf(later) \in later /\ FrontOf(later) <= s
    BY <2>3, <2>4, FrontOfIsLeast
  <2>6. FrontOf(later) \in Nat
    BY <2>3, <2>5, CollectionAssumption DEF Resolver
  <2>7. QED BY <2>3, <2>5, <2>6
<1>4. resolverMap' \subseteq resolverMap
  BY <1>1 DEF Forget
<1>5. QED BY <1>1, <1>2, <1>3, <1>4 DEF Ahead, AheadNext, AheadIn

LEMMA LookupsAheadStep ==
  ASSUME TypeOK, IndexesAgree, LookupsAhead, [Next]_vars
  PROVE  LookupsAhead'
<1>0. /\ Len(stack) \in Nat /\ resolverMap \subseteq Node /\ Len(<<>>) = 0
      /\ stack # <<>> => Len(stack) \in 1..Len(stack)
  BY StackBasics DEF TypeOK
<1>a. (\A i \in 1..Len(stack') : AheadNext(stack'[i])) => LookupsAhead'
  BY DEF LookupsAhead, Ahead, AheadNext
<1>1. CASE UNCHANGED vars
  BY <1>1 DEF vars, LookupsAhead, Ahead
<1>2. CASE Call
  <2>1. CASE stack' = <<>>
    BY <1>0, <1>a, <2>1
  <2>2. CASE Opened /\ UNCHANGED <<facts, index, rest>>
    <3>1. UNCHANGED <<resolverMap, patternResolvers>>
      BY <2>2 DEF index
    <3>2. ASSUME NEW i \in 1..Len(stack') PROVE Ahead(stack'[i])
      <4>1. stack'[i].kind # "lookup" => Ahead(stack'[i])
        BY DEF Ahead, AheadNext, AheadIn
      <4>2. \A f \in AddFrame \cup RemoveFrame : f.kind # "lookup"
        BY DEF AddFrame, RemoveFrame
      <4>3. \A n \in Name : Ahead(Lookup(n))
        BY <1>0, LookupStartsAhead
      <4>4. i = 1 \/ i = 2
        <5>1. Len(stack') = 1 \/ Len(stack') = 2
          BY <2>2 DEF Opened
        <5>2. i \in 1..1 \/ i \in 1..2
          BY <5>1
        <5>3. QED BY <5>2
      <4>5. QED BY <2>2, <4>1, <4>2, <4>3, <4>4 DEF Opened
    <3>3. \A i \in 1..Len(stack') : AheadNext(stack'[i])
      BY <3>1, <3>2 DEF Ahead, AheadNext, AheadIn
    <3>4. QED BY <1>a, <3>3
  <2>3. QED BY <1>2, <2>1, <2>2, CallShapes
<1>3. CASE Step
  <2>1. ASSUME NEW f, Ahead(f) PROVE AheadNext(f)
    BY <1>3, <2>1, IndexesShrink, AheadInherited
  <2>2. \A i \in 1..Len(stack) : AheadNext(stack[i])
    BY <2>1 DEF LookupsAhead
  <2>3. stack # <<>> => Ahead(Top)
    BY <1>0 DEF LookupsAhead, Top
  <2>4. ASSUME NEW f, f.kind # "lookup" PROVE AheadNext(f)
    BY <2>4 DEF Ahead, AheadNext, AheadIn
  <2>5. \A n \in Name : Ahead(Lookup(n)) /\ AheadNext(Lookup(n))
    BY <1>0, <2>1, LookupStartsAhead
  <2>6. ASSUME Popped PROVE LookupsAhead'
    BY <1>0, <1>a, <2>2, <2>6 DEF Popped
  <2>7. ASSUME stack # <<>>, NEW f, NEW g, Called(f, g), AheadNext(f), AheadNext(g) PROVE LookupsAhead'
    BY <1>0, <1>a, <2>2, <2>7 DEF Called, SameBelow
  <2>8. ASSUME stack # <<>>, NEW f, Changed(f), AheadNext(f) PROVE LookupsAhead'
    BY <1>0, <1>a, <2>2, <2>8 DEF Changed, SameBelow
  <2>9. \A r : AheadNext(Run(r))
    BY DEF Run, Ahead, AheadNext, AheadIn
  <2>10. CASE Ends
    BY <2>6, <2>10, EndsShape
  <2>11. CASE AddNull
    <3>1. RemoveOf(Top.name).kind # "lookup"
      BY DEF RemoveOf
    <3>2. QED BY <2>4, <2>5, <2>6, <2>7, <2>11, <3>1, AddNullShape
  <2>12. CASE BeginPatterns
    BY <2>3, <2>8, <2>12, BeginPatternsShape, PatternsAreAhead
  <2>13. CASE ResolveByName
    BY <2>3, <2>7, <2>9, <2>13, ByNameShape, NextIsAhead
  <2>14. CASE ResolveByPattern
    BY <2>3, <2>7, <2>9, <2>14, ByPatternShape, NextPatternIsAhead
  <2>15. CASE ResolveFront
    BY <2>1, <2>3, <2>7, <2>9, <2>15, FrontShape
  <2>16. CASE WriteAsks
    BY <2>4, <2>5, <2>7, <2>16, WriteAsksShape
  <2>17. CASE RunGets
    BY <2>4, <2>5, <2>7, <2>17, RunGetsShape, RunShape DEF RunGets
  <2>18. CASE RunSkips
    BY <2>4, <2>8, <2>18, RunSkipsShape, RunShape DEF RunSkips
  <2>19. CASE RunAdds
    <3> DEFINE f == [Top EXCEPT !.pc = @ + 1]
               g == AddOf(NextOp.name, Top.res)
               h == Lookup(NextOp.name)
    <3>1. CalledTwice(f, g, h) /\ NextOp.name \in Name /\ stack # <<>> /\ f.kind = "run"
      BY <2>19, RunAddsShape, RunShape DEF RunAdds
    <3>2. g.kind # "lookup"
      BY DEF AddOf
    <3>3. AheadNext(f) /\ AheadNext(g) /\ AheadNext(h)
      BY <2>4, <2>5, <3>1, <3>2
    <3> HIDE DEF f, g, h
    <3>4. QED BY <1>0, <1>a, <2>2, <3>1, <3>3 DEF CalledTwice, SameBelow
  <2>20. QED
    BY <1>3, <2>10, <2>11, <2>12, <2>13, <2>14, <2>15, <2>16, <2>17, <2>18, <2>19
       DEF Step, Ends
<1>4. QED BY <1>1, <1>2, <1>3 DEF Next

LEMMA LookupsAheadCorrect == Spec => []LookupsAhead
<1>1. Init => LookupsAhead
  BY EmptySeq DEF Init, LookupsAhead
<1>2. QED BY <1>1, LookupsAheadStep, TypeCorrect, IndexesCorrect, PTL DEF Spec

\* A lookup that is at the end of both its walks has no waiting resolver left.
LEMMA NothingLeft ==
  ASSUME TypeOK, IndexesAgree, LookupsAhead, InCall("lookup"), Top.phase = "patterns",
         MatchesLeft = {}
  PROVE  NonePending(Top.name)
<1>1. Top \in LookupFrame /\ Top.kind = "lookup" /\ Ahead(Top)
  BY TopLookup, StackBasics DEF LookupsAhead, Top, InCall
<1>2. Top.name \in Name
  BY <1>1 DEF LookupFrame
<1>3. ASSUME NEW r \in resolvers PROVE Top.name \notin Covers(r)
  <2>1. r \in Resolver
    BY DEF TypeOK
  <2>2. Top.name \notin Names[r]
    <3>1. Top.name \in Names[r] => <<Top.name, r>> \in resolverMap
      BY <1>2, <2>1 DEF IndexesAgree, Node
    <3>2. <<Top.name, r>> \notin resolverMap
      BY <1>1 DEF Ahead, AheadNext, AheadIn
    <3>3. QED BY <3>1, <3>2
  <2>3. Top.name \notin Matches[r]
    <3>1. Top.name \in Matches[r] => r \in patternResolvers
      BY <2>1, CollectionAssumption DEF IndexesAgree
    <3>2. r \in patternResolvers /\ Top.name \in Matches[r] => r >= Top.pit
      BY <1>1 DEF Ahead, AheadNext, AheadIn
    <3>3. QED BY <3>1, <3>2 DEF MatchesLeft
  <2>4. QED BY <2>2, <2>3 DEF Covers
<1>4. QED BY <1>3 DEF NonePending

\* When get_value goes on to read _facts, no resolver announced for the name is
\* waiting, however many names the resolvers share.
THEOREM AnswerIsCompleteCorrect == Spec => []AnswerIsComplete
<1>1. TypeOK /\ IndexesAgree /\ LookupsAhead => AnswerIsComplete
  BY NothingLeft DEF AnswerIsComplete
<1>2. QED BY <1>1, TypeCorrect, IndexesCorrect, LookupsAheadCorrect, PTL

-----------------------------------------------------------------------------
(* Iterators stay valid *)

\* The iterators of a lookup that has not moved yet are those of its range.
LEMMA FreshLookup ==
  ASSUME TypeOK, NEW n \in Name, Lookup(n).it # Lookup(n).stop
  PROVE  Lookup(n).it \in resolverMap /\ Lookup(n).it[1] = n
<1> DEFINE here == {a \in resolverMap : a[1] >= n}
           after == {a \in resolverMap : a[1] > n}
<1>1. Lookup(n).it = FirstOf(here) /\ Lookup(n).stop = FirstOf(after)
  BY DEF Lookup
<1>2. n \in Nat /\ \A a \in resolverMap : a \in Node /\ a[1] \in Nat
  BY CollectionAssumption DEF TypeOK, Node, Name
<1>3. here # {}
  <2>1. here = {} => after = {}
    BY <1>2
  <2>2. QED BY <1>1, <2>1
<1>4. FirstOf(here) \in here
  BY <1>3, FirstOfIsLeast DEF TypeOK
<1>5. ASSUME FirstOf(here)[1] # n PROVE FALSE
  <2>1. here = after
    <3>1. ASSUME NEW a \in here PROVE a \in after
      <4>1. FirstOf(here) = a \/ Before(FirstOf(here), a)
        BY FirstOfIsLeast DEF TypeOK
      <4>2. FirstOf(here)[1] > n
        BY <1>2, <1>4, <1>5
      <4>3. a[1] >= FirstOf(here)[1]
        BY <1>2, <1>4, <4>1 DEF Before
      <4>4. QED BY <1>2, <1>4, <4>2, <4>3
    <3>2. QED BY <1>2, <3>1
  <2>2. QED BY <1>1, <2>1
<1>6. QED BY <1>1, <1>4, <1>5

\* With different names for different resolvers the first step of such a lookup
\* is its last.
LEMMA OneStepToStop ==
  ASSUME TypeOK, IndexesAgree, NamesDisjoint, NEW n \in Name,
         Lookup(n).it # Lookup(n).stop
  PROVE  FirstOf({a \in resolverMap : Before(Lookup(n).it, a)}) = Lookup(n).stop
<1> DEFINE it == Lookup(n).it
<1>1. it \in resolverMap /\ it[1] = n
  BY FreshLookup
<1>2. \A a \in resolverMap : /\ a \in Node /\ a = <<a[1], a[2]>>
                             /\ a[1] \in Nat /\ a[2] \in Nat
  BY CollectionAssumption DEF TypeOK, Node, Name, Resolver
<1>3. ASSUME NEW a \in resolverMap PROVE Before(it, a) <=> a[1] > n
  <2>1. CASE a[1] = n
    <3>1. a[2] \in resolvers /\ it[2] \in resolvers
          /\ n \in Covers(a[2]) /\ n \in Covers(it[2])
      BY <1>1, <2>1 DEF IndexesAgree, Covers
    <3>2. a[2] = it[2]
      BY <3>1 DEF NamesDisjoint
    <3>3. QED BY <1>1, <1>2, <2>1, <3>2 DEF Before
  <2>2. CASE a[1] # n
    BY <1>1, <1>2, <2>2 DEF Before
  <2>3. QED BY <2>1, <2>2
<1>4. {a \in resolverMap : Before(it, a)} = {a \in resolverMap : a[1] > n}
  BY <1>3
<1>5. QED BY <1>4 DEF Lookup

\* Valid iterators are not invalid.
LEMMA ValidIsNotInvalid ==
  ASSUME TypeOK, IteratorsValid
  PROVE  ~InvalidIterator
<1>1. SUFFICES ASSUME InCall("lookup")
               PROVE  /\ Top.phase = "names" => Top.it = Top.stop \/ Top.it \in resolverMap
                      /\ Top.phase = "patterns" =>
                           Top.pit = NoPattern \/ Top.pit \in patternResolvers
  BY DEF InvalidIterator
<1>2. /\ stack # <<>> /\ Top \in LookupFrame /\ Top.kind = "lookup"
      /\ Len(stack) \in 1..Len(stack)
  BY <1>1, TopLookup, StackBasics DEF InCall
<1>3. IteratorsKept(Len(stack))
  BY <1>2 DEF IteratorsValid, Top
<1>4. Top.name \in Name
  BY <1>2 DEF LookupFrame
<1>5. AtStart(Top, resolverMap) =>
        Top.it = Lookup(Top.name).it /\ Top.stop = Lookup(Top.name).stop
  BY DEF AtStart, Lookup
<1>6. QED BY <1>3, <1>4, <1>5, FreshLookup DEF IteratorsKept, Top

\* A call that grows or changes the top frame keeps the iterators below valid if
\* all it does and forgets stays within the sets its caller stays within.
LEMMA ValidBelow ==
  ASSUME TypeOK, IteratorsValid, stack # <<>>, crashed' = crashed,
         Len(stack') \in Nat, Len(stack') >= Len(stack), SameBelow,
         NEW R \in SUBSET Resolver, patternResolvers' = patternResolvers \ R,
         \A S \in SUBSET Resolver : ClosedUnderAsking(S) /\ Within(Top, S) =>
             R \subseteq S /\ \A j \in Len(stack)..Len(stack') : Within(stack'[j], S),
         \A j \in Len(stack)..Len(stack') : stack'[j].kind = "lookup" =>
             IteratorsKept(j)' /\ WalkApart(j)'
  PROVE  IteratorsValid'
<1>0. Len(stack) \in Nat \ {0}
  BY StackBasics
<1>1. ASSUME NEW i \in 1..Len(stack'), stack'[i].kind = "lookup"
      PROVE  IteratorsKept(i)' /\ WalkApart(i)'
  <2>1. CASE i \in Len(stack)..Len(stack')
    BY <1>1, <2>1
  <2>2. CASE i \in 1..(Len(stack) - 1)
    <3>1. stack'[i] = stack[i] /\ i \in 1..Len(stack) /\ i < Len(stack) /\ i # Len(stack)
      BY <1>0, <2>2 DEF SameBelow
    <3>2. IteratorsKept(i) /\ WalkApart(i)
      BY <1>1, <3>1 DEF IteratorsValid
    <3>3. CASE stack[i].phase = "patterns"
      <4>1. PICK S \in SUBSET Resolver :
              /\ ClosedUnderAsking(S) /\ stack[i].pit \notin S
              /\ \A j \in (i+1)..Len(stack) : Within(stack[j], S)
        BY <3>1, <3>2, <3>3 DEF WalkApart
      <4>2. Within(Top, S)
        <5>1. Len(stack) \in (i+1)..Len(stack)
          BY <1>0, <3>1
        <5>2. QED BY <4>1, <5>1 DEF Top
      <4>3. R \subseteq S /\ \A j \in Len(stack)..Len(stack') : Within(stack'[j], S)
        BY <4>1, <4>2
      <4>4. stack[i].pit = NoPattern \/ stack[i].pit \in patternResolvers'
        BY <3>2, <3>3, <4>1, <4>3 DEF IteratorsKept
      <4>5. ASSUME NEW j \in (i+1)..Len(stack') PROVE Within(stack'[j], S)
        <5>1. CASE j \in Len(stack)..Len(stack')
          BY <4>3, <5>1
        <5>2. CASE j \in 1..(Len(stack) - 1)
          <6>1. stack'[j] = stack[j] /\ j \in (i+1)..Len(stack)
            BY <1>0, <5>2 DEF SameBelow
          <6>2. QED BY <4>1, <6>1
        <5>3. j \in Len(stack)..Len(stack') \/ j \in 1..(Len(stack) - 1)
          BY <1>0, <3>1
        <5>4. QED BY <5>1, <5>2, <5>3
      <4>6. WalkApart(i)'
        BY <3>1, <4>1, <4>5 DEF WalkApart
      <4>7. IteratorsKept(i)'
        BY <3>1, <3>3, <4>4 DEF IteratorsKept
      <4>8. QED BY <4>6, <4>7
    <3>4. CASE stack[i].phase # "patterns"
      BY <3>1, <3>2, <3>4 DEF IteratorsKept, WalkApart
    <3>5. QED BY <3>3, <3>4
  <2>3. QED BY <1>0, <2>1, <2>2
<1>2. QED BY <1>1 DEF IteratorsValid

\* So it is when a call ends.
LEMMA ValidPopped ==
  ASSUME TypeOK, IteratorsValid, Popped, UNCHANGED <<crashed, patternResolvers>>
  PROVE  IteratorsValid'
<1>0. Len(stack) \in Nat \ {0} /\ (Len(stack') = 0 \/ Len(stack') = Len(stack) - 1)
  BY StackBasics DEF Popped
<1>1. ASSUME NEW i \in 1..Len(stack'), stack'[i].kind = "lookup"
      PROVE  IteratorsKept(i)' /\ WalkApart(i)'
  <2>1. stack'[i] = stack[i] /\ i \in 1..Len(stack) /\ i < Len(stack) /\ i # Len(stack)
    BY <1>0 DEF Popped
  <2>2. IteratorsKept(i) /\ WalkApart(i)
    BY <1>1, <2>1 DEF IteratorsValid
  <2>3. \A j \in (i+1)..Len(stack') : j \in (i+1)..Len(stack) /\ stack'[j] = stack[j]
    BY <1>0 DEF Popped
  <2>4. IteratorsKept(i)'
    BY <2>1, <2>2 DEF IteratorsKept
  <2>5. WalkApart(i)'
    <3>1. SUFFICES ASSUME stack[i].phase = "patterns"
                   PROVE  \E S \in SUBSET Resolver :
                            /\ ClosedUnderAsking(S) /\ stack[i].pit \notin S
                            /\ \A j \in (i+1)..Len(stack') : Within(stack'[j], S)
      BY <2>1 DEF WalkApart
    <3>2. PICK S \in SUBSET Resolver :
              /\ ClosedUnderAsking(S) /\ stack[i].pit \notin S
              /\ \A j \in (i+1)..Len(stack) : Within(stack[j], S)
      BY <2>1, <2>2, <3>1 DEF WalkApart
    <3>3. QED BY <2>3, <3>2
  <2>6. QED BY <2>4, <2>5
<1>2. QED BY <1>1 DEF IteratorsValid

\* Frames a call adds without leaving the sets it stays within.
LEMMA WithinSame ==
  ASSUME NEW f, NEW g, NEW S, f.kind \in {"lookup", "add", "remove"},
         g.kind \in {"lookup", "add", "remove"}, f.name = g.name, Within(f, S)
  PROVE  Within(g, S)
BY DEF Within

LEMMA WithinAsked ==
  ASSUME TypeOK, AtOp, NEW S \in SUBSET Resolver, ClosedUnderAsking(S), Within(Top, S),
         NEW g, g.kind \in {"lookup", "add", "remove"}, g.name = NextOp.name
  PROVE  Within(g, S)
<1>1. Top \in RunFrame /\ Top.kind = "run" /\ Top.pc \in 1..Len(Program[Top.res])
  BY RunShape DEF AtOp, InCall
<1>2. Top.res \in S
  BY <1>1 DEF Within
<1>3. \A t \in Resolver : NextOp.name \in Covers(t) => t \in S
  BY <1>1, <1>2 DEF ClosedUnderAsking, NextOp
<1>4. QED BY <1>3 DEF Within

LEMMA WithinRun ==
  ASSUME NEW f, NEW g, NEW S, f.kind = "run", g.kind = "run", f.res = g.res, Within(f, S)
  PROVE  Within(g, S)
BY DEF Within

\* A lookup just begun has its first iterators.
LEMMA BegunKept ==
  ASSUME NEW n, NEW i, i = Len(stack'), stack'[i] = Lookup(n), resolverMap' = resolverMap
  PROVE  IteratorsKept(i)' /\ WalkApart(i)'
<1>1. stack'[i].phase = "names" /\ AtStart(stack'[i], resolverMap')
  BY DEF Lookup, AtStart
<1>2. QED BY <1>1 DEF IteratorsKept, WalkApart

LEMMA ValidByName ==
  ASSUME TypeOK, IndexesAgree, NamesDisjoint, IteratorsValid, ResolveByName
  PROVE  IteratorsValid'
<1> DEFINE r == Top.it[2]
           next == FirstOf({a \in resolverMap : Before(Top.it, a)})
           f == [Top EXCEPT !.it = next]
<1>1. /\ Top \in LookupFrame /\ stack # <<>> /\ r \in Resolver
      /\ Top.it[1] \in Names[r] /\ Forget(r) /\ crashed' = crashed
      /\ Called(f, Run(r))
  BY ByNameShape
<1>2. Top.kind = "lookup" /\ Top.phase = "names" /\ Top.it # Top.stop
  BY DEF ResolveByName, InCall
<1>3. /\ f.kind = "lookup" /\ f.phase = "names" /\ f.it = next /\ f.stop = Top.stop
      /\ Top.name \in Name /\ Run(r).kind = "run" /\ Run(r).res = r
  BY <1>1, <1>2 DEF LookupFrame, Run
<1>4. Len(stack) \in 1..Len(stack) /\ Len(stack) \in Nat
  BY <1>1, StackBasics
<1>5. Top.it = Lookup(Top.name).it /\ Top.stop = Lookup(Top.name).stop
  BY <1>2, <1>4 DEF IteratorsValid, IteratorsKept, Top, AtStart, Lookup
<1>6. next = Top.stop /\ Top.it[1] = Top.name
  BY <1>2, <1>3, <1>5, OneStepToStop, FreshLookup
<1>7. ASSUME NEW S \in SUBSET Resolver, Within(Top, S)
      PROVE  r \in S /\ Within(f, S) /\ Within(Run(r), S)
  <2>1. r \in S
    BY <1>1, <1>2, <1>6, <1>7 DEF Within, Covers
  <2>2. f.name = Top.name
    BY <1>1 DEF LookupFrame
  <2>3. QED BY <1>2, <1>3, <1>7, <2>1, <2>2 DEF Within
<1> HIDE DEF f, next
<1>8. /\ Len(stack') = Len(stack) + 1 /\ SameBelow
      /\ stack'[Len(stack)] = f /\ stack'[Len(stack) + 1] = Run(r)
  BY <1>1 DEF Called
<1>9. \A j \in Len(stack)..Len(stack') : j = Len(stack) \/ j = Len(stack) + 1
  BY <1>4, <1>8
<1>10. ASSUME NEW j \in Len(stack)..Len(stack'), stack'[j].kind = "lookup"
       PROVE  IteratorsKept(j)' /\ WalkApart(j)'
  <2>1. stack'[j] = f
    BY <1>3, <1>8, <1>9, <1>10
  <2>2. QED BY <1>3, <1>6, <2>1 DEF IteratorsKept, WalkApart
<1>11. ASSUME NEW S \in SUBSET Resolver, Within(Top, S)
       PROVE  {r} \subseteq S /\ \A j \in Len(stack)..Len(stack') : Within(stack'[j], S)
  BY <1>7, <1>8, <1>9, <1>11
<1>12. patternResolvers' = patternResolvers \ {r} /\ {r} \in SUBSET Resolver
  BY <1>1 DEF Forget
<1>13. Len(stack') \in Nat /\ Len(stack') >= Len(stack)
  BY <1>4, <1>8
<1> HIDE DEF r
<1>14. QED BY <1>1, <1>8, <1>10, <1>11, <1>12, <1>13, ValidBelow

LEMMA ValidByPattern ==
  ASSUME TypeOK, IndexesAgree, PatternsApart, IteratorsValid, ResolveByPattern
  PROVE  IteratorsValid'
<1> DEFINE r == FrontOf(MatchesLeft)
           next == FrontOf({s \in patternResolvers : s > r})
           f == [Top EXCEPT !.pit = next]
<1>1. /\ Top \in LookupFrame /\ stack # <<>> /\ r \in Resolver
      /\ r \in MatchesLeft /\ Forget(r) /\ crashed' = crashed
      /\ Called(f, Run(r))
  BY ByPatternShape
<1>2. Top.kind = "lookup" /\ Top.phase = "patterns"
  BY DEF ResolveByPattern, InCall
<1>3. /\ f.kind = "lookup" /\ f.phase = "patterns" /\ f.pit = next /\ f.name = Top.name
      /\ Run(r).kind = "run" /\ Run(r).res = r
  BY <1>1, <1>2 DEF LookupFrame, Run
<1>4. Len(stack) \in 1..Len(stack) /\ Len(stack) \in Nat
  BY <1>1, StackBasics
<1>5. next = NoPattern \/ (next \in patternResolvers /\ next > r)
  BY FrontOfIsLeast DEF FrontOf, TypeOK
<1>6. r \in Nat /\ r \in patternResolvers /\ Top.name \in Matches[r]
  BY <1>1, CollectionAssumption DEF Resolver, MatchesLeft
<1>7. PICK T \in SUBSET Resolver : T \cap Patterned = {r} /\ ClosedUnderAsking(T)
  BY <1>6 DEF PatternsApart, IndexesAgree
<1>8. next \notin T
  <2>1. NoPattern \notin Resolver
    BY CollectionAssumption DEF NoPattern, Resolver
  <2>2. next \in patternResolvers => next # r
    BY <1>5, <1>6, <2>1, <1>1
  <2>3. QED BY <1>5, <1>7, <2>1, <2>2 DEF IndexesAgree
<1>9. ASSUME NEW S \in SUBSET Resolver, Within(Top, S)
      PROVE  r \in S /\ Within(f, S) /\ Within(Run(r), S)
  <2>1. r \in S
    BY <1>1, <1>2, <1>6, <1>9 DEF Within, Covers
  <2>2. QED BY <1>2, <1>3, <1>9, <2>1 DEF Within
<1>10. Within(Run(r), T)
  BY <1>3, <1>7 DEF Within
<1>11. next = NoPattern \/ next \in patternResolvers'
  BY <1>1, <1>5, <1>6 DEF Forget
<1> HIDE DEF f, next
<1>12. /\ Len(stack') = Len(stack) + 1 /\ SameBelow
       /\ stack'[Len(stack)] = f /\ stack'[Len(stack) + 1] = Run(r)
  BY <1>1 DEF Called
<1>13. \A j \in Len(stack)..Len(stack') : j = Len(stack) \/ j = Len(stack) + 1
  BY <1>4, <1>12
<1>14. ASSUME NEW j \in Len(stack)..Len(stack'), stack'[j].kind = "lookup"
       PROVE  IteratorsKept(j)' /\ WalkApart(j)'
  <2>1. stack'[j] = f /\ j = Len(stack)
    BY <1>3, <1>12, <1>13, <1>14
  <2>2. \A k \in (j+1)..Len(stack') : stack'[k] = Run(r)
    BY <1>4, <1>12, <2>1
  <2>3. QED BY <1>3, <1>7, <1>8, <1>10, <1>11, <2>1, <2>2 DEF IteratorsKept, WalkApart
<1>15. ASSUME NEW S \in SUBSET Resolver, Within(Top, S)
       PROVE  {r} \subseteq S /\ \A j \in Len(stack)..Len(stack') : Within(stack'[j], S)
  BY <1>9, <1>12, <1>13, <1>15
<1>16. patternResolvers' = patternResolvers \ {r} /\ {r} \in SUBSET Resolver
  BY <1>1 DEF Forget
<1>17. Len(stack') \in Nat /\ Len(stack') >= Len(stack)
  BY <1>4, <1>12
<1> HIDE DEF r
<1>18. QED BY <1>1, <1>12, <1>14, <1>15, <1>16, <1>17, ValidBelow

\* The steps that leave the indexes alone.
LEMMA ValidElsewhere ==
  ASSUME TypeOK, IteratorsValid, Step, UNCHANGED index, crashed' = crashed,
         ~(ResolveByName \/ ResolveByPattern \/ ResolveFront)
  PROVE  IteratorsValid'
<1>0. UNCHANGED <<resolverMap, patternResolvers, crashed>> /\ Len(stack) \in Nat
  BY StackBasics DEF index
<1>1. ASSUME Popped PROVE IteratorsValid'
  BY <1>0, <1>1, ValidPopped
<1>2. ASSUME NEW n \in Name PROVE Lookup(n).kind = "lookup" /\ Lookup(n).name = n
  BY DEF Lookup
<1>3. ASSUME NEW f, NEW n, stack # <<>>, Called(f, Lookup(n)), f.kind # "lookup",
             \A S \in SUBSET Resolver : ClosedUnderAsking(S) /\ Within(Top, S) =>
                 Within(f, S) /\ Within(Lookup(n), S)
      PROVE  IteratorsValid'
  <2> DEFINE g == Lookup(n)
  <2> HIDE DEF g
  <2>1. /\ Len(stack') = Len(stack) + 1 /\ SameBelow
        /\ stack'[Len(stack)] = f /\ stack'[Len(stack) + 1] = g
    BY <1>3 DEF Called, g
  <2>2. \A j \in Len(stack)..Len(stack') : j = Len(stack) \/ j = Len(stack')
    BY <1>0, <2>1
  <2>3. ASSUME NEW j \in Len(stack)..Len(stack'), stack'[j].kind = "lookup"
        PROVE  IteratorsKept(j)' /\ WalkApart(j)'
    <3>1. j = Len(stack') /\ stack'[j] = g
      BY <1>0, <1>3, <2>1, <2>2, <2>3
    <3>2. QED BY <1>0, <3>1, BegunKept DEF g
  <2>4. \A S \in SUBSET Resolver : ClosedUnderAsking(S) /\ Within(Top, S) =>
          {} \subseteq S /\ \A j \in Len(stack)..Len(stack') : Within(stack'[j], S)
    BY <1>0, <1>3, <2>1, <2>2 DEF g
  <2>5. Len(stack') \in Nat /\ Len(stack') >= Len(stack)
    BY <1>0, <2>1
  <2>6. patternResolvers' = patternResolvers \ {} /\ {} \in SUBSET Resolver
    BY <1>0
  <2>7. QED BY <1>0, <1>3, <2>1, <2>3, <2>4, <2>5, <2>6, ValidBelow
<1>4. ASSUME NEW f, stack # <<>>, Changed(f),
             \A S : Within(Top, S) => Within(f, S),
             f.kind = "lookup" => /\ f.phase = "patterns"
                                  /\ f.pit = NoPattern \/ f.pit \in patternResolvers
      PROVE  IteratorsValid'
  <2>1. Len(stack') = Len(stack) /\ SameBelow /\ stack'[Len(stack)] = f
    BY <1>4 DEF Changed
  <2>2. \A j \in Len(stack)..Len(stack') : j = Len(stack)
    BY <1>0, <2>1
  <2>3. ASSUME NEW j \in Len(stack)..Len(stack'), stack'[j].kind = "lookup"
        PROVE  IteratorsKept(j)' /\ WalkApart(j)'
    <3>1. j = Len(stack) /\ stack'[j] = f /\ ~(j < Len(stack'))
      BY <1>0, <2>1, <2>2, <2>3
    <3>2. QED BY <1>0, <1>4, <2>3, <3>1 DEF IteratorsKept, WalkApart
  <2>4. \A S \in SUBSET Resolver : ClosedUnderAsking(S) /\ Within(Top, S) =>
          {} \subseteq S /\ \A j \in Len(stack)..Len(stack') : Within(stack'[j], S)
    BY <1>4, <2>1, <2>2
  <2>5. Len(stack') \in Nat /\ Len(stack') >= Len(stack)
    BY <1>0, <2>1
  <2>6. patternResolvers' = patternResolvers \ {} /\ {} \in SUBSET Resolver
    BY <1>0
  <2>7. QED BY <1>0, <1>4, <2>1, <2>3, <2>4, <2>5, <2>6, ValidBelow
<1>5. CASE Ends
  BY <1>1, <1>5, EndsShape
<1>6. CASE AddNull
  <2> DEFINE f == RemoveOf(Top.name)
             n == Top.name
  <2>1. Top.kind = "add" /\ n \in Name /\ stack # <<>>
    BY <1>6, AddNullShape DEF AddNull, InCall
  <2>2. f.kind = "remove" /\ f.name = n
    BY DEF RemoveOf
  <2>3. \A S \in SUBSET Resolver : Within(Top, S) => Within(f, S) /\ Within(Lookup(n), S)
    BY <1>2, <2>1, <2>2, WithinSame
  <2> HIDE DEF f
  <2>4. CASE Called(f, Lookup(n))
    BY <1>3, <2>1, <2>2, <2>3, <2>4
  <2>5. QED BY <1>1, <1>6, <2>4, AddNullShape DEF f
<1>7. CASE BeginPatterns
  <2> DEFINE f == [Top EXCEPT !.phase = "patterns", !.pit = FrontOf(patternResolvers)]
  <2>1. Top \in LookupFrame /\ stack # <<>> /\ Changed(f) /\ Top.kind = "lookup"
    BY <1>7, BeginPatternsShape DEF BeginPatterns, InCall
  <2>2. /\ f.kind = "lookup" /\ f.name = Top.name /\ f.phase = "patterns"
        /\ f.pit = FrontOf(patternResolvers)
    BY <2>1 DEF LookupFrame
  <2>3. f.pit = NoPattern \/ f.pit \in patternResolvers
    BY <2>2, FrontOfIsLeast DEF FrontOf, TypeOK
  <2> HIDE DEF f
  <2>4. \A S : Within(Top, S) => Within(f, S)
    BY <2>1, <2>2, WithinSame
  <2>5. QED BY <1>4, <2>1, <2>2, <2>3, <2>4
<1>8. CASE WriteAsks
  <2>1. PICK n \in Name : LET w == [WithAnswer EXCEPT !.asked = {n}, !.todo = @ \ {n}]
                          IN  Called(w, Lookup(n)) /\ w.kind = "write"
    BY <1>8, WriteAsksShape
  <2>2. stack # <<>> /\ Top.kind = "write"
    BY <1>8 DEF WriteAsks, InCall
  <2>3. \A S : ~Within(Top, S)
    BY <2>2 DEF Within
  <2>4. QED BY <1>3, <2>1, <2>2, <2>3
<1>9. ASSUME AtOp
      PROVE  LET f == [Top EXCEPT !.pc = @ + 1]
             IN  /\ stack # <<>> /\ Top.kind = "run" /\ f.kind = "run"
                 /\ \A S : Within(Top, S) => Within(f, S)
  BY <1>9, RunShape, WithinRun DEF AtOp, InCall
<1>10. CASE RunGets
  <2>1. \A S \in SUBSET Resolver : ClosedUnderAsking(S) /\ Within(Top, S) =>
          Within(Lookup(NextOp.name), S)
    BY <1>2, <1>10, RunGetsShape, WithinAsked DEF RunGets
  <2>2. QED BY <1>3, <1>9, <1>10, <2>1, RunGetsShape DEF RunGets
<1>11. CASE RunSkips
  BY <1>4, <1>9, <1>11, RunSkipsShape DEF RunSkips
<1>12. CASE RunAdds
  <2> DEFINE f == [Top EXCEPT !.pc = @ + 1]
             n == NextOp.name
             g == AddOf(n, Top.res)
  <2>1. CalledTwice(f, g, Lookup(n)) /\ n \in Name /\ AtOp
    BY <1>12, RunAddsShape DEF RunAdds
  <2>2. g.kind = "add" /\ g.name = n
    BY DEF AddOf
  <2>3. stack # <<>> /\ f.kind = "run" /\ \A S : Within(Top, S) => Within(f, S)
    BY <1>9, <2>1
  <2>4. \A S \in SUBSET Resolver : ClosedUnderAsking(S) /\ Within(Top, S) =>
          Within(g, S) /\ Within(Lookup(n), S)
    BY <1>2, <2>1, <2>2, WithinAsked
  <2> HIDE DEF f, g, n
  <2>5. /\ Len(stack') = Len(stack) + 2 /\ SameBelow
        /\ stack'[Len(stack)] = f /\ stack'[Len(stack) + 1] = g
        /\ stack'[Len(stack) + 2] = Lookup(n)
    BY <2>1 DEF CalledTwice
  <2>6. \A j \in Len(stack)..Len(stack') :
          j = Len(stack) \/ j = Len(stack) + 1 \/ j = Len(stack')
    BY <1>0, <2>5
  <2>7. ASSUME NEW j \in Len(stack)..Len(stack'), stack'[j].kind = "lookup"
        PROVE  IteratorsKept(j)' /\ WalkApart(j)'
    <3>1. j = Len(stack') /\ stack'[j] = Lookup(n)
      BY <1>0, <2>2, <2>3, <2>5, <2>6, <2>7
    <3>2. QED BY <1>0, <3>1, BegunKept
  <2>8. \A S \in SUBSET Resolver : ClosedUnderAsking(S) /\ Within(Top, S) =>
          {} \subseteq S /\ \A j \in Len(stack)..Len(stack') : Within(stack'[j], S)
    BY <1>0, <2>3, <2>4, <2>5, <2>6
  <2>9. Len(stack') \in Nat /\ Len(stack') >= Len(stack)
    BY <1>0, <2>5
  <2>10. patternResolvers' = patternResolvers \ {} /\ {} \in SUBSET Resolver
    BY <1>0
  <2>11. QED BY <1>0, <2>3, <2>5, <2>7, <2>8, <2>9, <2>10, ValidBelow
<1>13. QED
  BY <1>5, <1>6, <1>7, <1>8, <1>10, <1>11, <1>12 DEF Step, Ends

LEMMA ValidStep ==
  ASSUME TypeOK, IndexesAgree, ValidIfApart, [Next]_vars
  PROVE  ValidIfApart'
<1>1. CASE UNCHANGED vars
  BY <1>1 DEF vars, ValidIfApart, NamesDisjoint, IteratorsValid, IteratorsKept, WalkApart,
              AtStart
<1>2. CASE Call
  <2>1. SUFFICES IteratorsValid'
    BY DEF ValidIfApart
  <2>2. ~crashed' /\ Len(<<>>) = 0
    BY <1>2, CallShapes, StackBasics
  <2>3. CASE stack' = <<>>
    BY <2>2, <2>3 DEF IteratorsValid
  <2>4. CASE Opened /\ UNCHANGED <<facts, index, rest>>
    <3>1. ASSUME NEW i \in 1..Len(stack'), stack'[i].kind = "lookup"
          PROVE  IteratorsKept(i)' /\ WalkApart(i)'
      <4>1. Len(stack') = 1 \/ Len(stack') = 2
        BY <2>4 DEF Opened
      <4>2. i = 1 \/ (i = 2 /\ Len(stack') = 2)
        <5>1. i \in 1..1 \/ (i \in 1..2 /\ Len(stack') = 2)
          BY <4>1
        <5>2. QED BY <5>1
      <4>3. \A f \in AddFrame \cup RemoveFrame : f.kind # "lookup"
        BY DEF AddFrame, RemoveFrame
      <4>4. i = Len(stack') /\ \E n \in Name : stack'[i] = Lookup(n)
        BY <2>4, <3>1, <4>1, <4>2, <4>3 DEF Opened
      <4>5. resolverMap' = resolverMap
        BY <2>4 DEF index
      <4>6. QED BY <4>4, <4>5, BegunKept
    <3>2. QED BY <2>2, <3>1 DEF IteratorsValid
  <2>5. QED BY <1>2, <2>3, <2>4, CallShapes
<1>3. CASE Step
  <2>1. SUFFICES ASSUME NamesDisjoint', PatternsApart
                 PROVE  IteratorsValid'
    BY DEF ValidIfApart, PatternsApart, ClosedUnderAsking
  <2>2. resolvers \cup resolved \subseteq resolvers' \cup resolved'
    <3>1. CASE ResolveByName
      BY <3>1, ByNameShape DEF Forget, ResolveByName, Resolve
    <3>2. CASE ResolveByPattern
      BY <3>2, ByPatternShape DEF Forget, ResolveByPattern, Resolve
    <3>3. CASE ResolveFront
      BY <3>3, FrontShape DEF Forget, ResolveFront, Resolve
    <3>4. CASE ~(ResolveByName \/ ResolveByPattern \/ ResolveFront)
      BY <1>3, <3>4, StepNoRun
    <3>5. QED BY <3>1, <3>2, <3>3, <3>4
  <2>3. NamesDisjoint
    BY <2>1, <2>2 DEF NamesDisjoint
  <2>4. IteratorsValid /\ ~InvalidIterator
    BY <2>1, <2>3, ValidIsNotInvalid DEF ValidIfApart
  <2>5. CASE ResolveByName
    BY <2>3, <2>4, <2>5, ValidByName
  <2>6. CASE ResolveByPattern
    BY <2>1, <2>4, <2>6, ValidByPattern
  <2>7. CASE ResolveFront
    <3> DEFINE r == FrontOf(resolvers)
    <3>1. /\ stack # <<>> /\ Top.kind = "drain" /\ r \in Resolver /\ Forget(r)
          /\ crashed' = crashed /\ Called(Top, Run(r)) /\ Run(r).kind = "run"
      BY <2>7, FrontShape DEF Run
    <3>2. Len(stack) \in Nat
      BY StackBasics
    <3>3. /\ Len(stack') = Len(stack) + 1 /\ SameBelow
          /\ stack'[Len(stack)].kind = "drain" /\ stack'[Len(stack) + 1].kind = "run"
      BY <3>1 DEF Called
    <3>4. \A j \in Len(stack)..Len(stack') : stack'[j].kind # "lookup"
      BY <3>2, <3>3
    <3>5. \A S : ~Within(Top, S)
      BY <3>1 DEF Within
    <3>6. patternResolvers' = patternResolvers \ {r} /\ {r} \in SUBSET Resolver
      BY <3>1 DEF Forget
    <3>7. Len(stack') \in Nat /\ Len(stack') >= Len(stack)
      BY <3>2, <3>3
    <3> HIDE DEF r
    <3>8. QED BY <2>4, <3>1, <3>3, <3>4, <3>5, <3>6, <3>7, ValidBelow
  <2>8. CASE ~(ResolveByName \/ ResolveByPattern \/ ResolveFront)
    <3>1. UNCHANGED index
      BY <1>3, <2>8, IndexesShrink
    <3>2. ~DereferenceInvalid
      BY <2>4 DEF DereferenceInvalid
    <3>3. crashed' = crashed
      BY <1>3, <2>8, <3>2
         DEF Step, BeginPatterns, LookupReturns, AddStores, AddNull, RemoveErases,
             DrainReturns, WriteAsks, WritePrints, RunGets, RunAdds, RunSkips, RunReturns,
             RunThrows, rest
    <3>4. QED BY <1>3, <2>4, <2>8, <3>1, <3>3, ValidElsewhere
  <2>9. QED BY <2>5, <2>6, <2>7, <2>8
<1>4. QED BY <1>1, <1>2, <1>3 DEF Next

\* The iterators that resolve_fact keeps across resolve() point to nodes that are
\* still there, for all resolvers that announce different names and whose pattern
\* resolvers do not lead to each other, whatever else they ask for and however
\* the calls nest.
THEOREM NoInvalidIteratorCorrect == Spec => []NoInvalidIterator
<1>1. Init => ValidIfApart
  BY EmptySeq DEF Init, ValidIfApart, IteratorsValid
<1>2. TypeOK /\ ValidIfApart => NoInvalidIterator
  BY ValidIsNotInvalid DEF ValidIfApart, IteratorsValid, NoInvalidIterator
<1>3. QED BY <1>1, <1>2, ValidStep, TypeCorrect, IndexesCorrect, PTL DEF Spec

-----------------------------------------------------------------------------
(* Which facts are final.  A fact is final when no resolver that announces *)
(* it waits or runs.  The invariants say that what the application was     *)
(* told and what write() holds is final; they rest on Nesting, which says  *)
(* what the frame below a frame of the call stack is.  From them follows   *)
(* that a Collection implements LazyFacts.                                 *)

\* Who calls whom: what the frame g below a frame f is.
CalledBy(g, f) ==
    /\ f.kind \notin {"write", "drain", "remove"}
    /\ f.kind = "run" => g.kind \in {"lookup", "drain"}
    /\ f.kind = "add" => g.kind = "run" /\ f.val = g.res /\ f.name \in Covers(g.res)
    /\ f.kind = "lookup" =>
         \/ g.kind = "run"
         \/ g.kind \in {"add", "remove"} /\ g.name = f.name
         \/ g.kind = "write" /\ g.asked = {f.name}

Nesting ==
    /\ stack # <<>> => stack[1].kind # "run"
    /\ \A i \in 1..(Len(stack) - 1) : CalledBy(stack[i], stack[i+1])

\* No resolver that announces n is waiting or running.
Final(n) ==
    /\ NonePending(n)
    /\ \A i \in 1..Len(stack) : Runs(i) => n \notin Covers(stack[i].res)

\* What the application was told is final.
SeenAreFinal == \A n \in seen : Final(n)

\* A call whose lookup has returned has a complete answer.
AnsweredBelow ==
    /\ InCall("add") \/ InCall("remove") => NonePending(Top.name)
    /\ InCall("write") => \A n \in Top.asked : NonePending(n)

\* The values write() points to are final.
HeldAreFinal ==
    \A i \in 1..Len(stack) : stack[i].kind = "write" =>
        \A n \in stack[i].held : Final(n)

-----------------------------------------------------------------------------
(* Nesting *)

LEMMA OneOrMore == \A n \in Nat \ {0} : n = 1 \/ n > 1
OBVIOUS

\* A step that leaves the frames below the top alone nests if the new top is
\* called by the frame below it, and each further frame by the one before.
LEMMA NestingGrows ==
  ASSUME TypeOK, Nesting, stack # <<>>, Len(stack') \in Nat, Len(stack') >= Len(stack),
         SameBelow, NEW f, stack'[Len(stack)] = f,
         Len(stack) = 1 => f.kind # "run",
         Len(stack) > 1 => CalledBy(stack[Len(stack) - 1], f),
         \A i \in Len(stack)..(Len(stack') - 1) : CalledBy(stack'[i], stack'[i+1])
  PROVE  Nesting'
<1>0. Len(stack) \in Nat \ {0} /\ Len(<<>>) = 0
  BY StackBasics
<1>1. stack'[1].kind # "run"
  <2>1. CASE Len(stack) = 1
    BY <2>1
  <2>2. CASE Len(stack) > 1
    <3>1. 1 \in 1..(Len(stack) - 1)
      BY <1>0, <2>2
    <3>2. QED BY <3>1 DEF SameBelow, Nesting
  <2>3. Len(stack) = 1 \/ Len(stack) > 1
    BY <1>0, OneOrMore
  <2>4. QED BY <2>1, <2>2, <2>3
<1>2. ASSUME NEW i \in 1..(Len(stack') - 1) PROVE CalledBy(stack'[i], stack'[i+1])
  <2>1. CASE i \in Len(stack)..(Len(stack') - 1)
    BY <2>1
  <2>2. CASE i = Len(stack) - 1
    <3>1. stack'[i] = stack[i] /\ stack'[i+1] = f
      BY <1>0, <2>2 DEF SameBelow
    <3>2. QED BY <1>0, <2>2, <3>1
  <2>3. CASE i < Len(stack) - 1
    <3>1. i \in 1..(Len(stack) - 1) /\ i + 1 \in 1..(Len(stack) - 1)
      BY <1>0, <2>3
    <3>2. stack'[i] = stack[i] /\ stack'[i+1] = stack[i+1]
      BY <3>1 DEF SameBelow
    <3>3. QED BY <3>1, <3>2 DEF Nesting
  <2>4. QED BY <1>0, <2>1, <2>2, <2>3
<1>3. QED BY <1>1, <1>2 DEF Nesting

LEMMA NestingPopped ==
  ASSUME TypeOK, Nesting, Popped
  PROVE  Nesting'
<1>0. Len(stack) \in Nat \ {0} /\ (stack' = <<>> \/ Len(stack') = Len(stack) - 1) /\ Len(<<>>) = 0
  BY StackBasics DEF Popped
<1>1. CASE stack' = <<>>
  BY <1>0, <1>1 DEF Nesting
<1>2. CASE Len(stack') = Len(stack) - 1 /\ stack' # <<>>
  <2>1. \A i \in 1..(Len(stack') - 1) : /\ i \in 1..(Len(stack) - 1)
                                        /\ stack'[i] = stack[i] /\ stack'[i+1] = stack[i+1]
    BY <1>0, <1>2 DEF Popped
  <2>2. ASSUME Len(stack') # 0 PROVE stack'[1].kind # "run"
    BY <1>0, <1>2, <2>2 DEF Popped, Nesting
  <2>3. CASE Len(stack') = 0
    <3>1. Len(stack) = 1
      BY <1>0, <1>2, <2>3
    <3>2. stack' = <<>>
      BY <1>0, <1>2, <2>3, <3>1 DEF Popped
    <3>3. QED BY <1>2, <3>2
  <2>4. QED BY <2>1, <2>2, <2>3 DEF Nesting
<1>3. QED BY <1>0, <1>1, <1>2

\* A frame that is only moved on is called as before.
LEMMA CalledBySame ==
  ASSUME NEW g, NEW f, NEW e, CalledBy(g, f), e.kind = f.kind,
         e.kind = "lookup" => e.name = f.name,
         e.kind \notin {"add", "write", "remove", "drain"}
  PROVE  CalledBy(g, e)
BY DEF CalledBy

\* Each step of a call nests.
LEMMA NestingStep ==
  ASSUME AddsAnnounced, TypeOK, IndexesAgree, Nesting, [Next]_vars
  PROVE  Nesting'
<1>0. /\ Len(stack) \in Nat /\ Len(<<>>) = 0
      /\ stack # <<>> => Len(stack) \in Nat \ {0}
  BY StackBasics
<1>1. CASE UNCHANGED vars
  BY <1>1 DEF vars, Nesting
<1>2. CASE Call
  <2>1. CASE stack' = <<>>
    BY <1>0, <2>1 DEF Nesting
  <2>2. CASE Opened
    <3>1. \A n : Lookup(n).kind = "lookup" /\ Lookup(n).name = n
      BY DEF Lookup
    <3>2. \A f \in AddFrame \cup RemoveFrame : f.kind \in {"add", "remove"}
      BY DEF AddFrame, RemoveFrame
    <3>3. stack'[1].kind # "run" /\ (Len(stack') = 1 \/ Len(stack') = 2)
      BY <2>2, <3>1, <3>2 DEF Opened
    <3>4. Len(stack') = 2 => CalledBy(stack'[1], stack'[2])
      BY <2>2, <3>1, <3>2 DEF Opened, CalledBy
    <3>5. ASSUME NEW i \in 1..(Len(stack') - 1) PROVE Len(stack') = 2 /\ i = 1
      <4>1. Len(stack') = 2
        <5>1. Len(stack') = 1 => i \in 1..0
          OBVIOUS
        <5>2. QED BY <3>3, <5>1
      <4>2. i \in 1..1
        BY <4>1
      <4>3. QED BY <4>1, <4>2
    <3>6. \A i \in 1..(Len(stack') - 1) : CalledBy(stack'[i], stack'[i+1])
      BY <3>4, <3>5
    <3>7. QED BY <3>3, <3>6 DEF Nesting
  <2>3. QED BY <1>2, <2>1, <2>2, CallShapes
<1>3. CASE Step
  <2>1. stack # <<>> /\ Len(stack) > 1 => CalledBy(stack[Len(stack) - 1], Top)
    <3>1. SUFFICES ASSUME stack # <<>>, Len(stack) > 1
                   PROVE  CalledBy(stack[Len(stack) - 1], Top)
      OBVIOUS
    <3>2. Len(stack) - 1 \in 1..(Len(stack) - 1) /\ (Len(stack) - 1) + 1 = Len(stack)
      BY <1>0, <3>1
    <3>3. QED BY <3>2 DEF Nesting, Top
  <2>2. stack # <<>> /\ Len(stack) = 1 => Top.kind # "run"
    BY DEF Nesting, Top
  <2>a. stack # <<>> /\ ~(Len(stack) > 1) => Len(stack) = 1
    BY <1>0, OneOrMore
  <2>3. ASSUME stack # <<>>, NEW f, NEW g, Called(f, g), f.kind = Top.kind,
               f.kind = "lookup" => f.name = Top.name,
               f.kind \notin {"add", "write", "remove", "drain"} \/ Len(stack) = 1,
               CalledBy(f, g)
        PROVE  Nesting'
    <3>1. /\ Len(stack') = Len(stack) + 1 /\ SameBelow
          /\ stack'[Len(stack)] = f /\ stack'[Len(stack) + 1] = g
      BY <2>3 DEF Called
    <3>2. \A i \in Len(stack)..(Len(stack') - 1) : i = Len(stack)
      BY <1>0, <3>1
    <3>3. \A i \in Len(stack)..(Len(stack') - 1) : CalledBy(stack'[i], stack'[i+1])
      BY <2>3, <3>1, <3>2
    <3>4. Len(stack) > 1 => CalledBy(stack[Len(stack) - 1], f)
      BY <1>0, <2>1, <2>3, CalledBySame
    <3>5. Len(stack') \in Nat /\ Len(stack') >= Len(stack)
      BY <1>0, <3>1
    <3>6. QED BY <2>2, <2>3, <3>1, <3>3, <3>4, <3>5, NestingGrows
  <2>4. ASSUME stack # <<>>, NEW f, Changed(f), f.kind = Top.kind,
               f.kind = "lookup" => f.name = Top.name,
               f.kind \notin {"add", "write", "remove", "drain"}
        PROVE  Nesting'
    <3>1. Len(stack') = Len(stack) /\ SameBelow /\ stack'[Len(stack)] = f
      BY <2>4 DEF Changed
    <3>2. \A i \in Len(stack)..(Len(stack') - 1) : CalledBy(stack'[i], stack'[i+1])
      BY <1>0, <3>1
    <3>3. Len(stack) > 1 => CalledBy(stack[Len(stack) - 1], f)
      BY <2>1, <2>4, CalledBySame
    <3>4. Len(stack') \in Nat /\ Len(stack') >= Len(stack)
      BY <1>0, <3>1
    <3>5. QED BY <2>2, <2>4, <3>1, <3>2, <3>3, <3>4, NestingGrows
  <2>5. \A n : Lookup(n).kind = "lookup" /\ Lookup(n).name = n
    BY DEF Lookup
  <2>6. \A r : Run(r).kind = "run" /\ Run(r).res = r
    BY DEF Run
  <2>7. CASE Ends
    BY <2>7, EndsShape, NestingPopped
  <2>8. CASE AddNull
    <3> DEFINE f == RemoveOf(Top.name)
               g == Lookup(Top.name)
    <3>1. /\ Top.kind = "add" /\ Top.val = Absent /\ stack # <<>>
          /\ Popped \/ Called(f, g)
      BY <2>8, AddNullShape DEF AddNull, InCall
    <3>2. Len(stack) = 1
      <4>1. ASSUME Len(stack) > 1 PROVE FALSE
        <5> DEFINE b == stack[Len(stack) - 1]
        <5>1. b.kind = "run" /\ b.res = Absent
          BY <2>1, <3>1, <4>1 DEF CalledBy
        <5>2. b \in Frame
          BY <1>0, <3>1, <4>1, StackBasics
        <5>3. b.res \in Resolver
          BY <5>1, <5>2, FrameKinds DEF RunFrame
        <5>4. QED BY <5>1, <5>3, CollectionAssumption DEF Resolver, Absent
      <4>2. QED BY <2>a, <3>1, <4>1
    <3>3. f.kind = "remove" /\ f.name = Top.name /\ g.kind = "lookup" /\ g.name = Top.name
      BY <2>5 DEF RemoveOf
    <3>4. CalledBy(f, g)
      BY <3>3 DEF CalledBy
    <3> HIDE DEF f, g
    <3>5. CASE Called(f, g)
      <4>1. /\ Len(stack') = 2 /\ SameBelow /\ stack'[1] = f /\ stack'[2] = g
        BY <3>2, <3>5 DEF Called
      <4>2. \A i \in 1..(Len(stack') - 1) : i = 1
        BY <4>1
      <4>3. QED BY <3>3, <3>4, <4>1, <4>2 DEF Nesting
    <3>6. QED BY <3>1, <3>5, NestingPopped
  <2>9. CASE BeginPatterns
    <3> DEFINE f == [Top EXCEPT !.phase = "patterns", !.pit = FrontOf(patternResolvers)]
    <3>1. Top \in LookupFrame /\ stack # <<>> /\ Top.kind = "lookup" /\ Changed(f)
      BY <2>9, BeginPatternsShape DEF BeginPatterns, InCall
    <3>2. f.kind = Top.kind /\ f.name = Top.name
      BY <3>1 DEF LookupFrame
    <3> HIDE DEF f
    <3>3. QED BY <2>4, <3>1, <3>2
  <2>10. CASE ResolveByName
    <3> DEFINE r == Top.it[2]
               f == [Top EXCEPT !.it = FirstOf({a \in resolverMap : Before(Top.it, a)})]
    <3>1. Top \in LookupFrame /\ stack # <<>> /\ Top.kind = "lookup" /\ Called(f, Run(r))
      BY <2>10, ByNameShape DEF ResolveByName, InCall
    <3>2. f.kind = Top.kind /\ f.name = Top.name
      BY <3>1 DEF LookupFrame
    <3>3. CalledBy(f, Run(r))
      BY <2>6, <3>1, <3>2 DEF CalledBy
    <3> HIDE DEF f, r
    <3>4. QED BY <2>3, <3>1, <3>2, <3>3
  <2>11. CASE ResolveByPattern
    <3> DEFINE r == FrontOf(MatchesLeft)
               f == [Top EXCEPT !.pit = FrontOf({s \in patternResolvers : s > r})]
    <3>1. Top \in LookupFrame /\ stack # <<>> /\ Top.kind = "lookup" /\ Called(f, Run(r))
      BY <2>11, ByPatternShape DEF ResolveByPattern, InCall
    <3>2. f.kind = Top.kind /\ f.name = Top.name
      BY <3>1 DEF LookupFrame
    <3>3. CalledBy(f, Run(r))
      BY <2>6, <3>1, <3>2 DEF CalledBy
    <3> HIDE DEF f, r
    <3>4. QED BY <2>3, <3>1, <3>2, <3>3
  <2>12. CASE ResolveFront
    <3> DEFINE r == FrontOf(resolvers)
    <3>1. stack # <<>> /\ Top.kind = "drain" /\ Called(Top, Run(r))
      BY <2>12, FrontShape
    <3>2. ~(Len(stack) > 1)
      BY <2>1, <3>1 DEF CalledBy
    <3>3. CalledBy(Top, Run(r))
      BY <2>6, <3>1 DEF CalledBy
    <3> HIDE DEF r
    <3>4. Len(stack) = 1
      BY <2>a, <3>1, <3>2
    <3>5. QED BY <2>3, <3>1, <3>3, <3>4
  <2>13. CASE WriteAsks
    <3>1. stack # <<>> /\ Top.kind = "write"
      BY <2>13 DEF WriteAsks, InCall
    <3>2. ~(Len(stack) > 1)
      BY <2>1, <3>1 DEF CalledBy
    <3>3. Len(stack) = 1
      BY <1>0, <3>1, <3>2
    <3>4. PICK n \in Name : LET w == [WithAnswer EXCEPT !.asked = {n}, !.todo = @ \ {n}]
                            IN  Called(w, Lookup(n)) /\ w.kind = "write" /\ w.asked = {n}
      BY <2>13, WriteAsksShape
    <3> DEFINE w == [WithAnswer EXCEPT !.asked = {n}, !.todo = @ \ {n}]
    <3>5. Called(w, Lookup(n)) /\ w.kind = "write" /\ w.asked = {n}
      BY <3>4
    <3> HIDE DEF w
    <3>6. CalledBy(w, Lookup(n))
      BY <2>5, <3>5 DEF CalledBy
    <3>7. QED BY <2>3, <3>1, <3>3, <3>5, <3>6
  <2>14. CASE RunGets
    <3> DEFINE f == [Top EXCEPT !.pc = @ + 1]
    <3>1. stack # <<>> /\ f.kind = "run" /\ Top.kind = "run" /\ Called(f, Lookup(NextOp.name))
      BY <2>14, RunShape, RunGetsShape DEF RunGets, AtOp, InCall
    <3>2. CalledBy(f, Lookup(NextOp.name))
      BY <2>5, <3>1 DEF CalledBy
    <3> HIDE DEF f
    <3>3. QED BY <2>3, <3>1, <3>2
  <2>15. CASE RunSkips
    <3> DEFINE f == [Top EXCEPT !.pc = @ + 1]
    <3>1. stack # <<>> /\ f.kind = "run" /\ Top.kind = "run" /\ Changed(f)
      BY <2>15, RunShape, RunSkipsShape DEF RunSkips, AtOp, InCall
    <3> HIDE DEF f
    <3>2. QED BY <2>4, <3>1
  <2>16. CASE RunAdds
    <3> DEFINE f == [Top EXCEPT !.pc = @ + 1]
               n == NextOp.name
               g == AddOf(n, Top.res)
               h == Lookup(n)
    <3>1. /\ CalledTwice(f, g, h) /\ stack # <<>> /\ f.kind = "run" /\ f.res = Top.res
          /\ Top.kind = "run" /\ Top.res \in Resolver /\ NextOp.op = "add"
          /\ Top.pc \in 1..Len(Program[Top.res])
      BY <2>16, RunAddsShape, RunShape DEF RunAdds, AtOp, InCall
    <3>2. n \in Covers(Top.res)
      BY <3>1 DEF AddsAnnounced, NextOp
    <3>3. /\ g.kind = "add" /\ g.name = n /\ g.val = Top.res
          /\ h.kind = "lookup" /\ h.name = n
      BY <2>5 DEF AddOf
    <3> HIDE DEF f, g, h, n
    <3>4. CalledBy(f, g) /\ CalledBy(g, h)
      BY <3>1, <3>2, <3>3 DEF CalledBy
    <3>5. /\ Len(stack') = Len(stack) + 2 /\ SameBelow /\ stack'[Len(stack)] = f
          /\ stack'[Len(stack) + 1] = g /\ stack'[Len(stack) + 2] = h
      BY <3>1 DEF CalledTwice
    <3>6. \A i \in Len(stack)..(Len(stack') - 1) : i = Len(stack) \/ i = Len(stack) + 1
      BY <1>0, <3>5
    <3>7. (Len(stack) + 1) + 1 = Len(stack) + 2
      BY <1>0
    <3>8. \A i \in Len(stack)..(Len(stack') - 1) : CalledBy(stack'[i], stack'[i+1])
      BY <3>4, <3>5, <3>6, <3>7
    <3>9. Len(stack) > 1 => CalledBy(stack[Len(stack) - 1], f)
      BY <2>1, <3>1, CalledBySame
    <3>10. Len(stack') \in Nat /\ Len(stack') >= Len(stack)
      BY <1>0, <3>5
    <3>11. QED BY <2>2, <3>1, <3>5, <3>8, <3>9, <3>10, NestingGrows
  <2>17. QED
    BY <1>3, <2>7, <2>8, <2>9, <2>10, <2>11, <2>12, <2>13, <2>14, <2>15, <2>16
       DEF Step, Ends
<1>4. QED BY <1>1, <1>2, <1>3 DEF Next

LEMMA NestingCorrect ==
  ASSUME AddsAnnounced
  PROVE  Spec => []Nesting
<1>1. Init => Nesting
  BY EmptySeq DEF Init, Nesting
<1>2. TypeOK /\ IndexesAgree /\ Nesting /\ [Next]_vars => Nesting'
  BY NestingStep
<1>3. QED BY <1>1, <1>2, TypeCorrect, IndexesCorrect, PTL DEF Spec

-----------------------------------------------------------------------------
(* Final facts stay final *)

\* A resolver that runs after a step ran before it or was waiting.
LEMMA RunsComeFrom ==
  ASSUME TypeOK, IndexesAgree, Step, NEW i \in 1..Len(stack'), stack'[i].kind = "run"
  PROVE  \/ stack'[i].res \in resolvers
         \/ i \in 1..Len(stack) /\ Runs(i) /\ stack[i].res = stack'[i].res
<1>1. CASE ResolveByName \/ ResolveByPattern \/ ResolveFront
  <2>1. PICK r \in resolvers, callers \in Seq(Frame) :
             Resolve(r, callers) /\ NoNewRun(callers, stack)
    BY <1>1, LoopEntersPending
  <2>2. r \in Resolver
    BY DEF TypeOK
  <2>3. stack' = Append(callers, Run(r)) /\ Run(r) \in Frame
    BY <2>1, <2>2 DEF Resolve, Run, Frame, RunFrame
  <2>4. /\ Len(callers) \in Nat /\ Len(stack') = Len(callers) + 1
        /\ \A j \in 1..Len(callers) : stack'[j] = callers[j]
        /\ stack'[Len(callers) + 1] = Run(r)
    BY <2>3, PushFrame
  <2>5. CASE i = Len(callers) + 1
    BY <2>4, <2>5 DEF Run
  <2>6. CASE i \in 1..Len(callers)
    BY <2>1, <2>4, <2>6 DEF NoNewRun, Runs
  <2>7. QED BY <2>4, <2>5, <2>6
<1>2. CASE ~(ResolveByName \/ ResolveByPattern \/ ResolveFront)
  BY <1>2, StepNoRun DEF NoNewRun, Runs
<1>3. QED BY <1>1, <1>2

\* So no step of a call makes a final fact open again.
LEMMA FinalStays ==
  ASSUME TypeOK, IndexesAgree, Step, NEW n, Final(n)
  PROVE  Final(n)'
<1>1. NonePending(n)'
  BY IndexesShrink DEF Final, NonePending
<1>2. ASSUME NEW i \in 1..Len(stack'), stack'[i].kind = "run"
      PROVE  n \notin Covers(stack'[i].res)
  BY <1>2, RunsComeFrom DEF Final, NonePending
<1>3. QED BY <1>1, <1>2 DEF Final, Runs

\* A lookup that returns leaves no resolver of its name waiting.
LEMMA ReturnsComplete ==
  ASSUME TypeOK, IndexesAgree, LookupsAhead, LookupReturns
  PROVE  NonePending(Top.name)
<1>1. InCall("lookup") /\ Top.phase = "patterns"
  BY DEF LookupReturns
<1>2. MatchesLeft = {}
  <2>1. CASE Top.pit = NoPattern
    <3>1. ASSUME NEW r \in patternResolvers PROVE ~(r >= NoPattern)
      <4>1. r \in Resolver
        BY DEF TypeOK
      <4>2. QED BY <4>1, CollectionAssumption DEF Resolver, NoPattern
    <3>2. QED BY <2>1, <3>1 DEF MatchesLeft
  <2>2. QED BY <2>1 DEF LookupReturns
<1>3. QED BY <1>1, <1>2, NothingLeft

LEMMA SeenStep ==
  ASSUME TypeOK, IndexesAgree, LookupsAhead, Nesting, SeenAreFinal, [Next]_vars
  PROVE  SeenAreFinal'
<1>0. /\ Len(stack) \in Nat /\ Len(<<>>) = 0
      /\ stack # <<>> => Len(stack) \in Nat \ {0}
  BY StackBasics
<1>1. CASE UNCHANGED vars
  BY <1>1 DEF vars, SeenAreFinal, Final, NonePending, Runs
<1>2. CASE Call
  <2>1. \A i \in 1..Len(stack') : stack'[i].kind # "run"
    BY <1>0, <1>2, CallNoRun DEF NoNewRun
  <2>2. CASE AddResolver
    <3>1. /\ resolvers' = resolvers \cup {registered + 1}
          /\ seen' = seen \ Covers(registered + 1)
      BY <2>2 DEF AddResolver
    <3>2. \A n \in seen' : NonePending(n)'
      BY <3>1 DEF SeenAreFinal, Final, NonePending
    <3>3. QED BY <2>1, <3>2 DEF SeenAreFinal, Final, Runs
  <2>3. CASE ~AddResolver
    <3>1. resolvers' \subseteq resolvers /\ seen' = seen
      BY <1>2, <2>3 DEF Call, RemoveResolver, Clear, Get, Remove, Add, ResolveAll, Write,
                        Forget, rest, index
    <3>2. QED BY <2>1, <3>1 DEF SeenAreFinal, Final, NonePending, Runs
  <2>4. QED BY <2>2, <2>3
<1>3. CASE Step /\ ~LookupReturns
  <2>1. seen' = seen
    <3>1. CASE ResolveByName \/ ResolveByPattern \/ ResolveFront
      BY <3>1 DEF ResolveByName, ResolveByPattern, ResolveFront, Resolve
    <3>2. CASE ~(ResolveByName \/ ResolveByPattern \/ ResolveFront)
      BY <1>3, <3>2
           DEF Step, BeginPatterns, DereferenceInvalid, AddStores, AddNull,
           RemoveErases, DrainReturns, WriteAsks, WritePrints, RunGets, RunAdds, RunSkips,
           RunReturns, RunThrows, rest
    <3>3. QED BY <3>1, <3>2
  <2>2. QED BY <1>3, <2>1, FinalStays DEF SeenAreFinal
<1>4. CASE LookupReturns
  <2>1. Step
    BY <1>4 DEF Step
  <2>2. /\ stack # <<>> /\ Top.kind = "lookup" /\ stack' = Pop
        /\ seen' = IF Len(stack) <= 2 THEN seen \cup {Top.name} ELSE seen
    BY <1>4 DEF LookupReturns, InCall
  <2>3. \A n \in seen : Final(n)'
    BY <2>1, FinalStays DEF SeenAreFinal
  <2>4. CASE Len(stack) <= 2
    <3>1. NonePending(Top.name) /\ resolvers' = resolvers
      BY <1>4, ReturnsComplete DEF LookupReturns, index
    <3>2. ASSUME NEW i \in 1..Len(stack) PROVE stack[i].kind # "run"
      <4>1. i = 1 \/ i = Len(stack)
        BY <1>0, <2>2, <2>4
      <4>2. QED BY <2>2, <4>1 DEF Nesting, Top
    <3>3. \A n \in {Top.name} : Final(n)
      BY <3>1, <3>2 DEF Final, Runs
    <3>4. \A n \in {Top.name} : Final(n)'
      BY <2>1, <3>3, FinalStays
    <3>5. QED BY <2>2, <2>3, <2>4, <3>4 DEF SeenAreFinal
  <2>5. QED BY <2>2, <2>3, <2>4 DEF SeenAreFinal
<1>5. QED BY <1>1, <1>2, <1>3, <1>4 DEF Next

\* An add or remove that a resolver made is for a name it announces.
LEMMA NestedAdd ==
  ASSUME TypeOK, Nesting, stack # <<>>, Top.kind \in {"add", "remove"}, Len(stack) > 1
  PROVE  \E i \in 1..Len(stack) : Runs(i) /\ Top.name \in Covers(stack[i].res)
                                  /\ Top.kind = "add" /\ Top.val = stack[i].res
<1>1. /\ Len(stack) - 1 \in 1..(Len(stack) - 1) /\ Len(stack) - 1 \in 1..Len(stack)
      /\ (Len(stack) - 1) + 1 = Len(stack)
  BY StackBasics
<1>2. CalledBy(stack[Len(stack) - 1], Top)
  BY <1>1 DEF Nesting, Top
<1>3. QED BY <1>1, <1>2 DEF CalledBy, Runs

\* What the application was told only the application changes, for all resolvers
\* that add no fact but those they announce: iterators may be invalid, exceptions
\* may leave calls half done, and resolvers may share names.
THEOREM SeenFactsStayCorrect ==
  ASSUME AddsAnnounced
  PROVE  Spec => SeenFactsStay
<1>1. Init => SeenAreFinal
  BY DEF Init, SeenAreFinal
<1>2. TypeOK /\ IndexesAgree /\ LookupsAhead /\ Nesting /\ SeenAreFinal /\ [Next]_vars
        => SeenAreFinal'
  BY SeenStep
<1>3. TypeOK /\ Nesting /\ SeenAreFinal /\ [Next]_vars
        => [\A n \in seen : facts'[n] # facts[n] => Len(stack) <= 1]_vars
  <2>1. SUFFICES ASSUME TypeOK, Nesting, SeenAreFinal, Next,
                        NEW n \in seen, facts'[n] # facts[n], ~(Len(stack) <= 1)
                 PROVE  FALSE
    OBVIOUS
  <2>2. stack # <<>> /\ Len(stack) > 1 /\ ~Call
    BY <2>1, StackBasics, CallShapes
  <2>3. AddStores \/ RemoveErases
    <3>1. CASE ResolveByName \/ ResolveByPattern \/ ResolveFront
      BY <2>1, <3>1 DEF ResolveByName, ResolveByPattern, ResolveFront, Resolve
    <3>2. CASE ~(ResolveByName \/ ResolveByPattern \/ ResolveFront)
      BY <2>1, <2>2, <3>2
         DEF Next, Step, BeginPatterns, LookupReturns, DereferenceInvalid, AddNull,
             DrainReturns, WriteAsks, WritePrints, RunGets, RunAdds, RunSkips, RunReturns,
             RunThrows
    <3>3. QED BY <3>1, <3>2
  <2>4. Top.kind \in {"add", "remove"} /\ n = Top.name
    BY <2>1, <2>3 DEF AddStores, RemoveErases, InCall, TypeOK
  <2>5. PICK i \in 1..Len(stack) : Runs(i) /\ n \in Covers(stack[i].res)
    BY <2>1, <2>2, <2>4, NestedAdd
  <2>6. QED BY <2>1, <2>5 DEF SeenAreFinal, Final
<1>4. Spec => []TypeOK /\ []IndexesAgree /\ []LookupsAhead /\ []Nesting
  BY TypeCorrect, IndexesCorrect, LookupsAheadCorrect, NestingCorrect
<1>5. QED BY <1>1, <1>2, <1>3, <1>4, PTL DEF Spec, SeenFactsStay

-----------------------------------------------------------------------------
(* Answers below a call, and the pointers of write() *)

\* As long as no iterator is invalid a call goes on below a complete answer.
LEMMA AnsweredStep ==
  ASSUME TypeOK, IndexesAgree, LookupsAhead, Nesting, ~InvalidIterator, AnsweredBelow,
         [Next]_vars
  PROVE  AnsweredBelow'
<1>0. /\ Len(stack) \in Nat /\ Len(<<>>) = 0
      /\ stack # <<>> => Len(stack) \in Nat \ {0}
  BY StackBasics
<1>b. ASSUME stack' # <<>> => stack'[Len(stack')].kind \in {"lookup", "run", "drain"}
      PROVE  AnsweredBelow'
  BY <1>b DEF AnsweredBelow, InCall, Top
<1>1. CASE UNCHANGED vars
  BY <1>1 DEF vars, AnsweredBelow, InCall, Top, NonePending
<1>2. CASE Call
  <2>1. CASE stack' = <<>>
    BY <1>b, <2>1
  <2>2. CASE Opened
    <3>1. \A n : Lookup(n).kind = "lookup"
      BY DEF Lookup
    <3>2. CASE stack'[1].kind = "write" /\ Len(stack') = 1 /\ stack'[1].asked = {}
      BY <3>2 DEF AnsweredBelow, InCall, Top
    <3>3. CASE stack'[Len(stack')].kind \in {"lookup", "drain"}
      BY <1>b, <3>3
    <3>4. QED BY <2>2, <3>1, <3>2, <3>3 DEF Opened
  <2>3. QED BY <1>2, <2>1, <2>2, CallShapes
<1>3. CASE Step
  <2>1. stack # <<>> => Len(stack) = 1 \/ Len(stack) > 1
    BY <1>0, OneOrMore
  <2>2. stack # <<>> /\ Len(stack) > 1 => CalledBy(stack[Len(stack) - 1], Top)
    <3>1. SUFFICES ASSUME stack # <<>>, Len(stack) > 1
                   PROVE  CalledBy(stack[Len(stack) - 1], Top)
      OBVIOUS
    <3>2. Len(stack) - 1 \in 1..(Len(stack) - 1) /\ (Len(stack) - 1) + 1 = Len(stack)
      BY <1>0, <3>1
    <3>3. QED BY <3>2 DEF Nesting, Top
  \* The frame that is on top once the top one is popped.
  <2>3. ASSUME stack # <<>>, stack' = Pop, stack' # <<>>
        PROVE  Len(stack) > 1 /\ stack'[Len(stack')] = stack[Len(stack) - 1]
    <3>1. /\ Len(stack') = Len(stack) - 1
          /\ \A i \in 1..(Len(stack) - 1) : stack'[i] = stack[i]
          /\ stack' \in Seq(Frame)
      BY <2>3, PopStack, StackBasics
    <3>2. Len(stack') # 0
      BY <2>3, <3>1, EmptySeq
    <3>3. Len(stack) # 1
      BY <1>0, <3>1, <3>2
    <3>4. Len(stack) > 1
      BY <2>1, <2>3, <3>3
    <3>5. Len(stack) - 1 \in 1..(Len(stack) - 1)
      BY <1>0, <3>4
    <3>6. QED BY <3>1, <3>4, <3>5
  <2>4. ASSUME stack # <<>>, NEW f, NEW g, Called(f, g), g.kind \in {"lookup", "run", "drain"}
        PROVE  AnsweredBelow'
    BY <1>b, <2>4 DEF Called
  <2>5. ASSUME stack # <<>>, NEW f, Changed(f), f.kind \in {"lookup", "run", "drain"}
        PROVE  AnsweredBelow'
    BY <1>b, <2>5 DEF Changed
  <2>6. /\ \A n : Lookup(n).kind = "lookup"
        /\ \A r : Run(r).kind = "run"
    BY DEF Lookup, Run
  <2>7. CASE LookupReturns
    <3>1. stack # <<>> /\ Top.kind = "lookup" /\ stack' = Pop /\ resolvers' = resolvers
      BY <2>7 DEF LookupReturns, InCall, index
    <3>2. NonePending(Top.name)
      BY <2>7, ReturnsComplete
    <3>3. CASE stack' # <<>>
      <4> DEFINE b == stack[Len(stack) - 1]
                 m == Top.name
      <4>1. Len(stack) > 1 /\ stack'[Len(stack')] = b /\ CalledBy(b, Top)
        BY <2>2, <2>3, <3>1, <3>3
      <4>2. /\ b.kind \in {"add", "remove"} => b.name = m
            /\ b.kind = "write" => b.asked = {m}
        BY <3>1, <4>1 DEF CalledBy
      <4> HIDE DEF b, m
      <4>3. \A n : NonePending(n) => NonePending(n)'
        BY <3>1 DEF NonePending
      <4>4. NonePending(m)
        BY <3>2 DEF m
      <4>5. QED BY <4>1, <4>2, <4>3, <4>4, <3>1 DEF AnsweredBelow, InCall, Top, NonePending
    <3>4. QED BY <1>b, <3>3
  <2>8. CASE DereferenceInvalid
    BY <2>8 DEF DereferenceInvalid
  <2>9. CASE AddStores \/ RemoveErases \/ RunReturns \/ DrainReturns \/ WritePrints
    <3>1. /\ stack # <<>> /\ stack' = Pop
          /\ Top.kind \in {"add", "remove", "run", "drain", "write"}
      BY <2>9 DEF AddStores, RemoveErases, RunReturns, DrainReturns, WritePrints, InCall
    <3>2. CASE stack' # <<>>
      <4>1. stack'[Len(stack')] = stack[Len(stack) - 1]
            /\ CalledBy(stack[Len(stack) - 1], Top)
        BY <2>2, <2>3, <3>1, <3>2
      <4>2. QED BY <1>b, <3>1, <4>1 DEF CalledBy
    <3>3. QED BY <1>b, <3>2
  <2>10. CASE RunThrows
    BY <1>b, <2>10 DEF RunThrows
  <2>11. CASE AddNull
    <3>1. stack # <<>> /\ Top.kind = "add" /\ (stack' = Pop \/ RemoveCall(Pop, Top.name))
      BY <2>11 DEF AddNull, InCall
    <3>2. CASE stack' = Pop /\ stack' # <<>>
      <4>1. stack'[Len(stack')] = stack[Len(stack) - 1]
            /\ CalledBy(stack[Len(stack) - 1], Top)
        BY <2>2, <2>3, <3>1, <3>2
      <4>2. QED BY <1>b, <3>1, <4>1 DEF CalledBy
    <3>3. CASE RemoveCall(Pop, Top.name)
      <4>1. Called(RemoveOf(Top.name), Lookup(Top.name))
        <5>1. Top.name \in Name /\ Top \in AddFrame
          BY <2>11, AddNullShape
        <5>2. RemoveOf(Top.name) \in Frame /\ Lookup(Top.name) \in Frame
          BY <5>1, LookupType DEF RemoveOf, RemoveFrame, Frame, TypeOK
        <5>3. stack' = Append(Replace(RemoveOf(Top.name)), Lookup(Top.name))
          BY <3>3 DEF RemoveCall, Replace, RemoveOf
        <5>4. QED BY <3>1, <5>2, <5>3, CallShape
      <4>2. QED BY <2>4, <2>6, <3>1, <4>1
    <3>4. QED BY <1>b, <3>1, <3>2, <3>3
  <2>12. CASE BeginPatterns
    <3>1. [Top EXCEPT !.phase = "patterns", !.pit = FrontOf(patternResolvers)].kind = "lookup"
      BY <2>12, BeginPatternsShape DEF BeginPatterns, InCall, LookupFrame
    <3>2. QED BY <2>5, <2>12, <3>1, BeginPatternsShape
  <2>13. CASE ResolveByName
    BY <2>4, <2>6, <2>13, ByNameShape
  <2>14. CASE ResolveByPattern
    BY <2>4, <2>6, <2>14, ByPatternShape
  <2>15. CASE ResolveFront
    BY <2>4, <2>6, <2>15, FrontShape
  <2>16. CASE WriteAsks
    BY <2>4, <2>6, <2>16, WriteAsksShape
  <2>17. CASE RunGets
    BY <2>4, <2>6, <2>17, RunGetsShape, RunShape DEF RunGets
  <2>18. CASE RunSkips
    BY <2>5, <2>18, RunSkipsShape, RunShape DEF RunSkips
  <2>19. CASE RunAdds
    <3>1. /\ Len(stack') = Len(stack) + 2
          /\ stack'[Len(stack) + 2] = Lookup(NextOp.name)
      BY <2>19, RunAddsShape DEF CalledTwice
    <3>2. QED BY <1>b, <2>6, <3>1
  <2>20. QED
    BY <1>3, <2>7, <2>8, <2>9, <2>10, <2>11, <2>12, <2>13, <2>14, <2>15, <2>16, <2>17,
       <2>18, <2>19 DEF Step
<1>4. QED BY <1>1, <1>2, <1>3 DEF Next

LEMMA Predecessor ==
  ASSUME NEW n \in Nat, NEW i \in 1..n, i # 1
  PROVE  \E k \in 1..(n - 1) : k + 1 = i
<1>1. i - 1 \in 1..(n - 1) /\ (i - 1) + 1 = i
  OBVIOUS
<1>2. QED BY <1>1

LEMMA HeldStep ==
  ASSUME TypeOK, IndexesAgree, Nesting, AnsweredBelow, HeldAreFinal, [Next]_vars
  PROVE  HeldAreFinal'
<1>0. /\ Len(stack) \in Nat /\ Len(<<>>) = 0
      /\ stack # <<>> => Len(stack) \in Nat \ {0} /\ Len(stack) \in 1..Len(stack)
  BY StackBasics
<1>1. CASE UNCHANGED vars
  BY <1>1 DEF vars, HeldAreFinal, Final, NonePending, Runs
<1>2. CASE Call
  <2>1. CASE stack' = <<>>
    BY <1>0, <2>1 DEF HeldAreFinal
  <2>2. CASE Opened
    <3>1. ASSUME NEW i \in 1..Len(stack'), stack'[i].kind = "write" PROVE stack'[i].held = {}
      <4>1. \A n : Lookup(n).kind = "lookup"
        BY DEF Lookup
      <4>2. \A f \in AddFrame \cup RemoveFrame : f.kind # "write"
        BY DEF AddFrame, RemoveFrame
      <4>3. Len(stack') = 1 \/ Len(stack') = 2
        BY <2>2 DEF Opened
      <4>4. i = 1 \/ (i = 2 /\ Len(stack') = 2)
        <5>1. i \in 1..1 \/ (i \in 1..2 /\ Len(stack') = 2)
          BY <4>3
        <5>2. QED BY <5>1
      <4>5. QED BY <2>2, <3>1, <4>1, <4>2, <4>4 DEF Opened
    <3>2. QED BY <3>1 DEF HeldAreFinal
  <2>3. QED BY <1>2, <2>1, <2>2, CallShapes
<1>3. CASE Step
  <2>1. \A n : Final(n) => Final(n)'
    BY <1>3, FinalStays
  <2>2. ASSUME \A i \in 1..Len(stack') : stack'[i].kind = "write" =>
                 \/ i \in 1..Len(stack) /\ stack'[i] = stack[i]
                 \/ \A n \in stack'[i].held : Final(n)
        PROVE  HeldAreFinal'
    BY <2>1, <2>2 DEF HeldAreFinal
  <2>3. ASSUME Popped PROVE HeldAreFinal'
    BY <1>0, <2>2, <2>3 DEF Popped
  <2>4. ASSUME stack # <<>>, NEW f, NEW g, Called(f, g), g.kind # "write",
               f.kind = "write" => f = Top \/ \A n \in f.held : Final(n)
        PROVE  HeldAreFinal'
    BY <1>0, <2>2, <2>4 DEF Called, SameBelow, Top
  <2>5. ASSUME stack # <<>>, NEW f, Changed(f), f.kind # "write"
        PROVE  HeldAreFinal'
    BY <1>0, <2>2, <2>5 DEF Changed, SameBelow
  <2>6. /\ \A n : Lookup(n).kind = "lookup"
        /\ \A r : Run(r).kind = "run"
        /\ \A n : RemoveOf(n).kind = "remove"
        /\ \A n, v : AddOf(n, v).kind = "add"
    BY DEF Lookup, Run, RemoveOf, AddOf
  <2>7. CASE Ends
    BY <2>3, <2>7, EndsShape
  <2>8. CASE AddNull
    BY <2>3, <2>4, <2>6, <2>8, AddNullShape
  <2>9. CASE BeginPatterns
    <3>1. [Top EXCEPT !.phase = "patterns", !.pit = FrontOf(patternResolvers)].kind = "lookup"
      BY <2>9, BeginPatternsShape DEF BeginPatterns, InCall, LookupFrame
    <3>2. QED BY <2>5, <2>9, <3>1, BeginPatternsShape
  <2>10. CASE ResolveByName
    <3> DEFINE f == [Top EXCEPT !.it = FirstOf({a \in resolverMap : Before(Top.it, a)})]
    <3>1. f.kind = "lookup" /\ Called(f, Run(Top.it[2])) /\ stack # <<>>
      BY <2>10, ByNameShape DEF ResolveByName, InCall, LookupFrame
    <3> HIDE DEF f
    <3>2. QED BY <2>4, <2>6, <3>1
  <2>11. CASE ResolveByPattern
    <3> DEFINE r == FrontOf(MatchesLeft)
               f == [Top EXCEPT !.pit = FrontOf({s \in patternResolvers : s > r})]
    <3>1. f.kind = "lookup" /\ Called(f, Run(r)) /\ stack # <<>>
      BY <2>11, ByPatternShape DEF ResolveByPattern, InCall, LookupFrame
    <3> HIDE DEF f, r
    <3>2. QED BY <2>4, <2>6, <3>1
  <2>12. CASE ResolveFront
    BY <2>4, <2>6, <2>12, FrontShape
  <2>13. CASE WriteAsks
    <3>1. stack # <<>> /\ Top.kind = "write" /\ \A n \in Top.asked : NonePending(n)
      BY <2>13 DEF WriteAsks, InCall, AnsweredBelow
    <3>2. Len(stack) = 1
      <4>1. ASSUME Len(stack) > 1 PROVE FALSE
        <5>1. Len(stack) - 1 \in 1..(Len(stack) - 1) /\ (Len(stack) - 1) + 1 = Len(stack)
          BY <1>0, <4>1
        <5>2. CalledBy(stack[Len(stack) - 1], Top)
          BY <5>1 DEF Nesting, Top
        <5>3. QED BY <3>1, <5>2 DEF CalledBy
      <4>2. QED BY <1>0, <3>1, <4>1, OneOrMore
    <3>3. \A i \in 1..Len(stack) : stack[i].kind = "write"
      <4>1. \A i \in 1..Len(stack) : i = 1
        BY <3>2
      <4>2. QED BY <3>1, <3>2, <4>1 DEF Top
    <3>4. \A n \in Top.asked : Final(n)
      BY <3>1, <3>3 DEF Final, Runs
    <3>5. \A n \in Top.held : Final(n)
      BY <1>0, <3>1 DEF HeldAreFinal, Top
    <3>6. PICK n \in Name : LET w == [WithAnswer EXCEPT !.asked = {n}, !.todo = @ \ {n}]
                            IN  /\ Called(w, Lookup(n))
                                /\ \A m \in w.held : m \in Top.held \cup Top.asked
      BY <2>13, WriteAsksShape
    <3> DEFINE w == [WithAnswer EXCEPT !.asked = {n}, !.todo = @ \ {n}]
    <3>7. Called(w, Lookup(n)) /\ \A m \in w.held : m \in Top.held \cup Top.asked
      BY <3>6
    <3> HIDE DEF w
    <3>8. QED BY <2>4, <2>6, <3>1, <3>4, <3>5, <3>7
  <2>14. CASE RunGets
    BY <2>4, <2>6, <2>14, RunGetsShape, RunShape DEF RunGets
  <2>15. CASE RunSkips
    BY <2>5, <2>15, RunSkipsShape, RunShape DEF RunSkips
  <2>16. CASE RunAdds
    <3> DEFINE f == [Top EXCEPT !.pc = @ + 1]
               g == AddOf(NextOp.name, Top.res)
               h == Lookup(NextOp.name)
    <3>1. /\ CalledTwice(f, g, h) /\ stack # <<>>
          /\ f.kind # "write" /\ g.kind # "write" /\ h.kind # "write"
      BY <2>6, <2>16, RunAddsShape, RunShape DEF RunAdds
    <3> HIDE DEF f, g, h
    <3>2. QED BY <1>0, <2>2, <3>1 DEF CalledTwice, SameBelow
  <2>17. QED
    BY <1>3, <2>7, <2>8, <2>9, <2>10, <2>11, <2>12, <2>13, <2>14, <2>15, <2>16 DEF Step, Ends
<1>4. QED BY <1>1, <1>2, <1>3 DEF Next

\* The values that write() points to while it asks for the other queries are
\* neither replaced nor erased above it, unless an invalid iterator cuts a lookup
\* short.
THEOREM HeldValuesStayCorrect ==
  ASSUME AddsAnnounced
  PROVE  Spec /\ []~InvalidIterator => []HeldValuesStay
<1>1. Init => AnsweredBelow /\ HeldAreFinal
  BY EmptySeq DEF Init, AnsweredBelow, HeldAreFinal, InCall
<1>2. TypeOK /\ IndexesAgree /\ LookupsAhead /\ Nesting /\ ~InvalidIterator
        /\ AnsweredBelow /\ HeldAreFinal /\ [Next]_vars => AnsweredBelow' /\ HeldAreFinal'
  BY AnsweredStep, HeldStep
<1>3. TypeOK /\ Nesting /\ HeldAreFinal => HeldValuesStay
  <2>1. SUFFICES ASSUME TypeOK, Nesting, HeldAreFinal,
                        NEW i \in 1..Len(stack), NEW j \in 1..Len(stack),
                        stack[i].kind = "write", stack[j].kind \in {"add", "remove"},
                        stack[j].name \in stack[i].held
                 PROVE  FALSE
    BY DEF HeldValuesStay
  <2>2. Len(stack) \in Nat
    BY StackBasics
  <2>3. i = 1
    <3>1. ASSUME i # 1 PROVE FALSE
      <4>1. PICK k \in 1..(Len(stack) - 1) : k + 1 = i
        BY <2>2, <3>1, Predecessor
      <4>2. CalledBy(stack[k], stack[k + 1])
        BY <2>1, <4>1 DEF Nesting
      <4>3. QED BY <2>1, <4>1, <4>2 DEF CalledBy
    <3>2. QED BY <3>1
  <2>4. j # 1
    BY <2>1, <2>3
  <2>5. PICK k \in 1..(Len(stack) - 1) : k + 1 = j
    BY <2>2, <2>4, Predecessor
  <2>6. k \in 1..Len(stack) /\ k < j
    BY <2>2, <2>5
  <2>7. CalledBy(stack[k], stack[j])
    BY <2>1, <2>5 DEF Nesting
  <2>8. Runs(k) /\ stack[j].name \in Covers(stack[k].res)
    BY <2>1, <2>7 DEF CalledBy, Runs
  <2>9. QED BY <2>1, <2>6, <2>8 DEF HeldAreFinal, Final
<1>4. Spec => []TypeOK /\ []IndexesAgree /\ []LookupsAhead /\ []Nesting
  BY TypeCorrect, IndexesCorrect, LookupsAheadCorrect, NestingCorrect
<1>5. QED BY <1>1, <1>2, <1>3, <1>4, PTL DEF Spec

-----------------------------------------------------------------------------
(* A Collection implements LazyFacts *)

\* An add the application called stores a value of the application.
OwnValue ==
    stack # <<>> /\ stack[1].kind = "add" => stack[1].val \in {App, Absent}

\* The resolvers running in a call stack.
RunningIn(s) == {s[i].res : i \in {j \in 1..Len(s) : s[j].kind = "run"}}

LEMMA RunningNow == Running = RunningIn(stack) /\ Running' = RunningIn(stack')
BY DEF Running, RunningIn, Runs

LEMMA RunningShrinks ==
  ASSUME NEW s, NEW t, NoNewRun(t, s)
  PROVE  RunningIn(t) \subseteq RunningIn(s)
BY DEF RunningIn, NoNewRun

\* No step but the end of a resolver ends a run: the runs stay where they are.
LEMMA StepKeepsRuns ==
  ASSUME TypeOK, IndexesAgree, Step, ~RunReturns, ~RunThrows, ~DereferenceInvalid
  PROVE  NoNewRun(stack, stack')
<1>0. /\ Len(stack) \in Nat
      /\ stack # <<>> => Len(stack) \in Nat \ {0}
  BY StackBasics
<1>1. ASSUME stack # <<>>, stack' = Pop, Top.kind # "run" PROVE NoNewRun(stack, stack')
  <2>1. /\ Len(stack') = Len(stack) - 1
        /\ \A i \in 1..(Len(stack) - 1) : stack'[i] = stack[i]
    BY <1>1, PopStack, StackBasics
  <2>2. ASSUME NEW i \in 1..Len(stack), stack[i].kind = "run"
        PROVE  i \in 1..(Len(stack) - 1)
    <3>1. i # Len(stack)
      BY <1>1, <2>2 DEF Top
    <3>2. QED BY <1>0, <3>1
  <2>3. QED BY <2>1, <2>2 DEF NoNewRun
<1>2. ASSUME stack # <<>>, NEW f, NEW m \in {0, 1, 2}, Len(stack') = Len(stack) + m,
             SameBelow, stack'[Len(stack)] = f,
             f.kind = Top.kind, f.kind = "run" => f.res = Top.res
      PROVE  NoNewRun(stack, stack')
  <2>1. ASSUME NEW i \in 1..Len(stack), stack[i].kind = "run"
        PROVE  i \in 1..Len(stack') /\ stack'[i].kind = "run" /\ stack'[i].res = stack[i].res
    <3>1. i \in 1..Len(stack')
      BY <1>0, <1>2
    <3>2. CASE i = Len(stack)
      BY <1>2, <2>1, <3>1, <3>2 DEF Top
    <3>3. CASE i \in 1..(Len(stack) - 1)
      BY <1>2, <2>1, <3>1, <3>3 DEF SameBelow
    <3>4. QED BY <1>0, <3>2, <3>3
  <2>2. QED BY <2>1 DEF NoNewRun
<1>3. ASSUME stack # <<>>, NEW f, Changed(f), f.kind = Top.kind, f.kind = "run" => f.res = Top.res
      PROVE  NoNewRun(stack, stack')
  <2>1. Len(stack') = Len(stack) + 0
    BY <1>0, <1>3 DEF Changed
  <2>2. QED BY <1>2, <1>3, <2>1 DEF Changed
<1>4. ASSUME stack # <<>>, NEW f, NEW g, Called(f, g), f.kind = Top.kind,
             f.kind = "run" => f.res = Top.res
      PROVE  NoNewRun(stack, stack')
  BY <1>2, <1>4 DEF Called
<1>5. CASE LookupReturns \/ AddStores \/ RemoveErases \/ DrainReturns \/ WritePrints
  BY <1>1, <1>5 DEF LookupReturns, AddStores, RemoveErases, DrainReturns, WritePrints, InCall
<1>6. CASE AddNull
  <2>1. stack # <<>> /\ Top.kind = "add" /\ (stack' = Pop \/ RemoveCall(Pop, Top.name))
    BY <1>6 DEF AddNull, InCall
  <2>2. CASE RemoveCall(Pop, Top.name)
    <3>1. RemoveOf(Top.name) \in Frame /\ Lookup(Top.name) \in Frame
      BY <1>6, AddNullShape, LookupType DEF RemoveOf, RemoveFrame, Frame, TypeOK
    <3>2. stack' = Append(Replace(RemoveOf(Top.name)), Lookup(Top.name))
      BY <2>2 DEF RemoveCall, Replace, RemoveOf
    <3>3. Called(RemoveOf(Top.name), Lookup(Top.name))
      BY <2>1, <3>1, <3>2, CallShape
    <3>4. ASSUME NEW i \in 1..Len(stack), stack[i].kind = "run"
          PROVE  i \in 1..(Len(stack) - 1)
      <4>1. i # Len(stack)
        BY <2>1, <3>4 DEF Top
      <4>2. QED BY <1>0, <2>1, <4>1
    <3>5. \A i \in 1..(Len(stack) - 1) : i \in 1..Len(stack')
      BY <1>0, <3>3 DEF Called
    <3>6. QED BY <3>3, <3>4, <3>5 DEF Called, SameBelow, NoNewRun
  <2>3. QED BY <1>1, <2>1, <2>2
<1>7. CASE BeginPatterns
  <2> DEFINE f == [Top EXCEPT !.phase = "patterns", !.pit = FrontOf(patternResolvers)]
  <2>1. f.kind = "lookup" /\ Top.kind = "lookup" /\ Changed(f) /\ stack # <<>>
    BY <1>7, BeginPatternsShape DEF LookupFrame
  <2> HIDE DEF f
  <2>2. QED BY <1>3, <2>1
<1>8. CASE ResolveByName
  <2> DEFINE f == [Top EXCEPT !.it = FirstOf({a \in resolverMap : Before(Top.it, a)})]
  <2>1. f.kind = "lookup" /\ Top.kind = "lookup" /\ Called(f, Run(Top.it[2])) /\ stack # <<>>
    BY <1>8, ByNameShape DEF LookupFrame
  <2> HIDE DEF f
  <2>2. QED BY <1>4, <2>1
<1>9. CASE ResolveByPattern
  <2> DEFINE r == FrontOf(MatchesLeft)
             f == [Top EXCEPT !.pit = FrontOf({s \in patternResolvers : s > r})]
  <2>1. f.kind = "lookup" /\ Top.kind = "lookup" /\ Called(f, Run(r)) /\ stack # <<>>
    BY <1>9, ByPatternShape DEF LookupFrame
  <2> HIDE DEF f, r
  <2>2. QED BY <1>4, <2>1
<1>10. CASE ResolveFront
  BY <1>4, <1>10, FrontShape
<1>11. CASE WriteAsks
  <2>1. Top.kind = "write" /\ stack # <<>>
    BY <1>11 DEF WriteAsks, InCall
  <2>2. PICK n \in Name : LET w == [WithAnswer EXCEPT !.asked = {n}, !.todo = @ \ {n}]
                          IN  Called(w, Lookup(n)) /\ w.kind = "write"
    BY <1>11, WriteAsksShape
  <2> DEFINE w == [WithAnswer EXCEPT !.asked = {n}, !.todo = @ \ {n}]
  <2>3. Called(w, Lookup(n)) /\ w.kind = "write"
    BY <2>2
  <2> HIDE DEF w
  <2>4. QED BY <1>4, <2>1, <2>3
<1>12. CASE RunGets \/ RunSkips \/ RunAdds
  <2> DEFINE f == [Top EXCEPT !.pc = @ + 1]
  <2>1. stack # <<>> /\ f.kind = "run" /\ Top.kind = "run" /\ f.res = Top.res
    BY <1>12, RunShape DEF RunGets, RunSkips, RunAdds, AtOp, InCall
  <2>2. CASE RunGets
    <3>1. Called(f, Lookup(NextOp.name))
      BY <2>2, RunGetsShape
    <3> HIDE DEF f
    <3>2. QED BY <1>4, <2>1, <3>1
  <2>3. CASE RunSkips
    <3>1. Changed(f)
      BY <2>3, RunSkipsShape
    <3> HIDE DEF f
    <3>2. QED BY <1>3, <2>1, <3>1
  <2>4. CASE RunAdds
    <3>1. CalledTwice(f, AddOf(NextOp.name, Top.res), Lookup(NextOp.name))
      BY <2>4, RunAddsShape
    <3> HIDE DEF f
    <3>2. QED BY <1>2, <2>1, <3>1 DEF CalledTwice
  <2>5. QED BY <1>12, <2>2, <2>3, <2>4
<1>13. QED BY <1>5, <1>6, <1>7, <1>8, <1>9, <1>10, <1>11, <1>12 DEF Step

\* Entering a resolver makes it active.
LEMMA EnterIsActive ==
  ASSUME NEW s \in Seq(Frame), NEW r \in Resolver
  PROVE  RunningIn(Append(s, Run(r))) = RunningIn(s) \cup {r}
<1>1. Run(r) \in Frame /\ Run(r).kind = "run" /\ Run(r).res = r
  BY DEF Run, Frame, RunFrame
<1> DEFINE t == Append(s, Run(r))
<1>2. /\ Len(s) \in Nat /\ Len(t) = Len(s) + 1
      /\ \A i \in 1..Len(s) : t[i] = s[i]
      /\ t[Len(s) + 1] = Run(r)
  BY <1>1, PushFrame
<1>3. Len(s) + 1 \in 1..Len(t) /\ \A i \in 1..Len(s) : i \in 1..Len(t)
  BY <1>2
<1>4. \A i \in 1..Len(t) : i \in 1..Len(s) \/ i = Len(s) + 1
  BY <1>2
<1> HIDE DEF t
<1>5. RunningIn(t) \subseteq RunningIn(s) \cup {r}
  BY <1>1, <1>2, <1>4 DEF RunningIn
<1>6. r \in RunningIn(t)
  BY <1>1, <1>2, <1>3 DEF RunningIn
<1>7. RunningIn(s) \subseteq RunningIn(t)
  BY <1>2, <1>3 DEF RunningIn
<1>8. QED BY <1>5, <1>6, <1>7 DEF t

\* Only the resolver that returns stops being active.
LEMMA ReturnEndsOne ==
  ASSUME TypeOK, Once, RunReturns
  PROVE  Top.res \in Running /\ Running' = Running \ {Top.res}
<1>1. /\ stack # <<>> /\ Top.kind = "run" /\ stack' = Pop
  BY DEF RunReturns, InCall
<1>2. /\ Len(stack) \in Nat \ {0} /\ Len(stack) \in 1..Len(stack)
      /\ Len(stack') = Len(stack) - 1
      /\ \A i \in 1..(Len(stack) - 1) : stack'[i] = stack[i]
  BY <1>1, PopStack, StackBasics
<1>3. Top.res \in RunningIn(stack)
  BY <1>1, <1>2 DEF RunningIn, Top
<1>4. \A i \in 1..Len(stack) : stack[i].kind = "run" /\ stack[i].res = Top.res => i = Len(stack)
  BY <1>1, <1>2 DEF Once, RunsOnce, Top
<1>5. ASSUME NEW i \in 1..Len(stack'), stack'[i].kind = "run"
      PROVE  stack'[i].res \in RunningIn(stack) \ {Top.res}
  <2>1. i \in 1..(Len(stack) - 1) /\ i \in 1..Len(stack) /\ i # Len(stack)
    BY <1>2
  <2>2. QED BY <1>2, <1>4, <1>5, <2>1 DEF RunningIn
<1>6. ASSUME NEW i \in 1..Len(stack), stack[i].kind = "run", stack[i].res # Top.res
      PROVE  stack[i].res \in RunningIn(stack')
  <2>1. i # Len(stack)
    BY <1>6 DEF Top
  <2>2. i \in 1..(Len(stack) - 1)
    BY <1>2, <2>1
  <2>3. QED BY <1>2, <1>6, <2>2 DEF RunningIn
<1>7. RunningIn(stack') = RunningIn(stack) \ {Top.res}
  BY <1>5, <1>6 DEF RunningIn
<1>8. QED BY <1>3, <1>7, RunningNow

LEMMA OwnValueStep ==
  ASSUME TypeOK, IndexesAgree, OwnValue, [Next]_vars
  PROVE  OwnValue'
<1>0. /\ Len(stack) \in Nat /\ Len(<<>>) = 0
      /\ stack # <<>> => Len(stack) \in Nat \ {0}
  BY StackBasics
<1>1. CASE UNCHANGED vars
  BY <1>1 DEF vars, OwnValue
<1>2. CASE Call
  <2>1. ASSUME NEW n \in Name, NEW v \in {App, Absent}, Add(n, v)
        PROVE  stack'[1].kind = "add" => stack'[1].val \in {App, Absent}
    <3>1. AddOf(n, v) \in Frame /\ Lookup(n) \in Frame /\ <<>> \in Seq(Frame)
      BY LookupType, EmptySeq DEF AddOf, AddFrame, Frame, Value, TypeOK
    <3>2. stack' = Append(Append(<<>>, AddOf(n, v)), Lookup(n))
      BY <2>1 DEF Add, AddCall, Idle, AddOf
    <3>3. /\ Append(<<>>, AddOf(n, v)) \in Seq(Frame)
          /\ Len(Append(<<>>, AddOf(n, v))) = 1 /\ Append(<<>>, AddOf(n, v))[1] = AddOf(n, v)
      BY <1>0, <3>1, PushFrame
    <3>4. stack'[1] = AddOf(n, v)
      BY <3>1, <3>2, <3>3, PushFrame
    <3>5. QED BY <3>4 DEF AddOf
  <2>2. CASE \E n \in Supplied : Add(n, App) \/ Add(n, Absent)
    BY <2>1, <2>2, CollectionAssumption DEF OwnValue
  <2>3. ASSUME NEW n \in Name, Remove(n) PROVE stack'[1].kind = "remove"
    <3>1. RemoveOf(n) \in Frame /\ Lookup(n) \in Frame /\ <<>> \in Seq(Frame)
      BY LookupType, EmptySeq DEF RemoveOf, RemoveFrame, Frame, TypeOK
    <3>2. stack' = Append(Append(<<>>, RemoveOf(n)), Lookup(n))
      BY <2>3 DEF Remove, RemoveCall, Idle, RemoveOf
    <3>3. /\ Append(<<>>, RemoveOf(n)) \in Seq(Frame)
          /\ Len(Append(<<>>, RemoveOf(n))) = 1 /\ Append(<<>>, RemoveOf(n))[1] = RemoveOf(n)
      BY <1>0, <3>1, PushFrame
    <3>4. stack'[1] = RemoveOf(n)
      BY <3>1, <3>2, <3>3, PushFrame
    <3>5. QED BY <3>4 DEF RemoveOf
  <2>4. CASE \E n \in Supplied : Remove(n)
    BY <2>3, <2>4, CollectionAssumption DEF OwnValue
  <2>5. ASSUME NEW f, stack' = Push(f), stack = <<>> PROVE stack'[1] = f
    BY <2>5 DEF Push
  <2>6. CASE AddResolver \/ (\E r \in Resolver : RemoveResolver(r)) \/ Clear
    BY <2>6 DEF AddResolver, RemoveResolver, Clear, Idle, OwnValue
  <2>7. CASE (\E n \in Asked : Get(n)) \/ ResolveAll \/ (\E qs \in Queries : Write(qs))
    <3>1. ASSUME NEW n, Get(n) PROVE stack'[1].kind = "lookup"
      BY <2>5, <3>1 DEF Get, Idle, Lookup
    <3>2. ASSUME ResolveAll PROVE stack'[1].kind = "drain"
      BY <2>5, <3>2 DEF ResolveAll, Idle
    <3>3. ASSUME NEW qs, Write(qs) PROVE stack'[1].kind = "write"
      <4> DEFINE w == [kind |-> "write", asked |-> {}, todo |-> qs, held |-> {}]
      <4>1. w.kind = "write"
        OBVIOUS
      <4>2. stack' = Push(w) /\ stack = <<>>
        BY <3>3 DEF Write, Idle
      <4> HIDE DEF w
      <4>3. QED BY <2>5, <4>1, <4>2
    <3>4. QED BY <2>7, <3>1, <3>2, <3>3 DEF OwnValue
  <2>8. QED BY <1>2, <2>2, <2>4, <2>6, <2>7 DEF Call
<1>3. CASE Step
  <2>1. ASSUME stack # <<>>, NEW f, stack'[Len(stack)] = f, SameBelow,
               f.kind # "add" \/ f = Top
        PROVE  OwnValue'
    <3>1. CASE Len(stack) = 1
      BY <2>1, <3>1 DEF OwnValue, Top
    <3>2. CASE Len(stack) > 1
      <4>1. 1 \in 1..(Len(stack) - 1)
        BY <1>0, <3>2
      <4>2. QED BY <2>1, <4>1 DEF OwnValue, SameBelow
    <3>3. QED BY <1>0, <2>1, <3>1, <3>2, OneOrMore
  <2>2. CASE Popped
    <3>1. CASE stack' = <<>>
      BY <3>1 DEF OwnValue
    <3>2. CASE stack' # <<>>
      <4>1. Len(stack') \in Nat \ {0}
        <5>1. stack' \in Seq(Frame)
          BY <1>3, StepType DEF TypeOK
        <5>2. QED BY <3>2, <5>1, PopSeq
      <4>2. 1 \in 1..Len(stack')
        BY <4>1
      <4>3. QED BY <2>2, <4>2 DEF Popped, OwnValue
    <3>3. QED BY <3>1, <3>2
  <2>3. CASE Ends
    BY <2>2, <2>3, EndsShape
  <2>4. CASE AddNull
    BY <2>1, <2>2, <2>4, AddNullShape DEF Called, RemoveOf
  <2>5. CASE BeginPatterns
    <3> DEFINE f == [Top EXCEPT !.phase = "patterns", !.pit = FrontOf(patternResolvers)]
    <3>1. f.kind = "lookup" /\ Changed(f) /\ stack # <<>>
      BY <2>5, BeginPatternsShape DEF LookupFrame
    <3> HIDE DEF f
    <3>2. QED BY <2>1, <3>1 DEF Changed
  <2>6. CASE ResolveByName
    <3> DEFINE f == [Top EXCEPT !.it = FirstOf({a \in resolverMap : Before(Top.it, a)})]
    <3>1. f.kind = "lookup" /\ Called(f, Run(Top.it[2])) /\ stack # <<>>
      BY <2>6, ByNameShape DEF LookupFrame
    <3> HIDE DEF f
    <3>2. QED BY <2>1, <3>1 DEF Called
  <2>7. CASE ResolveByPattern
    <3> DEFINE r == FrontOf(MatchesLeft)
               f == [Top EXCEPT !.pit = FrontOf({s \in patternResolvers : s > r})]
    <3>1. f.kind = "lookup" /\ Called(f, Run(r)) /\ stack # <<>>
      BY <2>7, ByPatternShape DEF LookupFrame
    <3> HIDE DEF f, r
    <3>2. QED BY <2>1, <3>1 DEF Called
  <2>8. CASE ResolveFront
    BY <2>1, <2>8, FrontShape DEF Called
  <2>9. CASE WriteAsks
    <3>1. PICK n \in Name : LET w == [WithAnswer EXCEPT !.asked = {n}, !.todo = @ \ {n}]
                            IN  Called(w, Lookup(n)) /\ w.kind = "write"
      BY <2>9, WriteAsksShape
    <3> DEFINE w == [WithAnswer EXCEPT !.asked = {n}, !.todo = @ \ {n}]
    <3>2. Called(w, Lookup(n)) /\ w.kind = "write" /\ stack # <<>>
      BY <2>9, <3>1 DEF WriteAsks, InCall
    <3> HIDE DEF w
    <3>3. QED BY <2>1, <3>2 DEF Called
  <2>10. CASE RunGets \/ RunSkips \/ RunAdds
    <3> DEFINE f == [Top EXCEPT !.pc = @ + 1]
    <3>1. stack # <<>> /\ f.kind = "run"
      BY <2>10, RunShape DEF RunGets, RunSkips, RunAdds
    <3>2. SameBelow /\ stack'[Len(stack)] = f
      BY <2>10, RunGetsShape, RunSkipsShape, RunAddsShape DEF Called, Changed, CalledTwice
    <3> HIDE DEF f
    <3>3. QED BY <2>1, <3>1, <3>2
  <2>11. QED
    BY <1>3, <2>3, <2>4, <2>5, <2>6, <2>7, <2>8, <2>9, <2>10 DEF Step, Ends
<1>4. QED BY <1>1, <1>2, <1>3 DEF Next

\* The calls of the application: it registers, withdraws or resets, or opens a
\* call, which changes nothing that LazyFacts speaks of.
LEMMA CallImplements ==
  ASSUME TypeOK, Once, Call
  PROVE  [Lazy!LNext]_(Lazy!lvars)
<1>1. stack = <<>> /\ Running = {} /\ Running' = {}
  BY CallNoRun, EmptySeq DEF Running, Runs, NoNewRun
<1>2. CASE AddResolver
  <2> DEFINE r == registered + 1
  <2>1. r \in Resolver /\ r \notin resolvers \cup resolved
    <3>1. registered \in Nat /\ registered < NumResolvers /\ r \notin 1..registered
      BY <1>2, CollectionAssumption DEF AddResolver, TypeOK
    <3>2. QED BY <3>1, CollectionAssumption DEF Once, Fresh, Resolver
  <2>2. facts' = facts /\ resolvers' = resolvers \cup {r} /\ resolved' = resolved
    BY <1>2 DEF AddResolver
  <2>3. Lazy!Register(r)
    BY <1>1, <2>1, <2>2 DEF Lazy!Register, Lazy!Quiet
  <2>4. QED BY <2>1, <2>3 DEF Lazy!LNext
<1>3. CASE \E r \in Resolver : RemoveResolver(r)
  <2>1. PICK r \in Resolver : RemoveResolver(r)
    BY <1>3
  <2>2. Lazy!Withdraw(r)
    BY <1>1, <2>1 DEF RemoveResolver, Forget, rest, Lazy!Withdraw, Lazy!Quiet
  <2>3. QED BY <2>2 DEF Lazy!LNext
<1>4. CASE Clear
  <2>1. Lazy!Reset
    BY <1>1, <1>4 DEF Clear, rest, Lazy!Reset, Lazy!Quiet
  <2>2. QED BY <2>1 DEF Lazy!LNext
<1>5. CASE UNCHANGED <<facts, index, rest>>
  BY <1>1, <1>5 DEF index, rest, Lazy!lvars
<1>6. QED
  BY <1>2, <1>3, <1>4, <1>5
     DEF Call, Get, Remove, Add, ResolveAll, Write

\* No resolver runs while the application's own call is on top.
LEMMA OwnCallIsQuiet ==
  ASSUME TypeOK, stack # <<>>, Top.kind # "run", ~(Len(stack) > 1)
  PROVE  Running = {} /\ Len(stack) = 1
<1>1. Len(stack) = 1
  BY StackBasics, OneOrMore
<1>2. \A i \in 1..Len(stack) : ~Runs(i)
  BY <1>1 DEF Runs, Top
<1>3. QED BY <1>1, <1>2 DEF Running

\* A step that leaves the runs and the facts alone stutters.
LEMMA StepStutters ==
  ASSUME TypeOK, IndexesAgree, Step, ~RunReturns, ~RunThrows, ~DereferenceInvalid,
         ~(ResolveByName \/ ResolveByPattern \/ ResolveFront)
  PROVE  Running' = Running /\ resolvers' = resolvers /\ resolved' = resolved
<1>1. NoNewRun(stack, stack') /\ NoNewRun(stack', stack)
  BY StepKeepsRuns, StepNoRun
<1>2. RunningIn(stack) \subseteq RunningIn(stack')
  BY <1>1, RunningShrinks
<1>3. RunningIn(stack') \subseteq RunningIn(stack)
  BY <1>1, RunningShrinks
<1>4. QED BY <1>2, <1>3, RunningNow, StepNoRun

\* The steps of the calls in progress.
LEMMA StepImplements ==
  ASSUME TypeOK, IndexesAgree, Once, Nesting, AnsweredBelow, OwnValue, ~InvalidIterator, Step
  PROVE  [Lazy!LNext]_(Lazy!lvars)
<1>1. CASE ResolveByName \/ ResolveByPattern \/ ResolveFront
  <2>1. PICK r \in resolvers, callers \in Seq(Frame) :
             Resolve(r, callers) /\ NoNewRun(callers, stack)
    BY <1>1, LoopEntersPending
  <2>2. r \in Resolver /\ r \notin resolved
    BY <2>1 DEF TypeOK, Once
  <2>3. /\ facts' = facts /\ resolvers' = resolvers \ {r} /\ resolved' = resolved \cup {r}
        /\ stack' = Append(callers, Run(r))
    BY <2>1 DEF Resolve, Forget
  <2>4. RunningIn(stack') = RunningIn(callers) \cup {r}
    BY <2>2, <2>3, EnterIsActive
  <2>5. RunningIn(callers) \subseteq RunningIn(stack)
    BY <2>1, RunningShrinks
  <2>6. RunningIn(stack) \subseteq RunningIn(stack')
    <3>1. ~RunReturns /\ ~RunThrows /\ ~DereferenceInvalid
      BY <1>1 DEF ResolveByName, ResolveByPattern, ResolveFront, RunReturns, RunThrows,
                  DereferenceInvalid, InCall
    <3>2. QED BY <3>1, StepKeepsRuns, RunningShrinks
  <2>7. Running' = Running \cup {r}
    BY <2>4, <2>5, <2>6, RunningNow
  <2>8. Lazy!Start(r)
    BY <2>1, <2>2, <2>3, <2>7 DEF Lazy!Start
  <2>9. QED BY <2>2, <2>8 DEF Lazy!LNext
<1>2. CASE RunReturns
  <2>1. Top.res \in Resolver /\ facts' = facts /\ resolvers' = resolvers /\ resolved' = resolved
    BY <1>2, TopRun DEF RunReturns, RunFrame, index, rest
  <2>2. Lazy!Finish(Top.res)
    BY <1>2, <2>1, ReturnEndsOne DEF Lazy!Finish
  <2>3. QED BY <2>1, <2>2 DEF Lazy!LNext
<1>3. CASE RunThrows
  <2>1. Running' = {} /\ facts' = facts /\ resolvers' = resolvers /\ resolved' = resolved
    BY <1>3, EmptySeq DEF RunThrows, Running, Runs, index, rest
  <2>2. Lazy!Abandon
    BY <2>1 DEF Lazy!Abandon
  <2>3. QED BY <2>2 DEF Lazy!LNext
<1>4. CASE DereferenceInvalid
  BY <1>4 DEF DereferenceInvalid
<1> DEFINE moves == RunReturns \/ RunThrows \/ DereferenceInvalid
                    \/ ResolveByName \/ ResolveByPattern \/ ResolveFront
<1>5. CASE (AddStores \/ RemoveErases) /\ ~moves
  <2>1. /\ stack # <<>> /\ Top.kind \in {"add", "remove"} /\ Top \in Frame
        /\ Running' = Running /\ resolvers' = resolvers /\ resolved' = resolved
    BY <1>5, StepStutters, PopStack DEF AddStores, RemoveErases, InCall, TypeOK
  <2>2. Top.name \in Name
    BY <2>1, FrameKinds DEF AddFrame, RemoveFrame
  <2>3. CASE Len(stack) > 1
    <3>1. PICK i \in 1..Len(stack) : /\ Runs(i) /\ Top.name \in Covers(stack[i].res)
                                     /\ Top.kind = "add" /\ Top.val = stack[i].res
      BY <2>1, <2>3, NestedAdd
    <3>2. Top.val \in Running
      BY <3>1 DEF Running
    <3>3. Top.val \in Resolver
      BY <3>1, StackBasics, FrameKinds DEF Runs, RunFrame
    <3>4. facts' = [facts EXCEPT ![Top.name] = Top.val]
      BY <1>5, <3>1 DEF AddStores, RemoveErases, InCall
    <3>5. Lazy!Supply(Top.val, Top.name)
      BY <2>1, <3>1, <3>2, <3>4 DEF Lazy!Supply
    <3>6. QED BY <2>2, <3>3, <3>5 DEF Lazy!LNext
  <2>4. CASE ~(Len(stack) > 1)
    <3>1. Running = {} /\ Len(stack) = 1
      BY <2>1, <2>4, OwnCallIsQuiet
    <3>2. NonePending(Top.name)
      BY <2>1 DEF AnsweredBelow, InCall
    <3>3. \E v \in {App, Absent} : facts' = [facts EXCEPT ![Top.name] = v]
      BY <1>5, <3>1 DEF AddStores, RemoveErases, InCall, OwnValue, Top
    <3>4. \E v \in {App, Absent} : Lazy!Override(Top.name, v)
      BY <2>1, <3>1, <3>2, <3>3 DEF Lazy!Override, Lazy!Quiet, NonePending
    <3>5. QED BY <2>2, <3>4 DEF Lazy!LNext
  <2>5. QED BY <2>3, <2>4
<1>6. CASE ~AddStores /\ ~RemoveErases /\ ~moves
  <2>1. Running' = Running /\ resolvers' = resolvers /\ resolved' = resolved
    BY <1>6, StepStutters
  <2>2. facts' = facts
    BY <1>6 DEF Step, BeginPatterns, LookupReturns, AddNull, DrainReturns, WriteAsks,
                WritePrints, RunGets, RunAdds, RunSkips
  <2>3. QED BY <2>1, <2>2 DEF Lazy!lvars
<1>7. QED BY <1>1, <1>2, <1>3, <1>4, <1>5, <1>6

LEMMA InitImplements == Init => Lazy!LInit
<1>1. SUFFICES ASSUME Init PROVE Lazy!LInit
  OBVIOUS
<1>2. Running = {}
  BY <1>1, EmptySeq DEF Init, Running
<1>3. QED BY <1>1, <1>2 DEF Init, Lazy!LInit

\* A collection keeps the promise of LazyFacts: each resolver starts at most once,
\* only a running resolver supplies facts, only those it announces, and the
\* application replaces a fact only when no resolver that announces it waits.
\* The lookups need their iterators for it: one that reads a freed node may stop
\* before it has resolved the name.
THEOREM RefinesLazyFactsCorrect ==
  ASSUME AddsAnnounced
  PROVE  Spec /\ []~InvalidIterator => RefinesLazyFacts
<1>1. Init => AnsweredBelow /\ OwnValue
  BY EmptySeq DEF Init, AnsweredBelow, OwnValue, InCall
<1>2. TypeOK /\ IndexesAgree /\ LookupsAhead /\ Nesting /\ ~InvalidIterator
        /\ AnsweredBelow /\ OwnValue /\ [Next]_vars => AnsweredBelow' /\ OwnValue'
  BY AnsweredStep, OwnValueStep
<1>3. TypeOK /\ IndexesAgree /\ Once /\ Nesting /\ AnsweredBelow /\ OwnValue
        /\ ~InvalidIterator /\ [Next]_vars => [Lazy!LNext]_(Lazy!lvars)
  <2>1. SUFFICES ASSUME TypeOK, IndexesAgree, Once, Nesting, AnsweredBelow, OwnValue,
                        ~InvalidIterator, [Next]_vars
                 PROVE  [Lazy!LNext]_(Lazy!lvars)
    OBVIOUS
  <2>2. CASE UNCHANGED vars
    BY <2>2 DEF vars, Lazy!lvars, Running, Runs
  <2>3. QED BY <2>1, <2>2, CallImplements, StepImplements DEF Next
<1>4. Spec => []TypeOK /\ []IndexesAgree /\ []Once /\ []LookupsAhead /\ []Nesting
  BY TypeCorrect, IndexesCorrect, OnceCorrect, LookupsAheadCorrect, NestingCorrect
<1>5. QED
  BY <1>1, <1>2, <1>3, <1>4, InitImplements, PTL DEF Spec, RefinesLazyFacts, Lazy!LSpec

\* No two resolvers announce the same name.
NamesApart == \A r, s \in Resolver : r # s => Covers(r) \cap Covers(s) = {}

\* So for resolvers such as facter's, which share no names and whose pattern
\* resolvers ask for nothing of each other, the collection keeps its promise
\* whatever the application does and wherever resolvers throw.
THEOREM DisjointNamesSuffice ==
  ASSUME AddsAnnounced, PatternsApart, NamesApart
  PROVE  Spec => []HeldValuesStay /\ RefinesLazyFacts
<1>1. TypeOK /\ Once /\ NoInvalidIterator => ~InvalidIterator
  <2>1. SUFFICES ASSUME TypeOK, Once, NoInvalidIterator PROVE ~InvalidIterator
    OBVIOUS
  <2>2. \A r \in resolvers \cup resolved : r \in Resolver
    BY <2>1 DEF TypeOK
  <2>3. NamesDisjoint
    BY <2>2 DEF NamesApart, NamesDisjoint
  <2>4. QED BY <2>1, <2>3 DEF NoInvalidIterator
<1>2. QED
  BY <1>1, TypeCorrect, OnceCorrect, NoInvalidIteratorCorrect, HeldValuesStayCorrect,
     RefinesLazyFactsCorrect, PTL
=============================================================================
