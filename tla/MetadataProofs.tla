---------------------------- MODULE MetadataProofs ----------------------------
(* What a failing request does to the facts of EC2, and that the facts of EC2  *)
(* are the service's tree, for every tree the service may have, every redirect *)
(* and refusal, and every document of GCE.                                     *)
EXTENDS Metadata, TLAPS, SequenceTheorems

-----------------------------------------------------------------------------
(* The inductive invariant *)

NoMetadata == "ec2_metadata" \notin DOMAIN facts

\* Until the tree has been walked nothing has failed and nothing was added.
Untouched == failed = {} /\ ~asked /\ NoMetadata

Asking(kind) == pc = "request" /\ request.kind = kind

\* The calls of query_metadata are in progress.
Walking == pc = "line" \/ Asking("list") \/ Asking("value")

\* User data is asked for when the walk has ended or has failed after its first request.
AfterWalk == asked /\ Root \notin failed /\ (failed # {} => NoMetadata)

WalkInv ==
    /\ pc \in {"start", "line", "request", "done", "raised"}
    /\ request.kind \in {"list", "value", "userdata", "gce"}
    /\ request.kind = "userdata" => request = UserData
    /\ request.kind = "gce" => request = Computed
    /\ pc = "start" \/ Walking \/ Asking("gce") => Untouched
    /\ Asking("userdata") => AfterWalk
    /\ FailureDropsMetadata

-----------------------------------------------------------------------------
(* The steps *)

\* map_value::add of another key adds no metadata.
LEMMA OtherKey ==
  ASSUME NEW k, NEW v, k # "ec2_metadata", facts' \in {facts, AddToMap(facts, k, v)}
  PROVE  NoMetadata => NoMetadata'
BY DEF AddToMap, NoMetadata

\* A request outside of the tree makes no difference when it fails.
LEMMA FailsOutside ==
  ASSUME FailureDropsMetadata, NEW p \in {UserData.path, Computed.path},
         failed' \in {failed, failed \cup {p}}, UNCHANGED asked,
         NoMetadata => NoMetadata'
  PROVE  FailureDropsMetadata'
<1>1. p \notin Tree
  BY PathsApart
<1>2. p # Root
  BY DEF UserData, Computed, Root
<1>3. QED BY <1>1, <1>2 DEF FailureDropsMetadata, NoMetadata

\* The walk goes on.
LEMMA WalkGoesOn ==
  ASSUME WalkInv, Walking, UNCHANGED <<facts, failed, asked>>,
         \/ pc' = "line" /\ UNCHANGED request
         \/ pc' = "request" /\ \E path : request' \in {List(path), Value(path)}
  PROVE  WalkInv'
<1>1. Untouched /\ Untouched'
  BY DEF WalkInv, Untouched, NoMetadata
<1>2. FailureDropsMetadata'
  BY <1>1 DEF Untouched, FailureDropsMetadata
<1>3. QED
  BY <1>1, <1>2 DEF WalkInv, Walking, Asking, List, Value

\* The walk has ended, or has failed after its first request.
LEMMA WalkEnds ==
  ASSUME WalkInv, AfterWalk', Send(UserData)
  PROVE  WalkInv'
<1>1. pc' = "request" /\ request' = UserData
  BY DEF Send
<1>2. FailureDropsMetadata'
  BY DEF AfterWalk, FailureDropsMetadata, NoMetadata
<1>3. QED
  BY <1>1, <1>2 DEF WalkInv, Walking, Asking, UserData


\* An answer that adds a fact, or a failure outside of the tree, ends the resolver.
LEMMA Ends ==
  ASSUME WalkInv, pc' = "done", UNCHANGED request, FailureDropsMetadata'
  PROVE  WalkInv'
BY DEF WalkInv, Walking, Asking

LEMMA NextKeeps ==
  ASSUME WalkInv, Next
  PROVE  WalkInv'
<1>1. CASE ClientFails
  BY <1>1 DEF ClientFails, WalkInv, Walking, Asking, Untouched, FailureDropsMetadata
<1>2. CASE StartEc2
  <2>1. /\ pc = "start" /\ pc' = "request" /\ request' = List(Root)
        /\ UNCHANGED <<facts, failed, asked>>
    BY <1>2 DEF StartEc2, Send
  <2>2. Untouched /\ Untouched'
    BY <2>1 DEF WalkInv, Untouched, NoMetadata
  <2>3. QED
    BY <2>1, <2>2 DEF WalkInv, Walking, Asking, List, Untouched, FailureDropsMetadata
<1>3. CASE StartNothing
  <2>1. pc = "start" /\ pc' = "done" /\ UNCHANGED <<request, facts, failed, asked>>
    BY <1>3 DEF StartNothing
  <2>2. QED
    BY <2>1, Ends DEF WalkInv, FailureDropsMetadata
<1>4. CASE StartGce
  <2>1. /\ pc = "start" /\ pc' = "request" /\ request' = Computed
        /\ UNCHANGED <<facts, failed, asked>>
    BY <1>4 DEF StartGce, Send
  <2>2. Untouched /\ Untouched'
    BY <2>1 DEF WalkInv, Untouched, NoMetadata
  <2>3. QED
    BY <2>1, <2>2 DEF WalkInv, Walking, Asking, Computed, Untouched, FailureDropsMetadata
<1>5. CASE Callback
  BY <1>5 DEF Callback, WalkInv, Walking, Asking, Untouched, AfterWalk, NoMetadata,
              FailureDropsMetadata
<1>6. CASE ListAnswered
  BY <1>6, WalkGoesOn DEF ListAnswered, Answered, Walking, Asking
<1>7. CASE ValueAnswered
  BY <1>7, WalkGoesOn DEF ValueAnswered, Answered, Walking, Asking
<1>8. CASE SkipLine
  BY <1>8, WalkGoesOn DEF SkipLine, HasLine, Walking
<1>9. CASE AskLine
  <2>1. PICK path : Send(List(path)) \/ Send(Value(path))
    BY <1>9 DEF AskLine
  <2>2. pc' = "request" /\ request' \in {List(path), Value(path)}
    BY <2>1 DEF Send
  <2>3. pc = "line" /\ UNCHANGED <<facts, failed, asked>>
    BY <1>9 DEF AskLine, HasLine
  <2>4. QED BY <2>2, <2>3, WalkGoesOn DEF Walking
<1>10. CASE EndCategory
  BY <1>10, WalkGoesOn DEF EndCategory, Walking
<1>11. CASE EndMetadata
  <2>1. pc = "line" /\ asked' /\ UNCHANGED failed /\ Send(UserData)
    BY <1>11 DEF EndMetadata
  <2>2. failed = {}
    BY <2>1 DEF WalkInv, Walking, Untouched
  <2>3. QED BY <2>1, <2>2, WalkEnds DEF AfterWalk
<1>12. CASE UserDataAnswered
  <2>1. /\ Asking("userdata") /\ pc' = "done" /\ UNCHANGED <<request, failed, asked>>
        /\ facts' \in {facts, AddToMap(facts, "ec2_userdata", [text |-> ctx.body])}
    BY <1>12 DEF UserDataAnswered, Answered, Asking
  <2>2. NoMetadata => NoMetadata'
    BY <2>1, OtherKey
  <2>3. FailureDropsMetadata'
    BY <2>1, <2>2 DEF WalkInv, FailureDropsMetadata, NoMetadata
  <2>4. QED BY <2>1, <2>3, Ends
<1>13. CASE GceRefused
  <2>1. pc' = "done" /\ UNCHANGED <<request, facts, failed, asked>>
    BY <1>13 DEF GceRefused
  <2>2. QED
    BY <2>1, Ends DEF WalkInv, FailureDropsMetadata
<1>14. CASE GceAnswered
  <2>1. /\ Asking("gce") /\ pc' = "done" /\ UNCHANGED <<request, asked>>
        /\ failed' \in {failed, failed \cup {request.path}}
        /\ \E v : facts' \in {facts, AddToMap(facts, "gce", v)}
    BY <1>14 DEF GceAnswered, Answered, Asking
  <2>2. NoMetadata => NoMetadata'
    BY <2>1, OtherKey
  <2>3. request.path \in {UserData.path, Computed.path}
    BY <2>1 DEF WalkInv, Asking
  <2>4. FailureDropsMetadata'
    BY <2>1, <2>2, <2>3, FailsOutside DEF WalkInv
  <2>5. QED BY <2>1, <2>4, Ends
<1>15. CASE MetadataFails
  <2>1. /\ Walking /\ request.path # Root /\ failed' = failed \cup {request.path} /\ asked'
        /\ Send(UserData) /\ UNCHANGED facts
    BY <1>15 DEF MetadataFails, Fails, Walking, Asking
  <2>2. failed = {} /\ NoMetadata
    BY <2>1 DEF WalkInv, Untouched
  <2>3. QED BY <2>1, <2>2, WalkEnds DEF AfterWalk, NoMetadata
<1>16. CASE RootFails
  <2>1. /\ Walking /\ request.path = Root /\ failed' = failed \cup {request.path}
        /\ pc' = "done" /\ UNCHANGED <<request, facts, asked>>
    BY <1>16 DEF RootFails, Fails, Walking, Asking
  <2>2. FailureDropsMetadata'
    BY <2>1 DEF WalkInv, Untouched, FailureDropsMetadata, NoMetadata
  <2>3. QED BY <2>1, <2>2, Ends
<1>17. CASE LastFails
  <2>1. /\ Asking("userdata") \/ Asking("gce")
        /\ failed' = failed \cup {request.path}
        /\ pc' = "done" /\ UNCHANGED <<request, facts, asked>>
    BY <1>17 DEF LastFails, Fails, Asking
  <2>2. request.path \in {UserData.path, Computed.path}
    BY <2>1 DEF WalkInv, Asking
  <2>3. FailureDropsMetadata'
    BY <2>1, <2>2, FailsOutside DEF WalkInv, NoMetadata
  <2>4. QED BY <2>1, <2>3, Ends
<1>18. QED
  BY <1>1, <1>2, <1>3, <1>4, <1>5, <1>6, <1>7, <1>8, <1>9, <1>10, <1>11, <1>12, <1>13,
     <1>14, <1>15, <1>16, <1>17 DEF Next

\* The facts of EC2 are all or nothing: wherever a request below the root fails, what the
\* tree gave so far is dropped and user data is still asked for; when the first request
\* fails there is no EC2 and it is not (ec2_resolver.cc).
THEOREM FailureDropsMetadataCorrect == Spec => []FailureDropsMetadata
<1>1. Init => WalkInv
  BY DEF Init, WalkInv, Walking, Asking, Untouched, NoMetadata, EmptyMap, UserData,
         FailureDropsMetadata
<1>2. WalkInv /\ [Next]_vars => WalkInv'
  <2>1. WalkInv /\ UNCHANGED vars => WalkInv'
    BY DEF WalkInv, Walking, Asking, Untouched, AfterWalk, NoMetadata, FailureDropsMetadata,
           vars
  <2>2. QED BY <2>1, NextKeeps
<1>3. WalkInv => FailureDropsMetadata
  BY DEF WalkInv
<1>4. QED BY <1>1, <1>2, <1>3, PTL DEF Spec


-----------------------------------------------------------------------------
(* What a request hears *)

Listening == INSTANCE FoldFacts WITH op <- Receive
Heard(c, events) == FoldLeft(Receive, c, events)

LEMMA HeardIsFold ==
  ASSUME NEW c, NEW events
  PROVE  Heard(c, events) = Listening!Fold(c, events)
<1> HIDE DEF Receive
<1>1. QED
  BY DEF Heard, FoldLeft, MapThenFoldSet, Max,
         Listening!Fold, Listening!FoldLeft, Listening!MapThenFoldSet, Listening!Max

LEMMA HeardSteps ==
  ASSUME NEW S, NEW events \in Seq(S), NEW e \in S, NEW c
  PROVE  /\ Heard(c, <<>>) = c
         /\ Heard(c, Append(events, e)) = Receive(Heard(c, events), e)
<1> HIDE DEF Receive
<1>1. QED BY HeardIsFold, Listening!FoldEmpty, Listening!FoldAppend

LEMMA HeardConcat ==
  ASSUME NEW S, NEW events \in Seq(S), NEW more \in Seq(S), NEW c
  PROVE  Heard(c, events \o more) = Heard(Heard(c, events), more)
<1> HIDE DEF Receive
<1>1. QED BY HeardIsFold, Listening!FoldConcat

IsContext(c) == DOMAIN c = {"status", "headers", "body"}
Hears(d, status, body) == IsContext(d) /\ d.status = status /\ d.body = body

\* The status after a status line.
Stated(c, code) == IF code = Illegible THEN c.status ELSE code

LEMMA ReceiveIs ==
  ASSUME NEW c, IsContext(c), NEW code, NEW x, NEW name, NEW value
  PROVE  /\ Hears(Receive(c, Status(code)), Stated(c, code), <<>>)
         /\ Hears(Receive(c, Header(name, value)), c.status, c.body)
         /\ Hears(Receive(c, Blank), c.status, c.body)
         /\ Hears(Receive(c, Piece(<<x>>)), c.status, c.body \o <<x>>)
<1>1. Hears(Receive(c, Status(code)), Stated(c, code), <<>>)
  <2>1. Receive(c, Status(code)) = [c EXCEPT !.status = Stated(c, code), !.body = <<>>]
    BY DEF Receive, WriteHeader, Status, Stated
  <2>2. QED BY <2>1 DEF Hears, IsContext
<1>2. Hears(Receive(c, Header(name, value)), c.status, c.body)
  <2>1. PICK h : Receive(c, Header(name, value)) = [c EXCEPT !.headers = h]
    BY DEF Receive, WriteHeader, Header
  <2>2. QED BY <2>1 DEF Hears, IsContext
<1>3. Hears(Receive(c, Blank), c.status, c.body)
  <2>1. Receive(c, Blank) = c
    BY DEF Receive, WriteHeader, Blank
  <2>2. QED BY <2>1 DEF Hears
<1>4. Hears(Receive(c, Piece(<<x>>)), c.status, c.body \o <<x>>)
  <2>1. Receive(c, Piece(<<x>>)) = [c EXCEPT !.body = @ \o <<x>>]
    BY DEF Receive, WriteBody, Piece
  <2>2. QED BY <2>1 DEF Hears, IsContext
<1>5. QED BY <1>1, <1>2, <1>3, <1>4

Pieces(text) == [i \in DOMAIN text |-> Piece(<<text[i]>>)]
Callbacks(S, code) == {Status(code), Header("Location", "x"), Blank} \cup {Piece(<<x>>) : x \in S}

\* The pieces of a body are put together.
LEMMA PiecesHeard ==
  ASSUME NEW S, NEW text \in Seq(S), NEW c, IsContext(c), c.body = <<>>, NEW code
  PROVE  /\ Pieces(text) \in Seq(Callbacks(S, code))
         /\ Hears(Heard(c, Pieces(text)), c.status, text)
<1> DEFINE E == Callbacks(S, code)
           Q == {t \in Seq(S) : /\ Pieces(t) \in Seq(E)
                                /\ Hears(Heard(c, Pieces(t)), c.status, t)}
<1>1. <<>> \in Q
  <2>1. Pieces(<<>>) = <<>>
    BY DEF Pieces
  <2>2. Heard(c, <<>>) = c
    <3> HIDE DEF Receive
    <3>1. QED BY HeardIsFold, Listening!FoldEmpty
  <2>3. QED BY <2>1, <2>2, EmptySeq DEF Hears
<1>2. ASSUME NEW t \in Seq(S), NEW x \in S, t \in Q PROVE Append(t, x) \in Q
  <2>1. Piece(<<x>>) \in E
    BY DEF Callbacks
  <2>2. Pieces(Append(t, x)) = Append(Pieces(t), Piece(<<x>>))
    <3>1. /\ Append(t, x) \in Seq(S) /\ Len(t) \in Nat /\ Len(Append(t, x)) = Len(t) + 1
          /\ DOMAIN t = 1 .. Len(t) /\ DOMAIN Append(t, x) = 1 .. Len(t) + 1
          /\ \A i \in 1 .. Len(t) : Append(t, x)[i] = t[i]
          /\ Append(t, x)[Len(t) + 1] = x
      BY LenProperties, AppendProperties
    <3> DEFINE left == Pieces(Append(t, x))
               right == Append(Pieces(t), Piece(<<x>>))
    <3>2. Pieces(t) \in Seq(E) /\ Len(Pieces(t)) = Len(t)
      <4>1. Pieces(t) \in Seq(E)
        BY <1>2
      <4>2. DOMAIN Pieces(t) = DOMAIN t
        BY DEF Pieces
      <4>3. QED BY <3>1, <4>1, <4>2, LenProperties
    <3>3. /\ right \in Seq(E) /\ Len(right) = Len(t) + 1
          /\ \A i \in 1 .. Len(t) : right[i] = Pieces(t)[i]
          /\ right[Len(t) + 1] = Piece(<<x>>)
      BY <2>1, <3>2, AppendProperties
    <3>4. left = [i \in 1 .. Len(t) + 1 |-> Piece(<<Append(t, x)[i]>>)]
      BY <3>1 DEF Pieces
    <3>5. right = [i \in 1 .. Len(t) + 1 |-> right[i]]
      BY <3>3
    <3>6. \A i \in 1 .. Len(t) : Pieces(t)[i] = Piece(<<t[i]>>)
      BY <3>1 DEF Pieces
    <3> HIDE DEF right
    <3>7. \A i \in 1 .. Len(t) + 1 : right[i] = Piece(<<Append(t, x)[i]>>)
      <4> SUFFICES ASSUME NEW i \in 1 .. Len(t) + 1 PROVE right[i] = Piece(<<Append(t, x)[i]>>)
        OBVIOUS
      <4>1. CASE i = Len(t) + 1
        BY <3>1, <3>3, <4>1
      <4>2. CASE i # Len(t) + 1
        <5>1. i \in 1 .. Len(t)
          BY <3>1, <4>2
        <5>2. QED BY <3>1, <3>3, <3>6, <5>1
      <4>3. QED BY <4>1, <4>2
    <3>8. left = right
      BY <3>4, <3>5, <3>7
    <3>9. QED BY <3>8 DEF right
  <2>3. Pieces(t) \in Seq(E) /\ Hears(Heard(c, Pieces(t)), c.status, t)
    BY <1>2
  <2>4. Heard(c, Pieces(Append(t, x))) = Receive(Heard(c, Pieces(t)), Piece(<<x>>))
    BY <2>1, <2>2, <2>3, HeardSteps
  <2>5. Hears(Receive(Heard(c, Pieces(t)), Piece(<<x>>)), c.status, t \o <<x>>)
    <3> DEFINE d == Heard(c, Pieces(t))
    <3>1. IsContext(d) /\ d.status = c.status /\ d.body = t
      BY <2>3 DEF Hears
    <3> HIDE DEF d
    <3>2. Hears(Receive(d, Piece(<<x>>)), d.status, d.body \o <<x>>)
      BY <3>1, ReceiveIs
    <3>3. Hears(Receive(d, Piece(<<x>>)), c.status, t \o <<x>>)
      BY <3>1, <3>2
    <3>4. QED BY <3>3 DEF d
  <2>6. t \o <<x>> = Append(t, x) /\ Append(t, x) \in Seq(S)
    BY AppendIsConcat, AppendProperties
  <2>7. Pieces(Append(t, x)) \in Seq(E)
    BY <2>1, <2>2, <2>3, AppendProperties
  <2>8. QED BY <2>4, <2>5, <2>6, <2>7
<1> HIDE DEF Q
<1>3. Seq(S) \subseteq Q
  BY <1>1, <1>2, Listening!SeqInduct
<1>4. QED BY <1>3 DEF Q

\* After a response, whatever came before it, the context has its status, if that is legible,
\* and its body.
LEMMA ResponseHeard ==
  ASSUME NEW S, NEW text \in Seq(S), NEW c, IsContext(c), NEW code
  PROVE  /\ Response(code, text) \in Seq(Callbacks(S, code))
         /\ Hears(Heard(c, Response(code, text)), Stated(c, code), text)
<1> DEFINE E == Callbacks(S, code)
           H == Header("Location", "x")
           stated == Stated(c, code)
           c1 == Receive(c, Status(code))
           c2 == Receive(c1, H)
           c3 == Receive(c2, Blank)
<1>1. Status(code) \in E /\ H \in E /\ Blank \in E
  BY DEF Callbacks
<1> HIDE DEF E, H
<1>2. <<>> \in Seq(E) /\ <<Status(code)>> \in Seq(E) /\ <<Status(code), H>> \in Seq(E)
      /\ <<Status(code), H, Blank>> \in Seq(E)
  BY <1>1
<1>3. /\ <<Status(code)>> = Append(<<>>, Status(code))
      /\ <<Status(code), H>> = Append(<<Status(code)>>, H)
      /\ <<Status(code), H, Blank>> = Append(<<Status(code), H>>, Blank)
  OBVIOUS
<1>4. Heard(c, <<Status(code), H, Blank>>) = c3
  <2>1. Heard(c, <<>>) = c /\ Heard(c, Append(<<>>, Status(code))) = Receive(Heard(c, <<>>), Status(code))
    BY <1>1, <1>2, HeardSteps
  <2> DEFINE s1 == <<Status(code)>>
             s2 == <<Status(code), H>>
  <2>2. Heard(c, Append(<<Status(code)>>, H)) = Receive(Heard(c, <<Status(code)>>), H)
    <3>1. s1 \in Seq(E)
      BY <1>2
    <3> HIDE DEF s1, Receive
    <3>2. Heard(c, Append(s1, H)) = Receive(Heard(c, s1), H)
      BY <1>1, <3>1, HeardSteps
    <3>3. QED BY <3>2 DEF s1
  <2>3. Heard(c, Append(<<Status(code), H>>, Blank)) = Receive(Heard(c, <<Status(code), H>>), Blank)
    <3>1. s2 \in Seq(E)
      BY <1>2
    <3> HIDE DEF s2, Receive
    <3>2. Heard(c, Append(s2, Blank)) = Receive(Heard(c, s2), Blank)
      BY <1>1, <3>1, HeardSteps
    <3>3. QED BY <3>2 DEF s2
  <2>4. QED BY <1>3, <2>1, <2>2, <2>3
<1>7. Hears(c3, stated, <<>>)
  <2>1. Hears(c1, stated, <<>>)
    BY ReceiveIs
  <2> HIDE DEF c1
  <2>2. Hears(Receive(c1, H), c1.status, c1.body)
    <3>1. IsContext(c1)
      BY <2>1 DEF Hears
    <3>2. Hears(Receive(c1, Header("Location", "x")), c1.status, c1.body)
      BY <3>1, ReceiveIs
    <3>3. QED BY <3>2 DEF H
  <2>3. Hears(c2, stated, <<>>)
    BY <2>1, <2>2 DEF Hears
  <2> HIDE DEF c2
  <2>4. Hears(Receive(c2, Blank), c2.status, c2.body)
    BY <2>3, ReceiveIs DEF Hears
  <2>5. QED BY <2>3, <2>4 DEF Hears
<1> HIDE DEF c3
<1>8. Pieces(text) \in Seq(E) /\ Hears(Heard(c3, Pieces(text)), stated, text)
  BY <1>7, PiecesHeard DEF Hears, E
<1>9. Response(code, text) = <<Status(code), H, Blank>> \o Pieces(text)
  BY DEF Response, Pieces, H
<1>10. Heard(c, Response(code, text)) = Heard(c3, Pieces(text))
  <2>1. Heard(c, <<Status(code), H, Blank>> \o Pieces(text)) =
            Heard(Heard(c, <<Status(code), H, Blank>>), Pieces(text))
    BY <1>2, <1>8, HeardConcat
  <2>2. QED BY <1>4, <1>9, <2>1
<1>11. Response(code, text) \in Seq(E)
  BY <1>2, <1>8, <1>9, ConcatProperties
<1>12. QED BY <1>8, <1>10, <1>11 DEF E


-----------------------------------------------------------------------------
(* The paths of the service *)

WantedNames(c) == {x.name : x \in Wanted(c)}
\* A path is below a category; what is left of it there.
Below(p, c) == Len(c) < Len(p) /\ SubSeq(p, 1, Len(c)) = c
Rest(p, c)  == SubSeq(p, Len(c) + 1, Len(p))
Next1(p, c) == p[Len(c) + 1]

LEMMA PathsAreTexts ==
  ASSUME NEW p \in Tree
  PROVE  /\ p \in Seq(STRING) /\ Len(p) \in Nat /\ DOMAIN p = 1 .. Len(p)
         /\ \A i \in 1 .. Len(p) : p[i] \in STRING
BY ServiceIsTree, LenProperties

\* The names a category lists are texts, and each stands for one line.
LEMMA WantedIs ==
  ASSUME NEW c \in DOMAIN Listings, NEW x \in Wanted(c)
  PROVE  /\ x.name \in STRING /\ x.name # ""
         /\ Append(c, x.name) \in IF x.category THEN DOMAIN Listings ELSE DOMAIN Texts
         /\ \A y \in Wanted(c) : y.name = x.name => y = x
<1>1. Listings[c] \in Seq(Lines)
  BY ServiceIsTree
<1>2. \A y \in Wanted(c) : y.name # "" /\ \E i \in DOMAIN Listings[c] : y = Listings[c][i]
  BY DEF Wanted, ToSet
<1>3. x \in Lines
  <2>1. PICK i \in DOMAIN Listings[c] : x = Listings[c][i]
    BY <1>2
  <2>2. DOMAIN Listings[c] = 1 .. Len(Listings[c])
    BY <1>1, LenProperties
  <2>3. QED BY <1>1, <2>1, <2>2, ElementOfSeq
<1>5. ASSUME NEW y \in Wanted(c), y.name = x.name PROVE y = x
  <2>1. PICK i \in DOMAIN Listings[c] : x = Listings[c][i]
    BY <1>2
  <2>2. PICK j \in DOMAIN Listings[c] : y = Listings[c][j]
    BY <1>2
  <2>3. {Listings[c][j], Listings[c][i]} \subseteq Wanted(c)
    BY <2>1, <2>2
  <2>4. j = i
    BY <1>5, <2>1, <2>2, <2>3, ServiceIsTree
  <2>5. QED BY <2>1, <2>2, <2>4
<1>6. QED BY <1>2, <1>3, <1>5, ServiceIsTree DEF Lines

\* The parts of a path up to a category below it.
LEMMA BelowIs ==
  ASSUME NEW S, NEW p \in Seq(S), NEW c \in Seq(S), Below(p, c)
  PROVE  /\ Len(c) \in Nat /\ Len(p) \in Nat /\ Len(c) + 1 \in 1 .. Len(p) /\ Next1(p, c) \in S
         /\ Append(c, Next1(p, c)) = SubSeq(p, 1, Len(c) + 1)
         /\ Append(c, Next1(p, c)) \in Seq(S)
         /\ Len(Append(c, Next1(p, c))) = Len(c) + 1
         /\ p = Append(c, Next1(p, c)) \/ Below(p, Append(c, Next1(p, c)))
<1> DEFINE n == Len(c)
           q == SubSeq(p, 1, n + 1)
           e == Append(c, p[n + 1])
<1>1. n \in Nat /\ Len(p) \in Nat /\ n + 1 \in 1 .. Len(p) /\ p[n + 1] \in S
  BY LenProperties DEF Below
<1>2. q \in Seq(S) /\ Len(q) = n + 1 /\ \A i \in 1 .. n + 1 : q[i] = p[i]
  BY <1>1, SubSeqProperties
<1>3. e \in Seq(S) /\ Len(e) = n + 1 /\ e[n + 1] = p[n + 1] /\ \A i \in 1 .. n : e[i] = c[i]
  BY <1>1, AppendProperties
<1>4. \A i \in 1 .. n : c[i] = p[i]
  <2>1. c = SubSeq(p, 1, n)
    BY DEF Below
  <2>2. \A i \in 1 .. n : SubSeq(p, 1, n)[i] = p[i]
    BY <1>1, SubSeqProperties
  <2>3. QED BY <2>1, <2>2
<1> HIDE DEF n, q, e
<1>5. \A i \in 1 .. n + 1 : e[i] = q[i]
  BY <1>1, <1>2, <1>3, <1>4
<1>6. e = q
  BY <1>1, <1>2, <1>3, <1>5, SeqEqual
<1>7. p = e \/ Below(p, e)
  <2>1. CASE Len(p) = n + 1
    <3>1. \A i \in 1 .. n + 1 : e[i] = p[i]
      BY <1>2, <1>5
    <3>2. QED BY <1>3, <2>1, <3>1, SeqEqual
  <2>2. CASE Len(p) # n + 1
    <3>1. Len(e) < Len(p)
      BY <1>1, <1>3, <2>2
    <3>2. QED BY <1>3, <1>6, <3>1 DEF Below, q
  <2>3. QED BY <2>1, <2>2
<1>8. QED BY <1>1, <1>3, <1>6, <1>7 DEF n, q, e, Next1


\* The beginning of a beginning.
LEMMA UpUp ==
  ASSUME NEW S, NEW p \in Seq(S), NEW m \in 0 .. Len(p), NEW k \in 0 .. m
  PROVE  /\ SubSeq(p, 1, m) \in Seq(S) /\ Len(SubSeq(p, 1, m)) = m
         /\ SubSeq(SubSeq(p, 1, m), 1, k) = SubSeq(p, 1, k)
<1>1. /\ SubSeq(p, 1, m) \in Seq(S) /\ Len(SubSeq(p, 1, m)) = m
      /\ \A i \in 1 .. m : SubSeq(p, 1, m)[i] = p[i]
  <2>1. \A i \in 1 .. m : p[i] \in S
    BY LenProperties
  <2>2. QED BY <2>1, LenProperties, SubSeqProperties
<1>2. /\ SubSeq(p, 1, k) \in Seq(S) /\ Len(SubSeq(p, 1, k)) = k
      /\ \A i \in 1 .. k : SubSeq(p, 1, k)[i] = p[i]
  <2>1. \A i \in 1 .. k : p[i] \in S
    BY LenProperties
  <2>2. QED BY <2>1, LenProperties, SubSeqProperties
<1> DEFINE q == SubSeq(p, 1, m)
<1> HIDE DEF q
<1>3. /\ SubSeq(q, 1, k) \in Seq(S) /\ Len(SubSeq(q, 1, k)) = k
      /\ \A i \in 1 .. k : SubSeq(q, 1, k)[i] = q[i]
  <2>1. \A i \in 1 .. k : q[i] \in S
    BY <1>1, LenProperties DEF q
  <2>2. QED BY <2>1, LenProperties, SubSeqProperties
<1>4. \A i \in 1 .. k : SubSeq(q, 1, k)[i] = SubSeq(p, 1, k)[i]
  BY <1>1, <1>2, <1>3, LenProperties DEF q
<1>5. SubSeq(q, 1, k) = SubSeq(p, 1, k)
  BY <1>2, <1>3, <1>4, SeqEqual
<1>6. QED BY <1>1, <1>5 DEF q

\* Each path but the root has a category above it, which lists its last name.
LEMMA ParentIs ==
  ASSUME NEW p \in Tree, p # Root
  PROVE  /\ Len(p) \in Nat \ {0} /\ SubSeq(p, 1, Len(p) - 1) \in DOMAIN Listings
         /\ p[Len(p)] \in WantedNames(SubSeq(p, 1, Len(p) - 1))
<1>1. PICK q \in DOMAIN Listings : \E x \in Wanted(q) : p = Append(q, x.name)
  BY ServiceIsTree
<1>1a. PICK x \in Wanted(q) : p = Append(q, x.name)
  BY <1>1
<1>2. q \in Seq(STRING) /\ p \in Seq(STRING) /\ x.name \in STRING
  BY PathsAreTexts, WantedIs DEF Tree
<1>3. /\ Len(p) = Len(q) + 1 /\ Len(q) \in Nat /\ p[Len(p)] = x.name
      /\ \A i \in 1 .. Len(q) : p[i] = q[i]
  BY <1>1a, <1>2, AppendProperties, LenProperties
<1>4. /\ SubSeq(p, 1, Len(q)) \in Seq(STRING) /\ Len(SubSeq(p, 1, Len(q))) = Len(q)
      /\ \A i \in 1 .. Len(q) : SubSeq(p, 1, Len(q))[i] = p[i]
  <2>1. \A i \in 1 .. Len(q) : p[i] \in STRING
    BY <1>2, <1>3, LenProperties
  <2>2. QED BY <1>3, <2>1, SubSeqProperties
<1>5. SubSeq(p, 1, Len(q)) = q
  BY <1>2, <1>3, <1>4, SeqEqual
<1>6. Len(p) - 1 = Len(q)
  BY <1>3
<1>7. x.name \in WantedNames(q)
  BY DEF WantedNames
<1>8. SubSeq(p, 1, Len(p) - 1) = q
  BY <1>5, <1>6
<1>9. SubSeq(p, 1, Len(p) - 1) \in DOMAIN Listings
  BY <1>8
<1>10. p[Len(p)] \in WantedNames(SubSeq(p, 1, Len(p) - 1))
  BY <1>3, <1>7, <1>8
<1>11. QED BY <1>3, <1>9, <1>10

\* A path goes from the root through categories which list its names.
LEMMA PrefixInTree ==
  ASSUME NEW p \in Tree, NEW c \in Seq(STRING), Below(p, c)
  PROVE  c \in DOMAIN Listings /\ Next1(p, c) \in WantedNames(c)
<1> DEFINE top == Len(p)
           up(j) == SubSeq(p, 1, j)
           G == {j \in Nat : j < top => up(top - j) \in Tree}
<1>1. p \in Seq(STRING) /\ top \in Nat /\ Len(c) \in Nat /\ Len(c) < top
  BY PathsAreTexts, LenProperties DEF Below
<1>2. 0 \in G
  <2>1. up(top) = p
    <3>1. /\ up(top) \in Seq(STRING) /\ Len(up(top)) = top
          /\ \A i \in 1 .. top : up(top)[i] = p[i]
      <4>1. \A i \in 1 .. top : p[i] \in STRING
        BY PathsAreTexts
      <4>2. QED BY <1>1, <4>1, SubSeqProperties
    <3>2. QED BY <1>1, <3>1, SeqEqual
  <2>2. top - 0 = top
    BY <1>1
  <2> HIDE DEF up, top
  <2>3. up(top - 0) \in Tree
    BY <2>1, <2>2
  <2>4. QED BY <2>3
<1>3. ASSUME NEW m \in 1 .. top, up(m) \in Tree
      PROVE  up(m - 1) \in DOMAIN Listings /\ p[m] \in WantedNames(up(m - 1))
  <2>1. Len(up(m)) = m /\ SubSeq(up(m), 1, m - 1) = up(m - 1)
    BY <1>1, UpUp
  <2>2. up(m)[m] = p[m]
    <3>1. \A i \in 1 .. m : p[i] \in STRING
      BY <1>1, PathsAreTexts
    <3>2. QED BY <1>1, <3>1, SubSeqProperties
  <2>3. up(m) # Root
    BY <2>1 DEF Root
  <2> HIDE DEF up
  <2>4. QED BY <1>3, <2>1, <2>2, <2>3, ParentIs
<1>4. ASSUME NEW j \in Nat, j \in G PROVE j + 1 \in G
  <2> SUFFICES ASSUME j + 1 < top PROVE up(top - (j + 1)) \in Tree
    OBVIOUS
  <2>1. top - j \in 1 .. top /\ up(top - j) \in Tree /\ (top - j) - 1 = top - (j + 1)
    BY <1>1, <1>4
  <2>2. up((top - j) - 1) \in DOMAIN Listings
    BY <1>3, <2>1
  <2>3. QED BY <2>1, <2>2 DEF Tree
<1> HIDE DEF G
<1>5. Nat \subseteq G
  BY <1>2, <1>4, Listening!NatInduct
<1> DEFINE m == Len(c) + 1
<1>6. m \in 1 .. top /\ top - m \in Nat /\ top - m < top /\ top - (top - m) = m
  BY <1>1
<1>7. up(m) \in Tree
  <2> HIDE DEF up, top, m
  <2>1. QED BY <1>5, <1>6 DEF G
<1>8. up(m - 1) \in DOMAIN Listings /\ p[m] \in WantedNames(up(m - 1))
  BY <1>3, <1>6, <1>7
<1>9. m - 1 = Len(c) /\ up(Len(c)) = c
  BY <1>1 DEF Below
<1>10. QED BY <1>8, <1>9 DEF Next1


-----------------------------------------------------------------------------
(* Looking a path up *)

Seeking == INSTANCE FoldFacts WITH op <- Enter
FoundFrom(found, r) == FoldLeft(Enter, found, r)
FoundIn(m, r) == FoundFrom(<<Map(m)>>, r)

LEMMA FoundFromIsFold ==
  ASSUME NEW found, NEW r
  PROVE  FoundFrom(found, r) = Seeking!Fold(found, r)
<1> HIDE DEF Enter
<1>1. QED
  BY DEF FoundFrom, FoldLeft, MapThenFoldSet, Max,
         Seeking!Fold, Seeking!FoldLeft, Seeking!MapThenFoldSet, Seeking!Max

LEMMA FoundSteps ==
  ASSUME NEW S, NEW r \in Seq(S), NEW n \in S, NEW found
  PROVE  /\ FoundFrom(found, <<>>) = found
         /\ FoundFrom(found, <<n>> \o r) = FoundFrom(Enter(found, n), r)
<1> HIDE DEF Enter
<1>1. FoundFrom(found, <<>>) = found
  BY FoundFromIsFold, Seeking!FoldEmpty
<1>2. Seeking!Fold(found, Append(<<>>, n)) = Enter(Seeking!Fold(found, <<>>), n)
  BY EmptySeq, Seeking!FoldAppend
<1>3. <<n>> = Append(<<>>, n) /\ <<n>> \in Seq(S)
  OBVIOUS
<1>4. Seeking!Fold(found, <<n>> \o r) = Seeking!Fold(Seeking!Fold(found, <<n>>), r)
  BY <1>3, Seeking!FoldConcat
<1>5. QED BY <1>1, <1>2, <1>3, <1>4, FoundFromIsFold

LEMMA NothingBelowNothing ==
  ASSUME NEW S, NEW r \in Seq(S)
  PROVE  FoundFrom(<<>>, r) = <<>>
<1>1. \A t \in {<<>>}, x \in S : Enter(t, x) \in {<<>>}
  BY DEF Enter
<1>2. Seeking!Fold(<<>>, r) \in {<<>>}
  <2> HIDE DEF Enter
  <2>1. QED BY <1>1, Seeking!FoldKeeps
<1>3. QED BY <1>2, FoundFromIsFold

\* What is left of a path begins with its next name.
LEMMA RestIs ==
  ASSUME NEW S, NEW p \in Seq(S), NEW c \in Seq(S)
  PROVE  /\ Rest(c, c) = <<>>
         /\ Below(p, c) => /\ Rest(p, Append(c, Next1(p, c))) \in Seq(S)
                           /\ Rest(p, c) = <<Next1(p, c)>> \o Rest(p, Append(c, Next1(p, c)))
<1>1. Len(c) \in Nat /\ Len(p) \in Nat /\ \A i \in 1 .. Len(p) : p[i] \in S
  BY LenProperties
<1>2. Rest(c, c) = <<>>
  <2>1. Len(c) + 1 > Len(c)
    BY <1>1
  <2>2. SubSeq(c, Len(c) + 1, Len(c)) = <<>>
    BY <1>1, <2>1, SubSeqEmpty
  <2>3. QED BY <2>2 DEF Rest
<1>3. ASSUME Below(p, c)
      PROVE  /\ Rest(p, Append(c, Next1(p, c))) \in Seq(S)
             /\ Rest(p, c) = <<Next1(p, c)>> \o Rest(p, Append(c, Next1(p, c)))
  <2> DEFINE n == Len(c)
             k == Len(p)
             r == SubSeq(p, n + 1, k)
             t == SubSeq(p, n + 2, k)
  <2>1. n + 1 \in 1 .. k /\ Len(Append(c, Next1(p, c))) = n + 1
    BY <1>3, BelowIs
  <2>2. /\ r \in Seq(S) /\ Len(r) = k - n /\ \A i \in 1 .. k - n : r[i] = p[n + i]
    <3>1. \A i \in n + 1 .. k : p[i] \in S
      BY <1>1
    <3>2. /\ r \in Seq(S) /\ Len(r) = k - (n + 1) + 1
          /\ \A i \in 1 .. k - (n + 1) + 1 : r[i] = p[(n + 1) + i - 1]
      BY <1>1, <2>1, <3>1, SubSeqProperties
    <3>3. QED BY <1>1, <3>2
  <2>3. /\ t \in Seq(S) /\ Len(t) = k - n - 1 /\ \A i \in 1 .. k - n - 1 : t[i] = p[n + 1 + i]
    <3>1. \A i \in n + 2 .. k : p[i] \in S
      BY <1>1
    <3>2. /\ t \in Seq(S) /\ Len(t) = IF n + 2 <= k THEN k - (n + 2) + 1 ELSE 0
          /\ \A i \in 1 .. k - (n + 2) + 1 : t[i] = p[(n + 2) + i - 1]
      BY <1>1, <2>1, <3>1, SubSeqProperties
    <3>3. QED BY <1>1, <2>1, <3>2
  <2>4. p[n + 1] \in S /\ <<p[n + 1]>> \in Seq(S) /\ Len(<<p[n + 1]>>) = 1 /\ <<p[n + 1]>>[1] = p[n + 1]
    BY <1>1, <2>1
  <2> DEFINE j == <<p[n + 1]>> \o t
             h == <<p[n + 1]>>
  <2> HIDE DEF r, t, h
  <2>5. /\ j \in Seq(S) /\ Len(j) = k - n
        /\ \A i \in 1 .. k - n : j[i] = IF i <= 1 THEN h[i] ELSE t[i - 1]
    <3>1. h \in Seq(S) /\ Len(h) = 1
      BY <2>4 DEF h
    <3>2. /\ h \o t \in Seq(S) /\ Len(h \o t) = 1 + Len(t)
          /\ \A i \in 1 .. 1 + Len(t) : (h \o t)[i] = IF i <= 1 THEN h[i] ELSE t[i - 1]
      <4>1. /\ h \o t \in Seq(S) /\ Len(h \o t) = Len(h) + Len(t)
            /\ \A i \in 1 .. Len(h) + Len(t) :
                   (h \o t)[i] = IF i <= Len(h) THEN h[i] ELSE t[i - Len(h)]
        BY <2>3, <3>1, ConcatProperties
      <4>2. QED BY <3>1, <4>1
    <3>3. 1 + Len(t) = k - n
      BY <1>1, <2>1, <2>3
    <3>4. QED BY <3>2, <3>3 DEF h
  <2>6. \A i \in 1 .. k - n : r[i] = j[i]
    <3> SUFFICES ASSUME NEW i \in 1 .. k - n PROVE r[i] = j[i]
      OBVIOUS
    <3>1. CASE i <= 1
      <4>1. i = 1
        BY <1>1, <2>1, <3>1
      <4>2. QED BY <2>2, <2>4, <2>5, <4>1 DEF h
    <3>2. CASE ~(i <= 1)
      <4>1. i - 1 \in 1 .. k - n - 1 /\ n + 1 + (i - 1) = n + i
        BY <1>1, <2>1, <3>2
      <4>2. t[i - 1] = p[n + i]
        BY <2>3, <4>1
      <4>3. QED BY <2>2, <2>5, <3>2, <4>2
    <3>3. QED BY <3>1, <3>2
  <2> HIDE DEF j
  <2>7. r = j
    BY <2>2, <2>5, <2>6, SeqEqual
  <2>8. Rest(p, Append(c, Next1(p, c))) = t
    BY <1>1, <2>1 DEF Rest, t
  <2>9. Rest(p, c) = r
    BY DEF Rest, r
  <2>10. QED BY <2>3, <2>7, <2>8, <2>9 DEF j, Next1
<1>4. QED BY <1>2, <1>3

\* A path below a category is looked up in its map by the next name.
LEMMA FoundBelow ==
  ASSUME NEW p \in Seq(STRING), NEW c \in Seq(STRING), Below(p, c), NEW m
  PROVE  LET n == Next1(p, c)
         IN  FoundIn(m, Rest(p, c)) = IF n \in DOMAIN m THEN FoundFrom(<<m[n]>>, Rest(p, Append(c, n)))
                                      ELSE <<>>
<1> DEFINE n == Next1(p, c)
           r == Rest(p, Append(c, n))
<1>1. n \in STRING /\ r \in Seq(STRING) /\ Rest(p, c) = <<n>> \o r
  BY BelowIs, RestIs
<1> HIDE DEF n, r
<1>2. FoundIn(m, Rest(p, c)) = FoundFrom(Enter(<<Map(m)>>, n), r)
  BY <1>1, FoundSteps DEF FoundIn
<1>3. Enter(<<Map(m)>>, n) = IF n \in DOMAIN m THEN <<m[n]>> ELSE <<>>
  BY DEF Enter, Map
<1>4. FoundFrom(<<>>, r) = <<>>
  BY <1>1, NothingBelowNothing
<1>5. FoundIn(m, Rest(p, c)) = IF n \in DOMAIN m THEN FoundFrom(<<m[n]>>, r) ELSE <<>>
  BY <1>2, <1>3, <1>4
<1>6. QED BY <1>5 DEF n, r


-----------------------------------------------------------------------------
(* A category that is walked *)

\* What a path has to lead to when some paths were refused.
PathRight(gone, found, p) ==
    /\ p \in DOMAIN Listings =>
           (found # <<>> => DOMAIN found[1].map = IF p \in gone THEN {} ELSE NamesServed(p, gone))
    /\ p \in DOMAIN Texts =>
           found = IF Reached(p, gone) /\ p \notin gone THEN <<[text |-> Texts[p]]>> ELSE <<>>
\* The names a map has when some names of its category are done.
NamesIn(c, done, gone) ==
    {l.name : l \in {x \in Wanted(c) : /\ x.name \in done
                                       /\ x.category \/ Append(c, x.name) \notin gone}}
\* The map of a category, of which some names are done.
FrameRight(gone, c, m, done) ==
    /\ DOMAIN m = IF c \in gone THEN {} ELSE NamesIn(c, done, gone)
    /\ \A p \in Tree : Below(p, c) /\ Next1(p, c) \in done => PathRight(gone, FoundIn(m, Rest(p, c)), p)

\* A path that is not one of those below the names that are done.
Elsewhere(q, c, done) == q \notin Tree \/ (q \in Tree /\ Below(q, c) /\ Next1(q, c) \notin done)

LEMMA NotOnTheWay ==
  ASSUME NEW c \in DOMAIN Listings, NEW done, NEW q, Elsewhere(q, c, done),
         NEW p \in Tree, Below(p, c), Next1(p, c) \in done
  PROVE  p # q /\ \A n \in 0 .. Len(p) - 1 : SubSeq(p, 1, n) # q
<1>1. p # q
  BY DEF Elsewhere
<1>2. ASSUME NEW n \in 0 .. Len(p) - 1, SubSeq(p, 1, n) = q PROVE FALSE
  <2>1. p \in Seq(STRING) /\ Len(p) \in Nat /\ n \in 0 .. Len(p)
    BY PathsAreTexts
  <2>2. Len(q) = n /\ q \in Seq(STRING)
    BY <1>2, <2>1, UpUp
  <2>3. Below(p, q)
    BY <1>2, <2>1, <2>2 DEF Below
  <2>4. q \in Tree
    BY <2>2, <2>3, PrefixInTree DEF Tree
  <2>5. Below(q, c) /\ Next1(q, c) \notin done
    BY <2>4 DEF Elsewhere
  <2>6. Len(c) \in Nat /\ Len(c) + 1 \in 1 .. n
    BY <2>2, <2>5, PathsAreTexts DEF Below, Tree
  <2>7. q[Len(c) + 1] = p[Len(c) + 1]
    <3>1. \A i \in 1 .. n : p[i] \in STRING
      BY <2>1, PathsAreTexts
    <3>2. \A i \in 1 .. n : SubSeq(p, 1, n)[i] = p[i]
      BY <2>1, <3>1, SubSeqProperties
    <3>3. QED BY <1>2, <2>6, <3>2
  <2>8. QED BY <2>5, <2>7 DEF Next1
<1>3. QED BY <1>1, <1>2

\* Lines of a category stand for paths of the tree right below it.
LEMMA ChildIs ==
  ASSUME NEW c \in DOMAIN Listings, NEW x \in Wanted(c)
  PROVE  LET q == Append(c, x.name)
         IN  q \in Tree /\ Below(q, c) /\ Next1(q, c) = x.name /\ Len(q) = Len(c) + 1
<1> DEFINE q == Append(c, x.name)
<1>1. c \in Seq(STRING) /\ x.name \in STRING /\ q \in Tree
  BY PathsAreTexts, WantedIs DEF Tree
<1>2. /\ q \in Seq(STRING) /\ Len(q) = Len(c) + 1 /\ q[Len(c) + 1] = x.name /\ Len(c) \in Nat
      /\ \A i \in 1 .. Len(c) : q[i] = c[i]
  BY <1>1, AppendProperties, LenProperties
<1>3. /\ SubSeq(q, 1, Len(c)) \in Seq(STRING) /\ Len(SubSeq(q, 1, Len(c))) = Len(c)
      /\ \A i \in 1 .. Len(c) : SubSeq(q, 1, Len(c))[i] = q[i]
  <2>1. \A i \in 1 .. Len(c) : q[i] \in STRING
    BY <1>2, LenProperties
  <2>2. QED BY <1>2, <2>1, SubSeqProperties
<1> HIDE DEF q
<1>4. SubSeq(q, 1, Len(c)) = c
  BY <1>1, <1>2, <1>3, SeqEqual
<1>5. q \in Tree /\ Below(q, c) /\ Next1(q, c) = x.name /\ Len(q) = Len(c) + 1
  BY <1>1, <1>2, <1>4 DEF Below, Next1
<1>6. QED BY <1>5 DEF q

\* What is below something below a category is below it, with the same next name.
LEMMA BelowBelow ==
  ASSUME NEW S, NEW e \in Seq(S), NEW p \in Seq(S), NEW c \in Seq(S), Below(e, p), Below(p, c)
  PROVE  Below(e, c) /\ Next1(e, c) = Next1(p, c)
<1>1. /\ Len(e) \in Nat /\ Len(p) \in Nat /\ Len(c) \in Nat /\ Len(c) < Len(p) /\ Len(p) < Len(e)
      /\ p = SubSeq(e, 1, Len(p)) /\ c = SubSeq(p, 1, Len(c))
  BY LenProperties DEF Below
<1>2. SubSeq(SubSeq(e, 1, Len(p)), 1, Len(c)) = SubSeq(e, 1, Len(c))
  BY <1>1, UpUp
<1>3. SubSeq(e, 1, Len(c)) = c
  BY <1>1, <1>2
<1>4. e[Len(c) + 1] = p[Len(c) + 1]
  <2>1. \A i \in 1 .. Len(p) : e[i] \in S
    BY <1>1, LenProperties
  <2>2. \A i \in 1 .. Len(p) : SubSeq(e, 1, Len(p))[i] = e[i]
    BY <1>1, <2>1, SubSeqProperties
  <2>3. QED BY <1>1, <2>2
<1>5. QED BY <1>1, <1>3, <1>4 DEF Below, Next1

\* What else is refused makes no difference.
LEMMA OtherRefused ==
  ASSUME NEW c \in DOMAIN Listings, NEW m, NEW done, NEW gone, NEW now, NEW q,
         FrameRight(gone, c, m, done), Elsewhere(q, c, done),
         \A p : p # q => (p \in now <=> p \in gone)
  PROVE  FrameRight(now, c, m, done)
<1>1. c # q
  <2>1. Len(c) \in Nat /\ c \in Tree
    BY PathsAreTexts DEF Tree
  <2>2. QED BY <2>1 DEF Elsewhere, Below
<1>2. c \in now <=> c \in gone
  BY <1>1
<1>3. \A x \in Wanted(c) : x.name \in done => Append(c, x.name) # q
  BY ChildIs DEF Elsewhere
<1>4. NamesIn(c, done, now) = NamesIn(c, done, gone)
  BY <1>3 DEF NamesIn
<1>5. ASSUME NEW p \in Tree, Below(p, c), Next1(p, c) \in done
      PROVE  PathRight(now, FoundIn(m, Rest(p, c)), p)
  <2>1. p # q /\ \A n \in 0 .. Len(p) - 1 : SubSeq(p, 1, n) # q
    BY <1>5, NotOnTheWay
  <2>2. PathRight(gone, FoundIn(m, Rest(p, c)), p)
    BY <1>5 DEF FrameRight
  <2>3. p \in now <=> p \in gone
    BY <2>1
  <2>4. Reached(p, now) <=> Reached(p, gone)
    BY <2>1 DEF Reached
  <2>5. ASSUME p \in DOMAIN Listings PROVE NamesServed(p, now) = NamesServed(p, gone)
    <3>1. ASSUME NEW x \in Wanted(p) PROVE Append(p, x.name) # q
      <4> DEFINE e == Append(p, x.name)
      <4>1. e \in Tree /\ Below(e, p)
        BY <2>5, ChildIs
      <4>2. e \in Seq(STRING) /\ p \in Seq(STRING) /\ c \in Seq(STRING)
        BY <4>1, PathsAreTexts DEF Tree
      <4> HIDE DEF e
      <4>3. Below(e, c) /\ Next1(e, c) \in done
        BY <1>5, <4>1, <4>2, BelowBelow
      <4>4. e # q
        BY <4>1, <4>3, NotOnTheWay
      <4>5. QED BY <4>4 DEF e
    <3>2. \A x \in Wanted(p) : Append(p, x.name) \in now <=> Append(p, x.name) \in gone
      BY <3>1
    <3>3. QED BY <3>2 DEF NamesServed
  <2> DEFINE found == FoundIn(m, Rest(p, c))
  <2> HIDE DEF found
  <2>6. PathRight(gone, found, p)
    BY <2>2 DEF found
  <2>7. PathRight(now, found, p)
    BY <2>3, <2>4, <2>5, <2>6 DEF PathRight
  <2>8. QED BY <2>7 DEF found
<1>6. DOMAIN m = IF c \in now THEN {} ELSE NamesIn(c, done, now)
  BY <1>2, <1>4 DEF FrameRight
<1>7. QED BY <1>5, <1>6 DEF FrameRight


\* Nothing is done at first.
LEMMA FreshRight ==
  ASSUME NEW c, NEW gone
  PROVE  FrameRight(gone, c, EmptyMap, {})
<1>1. DOMAIN EmptyMap = {} /\ NamesIn(c, {}, gone) = {}
  BY DEF EmptyMap, NamesIn
<1>2. QED BY <1>1 DEF FrameRight

\* A category that is refused is empty.
LEMMA RefusedRight ==
  ASSUME NEW c \in DOMAIN Listings, NEW gone, c \in gone, NEW done
  PROVE  FrameRight(gone, c, EmptyMap, done)
<1>1. DOMAIN EmptyMap = {}
  BY DEF EmptyMap
<1>2. ASSUME NEW p \in Tree, Below(p, c) PROVE PathRight(gone, FoundIn(EmptyMap, Rest(p, c)), p)
  <2>1. p \in Seq(STRING) /\ c \in Seq(STRING) /\ Len(p) \in Nat /\ Len(c) \in Nat
    BY PathsAreTexts DEF Tree
  <2>2. FoundIn(EmptyMap, Rest(p, c)) = <<>>
    BY <1>1, <1>2, <2>1, FoundBelow
  <2>3. Len(c) \in 0 .. Len(p) - 1 /\ SubSeq(p, 1, Len(c)) \in gone
    <3>1. Len(c) < Len(p) /\ SubSeq(p, 1, Len(c)) = c
      BY <1>2 DEF Below
    <3>2. Len(c) \in 0 .. Len(p) - 1
      BY <2>1, <3>1
    <3>3. QED BY <3>1, <3>2
  <2>4. ~Reached(p, gone)
    BY <2>3 DEF Reached
  <2>5. QED BY <2>2, <2>4 DEF PathRight
<1>3. QED BY <1>1, <1>2 DEF FrameRight

\* A member that a name is added for, or not: the other names lead where they did.
LEMMA OthersStay ==
  ASSUME NEW c \in Seq(STRING), NEW m, NEW name, NEW v, name \notin DOMAIN m,
         NEW p \in Seq(STRING), Below(p, c), Next1(p, c) # name
  PROVE  FoundIn(AddToMap(m, name, v), Rest(p, c)) = FoundIn(m, Rest(p, c))
<1> DEFINE n == Next1(p, c)
           k == AddToMap(m, name, v)
<1>1. n \in DOMAIN k <=> n \in DOMAIN m
  BY DEF AddToMap
<1>2. n \in DOMAIN m => k[n] = m[n]
  BY DEF AddToMap
<1> HIDE DEF k
<1>3. FoundIn(k, Rest(p, c)) = IF n \in DOMAIN k THEN FoundFrom(<<k[n]>>, Rest(p, Append(c, n))) ELSE <<>>
  BY FoundBelow
<1>4. FoundIn(m, Rest(p, c)) = IF n \in DOMAIN m THEN FoundFrom(<<m[n]>>, Rest(p, Append(c, n))) ELSE <<>>
  BY FoundBelow
<1>5. FoundIn(k, Rest(p, c)) = FoundIn(m, Rest(p, c))
  BY <1>1, <1>2, <1>3, <1>4
<1>6. QED BY <1>5 DEF k

\* The name of a line joins the names of a map unless the line is a value that is refused.
LEMMA NameDone ==
  ASSUME NEW c \in DOMAIN Listings, NEW x \in Wanted(c), NEW done, NEW gone
  PROVE  NamesIn(c, done \cup {x.name}, gone) =
             NamesIn(c, done, gone) \cup
                 (IF x.category \/ Append(c, x.name) \notin gone THEN {x.name} ELSE {})
<1>1. \A y \in Wanted(c) : y.name = x.name => y = x
  BY WantedIs
<1> DEFINE served(y) == y.category \/ Append(c, y.name) \notin gone
           old == {y \in Wanted(c) : y.name \in done /\ served(y)}
           new == {y \in Wanted(c) : y.name \in done \cup {x.name} /\ served(y)}
<1>2. new = old \cup (IF served(x) THEN {x} ELSE {})
  BY <1>1
<1> HIDE DEF old, new
<1>3. {l.name : l \in new} = {l.name : l \in old} \cup (IF served(x) THEN {x.name} ELSE {})
  <2> HIDE DEF served
  <2>1. QED BY <1>2
<1>4. NamesIn(c, done, gone) = {l.name : l \in old}
  BY DEF NamesIn, old
<1>5. NamesIn(c, done \cup {x.name}, gone) = {l.name : l \in new}
  BY DEF NamesIn, new
<1>6. QED BY <1>3, <1>4, <1>5

\* A value is added when it was served.
LEMMA ValueRight ==
  ASSUME NEW c \in DOMAIN Listings, NEW x \in Wanted(c), NEW done, NEW gone, NEW m, NEW k,
         FrameRight(gone, c, m, done), x.name \notin done,
         Append(c, x.name) \in DOMAIN Texts,
         \A n \in 0 .. Len(c) : SubSeq(c, 1, n) \notin gone,
         k = IF Append(c, x.name) \in gone THEN m
             ELSE AddToMap(m, x.name, [text |-> Texts[Append(c, x.name)]])
  PROVE  FrameRight(gone, c, k, done \cup {x.name})
<1> DEFINE q == Append(c, x.name)
           v == [text |-> Texts[q]]
<1>1. /\ c \in Seq(STRING) /\ q \in Seq(STRING) /\ Len(c) \in Nat /\ q \in Tree /\ Below(q, c)
      /\ Next1(q, c) = x.name /\ Len(q) = Len(c) + 1 /\ q \notin DOMAIN Listings
  BY PathsAreTexts, ChildIs, ServiceIsTree DEF Tree
<1>2. c \notin gone
  <2>1. Below(q, c) /\ SubSeq(q, 1, Len(c)) = c
    BY <1>1 DEF Below
  <2>2. Len(c) \in 0 .. Len(c) /\ SubSeq(SubSeq(q, 1, Len(c)), 1, Len(c)) = SubSeq(q, 1, Len(c))
    BY <1>1, UpUp
  <2>3. QED BY <2>1, <2>2
<1>3. DOMAIN m = NamesIn(c, done, gone) /\ x.name \notin DOMAIN m
  <2>1. DOMAIN m = NamesIn(c, done, gone)
    BY <1>2 DEF FrameRight
  <2>2. QED BY <2>1 DEF NamesIn
<1>4. ~x.category
  BY <1>1, WantedIs
<1>5. DOMAIN k = NamesIn(c, done \cup {x.name}, gone)
  <2>1. DOMAIN AddToMap(m, x.name, v) = DOMAIN m \cup {x.name}
    BY DEF AddToMap
  <2>2. NamesIn(c, done \cup {x.name}, gone) =
            NamesIn(c, done, gone) \cup (IF x.category \/ q \notin gone THEN {x.name} ELSE {})
    BY NameDone
  <2> HIDE DEF q, v
  <2>3. CASE q \in gone
    <3>1. k = m
      BY <2>3 DEF q
    <3>2. QED BY <1>3, <1>4, <2>2, <2>3, <3>1
  <2>4. CASE q \notin gone
    <3>1. k = AddToMap(m, x.name, v)
      BY <2>4 DEF q, v
    <3>2. QED BY <1>3, <1>4, <2>1, <2>2, <2>4, <3>1
  <2>5. QED BY <2>3, <2>4
<1>6. ASSUME NEW p \in Tree, Below(p, c), Next1(p, c) \in done \cup {x.name}
      PROVE  PathRight(gone, FoundIn(k, Rest(p, c)), p)
  <2>1. p \in Seq(STRING)
    BY PathsAreTexts
  <2>2. CASE Next1(p, c) # x.name
    <3>1. PathRight(gone, FoundIn(m, Rest(p, c)), p)
      BY <1>6, <2>2 DEF FrameRight
    <3>2. FoundIn(k, Rest(p, c)) = FoundIn(m, Rest(p, c))
      BY <1>1, <1>3, <1>6, <2>1, <2>2, OthersStay
    <3>3. QED BY <3>1, <3>2
  <2>3. CASE Next1(p, c) = x.name
    <3>1. p = q
      <4>1. p = q \/ Below(p, q)
        BY <1>1, <1>6, <2>1, <2>3, BelowIs
      <4>2. ~Below(p, q)
        BY <1>1, PrefixInTree
      <4>3. QED BY <4>1, <4>2
    <3>2. Reached(q, gone)
      <4> SUFFICES ASSUME NEW n \in 0 .. Len(q) - 1 PROVE SubSeq(q, 1, n) \notin gone
        BY DEF Reached
      <4>1. n \in 0 .. Len(c)
        BY <1>1
      <4>2. SubSeq(SubSeq(q, 1, Len(c)), 1, n) = SubSeq(q, 1, n)
        BY <1>1, <4>1, UpUp
      <4>3. SubSeq(q, 1, Len(c)) = c
        BY <1>1 DEF Below
      <4>4. QED BY <4>1, <4>2, <4>3
    <3>3. FoundIn(k, Rest(q, c)) = IF q \in gone THEN <<>> ELSE <<v>>
      <4> DEFINE r == Rest(q, q)
      <4>1. r = <<>> /\ FoundFrom(<<v>>, r) = <<v>>
        <5>1. r = <<>>
          BY <1>1, RestIs
        <5>2. FoundFrom(<<v>>, <<>>) = <<v>>
          <6> HIDE DEF v, Enter
          <6>1. QED BY FoundFromIsFold, Seeking!FoldEmpty
        <5>3. QED BY <5>1, <5>2
      <4>2. FoundIn(k, Rest(q, c)) =
                IF x.name \in DOMAIN k THEN FoundFrom(<<k[x.name]>>, r) ELSE <<>>
        BY <1>1, FoundBelow
      <4>3. CASE q \in gone
        BY <1>3, <4>2, <4>3
      <4>4. CASE q \notin gone
        <5>1. x.name \in DOMAIN k /\ k[x.name] = v
          BY <1>3, <4>4 DEF AddToMap
        <5>2. QED BY <4>1, <4>2, <4>4, <5>1
      <4>5. QED BY <4>3, <4>4
    <3> HIDE DEF q
    <3>4. PathRight(gone, FoundIn(k, Rest(q, c)), q)
      BY <1>1, <3>2, <3>3 DEF PathRight
    <3>5. QED BY <3>1, <3>4
  <2>4. QED BY <2>2, <2>3
<1>7. QED BY <1>2, <1>5, <1>6 DEF FrameRight


\* A category that has ended is added to the one it is part of.
LEMMA CategoryRight ==
  ASSUME NEW c \in DOMAIN Listings, NEW x \in Wanted(c), NEW done, NEW gone, NEW m, NEW inner,
         FrameRight(gone, c, m, done), x.name \notin done, c \notin gone,
         Append(c, x.name) \in DOMAIN Listings,
         FrameRight(gone, Append(c, x.name), inner, WantedNames(Append(c, x.name)))
  PROVE  FrameRight(gone, c, AddToMap(m, x.name, Map(inner)), done \cup {x.name})
<1> DEFINE q == Append(c, x.name)
           k == AddToMap(m, x.name, Map(inner))
<1>1. /\ c \in Seq(STRING) /\ q \in Seq(STRING) /\ q \in Tree /\ Below(q, c)
      /\ Next1(q, c) = x.name /\ q \notin DOMAIN Texts /\ q \in DOMAIN Listings
  BY PathsAreTexts, ChildIs, ServiceIsTree DEF Tree
<1>2. DOMAIN m = NamesIn(c, done, gone) /\ x.name \notin DOMAIN m
  <2>1. DOMAIN m = NamesIn(c, done, gone)
    BY DEF FrameRight
  <2>2. QED BY <2>1 DEF NamesIn
<1>3. x.category
  BY <1>1, WantedIs
<1>4. DOMAIN k = NamesIn(c, done \cup {x.name}, gone) /\ x.name \in DOMAIN k /\ k[x.name] = Map(inner)
  <2>1. DOMAIN k = DOMAIN m \cup {x.name} /\ k[x.name] = Map(inner)
    BY <1>2 DEF AddToMap
  <2>2. NamesIn(c, done \cup {x.name}, gone) = NamesIn(c, done, gone) \cup {x.name}
    BY <1>3, NameDone
  <2>3. QED BY <1>2, <2>1, <2>2
<1>5. ASSUME NEW p \in Tree, Below(p, c), Next1(p, c) \in done \cup {x.name}
      PROVE  PathRight(gone, FoundIn(k, Rest(p, c)), p)
  <2>1. p \in Seq(STRING)
    BY PathsAreTexts
  <2>2. CASE Next1(p, c) # x.name
    <3>1. PathRight(gone, FoundIn(m, Rest(p, c)), p)
      BY <1>5, <2>2 DEF FrameRight
    <3>2. FoundIn(k, Rest(p, c)) = FoundIn(m, Rest(p, c))
      BY <1>1, <1>2, <1>5, <2>1, <2>2, OthersStay
    <3>3. QED BY <3>1, <3>2
  <2>3. CASE Next1(p, c) = x.name
    <3>1. FoundIn(k, Rest(p, c)) = FoundIn(inner, Rest(p, q))
      <4>1. FoundIn(k, Rest(p, c)) =
                IF x.name \in DOMAIN k THEN FoundFrom(<<k[x.name]>>, Rest(p, q)) ELSE <<>>
        BY <1>1, <1>5, <2>1, <2>3, FoundBelow
      <4>2. QED BY <1>4, <4>1 DEF FoundIn
    <3>2. p = q \/ Below(p, q)
      BY <1>1, <1>5, <2>1, <2>3, BelowIs
    <3> HIDE DEF q, k
    <3>3. CASE p = q
      <4>1. FoundIn(inner, Rest(q, q)) = <<Map(inner)>>
        <5>1. Rest(q, q) = <<>>
          BY <1>1, RestIs
        <5>2. FoundFrom(<<Map(inner)>>, <<>>) = <<Map(inner)>>
          <6> HIDE DEF Enter
          <6>1. QED BY FoundFromIsFold, Seeking!FoldEmpty
        <5>3. QED BY <5>1, <5>2 DEF FoundIn
      <4>2. DOMAIN inner = IF q \in gone THEN {} ELSE NamesIn(q, WantedNames(q), gone)
        BY DEF FrameRight, q
      <4>3. NamesIn(q, WantedNames(q), gone) = NamesServed(q, gone)
        BY DEF NamesIn, WantedNames, NamesServed
      <4>4. Map(inner).map = inner /\ <<Map(inner)>>[1] = Map(inner)
        BY DEF Map
      <4>5. QED BY <1>1, <3>1, <3>3, <4>1, <4>2, <4>3, <4>4 DEF PathRight
    <3>4. CASE Below(p, q)
      <4>1. Next1(p, q) \in WantedNames(q)
        BY <1>1, <3>4, PrefixInTree
      <4>2. PathRight(gone, FoundIn(inner, Rest(p, q)), p)
        BY <3>4, <4>1 DEF FrameRight, q
      <4>3. QED BY <3>1, <4>2
    <3>5. QED BY <3>2, <3>3, <3>4
  <2>4. QED BY <2>2, <2>3
<1>6. QED BY <1>4, <1>5 DEF FrameRight

\* When all names of the root are done, all paths are right.
LEMMA RootRight ==
  ASSUME NEW gone, NEW m, FrameRight(gone, Root, m, WantedNames(Root)), NEW p \in Tree
  PROVE  PathRight(gone, FoundIn(m, p), p)
<1>1. p \in Seq(STRING) /\ Len(p) \in Nat /\ Root \in DOMAIN Listings /\ Len(Root) = 0
      /\ Root \in Seq(STRING) /\ Root \notin DOMAIN Texts
  BY PathsAreTexts, ServiceIsTree, EmptySeq DEF Root
<1>2. CASE p = Root
  <2>1. FoundIn(m, p) = <<Map(m)>>
    <3>1. FoundFrom(<<Map(m)>>, <<>>) = <<Map(m)>>
      <4> HIDE DEF Enter
      <4>1. QED BY FoundFromIsFold, Seeking!FoldEmpty
    <3>2. QED BY <1>2, <3>1 DEF FoundIn, Root
  <2>2. DOMAIN m = IF Root \in gone THEN {} ELSE NamesIn(Root, WantedNames(Root), gone)
    BY DEF FrameRight
  <2>3. NamesIn(Root, WantedNames(Root), gone) = NamesServed(Root, gone)
    BY DEF NamesIn, WantedNames, NamesServed
  <2>4. Map(m).map = m /\ <<Map(m)>>[1] = Map(m)
    BY DEF Map
  <2>5. QED BY <1>1, <1>2, <2>1, <2>2, <2>3, <2>4 DEF PathRight
<1>3. CASE p # Root
  <2>1. Len(p) > 0
    BY <1>1, <1>3, EmptySeq DEF Root
  <2>2. SubSeq(p, 1, Len(Root)) = Root
    BY <1>1, SubSeqEmpty DEF Root
  <2>3. Below(p, Root)
    BY <1>1, <2>1, <2>2 DEF Below
  <2>4. Next1(p, Root) \in WantedNames(Root)
    BY <1>1, <2>3, PrefixInTree
  <2>5. PathRight(gone, FoundIn(m, Rest(p, Root)), p)
    BY <2>3, <2>4 DEF FrameRight
  <2>6. Rest(p, Root) = p
    <3>1. \A i \in 1 .. Len(p) : p[i] \in STRING
      BY PathsAreTexts
    <3>2. /\ SubSeq(p, 1, Len(p)) \in Seq(STRING) /\ Len(SubSeq(p, 1, Len(p))) = Len(p)
          /\ \A i \in 1 .. Len(p) : SubSeq(p, 1, Len(p))[i] = p[i]
      BY <1>1, <2>1, <3>1, SubSeqProperties
    <3>3. SubSeq(p, 1, Len(p)) = p
      BY <1>1, <3>2, SeqEqual
    <3>4. Len(Root) + 1 = 1
      BY <1>1
    <3>5. QED BY <3>3, <3>4 DEF Rest
  <2>7. QED BY <2>5, <2>6
<1>4. QED BY <1>2, <1>3


-----------------------------------------------------------------------------
(* The calls of query_metadata in progress *)

NamesLeft(f) == {l.name : l \in ToSet(f.lines) \cap Wanted(f.path)}
\* The names of a category that are done when the walk is at a path: neither are they still
\* to come nor are they on the way to that path.
DoneNames(f, trail) ==
    (WantedNames(f.path) \ NamesLeft(f))
        \ (IF Len(f.path) < Len(trail) THEN {Next1(trail, f.path)} ELSE {})
NoTwins(lines, c) ==
    \A i, j \in DOMAIN lines :
        {lines[i], lines[j]} \subseteq Wanted(c) /\ lines[i].name = lines[j].name => i = j
LinesRight(lines, c) ==
    lines \in Seq(Lines) /\ ToSet(lines) \subseteq ToSet(Listings[c]) /\ NoTwins(lines, c)
CallRight(f, trail, gone) ==
    /\ DOMAIN f = {"path", "lines", "map"} /\ f.path \in DOMAIN Listings
    /\ LinesRight(f.lines, f.path)
    /\ FrameRight(gone, f.path, f.map, DoneNames(f, trail))
    /\ f.path = trail \/ (Below(trail, f.path) /\ Next1(trail, f.path) \notin NamesLeft(f))
    /\ f.path \in gone => f.path = trail /\ f.lines = <<>>
CallsRight(fs, trail, gone) ==
    /\ trail \in Tree /\ \E S : fs \in Seq(S)
    /\ \A i \in 1 .. Len(fs) : CallRight(fs[i], trail, gone) /\ Len(fs[i].path) = i - 1

\* The lines that are left when the first one is taken.
LEMMA TailRight ==
  ASSUME NEW c \in DOMAIN Listings, NEW lines, LinesRight(lines, c), lines # <<>>
  PROVE  /\ LinesRight(Tail(lines), c) /\ Head(lines) \in ToSet(Listings[c])
         /\ ToSet(lines) = ToSet(Tail(lines)) \cup {Head(lines)}
         /\ Head(lines) \in Wanted(c) =>
                \A l \in ToSet(Tail(lines)) \cap Wanted(c) : l.name # Head(lines).name
<1> DEFINE k == Len(lines)
           t == Tail(lines)
<1>1. /\ lines \in Seq(Lines) /\ k \in Nat /\ k > 0 /\ DOMAIN lines = 1 .. k
      /\ t \in Seq(Lines) /\ Len(t) = k - 1 /\ DOMAIN t = 1 .. k - 1
      /\ Head(lines) = lines[1] /\ \A i \in 1 .. k - 1 : t[i] = lines[i + 1]
  <2>1. lines \in Seq(Lines) /\ k \in Nat /\ DOMAIN lines = 1 .. k
    BY LenProperties DEF LinesRight
  <2>2. k > 0
    BY <2>1, EmptySeq
  <2>3. /\ t \in Seq(Lines) /\ Len(t) = k - 1 /\ \A i \in 1 .. Len(t) : t[i] = lines[i + 1]
        /\ Head(lines) = lines[1]
    BY <2>1, HeadTailProperties
  <2>4. DOMAIN t = 1 .. k - 1
    BY <2>3, LenProperties
  <2>5. QED BY <2>1, <2>2, <2>3, <2>4
<1> HIDE DEF k, t
<1>2. \A i \in 1 .. k - 1 : i + 1 \in 1 .. k /\ i + 1 # 1
  BY <1>1
<1>3. ToSet(lines) = ToSet(t) \cup {Head(lines)}
  <2>1. ASSUME NEW l \in ToSet(lines) PROVE l \in ToSet(t) \cup {Head(lines)}
    <3>1. PICK i \in 1 .. k : l = lines[i]
      BY <1>1 DEF ToSet
    <3>2. CASE i = 1
      BY <1>1, <3>1, <3>2
    <3>3. CASE i # 1
      <4>1. i - 1 \in 1 .. k - 1 /\ (i - 1) + 1 = i
        BY <1>1, <3>3
      <4>2. t[i - 1] = l
        BY <1>1, <3>1, <4>1
      <4>3. QED BY <1>1, <4>1, <4>2 DEF ToSet
    <3>4. QED BY <3>2, <3>3
  <2>2. ASSUME NEW l \in ToSet(t) PROVE l \in ToSet(lines)
    <3>1. PICK i \in 1 .. k - 1 : l = t[i]
      BY <1>1 DEF ToSet
    <3>2. QED BY <1>1, <1>2, <3>1 DEF ToSet
  <2>3. Head(lines) \in ToSet(lines)
    <3>1. 1 \in 1 .. k
      BY <1>1
    <3>2. QED BY <1>1, <3>1 DEF ToSet
  <2>4. QED BY <2>1, <2>2, <2>3
<1>4. NoTwins(lines, c) /\ ToSet(lines) \subseteq ToSet(Listings[c])
  BY DEF LinesRight
<1>5. NoTwins(t, c)
  <2> SUFFICES ASSUME NEW i \in 1 .. k - 1, NEW j \in 1 .. k - 1,
                      {t[i], t[j]} \subseteq Wanted(c), t[i].name = t[j].name
               PROVE  i = j
    BY <1>1 DEF NoTwins
  <2>1. i + 1 = j + 1
    <3>1. i + 1 \in DOMAIN lines /\ j + 1 \in DOMAIN lines
      BY <1>1, <1>2
    <3>2. lines[i + 1] = t[i] /\ lines[j + 1] = t[j]
      BY <1>1
    <3>3. \A a, b \in DOMAIN lines :
              {lines[a], lines[b]} \subseteq Wanted(c) /\ lines[a].name = lines[b].name => a = b
      BY <1>4 DEF NoTwins
    <3>4. {lines[i + 1], lines[j + 1]} \subseteq Wanted(c) /\ lines[i + 1].name = lines[j + 1].name
      BY <3>2
    <3> HIDE DEF NoTwins
    <3>5. QED BY ONLY <3>1, <3>3, <3>4
  <2>2. QED BY <1>1, <2>1
<1>6. ASSUME Head(lines) \in Wanted(c), NEW l \in ToSet(t) \cap Wanted(c), l.name = Head(lines).name
      PROVE  FALSE
  <2>1. PICK i \in 1 .. k - 1 : l = t[i]
    BY <1>1 DEF ToSet
  <2>2. 1 \in 1 .. k /\ i + 1 \in 1 .. k /\ i + 1 # 1 /\ lines[i + 1] = l /\ lines[1] = Head(lines)
    BY <1>1, <1>2, <2>1
  <2>3. QED BY <1>1, <1>4, <1>6, <2>2 DEF NoTwins
<1>7. LinesRight(t, c)
  BY <1>1, <1>3, <1>4, <1>5 DEF LinesRight
<1>8. QED BY <1>3, <1>4, <1>6, <1>7 DEF t

\* A call is replaced.
LEMMA Replaced ==
  ASSUME NEW S, NEW fs \in Seq(S), NEW n \in 1 .. Len(fs), NEW f
  PROVE  LET gs == [fs EXCEPT ![n] = f]
         IN  /\ gs \in Seq(S \cup {f}) /\ Len(gs) = Len(fs) /\ gs[n] = f
             /\ \A i \in 1 .. Len(fs) : i # n => gs[i] = fs[i]
<1> DEFINE gs == [fs EXCEPT ![n] = f]
<1>1. fs = [i \in 1 .. Len(fs) |-> fs[i]] /\ Len(fs) \in Nat /\ \A i \in 1 .. Len(fs) : fs[i] \in S
  BY LenProperties
<1>2. gs = [i \in 1 .. Len(fs) |-> IF i = n THEN f ELSE fs[i]]
  BY <1>1
<1>3. gs \in Seq(S \cup {f})
  <2>1. gs \in [1 .. Len(fs) -> S \cup {f}]
    BY <1>1, <1>2
  <2>2. QED BY <1>1, <2>1, SeqDef
<1>4. DOMAIN gs = 1 .. Len(fs)
  BY <1>2
<1> HIDE DEF gs
<1>5. Len(gs) = Len(fs)
  BY <1>1, <1>3, <1>4, LenProperties
<1>6. gs[n] = f /\ \A i \in 1 .. Len(fs) : i # n => gs[i] = fs[i]
  BY <1>2
<1>7. QED BY <1>3, <1>5, <1>6 DEF gs


\* A call stays right while the walk is inside of the category it is in.
LEMMA OuterRight ==
  ASSUME NEW f, NEW c, NEW d \in Tree, NEW gone, NEW now, CallRight(f, c, gone),
         Below(c, f.path), Below(d, f.path), Next1(d, f.path) = Next1(c, f.path),
         \A p : p # d => (p \in now <=> p \in gone)
  PROVE  CallRight(f, d, now)
<1>1. DoneNames(f, d) = DoneNames(f, c) /\ Next1(d, f.path) \notin DoneNames(f, c)
  BY DEF DoneNames, Below
<1>2. f.path \in DOMAIN Listings /\ f.path # c /\ f.path # d
  <2>1. f.path \in DOMAIN Listings
    BY DEF CallRight
  <2>2. Len(f.path) \in Nat
    BY <2>1, PathsAreTexts DEF Tree
  <2>3. QED BY <2>1, <2>2 DEF Below
<1>3. FrameRight(now, f.path, f.map, DoneNames(f, d))
  <2>1. FrameRight(gone, f.path, f.map, DoneNames(f, c))
    BY DEF CallRight
  <2>2. Elsewhere(d, f.path, DoneNames(f, c))
    BY <1>1 DEF Elsewhere
  <2>3. FrameRight(now, f.path, f.map, DoneNames(f, c))
    BY <1>2, <2>1, <2>2, OtherRefused
  <2>4. QED BY <1>1, <2>3
<1>4. f.path \notin now
  BY <1>2 DEF CallRight
<1>5. QED BY <1>2, <1>3, <1>4 DEF CallRight

\* The walk is at the path of the innermost call; the categories of the others are above it.
LEMMA InnermostRight ==
  ASSUME NEW fs, NEW c, NEW gone, CallsRight(fs, c, gone), Len(c) = Len(fs) - 1
  PROVE  /\ Len(fs) \in Nat \ {0} /\ c \in Seq(STRING) /\ Len(fs) \in 1 .. Len(fs)
         /\ CallRight(fs[Len(fs)], c, gone) /\ fs[Len(fs)].path = c /\ c \in DOMAIN Listings
         /\ \A i \in 1 .. Len(fs) : i # Len(fs) =>
                /\ CallRight(fs[i], c, gone) /\ Below(c, fs[i].path)
                /\ fs[i].path \in Seq(STRING) /\ Len(fs[i].path) = i - 1
<1>1. Len(c) \in Nat /\ c \in Seq(STRING) /\ Len(fs) \in Nat
  BY PathsAreTexts, LenProperties DEF CallsRight
<1>2. \A i \in 1 .. Len(fs) : CallRight(fs[i], c, gone) /\ Len(fs[i].path) = i - 1
  BY DEF CallsRight
<1>3. Len(fs) \in Nat \ {0} /\ Len(fs) \in 1 .. Len(fs)
  BY <1>1
<1>4. fs[Len(fs)].path = c
  BY <1>1, <1>2, <1>3 DEF CallRight, Below
<1>5. ASSUME NEW i \in 1 .. Len(fs), i # Len(fs)
      PROVE  Below(c, fs[i].path) /\ fs[i].path \in Seq(STRING)
  <2>1. fs[i].path # c
    BY <1>1, <1>2, <1>5
  <2>2. QED BY <1>2, <2>1, PathsAreTexts DEF CallRight, Tree
<1>6. c \in DOMAIN Listings
  BY <1>2, <1>3, <1>4 DEF CallRight
<1>7. QED BY <1>1, <1>2, <1>3, <1>4, <1>5, <1>6

\* The next line of the innermost call is taken.
Taken(fs) == [fs EXCEPT ![Len(fs)].lines = Tail(@)]

\* A line that is empty or filtered is left out.
LEMMA SkipRight ==
  ASSUME NEW fs, NEW c, NEW gone, CallsRight(fs, c, gone), Len(c) = Len(fs) - 1,
         fs[Len(fs)].lines # <<>>, Head(fs[Len(fs)].lines) \notin Wanted(c)
  PROVE  CallsRight(Taken(fs), c, gone)
<1> DEFINE n == Len(fs)
           f == fs[n]
           g == [f EXCEPT !.lines = Tail(@)]
           gs == [fs EXCEPT ![n] = g]
<1>1. /\ n \in 1 .. n /\ CallRight(f, c, gone) /\ f.path = c /\ c \in DOMAIN Listings
      /\ \A i \in 1 .. n : CallRight(fs[i], c, gone) /\ Len(fs[i].path) = i - 1
  <2>1. n \in 1 .. n /\ CallRight(fs[n], c, gone) /\ fs[n].path = c /\ c \in DOMAIN Listings
    BY InnermostRight
  <2>2. \A i \in 1 .. n : CallRight(fs[i], c, gone) /\ Len(fs[i].path) = i - 1
    BY DEF CallsRight
  <2>3. QED BY <2>1, <2>2
<1>2. PICK S : fs \in Seq(S)
  BY DEF CallsRight
<1>3. g.path = f.path /\ g.lines = Tail(f.lines) /\ g.map = f.map /\ DOMAIN g = DOMAIN f
  BY <1>1 DEF CallRight
<1>4. /\ LinesRight(g.lines, c) /\ ToSet(f.lines) = ToSet(g.lines) \cup {Head(f.lines)}
  BY <1>1, <1>3, TailRight DEF CallRight
<1>5. NamesLeft(g) = NamesLeft(f)
  <2>1. ToSet(f.lines) \cap Wanted(c) = ToSet(g.lines) \cap Wanted(c)
    BY <1>4
  <2>2. QED BY <1>1, <1>3, <2>1 DEF NamesLeft
<1>6. Taken(fs) = gs
  BY DEF Taken
<1>7. /\ gs \in Seq(S \cup {g}) /\ Len(gs) = n /\ gs[n] = g
      /\ \A i \in 1 .. n : i # n => gs[i] = fs[i]
  <2>1. n \in 1 .. Len(fs)
    BY <1>1
  <2> HIDE DEF f, g
  <2>2. QED BY <1>2, <2>1, Replaced
<1> HIDE DEF f, g
<1>8. CallRight(g, c, gone)
  <2>1. DoneNames(g, c) = DoneNames(f, c)
    BY <1>3, <1>5 DEF DoneNames
  <2>2. c \notin gone
    BY <1>1 DEF CallRight, f
  <2>3. QED BY <1>1, <1>3, <1>4, <2>1, <2>2 DEF CallRight
<1> HIDE DEF n, gs
<1>9. \A i \in 1 .. n : CallRight(gs[i], c, gone) /\ Len(gs[i].path) = i - 1
  BY <1>1, <1>3, <1>7, <1>8 DEF f
<1>10. c \in Tree
  BY DEF CallsRight
<1>11. CallsRight(gs, c, gone)
  BY <1>7, <1>9, <1>10 DEF CallsRight
<1>12. QED BY <1>6, <1>11

\* What is refused differs at most in one path.
SameBut(q, gone, now) == \A p : p # q => (p \in now <=> p \in gone)

\* The request for a line makes its path the one the walk is at.
LEMMA AskRight ==
  ASSUME NEW fs, NEW c, NEW gone, NEW now, NEW x, CallsRight(fs, c, gone), Len(c) = Len(fs) - 1,
         fs[Len(fs)].lines # <<>>, x = Head(fs[Len(fs)].lines), x \in Wanted(c),
         SameBut(Append(c, x.name), gone, now)
  PROVE  /\ CallsRight(Taken(fs), Append(c, x.name), now)
         /\ Len(Append(c, x.name)) = Len(fs)
         /\ Append(c, x.name) \in IF x.category THEN DOMAIN Listings ELSE DOMAIN Texts
<1> DEFINE n == Len(fs)
           f == fs[n]
           g == [f EXCEPT !.lines = Tail(@)]
           gs == [fs EXCEPT ![n] = g]
           q == Append(c, x.name)
<1>1. /\ n \in Nat /\ n \in 1 .. n /\ CallRight(f, c, gone) /\ f.path = c /\ c \in DOMAIN Listings
      /\ c \in Seq(STRING)
      /\ \A i \in 1 .. n : i # n => CallRight(fs[i], c, gone) /\ Below(c, fs[i].path)
                                     /\ fs[i].path \in Seq(STRING) /\ Len(fs[i].path) = i - 1
  BY InnermostRight
<1>2. PICK S : fs \in Seq(S)
  BY DEF CallsRight
<1>3. g.path = c /\ g.lines = Tail(f.lines) /\ g.map = f.map /\ DOMAIN g = {"path", "lines", "map"}
  BY <1>1 DEF CallRight
<1>4. /\ LinesRight(g.lines, c) /\ ToSet(f.lines) = ToSet(g.lines) \cup {x}
      /\ \A l \in ToSet(g.lines) \cap Wanted(c) : l.name # x.name
  BY <1>1, <1>3, TailRight DEF CallRight
<1>5. q \in Tree /\ Below(q, c) /\ Next1(q, c) = x.name /\ Len(q) = n /\ q \in Seq(STRING)
  <2>1. q \in Tree /\ Below(q, c) /\ Next1(q, c) = x.name /\ Len(q) = Len(c) + 1
    BY <1>1, ChildIs
  <2>2. Len(c) + 1 = n
    BY <1>1
  <2>3. q \in Seq(STRING)
    BY <2>1, PathsAreTexts
  <2>4. QED BY <2>1, <2>2, <2>3
<1>6. Taken(fs) = gs
  BY DEF Taken
<1>7. /\ gs \in Seq(S \cup {g}) /\ Len(gs) = n /\ gs[n] = g
      /\ \A i \in 1 .. n : i # n => gs[i] = fs[i]
  <2>1. n \in 1 .. Len(fs)
    BY <1>1
  <2> HIDE DEF f, g
  <2>2. QED BY <1>2, <2>1, Replaced
<1> HIDE DEF q
<1>8. CallRight(g, q, now)
  <2>1. NamesLeft(f) = NamesLeft(g) \cup {x.name} /\ x.name \notin NamesLeft(g)
    <3>1. ToSet(f.lines) \cap Wanted(c) = (ToSet(g.lines) \cap Wanted(c)) \cup {x}
      BY <1>4
    <3>2. NamesLeft(f) = {l.name : l \in ToSet(f.lines) \cap Wanted(c)}
      BY <1>1 DEF NamesLeft
    <3>3. NamesLeft(g) = {l.name : l \in ToSet(g.lines) \cap Wanted(c)}
      BY <1>3 DEF NamesLeft
    <3> HIDE DEF f, g
    <3>4. QED BY <1>4, <3>1, <3>2, <3>3
  <2>2. DoneNames(g, q) = DoneNames(f, c) /\ x.name \notin DoneNames(f, c)
    <3>1. DoneNames(f, c) = WantedNames(c) \ NamesLeft(f)
      BY <1>1 DEF DoneNames
    <3>2. DoneNames(g, q) = (WantedNames(c) \ NamesLeft(g)) \ {x.name}
      BY <1>3, <1>5 DEF DoneNames, Below
    <3> HIDE DEF f, g
    <3>3. QED BY <2>1, <3>1, <3>2
  <2> HIDE DEF f, g
  <2>3. c \notin gone /\ FrameRight(gone, c, f.map, DoneNames(f, c))
    BY <1>1 DEF CallRight, f
  <2>4. Elsewhere(q, c, DoneNames(f, c))
    BY <1>5, <2>2 DEF Elsewhere
  <2>5. FrameRight(now, c, f.map, DoneNames(f, c))
    BY <1>1, <2>3, <2>4, OtherRefused DEF q, SameBut
  <2>6. c # q
    BY <1>5 DEF Below
  <2>7. c \notin now
    BY <2>3, <2>6 DEF q, SameBut
  <2>8. QED BY <1>1, <1>3, <1>4, <1>5, <2>1, <2>2, <2>5, <2>7 DEF CallRight
<1>9. ASSUME NEW i \in 1 .. n, i # n PROVE CallRight(fs[i], q, now)
  <2>1. Below(q, fs[i].path) /\ Next1(q, fs[i].path) = Next1(c, fs[i].path)
    BY <1>1, <1>5, <1>9, BelowBelow
  <2>2. \A p : p # q => (p \in now <=> p \in gone)
    BY DEF q, SameBut
  <2>3. QED BY <1>1, <1>5, <1>9, <2>1, <2>2, OuterRight
<1> HIDE DEF f, g, gs
<1>10. Len(c) = n - 1
  OBVIOUS
<1> HIDE DEF n
<1>11. \A i \in 1 .. n : CallRight(gs[i], q, now) /\ Len(gs[i].path) = i - 1
  BY <1>1, <1>3, <1>7, <1>8, <1>9, <1>10
<1>12. CallsRight(gs, q, now)
  BY <1>5, <1>7, <1>11 DEF CallsRight
<1>13. QED BY <1>1, <1>5, <1>6, <1>12, WantedIs DEF q, n


\* The path of a request is below the categories of all calls, which were not refused.
LEMMA RequestRight ==
  ASSUME NEW fs, NEW q, NEW gone, CallsRight(fs, q, gone), Len(q) = Len(fs)
  PROVE  /\ Len(fs) \in Nat /\ q \in Seq(STRING) /\ q \in Tree
         /\ \A i \in 1 .. Len(fs) :
                /\ CallRight(fs[i], q, gone) /\ Below(q, fs[i].path) /\ Len(fs[i].path) = i - 1
                /\ fs[i].path \in DOMAIN Listings /\ fs[i].path \in Seq(STRING) /\ fs[i].path \notin gone
                /\ Next1(q, fs[i].path) \in WantedNames(fs[i].path) \ NamesLeft(fs[i])
<1>1. q \in Tree /\ q \in Seq(STRING) /\ Len(fs) \in Nat
  BY PathsAreTexts DEF CallsRight
<1>2. ASSUME NEW i \in 1 .. Len(fs)
      PROVE  /\ CallRight(fs[i], q, gone) /\ Below(q, fs[i].path) /\ Len(fs[i].path) = i - 1
             /\ fs[i].path \in DOMAIN Listings /\ fs[i].path \in Seq(STRING) /\ fs[i].path \notin gone
             /\ Next1(q, fs[i].path) \in WantedNames(fs[i].path) \ NamesLeft(fs[i])
  <2>1. CallRight(fs[i], q, gone) /\ Len(fs[i].path) = i - 1
    BY DEF CallsRight
  <2>2. fs[i].path # q
    BY <1>1, <2>1
  <2>3. Below(q, fs[i].path) /\ fs[i].path \in DOMAIN Listings /\ fs[i].path \notin gone
        /\ Next1(q, fs[i].path) \notin NamesLeft(fs[i])
    BY <2>1, <2>2 DEF CallRight
  <2>4. fs[i].path \in Seq(STRING)
    BY <2>3, PathsAreTexts DEF Tree
  <2>5. Next1(q, fs[i].path) \in WantedNames(fs[i].path)
    BY <1>1, <2>3, <2>4, PrefixInTree
  <2>6. QED BY <2>1, <2>3, <2>4, <2>5
<1>3. QED BY <1>1, <1>2

\* The lines of a category are those that are to be done, or there are none.
LEMMA ListRight ==
  ASSUME NEW fs, NEW q \in DOMAIN Listings, NEW gone, CallsRight(fs, q, gone), Len(q) = Len(fs),
         NEW lines, lines = IF q \in gone THEN <<>> ELSE Listings[q]
  PROVE  /\ CallsRight(Append(fs, NewFrame(q, lines)), q, gone)
         /\ Len(q) = Len(Append(fs, NewFrame(q, lines))) - 1
<1> DEFINE n == Len(fs)
           g == NewFrame(q, lines)
           gs == Append(fs, g)
<1>1. n \in Nat /\ q \in Tree /\ \A i \in 1 .. n : CallRight(fs[i], q, gone) /\ Len(fs[i].path) = i - 1
  BY RequestRight
<1>2. PICK S : fs \in Seq(S)
  BY DEF CallsRight
<1>3. g.path = q /\ g.lines = lines /\ g.map = EmptyMap /\ DOMAIN g = {"path", "lines", "map"}
  BY DEF NewFrame
<1> HIDE DEF g
<1>4. /\ gs \in Seq(S \cup {g}) /\ Len(gs) = n + 1 /\ gs[n + 1] = g
      /\ \A i \in 1 .. n : gs[i] = fs[i]
  <2>1. fs \in Seq(S \cup {g})
    BY <1>2, SeqDef
  <2>2. QED BY <2>1, AppendProperties
<1>5. LinesRight(lines, q)
  <2>1. CASE q \in gone
    <3>1. lines = <<>> /\ DOMAIN lines = {} /\ ToSet(lines) = {} /\ lines \in Seq(Lines)
      BY <2>1, EmptySeq DEF ToSet
    <3>2. QED BY <3>1 DEF LinesRight, NoTwins
  <2>2. CASE q \notin gone
    BY <2>2, ServiceIsTree DEF LinesRight, NoTwins
  <2>3. QED BY <2>1, <2>2
<1>6. DoneNames(g, q) = WantedNames(q) \ NamesLeft(g)
  <2>1. Len(q) \in Nat
    BY <1>1, PathsAreTexts
  <2>2. QED BY <1>3, <2>1 DEF DoneNames
<1>7. FrameRight(gone, q, EmptyMap, DoneNames(g, q))
  <2>1. CASE q \in gone
    BY <2>1, RefusedRight
  <2>2. CASE q \notin gone
    <3>1. NamesLeft(g) = WantedNames(q)
      <4>1. lines = Listings[q]
        BY <2>2
      <4>2. ToSet(Listings[q]) \cap Wanted(q) = Wanted(q)
        BY DEF Wanted
      <4>3. QED BY <1>3, <4>1, <4>2 DEF NamesLeft, WantedNames
    <3>2. DoneNames(g, q) = {}
      BY <1>6, <3>1
    <3>3. QED BY <3>2, FreshRight
  <2>3. QED BY <2>1, <2>2
<1>8. CallRight(g, q, gone)
  BY <1>3, <1>5, <1>7 DEF CallRight
<1>9. \A i \in 1 .. n + 1 : CallRight(gs[i], q, gone) /\ Len(gs[i].path) = i - 1
  <2> SUFFICES ASSUME NEW i \in 1 .. n + 1 PROVE CallRight(gs[i], q, gone) /\ Len(gs[i].path) = i - 1
    OBVIOUS
  <2>1. CASE i = n + 1
    BY <1>1, <1>3, <1>4, <1>8, <2>1
  <2>2. CASE i # n + 1
    <3>1. i \in 1 .. n
      BY <1>1, <2>2
    <3>2. QED BY <1>1, <1>4, <3>1
  <2>3. QED BY <2>1, <2>2
<1> HIDE DEF gs
<1>10. CallsRight(gs, q, gone)
  BY <1>1, <1>4, <1>9 DEF CallsRight
<1>11. Len(q) = Len(gs) - 1
  BY <1>1, <1>4
<1>12. QED BY <1>10, <1>11 DEF gs, g

\* Two categories on the way to a path.
LEMMA UpperIs ==
  ASSUME NEW S, NEW q \in Seq(S), NEW c \in Seq(S), NEW d \in Seq(S), Below(q, c), Below(q, d),
         Len(d) < Len(c)
  PROVE  Below(c, d) /\ Next1(c, d) = Next1(q, d)
<1>1. /\ Len(q) \in Nat /\ Len(c) \in Nat /\ Len(d) \in Nat /\ Len(c) < Len(q)
      /\ SubSeq(q, 1, Len(c)) = c /\ SubSeq(q, 1, Len(d)) = d
  BY LenProperties DEF Below
<1>2. SubSeq(SubSeq(q, 1, Len(c)), 1, Len(d)) = SubSeq(q, 1, Len(d))
  BY <1>1, UpUp
<1>3. Below(c, d)
  BY <1>1, <1>2 DEF Below
<1>4. QED BY <1>3, BelowBelow

\* The innermost category and the line of it that a path stands for.
LEMMA LineAt ==
  ASSUME NEW fs, NEW q, NEW gone, CallsRight(fs, q, gone), Len(q) = Len(fs), q # Root
  PROVE  LET f == fs[Len(fs)]
         IN  /\ Len(fs) \in 1 .. Len(fs) /\ f.path \in DOMAIN Listings /\ f.path \notin gone
             /\ FrameRight(gone, f.path, f.map, DoneNames(f, q))
             /\ Next1(q, f.path) = Last(q) /\ Last(q) \notin DoneNames(f, q)
             /\ \A j \in 0 .. Len(f.path) : SubSeq(f.path, 1, j) \notin gone
             /\ \E x \in Wanted(f.path) : x.name = Last(q) /\ Append(f.path, x.name) = q
<1> DEFINE n == Len(fs)
           f == fs[n]
           c == f.path
<1>1. /\ n \in Nat /\ q \in Seq(STRING) /\ q \in Tree
      /\ \A i \in 1 .. n :
             /\ CallRight(fs[i], q, gone) /\ Below(q, fs[i].path) /\ Len(fs[i].path) = i - 1
             /\ fs[i].path \in DOMAIN Listings /\ fs[i].path \in Seq(STRING) /\ fs[i].path \notin gone
             /\ Next1(q, fs[i].path) \in WantedNames(fs[i].path) \ NamesLeft(fs[i])
  BY RequestRight
<1>2. n \in 1 .. n
  <2>1. n # 0
    BY <1>1, EmptySeq DEF Root
  <2>2. QED BY <1>1, <2>1
<1>3. /\ CallRight(f, q, gone) /\ Below(q, c) /\ Len(c) = n - 1 /\ c \in DOMAIN Listings
      /\ c \in Seq(STRING) /\ c \notin gone /\ Next1(q, c) \in WantedNames(c)
  BY <1>1, <1>2
<1> HIDE DEF f
<1>4. q = Append(c, Next1(q, c))
  <2>1. q = Append(c, Next1(q, c)) \/ Below(q, Append(c, Next1(q, c)))
    BY <1>1, <1>3, BelowIs
  <2>2. Len(Append(c, Next1(q, c))) = n
    <3>1. Len(Append(c, Next1(q, c))) = Len(c) + 1
      BY <1>1, <1>3, BelowIs
    <3>2. QED BY <1>1, <1>3, <3>1
  <2>3. ~Below(q, Append(c, Next1(q, c)))
    BY <1>1, <2>2 DEF Below
  <2>4. QED BY <2>1, <2>3
<1>5. Next1(q, c) = Last(q)
  <2>1. Len(c) + 1 = n
    BY <1>1, <1>3
  <2>2. QED BY <2>1 DEF Next1, Last
<1>6. Last(q) \notin DoneNames(f, q)
  <2>1. Len(c) < Len(q)
    BY <1>3 DEF Below
  <2>2. QED BY <1>5, <2>1 DEF DoneNames
<1>7. ASSUME NEW j \in 0 .. Len(c) PROVE SubSeq(c, 1, j) \notin gone
  <2>1. j + 1 \in 1 .. n /\ (j + 1) - 1 = j
    BY <1>1, <1>3
  <2>2. Below(q, fs[j + 1].path) /\ Len(fs[j + 1].path) = j /\ fs[j + 1].path \notin gone
    BY <1>1, <2>1
  <2>3. SubSeq(q, 1, j) \notin gone
    BY <2>2 DEF Below
  <2>4. Len(c) \in 0 .. Len(q) /\ SubSeq(q, 1, Len(c)) = c
    BY <1>1, <1>3 DEF Below
  <2>5. SubSeq(SubSeq(q, 1, Len(c)), 1, j) = SubSeq(q, 1, j)
    BY <1>1, <2>4, UpUp
  <2>6. QED BY <2>3, <2>4, <2>5
<1>8. \E x \in Wanted(c) : x.name = Last(q) /\ Append(c, x.name) = q
  <2>1. PICK x \in Wanted(c) : x.name = Next1(q, c)
    BY <1>3 DEF WantedNames
  <2>2. QED BY <1>4, <1>5, <2>1
<1>9. FrameRight(gone, c, f.map, DoneNames(f, q))
  BY <1>3 DEF CallRight
<1>10. QED BY <1>2, <1>3, <1>5, <1>6, <1>7, <1>8, <1>9 DEF f

\* The walk goes back to a category when a line of it is done.
LEMMA BackRight ==
  ASSUME NEW fs, NEW q, NEW gone, CallsRight(fs, q, gone), Len(q) = Len(fs), q # Root,
         NEW gs, \E S : gs \in Seq(S), Len(gs) = Len(fs),
         \A i \in 1 .. Len(fs) : i # Len(fs) => gs[i] = fs[i],
         DOMAIN gs[Len(fs)] = {"path", "lines", "map"},
         gs[Len(fs)].path = fs[Len(fs)].path, gs[Len(fs)].lines = fs[Len(fs)].lines,
         FrameRight(gone, fs[Len(fs)].path, gs[Len(fs)].map, DoneNames(fs[Len(fs)], q) \cup {Last(q)})
  PROVE  CallsRight(gs, gs[Len(gs)].path, gone) /\ Len(gs[Len(gs)].path) = Len(gs) - 1
<1> DEFINE n == Len(fs)
           f == fs[n]
           g == gs[n]
           c == g.path
<1>1. /\ n \in Nat /\ q \in Seq(STRING) /\ q \in Tree
      /\ \A i \in 1 .. n :
             /\ CallRight(fs[i], q, gone) /\ Below(q, fs[i].path) /\ Len(fs[i].path) = i - 1
             /\ fs[i].path \in DOMAIN Listings /\ fs[i].path \in Seq(STRING) /\ fs[i].path \notin gone
             /\ Next1(q, fs[i].path) \in WantedNames(fs[i].path) \ NamesLeft(fs[i])
  BY RequestRight
<1>2. n \in 1 .. n /\ Next1(q, c) = Last(q)
  BY LineAt
<1>3. /\ CallRight(f, q, gone) /\ Below(q, c) /\ Len(c) = n - 1 /\ c \in DOMAIN Listings
      /\ c \in Seq(STRING) /\ c \notin gone /\ Last(q) \in WantedNames(c) \ NamesLeft(f)
  BY <1>1, <1>2
<1>4. c \in Tree
  BY <1>3 DEF Tree
<1>5. f.path = c /\ g.path = c /\ g.lines = f.lines /\ DOMAIN g = {"path", "lines", "map"}
  OBVIOUS
<1>6. FrameRight(gone, c, g.map, DoneNames(f, q) \cup {Last(q)})
  OBVIOUS
<1> HIDE DEF f, g, c
<1>7. CallRight(g, c, gone)
  <2>1. NamesLeft(g) = NamesLeft(f)
    BY <1>5 DEF NamesLeft
  <2>2. DoneNames(g, c) = WantedNames(c) \ NamesLeft(f)
    <3>1. ~(Len(c) < Len(c))
      BY <1>1, <1>3
    <3>2. QED BY <1>5, <2>1, <3>1 DEF DoneNames
  <2>3. DoneNames(f, q) = (WantedNames(c) \ NamesLeft(f)) \ {Last(q)}
    BY <1>2, <1>3, <1>5 DEF DoneNames, Below
  <2>4. DoneNames(g, c) = DoneNames(f, q) \cup {Last(q)}
    BY <1>3, <2>2, <2>3
  <2>5. LinesRight(g.lines, c)
    BY <1>3, <1>5 DEF CallRight
  <2>6. QED BY <1>3, <1>5, <1>6, <2>4, <2>5 DEF CallRight
<1>8. ASSUME NEW i \in 1 .. n, i # n PROVE CallRight(fs[i], c, gone) /\ Len(fs[i].path) = i - 1
  <2>1. /\ CallRight(fs[i], q, gone) /\ Below(q, fs[i].path) /\ Len(fs[i].path) = i - 1
        /\ fs[i].path \in Seq(STRING)
    BY <1>1
  <2>2. Len(fs[i].path) < Len(c)
    BY <1>1, <1>3, <1>8, <2>1
  <2>3. Below(c, fs[i].path) /\ Next1(c, fs[i].path) = Next1(q, fs[i].path)
    <3> DEFINE d == fs[i].path
    <3>1. q \in Seq(STRING) /\ c \in Seq(STRING) /\ Below(q, c)
      BY <1>1, <1>3
    <3>2. d \in Seq(STRING) /\ Below(q, d) /\ Len(d) < Len(c)
      BY <2>1, <2>2
    <3> HIDE DEF d
    <3>3. Below(c, d) /\ Next1(c, d) = Next1(q, d)
      BY ONLY <3>1, <3>2, UpperIs
    <3>4. QED BY <3>3 DEF d
  <2>4. CallRight(fs[i], c, gone)
    BY <1>4, <2>1, <2>3, OuterRight
  <2>5. QED BY <2>1, <2>4
<1>9. \A i \in 1 .. n : CallRight(gs[i], c, gone) /\ Len(gs[i].path) = i - 1
  BY <1>3, <1>5, <1>7, <1>8 DEF g
<1>10. CallsRight(gs, c, gone)
  BY <1>4, <1>9 DEF CallsRight
<1>11. QED BY <1>3, <1>5, <1>10 DEF g

\* A value that was answered, or refused, is done.
ValueDone(fs, q, gone) ==
    IF q \in gone THEN fs
    ELSE [fs EXCEPT ![Len(fs)].map = AddToMap(@, Last(q), [text |-> Texts[q]])]

LEMMA ValueStep ==
  ASSUME NEW fs, NEW q \in DOMAIN Texts, NEW gone, CallsRight(fs, q, gone), Len(q) = Len(fs), NEW gs,
         gs = ValueDone(fs, q, gone)
  PROVE  CallsRight(gs, gs[Len(gs)].path, gone) /\ Len(gs[Len(gs)].path) = Len(gs) - 1
<1> DEFINE n == Len(fs)
           f == fs[n]
           c == f.path
           v == [text |-> Texts[q]]
           k == IF q \in gone THEN f.map ELSE AddToMap(f.map, Last(q), v)
           g == gs[n]
<1>1. q # Root
  BY ServiceIsTree
<1>2. /\ n \in 1 .. n /\ c \in DOMAIN Listings /\ Last(q) \notin DoneNames(f, q)
      /\ FrameRight(gone, c, f.map, DoneNames(f, q))
      /\ \A j \in 0 .. Len(c) : SubSeq(c, 1, j) \notin gone
  BY <1>1, LineAt
<1>3. PICK x \in Wanted(c) : x.name = Last(q) /\ Append(c, x.name) = q
  BY <1>1, LineAt
<1>4. FrameRight(gone, c, k, DoneNames(f, q) \cup {Last(q)})
  <2> DEFINE done == DoneNames(f, q)
             m == f.map
             d == c
  <2>1. FrameRight(gone, d, m, done) /\ x.name \notin done /\ d \in DOMAIN Listings /\ x \in Wanted(d)
        /\ Append(d, x.name) \in DOMAIN Texts /\ \A j \in 0 .. Len(d) : SubSeq(d, 1, j) \notin gone
    BY <1>2, <1>3
  <2>2. k = IF Append(d, x.name) \in gone THEN m
            ELSE AddToMap(m, x.name, [text |-> Texts[Append(d, x.name)]])
    BY <1>3
  <2> HIDE DEF done, m, d, k, f
  <2>3. FrameRight(gone, d, k, done \cup {x.name})
    BY <2>1, <2>2, ValueRight
  <2>4. QED BY <1>3, <2>3 DEF done, d
<1>5. PICK S : fs \in Seq(S)
  BY DEF CallsRight
<1>6. /\ \E R : gs \in Seq(R)
      /\ Len(gs) = n /\ DOMAIN g = {"path", "lines", "map"}
      /\ g.path = c /\ g.lines = f.lines /\ g.map = k
      /\ \A i \in 1 .. n : i # n => gs[i] = fs[i]
  <2>1. DOMAIN f = {"path", "lines", "map"}
    BY <1>2 DEF CallsRight, CallRight
  <2>2. CASE q \in gone
    BY <1>5, <2>1, <2>2 DEF ValueDone
  <2>3. CASE q \notin gone
    <3> DEFINE h == [f EXCEPT !.map = k]
    <3>1. gs = [fs EXCEPT ![n] = h]
      BY <2>3 DEF ValueDone
    <3>2. h.path = c /\ h.lines = f.lines /\ h.map = k /\ DOMAIN h = {"path", "lines", "map"}
      BY <2>1
    <3>3. n \in 1 .. Len(fs)
      BY <1>2
    <3> HIDE DEF h, f, k, v
    <3> DEFINE hs == [fs EXCEPT ![n] = h]
    <3>4. /\ hs \in Seq(S \cup {h}) /\ Len(hs) = Len(fs) /\ hs[n] = h
          /\ \A i \in 1 .. Len(fs) : i # n => hs[i] = fs[i]
      BY <1>5, <3>3, Replaced
    <3> HIDE DEF hs
    <3>5. gs = hs
      BY <3>1 DEF hs
    <3>6. QED BY <3>2, <3>4, <3>5 DEF f
  <2>4. QED BY <2>2, <2>3
<1>7. FrameRight(gone, fs[Len(fs)].path, gs[Len(fs)].map, DoneNames(fs[Len(fs)], q) \cup {Last(q)})
  BY <1>4, <1>6
<1>8. /\ \E R : gs \in Seq(R)
      /\ Len(gs) = Len(fs) /\ \A i \in 1 .. Len(fs) : i # Len(fs) => gs[i] = fs[i]
      /\ DOMAIN gs[Len(fs)] = {"path", "lines", "map"}
      /\ gs[Len(fs)].path = fs[Len(fs)].path /\ gs[Len(fs)].lines = fs[Len(fs)].lines
  BY <1>6
<1>9. CallsRight(fs, q, gone) /\ Len(q) = Len(fs)
  OBVIOUS
<1>10. QED BY ONLY <1>1, <1>7, <1>8, <1>9, BackRight

\* The calls around the innermost one.
LEMMA FrontRight ==
  ASSUME NEW fs, NEW q, NEW gone, CallsRight(fs, q, gone), Len(q) = Len(fs) - 1, Len(fs) > 1
  PROVE  /\ CallsRight(Front(fs), q, gone) /\ Len(q) = Len(Front(fs)) /\ Len(fs) - 1 \in Nat
         /\ \E S : Front(fs) \in Seq(S)
         /\ Len(Front(fs)) = Len(fs) - 1 /\ Front(fs)[Len(fs) - 1] = fs[Len(fs) - 1]
<1>1. PICK S : fs \in Seq(S)
  BY DEF CallsRight
<1> DEFINE n == Len(fs)
<1>2. n \in Nat /\ n - 1 \in 1 .. n - 1 /\ 1 .. n - 1 \subseteq 1 .. n
  BY <1>1, LenProperties
<1>3. /\ Front(fs) \in Seq(S) /\ Len(Front(fs)) = n - 1
      /\ \A i \in 1 .. n - 1 : Front(fs)[i] = fs[i]
  <2>1. \A i \in 1 .. n - 1 : fs[i] \in S
    BY <1>1, <1>2, LenProperties
  <2>2. /\ SubSeq(fs, 1, n - 1) \in Seq(S) /\ Len(SubSeq(fs, 1, n - 1)) = (n - 1) - 1 + 1
        /\ \A i \in 1 .. (n - 1) - 1 + 1 : SubSeq(fs, 1, n - 1)[i] = fs[1 + i - 1]
    BY <1>1, <1>2, <2>1, SubSeqProperties
  <2>3. QED BY <1>2, <2>2 DEF Front
<1>4. \A i \in 1 .. n - 1 : CallRight(Front(fs)[i], q, gone) /\ Len(Front(fs)[i].path) = i - 1
  BY <1>2, <1>3 DEF CallsRight
<1>5. CallsRight(Front(fs), q, gone)
  BY <1>3, <1>4 DEF CallsRight
<1>6. QED BY <1>2, <1>3, <1>5

\* A category that has ended is done.
LEMMA EndStep ==
  ASSUME NEW fs, NEW q, NEW gone, CallsRight(fs, q, gone), Len(q) = Len(fs) - 1, Len(fs) > 1,
         fs[Len(fs)].lines = <<>>, NEW gs,
         gs = [Front(fs) EXCEPT ![Len(fs) - 1].map = AddToMap(@, Last(q), Map(fs[Len(fs)].map))]
  PROVE  CallsRight(gs, gs[Len(gs)].path, gone) /\ Len(gs[Len(gs)].path) = Len(gs) - 1
<1> DEFINE es == Front(fs)
           n == Len(fs) - 1
           f == es[n]
           c == f.path
           inner == fs[Len(fs)]
           k == AddToMap(f.map, Last(q), Map(inner.map))
           h == [f EXCEPT !.map = k]
<1>1. /\ CallsRight(es, q, gone) /\ Len(q) = n /\ Len(es) = n /\ n \in Nat \ {0}
      /\ \E S : es \in Seq(S)
  <2>1. Len(fs) \in Nat /\ n # 0
    BY InnermostRight
  <2>2. QED BY <2>1, FrontRight
<1>2. PICK S : es \in Seq(S)
  BY <1>1
<1>3. q # Root
  BY <1>1 DEF Root
<1>4. gs = [es EXCEPT ![n] = h]
  OBVIOUS
<1>5. CallRight(inner, q, gone) /\ inner.path = q /\ q \in DOMAIN Listings
  BY InnermostRight
<1>6. FrameRight(gone, q, inner.map, WantedNames(q))
  <2>1. Len(q) \in Nat /\ ~(Len(q) < Len(q))
    BY <1>1
  <2>2. ToSet(<<>>) = {}
    BY DEF ToSet
  <2>3. NamesLeft(inner) = {}
    BY <2>2 DEF NamesLeft
  <2>4. DoneNames(inner, q) = WantedNames(q)
    BY <1>5, <2>1, <2>3 DEF DoneNames
  <2>5. QED BY <1>5, <2>4 DEF CallRight
<1> HIDE DEF es, n, inner
<1>7. /\ n \in 1 .. n /\ c \in DOMAIN Listings /\ Last(q) \notin DoneNames(f, q) /\ c \notin gone
      /\ FrameRight(gone, c, f.map, DoneNames(f, q))
  BY <1>1, <1>3, LineAt
<1>8. PICK x \in Wanted(c) : x.name = Last(q) /\ Append(c, x.name) = q
  BY <1>1, <1>3, LineAt
<1>9. FrameRight(gone, c, k, DoneNames(f, q) \cup {Last(q)})
  <2> DEFINE done == DoneNames(f, q)
             m == f.map
             d == c
             e == inner.map
  <2>1. FrameRight(gone, d, m, done) /\ x.name \notin done /\ d \in DOMAIN Listings /\ x \in Wanted(d)
        /\ d \notin gone /\ Append(d, x.name) \in DOMAIN Listings
        /\ FrameRight(gone, Append(d, x.name), e, WantedNames(Append(d, x.name)))
    BY <1>5, <1>6, <1>7, <1>8
  <2>2. k = AddToMap(m, x.name, Map(e))
    BY <1>8
  <2> HIDE DEF done, m, d, e, k, f
  <2>3. FrameRight(gone, d, AddToMap(m, x.name, Map(e)), done \cup {x.name})
    BY <2>1, CategoryRight
  <2>4. QED BY <1>8, <2>2, <2>3 DEF done, d
<1>10. h.path = c /\ h.lines = f.lines /\ h.map = k /\ DOMAIN h = {"path", "lines", "map"}
  <2>1. DOMAIN f = {"path", "lines", "map"}
    BY <1>1, <1>7 DEF CallsRight, CallRight
  <2>2. QED BY <2>1
<1> HIDE DEF h, k
<1>11. /\ gs \in Seq(S \cup {h}) /\ Len(gs) = n /\ gs[n] = h
       /\ \A i \in 1 .. n : i # n => gs[i] = es[i]
  <2> DEFINE hs == [es EXCEPT ![n] = h]
  <2>1. n \in 1 .. Len(es)
    BY <1>1, <1>7
  <2>2. /\ hs \in Seq(S \cup {h}) /\ Len(hs) = Len(es) /\ hs[n] = h
        /\ \A i \in 1 .. Len(es) : i # n => hs[i] = es[i]
    BY <1>2, <2>1, Replaced
  <2> HIDE DEF hs
  <2>3. gs = hs
    BY <1>4 DEF hs
  <2>4. QED BY <1>1, <2>2, <2>3
<1>12. /\ \E R : gs \in Seq(R)
       /\ Len(gs) = Len(es) /\ \A i \in 1 .. Len(es) : i # Len(es) => gs[i] = es[i]
       /\ DOMAIN gs[Len(es)] = {"path", "lines", "map"}
       /\ gs[Len(es)].path = es[Len(es)].path /\ gs[Len(es)].lines = es[Len(es)].lines
  BY <1>1, <1>10, <1>11
<1>13. FrameRight(gone, es[Len(es)].path, gs[Len(es)].map, DoneNames(es[Len(es)], q) \cup {Last(q)})
  BY <1>1, <1>9, <1>10, <1>11
<1>14. CallsRight(es, q, gone) /\ Len(q) = Len(es)
  BY <1>1
<1>15. QED BY ONLY <1>3, <1>12, <1>13, <1>14, BackRight

\* When the root has ended its map is what the service has.
LEMMA RootEnds ==
  ASSUME NEW fs, NEW q, NEW gone, CallsRight(fs, q, gone), Len(q) = Len(fs) - 1, Len(fs) = 1,
         fs[Len(fs)].lines = <<>>
  PROVE  FrameRight(gone, Root, fs[Len(fs)].map, WantedNames(Root))
<1> DEFINE f == fs[Len(fs)]
<1>1. CallRight(f, q, gone) /\ f.path = q /\ q \in Seq(STRING)
  BY InnermostRight
<1>2. q = Root
  BY <1>1, EmptySeq DEF Root
<1>3. DoneNames(f, q) = WantedNames(Root)
  <2>1. ToSet(<<>>) = {} /\ ~(Len(q) < Len(q))
    BY DEF ToSet
  <2>2. NamesLeft(f) = {}
    BY <2>1 DEF NamesLeft
  <2>3. QED BY <1>1, <1>2, <2>1, <2>2 DEF DoneNames
<1> HIDE DEF f
<1>4. QED BY <1>1, <1>2, <1>3 DEF CallRight, f

-----------------------------------------------------------------------------
(* The inductive invariant of the walk *)

\* What the service has for a request of the walk.
Served(r) == IF r.kind = "list" THEN Listings[r.path] ELSE Texts[r.path]
RequestServed(r) == r.path \in IF r.kind = "list" THEN DOMAIN Listings ELSE DOMAIN Texts
\* What the context has when the rest of the responses has come: the status tells whether
\* the path is refused, and the body is what the service has for it.
AnswerRight ==
    /\ RequestServed(request)
    /\ \E S : incoming \in Seq(S)
    /\ (Heard(ctx, incoming).status = 200) <=> (request.path \notin refused)
    /\ Heard(ctx, incoming).status = 200 => Heard(ctx, incoming).body = Served(request)
WalkRight ==
    /\ pc = "start" => frames = <<>>
    /\ pc = "line" =>
           CallsRight(frames, Innermost.path, refused) /\ Len(Innermost.path) = Len(frames) - 1
    /\ Asking("list") \/ Asking("value") =>
           CallsRight(frames, request.path, refused) /\ Len(request.path) = Len(frames) /\ AnswerRight

ServedInv == WalkInv /\ WalkRight /\ MetadataIsServed

LEMMA HeardHead ==
  ASSUME NEW S, NEW events \in Seq(S), events # <<>>, NEW c
  PROVE  /\ Tail(events) \in Seq(S)
         /\ Heard(c, events) = Heard(Receive(c, Head(events)), Tail(events))
<1> DEFINE e == Head(events)
           t == Tail(events)
<1>1. Len(events) \in Nat /\ Len(events) > 0
  BY LenProperties, EmptySeq
<1>2. /\ e \in S /\ t \in Seq(S) /\ Len(t) = Len(events) - 1 /\ events[1] = e
      /\ \A i \in 1 .. Len(t) : t[i] = events[i + 1]
  BY <1>1, HeadTailProperties, ElementOfSeq
<1> HIDE DEF e, t
<1>3. <<e>> \in Seq(S) /\ Len(<<e>>) = 1 /\ <<e>>[1] = e /\ <<e>> = Append(<<>>, e) /\ <<>> \in Seq(S)
  BY <1>2
<1> DEFINE h == <<e>>
           b == h \o t
<1> HIDE DEF h
<1>4. /\ b \in Seq(S) /\ Len(b) = 1 + Len(t)
      /\ \A i \in 1 .. 1 + Len(t) : b[i] = IF i <= 1 THEN h[i] ELSE t[i - 1]
  <2>1. h \in Seq(S) /\ Len(h) = 1
    BY <1>3 DEF h
  <2>2. /\ b \in Seq(S) /\ Len(b) = Len(h) + Len(t)
        /\ \A i \in 1 .. Len(h) + Len(t) : b[i] = IF i <= Len(h) THEN h[i] ELSE t[i - Len(h)]
    <3>1. h \in Seq(S) /\ t \in Seq(S)
      BY <1>2, <2>1
    <3>2. QED BY ONLY <3>1, ConcatProperties
  <2> HIDE DEF b
  <2>3. QED BY <2>1, <2>2
<1>5. \A i \in 1 .. Len(events) : b[i] = events[i]
  <2> SUFFICES ASSUME NEW i \in 1 .. Len(events) PROVE b[i] = events[i]
    OBVIOUS
  <2>1. i \in 1 .. 1 + Len(t)
    BY <1>1, <1>2
  <2>2. CASE i <= 1
    <3>1. i = 1
      BY <1>1, <2>2
    <3> HIDE DEF b
    <3>2. QED BY <1>2, <1>3, <1>4, <2>1, <3>1 DEF h
  <2>3. CASE ~(i <= 1)
    <3>1. i - 1 \in 1 .. Len(t) /\ (i - 1) + 1 = i
      BY <1>1, <1>2, <2>3
    <3> HIDE DEF b
    <3>2. QED BY <1>2, <1>4, <2>1, <2>3, <3>1
  <2>4. QED BY <2>2, <2>3
<1>6. events = b
  <2>1. Len(b) = Len(events)
    BY <1>1, <1>2, <1>4
  <2> HIDE DEF b
  <2>2. QED BY <1>4, <1>5, <2>1, SeqEqual
<1>7. Heard(c, h) = Receive(c, e)
  <2> HIDE DEF Receive
  <2>1. Heard(c, <<>>) = c /\ Heard(c, Append(<<>>, e)) = Receive(Heard(c, <<>>), e)
    BY <1>2, <1>3, HeardSteps
  <2>2. QED BY <1>3, <2>1 DEF h
<1>8. Heard(c, h \o t) = Heard(Heard(c, h), t)
  <2>1. h \in Seq(S)
    BY <1>3 DEF h
  <2>2. QED BY <1>2, <2>1, HeardConcat
<1>9. Heard(c, events) = Heard(Receive(c, e), t)
  BY <1>6, <1>7, <1>8
<1>10. QED BY <1>2, <1>9 DEF e, t

\* A request of the walk is answered, after redirects or at once, with what the service has
\* or with a refusal.
LEMMA SendRight ==
  ASSUME NEW r, r.kind \in {"list", "value"}, RequestServed(r), Send(r)
  PROVE  /\ pc' = "request" /\ request' = r /\ AnswerRight'
         /\ \A p : p # r.path => (p \in refused' <=> p \in refused)
<1>1. PICK text \in Contents(r) : \E code \in {200, 404, Illegible}, before \in Redirects :
          /\ incoming' = before \o Response(code, IF code = 200 THEN text ELSE <<"no">>)
          /\ refused' = IF code = 200 THEN refused \ {r.path} ELSE refused \cup {r.path}
  BY DEF Send
<1>2. PICK code \in {200, 404, Illegible} : \E before \in Redirects :
          /\ incoming' = before \o Response(code, IF code = 200 THEN text ELSE <<"no">>)
          /\ refused' = IF code = 200 THEN refused \ {r.path} ELSE refused \cup {r.path}
  BY <1>1
<1>3. PICK before \in Redirects :
          /\ incoming' = before \o Response(code, IF code = 200 THEN text ELSE <<"no">>)
          /\ refused' = IF code = 200 THEN refused \ {r.path} ELSE refused \cup {r.path}
  BY <1>2
<1> DEFINE body == IF code = 200 THEN text ELSE <<"no">>
           answer == Response(code, body)
<1>4. text = Served(r) /\ \E S : body \in Seq(S)
  <2>1. text = Served(r)
    BY DEF Contents, Served
  <2>2. CASE r.kind = "list"
    <3>1. text \in Seq(Lines)
      BY <2>1, <2>2, ServiceIsTree DEF Served, RequestServed
    <3>2. CASE code = 200
      <4>1. body = text
        BY <3>2
      <4>2. QED BY <2>1, <3>1, <4>1
    <3>3. CASE code # 200
      <4>1. body \in Seq({"no"})
        BY <3>3
      <4>2. QED BY <2>1, <4>1
    <3>4. QED BY <3>2, <3>3
  <2>3. CASE r.kind = "value"
    <3>1. text \in Seq(STRING)
      BY <2>1, <2>3, ServiceIsTree DEF Served, RequestServed
    <3>2. CASE code = 200
      <4>1. body = text
        BY <3>2
      <4>2. QED BY <2>1, <3>1, <4>1
    <3>3. CASE code # 200
      <4>1. body \in Seq({"no"})
        BY <3>3
      <4>2. QED BY <2>1, <4>1
    <3>4. QED BY <3>2, <3>3
  <2>4. QED BY <2>2, <2>3
<1>5. PICK S : body \in Seq(S)
  BY <1>4
<1>6. IsContext(NewContext)
  BY DEF IsContext, NewContext
<1> HIDE DEF body
<1>7. PICK T : /\ before \in Seq(T) /\ IsContext(Heard(NewContext, before))
               /\ Heard(NewContext, before).status # 200
  <2>1. CASE before = <<>>
    <3>1. Heard(NewContext, <<>>) = NewContext /\ <<>> \in Seq({})
      <4> HIDE DEF Receive
      <4>1. QED BY HeardIsFold, Listening!FoldEmpty, EmptySeq
    <3>2. NewContext.status # 200
      BY DEF NewContext
    <3>3. QED BY <1>6, <2>1, <3>1, <3>2
  <2>2. CASE before = Response(302, <<>>)
    <3> DEFINE none == <<>>
               c == NewContext
    <3>1. none \in Seq({}) /\ IsContext(c)
      BY <1>6, EmptySeq
    <3> HIDE DEF none, c
    <3>2. Response(302, none) \in Seq(Callbacks({}, 302)) /\ Hears(Heard(c, Response(302, none)), Stated(c, 302), none)
      BY <3>1, ResponseHeard
    <3>3. before = Response(302, none)
      BY <2>2 DEF none
    <3>4. Stated(c, 302) # 200
      BY DEF Stated, Illegible
    <3>5. QED BY <3>2, <3>3, <3>4 DEF Hears, c
  <2>3. QED BY <1>3, <2>1, <2>2 DEF Redirects
<1> DEFINE stated == Stated(Heard(NewContext, before), code)
<1>8. /\ answer \in Seq(Callbacks(S, code))
      /\ Hears(Heard(Heard(NewContext, before), answer), stated, body)
  BY <1>5, <1>7, ResponseHeard
<1>13. stated = 200 <=> code = 200
  BY <1>7 DEF Stated, Illegible
<1> HIDE DEF answer, stated
<1> DEFINE B == T \cup Callbacks(S, code)
<1>9. /\ before \in Seq(B) /\ answer \in Seq(B) /\ before \o answer \in Seq(B)
      /\ Heard(NewContext, before \o answer) = Heard(Heard(NewContext, before), answer)
  <2> HIDE DEF Callbacks
  <2>1. before \in Seq(B) /\ answer \in Seq(B)
    BY <1>7, <1>8, SeqDef
  <2> HIDE DEF B
  <2>2. QED BY <2>1, HeardConcat, ConcatProperties
<1>10. /\ incoming' = before \o answer /\ ctx' = NewContext /\ pc' = "request" /\ request' = r
       /\ refused' = IF code = 200 THEN refused \ {r.path} ELSE refused \cup {r.path}
  BY <1>3 DEF Send, answer, body
<1> HIDE DEF B
<1>11. Hears(Heard(ctx', incoming'), stated, body) /\ incoming' \in Seq(B)
  BY <1>8, <1>9, <1>10
<1>12. AnswerRight'
  <2>1. (Heard(ctx, incoming)') = Heard(ctx', incoming')
    BY DEF Heard, FoldLeft, MapThenFoldSet
  <2>2. Heard(ctx', incoming').status = stated /\ Heard(ctx', incoming').body = body
    BY <1>11 DEF Hears
  <2>3. stated = 200 <=> r.path \notin refused'
    BY <1>10, <1>13
  <2>4. stated = 200 => body = Served(r)
    BY <1>4, <1>13 DEF body
  <2>5. RequestServed(request)' /\ Served(request)' = Served(r)
    BY <1>10 DEF RequestServed, Served
  <2>6. QED BY <1>10, <1>11, <2>1, <2>2, <2>3, <2>4, <2>5 DEF AnswerRight
<1>14. QED BY <1>10, <1>12

-----------------------------------------------------------------------------
(* The steps of the walk *)

\* The metadata stay served when they stay what they are.
LEMMA ServedStays ==
  ASSUME MetadataIsServed, UNCHANGED refused,
         ~NoMetadata' => ~NoMetadata /\ facts'["ec2_metadata"] = facts["ec2_metadata"]
  PROVE  MetadataIsServed'
<1> SUFFICES ASSUME ~NoMetadata' PROVE MetadataIsServed'
  BY DEF MetadataIsServed, NoMetadata
<1>1. \A p : At(p)' = At(p)
  BY DEF At
<1>2. QED BY <1>1 DEF MetadataIsServed, NoMetadata

\* map_value::add of another key leaves the metadata as they are.
LEMMA OtherKeyServed ==
  ASSUME MetadataIsServed, UNCHANGED refused, NEW k, NEW v, k # "ec2_metadata",
         facts' \in {facts, AddToMap(facts, k, v)}
  PROVE  MetadataIsServed'
<1>1. CASE facts' = facts
  BY <1>1, ServedStays DEF NoMetadata
<1>2. CASE facts' = AddToMap(facts, k, v)
  <2>1. ~NoMetadata' => ~NoMetadata /\ facts'["ec2_metadata"] = facts["ec2_metadata"]
    BY <1>2 DEF AddToMap, NoMetadata
  <2>2. QED BY <2>1, ServedStays
<1>3. QED BY <1>1, <1>2

\* What the root's map has is what the service has.
LEMMA WholeTreeServed ==
  ASSUME NEW m, FrameRight(refused', Root, m, WantedNames(Root)),
         "ec2_metadata" \in DOMAIN facts' => facts'["ec2_metadata"] = Map(m)
  PROVE  MetadataIsServed'
<1> SUFFICES ASSUME "ec2_metadata" \in DOMAIN facts' PROVE MetadataIsServed'
  BY DEF MetadataIsServed
<1> DEFINE gone == refused'
<1>1. \A p : At(p)' = FoundIn(m, p)
  <2> HIDE DEF Enter
  <2>1. QED BY DEF At, FoundIn, FoundFrom, FoldLeft, MapThenFoldSet
<1>2. \A p \in Tree : PathRight(gone, FoundIn(m, p), p)
  <2> HIDE DEF gone
  <2>1. FrameRight(gone, Root, m, WantedNames(Root))
    BY DEF gone
  <2>2. QED BY <2>1, RootRight
<1>3. ASSUME NEW p \in DOMAIN Listings, FoundIn(m, p) # <<>>
      PROVE  DOMAIN FoundIn(m, p)[1].map = IF p \in gone THEN {} ELSE NamesServed(p, gone)
  BY <1>2, <1>3 DEF PathRight, Tree
<1>4. ASSUME NEW p \in DOMAIN Texts
      PROVE  FoundIn(m, p) = IF Reached(p, gone) /\ p \notin gone THEN <<[text |-> Texts[p]]>> ELSE <<>>
  BY <1>2 DEF PathRight, Tree
<1>5. \A p : NamesServed(p, refused)' = NamesServed(p, gone) /\ (Reached(p, refused)' <=> Reached(p, gone))
  BY DEF NamesServed, Reached
<1>6. QED BY <1>1, <1>3, <1>4, <1>5 DEF MetadataIsServed

\* The walk goes on: nothing is served yet.
LEMMA NothingYet ==
  ASSUME NoMetadata'
  PROVE  MetadataIsServed'
BY DEF MetadataIsServed, NoMetadata

\* The rest of the responses is heard as before.
LEMMA CallbackRight ==
  ASSUME AnswerRight, Callback
  PROVE  AnswerRight'
<1>1. /\ incoming # <<>> /\ ctx' = Receive(ctx, Head(incoming)) /\ incoming' = Tail(incoming)
      /\ UNCHANGED <<request, refused>>
  BY DEF Callback
<1>2. PICK S : incoming \in Seq(S)
  BY DEF AnswerRight
<1>3. incoming' \in Seq(S) /\ Heard(ctx', incoming') = Heard(ctx, incoming)
  BY <1>1, <1>2, HeardHead
<1>4. Heard(ctx, incoming)' = Heard(ctx', incoming')
  BY DEF Heard, FoldLeft, MapThenFoldSet
<1>5. RequestServed(request)' = RequestServed(request) /\ Served(request)' = Served(request)
  BY <1>1 DEF RequestServed, Served
<1>6. QED BY <1>1, <1>3, <1>4, <1>5 DEF AnswerRight

\* What has been heard when nothing more comes.
LEMMA AnswerHeard ==
  ASSUME AnswerRight, incoming = <<>>
  PROVE  /\ RequestServed(request) /\ (Ok <=> request.path \notin refused)
         /\ Ok => ctx.body = Served(request)
<1>1. Heard(ctx, <<>>) = ctx
  <2> HIDE DEF Receive
  <2>1. QED BY HeardIsFold, Listening!FoldEmpty
<1> HIDE DEF Heard
<1>2. QED BY <1>1 DEF AnswerRight, Ok

\* A request of the walk.
LEMMA WalkAsks ==
  ASSUME NEW r, r.kind \in {"list", "value"}, RequestServed(r), Send(r),
         CallsRight(frames', r.path, refused'), Len(r.path) = Len(frames')
  PROVE  WalkRight'
<1>1. pc' = "request" /\ request' = r /\ AnswerRight'
  BY SendRight
<1>2. QED BY <1>1 DEF WalkRight, Asking

\* The walk is over, or has not begun.
LEMMA WalkOver ==
  ASSUME pc' \in {"done", "raised"} \/ (pc' = "request" /\ request'.kind \in {"userdata", "gce"})
  PROVE  WalkRight'
BY DEF WalkRight, Asking

LEMMA StepServes ==
  ASSUME ServedInv, Next
  PROVE  WalkRight' /\ MetadataIsServed'
<1>1. CASE ClientFails
  BY <1>1, WalkOver, ServedStays DEF ClientFails, ServedInv, NoMetadata
<1>2. CASE StartEc2
  <2>1. pc = "start" /\ frames = <<>> /\ NoMetadata /\ Send(List(Root)) /\ UNCHANGED <<frames, facts>>
    BY <1>2 DEF StartEc2, ServedInv, WalkInv, WalkRight, Untouched
  <2>2. Root \in DOMAIN Listings /\ Root \in Tree /\ Len(Root) = 0
    BY ServiceIsTree DEF Tree, Root
  <2>3. List(Root).kind = "list" /\ List(Root).path = Root
    BY DEF List
  <2>4. CallsRight(<<>>, Root, refused')
    BY <2>2, EmptySeq DEF CallsRight
  <2>5. WalkRight'
    <3> DEFINE r == List(Root)
    <3>1. /\ r.kind \in {"list", "value"} /\ RequestServed(r) /\ Send(r)
          /\ CallsRight(frames', r.path, refused') /\ Len(r.path) = Len(frames')
      BY <2>1, <2>2, <2>3, <2>4 DEF RequestServed
    <3> HIDE DEF r
    <3>2. QED BY <3>1, WalkAsks
  <2>6. QED BY <2>1, <2>5, NothingYet DEF NoMetadata
<1>3. CASE StartNothing
  BY <1>3, WalkOver, ServedStays DEF StartNothing, ServedInv, NoMetadata
<1>4. CASE StartGce
  <2>1. pc = "start" /\ NoMetadata /\ Send(Computed) /\ UNCHANGED facts
    BY <1>4 DEF StartGce, ServedInv, WalkInv, Untouched
  <2>2. pc' = "request" /\ request' = Computed /\ Computed.kind = "gce"
    BY <2>1 DEF Send, Computed
  <2>3. QED BY <2>1, <2>2, WalkOver, NothingYet DEF NoMetadata
<1>5. CASE Callback
  <2>1. UNCHANGED <<pc, frames, request, facts, refused>>
    BY <1>5 DEF Callback
  <2>2. MetadataIsServed'
    BY <2>1, ServedStays DEF ServedInv, NoMetadata
  <2>3. AnswerRight => AnswerRight'
    BY <1>5, CallbackRight
  <2>4. WalkRight'
    BY <2>1, <2>3 DEF ServedInv, WalkRight, Asking, Innermost
  <2>5. QED BY <2>2, <2>4
<1>6. CASE ListAnswered
  <2>1. /\ Asking("list") /\ incoming = <<>> /\ pc' = "line" /\ UNCHANGED <<facts, refused>>
        /\ frames' = Append(frames, NewFrame(request.path, IF Ok THEN ctx.body ELSE <<>>))
    BY <1>6 DEF ListAnswered, Answered, Asking
  <2>2. /\ CallsRight(frames, request.path, refused) /\ Len(request.path) = Len(frames)
        /\ AnswerRight
    BY <2>1 DEF ServedInv, WalkRight
  <2> DEFINE q == request.path
             lines == IF Ok THEN ctx.body ELSE <<>>
  <2>3. q \in DOMAIN Listings /\ lines = IF q \in refused THEN <<>> ELSE Listings[q]
    <3>1. /\ RequestServed(request) /\ (Ok <=> request.path \notin refused)
          /\ Ok => ctx.body = Served(request)
      BY <2>1, <2>2, AnswerHeard
    <3>2. QED BY <2>1, <3>1 DEF RequestServed, Served, Asking
  <2> DEFINE gs == Append(frames, NewFrame(q, lines))
  <2>4. gs = frames'
    BY <2>1
  <2> HIDE DEF lines
  <2>5. CallsRight(gs, q, refused) /\ Len(q) = Len(gs) - 1
    <3> HIDE DEF q
    <3>1. CallsRight(frames, q, refused) /\ Len(q) = Len(frames)
      BY <2>2 DEF q
    <3>2. QED BY <2>3, <3>1, ListRight
  <2>6. Innermost' = gs[Len(gs)]
    BY <2>4 DEF Innermost
  <2> HIDE DEF q, gs
  <2>7. gs[Len(gs)].path = q
    BY <2>5, InnermostRight
  <2>8. WalkRight'
    BY <2>1, <2>4, <2>5, <2>6, <2>7 DEF WalkRight, Asking
  <2>9. QED BY <2>1, <2>8, ServedStays DEF ServedInv, NoMetadata
<1>7. CASE ValueAnswered
  <2>1. /\ Asking("value") /\ incoming = <<>> /\ pc' = "line" /\ UNCHANGED <<facts, refused>>
        /\ frames' = IF ~Ok THEN frames
                     ELSE [frames EXCEPT ![Len(frames)].map =
                               AddToMap(@, Last(request.path), [text |-> ctx.body])]
    BY <1>7 DEF ValueAnswered, Answered, Asking
  <2>2. /\ CallsRight(frames, request.path, refused) /\ Len(request.path) = Len(frames)
        /\ AnswerRight
    BY <2>1 DEF ServedInv, WalkRight
  <2> DEFINE q == request.path
             gs == frames'
  <2>3. /\ q \in DOMAIN Texts
        /\ gs = IF q \in refused THEN frames
                ELSE [frames EXCEPT ![Len(frames)].map =
                          AddToMap(@, Last(q), [text |-> Texts[q]])]
    <3>1. /\ RequestServed(request) /\ (Ok <=> request.path \notin refused)
          /\ Ok => ctx.body = Served(request)
      BY <2>1, <2>2, AnswerHeard
    <3>2. q \in DOMAIN Texts /\ (Ok => ctx.body = Texts[q])
      BY <2>1, <3>1 DEF RequestServed, Served, Asking
    <3>3. QED BY <2>1, <3>1, <3>2
  <2>4. CallsRight(frames, q, refused) /\ Len(q) = Len(frames)
    BY <2>2
  <2>5. Innermost' = gs[Len(gs)]
    BY DEF Innermost
  <2> HIDE DEF q, gs
  <2>6. CallsRight(gs, gs[Len(gs)].path, refused) /\ Len(gs[Len(gs)].path) = Len(gs) - 1
    <3> DEFINE fs == frames
               gone == refused
    <3>1. /\ q \in DOMAIN Texts /\ CallsRight(fs, q, gone) /\ Len(q) = Len(fs)
          /\ gs = ValueDone(fs, q, gone)
      BY <2>3, <2>4 DEF ValueDone
    <3> HIDE DEF fs, gone
    <3>2. CallsRight(gs, gs[Len(gs)].path, gone) /\ Len(gs[Len(gs)].path) = Len(gs) - 1
      BY ONLY <3>1, ValueStep
    <3>3. QED BY <3>2 DEF gone
  <2>7. WalkRight'
    BY <2>1, <2>5, <2>6 DEF WalkRight, Asking, gs
  <2>8. QED BY <2>1, <2>7, ServedStays DEF ServedInv, NoMetadata
<1>8. CASE SkipLine
  <2>1. /\ pc = "line" /\ pc' = "line" /\ Innermost.lines # <<>> /\ UNCHANGED <<facts, refused>>
        /\ Line.name = "" \/ Line \in Filtered
        /\ frames' = Taken(frames)
    BY <1>8 DEF SkipLine, HasLine, TakeLine, Taken
  <2> DEFINE c == Innermost.path
             gs == Taken(frames)
  <2>2. CallsRight(frames, c, refused) /\ Len(c) = Len(frames) - 1
    BY <2>1 DEF ServedInv, WalkRight
  <2>3. frames[Len(frames)].lines # <<>> /\ Head(frames[Len(frames)].lines) \notin Wanted(c)
    BY <2>1 DEF Innermost, Line, Wanted
  <2> HIDE DEF c
  <2>4. CallsRight(gs, c, refused)
    BY <2>2, <2>3, SkipRight
  <2>5. frames' = gs
    BY <2>1
  <2>6. Len(gs) = Len(frames)
    <3>1. PICK S : frames \in Seq(S)
      BY <2>2 DEF CallsRight
    <3>2. DOMAIN gs = DOMAIN frames /\ \E R : gs \in Seq(R)
      BY <2>4 DEF CallsRight, Taken
    <3> HIDE DEF gs
    <3>3. QED BY <3>1, <3>2, LenProperties
  <2> HIDE DEF gs
  <2>7. gs[Len(gs)].path = c
    BY <2>2, <2>4, <2>6, InnermostRight
  <2>8. Innermost' = gs[Len(gs)]
    BY <2>5 DEF Innermost
  <2>9. WalkRight'
    BY <2>1, <2>2, <2>4, <2>5, <2>6, <2>7, <2>8 DEF WalkRight, Asking
  <2>10. QED BY <2>1, <2>9, ServedStays DEF ServedInv, NoMetadata
<1>9. CASE AskLine
  <2> DEFINE c == Innermost.path
             x == Line
             q == Append(c, x.name)
             r == IF x.category THEN List(q) ELSE Value(q)
             gs == Taken(frames)
  <2>1. /\ pc = "line" /\ Innermost.lines # <<>> /\ UNCHANGED facts /\ x.name # "" /\ x \notin Filtered
        /\ frames' = gs /\ Send(r)
    BY <1>9 DEF AskLine, HasLine, TakeLine, Taken
  <2>2. CallsRight(frames, c, refused) /\ Len(c) = Len(frames) - 1
    BY <2>1 DEF ServedInv, WalkRight
  <2>3. frames[Len(frames)].lines # <<>> /\ x = Head(frames[Len(frames)].lines) /\ x \in Wanted(c)
    <3>1. frames[Len(frames)].lines # <<>> /\ x = Head(frames[Len(frames)].lines)
      BY <2>1 DEF Innermost, Line
    <3>2. c \in DOMAIN Listings /\ LinesRight(frames[Len(frames)].lines, c)
      <4> HIDE DEF c
      <4>1. CallRight(frames[Len(frames)], c, refused) /\ frames[Len(frames)].path = c /\ c \in DOMAIN Listings
        BY <2>2, InnermostRight
      <4>2. QED BY <4>1 DEF CallRight
    <3> DEFINE lines == frames[Len(frames)].lines
    <3> HIDE DEF c, lines
    <3>3. Head(lines) \in ToSet(Listings[c])
      BY <3>1, <3>2, TailRight DEF lines
    <3>4. x \in ToSet(Listings[c])
      BY <3>1, <3>3 DEF lines
    <3>5. QED BY <2>1, <3>1, <3>4 DEF Wanted
  <2>4. r.path = q /\ r.kind = (IF x.category THEN "list" ELSE "value")
    BY DEF List, Value
  <2> HIDE DEF c, x, r, gs
  <2>5. q \in IF x.category THEN DOMAIN Listings ELSE DOMAIN Texts
    <3>1. c \in DOMAIN Listings
      BY <2>2, InnermostRight
    <3>2. QED BY <2>3, <3>1, WantedIs
  <2>6. r.kind \in {"list", "value"} /\ RequestServed(r) /\ Send(r)
    BY <2>1, <2>4, <2>5 DEF RequestServed
  <2>7. \A p : p # q => (p \in refused' <=> p \in refused)
    <3>1. \A p : p # r.path => (p \in refused' <=> p \in refused)
      BY ONLY <2>6, SendRight
    <3>2. QED BY <2>4, <3>1
  <2>8. CallsRight(gs, q, refused') /\ Len(q) = Len(frames)
    <3> DEFINE gone == refused
               now == refused'
               fs == frames
    <3>1. /\ CallsRight(fs, c, gone) /\ Len(c) = Len(fs) - 1 /\ x \in Wanted(c)
          /\ fs[Len(fs)].lines # <<>> /\ x = Head(fs[Len(fs)].lines)
          /\ SameBut(Append(c, x.name), gone, now)
      BY <2>2, <2>3, <2>7 DEF SameBut
    <3> HIDE DEF gone, now, fs
    <3>2. CallsRight(Taken(fs), Append(c, x.name), now)
      BY ONLY <3>1, AskRight
    <3>3. Len(Append(c, x.name)) = Len(fs)
      BY ONLY <3>1, AskRight
    <3>4. QED BY <3>2, <3>3 DEF now, fs, gs
  <2>9. Len(gs) = Len(frames)
    <3>1. PICK S : frames \in Seq(S)
      BY <2>2 DEF CallsRight
    <3>2. DOMAIN gs = DOMAIN frames /\ \E R : gs \in Seq(R)
      BY <2>8 DEF CallsRight, gs, Taken
    <3>3. QED BY <3>1, <3>2, LenProperties
  <2> HIDE DEF q
  <2>10. CallsRight(frames', r.path, refused') /\ Len(r.path) = Len(frames')
    BY <2>1, <2>4, <2>8, <2>9
  <2>11. WalkRight'
    BY ONLY <2>6, <2>10, WalkAsks
  <2>12. NoMetadata'
    BY <2>1 DEF ServedInv, WalkInv, Walking, Untouched, NoMetadata
  <2>13. QED BY <2>11, <2>12, NothingYet
<1>10. CASE EndCategory
  <2>1. /\ pc = "line" /\ pc' = "line" /\ Innermost.lines = <<>> /\ Len(frames) > 1
        /\ UNCHANGED <<facts, refused>>
        /\ frames' = [Front(frames) EXCEPT ![Len(frames) - 1].map =
                          AddToMap(@, Last(Innermost.path), Map(Innermost.map))]
    BY <1>10 DEF EndCategory
  <2> DEFINE q == Innermost.path
             gs == frames'
  <2>2. CallsRight(frames, q, refused) /\ Len(q) = Len(frames) - 1
    BY <2>1 DEF ServedInv, WalkRight
  <2>3. /\ frames[Len(frames)].lines = <<>>
        /\ gs = [Front(frames) EXCEPT ![Len(frames) - 1].map =
                     AddToMap(@, Last(q), Map(frames[Len(frames)].map))]
    BY <2>1 DEF Innermost
  <2>4. Innermost' = gs[Len(gs)]
    BY DEF Innermost
  <2> HIDE DEF q, gs
  <2>5. CallsRight(gs, gs[Len(gs)].path, refused) /\ Len(gs[Len(gs)].path) = Len(gs) - 1
    BY <2>1, <2>2, <2>3, EndStep
  <2>6. WalkRight'
    BY <2>1, <2>4, <2>5 DEF WalkRight, Asking, gs
  <2>7. QED BY <2>1, <2>6, ServedStays DEF ServedInv, NoMetadata
<1>11. CASE EndMetadata
  <2>1. /\ pc = "line" /\ Innermost.lines = <<>> /\ Len(frames) = 1 /\ Send(UserData)
        /\ facts' = IF DOMAIN Innermost.map = {} THEN facts
                    ELSE AddToMap(facts, "ec2_metadata", Map(Innermost.map))
    BY <1>11 DEF EndMetadata
  <2>2. pc' = "request" /\ request' = UserData /\ UserData.kind = "userdata"
    BY <2>1 DEF Send, UserData
  <2>3. \A p : p # UserData.path => (p \in refused' <=> p \in refused)
    BY <2>1 DEF Send
  <2> DEFINE q == Innermost.path
             m == frames[Len(frames)].map
             gone == refused
             now == refused'
  <2>4. CallsRight(frames, q, gone) /\ Len(q) = Len(frames) - 1 /\ frames[Len(frames)].lines = <<>>
    BY <2>1 DEF ServedInv, WalkRight, Innermost
  <2>5. Innermost.map = m
    BY DEF Innermost
  <2>6. FrameRight(gone, Root, m, WantedNames(Root))
    <3> HIDE DEF q, gone
    <3>1. QED BY <2>1, <2>4, RootEnds
  <2>7. FrameRight(now, Root, m, WantedNames(Root))
    <3> DEFINE u == UserData.path
    <3>1. \A p : p # u => (p \in now <=> p \in gone)
      BY <2>3
    <3>2. Elsewhere(u, Root, WantedNames(Root)) /\ Root \in DOMAIN Listings
      BY PathsApart, ServiceIsTree DEF Elsewhere
    <3> HIDE DEF u, now, gone, m
    <3>3. QED BY <2>6, <3>1, <3>2, OtherRefused
  <2>8. NoMetadata
    BY <2>1 DEF ServedInv, WalkInv, Walking, Untouched
  <2> HIDE DEF m
  <2>9. "ec2_metadata" \in DOMAIN facts' => facts'["ec2_metadata"] = Map(m)
    BY <2>1, <2>5, <2>8 DEF NoMetadata, AddToMap
  <2>10. MetadataIsServed'
    BY <2>7, <2>9, WholeTreeServed
  <2>11. QED BY <2>2, <2>10, WalkOver
<1>12. CASE UserDataAnswered
  <2>1. /\ pc' = "done" /\ UNCHANGED refused
        /\ facts' \in {facts, AddToMap(facts, "ec2_userdata", [text |-> ctx.body])}
    BY <1>12 DEF UserDataAnswered
  <2>2. QED BY <2>1, OtherKeyServed, WalkOver DEF ServedInv
<1>13. CASE GceRefused
  BY <1>13, WalkOver, ServedStays DEF GceRefused, ServedInv, NoMetadata
<1>14. CASE GceAnswered
  <2>1. /\ pc' = "done" /\ UNCHANGED refused
        /\ \E v : facts' \in {facts, AddToMap(facts, "gce", v)}
    BY <1>14 DEF GceAnswered
  <2>2. PICK v : facts' \in {facts, AddToMap(facts, "gce", v)}
    BY <2>1
  <2>3. MetadataIsServed'
    BY <2>1, <2>2, OtherKeyServed DEF ServedInv
  <2>4. QED BY <2>1, <2>3, WalkOver
<1>15. CASE MetadataFails
  <2>1. /\ Walking /\ Send(UserData) /\ UNCHANGED facts
    BY <1>15 DEF MetadataFails, Fails, Walking, Asking
  <2>2. pc' = "request" /\ request' = UserData /\ UserData.kind = "userdata"
    BY <2>1 DEF Send, UserData
  <2>3. NoMetadata'
    BY <2>1 DEF ServedInv, WalkInv, Untouched, NoMetadata
  <2>4. QED BY <2>2, <2>3, WalkOver, NothingYet
<1>16. CASE RootFails
  BY <1>16, WalkOver, ServedStays DEF RootFails, ServedInv, NoMetadata
<1>17. CASE LastFails
  BY <1>17, WalkOver, ServedStays DEF LastFails, ServedInv, NoMetadata
<1>18. QED
  BY <1>1, <1>2, <1>3, <1>4, <1>5, <1>6, <1>7, <1>8, <1>9, <1>10, <1>11, <1>12, <1>13,
     <1>14, <1>15, <1>16, <1>17 DEF Next

\* The fact ec2_metadata is the tree of the service, for every tree, every refusal and every
\* redirect: each text under its path as it was served, nothing that was refused and
\* nothing else (query_metadata in ec2_resolver.cc, and the response handlers of client.cc).
THEOREM MetadataIsServedCorrect == Spec => []MetadataIsServed
<1>1. Init => ServedInv
  <2>1. Init => WalkInv
    BY DEF Init, WalkInv, Walking, Asking, Untouched, NoMetadata, EmptyMap, UserData,
           FailureDropsMetadata
  <2>2. Init => WalkRight /\ MetadataIsServed
    BY DEF Init, WalkRight, Asking, MetadataIsServed, EmptyMap
  <2>3. QED BY <2>1, <2>2 DEF ServedInv
<1>2. ServedInv /\ [Next]_vars => ServedInv'
  <2>1. ServedInv /\ UNCHANGED vars => ServedInv'
    <3> SUFFICES ASSUME ServedInv, UNCHANGED vars PROVE ServedInv'
      OBVIOUS
    <3>1. WalkInv'
      BY DEF ServedInv, WalkInv, Walking, Asking, Untouched, AfterWalk, NoMetadata,
             FailureDropsMetadata, vars
    <3>2. MetadataIsServed'
      BY ServedStays DEF ServedInv, NoMetadata, vars
    <3>3. Heard(ctx, incoming)' = Heard(ctx, incoming)
      BY DEF Heard, FoldLeft, MapThenFoldSet, vars
    <3>4. AnswerRight' <=> AnswerRight
      BY <3>3 DEF AnswerRight, RequestServed, Served, vars
    <3>5. WalkRight'
      BY <3>4 DEF ServedInv, WalkRight, Asking, Innermost, vars
    <3>6. QED BY <3>1, <3>2, <3>5 DEF ServedInv
  <2>2. ServedInv /\ Next => ServedInv'
    BY NextKeeps, StepServes DEF ServedInv
  <2>3. QED BY <2>1, <2>2
<1>3. ServedInv => MetadataIsServed
  BY DEF ServedInv
<1>4. QED BY <1>1, <1>2, <1>3, PTL DEF Spec
=============================================================================
