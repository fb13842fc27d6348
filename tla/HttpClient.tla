------------------------------ MODULE HttpClient ------------------------------
(* facter::http::client (lib/src/http/client.cc): what the callbacks make of  *)
(* the header lines and the pieces of a body libcurl hands them. libcurl      *)
(* follows redirects, so the responses of one request come one after another. *)
EXTENDS Naturals, SequencesExt, TLC

\* The lines of a response, and the pieces of its body.
Illegible == 0  \* the code of a status line of another form than "HTTP/1.1 200 OK"
Status(code)  == [kind |-> "status", code |-> code]
Header(name, value) == [kind |-> "header", name |-> name, value |-> value]
Blank         == [kind |-> "blank"]
Piece(text)   == [kind |-> "body", text |-> text]

\* The context of a request and its response.
NewContext == [status |-> 0, headers |-> [name \in {} |-> ""], body |-> <<>>]

\* Mutant of WriteHeader: the status of the first response stays.
WriteHeaderFirst(ctx, line) ==
    CASE line.kind = "status" ->
           [ctx EXCEPT !.status = IF @ = 0 THEN line.code ELSE @, !.body = <<>>]
      [] line.kind = "blank"  -> ctx
      [] line.kind = "header" -> [ctx EXCEPT !.headers = @ @@ (line.name :> line.value)]

\* A status line starts a response: the body is cleared, the headers are not, and the
\* first header of a name stays. One that is not legible leaves the status as it was.
WriteHeader(ctx, line) ==
    CASE line.kind = "status" ->
           [ctx EXCEPT !.status = IF line.code = Illegible THEN @ ELSE line.code, !.body = <<>>]
      [] line.kind = "blank"  -> ctx
      [] line.kind = "header" -> [ctx EXCEPT !.headers = @ @@ (line.name :> line.value)]
WriteBody(ctx, piece) == [ctx EXCEPT !.body = @ \o piece.text]
Receive(ctx, event) ==
    IF event.kind = "body" THEN WriteBody(ctx, event) ELSE WriteHeader(ctx, event)
=============================================================================
