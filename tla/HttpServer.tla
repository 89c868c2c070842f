----------------------------- MODULE HttpServer -----------------------------
(***************************************************************************)
(* HttpServer (http/http_server.cc), HttpContext (http/http_context.cc),   *)
(* HttpRequest and HttpResponse on one TcpConnection.                      *)
(*                                                                         *)
(* The peer's byte stream is a sequence of lines.  A line is cut into two  *)
(* halves, the second ends in CRLF; a read brings any number of halves.    *)
(* All of the server runs on the connection's loop: a read, with           *)
(* OnMessage, is one step.  The input buffer holds the halves from line    *)
(* retrieved + 1 on (RetrieveUntil always ends after a CRLF).              *)
(***************************************************************************)
EXTENDS Naturals, Sequences

CONSTANT Streams   \* the streams a peer may send

\* A line: how many words it has, what is first and last in it, and whether it
\* has a colon.  last says where the peer means a request to end.
Lines == [words : 0..3, method : STRING, version : STRING, colon : BOOLEAN,
          last : BOOLEAN]

ASSUME StreamsAssumption == \A s \in Streams : s \in Seq(Lines)

VARIABLES
  stream,      \* what the peer sends
  arrived,     \* halves of lines read from the socket so far
  retrieved,   \* lines taken out of the input buffer so far
  state_,      \* of the connection: "kConnected", "kDisconnecting" (Shutdown)
  handled,     \* requests given to http_callback_, by their first line
  output,      \* what was sent
  whole        \* history: each read brought one whole request of the peer

httpVars == <<stream, arrived, retrieved, state_, handled, output, whole>>

\* status 400 answers nothing; len: does it have a Content-Length?
Responses == [to : Nat, len : BOOLEAN]
BadRequest == [to |-> 0, len |-> FALSE]

\* Type invariant.
HttpTypeOK ==
  /\ stream \in Streams
  /\ arrived \in 0..(2 * Len(stream)) /\ retrieved \in 0..Len(stream)
  /\ state_ \in {"kConnected", "kDisconnecting"}
  /\ handled \in Seq(Nat) /\ output \in Seq(Responses)
  /\ whole \in BOOLEAN

HttpInit ==
  /\ stream \in Streams
  /\ arrived = 0 /\ retrieved = 0 /\ state_ = "kConnected"
  /\ handled = <<>> /\ output = <<>> /\ whole = TRUE

-----------------------------------------------------------------------------
(* HttpContext::ParseRequest, on a fresh context, when n halves arrived.   *)

\* SetMethod
Methods == {"GET", "POST", "HEAD", "PUT", "DELETE"}

\* ProcessRequestLine: a method, a target, and HTTP/1.0 or HTTP/1.1.
ProcessRequestLine(line) ==
  /\ line.words = 3 /\ line.method \in Methods
  /\ line.version \in {"HTTP/1.0", "HTTP/1.1"}

\* FindCRLF: the lines of the buffer that are complete.
Complete(n) == (retrieved + 1)..(n \div 2)

\* The lines after the request line up to the first without a colon, which ends
\* the headers.
HeaderEnds(n) == {j \in Complete(n) : j > retrieved + 1 /\ ~stream[j].colon}

\* ok: the request line is complete and good.
RequestLineOk(n) ==
  Complete(n) # {} /\ ProcessRequestLine(stream[retrieved + 1])

\* Mutant: the line that ends the headers stays in the buffer.
RetrievedBeforeEnd(n) ==
  IF ~RequestLineOk(n) THEN retrieved
  ELSE IF HeaderEnds(n) = {} THEN n \div 2
  ELSE (CHOOSE j \in HeaderEnds(n) : \A k \in HeaderEnds(n) : j <= k) - 1

\* What is taken out of the buffer: nothing if the request line is not ok, else
\* the lines through the end of the headers, or all that are complete.
Retrieved(n) ==
  IF ~RequestLineOk(n) THEN retrieved
  ELSE IF HeaderEnds(n) = {} THEN n \div 2
  ELSE CHOOSE j \in HeaderEnds(n) : \A k \in HeaderEnds(n) : j <= k

\* GotAll(): the state is kGotAll.
GotAll(n) == RequestLineOk(n) /\ HeaderEnds(n) # {}

-----------------------------------------------------------------------------
(* The connection.                                                         *)

\* Mutant: sent whatever the state.
SendAlways(r) == output' = Append(output, r)

\* TcpConnection::Send: dropped unless kConnected.
Send(r) == output' = IF state_ = "kConnected" THEN Append(output, r) ELSE output

-----------------------------------------------------------------------------
(* HttpServer.                                                             *)

\* The response as AppendToBuffer writes it: a Content-Length only when the
\* connection is kept.
Response(request, close) == [to |-> request, len |-> ~close]

\* OnRequest: the callback may change CloseConnection(), which is true (what
\* the request says about it is computed and overwritten).
OnRequest(request) ==
  /\ handled' = Append(handled, request)
  /\ \E close \in BOOLEAN :
       /\ Send(Response(request, close))
       /\ state_' = IF close THEN "kDisconnecting" ELSE state_

\* OnMessage: parse with a new context; 400 and Shutdown() when ParseRequest
\* says false, also when the request line has not arrived whole.
OnMessage(n) ==
  /\ retrieved' = Retrieved(n)
  /\ \/ /\ ~RequestLineOk(n)
        /\ Send(BadRequest)
        /\ state_' = "kDisconnecting"
        /\ UNCHANGED handled
     \/ /\ GotAll(n)
        /\ OnRequest(retrieved + 1)
     \/ /\ RequestLineOk(n) /\ ~GotAll(n)
        /\ UNCHANGED <<handled, output, state_>>

\* The peer's requests end at these halves.
RequestEnds == {2 * j : j \in {i \in DOMAIN stream : stream[i].last}}

\* TcpConnection::HandleRead: n halves have arrived.
HandleRead(n) ==
  /\ n > arrived
  /\ arrived' = n
  /\ whole' = (whole /\ n \in RequestEnds
                 /\ \A m \in RequestEnds : m > arrived => m >= n)
  /\ OnMessage(n)
  /\ UNCHANGED stream

\* The peer sends nothing more, or has gone.
Quiet == UNCHANGED httpVars

HttpNext == (\E n \in 1..(2 * Len(stream)) : HandleRead(n)) \/ Quiet

HttpSpec == HttpInit /\ [][HttpNext]_httpVars

-----------------------------------------------------------------------------
(* Properties.                                                             *)

\* A peer that finds the end of each response by its Content-Length and counts
\* responses gets the right ones: they answer different requests, in the order
\* they came, those before the last have a length, a 400 comes last, and
\* nothing follows one after which the write side is shut.
AnswersInOrder ==
  /\ \A i, j \in DOMAIN output :
       i < j => /\ output[i].len
                /\ output[i].to < output[j].to \/ output[j] = BadRequest
  /\ \A i, j \in DOMAIN handled : i < j => handled[i] < handled[j]
  /\ state_ = "kConnected" =>
       [i \in DOMAIN output |-> output[i].to] = handled

\* The peer's requests that have arrived whole.
Requests == {i \in DOMAIN stream : i = 1 \/ stream[i - 1].last}
ArrivedRequests == {i \in Requests : \E j \in DOMAIN stream :
                      i <= j /\ stream[j].last /\ 2 * j <= arrived}

\* The peer's lines are a sequence of good requests: a request line, headers
\* with a colon, and a line without one that ends them.
GoodStream ==
  \A i \in DOMAIN stream :
    IF i \in Requests THEN ProcessRequestLine(stream[i]) /\ ~stream[i].last
                      ELSE stream[i].colon <=> ~stream[i].last

\* Good requests that arrive one per read are all given to the callback and
\* answered until a response closes; none is refused.  (A request cut by a read
\* is refused or forgotten, and the second of two in one read waits for another
\* read: each OnMessage makes a new context and parses one request.)
WholeIsAnswered ==
  whole /\ GoodStream =>
    /\ {handled[i] : i \in DOMAIN handled} = ArrivedRequests
    /\ \A i \in DOMAIN output : output[i] # BadRequest
    /\ state_ = "kConnected" => Len(output) = Len(handled)
=============================================================================
