--------------------------- MODULE MCHttpServer ---------------------------
(* Instance of HttpServer for TLC: streams of up to three requests.        *)
EXTENDS HttpServer

Line(words, method, version, colon, last) ==
  [words |-> words, method |-> method, version |-> version, colon |-> colon,
   last |-> last]

Get    == Line(3, "GET", "HTTP/1.1", FALSE, FALSE)
Post   == Line(3, "POST", "HTTP/1.0", TRUE, FALSE)
Host   == Line(2, "Host:", "a", TRUE, FALSE)
Junk   == Line(1, "junk", "junk", FALSE, FALSE)
BadVer == Line(3, "GET", "HTTP/2.0", FALSE, FALSE)
NoUri  == Line(2, "GET", "HTTP/1.1", FALSE, FALSE)
Empty  == Line(0, "", "", FALSE, TRUE)

MCRequests == {<<Get, Empty>>, <<Post, Host, Empty>>, <<Get, Junk, Empty>>,
               <<BadVer, Empty>>, <<NoUri, Host, Empty>>}
MCStreams == {a \o b \o c : a, b, c \in MCRequests}
=============================================================================
