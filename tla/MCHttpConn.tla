----------------------------- MODULE MCHttpConn -----------------------------
(* Instances of HttpConn for TLC.                                          *)
EXTENDS HttpConn

CRLF == <<"CR", "LF">>
Get == <<"get">> \o CRLF
Keep == <<"keep">> \o CRLF
Length == <<"len">> \o CRLF
Other == <<"other">> \o CRLF

\* Plain, keep-alive, too long for the buffer, with a body of text or of a line end, and
\* with bad request lines.
MCRequests == {Get \o CRLF, Get \o Keep \o CRLF, Get \o Keep \o Other \o Other \o CRLF,
               Get \o Length \o CRLF \o <<"other", "other">>,
               Get \o Keep \o Length \o CRLF \o CRLF,
               Other \o CRLF, <<"get", "other">> \o CRLF \o Keep \o CRLF}
=============================================================================
