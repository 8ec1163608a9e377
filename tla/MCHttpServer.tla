--------------------------- MODULE MCHttpServer ---------------------------
(* TLC instances of HttpServer: the requests its clients send.             *)
EXTENDS HttpServer

Line(method, target) ==
    <<method, "SP">> \o target \o <<"SP", "HTTP/1.1">> \o CRLF

Field(name, value) == <<name, ":", "SP", value, "SP">> \o CRLF

Request(line, fields, body, outcome) ==
    [tokens |-> line \o fields \o CRLF \o body, outcome |-> outcome]

Called(type, path) == [type |-> type, router |-> path]

GetPage ==
    Request(Line("GET", <<"/", "page">>), Field("Host", "h"), <<>>,
            Called("kGet", <<"/", "page">>))

\* The path is in a URL, and there is a query.
GetUrl ==
    Request(Line("GET", <<"http", ":", "//", "h", "/", "file", "?", "q">>), <<>>,
            <<>>, Called("kGet", <<"/", "file">>))

GetFile(path) ==
    Request(Line("GET", path), <<>>, <<>>, Called("kGet", path))

Post(body) ==
    Request(Line("POST", <<"/", "file">>), Field("Content-Length", "2"), body,
            Called("kPost", <<"/", "file">>))

GetNothing == Request(Line("GET", <<"/", "none">>), <<>>, <<>>, Refused)

BadMethod == Request(Line("PUT", <<"/", "page">>), <<>>, <<>>, Refused)
BadTarget == Request(Line("GET", <<"/", "..", "/", "page">>), <<>>, <<>>, Refused)
BadQuery == Request(Line("GET", <<"/", "page", "?", "%bad">>), <<>>, <<>>, Refused)
BadField == Request(Line("GET", <<"/", "page">>), <<"no", "SP", "colon">> \o CRLF,
                    <<>>, Refused)
BadName == Request(Line("GET", <<"/", "page">>), <<"a", "SP", ":", "v">> \o CRLF,
                   <<>>, Refused)
NoSpace == Request(<<"GET">> \o CRLF, Field("Host", "h"), <<>>, Refused)
NoHost == Request(Line("GET", <<"http", ":", "//", "h">>), <<>>, <<>>, Refused)

\* The script of a client that sends these requests.
Script(requests) ==
    LET Tokens(k) == FlattenSeq([i \in 1..k |-> requests[i].tokens])
    IN  [tokens |-> Tokens(Len(requests)),
         ends |-> [k \in 1..Len(requests) |-> Len(Tokens(k))],
         outcomes |-> [k \in 1..Len(requests) |-> requests[k].outcome]]

\* Only the last request of a script has a body.
MCRequests ==
    {<<GetFile(<<"/", "file">>), GetUrl>>, <<GetPage, GetFile(<<"/", "large">>)>>,
     <<GetFile(<<"/", "file">>), GetFile(<<"/", "large">>), GetPage>>,
     <<GetPage, Post(CRLF)>>, <<Post(<<"a", "b">>)>>,
     <<GetFile(<<"/", "lost">>), GetNothing>>}
    \cup {<<GetPage, bad>> : bad \in {BadMethod, BadTarget, BadQuery, BadField,
                                      BadName, NoSpace, NoHost}}

MCScripts == {Script(requests) : requests \in MCRequests}

\* The body of a request is followed by another request.
KeepAliveScripts == {Script(<<Post(<<"a", "b">>), GetPage>>)}

MCRoutes ==
    (<<"/", "page">> :> [kind |-> "page", size |-> 2]) @@
    (<<"/", "file">> :> [kind |-> "file", size |-> 2]) @@
    (<<"/", "large">> :> [kind |-> "file", size |-> 3]) @@
    (<<"/", "lost">> :> [kind |-> "missing", size |-> 0])
=============================================================================
