----------------------------- MODULE HttpServer -----------------------------
(***************************************************************************)
(* HttpServer (src/contrib/http/http_server.cc) on one connection: the     *)
(* parser fed with the bytes of ReadCb() however TCP cut them, and the     *)
(* responses, the ones read from a file pumped through WriteCb().  Of the  *)
(* connection only what the server sees is kept: whether output waits for  *)
(* the socket, and the write_cb_ functors in the loop; TcpConnection       *)
(* models it in full.                                                      *)
(***************************************************************************)
EXTENDS HttpRequest

CONSTANTS
    Scripts,    \* what a client sends: the tokens, and for each request where in
                \* them it ends and the outcome it is to have
    Routes,     \* routers_: from a router to the kind and size of its answer
    ChunkSize,  \* what LoadData() reads at a time (1 MB in the code)
    MaxScript,  \* the longest script
    Pipelining  \* the client does not wait for the answer to a request

ASSUME HttpAssumption ==
    /\ ChunkSize \in Nat \ {0} /\ MaxScript \in Nat /\ Pipelining \in BOOLEAN
ASSUME ScriptsAssumption ==
    \A s \in Scripts :
        /\ s.ends \in Seq(Nat) /\ Len(s.ends) \in 1..MaxScript
        /\ \A j, k \in DOMAIN s.ends : j < k => s.ends[j] < s.ends[k]
        /\ s.ends[Len(s.ends)] = Len(s.tokens) /\ Len(s.outcomes) = Len(s.ends)
ASSUME RoutesAssumption ==
    \A r \in DOMAIN Routes : /\ r # <<>> /\ Routes[r].size \in Nat
                            /\ Routes[r].kind \in {"page", "file", "missing", "unreadable"}

VARIABLES
    script,     \* the script of this run's client
    got,        \* how many tokens of it have been read
    inbuf,      \* input_buffer_
    request,    \* context.request_
    response,   \* context.response_
    wild,       \* the parser did something undefined, or threw
    conn,       \* state_ of the connection
    waiting,    \* output_buffer_ holds data, channel_ is writing
    fin,        \* shutdown(fd_, SHUT_WR) was called
    todo,       \* {"poll"}, {"functors"} or what Channel::Handle() still calls
    write_cbs,  \* write_cb_ functors queued in the loop
    batch,      \* the ones of this pass that have not run yet
    \* History.
    handled,    \* what became of the requests, in order
    out         \* per response: its content-length and what was sent of it

parserVars == <<script, got, inbuf, request, wild>>
connVars == <<conn, waiting, fin, write_cbs>>
vars == <<parserVars, response, connVars, todo, batch, handled, out>>

Refused == [type |-> "refused", router |-> <<>>]

\* How many requests the client sends, and where the k-th ends.
Requests == Len(script.ends)
EndOf(k) == script.ends[k]

-----------------------------------------------------------------------------
(* Responses: what is in buf_, whether file_ is open, what is left in it   *)
(* and whether it is at its end; length is the header field.               *)

Response(length, buf, file, left) ==
    [length |-> length, buf |-> buf, file |-> file, left |-> left, eof |-> FALSE]

DefaultResponse == Response(0, 0, FALSE, 0)

\* FileResponse().  A file that cannot be opened has a text in its place.
FileResponse(route) ==
    CASE route.kind = "file" -> Response(route.size, 0, TRUE, route.size)
      [] route.kind = "missing" -> Response(0, 0, FALSE, 0)
      [] route.kind = "unreadable" -> Response(route.size, 1, FALSE, 0)

\* The MessageCallback of a route, ReadFileAsResponse() for a file's.
Answer(req) ==
    LET route == Routes[req.router]
    IN  IF route.kind = "page"
        THEN Response(route.size, route.size, FALSE, 0)
        ELSE IF req.type = "kGet" THEN FileResponse(route)
        ELSE Response(0, 0, FALSE, 0)

\* Mutant: the file is taken to be at its end one chunk too early.
NothingAfterThisChunk(resp) == resp.file /\ resp.left > ChunkSize

HasMoreDataToLoad(resp) == resp.file /\ ~resp.eof

LoadData(resp) ==
    LET readed == Min({resp.left, ChunkSize})
    IN  [resp EXCEPT !.buf = @ + readed, !.left = @ - readed,
                     !.eof = resp.left < ChunkSize]

\* Mutant: what was sent stays in the buffer of the response.
PopForgotten(resp) == resp

Popped(resp) == [resp EXCEPT !.buf = 0]

-----------------------------------------------------------------------------
(* The connection.                                                         *)

\* Send() called once per element of sizes.  Behind waiting output it appends;
\* otherwise it writes, and queues write_cb_ when all of it could be written.
Send(sizes) ==
    IF conn # "kEstablished" \/ waiting THEN UNCHANGED <<waiting, write_cbs>>
    ELSE \E j \in 0..Len(sizes) :
             /\ j < Len(sizes) => sizes[j + 1] > 0
             /\ write_cbs' = write_cbs + j
             /\ waiting' = (j < Len(sizes))

\* The history of what Send() took over for the last response.
Sent(records, n) ==
    IF conn = "kEstablished" /\ n > 0
    THEN [records EXCEPT ![Len(records)].sent = @ + n] ELSE records

\* Send() of an error and Shutdown().
Refuse ==
    /\ Send(<<1>>)
    /\ IF conn = "kEstablished"
       THEN /\ conn' = "kHalfShutdown"
            /\ fin' = ~waiting'
            /\ handled' = Append(handled, Refused)
       ELSE UNCHANGED <<conn, fin, handled>>
    /\ UNCHANGED <<response, out>>

-----------------------------------------------------------------------------
(* The callbacks.                                                          *)

\* ConnCb(): Context{}.
Init ==
    /\ script \in Scripts
    /\ got = 0
    /\ inbuf = <<>>
    /\ request = NewRequest
    /\ response = DefaultResponse
    /\ wild = FALSE
    /\ conn = "kEstablished"
    /\ waiting = FALSE
    /\ fin = FALSE
    /\ todo = {"poll"}
    /\ write_cbs = 0
    /\ batch = 0
    /\ handled = <<>>
    /\ out = <<>>

\* The responses a client has received whole.
Answered ==
    Cardinality({i \in DOMAIN out : /\ out[i].sent = out[i].length
                                    /\ i = Len(out) => ~waiting})

\* A client that does not pipeline sends a request after the last response.
Sendable ==
    EndOf(IF Pipelining \/ Answered >= Requests THEN Requests ELSE Answered + 1)

\* PollUntil(): the socket is readable, writable or both, or the loop was woken
\* up to run functors.
Poll ==
    /\ todo = {"poll"} /\ ~wild
    /\ \E ready \in SUBSET {"read", "write"} :
           /\ "write" \in ready => waiting
           /\ ready # {} => conn # "kDisconnected"
           /\ ready = {} => write_cbs > 0
           /\ todo' = ready
    /\ UNCHANGED <<parserVars, response, connVars, batch, handled, out>>

\* A request is complete and has a route.
Handle(req) ==
    LET answer == Answer(req)
    IN  /\ handled' = Append(handled, [type |-> req.type, router |-> req.router])
        /\ out' = IF conn = "kEstablished"
                  THEN Append(out, [length |-> answer.length, sent |-> answer.buf])
                  ELSE out
        /\ response' = Popped(answer)
        /\ Send(IF answer.buf > 0 THEN <<1, answer.buf>> ELSE <<1>>)
        /\ UNCHANGED <<conn, fin>>

\* HandleRead() of n tokens, and ReadCb().
ReadCb(n) ==
    LET fresh == IF request.state = "kDone" THEN NewRequest ELSE request
        parsed == Process(fresh, inbuf \o SubSeq(script.tokens, got + 1, got + n))
        req == parsed.req
    IN  /\ "read" \in todo
        /\ got' = got + n
        /\ inbuf' = parsed.buf
        /\ request' = req
        /\ wild' = parsed.wild
        /\ todo' = todo \ {"read"}
        /\ CASE req.state = "kRequestIsBad" -> Refuse
             [] req.state = "kDone" /\ req.router \notin DOMAIN Routes -> Refuse
             [] req.state = "kDone" /\ req.router \in DOMAIN Routes -> Handle(req)
             [] OTHER -> UNCHANGED <<response, connVars, handled, out>>
        /\ UNCHANGED <<script, batch>>

\* The client has closed its side: HandleRead() calls HandleClose().
HandleClose ==
    /\ "read" \in todo
    /\ conn' = "kDisconnected"
    /\ todo' = todo \ {"read"}
    /\ UNCHANGED <<parserVars, response, waiting, fin, write_cbs, batch, handled,
                   out>>

\* HandleWrite() that empties output_buffer_, and one that does not.
HandleWrite ==
    /\ todo = {"write"}
    /\ todo' = {}
    /\ waiting' = FALSE
    /\ write_cbs' = write_cbs + 1
    /\ fin' = (fin \/ conn = "kHalfShutdown")
    /\ UNCHANGED <<parserVars, response, conn, batch, handled, out>>

HandleWritePart ==
    /\ todo = {"write"}
    /\ todo' = {}
    /\ UNCHANGED <<parserVars, response, connVars, batch, handled, out>>

\* DoPeddingFunctors(): the functors queued so far are run; then the loop
\* polls again.
DoPeddingFunctors ==
    /\ todo = {} /\ batch = 0 /\ ~wild
    /\ batch' = write_cbs
    /\ write_cbs' = 0
    /\ todo' = IF write_cbs = 0 THEN {"poll"} ELSE {"functors"}
    /\ UNCHANGED <<parserVars, response, conn, waiting, fin, handled, out>>

WriteCb ==
    LET loaded == LoadData(response)
    IN  /\ todo = {"functors"}
        /\ batch' = batch - 1
        /\ todo' = IF batch = 1 THEN {"poll"} ELSE todo
        /\ IF HasMoreDataToLoad(response)
           THEN /\ Send(<<loaded.buf>>)
                /\ out' = Sent(out, loaded.buf)
                /\ response' = Popped(loaded)
           ELSE UNCHANGED <<waiting, write_cbs, out, response>>
        /\ UNCHANGED <<parserVars, conn, fin, handled>>

Next ==
    \/ Poll
    \/ \E n \in 1..(Sendable - got) : ReadCb(n)
    \/ HandleClose \/ HandleWrite \/ HandleWritePart
    \/ DoPeddingFunctors \/ WriteCb

\* The loop goes on; a writable socket does not for ever take only a part.
LoopGoesOn == Poll /\ (todo' = {} \/ "write" \in todo')
Fairness ==
    /\ WF_vars(LoopGoesOn) /\ WF_vars(DoPeddingFunctors) /\ WF_vars(WriteCb)
    /\ WF_vars(HandleClose \/ \E n \in 1..(Sendable - got) : ReadCb(n))
    /\ WF_vars(HandleWrite \/ HandleWritePart)
    /\ SF_vars(HandleWrite)

Spec == Init /\ [][Next]_vars /\ Fairness

-----------------------------------------------------------------------------
(* Properties.                                                             *)

TypeOK ==
    /\ got \in 0..Len(script.tokens)
    /\ request.state \in {"kExpectStartLine", "kExpectHeaderLine", "kExpectBody",
                          "kRequestIsBad", "kDone"}
    /\ conn \in {"kEstablished", "kHalfShutdown", "kDisconnected"}
    /\ waiting \in BOOLEAN /\ fin \in BOOLEAN /\ wild \in BOOLEAN
    /\ write_cbs \in Nat /\ batch \in Nat

\* However TCP cuts the stream into reads, the server does with every request
\* what the script says: the handler of its route runs for the right method,
\* in order, once and not before all of the request has arrived, and what is
\* malformed or has no route is refused (ReadCb, Process).  Nothing undefined
\* happens on the way.
HandledAsSent ==
    /\ TypeOK
    /\ ~wild
    /\ Len(handled) <= Requests
    /\ \A k \in DOMAIN handled :
           /\ handled[k] = script.outcomes[k]
           /\ handled[k] # Refused => got >= EndOf(k)

\* A response is never longer than its content-length field, and the next one
\* begins when it is complete: write_cb_ functors of an earlier response may
\* still be queued when response_ is replaced (l. 77), and pump the new one
\* (l. 107-120).
ResponsesAreWhole ==
    \A i \in DOMAIN out :
        /\ out[i].sent <= out[i].length
        /\ i < Len(out) => out[i].sent = out[i].length

\* A request that has been read is answered in full: the pump of WriteCb()
\* never stops before the end of a file.
RequestsAnswered ==
    \A k \in 1..MaxScript :
        (k <= Requests /\ got >= EndOf(k))
            ~> (Answered >= k \/ conn # "kEstablished")
=============================================================================
