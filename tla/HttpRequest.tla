---------------------------- MODULE HttpRequest ----------------------------
(***************************************************************************)
(* HttpRequest (src/contrib/http/http_request.cc): the parser, as          *)
(* operators on what Process() reads and changes.  The buffer is a         *)
(* sequence of tokens: words, "SP", ":", "?", "CR", "LF" and so on, each   *)
(* of length one.  A method name, a field name or a number is one word.    *)
(***************************************************************************)
EXTENDS Integers, Sequences, SequencesExt, FiniteSetsExt

CRLF == <<"CR", "LF">>

\* Buffer::FirstOf(): where data begins in buf, 0-based, or -1.
FirstOf(buf, data) ==
    LET at == {i \in 0..(Len(buf) - Len(data)) :
                  SubSeq(buf, i + 1, i + Len(data)) = data}
    IN  IF at = {} THEN -1 ELSE Min(at)

\* What Buffer::Pop(n) leaves.
Drop(buf, n) == SubSeq(buf, n + 1, Len(buf))

\* content-length: none was seen, or one that is not a number.
NoLength == -1
NotANumber == -2

NewRequest ==
    [state |-> "kExpectStartLine", type |-> "kUnknow", router |-> <<>>,
     length |-> NoLength, chunked |-> FALSE]

-----------------------------------------------------------------------------
(* ParseTarget().                                                          *)

\* The part of a target before and the one after its "?".
PathOf(target) ==
    LET q == FirstOf(target, <<"?">>)
    IN  IF q < 0 THEN target ELSE SubSeq(target, 1, q)
QueryOf(target) == Drop(target, Len(PathOf(target)) + 1)

IsAbsolute(path) == Len(path) > 1 /\ Head(path) = "http"

\* http://host/a becomes /a.
AfterHost(path) == Drop(path, FirstOf(path, <<"//">>) + 1)
Router(path) ==
    IF IsAbsolute(path)
    THEN Drop(AfterHost(path), FirstOf(AfterHost(path), <<"/">>))
    ELSE path

\* ParsePercentEncoding() of every key and value; "%bad" is a percent sign that
\* two hexadecimal digits do not follow.
Decodable(query) == ~Contains(query, "%bad")

\* What ParseTarget() returns: the path does not go up, an absolute one has a
\* host and a path, and the query's percent encodings can be decoded.
TargetOk(target) ==
    LET path == PathOf(target)
    IN  /\ ~Contains(path, "..")
        /\ IsAbsolute(path) => /\ FirstOf(path, <<"//">>) >= 0
                               /\ FirstOf(AfterHost(path), <<"/">>) >= 0
        /\ Decodable(QueryOf(target))

-----------------------------------------------------------------------------
(* Process().  One turn of its loop gives the request and the buffer after *)
(* it, whether the loop goes on, and whether the code did something        *)
(* undefined or threw.                                                     *)

Turn(req, buf, more) == [req |-> req, buf |-> buf, more |-> more, wild |-> FALSE]
Return(req, buf) == Turn(req, buf, FALSE)
Bad(req, buf) == Return([req EXCEPT !.state = "kRequestIsBad"], buf)
Wild(req, buf) == [Return(req, buf) EXCEPT !.wild = TRUE]

\* l. 81-126.
StartLine(req, buf) ==
    LET crlf == FirstOf(buf, CRLF)
        typed == [req EXCEPT !.type = IF Head(buf) = "GET" THEN "kGet"
                                      ELSE "kPost"]
        rest == Drop(buf, 2)
        space == FirstOf(rest, <<"SP">>)
        target == SubSeq(rest, 1, space)
    IN  CASE crlf <= 0 -> Return(req, buf)
          [] crlf > 0 /\ Head(buf) \notin {"GET", "POST"} -> Bad(req, buf)
          [] crlf > 0 /\ Head(buf) \in {"GET", "POST"} ->
             IF buf[2] # "SP" THEN Bad(typed, Drop(buf, 1))
             ELSE IF space >= crlf - 2 THEN Bad(typed, rest)
             ELSE IF space < 0 THEN Wild(typed, rest)
             ELSE IF ~TargetOk(target) THEN Bad(typed, rest)
             ELSE Turn([typed EXCEPT !.state = "kExpectHeaderLine",
                                     !.router = Router(PathOf(target))],
                       Drop(buf, crlf + 2), TRUE)

\* A name is a token when it has no delimiter in it; "" is one.
IsToken(name) == ~Contains(name, "SP")

\* The value without the spaces around it.
Strip(value) == SelectSeq(value, LAMBDA t : t # "SP")

\* tolower().
Lower(name) == IF name = "Content-Length" THEN "content-length" ELSE name

\* std::stoi().
Number(word) ==
    CASE word = "0" -> 0 [] word = "1" -> 1 [] word = "2" -> 2
      [] OTHER -> NotANumber

\* headers_.emplace(): of two fields with one name the first one stays.
WithField(req, name, value) ==
    CASE name = "content-length" /\ req.length = NoLength ->
             [req EXCEPT !.length = Number(value)]
      [] name = "transfer-encoding" -> [req EXCEPT !.chunked = TRUE]
      [] OTHER -> req

\* Mutant: an empty line is looked for only when the buffer ends with it.
EmptyLineAtEnd(buf) == buf = CRLF

EndOfFields(buf) == FirstOf(buf, CRLF) = 0

\* l. 127-163.  strip() of a value without anything but spaces is undefined.
HeaderLine(req, buf) ==
    LET crlf == FirstOf(buf, CRLF)
        line == SubSeq(buf, 1, crlf)
        colon == FirstOf(line, <<":">>)
        name == SubSeq(line, 1, colon)
        value == Strip(Drop(line, colon + 1))
    IN  IF crlf < 0 THEN Return(req, buf)
        ELSE IF EndOfFields(buf)
        THEN Turn([req EXCEPT !.state = "kExpectBody"], Drop(buf, 2), TRUE)
        ELSE IF colon < 0 \/ ~IsToken(name) THEN Bad(req, buf)
        ELSE IF value = <<>> THEN Wild(req, buf)
        ELSE Turn(IF name = <<>> THEN req
                  ELSE WithField(req, Lower(Head(name)), Head(value)),
                  Drop(buf, crlf + 2), TRUE)

\* l. 172: the body has arrived.  It stays in the buffer.
BodyIsThere(req, buf) == Len(buf) >= req.length

\* l. 164-186.
Body(req, buf) ==
    LET done == Return([req EXCEPT !.state = "kDone"], buf)
    IN  IF req.length = NotANumber THEN Wild(req, buf)
        ELSE IF req.length # NoLength
        THEN IF BodyIsThere(req, buf) THEN done ELSE Return(req, buf)
        ELSE IF req.chunked THEN Return(req, buf) ELSE done

ProcessOnce(req, buf) ==
    CASE req.state = "kExpectStartLine" -> StartLine(req, buf)
      [] req.state = "kExpectHeaderLine" -> HeaderLine(req, buf)
      [] req.state = "kExpectBody" -> Body(req, buf)
      [] OTHER -> Return(req, buf)

\* Every turn but the last takes something from the buffer or ends the fields,
\* so the loop has ended after Len(buf) + 2 turns.
Process(req, buf) ==
    LET after[n \in Nat] ==
            IF n = 0 THEN Turn(req, buf, TRUE)
            ELSE LET before == after[n - 1]
                 IN  IF before.more THEN ProcessOnce(before.req, before.buf)
                     ELSE before
    IN  after[Len(buf) + 2]
=============================================================================
