----------------------------- MODULE HttpServer -----------------------------
(***************************************************************************)
(* The HTTP server of a node and the JSON API behind it: sync_server and   *)
(* sync_connection of cpp-netlib (boost/network/protocol/http/server/),    *)
(* run by api_service (src/src/api_service.hpp), with RequestParser and    *)
(* ApiHandler for what they call.                                          *)
(*                                                                         *)
(* Worker threads run the completion handlers of one io_service.  A step   *)
(* is one such handler; one that calls operator() ends with Dispatch and   *)
(* keeps its worker for the steps of ApiHandler.  A read returns at least  *)
(* one token of what the client has sent and at most a buffer.             *)
(***************************************************************************)
EXTENDS RequestParser, ApiHandler

CONSTANTS
    Requests,   \* Requests[c]: requests the client of c may send
    Garbled,    \* those of which one character of the head may arrive garbled
    Fragile,    \* connections whose client may go away before it has sent all
    MaxBegun,   \* bound: tokens such a client sends
    ApiWorkers, \* api.workers
    BufferSize, \* BOOST_NETWORK_HTTP_SERVER_CONNECTION_BUFFER_SIZE
    Sizes,      \* 2^w: numbers of size_t
    NoRequest   \* nothing sent yet

ASSUME HttpAssumption ==
    /\ ApiWorkers \in Nat
    /\ BufferSize \in Nat \ {0}
    /\ Sizes \in Nat \ {0}
    /\ MaxBegun \in Nat
    /\ Fragile \subseteq Conns

\* workers_ is a uint8_t.
Workers == 1 .. ApiWorkers % 256

ASSUME WorkersAreNoConns == Conns \cap {"start", "run", "end"} = {}

VARIABLES
    proc,       \* "up", "stopped" (api_service::stop() has returned), "gone"
    listening,  \* listening_
    accepting,  \* acceptor_ is open
    thread,     \* thread[w]: "start", "run" (in io_service::run), "end", or the
                \*   connection whose request it handles
    conn,       \* conn[c]: which completion handler comes next
    sent,       \* sent[c]: the request and the text the client sends
    away,       \* away[c]: the client is gone
    taken,      \* taken[c]: tokens of the text that were read
    parser,     \* parser[c]: parser_ and request_ without the body
    body,       \* body[c]: request_.body
    left,       \* left[c]: bytes_to_read of the next handle_read_body_contents
    answers     \* answers[c]: responses written (history)

serverVars == <<proc, listening, accepting, thread>>
connVars == <<conn, sent, away, taken, parser, body, left>>
vars == <<serverVars, connVars, answers, apiVars>>

ConnStates == {"new", "backlog", "headers", "body", "handling", "writing", "closed"}

-----------------------------------------------------------------------------
(* What clients send *)

\* A header has a first line and lines it is folded into, each after a line end and blanks.
FoldText(f) == <<"cr", "lf">> \o f.blanks \o f.text
ValueText(h) == h.first \o FlattenSeq([i \in DOMAIN h.folds |-> FoldText(h.folds[i])])
HeaderText(h) == h.name \o <<":", "sp">> \o ValueText(h) \o <<"cr", "lf">>

HeadText(r) ==
    r.method \o <<"sp">> \o r.destination
    \o <<"sp", "H", "T", "T", "P", "/", "1", ".", "1", "cr", "lf">>
    \o FlattenSeq([i \in DOMAIN r.headers |-> HeaderText(r.headers[i])])
    \o <<"cr", "lf">>

WholeText(r) == HeadText(r) \o r.body

\* What may arrive for a request: its text, that with a control character in the head,
\* or as much as was sent before the client went away.
Texts(c, r) ==
    IF c \in Fragile
    THEN {SubSeq(WholeText(r), 1, n) : n \in {k \in 1 .. MaxBegun : k <= Len(WholeText(r))}}
    ELSE {WholeText(r)} \cup
         {ReplaceAt(HeadText(r), i, "ctl") \o r.body :
              i \in IF r \in Garbled THEN DOMAIN HeadText(r) ELSE {}}

\* Requests as RFC 2616 has them, of fewer bytes than size_t can count.
Visible == {x \in Characters : Printable(x)}
Folds == [blanks : Seq({"sp", "tab"}) \ {<<>>},
          text : {x \in Seq(Visible) : x = <<>> \/ x[1] # "sp"}]
Headers == [name : Seq(NameTokens) \ {<<>>}, first : Seq(Visible), folds : Seq(Folds)]

IsRequest(r) ==
    /\ r.method \in Seq(NameTokens) \ {<<>>}
    /\ r.destination \in Seq(Visible \ {"sp"})
    /\ r.headers \in Seq(Headers)
    /\ r.body \in Seq(Characters)
    /\ Len(r.body) < Sizes

ASSUME RequestsAssumption == \A c \in Conns : \A r \in Requests[c] : IsRequest(r)

\* What the parser should make of it: a folded value is one line.
Value(h) == h.first \o FlattenSeq([i \in DOMAIN h.folds |-> h.folds[i].text])
Meant(r) ==
    [method |-> r.method, destination |-> r.destination,
     headers |-> [i \in DOMAIN r.headers |->
                    [name |-> r.headers[i].name, value |-> Value(r.headers[i])]]]

-----------------------------------------------------------------------------

Init ==
    /\ proc = "up"
    /\ listening = FALSE
    /\ accepting = FALSE
    /\ thread = [w \in Workers |-> "start"]
    /\ conn = [c \in Conns |-> "new"]
    /\ sent = [c \in Conns |-> NoRequest]
    /\ away = [c \in Conns |-> FALSE]
    /\ taken = [c \in Conns |-> 0]
    /\ parser = [c \in Conns |-> NewParser]
    /\ body = [c \in Conns |-> <<>>]
    /\ left = [c \in Conns |-> 0]
    /\ answers = [c \in Conns |-> <<>>]
    /\ ApiInit

\* An exception leaves a worker's thread function, or main returns.
ProcessEnds ==
    /\ proc' = "gone"
    /\ thread' = [w \in Workers |-> "end"]
    /\ UNCHANGED <<listening, accepting>>

-----------------------------------------------------------------------------
(* Clients and the network *)

Connect(c) ==
    /\ proc = "up"
    /\ accepting
    /\ conn[c] = "new"
    /\ conn' = [conn EXCEPT ![c] = "backlog"]
    /\ \E r \in Requests[c] : \E x \in Texts(c, r) :
        sent' = [sent EXCEPT ![c] = [request |-> r, text |-> x]]
    /\ UNCHANGED <<serverVars, away, taken, parser, body, left, answers, apiVars>>

GoAway(c) ==
    /\ proc # "gone"
    /\ c \in Fragile
    /\ conn[c] \in {"backlog", "headers", "body", "writing"}
    /\ away' = [away EXCEPT ![c] = TRUE]
    /\ UNCHANGED <<serverVars, conn, sent, taken, parser, body, left, answers, apiVars>>

-----------------------------------------------------------------------------
(* Start and stop *)

\* listen() and, on the first worker, start_listening(), under listening_mutex_.  Its
\* exceptions end the process.  Nobody asks whether stop() came before.
Listen(w) ==
    /\ thread[w] = "start"
    /\ \/ /\ listening' = TRUE
          /\ accepting' = (accepting \/ ~ listening)
          /\ thread' = [thread EXCEPT ![w] = "run"]
          /\ UNCHANGED proc
       \/ ~ listening /\ ProcessEnds
    /\ UNCHANGED <<connVars, answers, apiVars>>

\* ~api_service, when pushy_service::run() has returned or thrown.
Stop ==
    /\ proc = "up"
    /\ proc' = "stopped"
    /\ accepting' = FALSE
    /\ UNCHANGED <<listening, thread, connVars, answers, apiVars>>

\* io_service::run returns after the handler it was in.
RunReturns(w) ==
    /\ proc = "stopped"
    /\ thread[w] = "run"
    /\ thread' = [thread EXCEPT ![w] = "end"]
    /\ UNCHANGED <<proc, listening, accepting, connVars, answers, apiVars>>

\* Nobody joins threads_: main returns whatever the workers do.
Exit ==
    /\ proc = "stopped"
    /\ ProcessEnds
    /\ UNCHANGED <<connVars, answers, apiVars>>

-----------------------------------------------------------------------------
(* Completion handlers *)

Idle(w) == proc = "up" /\ thread[w] = "run"

\* handle_accept.  An accept that failed is treated like any other: the connection
\* starts a read, which fails.
Accept(w, c) ==
    /\ Idle(w)
    /\ accepting
    /\ conn[c] = "backlog"
    /\ \/ conn' = [conn EXCEPT ![c] = "headers"]
       \/ away[c] /\ conn' = [conn EXCEPT ![c] = "closed"]
    /\ UNCHANGED <<serverVars, sent, away, taken, parser, body, left, answers, apiVars>>

\* response_ = x and the write of it.
Respond(c, x) ==
    /\ conn' = [conn EXCEPT ![c] = "writing"]
    /\ answers' = [answers EXCEPT ![c] = Append(@, x)]

\* handler_(request_, response_).
Handle(w, c, uri, text) ==
    /\ conn' = [conn EXCEPT ![c] = "handling"]
    /\ thread' = [thread EXCEPT ![w] = c]
    /\ Dispatch(c, uri, text)
    /\ UNCHANGED <<proc, listening, accepting, answers>>

\* What async_read_some may hand over: the next k tokens.
Available(c) == Len(sent[c].text) - taken[c]
Chunk(c, k) == SubSeq(sent[c].text, taken[c] + 1, taken[c] + k)
ReadSizes(c) == {k \in 1 .. BufferSize : k <= Available(c)}

ContentLengthNames == {<<"content-length">>, <<"Content-Length">>}
IsLength(h) == h.name \in ContentLengthNames

NeedsBody(p) == p.method[1] = "P"
LengthHeaders(p) == SelectSeq(p.headers, IsLength)
HasLength(p) == LengthHeaders(p) # <<>> /\ IsNumber(LengthHeaders(p)[1].value, Sizes)
LengthOf(p) == Number(LengthHeaders(p)[1].value, Sizes)

\* Mutated: the subtraction stops at 0; it has no width.
MinusSaturated(a, b) == IF a < b THEN 0 ELSE a - b
MinusUnbounded(a, b) == a - b

\* Subtraction of size_t.
Minus(a, b) == (a - b) % Sizes

\* Mutated: what came with the head is not taken off.
WantedAll(p, rest) == LengthOf(p)

\* What is still to read of the body.
Wanted(p, rest) == Minus(LengthOf(p), Len(rest))

\* parse_headers has decided that the head is complete; rest is what came after it.
HeadComplete(w, c, p, rest) ==
    \/ /\ NeedsBody(p) /\ ~ HasLength(p)
       /\ Respond(c, "bad_request")
       /\ UNCHANGED <<body, left, serverVars, apiVars>>
    \/ /\ NeedsBody(p) /\ HasLength(p) /\ LengthOf(p) # 0
       /\ body' = [body EXCEPT ![c] = rest]
       /\ LET wanted == Wanted(p, rest)
          IN  \/ /\ wanted # 0
                 /\ conn' = [conn EXCEPT ![c] = "body"]
                 /\ left' = [left EXCEPT ![c] = wanted]
                 /\ UNCHANGED <<serverVars, answers, apiVars>>
              \/ /\ wanted = 0
                 /\ Handle(w, c, p.destination, rest)
                 /\ UNCHANGED left
    \/ /\ ~ NeedsBody(p) \/ (HasLength(p) /\ LengthOf(p) = 0)
       /\ Handle(w, c, p.destination, <<>>)
       /\ UNCHANGED <<body, left>>

HandleReadHeaders(w, c) ==
    /\ Idle(w)
    /\ conn[c] = "headers"
    /\ \E k \in ReadSizes(c) :
        LET read == ParseHeaders(parser[c], Chunk(c, k))
            p == [read EXCEPT !.used = 0]
        IN  /\ taken' = [taken EXCEPT ![c] = @ + k]
            /\ parser' = [parser EXCEPT ![c] = p]
            /\ \/ /\ p.state = "true"
                  /\ HeadComplete(w, c, p, SubSeq(Chunk(c, k), read.used + 1, k))
               \/ /\ p.state = "false"
                  /\ Respond(c, "bad_request")
                  /\ UNCHANGED <<body, left, serverVars, apiVars>>
               \/ /\ ~ Decided(p)
                  /\ UNCHANGED <<conn, body, left, serverVars, answers, apiVars>>
    /\ UNCHANGED <<sent, away>>

HandleReadBody(w, c) ==
    /\ Idle(w)
    /\ conn[c] = "body"
    /\ \E k \in ReadSizes(c) :
        LET difference == Minus(left[c], k)
            text == body[c] \o SubSeq(Chunk(c, k), 1, IF k < left[c] THEN k ELSE left[c])
        IN  /\ taken' = [taken EXCEPT ![c] = @ + k]
            /\ body' = [body EXCEPT ![c] = text]
            /\ \/ /\ difference = 0
                  /\ Handle(w, c, parser[c].destination, text)
                  /\ UNCHANGED left
               \/ /\ difference # 0
                  /\ left' = [left EXCEPT ![c] = difference]
                  /\ UNCHANGED <<conn, serverVars, answers, apiVars>>
    /\ UNCHANGED <<sent, away, parser>>

\* The read fails: the connection is forgotten.
ReadFails(w, c) ==
    /\ Idle(w)
    /\ away[c]
    /\ conn[c] \in {"headers", "body"}
    /\ conn' = [conn EXCEPT ![c] = "closed"]
    /\ UNCHANGED <<serverVars, sent, away, taken, parser, body, left, answers, apiVars>>

\* The read of a head succeeds and remote_endpoint() then throws, as the client is gone.
EndpointThrows(w, c) ==
    /\ Idle(w)
    /\ away[c]
    /\ conn[c] = "headers"
    /\ ReadSizes(c) # {}
    /\ ProcessEnds
    /\ UNCHANGED <<connVars, answers, apiVars>>

\* operator() runs on.
Work(w) ==
    /\ thread[w] \in Conns
    /\ HandlerStep(thread[w], body[thread[w]])
    /\ UNCHANGED <<serverVars, connVars, answers>>

\* operator() has returned.
Answer(w) ==
    /\ thread[w] \in Conns
    /\ step[thread[w]] = "done"
    /\ Respond(thread[w], answer[thread[w]])
    /\ thread' = [thread EXCEPT ![w] = "run"]
    /\ UNCHANGED <<proc, listening, accepting, sent, away, taken, parser, body, left, apiVars>>

\* Mutated: the connection is kept open for a next request.
HandleWriteKeepAlive(w, c) ==
    /\ Idle(w)
    /\ conn[c] = "writing"
    /\ conn' = [conn EXCEPT ![c] = "headers"]
    /\ UNCHANGED <<serverVars, sent, away, taken, parser, body, left, answers, apiVars>>

\* No second request is read from a connection.
HandleWrite(w, c) ==
    /\ Idle(w)
    /\ conn[c] = "writing"
    /\ conn' = [conn EXCEPT ![c] = "closed"]
    /\ UNCHANGED <<serverVars, sent, away, taken, parser, body, left, answers, apiVars>>

-----------------------------------------------------------------------------

Completion(w, c) ==
    \/ Accept(w, c)
    \/ HandleReadHeaders(w, c) \/ HandleReadBody(w, c)
    \/ ReadFails(w, c) \/ EndpointThrows(w, c)
    \/ HandleWrite(w, c)

WorkerStep(w) == Listen(w) \/ RunReturns(w) \/ Work(w) \/ Answer(w)

Next ==
    \/ \E c \in Conns : Connect(c) \/ GoAway(c)
    \/ \E w \in Workers : WorkerStep(w) \/ \E c \in Conns : Completion(w, c)
    \/ Stop
    \/ Exit

Spec == Init /\ [][Next]_vars

(***************************************************************************)
(* Fairness.  The threads run.  A completed operation is not passed over   *)
(* for ever: io_service keeps a queue.  What a client has sent arrives.    *)
(* Calls of the handler return or throw.  Nobody must connect, go away or  *)
(* stop the server.                                                        *)
(***************************************************************************)
Fairness ==
    /\ \A w \in Workers : WF_vars(WorkerStep(w))
    /\ \A c \in Conns : WF_vars(\E w \in Workers : Completion(w, c))

FairSpec == Spec /\ Fairness

-----------------------------------------------------------------------------
(* Properties *)

TypeOK ==
    /\ proc \in {"up", "stopped", "gone"}
    /\ listening \in BOOLEAN
    /\ accepting \in BOOLEAN
    /\ thread \in [Workers -> Conns \cup {"start", "run", "end"}]
    /\ conn \in [Conns -> ConnStates]
    /\ left \in [Conns -> 0 .. Sizes - 1]
    /\ step \in [Conns -> {"none", "parse", "call", "done"}]
    /\ api \in [Conns -> Apis]
    /\ at \in [Conns -> Nat]
    /\ made \in [Conns -> Nat]
    /\ answer \in [Conns -> Answers]

Handled(c) == step[c] # "none"

Whole(c) ==
    LET r == sent[c].request
    IN  c \notin Fragile /\ (NeedsBody(r) /\ HasLength(Meant(r)) => LengthOf(Meant(r)) = Len(r.body))

\* No damage as far as the client has sent it.
Intact(c) == IsPrefix(sent[c].text, WholeText(sent[c].request))

GetsRequest(c) ==
    LET r == sent[c].request
        p == parser[c]
    IN  /\ Intact(c)
        /\ [method |-> p.method, destination |-> p.destination, headers |-> p.headers] = Meant(r)
        /\ IF NeedsBody(r)
           THEN HasLength(p) /\ Len(body[c]) = LengthOf(p) /\ IsPrefix(body[c], r.body)
           ELSE body[c] = <<>>

\* The handler runs only for requests that arrived undamaged, and for the method,
\* destination, headers and body the client sent: as many bytes of the body as it
\* declared, however the network cuts the text into reads, and whatever follows it.
HandlerGetsRequest == \A c \in Conns : Handled(c) => GetsRequest(c)

\* What the parser makes of all that was read, had it come in one read.
AsOneRead(c) == [ParseHeaders(NewParser, SubSeq(sent[c].text, 1, taken[c])) EXCEPT !.used = 0]

\* How far a request has been read, and what that says of the parser, of the body and of
\* what is still to read.  n counts the tokens of the body that were read, those after
\* its declared end too; of a body that is longer than declared, and of which more came
\* with the head than it declares, reads go on until size_t has wrapped round.
ReadProgress(c) ==
    LET r == sent[c].request
        p == parser[c]
        n == taken[c] - Len(HeadText(r))
    IN  /\ conn[c] # "new" =>
            /\ r \in Requests[c] /\ sent[c].text \in Texts(c, r)
            /\ taken[c] \in 0 .. Len(sent[c].text)
        /\ conn[c] \in {"new", "backlog"} => taken[c] = 0 /\ p = NewParser
        /\ conn[c] = "headers" => p = AsOneRead(c) /\ ~ Decided(p)
        /\ conn[c] = "body" =>
            /\ Intact(c)
            /\ [method |-> p.method, destination |-> p.destination, headers |-> p.headers] = Meant(r)
            /\ NeedsBody(p) /\ HasLength(p)
            /\ 0 <= n /\ left[c] = Minus(LengthOf(p), n) /\ left[c] # 0
            /\ n < LengthOf(p) => body[c] = SubSeq(r.body, 1, n)

\* The inductive invariant of the reads.
ReadInv == HandlerGetsRequest /\ \A c \in Conns : ReadProgress(c)

\* A client gets one response, although refusals, the handler and the end of the body
\* each start a write of their own.
AnsweredOnce ==
    \A c \in Conns :
        /\ Len(answers[c]) <= 1
        /\ conn[c] \in {"headers", "body", "handling"} => answers[c] = <<>>

\* A request with an entry that is no uuid, wherever it stands, makes no call at all.
InvalidDoesNothing ==
    \A c \in Conns : made[c] > 0 /\ Parses(api[c]) =>
        /\ Acceptable(api[c], body[c])
        /\ \A i \in 1 .. Len(Entries(body[c])) : Valid(api[c], Entries(body[c])[i])

\* What the first n entries ask to be done: something for each, or for the device of the
\* last "uuid" among them.
LastUuid(entries, n, i) ==
    /\ entries[i].name = "uuid"
    /\ \A j \in i + 1 .. n : entries[j].name # "uuid"

TargetsUpTo(f, entries, n, t) ==
    IF f = "send"
    THEN \A i \in 1 .. n : LastUuid(entries, n, i) => t = <<entries[i].token>>
    ELSE Parses(f) => /\ Len(t) = n
                      /\ \A i \in 1 .. n : t[i] = entries[i].token

\* For what a whole request asks; without a "uuid", "/send" is for one device too.
AllTargets(f, entries, t) ==
    /\ TargetsUpTo(f, entries, Len(entries), t)
    /\ f \notin {"remove", "redeliver"} => Len(t) = 1

\* "success" is answered only when a call was made, and returned, for all a request
\* names, and no exception of one of them was lost on the way.
SuccessMeansAll ==
    \A c \in Conns : answer[c] = "success" =>
        /\ made[c] = Len(targets[c])
        /\ AllTargets(api[c], Entries(body[c]), targets[c])

\* Of the functions whose URI a request's URI starts with, the most specific one runs:
\* "/list_apns" and "/list_gcm" are not taken for "/list".
MostSpecific ==
    \A c \in Conns : api[c] # "none" =>
        \A i, j \in Fitting(parser[c].destination) :
            Routes[i][1] = api[c] => Len(Routes[j][2]) <= Len(Routes[i][2])

\* A worker handles a request of its own, and only one that has been read.
OneThread ==
    \A v, w \in Workers : thread[v] \in Conns =>
        /\ conn[thread[v]] = "handling"
        /\ thread[v] = thread[w] => v = w

\* How far a request is, and what that says about the run of operator() for it.
Untouched(c) ==
    /\ api[c] = "none" /\ answer[c] = "none"
    /\ at[c] = 0 /\ targets[c] = <<>> /\ made[c] = 0

ParsedSoFar(c) ==
    /\ Parses(api[c]) => Acceptable(api[c], body[c])
    /\ \A i \in 1 .. at[c] : Valid(api[c], Entries(body[c])[i])

Parsed(c) == ParsedSoFar(c) /\ (Parses(api[c]) => at[c] = Len(Entries(body[c])))

HandlerProgress(c) ==
    /\ conn[c] \in {"new", "backlog", "headers", "body"} => step[c] = "none"
    /\ conn[c] \in {"new", "backlog", "headers"} => body[c] = <<>>
    /\ step[c] = "none" => Untouched(c)
    /\ step[c] = "parse" =>
        /\ Parses(api[c]) /\ ParsedSoFar(c)
        /\ TargetsUpTo(api[c], Entries(body[c]), at[c], targets[c])
        /\ api[c] = "send" => targets[c] = <<>> \/ Len(targets[c]) = 1
    /\ step[c] = "call" => Parsed(c) /\ AllTargets(api[c], Entries(body[c]), targets[c])
    /\ step[c] \in {"none", "parse"} => made[c] = 0
    /\ step[c] # "done" => answer[c] = "none"
    /\ made[c] > 0 => Parsed(c)
    /\ conn[c] \in {"new", "backlog", "headers", "body", "handling"} => answers[c] = <<>>

\* The inductive invariant of a request: who works on it, what has been parsed of it, and
\* what that promises of the calls made for it and of its answers.
RequestInv ==
    /\ OneThread
    /\ \A c \in Conns : HandlerProgress(c)
    /\ AnsweredOnce
    /\ SuccessMeansAll
    /\ MostSpecific

\* Every request that is sent as declared, well-formed or not, is answered, unless the
\* client goes away or the server ends: no cut of its text leaves it waiting.
EveryoneAnswered ==
    \A c \in Conns :
        (conn[c] = "backlog" /\ Whole(c))
            ~> (answers[c] # <<>> \/ away[c] \/ proc # "up")

\* libs/network/doc/reference/http_server.rst on stop(): "Stop the HTTP Server acceptor
\* and wait for all pending requests to finish."
StopWaits == proc = "stopped" => \A c \in Conns : conn[c] \notin {"handling", "writing"}

=============================================================================
