------------------------------- MODULE HttpServer ------------------------------
(***************************************************************************)
(* The HTTP server: Networks/Server.cpp, IOServicePool.cpp, Connection.cpp  *)
(* and the steps handle_request takes on the files it answers through.      *)
(*                                                                         *)
(* A connection is bound to one io_service of the pool and each io_service  *)
(* is run by one thread, so handlers of one service never overlap, while    *)
(* those of different services interleave between any two accesses to a     *)
(* file.  A file is the sequence of the connections that wrote its parts.   *)
(***************************************************************************)
EXTENDS RequestHandler, HttpRequest

CONSTANTS
    PoolSize,        \* io_services, five in the code
    MaxConnections,  \* bound: connections made, the last one never used
    Scenarios        \* what clients send, whether a signal comes and a bound
                     \* on the accepts, reads and other calls that fail

ASSUME PoolAssumption == PoolSize \in Nat \ {0}
ASSUME ConnectionsAssumption == MaxConnections \in Nat \ {0}
ASSUME DocumentsAssumption == {Endpoint[e] : e \in Writers} \subseteq Documents
ASSUME ScenariosAssumption ==
    \A s \in Scenarios : /\ s.clients \in Seq(Seq(Seq(Bytes)))
                         /\ Len(s.clients) + s.faults < MaxConnections
                         /\ s.stops \in BOOLEAN /\ s.faults \in Nat
\* However a text is cut into reads, its escapes are spelled in symbols.
ASSUME SpellingAssumption ==
    \A s \in Scenarios : \A i \in DOMAIN s.clients : Spelled(FlattenSeq(s.clients[i]))

VARIABLES
    process,      \* whether the process still runs
    nextService,  \* next_io_service_
    made,         \* connections made; the last one is new_connection_
    conn,         \* the connections
    waiting,      \* what the clients nobody has accepted yet will send
    file,         \* the documents' contents
    signals,      \* a signal is still to come
    faults,       \* calls that may still fail
    exited,       \* io_services whose run has returned
    stopped       \* io_services that were stopped

httpVars == <<process, nextService, made, conn, waiting, file, signals,
              faults, exited, stopped>>

Services == 0..PoolSize - 1
Connections == 1..MaxConnections

\* The phases of handle_request, which hold the thread of the service.
Handling == {"open", "compute", "write", "openReply", "readFile", "erase"}
Phases == Handling \cup {"none", "accepting", "reading", "sending", "closed", "failed"}

NoReply == StockReply("none")
NoConnection == [phase |-> "none", service |-> 0, sent |-> <<>>, read |-> 0,
                 parser |-> Fresh, path |-> <<>>, alone |-> TRUE, answer |-> <<>>,
                 content |-> <<>>, reply |-> NoReply]

RouteOf(k) == Route(conn[k].path)
File(k) == FileOf(conn[k].path)
IsJson(path) == Extension(path) = <<"json">>

Running == process = "running"
FreeThread(s) ==
    /\ s \notin exited
    /\ \A k \in Connections : conn[k].service = s => conn[k].phase \notin Handling

\* A thread takes up a handler that is ready.
MayHandle(s) == Running /\ s \notin stopped /\ FreeThread(s)

\* Mutant: the last service is taken for the one before the last.
WrapsLate(s) == (s + 1) % (PoolSize + 1)

\* get_io_service, called before: the service after s.
ServiceAfter(s) == (s + 1) % PoolSize

\* The signals took the first service and the acceptor the one after it.
AcceptService == ServiceAfter(0)

HttpInit(scenario) ==
    /\ process = "running"
    /\ nextService = ServiceAfter(ServiceAfter(AcceptService))
    /\ made = 1
    /\ conn = [k \in Connections |->
                 IF k = 1 THEN [NoConnection EXCEPT !.phase = "accepting",
                                               !.service = ServiceAfter(AcceptService)]
                 ELSE NoConnection]
    /\ waiting = scenario.clients
    /\ file = [d \in Documents |-> IF IsJson(d) THEN <<>> ELSE <<0>>]
    /\ signals = scenario.stops
    /\ faults = scenario.faults
    /\ exited = {}
    /\ stopped = {}

-----------------------------------------------------------------------------
(* Accepting: handle_accept and the start_accept it ends with, whatever the   *)
(* outcome.  A connection that was not accepted is dropped with its error.    *)

Accepting(first) ==
    /\ made < MaxConnections
    /\ made' = made + 1
    /\ nextService' = ServiceAfter(nextService)
    /\ conn' = [conn EXCEPT ![made] = first,
                            ![made + 1].phase = "accepting",
                            ![made + 1].service = nextService]

\* Mutant: a failed accept returns early.
OnlyOnSuccess(first) ==
    IF first.phase = "reading" THEN Accepting(first)
    ELSE conn' = [conn EXCEPT ![made] = first] /\ UNCHANGED <<made, nextService>>
StartAccept(first) == Accepting(first)

HandleAccept ==
    /\ MayHandle(AcceptService)
    /\ conn[made].phase = "accepting"
    /\ waiting # <<>>
    /\ waiting' = Tail(waiting)
    /\ StartAccept([conn[made] EXCEPT !.phase = "reading", !.sent = Head(waiting)])
    /\ UNCHANGED <<process, file, signals, faults, exited, stopped>>

Fails == faults > 0 /\ faults' = faults - 1

\* The client went before it was accepted, or the accept failed otherwise.
AcceptFails ==
    /\ MayHandle(AcceptService)
    /\ Fails
    /\ conn[made].phase = "accepting"
    /\ \E left \in {waiting} \cup (IF waiting = <<>> THEN {} ELSE {Tail(waiting)}) :
          waiting' = left
    /\ StartAccept([conn[made] EXCEPT !.phase = "failed"])
    /\ UNCHANGED <<process, file, signals, exited, stopped>>

-----------------------------------------------------------------------------
(* handle_read, and the beginning of handle_request up to the first access    *)
(* to a file or to the viewport.                                              *)

\* The others that handle a request for the same file.
Together(k, path) ==
    {j \in Connections \ {k} : conn[j].phase \in Handling /\ File(j) = FileOf(path)}

\* Where an endpoint begins.
FirstPhase(route) ==
    CASE route \in Writers -> "open"
      [] route \in {"deregister", "sensors"} -> "compute"
      [] OTHER -> "openReply"

\* Mutant: a request is taken to arrive in one read.
ReadOnce(c) == [c EXCEPT !.phase = "closed"]
ReadMore(c) == c

Took(c, parser) == [c EXCEPT !.read = c.read + 1, !.parser = parser]
Refused(c) == [c EXCEPT !.phase = "sending", !.reply = StockReply("400")]

\* The connections once k has read a whole request, for a path.
Begun(k, c, path) ==
    LET together == Together(k, path) IN
    [j \in Connections |->
        CASE j = k -> [c EXCEPT !.path = path, !.phase = FirstPhase(Route(path)),
                                !.alone = together = {}]
          [] j \in together -> [conn[j] EXCEPT !.alone = FALSE]
          [] OTHER -> conn[j]]

HandleRead(k) ==
    /\ MayHandle(conn[k].service)
    /\ conn[k].phase = "reading"
    /\ conn[k].read < Len(conn[k].sent)
    /\ \E parser \in {Parse(conn[k].parser, conn[k].sent[conn[k].read + 1])} :
       \E path \in {RequestPath(parser.request.uri)} :
          LET c == Took(conn[k], parser) IN
          /\ conn' = CASE parser.verdict = "more" -> [conn EXCEPT ![k] = ReadMore(c)]
                       [] parser.verdict = "ok" /\ path # <<>> -> Begun(k, c, path)
                       [] OTHER -> [conn EXCEPT ![k] = Refused(c)]
          /\ process' = IF parser.verdict = "undefined" THEN "undefined" ELSE process
    /\ UNCHANGED <<nextService, made, waiting, file, signals, faults, exited, stopped>>

\* The client closed the connection or it broke: no new operation is started,
\* and the connection goes with the handler.
ReadFails(k) ==
    /\ MayHandle(conn[k].service)
    /\ Fails
    /\ conn[k].phase = "reading"
    /\ conn' = [conn EXCEPT ![k].phase = "failed"]
    /\ UNCHANGED <<process, nextService, made, waiting, file, signals, exited, stopped>>

-----------------------------------------------------------------------------
(* The rest of handle_request.                                               *)

\* A step of the handler of k, to a connection c.
Handles(k, phase, c) ==
    /\ Running
    /\ conn[k].phase = phase
    /\ conn' = [conn EXCEPT ![k] = c]
    /\ UNCHANGED <<nextService, made, waiting, signals, faults, exited, stopped>>

\* An ofstream is constructed, which empties the file.
Open(k) ==
    /\ Handles(k, "open", [conn[k] EXCEPT !.phase = "compute"])
    /\ file' = [file EXCEPT ![File(k)] = <<>>]
    /\ UNCHANGED process

\* The call of the viewport: it returns an answer of some length, throws, which
\* nothing in the thread catches, or is undefined.
Outcomes(k) ==
    LET route == RouteOf(k)
        r == conn[k].parser.request
    IN  IF ~Converts(route, r) THEN {"throws"}
        ELSE IF route = "data" /\ ~SetsScene(r) THEN {"ok", "undefined"}
        ELSE {"ok", "throws", "undefined"}

Compute(k, outcome, length) ==
    /\ outcome \in Outcomes(k)
    /\ Handles(k, "compute",
               IF outcome # "ok" THEN conn[k]
               ELSE [conn[k] EXCEPT
                       !.phase = IF RouteOf(k) \in Writers THEN "write" ELSE "openReply",
                       !.answer = [i \in 1..length |-> k]])
    /\ process' = CASE outcome = "ok" -> process
                    [] outcome = "throws" -> "terminated"
                    [] OTHER -> "undefined"
    /\ UNCHANGED file

\* Mutant: the stream is not closed before the file is sent.
NeverClosed(k) == file

\* The stream is closed, at the latest where its block ends.
Closed(k) == [file EXCEPT ![File(k)] = Written(@, conn[k].answer)]

Write(k) ==
    /\ Handles(k, "write", [conn[k] EXCEPT !.phase = "openReply"])
    /\ file' = Closed(k)
    /\ UNCHANGED process

\* The file is opened again to be sent.
OpenReply(k) ==
    /\ Handles(k, "openReply",
               IF File(k) \in Documents
               THEN [conn[k] EXCEPT !.phase = "readFile"]
               ELSE [conn[k] EXCEPT !.phase = "sending", !.reply = StockReply("404")])
    /\ UNCHANGED <<process, file>>

\* One read of the loop; the first that gets nothing ends it.
ReadFile(k) ==
    LET c == conn[k]
        done == Len(c.content) >= Len(file[File(k)])
    IN  /\ Handles(k, "readFile",
                   IF ~done
                   THEN [c EXCEPT !.content = Append(@, file[File(k)][Len(@) + 1])]
                   ELSE [c EXCEPT !.reply = OkReply(c.content, conn[k].path),
                                  !.phase = IF IsJson(conn[k].path) THEN "erase"
                                            ELSE "sending"])
        /\ UNCHANGED <<process, file>>

\* Mutant: the file is not emptied.
KeepFile(path) == file

\* erasingFile
Emptied(path) == [file EXCEPT ![path] = <<>>]

Erase(k) ==
    /\ Handles(k, "erase", [conn[k] EXCEPT !.phase = "sending"])
    /\ file' = Emptied(File(k))
    /\ UNCHANGED process

\* handle_write: the connection ends, with or without an error.
HandleWrite(k) ==
    /\ MayHandle(conn[k].service)
    /\ Handles(k, "sending", [conn[k] EXCEPT !.phase = "closed"])
    /\ UNCHANGED <<process, file>>

-----------------------------------------------------------------------------
(* Stopping *)

\* Mutant: only the service of the signals is stopped.
StopFirst == {0}
StopAll == Services

\* handle_stop runs on the service of the signals.  The wait is not renewed.
HandleStop ==
    /\ signals
    /\ MayHandle(0)
    /\ signals' = FALSE
    /\ stopped' = StopAll
    /\ UNCHANGED <<process, nextService, made, conn, waiting, file, faults, exited>>

\* io_service::run returns.
ServiceExits(s) ==
    /\ Running
    /\ s \in stopped
    /\ FreeThread(s)
    /\ exited' = exited \cup {s}
    /\ UNCHANGED <<process, nextService, made, conn, waiting, file, signals, faults, stopped>>

\* The joins in run.
HttpEnded == exited = Services

-----------------------------------------------------------------------------
HttpStep(k) ==
    \/ Open(k) \/ Write(k) \/ OpenReply(k) \/ ReadFile(k) \/ Erase(k)
    \/ HandleWrite(k) \/ HandleRead(k)

Computes(k) ==
    \E outcome \in {"ok", "throws", "undefined"}, length \in 0..2 :
        Compute(k, outcome, length)

\* What the threads of the pool do.
Threads ==
    \/ HandleStop \/ HandleAccept
    \/ \E s \in Services : ServiceExits(s)
    \/ \E k \in Connections : Computes(k) \/ HttpStep(k)

\* A call outside of the HTTP server fails, which may leave the process with
\* servers that were never set.
OtherFails(outcome) ==
    /\ Fails
    /\ process' = outcome
    /\ UNCHANGED <<nextService, made, conn, waiting, file, signals, exited, stopped>>

HttpNext ==
    \/ Threads \/ AcceptFails \/ \E k \in Connections : ReadFails(k)
    \/ \E outcome \in {process, "undefined"} : OtherFails(outcome)

HttpSpec == (\E s \in Scenarios : HttpInit(s)) /\ [][HttpNext]_httpVars

-----------------------------------------------------------------------------
(* Type invariant.                                                           *)
HttpTypeOK ==
    /\ process \in {"running", "undefined", "terminated"}
    /\ nextService \in Services
    /\ made \in Connections
    /\ faults \in Nat
    /\ \A k \in Connections :
          /\ conn[k].phase \in Phases
          /\ conn[k].phase = "none" <=> k > made
          /\ conn[k].service \in Services
          /\ conn[k].read \in 0..Len(conn[k].sent)
    /\ DOMAIN file = Documents
    /\ stopped \subseteq Services /\ exited \subseteq stopped

(* However a request is cut into pieces, what the connection has read is     *)
(* accepted exactly if it is a request, with the method, uri, version and    *)
(* headers its lines say, and refused only if all that was sent is none; the *)
(* parser never touches a header there is not (RequestParser.cpp:27-283).    *)
Received(k) == FlattenSeq(SubSeq(conn[k].sent, 1, conn[k].read))
ParsedAsSent ==
    \A k \in Connections :
        LET parser == conn[k].parser IN
        /\ parser.verdict = "ok" <=> IsRequest(Received(k))
        /\ parser.verdict = "ok" => parser.request = RequestOf(Received(k))
        /\ parser.verdict = "bad" => ~IsRequest(FlattenSeq(conn[k].sent))
        /\ parser.verdict # "undefined"

(* A well encoded uri is taken for the path it encodes, whatever its escapes  *)
(* stand next to and wherever it ends, and one that ends inside an escape is  *)
(* answered 400 (url_decode, RequestHandler.cpp:261-298).                     *)
PathAsEncoded ==
    \A k \in Connections :
        LET uri == conn[k].parser.request.uri
            Decoded(a, b) == Char(16 * HexValue(a) + HexValue(b))
        IN  conn[k].parser.verdict = "ok" =>
              /\ WellEncoded(uri, Hex) =>
                    UrlDecode(uri) = [ok |-> TRUE, path |-> Encoded(uri, Decoded)]
              /\ CutEscape(uri) => conn[k].reply.status = "400"

(* A request whose file no other request was handled for meanwhile is         *)
(* answered with all of its own answer and nothing else; a plain document is  *)
(* sent as it is, and one that was never written is empty                     *)
(* (RequestHandler.cpp:51-63, 219-242).                                       *)
Due(k) ==
    IF RouteOf(k) \in Writers THEN conn[k].answer
    ELSE IF IsJson(conn[k].path) THEN <<>> ELSE <<0>>
OwnAnswer ==
    \A k \in Connections :
        conn[k].reply.status = "200" /\ conn[k].alone => conn[k].reply.content = Due(k)

(* Nothing of an answer stays in a file behind the last of the requests that  *)
(* were handled for it, in whatever order they wrote and erased it            *)
(* (RequestHandler.cpp:238-242).                                              *)
NoLeftovers ==
    \A d \in Documents :
        \/ ~IsJson(d)
        \/ file[d] = <<>>
        \/ \E k \in Connections : conn[k].phase \in Handling /\ File(k) = d
===============================================================================
