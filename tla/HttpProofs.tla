------------------------------- MODULE HttpProofs -------------------------------
(***************************************************************************)
(* Theorems about the HTTP server, for every number of services, bound on   *)
(* the connections, set of documents and requests: its types, that a        *)
(* request nobody shares its file with gets its own answer, that no answer  *)
(* stays behind in a file and that handlers of one service never overlap.   *)
(* Then about the process it runs in, which implements it.                  *)
(***************************************************************************)
EXTENDS Server, RequestProofs

\* Who can have written a part of a file; 0 is whoever put the document there.
Authors == Connections \cup {0}
Parts == Seq(Authors)
Paths == Seq(Symbols)
Reads == Seq(Bytes)
Texts == Seq(Reads)
Contents == Parts \cup {<<"none">>, <<"400">>, <<"404">>}
Types == {MimeTypes[e] : e \in DOMAIN MimeTypes} \cup {"text/plain"}
Replies == [status : {"none", "400", "404", "200"}, content : Contents, type : Types]

Connection ==
    [phase : Phases, service : Services, sent : Texts, read : Nat, parser : Parsers,
     path : Paths, alone : BOOLEAN, answer : Parts, content : Parts, reply : Replies]

TypeInv ==
    /\ process \in {"running", "undefined", "terminated"}
    /\ nextService \in Services
    /\ made \in Connections
    /\ faults \in Nat
    /\ waiting \in Seq(Texts)
    /\ conn \in [Connections -> Connection]
    /\ \A k \in Connections : conn[k].phase = "none" <=> k > made
    /\ file \in [Documents -> Parts]
    /\ stopped \subseteq Services /\ exited \subseteq stopped

\* What a connection is due, from its record: Due of HttpServer.
Owed(c) ==
    IF Route(c.path) \in Writers THEN c.answer
    ELSE IF IsJson(c.path) THEN <<>> ELSE <<0>>

\* What the phase of a connection says of the rest of it.
Consistent(c) ==
    /\ c.read \in 0..Len(c.sent)
    /\ c.phase \in {"none", "accepting"} => c.read = 0
    /\ c.phase \in {"open", "write"} => Route(c.path) \in Writers
    /\ c.phase \in {"readFile", "erase"} => FileOf(c.path) \in Documents
    /\ c.phase = "erase" => IsJson(c.path)
    /\ c.phase \in {"none", "accepting", "reading", "open", "compute", "write",
                    "openReply"} => c.content = <<>>
    /\ c.phase \notin {"erase", "sending", "closed"} => c.reply = NoReply

\* Documents that are not written stay as they are.
PlainKept == \A d \in Documents : ~IsJson(d) => file[d] = <<0>>

\* How far a connection that has its file to itself has got with it.
Progress(c, contents) ==
    /\ c.phase \in {"compute", "write"} /\ Route(c.path) \in Writers =>
          contents = <<>>
    /\ c.phase = "compute" /\ Route(c.path) \notin Writers => contents = Owed(c)
    /\ c.phase \in {"openReply", "readFile"} => contents = Owed(c)
    /\ c.phase = "readFile" =>
          /\ Len(c.content) <= Len(Owed(c))
          /\ \A i \in 1..Len(c.content) : c.content[i] = Owed(c)[i]

\* A connection that is alone shares its file with none that is handled now, and
\* finds in it what it has put there itself.
OnItsOwn ==
    \A k \in Connections :
        conn[k].phase \in Handling /\ conn[k].alone =>
            /\ \A j \in Connections \ {k} :
                  conn[j].phase \in Handling => File(j) # File(k)
            /\ File(k) \in Documents => Progress(conn[k], file[File(k)])

IInv ==
    /\ TypeInv
    /\ \A k \in Connections : Consistent(conn[k])
    /\ PlainKept
    /\ OnItsOwn
    /\ OwnAnswer
    /\ NoLeftovers

-----------------------------------------------------------------------------
(* Lemmas about the values *)

\* The services in a circle.
LEMMA ServicesCircle ==
    /\ 0 \in Services
    /\ \A s \in Services : ServiceAfter(s) \in Services
<1>1. PoolSize \in Nat \ {0}
  BY PoolAssumption
<1>. QED
  BY <1>1 DEF Services, ServiceAfter

\* The replies of the server.
LEMMA RepliesTyped ==
    /\ NoReply \in Replies
    /\ \A status \in {"400", "404"} : StockReply(status) \in Replies
    /\ \A content \in Parts : \A path : OkReply(content, path) \in Replies
<1>1. "text/html" \in Types /\ "text/plain" \in Types
  BY DEF Types, MimeTypes
<1>2. \A extension : ExtensionToType(extension) \in Types
  BY <1>1 DEF ExtensionToType, Types
<1>3. /\ NoReply \in Replies
      /\ \A status \in {"400", "404"} : StockReply(status) \in Replies
  BY <1>1 DEF NoReply, StockReply, Replies, Contents
<1>4. \A content \in Parts : \A path : OkReply(content, path) \in Replies
  BY <1>2 DEF OkReply, Replies, Contents
<1>. QED
  BY <1>3, <1>4

\* A connection that was just made.
LEMMA NoConnectionTyped ==
    /\ NoConnection \in Connection
    /\ Consistent(NoConnection)
    /\ NoConnection.phase = "none"
<1>1. <<>> \in Texts /\ <<>> \in Parts /\ <<>> \in Paths /\ Len(<<>>) = 0
  BY DEF Texts, Parts, Paths
<1>2. 0 \in Services /\ NoReply \in Replies /\ Fresh \in Parsers
  BY ServicesCircle, RepliesTyped, FreshTyped
<1>3. NoConnection \in Connection
  BY <1>1, <1>2 DEF NoConnection, Connection, Phases
<1>4. Consistent(NoConnection)
  BY <1>1 DEF NoConnection, Consistent
<1>. QED
  BY <1>3, <1>4 DEF NoConnection

\* What is due to a connection.
LEMMA OwedTyped ==
    ASSUME NEW c \in Connection
    PROVE  Owed(c) \in Parts
<1>1. <<>> \in Parts /\ <<0>> \in Parts
  BY DEF Parts, Authors
<1>2. c.answer \in Parts
  BY DEF Connection
<1>. QED
  BY <1>1, <1>2 DEF Owed

\* What a connection is due is what its own request and answer say (Owed).
LEMMA DueIsOwed == \A k : Due(k) = Owed(conn[k])
BY DEF Due, Owed, RouteOf

\* What closing a stream writes.
LEMMA WrittenTyped ==
    ASSUME NEW old \in Parts, NEW new \in Parts
    PROVE  Written(old, new) \in Parts /\ Written(<<>>, new) = new
<1>1. SubSeq(old, Len(new) + 1, Len(old)) \in Parts
  <2>1. \A i \in Len(new) + 1..Len(old) : old[i] \in Authors
    BY DEF Parts
  <2>2. Len(new) + 1 \in Int /\ Len(old) \in Int
    BY DEF Parts
  <2>. QED
    BY <2>1, <2>2, SubSeqProperties DEF Parts
<1>2. SubSeq(<<>>, Len(new) + 1, Len(<<>>)) = <<>>
  <2>1. Len(new) + 1 \in Int /\ Len(<<>>) \in Int /\ Len(<<>>) < Len(new) + 1
    BY DEF Parts
  <2>. QED
    BY <2>1, SubSeqEmpty
<1>3. new \o <<>> = new
  BY DEF Parts
<1>. QED
  BY <1>1, <1>2, <1>3 DEF Written, Parts

\* The route of a writer.
LEMMA WriterFile ==
    ASSUME NEW path \in Paths, Route(path) \in Writers
    PROVE  FileOf(path) \in Documents /\ IsJson(path) /\ IsJson(FileOf(path))
BY WriterRoute, DocumentsAssumption DEF IsJson, Paths

\* The file an alias names has the extension of the alias.
LEMMA JsonFile ==
    ASSUME NEW path \in Paths
    PROVE  IsJson(FileOf(path)) <=> IsJson(path)
BY ExtensionOfFile DEF IsJson, Paths

-----------------------------------------------------------------------------
(* The invariant holds at first.                                             *)
LEMMA InitIInv ==
    ASSUME NEW scenario \in Scenarios, HttpInit(scenario)
    PROVE  IInv
<1> USE DEF HttpInit
<1>1. /\ scenario.clients \in Seq(Texts) /\ scenario.faults \in Nat
      /\ Len(scenario.clients) + scenario.faults < MaxConnections
  BY ScenariosAssumption DEF Texts, Reads
<1>2. MaxConnections \in Nat \ {0} /\ 1 \in Connections
  BY ConnectionsAssumption DEF Connections
<1>3. ServiceAfter(AcceptService) \in Services /\ nextService \in Services
  BY ServicesCircle DEF AcceptService
<1> DEFINE first == [NoConnection EXCEPT !.phase = "accepting",
                                         !.service = ServiceAfter(AcceptService)]
<1>4. /\ first \in Connection /\ first.phase = "accepting"
      /\ first.read = 0 /\ first.sent = <<>> /\ first.content = <<>>
      /\ first.reply = NoReply
  BY <1>3, NoConnectionTyped DEF Connection, Phases, NoConnection
<1>5. \A k \in Connections : conn[k] = IF k = 1 THEN first ELSE NoConnection
  OBVIOUS
<1> HIDE DEF first
<1>6. conn \in [Connections -> Connection]
  <2>1. \A k \in Connections : conn[k] \in Connection
    BY <1>4, <1>5, NoConnectionTyped
  <2>2. conn = [k \in Connections |-> conn[k]]
    OBVIOUS
  <2>. QED
    BY <2>1, <2>2
<1>7. \A k \in Connections : /\ conn[k].phase \in {"none", "accepting"}
                             /\ conn[k].phase = "none" <=> k > 1
                             /\ conn[k].reply = NoReply
                             /\ Consistent(conn[k])
  <2>1. Consistent(first)
    BY <1>4 DEF Consistent
  <2>2. NoConnection.reply = NoReply
    BY DEF NoConnection
  <2>. QED
    BY <1>2, <1>4, <1>5, <2>1, <2>2, NoConnectionTyped DEF Connections
<1>8. file \in [Documents -> Parts]
  <2>1. <<>> \in Parts /\ <<0>> \in Parts
    BY DEF Parts, Authors
  <2>. QED
    BY <2>1
<1>9. TypeInv
  BY <1>1, <1>2, <1>3, <1>6, <1>7, <1>8 DEF TypeInv
<1>10. PlainKept /\ NoLeftovers
  BY DEF PlainKept, NoLeftovers
<1>11. OnItsOwn
  BY <1>7 DEF OnItsOwn, Handling
<1>12. OwnAnswer
  BY <1>7 DEF OwnAnswer, NoReply, StockReply
<1>. QED
  BY <1>7, <1>9, <1>10, <1>11, <1>12 DEF IInv

-----------------------------------------------------------------------------
(* A step of the handler of one connection, from what it makes of the          *)
(* connection and of its file.                                               *)
LEMMA HandlerStep ==
    ASSUME IInv,
           NEW k \in Connections, NEW c \in Connection, NEW contents \in [Documents -> Parts],
           conn[k].phase \in Handling \cup {"sending"},
           conn' = [conn EXCEPT ![k] = c], file' = contents,
           UNCHANGED <<nextService, made, waiting, faults, exited, stopped>>,
           process' \in {"running", "undefined", "terminated"},
           c.path = conn[k].path, c.alone = conn[k].alone,
           c.phase # "none", Consistent(c),
           c.phase \in Handling => conn[k].phase \in Handling,
           \A d \in Documents : d # File(k) \/ conn[k].phase = "sending" =>
                contents[d] = file[d],
           \A d \in Documents : ~IsJson(d) => contents[d] = << 0 >>,
           c.phase \in Handling /\ c.alone /\ File(k) \in Documents =>
                Progress(c, contents[File(k)]),
           c.reply.status = "200" /\ c.alone => c.reply.content = Owed(c),
           c.phase \notin Handling /\ conn[k].phase \in Handling
                /\ File(k) \in Documents /\ IsJson(File(k)) => contents[File(k)] = <<>>
    PROVE  IInv'
<1> USE DEF IInv
<1>1. conn \in [Connections -> Connection] /\ conn' \in [Connections -> Connection]
  BY DEF TypeInv
<1>2. conn'[k] = c /\ \A j \in Connections \ {k} : conn'[j] = conn[j]
  BY <1>1
<1>3. \A j \in Connections : File(j)' = File(j)
  BY <1>2 DEF File
<1>4. \A j \in Connections : conn'[j].phase \in Handling => conn[j].phase \in Handling
  BY <1>2
<1>5. TypeInv'
  <2>1. conn[k].phase # "none"
    BY DEF Handling
  <2>2. \A j \in Connections : conn'[j].phase = "none" <=> j > made
    BY <1>2, <2>1 DEF TypeInv
  <2>. QED
    BY <1>1, <2>2 DEF TypeInv
<1>6. (\A j \in Connections : Consistent(conn[j]))'
  BY <1>2
<1>7. PlainKept'
  BY DEF PlainKept
<1>8. OnItsOwn'
  <2> SUFFICES ASSUME NEW i \in Connections, conn'[i].phase \in Handling, conn'[i].alone
               PROVE  /\ \A j \in Connections \ {i} :
                            conn'[j].phase \in Handling => File(j)' # File(i)'
                      /\ File(i)' \in Documents => Progress(conn'[i], file'[File(i)'])
    BY DEF OnItsOwn
  <2>1. conn[i].phase \in Handling /\ conn[i].alone
    BY <1>2, <1>4
  <2>2. \A j \in Connections \ {i} : conn[j].phase \in Handling => File(j) # File(i)
    BY <2>1 DEF OnItsOwn
  <2>3. \A j \in Connections \ {i} : conn'[j].phase \in Handling => File(j)' # File(i)'
    BY <1>3, <1>4, <2>2
  <2>4. CASE i = k
    BY <1>2, <1>3, <2>3, <2>4
  <2>5. CASE i # k
    <3>1. ASSUME File(i) \in Documents
          PROVE  contents[File(i)] = file[File(i)]
      BY <2>2, <2>5, <3>1
    <3>2. File(i) \in Documents => Progress(conn[i], file[File(i)])
      BY <2>1 DEF OnItsOwn
    <3>. QED
      BY <1>2, <1>3, <2>3, <2>5, <3>1, <3>2
  <2>. QED
    BY <2>4, <2>5
<1>9. OwnAnswer'
  <2> SUFFICES ASSUME NEW i \in Connections, conn'[i].reply.status = "200", conn'[i].alone
               PROVE  conn'[i].reply.content = Due(i)'
    BY DEF OwnAnswer
  <2>1. Due(i)' = Owed(conn'[i])
    BY DEF Due, Owed, RouteOf
  <2>2. CASE i = k
    BY <1>2, <2>1, <2>2
  <2>3. CASE i # k
    <3>1. conn[i].reply.content = Owed(conn[i])
      BY <1>2, <2>3, DueIsOwed DEF OwnAnswer
    <3>. QED
      BY <1>2, <2>1, <2>3, <3>1
  <2>. QED
    BY <2>2, <2>3
<1>10. NoLeftovers'
  <2> SUFFICES ASSUME NEW d \in Documents, IsJson(d), file'[d] # <<>>
               PROVE  \E j \in Connections : conn'[j].phase \in Handling /\ File(j)' = d
    BY DEF NoLeftovers
  <2>1. CASE d = File(k) /\ conn[k].phase \in Handling
    <3>1. c.phase \in Handling
      BY <2>1
    <3>. QED
      BY <1>2, <1>3, <2>1, <3>1
  <2>2. CASE d # File(k) \/ conn[k].phase = "sending"
    <3>1. file[d] # <<>>
      BY <2>2
    <3>2. PICK j \in Connections : conn[j].phase \in Handling /\ File(j) = d
      BY <3>1 DEF NoLeftovers
    <3>3. j # k
      BY <2>2, <3>2 DEF Handling
    <3>. QED
      BY <1>2, <1>3, <3>2, <3>3
  <2>. QED
    BY <2>1, <2>2
<1>. QED
  BY <1>5, <1>6, <1>7, <1>8, <1>9, <1>10

\* A step that touches no file and only connections in U, none of which is
\* handled before it or after it.
LEMMA QuietStep ==
    ASSUME IInv, TypeInv', NEW U, file' = file,
           \A j \in Connections \ U : conn'[j] = conn[j],
           \A j \in Connections \cap U :
                /\ conn[j].phase \notin Handling /\ conn'[j].phase \notin Handling
                /\ Consistent(conn'[j]) /\ conn'[j].reply.status # "200"
    PROVE  IInv'
<1> USE DEF IInv
<1>1. \A j \in Connections : conn'[j].phase \in Handling \/ conn[j].phase \in Handling =>
                                conn'[j] = conn[j] /\ File(j)' = File(j)
  BY DEF File
<1>2. (\A j \in Connections : Consistent(conn[j]))'
  OBVIOUS
<1>3. PlainKept'
  BY DEF PlainKept
<1>4. OnItsOwn'
  <2> SUFFICES ASSUME NEW i \in Connections, conn'[i].phase \in Handling, conn'[i].alone
               PROVE  /\ \A j \in Connections \ {i} :
                            conn'[j].phase \in Handling => File(j)' # File(i)'
                      /\ File(i)' \in Documents => Progress(conn'[i], file'[File(i)'])
    BY DEF OnItsOwn
  <2>. QED
    BY <1>1 DEF OnItsOwn
<1>5. OwnAnswer'
  <2> SUFFICES ASSUME NEW i \in Connections, conn'[i].reply.status = "200", conn'[i].alone
               PROVE  conn'[i].reply.content = Due(i)'
    BY DEF OwnAnswer
  <2>1. conn'[i] = conn[i]
    OBVIOUS
  <2>2. Due(i)' = Owed(conn'[i])
    BY DEF Due, Owed, RouteOf
  <2>. QED
    BY <2>1, <2>2, DueIsOwed DEF OwnAnswer
<1>6. NoLeftovers'
  BY <1>1 DEF NoLeftovers
<1>. QED
  BY <1>2, <1>3, <1>4, <1>5, <1>6

-----------------------------------------------------------------------------
(* The actions, one by one.                                                  *)

\* start_accept, after an accept that went well or failed.
LEMMA AcceptsKeeps ==
    ASSUME IInv, NEW first \in Connection, Accepting(first),
           first.phase \in {"reading", "failed"}, Consistent(first),
           conn[made].phase = "accepting",
           waiting' \in Seq(Texts), faults' \in Nat,
           UNCHANGED <<process, file, exited, stopped>>
    PROVE  IInv'
<1> USE DEF IInv
<1>1. made \in Nat /\ made + 1 \in Connections /\ made # made + 1
  BY ConnectionsAssumption DEF TypeInv, Accepting, Connections
<1> DEFINE next == [conn[made + 1] EXCEPT !.phase = "accepting", !.service = nextService]
<1>2. conn[made + 1] \in Connection /\ conn[made + 1].phase = "none"
  BY <1>1 DEF TypeInv
<1>3. next \in Connection /\ next.phase = "accepting" /\ Consistent(next)
  <2>1. nextService \in Services
    BY DEF TypeInv
  <2>2. Consistent(conn[made + 1])
    BY <1>1
  <2>3. next \in Connection /\ next.phase = "accepting"
    BY <1>2, <2>1 DEF Connection, Phases
  <2>4. /\ next.read = conn[made + 1].read /\ next.sent = conn[made + 1].sent
        /\ next.content = conn[made + 1].content /\ next.reply = conn[made + 1].reply
    BY <1>2 DEF Connection
  <2>. QED
    BY <1>2, <2>2, <2>3, <2>4 DEF Consistent
<1>4. next.reply.status # "200" /\ first.reply.status # "200"
  BY <1>3 DEF Consistent, NoReply, StockReply
<1>5. /\ conn' \in [Connections -> Connection]
      /\ conn'[made] = first /\ conn'[made + 1] = next
      /\ \A j \in Connections \ {made, made + 1} : conn'[j] = conn[j]
  <2>1. conn' = [conn EXCEPT ![made] = first, ![made + 1] = next]
    BY <1>1 DEF Accepting, TypeInv
  <2> HIDE DEF next
  <2>. QED
    BY <1>1, <1>3, <2>1 DEF TypeInv
<1> HIDE DEF next
<1>6. TypeInv'
  <2>1. nextService' \in Services /\ made' = made + 1
    BY ServicesCircle DEF Accepting, TypeInv
  <2>2. \A j \in Connections : conn'[j].phase = "none" <=> j > made + 1
    BY <1>1, <1>3, <1>5 DEF TypeInv, Connections
  <2>. QED
    BY <1>1, <1>5, <2>1, <2>2 DEF TypeInv
<1>7. \A j \in Connections \cap {made, made + 1} :
         /\ conn[j].phase \notin Handling /\ conn'[j].phase \notin Handling
         /\ Consistent(conn'[j]) /\ conn'[j].reply.status # "200"
  BY <1>2, <1>3, <1>4, <1>5 DEF Handling
<1>. QED
  BY <1>5, <1>6, <1>7, QuietStep

\* An accepted connection (Server.cpp:44-63) has done nothing yet.
LEMMA HandleAcceptKeeps == IInv /\ HandleAccept => IInv'
<1> SUFFICES ASSUME IInv, HandleAccept PROVE IInv'
  OBVIOUS
<1> DEFINE first == [conn[made] EXCEPT !.phase = "reading", !.sent = Head(waiting)]
<1>1. Head(waiting) \in Texts /\ Tail(waiting) \in Seq(Texts)
  BY DEF HandleAccept, IInv, TypeInv
<1>2. conn[made] \in Connection /\ conn[made].phase = "accepting" /\ Consistent(conn[made])
  BY DEF HandleAccept, IInv, TypeInv
<1>3. first \in Connection /\ first.phase = "reading"
  BY <1>1, <1>2 DEF Connection, Phases
<1>4. Len(Head(waiting)) \in Nat
  BY <1>1 DEF Texts
<1>5. Consistent(first)
  BY <1>2, <1>4 DEF Consistent, Connection
<1>6. Accepting(first)
  BY DEF HandleAccept, StartAccept
<1> HIDE DEF first
<1>. QED
  BY <1>1, <1>2, <1>3, <1>5, <1>6, AcceptsKeeps DEF HandleAccept, IInv, TypeInv

\* A failing accept takes a waiting client away and nothing else.
LEMMA AcceptFailsKeeps == IInv /\ AcceptFails => IInv'
<1> SUFFICES ASSUME IInv, AcceptFails PROVE IInv'
  OBVIOUS
<1> DEFINE first == [conn[made] EXCEPT !.phase = "failed"]
<1>1. waiting' \in Seq(Texts)
  <2>1. waiting \in Seq(Texts) /\ (waiting # <<>> => Tail(waiting) \in Seq(Texts))
    BY DEF IInv, TypeInv
  <2>2. waiting' = waiting \/ (waiting # <<>> /\ waiting' = Tail(waiting))
    BY DEF AcceptFails
  <2>. QED
    BY <2>1, <2>2
<1>2. conn[made] \in Connection /\ conn[made].phase = "accepting" /\ Consistent(conn[made])
  BY DEF AcceptFails, IInv, TypeInv
<1>3. first \in Connection /\ first.phase = "failed"
  BY <1>1, <1>2 DEF Connection, Phases
<1>4. Consistent(first)
  BY <1>2 DEF Consistent, Connection
<1>5. Accepting(first) /\ faults' \in Nat
  BY DEF AcceptFails, StartAccept, Fails, IInv, TypeInv
<1> HIDE DEF first
<1>. QED
  BY <1>1, <1>2, <1>3, <1>4, <1>5, AcceptsKeeps DEF AcceptFails, IInv, TypeInv

\* A failing read (Connection.cpp:43-70) gives the connection up.
LEMMA ReadFailsKeeps ==
    ASSUME IInv, NEW k \in Connections, ReadFails(k)
    PROVE  IInv'
<1> USE DEF IInv
<1> DEFINE c == [conn[k] EXCEPT !.phase = "failed"]
<1>1. conn[k] \in Connection /\ conn[k].phase = "reading" /\ Consistent(conn[k])
  BY DEF ReadFails, TypeInv
<1>2. /\ c \in Connection /\ c.phase = "failed" /\ Consistent(c)
      /\ c.reply.status # "200"
  BY <1>1 DEF Connection, Phases, Consistent, NoReply, StockReply
<1>3. conn' = [conn EXCEPT ![k] = c]
  BY DEF ReadFails, TypeInv
<1> HIDE DEF c
<1>4. /\ conn' \in [Connections -> Connection] /\ conn'[k] = c
      /\ \A j \in Connections \ {k} : conn'[j] = conn[j]
  BY <1>2, <1>3 DEF TypeInv
<1>5. TypeInv'
  BY <1>1, <1>2, <1>4 DEF TypeInv, ReadFails, Fails
<1>6. \A j \in Connections \cap {k} :
         /\ conn[j].phase \notin Handling /\ conn'[j].phase \notin Handling
         /\ Consistent(conn'[j]) /\ conn'[j].reply.status # "200"
  BY <1>1, <1>2, <1>4 DEF Handling
<1>7. file' = file
  BY DEF ReadFails
<1>. QED
  BY <1>4, <1>5, <1>6, <1>7, QuietStep

\* Steps that change no connection and no file.
LEMMA OtherSteps ==
    ASSUME IInv, \/ HandleStop \/ \E s \in Services : ServiceExits(s)
                 \/ \E outcome \in {process, "undefined"} : OtherFails(outcome)
                 \/ UNCHANGED httpVars
    PROVE  IInv'
<1> USE DEF IInv
<1>1. conn' = conn /\ file' = file
  BY DEF HandleStop, ServiceExits, OtherFails, httpVars
<1>2. TypeInv'
  <2>1. CASE HandleStop
    BY <2>1 DEF HandleStop, StopAll, TypeInv
  <2>2. CASE \E s \in Services : ServiceExits(s)
    BY <2>2 DEF ServiceExits, TypeInv
  <2>3. CASE \E outcome \in {process, "undefined"} : OtherFails(outcome)
    BY <2>3 DEF OtherFails, Fails, TypeInv
  <2>4. CASE UNCHANGED httpVars
    BY <2>4 DEF httpVars, TypeInv
  <2>. QED
    BY <2>1, <2>2, <2>3, <2>4
<1>3. /\ \A j \in Connections \ {} : conn'[j] = conn[j]
      /\ \A j \in Connections \cap {} :
            /\ conn[j].phase \notin Handling /\ conn'[j].phase \notin Handling
            /\ Consistent(conn'[j]) /\ conn'[j].reply.status # "200"
  BY <1>1
<1>. QED
  BY <1>1, <1>2, <1>3, QuietStep

\* A request that was read whole: the connection begins to be handled, and those
\* handled for the same file are no longer alone.
LEMMA Begins ==
    ASSUME IInv, NEW k \in Connections, conn[k].phase = "reading",
           NEW c \in Connection, NEW path \in Paths, Consistent(c),
           c.phase = "reading", conn' = Begun(k, c, path),
           process' \in {"running", "undefined", "terminated"},
           UNCHANGED <<nextService, made, waiting, file, faults, exited, stopped>>
    PROVE  IInv'
<1> USE DEF IInv
<1> DEFINE together == Together(k, path)
           b == [c EXCEPT !.path = path, !.phase = FirstPhase(Route(path)),
                          !.alone = together = {}]
           joined(j) == [conn[j] EXCEPT !.alone = FALSE]
<1>1. /\ FirstPhase(Route(path)) \in {"open", "compute", "openReply"}
      /\ FirstPhase(Route(path)) = "open" <=> Route(path) \in Writers
  BY DEF FirstPhase, Writers
<1>2. /\ b \in Connection /\ b.path = path /\ b.phase = FirstPhase(Route(path))
      /\ b.alone = (together = {})
      /\ b.read = c.read /\ b.sent = c.sent /\ b.content = c.content /\ b.reply = c.reply
  <2>1. FirstPhase(Route(path)) \in Phases /\ (together = {}) \in BOOLEAN
    BY <1>1 DEF Phases, Handling
  <2> HIDE DEF together
  <2>. QED
    BY <2>1 DEF Connection
<1>3. Consistent(b) /\ b.phase \in Handling /\ b.reply.status # "200"
  BY <1>1, <1>2 DEF Consistent, Handling, NoReply, StockReply
<1>4. \A j \in together :
         /\ j \in Connections \ {k} /\ conn[j].phase \in Handling
         /\ File(j) = FileOf(path)
         /\ joined(j) \in Connection /\ Consistent(joined(j))
         /\ joined(j).phase = conn[j].phase /\ joined(j).path = conn[j].path
         /\ ~joined(j).alone
  <2>1. ASSUME NEW e \in Connection, Consistent(e)
        PROVE  LET f == [e EXCEPT !.alone = FALSE] IN
               /\ f \in Connection /\ Consistent(f)
               /\ f.phase = e.phase /\ f.path = e.path /\ ~f.alone
    BY <2>1 DEF Connection, Consistent
  <2>2. \A j \in Connections : conn[j] \in Connection /\ Consistent(conn[j])
    BY DEF TypeInv
  <2>3. \A j \in together : j \in Connections \ {k} /\ conn[j].phase \in Handling
                            /\ File(j) = FileOf(path)
    BY DEF Together
  <2>. QED
    BY <2>1, <2>2, <2>3
<1>5. /\ conn'[k] = b
      /\ \A j \in together : conn'[j] = joined(j)
      /\ \A j \in Connections \ (together \cup {k}) : conn'[j] = conn[j]
      /\ conn' = [j \in Connections |-> conn'[j]]
  <2> HIDE DEF together
  <2>1. conn' = [j \in Connections |->
                    CASE j = k -> b
                      [] j \in together -> [conn[j] EXCEPT !.alone = FALSE]
                      [] OTHER -> conn[j]]
    BY DEF Begun, together
  <2> HIDE DEF b
  <2>2. k \notin together /\ together \subseteq Connections
    BY <1>4
  <2>. QED
    BY <2>1, <2>2
<1> HIDE DEF b, joined
<1>6. \A j \in together : /\ conn'[j].phase = conn[j].phase /\ ~conn'[j].alone
                          /\ conn'[j].path = conn[j].path
  BY <1>4, <1>5
<1>7. \A j \in Connections \ {k} : /\ conn'[j].phase = conn[j].phase
                                   /\ File(j)' = File(j)
  BY <1>5, <1>6 DEF File
<1>8. File(k)' = FileOf(path) /\ conn[k].phase \notin Handling
  BY <1>2, <1>5 DEF File, Handling
<1>9. \A j \in Connections \ {k} :
         conn[j].phase \in Handling /\ File(j) = FileOf(path) => j \in together
  BY DEF Together
<1> HIDE DEF together
<1>10. TypeInv'
  <2>1. \A j \in Connections : conn'[j] \in Connection
    BY <1>2, <1>4, <1>5 DEF TypeInv
  <2>2. \A j \in Connections : conn'[j].phase = "none" <=> j > made
    BY <1>3, <1>5, <1>7 DEF TypeInv, Handling
  <2>. QED
    BY <1>5, <2>1, <2>2 DEF TypeInv
<1>11. (\A j \in Connections : Consistent(conn[j]))'
  BY <1>3, <1>4, <1>5
<1>12. PlainKept'
  BY DEF PlainKept
<1>13. OnItsOwn'
  <2> SUFFICES ASSUME NEW i \in Connections, conn'[i].phase \in Handling, conn'[i].alone
               PROVE  /\ \A j \in Connections \ {i} :
                            conn'[j].phase \in Handling => File(j)' # File(i)'
                      /\ File(i)' \in Documents => Progress(conn'[i], file'[File(i)'])
    BY DEF OnItsOwn
  <2>1. CASE i = k
    <3>1. \A j \in Connections \ {k} : conn[j].phase \in Handling => File(j) # FileOf(path)
      BY <1>2, <1>5, <1>9, <2>1
    <3>2. ASSUME FileOf(path) \in Documents
          PROVE  Progress(b, file[FileOf(path)])
      <4>1. IsJson(path) => file[FileOf(path)] = <<>>
        BY <1>8, <3>1, <3>2, JsonFile DEF NoLeftovers
      <4>2. ~IsJson(path) => file[FileOf(path)] = <<0>>
        BY <3>2, JsonFile DEF PlainKept
      <4>3. b.phase # "open" => file[FileOf(path)] = Owed(b)
        BY <1>1, <1>2, <4>1, <4>2 DEF Owed
      <4>. QED
        BY <1>1, <1>2, <4>3 DEF Progress
    <3>. QED
      BY <1>5, <1>7, <1>8, <2>1, <3>1, <3>2
  <2>2. CASE i # k
    <3>1. i \notin together /\ conn'[i] = conn[i]
      BY <1>5, <1>6, <2>2
    <3>2. File(i) # FileOf(path)
      BY <1>9, <2>2, <3>1
    <3>. QED
      BY <1>7, <1>8, <2>2, <3>1, <3>2 DEF OnItsOwn
  <2>. QED
    BY <2>1, <2>2
<1>14. OwnAnswer'
  <2> SUFFICES ASSUME NEW i \in Connections, conn'[i].reply.status = "200", conn'[i].alone
               PROVE  conn'[i].reply.content = Due(i)'
    BY DEF OwnAnswer
  <2>1. conn'[i] = conn[i]
    BY <1>3, <1>5, <1>6
  <2>2. Due(i)' = Owed(conn'[i])
    BY DEF Due, Owed, RouteOf
  <2>. QED
    BY <2>1, <2>2, DueIsOwed DEF OwnAnswer
<1>15. NoLeftovers'
  <2> SUFFICES ASSUME NEW d \in Documents, IsJson(d), file'[d] # <<>>
               PROVE  \E j \in Connections : conn'[j].phase \in Handling /\ File(j)' = d
    BY DEF NoLeftovers
  <2>1. PICK j \in Connections : conn[j].phase \in Handling /\ File(j) = d
    BY DEF NoLeftovers
  <2>. QED
    BY <1>7, <1>8, <2>1
<1>. QED
  BY <1>10, <1>11, <1>12, <1>13, <1>14, <1>15

\* A read may complete a request, and then its handler begins or a stock reply goes.
LEMMA HandleReadKeeps ==
    ASSUME IInv, NEW k \in Connections, HandleRead(k)
    PROVE  IInv'
<1> DEFINE parser == Parse(conn[k].parser, conn[k].sent[conn[k].read + 1])
           path == RequestPath(parser.request.uri)
           c == Took(conn[k], parser)
<1>1. /\ conn[k].phase = "reading" /\ conn[k].read < Len(conn[k].sent)
      /\ conn[k] \in Connection /\ Consistent(conn[k])
      /\ UNCHANGED <<nextService, made, waiting, file, signals, faults, exited, stopped>>
  BY DEF HandleRead, IInv, TypeInv
<1>2. conn[k].sent \in Texts /\ conn[k].read \in Nat /\ conn[k].parser \in Parsers
  BY <1>1 DEF Connection
<1>3. parser \in Parsers
  <2>1. conn[k].sent[conn[k].read + 1] \in Seq(Bytes)
    BY <1>1, <1>2 DEF Texts, Reads
  <2>. QED
    BY <1>2, <2>1, ParseTyped
<1>4. path \in Paths
  <2> HIDE DEF parser
  <2>1. parser.request.uri \in Seq(Bytes)
    BY <1>3 DEF Parsers, Request
  <2>. QED
    BY <2>1, PathAbsolute DEF Paths
<1>5. /\ conn' = CASE parser.verdict = "more" -> [conn EXCEPT ![k] = ReadMore(c)]
                   [] parser.verdict = "ok" /\ path # <<>> -> Begun(k, c, path)
                   [] OTHER -> [conn EXCEPT ![k] = Refused(c)]
      /\ process' = IF parser.verdict = "undefined" THEN "undefined" ELSE process
  BY DEF HandleRead
<1> HIDE DEF parser, path
<1>6. /\ c \in Connection /\ c.phase = "reading" /\ Consistent(c)
      /\ c.content = <<>>
  <2>1. \A n \in Nat :
           LET d == [conn[k] EXCEPT !.read = n, !.parser = parser] IN
           /\ d \in Connection /\ d.phase = conn[k].phase /\ d.read = n
           /\ d.sent = conn[k].sent /\ d.content = conn[k].content
           /\ d.reply = conn[k].reply
    BY <1>1, <1>3 DEF Connection
  <2>2. Len(conn[k].sent) \in Nat
    BY <1>2 DEF Texts
  <2>3. conn[k].read + 1 \in Nat
    BY <1>2
  <2>4. /\ c \in Connection /\ c.phase = "reading" /\ c.read = conn[k].read + 1
        /\ c.sent = conn[k].sent /\ c.content = conn[k].content /\ c.reply = conn[k].reply
    BY <1>1, <2>1, <2>3 DEF Took
  <2>. QED
    BY <1>1, <1>2, <2>2, <2>4 DEF Consistent
<1> HIDE DEF c
<1>7. process' \in {"running", "undefined", "terminated"}
  BY <1>5 DEF IInv, TypeInv
<1>8. ASSUME NEW d \in Connection, conn' = [conn EXCEPT ![k] = d], Consistent(d),
             d.phase \in {"reading", "sending"}, d.reply.status # "200"
      PROVE  IInv'
  <2>1. /\ conn' \in [Connections -> Connection] /\ conn'[k] = d
        /\ \A j \in Connections \ {k} : conn'[j] = conn[j]
    BY <1>8 DEF IInv, TypeInv
  <2>2. TypeInv'
    BY <1>1, <1>7, <1>8, <2>1 DEF IInv, TypeInv
  <2>3. \A j \in Connections \cap {k} :
           /\ conn[j].phase \notin Handling /\ conn'[j].phase \notin Handling
           /\ Consistent(conn'[j]) /\ conn'[j].reply.status # "200"
    BY <1>1, <1>8, <2>1 DEF Handling
  <2>. QED
    BY <1>1, <2>1, <2>2, <2>3, QuietStep
<1>9. CASE parser.verdict = "more"
  <2>1. conn' = [conn EXCEPT ![k] = c]
    BY <1>5, <1>9 DEF ReadMore
  <2>2. c.reply.status # "200"
    BY <1>6 DEF Consistent, NoReply, StockReply
  <2>. QED
    BY <1>6, <1>8, <2>1, <2>2
<1>10. CASE parser.verdict = "ok" /\ path # <<>>
  <2>1. conn' = Begun(k, c, path)
    BY <1>5, <1>10
  <2>. QED
    BY <1>1, <1>4, <1>6, <1>7, <2>1, Begins
<1>11. CASE parser.verdict # "more" /\ ~(parser.verdict = "ok" /\ path # <<>>)
  <2>1. conn' = [conn EXCEPT ![k] = Refused(c)]
    BY <1>5, <1>11
  <2>2. StockReply("400") \in Replies /\ StockReply("400").status = "400"
    BY RepliesTyped DEF StockReply
  <2>3. /\ Refused(c) \in Connection /\ Refused(c).phase = "sending"
        /\ Refused(c).reply.status = "400"
        /\ Refused(c).read = c.read /\ Refused(c).sent = c.sent
    BY <1>6, <2>2 DEF Refused, Connection, Phases
  <2>4. Consistent(Refused(c))
    BY <1>6, <2>3 DEF Consistent
  <2>. QED
    BY <1>8, <2>1, <2>3, <2>4
<1>. QED
  BY <1>9, <1>10, <1>11

\* What is known of a connection whose handler takes a step.
LEMMA Handled ==
    ASSUME IInv, NEW k \in Connections
    PROVE  /\ conn[k] \in Connection /\ Consistent(conn[k])
           /\ conn[k].path \in Paths /\ File(k) = FileOf(conn[k].path)
           /\ RouteOf(k) = Route(conn[k].path)
           /\ Due(k) = Owed(conn[k])
           /\ conn[k].answer \in Parts /\ conn[k].content \in Parts
           /\ conn[k].phase \in Handling /\ conn[k].alone /\ File(k) \in Documents =>
                 Progress(conn[k], file[File(k)])
           /\ conn[k].reply.status = "200" /\ conn[k].alone =>
                 conn[k].reply.content = Owed(conn[k])
           /\ \A d \in Documents : ~IsJson(d) => file[d] = <<0>>
           /\ file \in [Documents -> Parts]
           /\ Authors # {} /\ <<>> \in Parts
<1>1. conn[k] \in Connection
  BY DEF IInv, TypeInv
<1>2. <<>> \in Parts
  BY DEF Parts
<1>. QED
  BY <1>1, <1>2, DueIsOwed
     DEF IInv, TypeInv, Connection, File, RouteOf, OnItsOwn, OwnAnswer, PlainKept, Authors

\* A step to another phase that changes nothing else of the connection.
LEMMA PhaseChange ==
    ASSUME NEW c \in Connection, NEW phase \in Phases
    PROVE  LET d == [c EXCEPT !.phase = phase] IN
           /\ d \in Connection /\ d.phase = phase
           /\ d.path = c.path /\ d.alone = c.alone /\ d.read = c.read /\ d.sent = c.sent
           /\ d.answer = c.answer /\ d.content = c.content /\ d.reply = c.reply
           /\ Owed(d) = Owed(c)
BY DEF Connection, Owed

\* Opening an endpoint's file for writing empties it.
LEMMA OpenKeeps ==
    ASSUME IInv, NEW k \in Connections, Open(k)
    PROVE  IInv'
<1> DEFINE c == [conn[k] EXCEPT !.phase = "compute"]
           contents == [file EXCEPT ![File(k)] = <<>>]
<1>1. /\ conn[k].phase = "open" /\ conn' = [conn EXCEPT ![k] = c] /\ file' = contents
      /\ UNCHANGED <<process, nextService, made, waiting, faults, exited, stopped>>
  BY DEF Open, Handles
<1>2. process' \in {"running", "undefined", "terminated"}
  BY <1>1 DEF IInv, TypeInv
<1>3. "compute" \in Phases
  BY DEF Phases, Handling
<1>4. /\ c \in Connection /\ c.phase = "compute" /\ c.path = conn[k].path
      /\ c.alone = conn[k].alone /\ c.read = conn[k].read /\ c.sent = conn[k].sent
      /\ c.content = conn[k].content /\ c.reply = conn[k].reply
  BY <1>3, Handled, PhaseChange
<1>5. Route(c.path) \in Writers
  BY <1>1, <1>4, Handled DEF Consistent
<1>6. File(k) \in Documents /\ IsJson(File(k))
  BY <1>4, <1>5, Handled, WriterFile
<1>7. /\ contents \in [Documents -> Parts] /\ contents[File(k)] = <<>>
      /\ \A d \in Documents : d # File(k) => contents[d] = file[d]
  BY <1>6, Handled
<1> HIDE DEF c, contents
<1>8. Consistent(c) /\ c.reply.status # "200"
  BY <1>1, <1>4, Handled DEF Consistent, NoReply, StockReply
<1>9. Progress(c, contents[File(k)])
  BY <1>4, <1>5, <1>7 DEF Progress
<1>10. \A d \in Documents : ~IsJson(d) => contents[d] = <<0>>
  BY <1>6, <1>7, Handled
<1>11. conn[k].phase \in Handling /\ c.phase \in Handling /\ conn[k].phase # "sending"
       /\ c.phase # "none"
  BY <1>1, <1>4 DEF Handling
<1>. QED
  BY <1>1, <1>2, <1>4, <1>7, <1>8, <1>9, <1>10, <1>11, HandlerStep

\* Closing the stream leaves the answer at the head of the file.
LEMMA WriteKeeps ==
    ASSUME IInv, NEW k \in Connections, Write(k)
    PROVE  IInv'
<1> DEFINE c == [conn[k] EXCEPT !.phase = "openReply"]
           contents == [file EXCEPT ![File(k)] = Written(file[File(k)], conn[k].answer)]
<1>1. /\ conn[k].phase = "write" /\ conn' = [conn EXCEPT ![k] = c] /\ file' = contents
      /\ UNCHANGED <<process, nextService, made, waiting, faults, exited, stopped>>
  BY DEF Write, Handles, Closed
<1>2. process' \in {"running", "undefined", "terminated"}
  BY <1>1 DEF IInv, TypeInv
<1>3. "openReply" \in Phases
  BY DEF Phases, Handling
<1>4. /\ c \in Connection /\ c.phase = "openReply" /\ c.path = conn[k].path
      /\ c.alone = conn[k].alone /\ c.read = conn[k].read /\ c.sent = conn[k].sent
      /\ c.answer = conn[k].answer
      /\ c.content = conn[k].content /\ c.reply = conn[k].reply
  BY <1>3, Handled, PhaseChange
<1>5. Route(c.path) \in Writers
  BY <1>1, <1>4, Handled DEF Consistent
<1>6. File(k) \in Documents /\ IsJson(File(k))
  BY <1>4, <1>5, Handled, WriterFile
<1>7. /\ contents \in [Documents -> Parts]
      /\ contents[File(k)] = Written(file[File(k)], conn[k].answer)
      /\ \A d \in Documents : d # File(k) => contents[d] = file[d]
  <2>1. Written(file[File(k)], conn[k].answer) \in Parts
    BY <1>6, Handled, WrittenTyped
  <2>. QED
    BY <1>6, <2>1, Handled
<1> HIDE DEF c, contents
<1>8. Consistent(c) /\ c.reply.status # "200"
  BY <1>1, <1>4, Handled DEF Consistent, NoReply, StockReply
<1>9. c.alone => Progress(c, contents[File(k)])
  <2> SUFFICES ASSUME c.alone PROVE Progress(c, contents[File(k)])
    OBVIOUS
  <2>1. file[File(k)] = <<>>
    BY <1>1, <1>4, <1>5, <1>6, Handled DEF Progress, Handling
  <2>2. contents[File(k)] = c.answer
    BY <1>4, <1>7, <2>1, Handled, WrittenTyped
  <2>. QED
    BY <1>4, <1>5, <2>2 DEF Progress, Owed
<1>10. \A d \in Documents : ~IsJson(d) => contents[d] = <<0>>
  BY <1>6, <1>7, Handled
<1>11. conn[k].phase \in Handling /\ c.phase \in Handling /\ conn[k].phase # "sending"
       /\ c.phase # "none"
  BY <1>1, <1>4 DEF Handling
<1>. QED
  BY <1>1, <1>2, <1>4, <1>7, <1>8, <1>9, <1>10, <1>11, HandlerStep

\* Opening the file to send it finds it, or the reply is 404.
LEMMA OpenReplyKeeps ==
    ASSUME IInv, NEW k \in Connections, OpenReply(k)
    PROVE  IInv'
<1> DEFINE c == IF File(k) \in Documents
                THEN [conn[k] EXCEPT !.phase = "readFile"]
                ELSE [conn[k] EXCEPT !.phase = "sending", !.reply = StockReply("404")]
<1>1. /\ conn[k].phase = "openReply" /\ conn' = [conn EXCEPT ![k] = c] /\ file' = file
      /\ UNCHANGED <<process, nextService, made, waiting, faults, exited, stopped>>
  BY DEF OpenReply, Handles
<1>2. process' \in {"running", "undefined", "terminated"}
  BY <1>1 DEF IInv, TypeInv
<1>3. "readFile" \in Phases /\ "sending" \in Phases
  BY DEF Phases, Handling
<1>4. /\ conn[k].content = <<>> /\ conn[k].reply = NoReply /\ NoReply.status = "none"
      /\ conn[k].phase \in Handling
  BY <1>1, Handled DEF Consistent, NoReply, StockReply, Handling
<1>5. CASE File(k) \in Documents
  <2>1. /\ c \in Connection /\ c.phase = "readFile" /\ c.path = conn[k].path
        /\ c.alone = conn[k].alone /\ c.read = conn[k].read /\ c.sent = conn[k].sent
        /\ c.content = conn[k].content /\ c.reply = conn[k].reply /\ Owed(c) = Owed(conn[k])
    BY <1>3, <1>5, Handled, PhaseChange
  <2> HIDE DEF c
  <2>2. Consistent(c)
    BY <1>1, <1>5, <2>1, Handled DEF Consistent
  <2>3. c.alone => Progress(c, file[File(k)])
    <3> SUFFICES ASSUME c.alone PROVE Progress(c, file[File(k)])
      OBVIOUS
    <3>1. file[File(k)] = Owed(c)
      BY <1>1, <1>4, <1>5, <2>1, Handled DEF Progress
    <3>2. Len(c.content) = 0 /\ Len(Owed(c)) \in Nat
      BY <1>4, <2>1, OwedTyped DEF Parts
    <3>. QED
      BY <2>1, <3>1, <3>2 DEF Progress
  <2>. QED
    BY <1>1, <1>2, <1>4, <2>1, <2>2, <2>3, Handled, HandlerStep DEF Handling
<1>6. CASE File(k) \notin Documents
  <2>1. StockReply("404") \in Replies /\ StockReply("404").status = "404"
    BY RepliesTyped DEF StockReply
  <2>2. /\ c \in Connection /\ c.phase = "sending" /\ c.path = conn[k].path
        /\ c.alone = conn[k].alone /\ c.read = conn[k].read /\ c.sent = conn[k].sent
        /\ c.content = conn[k].content /\ c.reply.status = "404"
    BY <1>3, <1>6, <2>1, Handled DEF Connection
  <2> HIDE DEF c
  <2>3. Consistent(c)
    BY <2>2, Handled DEF Consistent
  <2>. QED
    BY <1>1, <1>2, <1>4, <1>6, <2>2, <2>3, Handled, HandlerStep DEF Handling
<1>. QED
  BY <1>5, <1>6

\* Reading appends the next part of the file to the reply, or ends.
LEMMA ReadFileKeeps ==
    ASSUME IInv, NEW k \in Connections, ReadFile(k)
    PROVE  IInv'
<1> DEFINE old == conn[k]
           done == Len(old.content) >= Len(file[File(k)])
           more == [old EXCEPT !.content =
                                 Append(old.content, file[File(k)][Len(old.content) + 1])]
           all == [old EXCEPT !.reply = OkReply(old.content, old.path),
                              !.phase = IF IsJson(old.path) THEN "erase" ELSE "sending"]
<1>1. /\ old.phase = "readFile" /\ file' = file
      /\ conn' = [conn EXCEPT ![k] = IF ~done THEN more ELSE all]
      /\ UNCHANGED <<process, nextService, made, waiting, faults, exited, stopped>>
  <2>1. Len(old.content) >= Len(file[File(k)]) <=> done
    OBVIOUS
  <2>2. old \in Connection
    BY Handled
  <2>. QED
    BY <2>2 DEF ReadFile, Handles
<1>2. process' \in {"running", "undefined", "terminated"}
  BY <1>1 DEF IInv, TypeInv
<1>3. "erase" \in Phases /\ "sending" \in Phases
  BY DEF Phases, Handling
<1>4. /\ old.reply = NoReply /\ NoReply.status = "none" /\ old.phase \in Handling
      /\ File(k) \in Documents
  BY <1>1, Handled DEF Consistent, NoReply, StockReply, Handling
<1>5. /\ file[File(k)] \in Parts /\ Len(file[File(k)]) \in Nat
      /\ old.content \in Parts /\ Len(old.content) \in Nat
      /\ Owed(old) \in Parts /\ Len(Owed(old)) \in Nat
  BY <1>4, Handled, OwedTyped DEF Parts
<1>6. old.alone => /\ file[File(k)] = Owed(old)
                   /\ Len(old.content) <= Len(Owed(old))
                   /\ \A i \in 1..Len(old.content) : old.content[i] = Owed(old)[i]
  BY <1>1, <1>4, Handled DEF Progress
<1>7. CASE ~done
  <2> DEFINE part == file[File(k)][Len(old.content) + 1]
  <2>1. part \in Authors
    BY <1>5, <1>7 DEF Parts
  <2> HIDE DEF part
  <2>2. /\ Append(old.content, part) \in Parts
        /\ Len(Append(old.content, part)) = Len(old.content) + 1
        /\ \A i \in 1..Len(old.content) : Append(old.content, part)[i] = old.content[i]
        /\ Append(old.content, part)[Len(old.content) + 1] = part
    BY <1>5, <2>1 DEF Parts
  <2>3. \A content \in Parts :
           LET d == [old EXCEPT !.content = content] IN
           /\ d \in Connection /\ d.content = content
           /\ d.phase = old.phase /\ d.path = old.path /\ d.alone = old.alone
           /\ d.read = old.read /\ d.sent = old.sent /\ d.reply = old.reply
           /\ Owed(d) = Owed(old)
    BY Handled DEF Connection, Owed
  <2>4. /\ more \in Connection /\ more.content = Append(old.content, part)
        /\ more.phase = old.phase /\ more.path = old.path /\ more.alone = old.alone
        /\ more.read = old.read /\ more.sent = old.sent /\ more.reply = old.reply
        /\ Owed(more) = Owed(old)
    BY <2>2, <2>3 DEF part
  <2>5. conn' = [conn EXCEPT ![k] = more]
    BY <1>1, <1>7
  <2>6. old.alone => part = Owed(old)[Len(old.content) + 1]
                     /\ Len(old.content) + 1 <= Len(Owed(old))
    BY <1>5, <1>6, <1>7 DEF part
  <2> HIDE DEF more, done
  <2>7. Consistent(more)
    BY <1>1, <1>4, <2>4, Handled DEF Consistent
  <2>8. more.alone => Progress(more, file[File(k)])
    <3> SUFFICES ASSUME more.alone PROVE Progress(more, file[File(k)])
      OBVIOUS
    <3>1. ASSUME NEW i \in 1..Len(old.content) + 1
          PROVE  more.content[i] = Owed(old)[i]
      <4>1. CASE i = Len(old.content) + 1
        BY <2>2, <2>4, <2>6, <4>1
      <4>2. CASE i # Len(old.content) + 1
        <5>1. i \in 1..Len(old.content)
          BY <1>5, <4>2
        <5>. QED
          BY <1>6, <2>2, <2>4, <5>1
      <4>. QED
        BY <4>1, <4>2
    <3>. QED
      BY <1>1, <1>6, <2>2, <2>4, <2>6, <3>1 DEF Progress
  <2>. QED
    BY <1>1, <1>2, <1>4, <2>4, <2>5, <2>7, <2>8, Handled, HandlerStep DEF Handling
<1>8. CASE done
  <2>1. /\ OkReply(old.content, old.path) \in Replies
        /\ OkReply(old.content, old.path).content = old.content
    BY <1>5, RepliesTyped DEF OkReply
  <2>2. /\ all \in Connection /\ all.phase = IF IsJson(old.path) THEN "erase" ELSE "sending"
        /\ all.path = old.path /\ all.alone = old.alone /\ all.reply.content = old.content
        /\ all.read = old.read /\ all.sent = old.sent /\ Owed(all) = Owed(old)
    <3> DEFINE reply == OkReply(old.content, old.path)
               phase == IF IsJson(old.path) THEN "erase" ELSE "sending"
    <3>1. reply \in Replies /\ phase \in Phases /\ reply.content = old.content
      BY <1>3, <2>1
    <3> HIDE DEF reply, phase
    <3>2. all = [old EXCEPT !.reply = reply, !.phase = phase]
      BY DEF reply, phase
    <3> HIDE DEF all
    <3>3. /\ all \in Connection /\ all.phase = phase
          /\ all.path = old.path /\ all.alone = old.alone /\ all.reply = reply
          /\ all.read = old.read /\ all.sent = old.sent /\ all.answer = old.answer
      BY <3>1, <3>2, Handled DEF Connection
    <3>. QED
      BY <3>1, <3>3 DEF phase, Owed
  <2>3. conn' = [conn EXCEPT ![k] = all]
    BY <1>1, <1>8
  <2>4. old.alone => old.content = Owed(old)
    <3> SUFFICES ASSUME old.alone PROVE old.content = Owed(old)
      OBVIOUS
    <3>1. Len(old.content) = Len(Owed(old))
      BY <1>5, <1>6, <1>8
    <3>2. \A i \in 1..Len(old.content) : old.content[i] = Owed(old)[i]
      BY <1>6
    <3>. QED
      BY <1>5, <3>1, <3>2, SeqEqual DEF Parts
  <2> HIDE DEF all, done
  <2>5. Consistent(all)
    BY <1>4, <2>2, Handled DEF Consistent
  <2>6. all.reply.status = "200" /\ all.alone => all.reply.content = Owed(all)
    BY <2>2, <2>4
  <2>7. all.phase \in Handling => Progress(all, file[File(k)])
    BY <2>2 DEF Progress, Handling
  <2>8. all.phase \notin Handling => ~IsJson(File(k))
    BY <2>2, Handled, JsonFile DEF Handling
  <2>9. all.phase # "none"
    BY <2>2
  <2>. QED
    BY <1>1, <1>2, <1>4, <2>2, <2>3, <2>5, <2>6, <2>7, <2>8, <2>9, Handled, HandlerStep
<1>. QED
  BY <1>7, <1>8

\* Erasing empties the file, and the connection begins to send.
LEMMA EraseKeeps ==
    ASSUME IInv, NEW k \in Connections, Erase(k)
    PROVE  IInv'
<1> DEFINE c == [conn[k] EXCEPT !.phase = "sending"]
           contents == [file EXCEPT ![File(k)] = <<>>]
<1>1. /\ conn[k].phase = "erase" /\ conn' = [conn EXCEPT ![k] = c] /\ file' = contents
      /\ UNCHANGED <<process, nextService, made, waiting, faults, exited, stopped>>
  BY DEF Erase, Handles, Emptied
<1>2. process' \in {"running", "undefined", "terminated"}
  BY <1>1 DEF IInv, TypeInv
<1>3. "sending" \in Phases
  BY DEF Phases
<1>4. /\ c \in Connection /\ c.phase = "sending" /\ c.path = conn[k].path
      /\ c.alone = conn[k].alone /\ c.read = conn[k].read /\ c.sent = conn[k].sent
      /\ c.content = conn[k].content /\ c.reply = conn[k].reply /\ Owed(c) = Owed(conn[k])
  BY <1>3, Handled, PhaseChange
<1>5. File(k) \in Documents /\ IsJson(File(k))
  BY <1>1, Handled, JsonFile DEF Consistent
<1>6. /\ contents \in [Documents -> Parts] /\ contents[File(k)] = <<>>
      /\ \A d \in Documents : d # File(k) => contents[d] = file[d]
  BY <1>5, Handled
<1> HIDE DEF c, contents
<1>7. Consistent(c)
  BY <1>1, <1>4, Handled DEF Consistent
<1>8. \A d \in Documents : ~IsJson(d) => contents[d] = <<0>>
  BY <1>5, <1>6, Handled
<1>9. conn[k].phase \in Handling /\ conn[k].phase # "sending" /\ c.phase \notin Handling
      /\ c.phase # "none"
  BY <1>1, <1>4 DEF Handling
<1>10. c.reply.status = "200" /\ c.alone => c.reply.content = Owed(c)
  BY <1>4, Handled
<1>. QED
  BY <1>1, <1>2, <1>4, <1>6, <1>7, <1>8, <1>9, <1>10, HandlerStep

\* What is sent stays as it was; the connection is done.
LEMMA HandleWriteKeeps ==
    ASSUME IInv, NEW k \in Connections, HandleWrite(k)
    PROVE  IInv'
<1> DEFINE c == [conn[k] EXCEPT !.phase = "closed"]
<1>1. /\ conn[k].phase = "sending" /\ conn' = [conn EXCEPT ![k] = c] /\ file' = file
      /\ UNCHANGED <<process, nextService, made, waiting, faults, exited, stopped>>
  BY DEF HandleWrite, Handles
<1>2. process' \in {"running", "undefined", "terminated"}
  BY <1>1 DEF IInv, TypeInv
<1>3. "closed" \in Phases
  BY DEF Phases
<1>4. /\ c \in Connection /\ c.phase = "closed" /\ c.path = conn[k].path
      /\ c.alone = conn[k].alone /\ c.read = conn[k].read /\ c.sent = conn[k].sent
      /\ c.content = conn[k].content /\ c.reply = conn[k].reply /\ Owed(c) = Owed(conn[k])
  BY <1>3, Handled, PhaseChange
<1> HIDE DEF c
<1>5. Consistent(c)
  BY <1>4, Handled DEF Consistent
<1>6. conn[k].phase \notin Handling /\ c.phase \notin Handling /\ c.phase # "none"
  BY <1>1, <1>4 DEF Handling
<1>7. c.reply.status = "200" /\ c.alone => c.reply.content = Owed(c)
  BY <1>4, Handled
<1>. QED
  BY <1>1, <1>2, <1>4, <1>5, <1>6, <1>7, Handled, HandlerStep

\* The endpoint's work yields its answer, or ends the process.
LEMMA ComputeKeeps ==
    ASSUME IInv, NEW k \in Connections, NEW outcome \in {"ok", "throws", "undefined"},
           NEW length \in Nat, Compute(k, outcome, length)
    PROVE  IInv'
<1> DEFINE answer == [i \in 1..length |-> k]
           phase == IF RouteOf(k) \in Writers THEN "write" ELSE "openReply"
           answered == [conn[k] EXCEPT !.phase = phase, !.answer = answer]
           c == IF outcome # "ok" THEN conn[k] ELSE answered
<1>1. /\ conn[k].phase = "compute" /\ conn' = [conn EXCEPT ![k] = c] /\ file' = file
      /\ UNCHANGED <<nextService, made, waiting, faults, exited, stopped>>
  BY DEF Compute, Handles
<1>2. process' \in {"running", "undefined", "terminated"}
  BY DEF Compute, IInv, TypeInv
<1>3. conn[k].phase \in Handling /\ conn[k].reply.status # "200"
  BY <1>1, Handled DEF Consistent, NoReply, StockReply, Handling
<1>4. CASE outcome # "ok"
  <2>1. c = conn[k]
    BY <1>4
  <2> HIDE DEF c
  <2>. QED
    BY <1>1, <1>2, <1>3, <2>1, Handled, HandlerStep DEF Handling
<1>5. CASE outcome = "ok"
  <2>1. answer \in Parts
    <3>1. answer \in [1..length -> Authors]
      BY DEF Authors
    <3> HIDE DEF answer
    <3>. QED
      BY <3>1 DEF Parts
  <2>2. phase \in Phases /\ phase \in Handling /\ phase \in {"write", "openReply"}
    BY DEF Phases, Handling
  <2>3. phase = "write" <=> Route(conn[k].path) \in Writers
    BY Handled
  <2> HIDE DEF answer, phase
  <2>4. /\ answered \in Connection /\ answered.phase = phase /\ answered.answer = answer
        /\ answered.path = conn[k].path /\ answered.alone = conn[k].alone
        /\ answered.read = conn[k].read /\ answered.sent = conn[k].sent
        /\ answered.content = conn[k].content /\ answered.reply = conn[k].reply
    BY <2>1, <2>2, Handled DEF Connection
  <2>5. c = answered
    BY <1>5
  <2> HIDE DEF answered, c
  <2>6. Consistent(answered)
    BY <1>1, <2>2, <2>3, <2>4, Handled DEF Consistent
  <2>7. answered.alone /\ File(k) \in Documents => Progress(answered, file[File(k)])
    <3> SUFFICES ASSUME answered.alone, File(k) \in Documents
                 PROVE  Progress(answered, file[File(k)])
      OBVIOUS
    <3>1. Progress(conn[k], file[File(k)])
      BY <1>3, <2>4, Handled
    <3>2. CASE Route(conn[k].path) \in Writers
      BY <1>1, <2>3, <2>4, <3>1, <3>2 DEF Progress
    <3>3. CASE Route(conn[k].path) \notin Writers
      <4>1. file[File(k)] = Owed(conn[k])
        BY <1>1, <3>1, <3>3 DEF Progress
      <4>2. Owed(answered) = Owed(conn[k])
        BY <2>4, <3>3 DEF Owed
      <4>. QED
        BY <2>2, <2>3, <2>4, <3>3, <4>1, <4>2 DEF Progress
    <3>. QED
      BY <3>2, <3>3
  <2>8. answered.phase \in Handling /\ answered.phase # "none"
        /\ answered.reply.status # "200" /\ conn[k].phase # "sending"
    BY <1>1, <1>3, <2>2, <2>4 DEF Handling
  <2>. QED
    BY <1>1, <1>2, <1>3, <2>4, <2>5, <2>6, <2>7, <2>8, Handled, HandlerStep
<1>. QED
  BY <1>4, <1>5

-----------------------------------------------------------------------------
(* Every step of the server keeps the invariant.                             *)
LEMMA NextKeeps == IInv /\ [HttpNext]_httpVars => IInv'
<1> SUFFICES ASSUME IInv, [HttpNext]_httpVars PROVE IInv'
  OBVIOUS
<1>1. CASE HandleAccept \/ AcceptFails
  BY <1>1, HandleAcceptKeeps, AcceptFailsKeeps
<1>2. CASE \/ HandleStop \/ \E s \in Services : ServiceExits(s)
           \/ \E outcome \in {process, "undefined"} : OtherFails(outcome)
           \/ UNCHANGED httpVars
  BY <1>2, OtherSteps
<1>3. ASSUME NEW k \in Connections, ReadFails(k) PROVE IInv'
  BY <1>3, ReadFailsKeeps
<1>4. ASSUME NEW k \in Connections, HttpStep(k) PROVE IInv'
  BY <1>4, OpenKeeps, WriteKeeps, OpenReplyKeeps, ReadFileKeeps, EraseKeeps,
     HandleWriteKeeps, HandleReadKeeps DEF HttpStep
<1>5. ASSUME NEW k \in Connections, Computes(k) PROVE IInv'
  <2>1. PICK outcome \in {"ok", "throws", "undefined"}, length \in 0..2 :
           Compute(k, outcome, length)
    BY <1>5 DEF Computes
  <2>. QED
    BY <2>1, ComputeKeeps
<1>. QED
  BY <1>1, <1>2, <1>3, <1>4, <1>5 DEF HttpNext, Threads

-----------------------------------------------------------------------------
(* Every state of the server satisfies the invariant the others follow from:  *)
(* its steps in HttpServer, for any number of services and connections, any   *)
(* documents the endpoints' files are among and any texts the clients send.   *)
THEOREM HttpInvariantHolds == HttpSpec => []IInv
<1>1. (\E s \in Scenarios : HttpInit(s)) => IInv
  BY InitIInv
<1>. QED
  BY <1>1, NextKeeps, PTL DEF HttpSpec

(* The server keeps its types: no connection is bound to a service there is   *)
(* not (get_io_service, IOServicePool.cpp:60-68), and none is read further    *)
(* than was sent.                                                             *)
THEOREM HttpTypeCorrect == HttpSpec => []HttpTypeOK
<1>1. IInv => HttpTypeOK
  <2> SUFFICES ASSUME IInv PROVE HttpTypeOK
    OBVIOUS
  <2>1. ASSUME NEW k \in Connections
        PROVE  /\ conn[k].phase \in Phases
               /\ conn[k].service \in Services
               /\ conn[k].read \in 0..Len(conn[k].sent)
    BY DEF IInv, TypeInv, Connection, Consistent
  <2>. QED
    BY <2>1 DEF IInv, TypeInv, HttpTypeOK
<1>. QED
  BY <1>1, HttpInvariantHolds, PTL

(* However the bytes of the requests come in and whatever they are, no        *)
(* connection's parser ever touches a header there is not                     *)
(* (RequestParser.cpp:186-266).                                               *)
THEOREM ParsersDefined ==
    HttpSpec => [](\A k \in Connections : conn[k].parser.verdict # "undefined")
<1>1. IInv => \A k \in Connections : conn[k].parser.verdict # "undefined"
  BY DEF IInv, TypeInv, Connection, Parsers
<1>. QED
  BY <1>1, HttpInvariantHolds, PTL

(* A request whose file no other request was handled for meanwhile is         *)
(* answered with all of its own answer and nothing else                       *)
(* (RequestHandler.cpp:51-63, 219-242).                                       *)
THEOREM AnswersOwn == HttpSpec => []OwnAnswer
<1>1. IInv => OwnAnswer
  BY DEF IInv
<1>. QED
  BY <1>1, HttpInvariantHolds, PTL

(* Nothing of an answer stays in a file behind the last of the requests that  *)
(* were handled for it (RequestHandler.cpp:238-242).                          *)
THEOREM NothingLeft == HttpSpec => []NoLeftovers
<1>1. IInv => NoLeftovers
  BY DEF IInv
<1>. QED
  BY <1>1, HttpInvariantHolds, PTL

(* No request changes a document that is no file of JSON, for every path is   *)
(* the endpoint's own or one that is only emptied with the extension json     *)
(* (RequestHandler.cpp:51-63, 238-242).                                       *)
THEOREM DocumentsKept ==
    HttpSpec => [][\A d \in Documents : ~IsJson(d) => file'[d] = file[d]]_httpVars
<1>1. IInv /\ IInv' => \A d \in Documents : ~IsJson(d) => file'[d] = file[d]
  BY DEF IInv, PlainKept
<1>. QED
  BY <1>1, HttpInvariantHolds, PTL DEF HttpSpec

-----------------------------------------------------------------------------
(* The parsers of the connections *)

\* What the parser of a connection knows is what it has read of what was sent.
ReadUpTo(c) == FlattenSeq(SubSeq(c.sent, 1, c.read))
Parsed == \A k \in Connections : Knows(conn[k].parser, ReadUpTo(conn[k]))

\* Two states of a connection between which nothing is read.
SameRead(c, d) == d.parser = c.parser /\ d.sent = c.sent /\ d.read = c.read

\* A connection that is made has read nothing, and one that is accepted neither.
LEMMA NothingRead ==
    /\ Knows(NoConnection.parser, ReadUpTo(NoConnection))
    /\ \A c \in Connection : c.read = 0 => ReadUpTo(c) = << >>
<1>1. \A s \in Texts : FlattenSeq(SubSeq(s, 1, 0)) = << >>
  <2> SUFFICES ASSUME NEW s \in Texts PROVE FlattenSeq(SubSeq(s, 1, 0)) = << >>
    OBVIOUS
  <2>1. s \in Seq(Seq(Bytes)) /\ 0 \in 0..Len(s)
    BY DEF Texts, Reads
  <2>. QED
    BY <2>1, Pieces
<1>2. << >> \in Texts
  BY DEF Texts
<1>3. NoConnection.parser = Fresh /\ NoConnection.sent = << >> /\ NoConnection.read = 0
  BY DEF NoConnection
<1>4. \A c \in Connection : c.sent \in Texts
  BY DEF Connection
<1>. QED
  BY <1>1, <1>2, <1>3, <1>4, FreshKnows DEF ReadUpTo

\* At first.
LEMMA InitParsed ==
    ASSUME NEW scenario \in Scenarios, HttpInit(scenario)
    PROVE  Parsed
<1>1. \A k \in Connections : SameRead(NoConnection, conn[k])
  <2>1. ASSUME NEW s
        PROVE  SameRead(NoConnection, [NoConnection EXCEPT !.phase = "accepting", !.service = s])
    BY DEF NoConnection, SameRead
  <2>2. SameRead(NoConnection, NoConnection)
    BY DEF SameRead
  <2>. QED
    BY <2>1, <2>2 DEF HttpInit
<1>. QED
  BY <1>1, NothingRead DEF Parsed, SameRead, ReadUpTo

\* A step of one connection, after which its parser knows what it has read.
LEMMA OneReads ==
    ASSUME Parsed, NEW k \in Connections,
           \A j \in Connections \ {k} : SameRead(conn[j], conn'[j]),
           Knows(conn'[k].parser, ReadUpTo(conn'[k]))
    PROVE  Parsed'
<1>1. ASSUME NEW j \in Connections PROVE Knows(conn'[j].parser, ReadUpTo(conn'[j]))
  <2>1. CASE j = k
    BY <2>1
  <2>2. CASE j # k
    BY <2>2 DEF Parsed, SameRead, ReadUpTo
  <2>. QED
    BY <2>1, <2>2
<1>. QED
  BY <1>1 DEF Parsed

\* Steps in which no connection reads.
LEMMA NoneReads ==
    ASSUME Parsed, \A j \in Connections : SameRead(conn[j], conn'[j])
    PROVE  Parsed'
BY DEF Parsed, SameRead, ReadUpTo

\* The steps of a handler that was begun read nothing.
LEMMA HandlersReadNothing ==
    ASSUME IInv, NEW k \in Connections,
           \/ Open(k) \/ Write(k) \/ OpenReply(k) \/ ReadFile(k) \/ Erase(k)
           \/ HandleWrite(k) \/ ReadFails(k) \/ Computes(k)
    PROVE  \A j \in Connections : SameRead(conn[j], conn'[j])
<1>1. conn[k] \in Connection /\ conn \in [Connections -> Connection]
  BY DEF IInv, TypeInv
<1> SUFFICES ASSUME NEW c, conn' = [conn EXCEPT ![k] = c], SameRead(conn[k], c)
             PROVE  \A j \in Connections : SameRead(conn[j], conn'[j])
  <2>1. ASSUME NEW phase
        PROVE  SameRead(conn[k], [conn[k] EXCEPT !.phase = phase])
    BY <1>1 DEF Connection, SameRead
  <2>2. CASE Open(k)
    BY <2>1, <2>2 DEF Open, Handles
  <2>3. CASE Write(k)
    BY <2>1, <2>3 DEF Write, Handles
  <2>4. CASE OpenReply(k)
    <3>1. ASSUME NEW phase, NEW reply
          PROVE  SameRead(conn[k], [conn[k] EXCEPT !.phase = phase, !.reply = reply])
      BY <1>1 DEF Connection, SameRead
    <3>. QED
      BY <2>1, <2>4, <3>1 DEF OpenReply, Handles
  <2>5. CASE ReadFile(k)
    <3>1. ASSUME NEW phase, NEW reply
          PROVE  SameRead(conn[k], [conn[k] EXCEPT !.reply = reply, !.phase = phase])
      BY <1>1 DEF Connection, SameRead
    <3>2. SameRead(conn[k], [conn[k] EXCEPT !.content = Append(@, file[File(k)][Len(@) + 1])])
      BY <1>1 DEF Connection, SameRead
    <3>. QED
      BY <2>5, <3>1, <3>2 DEF ReadFile, Handles
  <2>6. CASE Erase(k)
    BY <2>1, <2>6 DEF Erase, Handles
  <2>7. CASE HandleWrite(k)
    BY <2>1, <2>7 DEF HandleWrite, Handles
  <2>8. CASE ReadFails(k)
    <3>1. conn' = [conn EXCEPT ![k] = [conn[k] EXCEPT !.phase = "failed"]]
      BY <1>1, <2>8 DEF ReadFails
    <3>. QED
      BY <2>1, <3>1
  <2>9. CASE Computes(k)
    <3>1. PICK outcome \in {"ok", "throws", "undefined"}, length \in 0..2 :
             Compute(k, outcome, length)
      BY <2>9 DEF Computes
    <3>2. ASSUME NEW phase, NEW answer
          PROVE  SameRead(conn[k], [conn[k] EXCEPT !.phase = phase, !.answer = answer])
      BY <1>1 DEF Connection, SameRead
    <3>3. SameRead(conn[k], conn[k])
      BY DEF SameRead
    <3>. QED
      BY <3>1, <3>2, <3>3 DEF Compute, Handles
  <2>. QED
    BY <2>2, <2>3, <2>4, <2>5, <2>6, <2>7, <2>8, <2>9
<1>2. \A j \in Connections : conn'[j] = IF j = k THEN c ELSE conn[j]
  BY <1>1
<1>3. \A j \in Connections : SameRead(conn[j], conn[j])
  BY DEF SameRead
<1>. QED
  BY <1>2, <1>3

\* Nor do those that begin to accept.
LEMMA AcceptsParsed ==
    ASSUME IInv, Parsed, NEW first, Accepting(first), conn[made].phase = "accepting",
           made \in Connections, first.parser = conn[made].parser,
           first.read = 0, first \in Connection
    PROVE  Parsed'
<1>1. /\ made + 1 \in Connections /\ made # made + 1
      /\ conn \in [Connections -> Connection]
  BY ConnectionsAssumption DEF Accepting, Connections, IInv, TypeInv
<1> DEFINE next == [conn[made + 1] EXCEPT !.phase = "accepting", !.service = nextService]
<1>2. conn[made + 1] \in Connection
  BY <1>1
<1>3. SameRead(conn[made + 1], next)
  BY <1>2 DEF Connection, SameRead
<1>4. conn' = [conn EXCEPT ![made] = first, ![made + 1] = next]
  BY <1>1 DEF Accepting
<1> HIDE DEF next
<1>5. conn'[made] = first /\ \A j \in Connections \ {made} : SameRead(conn[j], conn'[j])
  <2>1. \A j \in Connections : conn'[j] = IF j = made + 1 THEN next ELSE IF j = made THEN first ELSE conn[j]
    BY <1>1, <1>4
  <2>2. \A j \in Connections : SameRead(conn[j], conn[j])
    BY DEF SameRead
  <2>. QED
    BY <1>1, <1>3, <2>1, <2>2
<1>6. conn[made].read = 0 /\ conn[made] \in Connection
  BY <1>1 DEF IInv, Consistent
<1>7. Knows(first.parser, ReadUpTo(first))
  <2>1. ReadUpTo(first) = << >> /\ ReadUpTo(conn[made]) = << >>
    BY <1>6, NothingRead
  <2>2. Knows(conn[made].parser, ReadUpTo(conn[made]))
    BY DEF Parsed
  <2>. QED
    BY <2>1, <2>2
<1>. QED
  BY <1>5, <1>7, OneReads

\* handle_read gives the parser the next piece of what was sent.
LEMMA HandleReadParsed ==
    ASSUME IInv, Parsed, NEW k \in Connections, HandleRead(k)
    PROVE  Parsed'
<1> DEFINE parser == Parse(conn[k].parser, conn[k].sent[conn[k].read + 1])
           path == RequestPath(parser.request.uri)
           c == Took(conn[k], parser)
<1>1. /\ conn[k].read < Len(conn[k].sent) /\ conn[k] \in Connection
      /\ conn \in [Connections -> Connection]
  BY DEF HandleRead, IInv, TypeInv
<1>2. /\ conn[k].sent \in Seq(Seq(Bytes)) /\ conn[k].read \in Nat /\ conn[k].parser \in Parsers
      /\ Len(conn[k].sent) \in Nat /\ conn[k].read \in 0..Len(conn[k].sent)
      /\ conn[k].sent[conn[k].read + 1] \in Seq(Bytes)
  <2>1. conn[k].sent \in Seq(Seq(Bytes)) /\ conn[k].read \in Nat /\ conn[k].parser \in Parsers
    BY <1>1 DEF Connection, Texts, Reads
  <2>. QED
    BY <1>1, <2>1
<1>3. conn' = CASE parser.verdict = "more" -> [conn EXCEPT ![k] = ReadMore(c)]
                [] parser.verdict = "ok" /\ path # <<>> -> Begun(k, c, path)
                [] OTHER -> [conn EXCEPT ![k] = Refused(c)]
  BY DEF HandleRead
<1>4. Knows(parser, FlattenSeq(SubSeq(conn[k].sent, 1, conn[k].read + 1)))
  <2> DEFINE t == ReadUpTo(conn[k])
             piece == conn[k].sent[conn[k].read + 1]
  <2>1. t \in Seq(Bytes) /\ FlattenSeq(SubSeq(conn[k].sent, 1, conn[k].read + 1)) = t \o piece
    BY <1>1, <1>2, Pieces DEF ReadUpTo
  <2>2. Knows(conn[k].parser, t)
    BY DEF Parsed
  <2>3. piece \in Seq(Bytes)
    BY <1>2
  <2> HIDE DEF t, piece
  <2>4. Knows(Parse(conn[k].parser, piece), t \o piece)
    BY <1>2, <2>1, <2>2, <2>3, ParseKnows
  <2>. QED
    BY <2>1, <2>4 DEF piece
<1> HIDE DEF parser, path
<1>5. c.parser = parser /\ c.sent = conn[k].sent /\ c.read = conn[k].read + 1
  BY <1>1 DEF Took, Connection
<1>6. Knows(c.parser, ReadUpTo(c))
  BY <1>4, <1>5 DEF ReadUpTo
<1>7. \A j \in Connections : SameRead(conn[j], conn[j])
  BY DEF SameRead
<1>8. c \in Connection
  <2>1. parser \in Parsers
    BY <1>2, ParseTyped DEF parser
  <2>2. \A n \in Nat : [conn[k] EXCEPT !.read = n, !.parser = parser] \in Connection
    BY <1>1, <2>1 DEF Connection
  <2>3. conn[k].read + 1 \in Nat
    BY <1>2
  <2>. QED
    BY <2>2, <2>3 DEF Took
<1> HIDE DEF c
<1>9. ASSUME NEW d, SameRead(c, d), conn'[k] = d,
             \A j \in Connections \ {k} : SameRead(conn[j], conn'[j])
      PROVE  Parsed'
  <2>1. Knows(d.parser, ReadUpTo(d))
    BY <1>6, <1>9 DEF SameRead, ReadUpTo
  <2>. QED
    BY <1>9, <2>1, OneReads
<1>10. CASE conn' = [conn EXCEPT ![k] = ReadMore(c)]
  <2>1. conn'[k] = c /\ \A j \in Connections \ {k} : conn'[j] = conn[j]
    BY <1>1, <1>10 DEF ReadMore
  <2>2. SameRead(c, c)
    BY DEF SameRead
  <2>. QED
    BY <1>7, <1>9, <2>1, <2>2
<1>11. CASE conn' = [conn EXCEPT ![k] = Refused(c)]
  <2>1. conn'[k] = Refused(c) /\ \A j \in Connections \ {k} : conn'[j] = conn[j]
    BY <1>1, <1>11
  <2>2. SameRead(c, Refused(c))
    BY <1>8 DEF SameRead, Refused, Connection
  <2>. QED
    BY <1>7, <1>9, <2>1, <2>2
<1>12. CASE conn' = Begun(k, c, path)
  <2> DEFINE together == Together(k, path)
             b == [c EXCEPT !.path = path, !.phase = FirstPhase(Route(path)),
                            !.alone = together = {}]
  <2> HIDE DEF together
  <2>1. conn' = [j \in Connections |->
                    CASE j = k -> b
                      [] j \in together -> [conn[j] EXCEPT !.alone = FALSE]
                      [] OTHER -> conn[j]]
    BY <1>12 DEF Begun, together
  <2>2. SameRead(c, b)
    <3>1. ASSUME NEW p, NEW phase, NEW alone
          PROVE  SameRead(c, [c EXCEPT !.path = p, !.phase = phase, !.alone = alone])
      BY <1>8 DEF SameRead, Connection
    <3>. QED
      BY <3>1
  <2> HIDE DEF b
  <2>3. k \notin together
    BY DEF Together, together
  <2>4. conn'[k] = b
    BY <2>1, <2>3
  <2>5. ASSUME NEW j \in Connections \ {k} PROVE SameRead(conn[j], conn'[j])
    <3>1. conn[j] \in Connection
      BY <1>1
    <3>2. SameRead(conn[j], [conn[j] EXCEPT !.alone = FALSE])
      BY <3>1 DEF Connection, SameRead
    <3>3. CASE j \in together
      <4>1. conn'[j] = [conn[j] EXCEPT !.alone = FALSE]
        BY <2>1, <3>3
      <4>. QED
        BY <3>2, <4>1
    <3>4. CASE j \notin together
      <4>1. conn'[j] = conn[j]
        BY <2>1, <3>4
      <4>. QED
        BY <1>7, <4>1
    <3>. QED
      BY <3>3, <3>4
  <2>. QED
    BY <1>9, <2>2, <2>4, <2>5
<1>. QED
  BY <1>3, <1>10, <1>11, <1>12

\* Every step keeps it.
LEMMA NextParsed == IInv /\ Parsed /\ [HttpNext]_httpVars => Parsed'
<1> SUFFICES ASSUME IInv, Parsed, [HttpNext]_httpVars PROVE Parsed'
  OBVIOUS
<1>1. conn \in [Connections -> Connection] /\ made \in Connections
  BY DEF IInv, TypeInv
<1>2. CASE HandleAccept
  <2> DEFINE first == [conn[made] EXCEPT !.phase = "reading", !.sent = Head(waiting)]
  <2>1. Accepting(first) /\ conn[made].phase = "accepting" /\ conn[made] \in Connection
    BY <1>1, <1>2 DEF HandleAccept, StartAccept
  <2>2. Head(waiting) \in Texts
    BY <1>2 DEF HandleAccept, IInv, TypeInv
  <2>3. conn[made].read = 0
    BY <1>1, <2>1 DEF IInv, Consistent
  <2>4. first \in Connection /\ first.parser = conn[made].parser /\ first.read = 0
    BY <2>1, <2>2, <2>3 DEF Connection, Phases
  <2> HIDE DEF first
  <2>. QED
    BY <1>1, <2>1, <2>4, AcceptsParsed
<1>3. CASE AcceptFails
  <2> DEFINE first == [conn[made] EXCEPT !.phase = "failed"]
  <2>1. Accepting(first) /\ conn[made].phase = "accepting" /\ conn[made] \in Connection
    BY <1>1, <1>3 DEF AcceptFails, StartAccept
  <2>2. conn[made].read = 0
    BY <1>1, <2>1 DEF IInv, Consistent
  <2>3. first \in Connection /\ first.parser = conn[made].parser /\ first.read = 0
    BY <2>1, <2>2 DEF Connection, Phases
  <2> HIDE DEF first
  <2>. QED
    BY <1>1, <2>1, <2>3, AcceptsParsed
<1>4. CASE \/ HandleStop \/ \E s \in Services : ServiceExits(s)
           \/ \E outcome \in {process, "undefined"} : OtherFails(outcome)
           \/ UNCHANGED httpVars
  <2>1. conn' = conn
    BY <1>4 DEF HandleStop, ServiceExits, OtherFails, httpVars
  <2>. QED
    BY <2>1, NoneReads DEF SameRead
<1>5. ASSUME NEW k \in Connections, ReadFails(k) \/ Computes(k) PROVE Parsed'
  BY <1>5, HandlersReadNothing, NoneReads
<1>6. ASSUME NEW k \in Connections, HttpStep(k) PROVE Parsed'
  <2>1. CASE HandleRead(k)
    BY <2>1, HandleReadParsed
  <2>2. CASE ~HandleRead(k)
    BY <1>6, <2>2, HandlersReadNothing, NoneReads DEF HttpStep
  <2>. QED
    BY <2>1, <2>2
<1>. QED
  BY <1>2, <1>3, <1>4, <1>5, <1>6 DEF HttpNext, Threads

(* However the bytes of a request are cut into reads, at whatever bound on the *)
(* connections: what a connection has read is accepted exactly if it is a     *)
(* request, with the method, uri, version and headers its lines say, and      *)
(* refused only if all that was sent is none (RequestParser.cpp:27-283,       *)
(* Connection.cpp:43-70).                                                     *)
THEOREM RequestsParsed == HttpSpec => []ParsedAsSent
<1>1. (\E s \in Scenarios : HttpInit(s)) => IInv /\ Parsed
  BY InitIInv, InitParsed
<1>2. IInv /\ Parsed /\ [HttpNext]_httpVars => (IInv /\ Parsed)'
  BY NextKeeps, NextParsed
<1>3. IInv /\ Parsed => ParsedAsSent
  <2> SUFFICES ASSUME IInv, Parsed, NEW k \in Connections
               PROVE  LET parser == conn[k].parser IN
                      /\ parser.verdict = "ok" <=> IsRequest(Received(k))
                      /\ parser.verdict = "ok" => parser.request = RequestOf(Received(k))
                      /\ parser.verdict = "bad" => ~IsRequest(FlattenSeq(conn[k].sent))
                      /\ parser.verdict # "undefined"
    BY DEF ParsedAsSent
  <2>1. /\ conn[k].sent \in Seq(Seq(Bytes)) /\ conn[k].parser \in Parsers
        /\ conn[k].read \in 0..Len(conn[k].sent)
    BY DEF IInv, TypeInv, Connection, Consistent, Texts, Reads
  <2>2. Received(k) \in Seq(Bytes) /\ GoesOn(FlattenSeq(conn[k].sent), Received(k))
    BY <2>1, Pieces DEF Received
  <2>3. Knows(conn[k].parser, Received(k))
    BY DEF Parsed, Received, ReadUpTo
  <2>. QED
    BY <2>1, <2>2, <2>3, KnowsRequest
<1>. QED
  BY <1>1, <1>2, <1>3, PTL DEF HttpSpec

-----------------------------------------------------------------------------
(* Replies *)

\* A connection whose reply is on its way keeps it.
Replied == {"sending", "closed"}
Settles(c, d) == c.phase \in Replied => d.phase \in Replied /\ d.reply = c.reply

\* A step that changes a connection before its reply.
LEMMA OneSettles ==
    ASSUME IInv, NEW k \in Connections, NEW c, conn' = [conn EXCEPT ![k] = c],
           conn[k].phase \notin Replied
    PROVE  \A j \in Connections : Settles(conn[j], conn'[j])
BY DEF IInv, TypeInv, Settles

\* Accepting changes connections that have nothing to reply to yet.
LEMMA AcceptsSettle ==
    ASSUME IInv, NEW first, Accepting(first), conn[made].phase = "accepting",
           made \in Connections, first.parser = conn[made].parser
    PROVE  \A j \in Connections : /\ Settles(conn[j], conn'[j])
                                  /\ conn'[j].parser = conn[j].parser
<1>1. /\ made + 1 \in Connections /\ made # made + 1
      /\ conn \in [Connections -> Connection]
  BY ConnectionsAssumption DEF Accepting, Connections, IInv, TypeInv
<1>2. conn[made + 1].phase = "none"
  BY <1>1 DEF IInv, TypeInv, Connections
<1> DEFINE next == [conn[made + 1] EXCEPT !.phase = "accepting", !.service = nextService]
<1>3. next.parser = conn[made + 1].parser
  <2>1. conn[made + 1] \in Connection
    BY <1>1
  <2>. QED
    BY <2>1 DEF Connection
<1>4. conn' = [conn EXCEPT ![made] = first, ![made + 1] = next]
  BY <1>1 DEF Accepting
<1> HIDE DEF next
<1>5. \A j \in Connections : conn'[j] = IF j = made + 1 THEN next ELSE IF j = made THEN first ELSE conn[j]
  BY <1>1, <1>4
<1>6. ASSUME NEW j \in Connections
      PROVE  Settles(conn[j], conn'[j]) /\ conn'[j].parser = conn[j].parser
  <2>1. CASE j = made + 1
    BY <1>2, <1>3, <1>5, <2>1 DEF Settles, Replied
  <2>2. CASE j = made /\ j # made + 1
    BY <1>5, <2>2 DEF Settles, Replied
  <2>3. CASE j # made /\ j # made + 1
    BY <1>5, <2>3 DEF Settles
  <2>. QED
    BY <2>1, <2>2, <2>3
<1>. QED
  BY <1>6

\* What handle_read makes of the connections.
LEMMA ReadSettles ==
    ASSUME IInv, NEW k \in Connections, HandleRead(k)
    PROVE  \A j \in Connections : Settles(conn[j], conn'[j])
<1> DEFINE parser == Parse(conn[k].parser, conn[k].sent[conn[k].read + 1])
           path == RequestPath(parser.request.uri)
           c == Took(conn[k], parser)
<1>1. conn[k].phase \notin Replied /\ conn \in [Connections -> Connection]
  BY DEF HandleRead, IInv, TypeInv, Replied
<1>2. conn' = CASE parser.verdict = "more" -> [conn EXCEPT ![k] = ReadMore(c)]
                [] parser.verdict = "ok" /\ path # <<>> -> Begun(k, c, path)
                [] OTHER -> [conn EXCEPT ![k] = Refused(c)]
  BY DEF HandleRead
<1> HIDE DEF parser, path, c
<1>3. CASE conn' = Begun(k, c, path)
  <2>1. ASSUME NEW j \in Connections \ {k}
        PROVE  conn'[j] = conn[j] \/ conn'[j] = [conn[j] EXCEPT !.alone = FALSE]
    BY <1>3 DEF Begun
  <2>2. ASSUME NEW d \in Connection
        PROVE  Settles(d, d) /\ Settles(d, [d EXCEPT !.alone = FALSE])
    BY DEF Connection, Settles
  <2>3. ASSUME NEW j \in Connections PROVE Settles(conn[j], conn'[j])
    <3>1. CASE j = k
      BY <1>1, <3>1 DEF Settles
    <3>2. CASE j # k
      BY <1>1, <2>1, <2>2, <3>2
    <3>. QED
      BY <3>1, <3>2
  <2>. QED
    BY <2>3
<1>4. CASE \E d : conn' = [conn EXCEPT ![k] = d]
  BY <1>1, <1>4, OneSettles
<1>. QED
  BY <1>2, <1>3, <1>4

\* No step takes a reply back, and only handle_read changes a parser.
LEMMA NextSettles ==
    ASSUME IInv, [HttpNext]_httpVars
    PROVE  /\ \A j \in Connections : Settles(conn[j], conn'[j])
           /\ \/ \E k \in Connections : HandleRead(k)
              \/ \A j \in Connections : conn'[j].parser = conn[j].parser
<1>1. conn \in [Connections -> Connection] /\ made \in Connections
  BY DEF IInv, TypeInv
<1>2. CASE HandleAccept
  <2> DEFINE first == [conn[made] EXCEPT !.phase = "reading", !.sent = Head(waiting)]
  <2>1. Accepting(first) /\ conn[made].phase = "accepting" /\ conn[made] \in Connection
    BY <1>1, <1>2 DEF HandleAccept, StartAccept
  <2>2. first.parser = conn[made].parser
    BY <2>1 DEF Connection
  <2> HIDE DEF first
  <2>. QED
    BY <1>1, <2>1, <2>2, AcceptsSettle
<1>3. CASE AcceptFails
  <2> DEFINE first == [conn[made] EXCEPT !.phase = "failed"]
  <2>1. Accepting(first) /\ conn[made].phase = "accepting" /\ conn[made] \in Connection
    BY <1>1, <1>3 DEF AcceptFails, StartAccept
  <2>2. first.parser = conn[made].parser
    BY <2>1 DEF Connection
  <2> HIDE DEF first
  <2>. QED
    BY <1>1, <2>1, <2>2, AcceptsSettle
<1>4. CASE \/ HandleStop \/ \E s \in Services : ServiceExits(s)
           \/ \E outcome \in {process, "undefined"} : OtherFails(outcome)
           \/ UNCHANGED httpVars
  <2>1. conn' = conn
    BY <1>4 DEF HandleStop, ServiceExits, OtherFails, httpVars
  <2>. QED
    BY <2>1 DEF Settles
<1>5. ASSUME NEW k \in Connections,
             \/ Open(k) \/ Write(k) \/ OpenReply(k) \/ ReadFile(k) \/ Erase(k)
             \/ HandleWrite(k) \/ ReadFails(k) \/ Computes(k)
      PROVE  /\ \A j \in Connections : Settles(conn[j], conn'[j])
             /\ \A j \in Connections : conn'[j].parser = conn[j].parser
  <2>1. \A j \in Connections : conn'[j].parser = conn[j].parser
    BY <1>5, HandlersReadNothing DEF SameRead
  <2>2. CASE ~HandleWrite(k)
    <3>1. \E c : conn' = [conn EXCEPT ![k] = c]
      BY <1>5, <2>2 DEF Open, Write, OpenReply, ReadFile, Erase, ReadFails, Computes, Compute, Handles
    <3>2. conn[k].phase \notin Replied
      BY <1>5, <2>2 DEF Open, Write, OpenReply, ReadFile, Erase, ReadFails, Computes, Compute,
                        Handles, Replied
    <3>. QED
      BY <2>1, <3>1, <3>2, OneSettles
  <2>3. CASE HandleWrite(k)
    <3>1. conn' = [conn EXCEPT ![k] = [conn[k] EXCEPT !.phase = "closed"]]
      BY <2>3 DEF HandleWrite, Handles
    <3>2. Settles(conn[k], [conn[k] EXCEPT !.phase = "closed"])
      <4>1. conn[k] \in Connection
        BY <1>1
      <4>. QED
        BY <4>1 DEF Connection, Settles, Replied
    <3>3. \A j \in Connections : conn'[j] = IF j = k THEN [conn[k] EXCEPT !.phase = "closed"] ELSE conn[j]
      BY <1>1, <3>1
    <3>4. \A j \in Connections : Settles(conn[j], conn[j])
      BY DEF Settles
    <3>. QED
      BY <2>1, <3>2, <3>3, <3>4
  <2>. QED
    BY <2>2, <2>3
<1>6. ASSUME NEW k \in Connections, HandleRead(k)
      PROVE  \A j \in Connections : Settles(conn[j], conn'[j])
  BY <1>6, ReadSettles
<1>. QED
  BY <1>2, <1>3, <1>4, <1>5, <1>6 DEF HttpNext, Threads, HttpStep

(* A reply that is being sent, or was, is never changed, whatever else the     *)
(* pool does: the asynchronous write goes on from the buffers of the reply     *)
(* after handle_read has returned (Connection.cpp:55-78).                      *)
THEOREM RepliesSettled ==
    HttpSpec => [][\A k \in Connections :
                      conn[k].phase \in {"sending", "closed"} =>
                          /\ conn'[k].phase \in {"sending", "closed"}
                          /\ conn'[k].reply = conn[k].reply]_httpVars
<1>1. IInv /\ [HttpNext]_httpVars =>
          \A k \in Connections :
             conn[k].phase \in {"sending", "closed"} =>
                 /\ conn'[k].phase \in {"sending", "closed"}
                 /\ conn'[k].reply = conn[k].reply
  BY NextSettles DEF Settles, Replied
<1>. QED
  BY <1>1, HttpInvariantHolds, PTL DEF HttpSpec

-----------------------------------------------------------------------------
(* Paths *)

\* A request without a path to go on with is answered 400.
PathlessRefused ==
    \A k \in Connections :
        conn[k].parser.verdict = "ok" /\ RequestPath(conn[k].parser.request.uri) = << >> =>
            conn[k].phase \in Replied /\ conn[k].reply.status = "400"

\* Nobody has read a request at first.
LEMMA InitPathless ==
    ASSUME NEW scenario \in Scenarios, HttpInit(scenario)
    PROVE  PathlessRefused
<1>1. \A k \in Connections : conn[k].parser.verdict # "ok"
  <2>1. NoConnection.parser.verdict = "more"
    BY DEF NoConnection, Fresh
  <2>2. \A k \in Connections : SameRead(NoConnection, conn[k])
    <3>1. ASSUME NEW s
          PROVE  SameRead(NoConnection, [NoConnection EXCEPT !.phase = "accepting", !.service = s])
      BY DEF NoConnection, SameRead
    <3>2. SameRead(NoConnection, NoConnection)
      BY DEF SameRead
    <3>. QED
      BY <3>1, <3>2 DEF HttpInit
  <2>. QED
    BY <2>1, <2>2 DEF SameRead
<1>. QED
  BY <1>1 DEF PathlessRefused

\* handle_read refuses such a request.
LEMMA ReadPathless ==
    ASSUME IInv, PathlessRefused, NEW k \in Connections, HandleRead(k)
    PROVE  PathlessRefused'
<1> DEFINE parser == Parse(conn[k].parser, conn[k].sent[conn[k].read + 1])
           path == RequestPath(parser.request.uri)
           c == Took(conn[k], parser)
           Fine(d) == d.parser.verdict = "ok" /\ RequestPath(d.parser.request.uri) = << >> =>
                         d.phase \in Replied /\ d.reply.status = "400"
<1>1. /\ conn[k] \in Connection /\ conn \in [Connections -> Connection]
      /\ \A j \in Connections : Settles(conn[j], conn'[j])
  BY ReadSettles DEF IInv, TypeInv
<1>2. conn' = CASE parser.verdict = "more" -> [conn EXCEPT ![k] = ReadMore(c)]
                [] parser.verdict = "ok" /\ path # <<>> -> Begun(k, c, path)
                [] OTHER -> [conn EXCEPT ![k] = Refused(c)]
  BY DEF HandleRead
<1>3. c.parser = parser
  BY <1>1 DEF Took, Connection
<1>4. path = RequestPath(parser.request.uri)
  OBVIOUS
<1>5. DOMAIN c = DOMAIN conn[k] /\ {"phase", "reply"} \subseteq DOMAIN conn[k]
  BY <1>1 DEF Took, Connection
<1>6. ASSUME NEW j \in Connections \ {k} PROVE conn'[j].parser = conn[j].parser
  <2>1. conn[j] \in Connection
    BY <1>1
  <2>2. [conn[j] EXCEPT !.alone = FALSE].parser = conn[j].parser
    BY <2>1 DEF Connection
  <2>3. conn'[j] = conn[j] \/ conn'[j] = [conn[j] EXCEPT !.alone = FALSE]
    <3> HIDE DEF parser, path, c
    <3>. QED
      BY <1>1, <1>2 DEF Begun
  <2>. QED
    BY <2>2, <2>3
<1> HIDE DEF parser, path, c, Fine
<1>7. Fine(conn'[k])
  <2>1. CASE parser.verdict = "more"
    <3>1. conn'[k] = c
      BY <1>1, <1>2, <2>1 DEF ReadMore
    <3>. QED
      BY <1>3, <2>1, <3>1 DEF Fine
  <2>2. CASE parser.verdict = "ok" /\ path # << >>
    <3> DEFINE together == Together(k, path)
               b == [c EXCEPT !.path = path, !.phase = FirstPhase(Route(path)),
                              !.alone = together = {}]
    <3> HIDE DEF together
    <3>1. conn'[k] = b
      <4>1. conn' = [j \in Connections |->
                        CASE j = k -> b
                          [] j \in together -> [conn[j] EXCEPT !.alone = FALSE]
                          [] OTHER -> conn[j]]
        BY <1>2, <2>2 DEF Begun, together
      <4>2. k \notin together
        BY DEF Together, together
      <4> HIDE DEF b
      <4>. QED
        BY <4>1, <4>2
    <3>2. ASSUME NEW p, NEW phase, NEW alone
          PROVE  [c EXCEPT !.path = p, !.phase = phase, !.alone = alone].parser = c.parser
      BY <1>5
    <3>3. conn'[k].parser = parser
      BY <1>3, <3>1, <3>2
    <3>. QED
      BY <1>4, <2>2, <3>3 DEF Fine
  <2>3. CASE parser.verdict # "more" /\ ~(parser.verdict = "ok" /\ path # << >>)
    <3>1. conn'[k] = Refused(c)
      BY <1>1, <1>2, <2>3
    <3>2. Refused(c).phase = "sending" /\ Refused(c).reply = StockReply("400")
      BY <1>5 DEF Refused
    <3>3. StockReply("400").status = "400"
      BY DEF StockReply
    <3>. QED
      BY <3>1, <3>2, <3>3 DEF Fine, Replied
  <2>. QED
    BY <2>1, <2>2, <2>3
<1>8. ASSUME NEW j \in Connections PROVE Fine(conn'[j])
  <2>1. CASE j = k
    BY <1>7, <2>1
  <2>2. CASE j # k
    BY <1>1, <1>6, <2>2 DEF Fine, PathlessRefused, Settles
  <2>. QED
    BY <2>1, <2>2
<1>. QED
  BY <1>8 DEF Fine, PathlessRefused

\* Every step keeps it.
LEMMA NextPathless == IInv /\ PathlessRefused /\ [HttpNext]_httpVars => PathlessRefused'
<1> SUFFICES ASSUME IInv, PathlessRefused, [HttpNext]_httpVars PROVE PathlessRefused'
  OBVIOUS
<1>1. CASE \E k \in Connections : HandleRead(k)
  BY <1>1, ReadPathless
<1>2. CASE \A j \in Connections : conn'[j].parser = conn[j].parser
  BY <1>2, NextSettles DEF PathlessRefused, Settles
<1>. QED
  BY <1>1, <1>2, NextSettles

(* A well encoded uri is taken for the path it encodes, whatever its escapes   *)
(* stand next to and wherever it ends, and one that ends inside an escape is   *)
(* answered 400, for every uri (url_decode, RequestHandler.cpp:261-298).       *)
THEOREM UrisDecoded == HttpSpec => []PathAsEncoded
<1>1. (\E s \in Scenarios : HttpInit(s)) => IInv /\ PathlessRefused
  BY InitIInv, InitPathless
<1>2. IInv /\ PathlessRefused /\ [HttpNext]_httpVars => (IInv /\ PathlessRefused)'
  BY NextKeeps, NextPathless
<1>3. IInv /\ PathlessRefused => PathAsEncoded
  <2> SUFFICES ASSUME IInv, PathlessRefused, NEW k \in Connections,
                      conn[k].parser.verdict = "ok"
               PROVE  LET uri == conn[k].parser.request.uri
                          Decoded(a, b) == Char(16 * HexValue(a) + HexValue(b))
                      IN  /\ WellEncoded(uri, Hex) =>
                                UrlDecode(uri) = [ok |-> TRUE, path |-> Encoded(uri, Decoded)]
                          /\ CutEscape(uri) => conn[k].reply.status = "400"
    BY DEF PathAsEncoded
  <2> DEFINE uri == conn[k].parser.request.uri
             Decoded(a, b) == Char(16 * HexValue(a) + HexValue(b))
  <2>1. uri \in Seq(Bytes)
    <3>1. conn[k].parser \in Parsers
      BY DEF IInv, TypeInv, Connection
    <3>. QED
      BY <3>1 DEF Parsers, Request
  <2>2. WellEncoded(uri, Hex) => UrlDecode(uri) = [ok |-> TRUE, path |-> Encoded(uri, Decoded)]
    <3>1. Encoded(uri, Decoded) = Encoded(uri, Escaped)
      BY Zenon DEF Encoded, Escaped
    <3>2. WellEncoded(uri, Hex) => UrlDecode(uri) = [ok |-> TRUE, path |-> Encoded(uri, Escaped)]
      BY <2>1, WellDecoded
    <3>. QED
      BY <3>1, <3>2
  <2>3. CutEscape(uri) => conn[k].reply.status = "400"
    <3>1. CutEscape(uri) => RequestPath(uri) = << >>
      BY <2>1, CutRefused
    <3>. QED
      BY <3>1 DEF PathlessRefused
  <2>. QED
    BY <2>2, <2>3
<1>. QED
  BY <1>1, <1>2, <1>3, PTL DEF HttpSpec

-----------------------------------------------------------------------------
(* The threads of the pool *)

\* A handler runs on the thread of its connection's service, and no other does
\* there until it has ended; of a service whose thread returned, none runs.
Scheduled ==
    /\ \A j, k \in Connections :
          j # k /\ conn[j].phase \in Handling /\ conn[k].phase \in Handling =>
              conn[j].service # conn[k].service
    /\ \A k \in Connections : conn[k].phase \in Handling => conn[k].service \notin exited

\* A step between two of a handler, or of none.
Holds(c, d) == d.phase \in Handling => c.phase \in Handling /\ d.service = c.service

\* A step that only ends handlers, or that goes on with them.
LEMMA HoldsThreads ==
    ASSUME Scheduled, \A j \in Connections : Holds(conn[j], conn'[j]),
           exited' = exited \/ \E s : FreeThread(s) /\ exited' = exited \cup {s}
    PROVE  Scheduled'
<1>1. \A k \in Connections : conn[k].phase \in Handling => conn[k].service \notin exited'
  BY DEF Scheduled, FreeThread
<1>. QED
  BY <1>1 DEF Scheduled, Holds

\* One handler begins, on a thread that is free.
LEMMA TakesThread ==
    ASSUME Scheduled, NEW k \in Connections, FreeThread(conn[k].service),
           conn'[k].service = conn[k].service, exited' = exited,
           \A j \in Connections \ {k} : Holds(conn[j], conn'[j])
    PROVE  Scheduled'
BY DEF Scheduled, Holds, FreeThread

\* What handle_read makes of the threads.
LEMMA ReadSchedules ==
    ASSUME IInv, Scheduled, NEW k \in Connections, HandleRead(k)
    PROVE  Scheduled'
<1> DEFINE parser == Parse(conn[k].parser, conn[k].sent[conn[k].read + 1])
           path == RequestPath(parser.request.uri)
           c == Took(conn[k], parser)
<1>1. conn \in [Connections -> Connection] /\ conn[k] \in Connection
  BY DEF IInv, TypeInv
<1>2. /\ FreeThread(conn[k].service) /\ exited' = exited
      /\ conn' = CASE parser.verdict = "more" -> [conn EXCEPT ![k] = ReadMore(c)]
                   [] parser.verdict = "ok" /\ path # <<>> -> Begun(k, c, path)
                   [] OTHER -> [conn EXCEPT ![k] = Refused(c)]
  BY DEF HandleRead, MayHandle
<1>3. c.service = conn[k].service /\ ReadMore(c).service = c.service
      /\ Refused(c).service = c.service
  BY <1>1 DEF Connection, Took, ReadMore, Refused
<1> HIDE DEF parser, path, c
<1>4. CASE conn' = Begun(k, c, path)
  <2>1. conn'[k].service = conn[k].service
    BY <1>1, <1>3, <1>4 DEF Begun, Connection, Took, c
  <2>2. ASSUME NEW j \in Connections \ {k} PROVE Holds(conn[j], conn'[j])
    <3>1. conn'[j] = conn[j] \/ conn'[j] = [conn[j] EXCEPT !.alone = FALSE]
      BY <1>4 DEF Begun
    <3>2. conn[j] \in Connection
      BY <1>1
    <3>. QED
      BY <3>1, <3>2 DEF Holds, Connection
  <2>. QED
    BY <1>2, <2>1, <2>2, TakesThread
<1>5. ASSUME NEW d, d.service = conn[k].service, conn' = [conn EXCEPT ![k] = d]
      PROVE  Scheduled'
  <2>1. \A j \in Connections \ {k} : Holds(conn[j], conn'[j])
    BY <1>1, <1>5 DEF Holds
  <2>2. conn'[k].service = conn[k].service
    BY <1>1, <1>5
  <2>. QED
    BY <1>2, <2>1, <2>2, TakesThread
<1>. QED
  BY <1>2, <1>3, <1>4, <1>5

\* At the start no connection has a handler.
LEMMA InitScheduled ==
    ASSUME NEW scenario \in Scenarios, HttpInit(scenario)
    PROVE  Scheduled
<1>1. \A k \in Connections : conn[k].phase \in {"none", "accepting"}
  BY DEF HttpInit, NoConnection
<1>. QED
  BY <1>1 DEF Scheduled, Handling

\* Accepting changes connections that have no handler.
LEMMA AcceptsScheduled ==
    ASSUME IInv, Scheduled, NEW first, Accepting(first), exited' = exited,
           first.phase \in {"reading", "failed"}
    PROVE  Scheduled'
<1>1. /\ made + 1 \in Connections /\ made # made + 1 /\ made \in Connections
      /\ conn \in [Connections -> Connection]
  BY ConnectionsAssumption DEF Accepting, Connections, IInv, TypeInv
<1>2. \A j \in Connections \ {made, made + 1} : conn'[j] = conn[j]
  BY <1>1 DEF Accepting
<1>3. conn'[made].phase \notin Handling /\ conn'[made + 1].phase \notin Handling
  BY <1>1 DEF Accepting, Connection, Handling
<1>. QED
  BY <1>2, <1>3, HoldsThreads DEF Holds

\* Every step of the server keeps its handlers apart.
LEMMA NextSchedules == IInv /\ Scheduled /\ [HttpNext]_httpVars => Scheduled'
<1> SUFFICES ASSUME IInv, Scheduled, [HttpNext]_httpVars PROVE Scheduled'
  OBVIOUS
<1>1. conn \in [Connections -> Connection] /\ made \in Connections
  BY DEF IInv, TypeInv
<1>2. CASE HandleAccept
  <2> DEFINE first == [conn[made] EXCEPT !.phase = "reading", !.sent = Head(waiting)]
  <2>1. Accepting(first) /\ conn[made] \in Connection /\ exited' = exited
    BY <1>1, <1>2 DEF HandleAccept, StartAccept
  <2>2. first.phase = "reading"
    BY <2>1 DEF Connection
  <2> HIDE DEF first
  <2>. QED
    BY <2>1, <2>2, AcceptsScheduled
<1>3. CASE AcceptFails
  <2> DEFINE first == [conn[made] EXCEPT !.phase = "failed"]
  <2>1. Accepting(first) /\ conn[made] \in Connection /\ exited' = exited
    BY <1>1, <1>3 DEF AcceptFails, StartAccept
  <2>2. first.phase = "failed"
    BY <2>1 DEF Connection
  <2> HIDE DEF first
  <2>. QED
    BY <2>1, <2>2, AcceptsScheduled
<1>4. CASE \/ HandleStop \/ \E s \in Services : ServiceExits(s)
           \/ \E outcome \in {process, "undefined"} : OtherFails(outcome)
           \/ UNCHANGED httpVars
  <2>1. conn' = conn /\ (exited' = exited \/ \E s : FreeThread(s) /\ exited' = exited \cup {s})
    BY <1>4 DEF HandleStop, ServiceExits, OtherFails, httpVars
  <2>. QED
    BY <2>1, HoldsThreads DEF Holds
<1>5. ASSUME NEW k \in Connections,
             \/ Open(k) \/ Write(k) \/ OpenReply(k) \/ ReadFile(k) \/ Erase(k)
             \/ HandleWrite(k) \/ ReadFails(k) \/ Computes(k)
      PROVE  Scheduled'
  <2>1. exited' = exited
    BY <1>5 DEF Open, Write, OpenReply, ReadFile, Erase, HandleWrite, ReadFails, Computes,
                Compute, Handles
  <2>2. conn[k] \in Connection
    BY <1>1
  <2>3. CASE HandleWrite(k) \/ ReadFails(k)
    <3>1. \E phase \in {"closed", "failed"} :
             conn' = [conn EXCEPT ![k] = [conn[k] EXCEPT !.phase = phase]]
      BY <1>1, <2>3 DEF HandleWrite, ReadFails, Handles
    <3>2. conn'[k].phase \in {"closed", "failed"}
      BY <1>1, <2>2, <3>1 DEF Connection
    <3>3. \A j \in Connections \ {k} : conn'[j] = conn[j]
      BY <1>1, <3>1
    <3>4. \A j \in Connections : Holds(conn[j], conn'[j])
      BY <3>2, <3>3 DEF Holds, Handling
    <3>. QED
      BY <2>1, <3>4, HoldsThreads
  <2>4. CASE ~(HandleWrite(k) \/ ReadFails(k))
    <3>1. conn[k].phase \in Handling
      BY <1>5, <2>4 DEF Open, Write, OpenReply, ReadFile, Erase, Computes, Compute, Handles,
                        Handling
    <3>2. ASSUME NEW phase
          PROVE  [conn[k] EXCEPT !.phase = phase].service = conn[k].service
      BY <2>2 DEF Connection
    <3>3. PICK c : conn' = [conn EXCEPT ![k] = c] /\ c.service = conn[k].service
      <4>1. CASE Open(k) \/ Write(k) \/ Erase(k)
        BY <3>2, <4>1 DEF Open, Write, Erase, Handles
      <4>2. CASE OpenReply(k)
        <5> DEFINE missing ==
                     [conn[k] EXCEPT !.phase = "sending", !.reply = StockReply("404")]
        <5>1. missing.service = conn[k].service
          BY <2>2 DEF Connection
        <5>2. \/ conn' = [conn EXCEPT ![k] = missing]
              \/ conn' = [conn EXCEPT ![k] = [conn[k] EXCEPT !.phase = "readFile"]]
          BY <4>2 DEF OpenReply, Handles
        <5> HIDE DEF missing
        <5>. QED
          BY <3>2, <5>1, <5>2
      <4>3. CASE ReadFile(k)
        <5>1. ASSUME NEW phase, NEW reply
              PROVE  [conn[k] EXCEPT !.reply = reply, !.phase = phase].service
                        = conn[k].service
          BY <2>2 DEF Connection
        <5>2. [conn[k] EXCEPT !.content = Append(@, file[File(k)][Len(@) + 1])].service
                 = conn[k].service
          BY <2>2 DEF Connection
        <5>. QED
          BY <4>3, <5>1, <5>2 DEF ReadFile, Handles
      <4>4. CASE Computes(k)
        <5>1. PICK outcome \in {"ok", "throws", "undefined"}, length \in 0..2 :
                 Compute(k, outcome, length)
          BY <4>4 DEF Computes
        <5>2. ASSUME NEW phase, NEW answer
              PROVE  [conn[k] EXCEPT !.phase = phase, !.answer = answer].service
                        = conn[k].service
          BY <2>2 DEF Connection
        <5>. QED
          BY <5>1, <5>2 DEF Compute, Handles
      <4>. QED
        BY <1>5, <2>4, <4>1, <4>2, <4>3, <4>4
    <3>4. \A j \in Connections : Holds(conn[j], conn'[j])
      BY <1>1, <3>1, <3>3 DEF Holds
    <3>. QED
      BY <2>1, <3>4, HoldsThreads
  <2>. QED
    BY <2>3, <2>4
<1>6. ASSUME NEW k \in Connections, HandleRead(k) PROVE Scheduled'
  BY <1>6, ReadSchedules
<1>. QED
  BY <1>2, <1>3, <1>4, <1>5, <1>6 DEF HttpNext, Threads, HttpStep

(* Handlers of one service never overlap, and none runs on after the thread    *)
(* of its service has returned: a service has one thread, which io_service::run*)
(* leaves only between handlers (IOServicePool.cpp:37-58).                     *)
THEOREM HandlersApart == HttpSpec => []Scheduled
<1>1. (\E s \in Scenarios : HttpInit(s)) => IInv /\ Scheduled
  BY InitIInv, InitScheduled
<1>2. IInv /\ Scheduled /\ [HttpNext]_httpVars => (IInv /\ Scheduled)'
  BY NextKeeps, NextSchedules
<1>. QED
  BY <1>1, <1>2, PTL DEF HttpSpec

-----------------------------------------------------------------------------
(* The process: what is shown of HttpServer holds of Server, whatever the     *)
(* documents it receives come to.                                             *)

\* A call of the viewport is a call the server allows, whatever the endpoint.
LEMMA CallsCompute ==
    ASSUME NEW k \in Connections, Calls(k)
    PROVE  Computes(k)
<1>1. Outcomes(k) \subseteq {"ok", "throws", "undefined"}
  BY Zenon DEF Outcomes
<1>2. ASSUME NEW outcome, NEW length \in 0..2, Compute(k, outcome, length)
      PROVE  Computes(k)
  BY <1>1, <1>2 DEF Compute, Computes
<1>3. \E outcome : \E length \in 0..2 : Compute(k, outcome, length)
  <2>1. CASE FailsToConvert(k)
    BY <2>1 DEF FailsToConvert
  <2>2. CASE Registers(k)
    BY <2>2 DEF Registers
  <2>3. ASSUME NEW id, Deregisters(k, id)
        PROVE  \E outcome : \E length \in 0..2 : Compute(k, outcome, length)
    BY <2>3 DEF Deregisters
  <2>4. ASSUME NEW id, NEW list, RegistersSensors(k, id, list)
        PROVE  \E outcome : \E length \in 0..2 : Compute(k, outcome, length)
    BY <2>4 DEF RegistersSensors
  <2>5. CASE ListsClients(k)
    BY <2>5 DEF ListsClients
  <2>6. CASE ShowsScene(k)
    BY <2>6 DEF ShowsScene
  <2>7. CASE GivesVerdict(k)
    BY <2>7 DEF GivesVerdict
  <2>. QED
    BY <2>1, <2>2, <2>3, <2>4, <2>5, <2>6, <2>7 DEF Calls, Answers
<1>. QED
  BY <1>2, <1>3

\* A step of the process is one of the HTTP server or leaves it alone.
LEMMA ServerSteps == [Next]_vars => [HttpNext]_httpVars
<1> SUFFICES ASSUME [Next]_vars PROVE [HttpNext]_httpVars
  OBVIOUS
<1>1. CASE UNCHANGED httpVars
  BY <1>1
<1>2. CASE \/ Construct \/ Return \/ Receives \/ UNCHANGED vars
  BY <1>2, <1>1 DEF Construct, Return, Receives, vars
<1>3. CASE ConstructFails \/ ReceivesNothing
  BY <1>3 DEF ConstructFails, ReceivesNothing, HttpNext
<1>4. CASE Accepts \/ Stops \/ Disturbs \/ \E s \in Services : Exits(s)
  BY <1>4 DEF Accepts, Stops, Disturbs, Exits, Http, HttpNext, Threads
<1>5. ASSUME NEW k \in Connections, Serves(k) \/ Calls(k)
      PROVE  HttpNext
  BY <1>5, CallsCompute DEF Serves, Http, HttpNext, Threads
<1>. QED
  BY <1>2, <1>3, <1>4, <1>5 DEF Next

(* Beside the HTTP server the process has a thread that receives datagrams and *)
(* a main that constructs and joins: what they do is nothing to the server, or *)
(* one of the failures it expects (MinorityViewport.cpp:5-109).                *)
THEOREM ServerServesHttp == Spec => HttpSpec
<1>1. Init => \E s \in Scenarios : HttpInit(s)
  BY DEF Init
<1>. QED
  BY <1>1, ServerSteps, PTL DEF Spec, HttpSpec

\* What the scenarios and the socket start with.
LEMMA InitServerTypes == Init => DOMAIN registry \subseteq Nat /\ udp \in UdpStates
BY RegistriesAssumption DEF Init, UdpInit, UdpStates

\* The registry keeps ids for its domain, whatever a list of sensors comes to.
LEMMA CallsRegistry ==
    ASSUME DOMAIN registry \subseteq Nat, NEW k \in Connections, Calls(k)
    PROVE  DOMAIN registry' \subseteq Nat
<1>1. CASE Registers(k)
  BY <1>1, ClientIdsAssumption DEF Registers
<1>2. ASSUME NEW id, Deregisters(k, id)
      PROVE  DOMAIN registry' \subseteq Nat
  BY <1>2 DEF Deregisters
<1>3. ASSUME NEW id, NEW list, RegistersSensors(k, id, list)
      PROVE  DOMAIN registry' \subseteq Nat
  BY <1>3 DEF RegistersSensors
<1>4. CASE UNCHANGED registry
  BY <1>4
<1>. QED
  BY <1>1, <1>2, <1>3, <1>4
     DEF Calls, Answers, FailsToConvert, ListsClients, ShowsScene, GivesVerdict

\* What Server adds to the types of its HTTP server.
ServerTypes ==
    /\ core \in {"constructing", "running", "returned"}
    /\ udp \in UdpStates
    /\ DOMAIN registry \subseteq Nat

\* Every step of the process keeps them.
LEMMA ServerKeepsTypes == ServerTypes /\ [Next]_vars => ServerTypes'
<1> SUFFICES ASSUME ServerTypes, [Next]_vars PROVE ServerTypes'
  OBVIOUS
<1> USE DEF ServerTypes
<1>1. CASE Construct \/ ConstructFails \/ Return
  BY <1>1 DEF Construct, ConstructFails, Return, udpVars
<1>2. CASE Accepts \/ Stops \/ Disturbs \/ \E s \in Services : Exits(s)
  BY <1>2 DEF Accepts, Stops, Disturbs, Exits, Http, udpVars
<1>3. CASE Receives \/ ReceivesNothing
  BY <1>3 DEF Receives, ReceivesNothing, Startup, StartupFails, Starts, Receive, StateAfter,
              UdpStates
<1>4. ASSUME NEW k \in Connections, Serves(k)
      PROVE  ServerTypes'
  BY <1>4 DEF Serves, Http, udpVars
<1>5. ASSUME NEW k \in Connections, Calls(k)
      PROVE  ServerTypes'
  BY <1>5, CallsRegistry DEF Calls, udpVars
<1>6. CASE UNCHANGED vars
  BY <1>6 DEF vars, udpVars
<1>. QED
  BY <1>1, <1>2, <1>3, <1>4, <1>5, <1>6 DEF Next

(* The process keeps its types: what the thread of the datagrams meets, it     *)
(* goes on, ends or is undefined, and the ids of the registry are numbers      *)
(* (UdpServer.cpp:15-49, MinorityViewportAlgo.cpp:18-93).                      *)
THEOREM ServerTypeCorrect == Spec => []TypeOK
<1>1. Init => ServerTypes
  BY InitServerTypes DEF Init, ServerTypes
<1>2. Spec => []ServerTypes
  BY <1>1, ServerKeepsTypes, PTL DEF Spec
<1>3. ServerTypes /\ HttpTypeOK => TypeOK
  BY DEF ServerTypes, TypeOK
<1>. QED
  BY <1>2, <1>3, ServerServesHttp, HttpTypeCorrect, PTL

\* What the joins of main wait for.
JoinsDone == core = "returned" => exited = Services /\ udp = "ended"

(* When main returns, the thread of the datagrams has ended and no handler     *)
(* runs that could use what the process gives up on its exit: the joins wait   *)
(* for the threads and those for their handlers (MinorityViewport.cpp:97-109,  *)
(* IOServicePool.cpp:37-52).                                                   *)
THEOREM ReturnsIdle ==
    Spec => [](core = "returned" =>
                 /\ udp = "ended"
                 /\ \A k \in Connections : conn[k].phase \notin Handling)
<1>1. Init => JoinsDone
  BY DEF Init, JoinsDone
<1>2. JoinsDone /\ [Next]_vars => JoinsDone'
  <2> SUFFICES ASSUME JoinsDone, [Next]_vars, core' = "returned"
               PROVE  exited' = Services /\ udp' = "ended"
    BY DEF JoinsDone
  <2>1. CASE Return
    BY <2>1 DEF Return, HttpEnded, httpVars, udpVars
  <2>2. CASE UNCHANGED vars
    BY <2>2 DEF vars, httpVars, udpVars, JoinsDone
  <2>3. CASE Next /\ ~Return
    BY <2>3 DEF Next, Construct, ConstructFails, Accepts, Stops, Disturbs, Exits, Serves, Http,
                Receives, ReceivesNothing, Calls, Alive
  <2>. QED
    BY <2>1, <2>2, <2>3
<1>3. Spec => []JoinsDone
  BY <1>1, <1>2, PTL DEF Spec
<1>4. JoinsDone /\ Scheduled /\ IInv =>
        (core = "returned" =>
           /\ udp = "ended"
           /\ \A k \in Connections : conn[k].phase \notin Handling)
  BY DEF JoinsDone, Scheduled, IInv, TypeInv, Connection
<1>. QED
  BY <1>3, <1>4, ServerServesHttp, HandlersApart, HttpInvariantHolds, PTL

(* What is shown of the requests and their answers holds of them in the        *)
(* process: they are parsed as sent and decoded as encoded, answered with      *)
(* their own answer, and leave nothing in the files                            *)
(* (RequestParser.cpp:27-283, RequestHandler.cpp:51-63, 219-298).              *)
THEOREM ServerAnswers ==
    Spec => [](ParsedAsSent /\ PathAsEncoded /\ OwnAnswer /\ NoLeftovers)
BY ServerServesHttp, RequestsParsed, UrisDecoded, AnswersOwn, NothingLeft, PTL

\* What a call of the viewport by an endpoint can be lost on.
Loses(k) ==
    \/ ~Converts(RouteOf(k), conn[k].parser.request)
    \/ RouteOf(k) \in {"deregister", "sensors"} /\ ClientId(k) \notin DOMAIN registry
    \/ RouteOf(k) = "sensors" /\ SensorsIn(HeaderOf(k, "SENSOR_LIST")).outcome # "ok"
    \/ RouteOf(k) = "listing" /\ \E c \in DOMAIN registry : registry[c] = {}
    \/ RouteOf(k) = "data" /\ ~SetsScene(conn[k].parser.request)
    \/ RouteOf(k) = "calibrate"

\* A call that is lost on none of them keeps the process.
LEMMA CallsKeepProcess ==
    ASSUME NEW k \in Connections, Calls(k), ~Loses(k)
    PROVE  process' = process
<1>1. ASSUME NEW length, Compute(k, "ok", length)
      PROVE  process' = process
  BY <1>1 DEF Compute
<1>2. ASSUME NEW outcome, NEW length, Compute(k, outcome, length), outcome = "ok"
      PROVE  process' = process
  BY <1>1, <1>2
<1>3. Converts(RouteOf(k), conn[k].parser.request)
  BY DEF Loses
<1>4. CASE RouteOf(k) = "register" /\ Registers(k)
  BY <1>1, <1>4 DEF Registers
<1>5. CASE RouteOf(k) = "deregister" /\ Deregisters(k, ClientId(k))
  BY <1>1, <1>5 DEF Deregisters, Loses
<1>6. CASE RouteOf(k) = "sensors"
           /\ RegistersSensors(k, ClientId(k), SensorsIn(HeaderOf(k, "SENSOR_LIST")))
  BY <1>2, <1>6 DEF RegistersSensors, Loses
<1>7. CASE RouteOf(k) = "listing" /\ ListsClients(k)
  BY <1>1, <1>7 DEF ListsClients, Loses
<1>8. CASE RouteOf(k) = "data" /\ ShowsScene(k)
  <2>1. PICK outcome \in {"ok", "undefined"}, length \in {0, 2} :
           /\ outcome = "undefined" => ~SetsScene(conn[k].parser.request)
           /\ Compute(k, outcome, length)
    BY <1>8 DEF ShowsScene
  <2>. QED
    BY <1>2, <1>8, <2>1 DEF Loses
<1>9. CASE RouteOf(k) \in {"order", "calibrate"} /\ GivesVerdict(k)
  <2>1. PICK outcome \in {"ok", "throws", "undefined"} :
           /\ outcome # "ok" => RouteOf(k) = "calibrate"
           /\ Compute(k, outcome, 1)
    BY <1>9 DEF GivesVerdict
  <2>. QED
    BY <1>2, <2>1 DEF Loses
<1>. QED
  BY <1>3, <1>4, <1>5, <1>6, <1>7, <1>8, <1>9 DEF Calls, Answers

\* Of the other steps none loses the process once it is constructed.
LEMMA StepsKeepProcess ==
    ASSUME IInv, IInv', [Next]_vars, core # "constructing", process' # process
    PROVE  \E k \in Connections : Calls(k) /\ Loses(k)
<1>1. ~ UNCHANGED process
  OBVIOUS
<1>2. ASSUME NEW k \in Connections
      PROVE  HttpStep(k) \/ ReadFails(k) => process' = process
  <2>1. CASE HandleRead(k)
    <3>1. conn \in [Connections -> Connection] /\ conn'[k] \in Connection
      BY DEF IInv, TypeInv
    <3>2. conn'[k].parser.verdict # "undefined"
      BY <3>1 DEF Connection, Parsers
    <3> DEFINE parser == Parse(conn[k].parser, conn[k].sent[conn[k].read + 1])
               path == RequestPath(parser.request.uri)
               c == Took(conn[k], parser)
    <3>3. /\ conn' = CASE parser.verdict = "more" -> [conn EXCEPT ![k] = ReadMore(c)]
                       [] parser.verdict = "ok" /\ path # <<>> -> Begun(k, c, path)
                       [] OTHER -> [conn EXCEPT ![k] = Refused(c)]
          /\ process' = IF parser.verdict = "undefined" THEN "undefined" ELSE process
      BY <2>1 DEF HandleRead
    <3>4. Refused(c).parser = parser
      <4>1. conn[k] \in Connection
        BY <3>1
      <4>. QED
        BY <4>1 DEF Refused, Took, Connection
    <3> HIDE DEF parser, path, c
    <3>5. parser.verdict = "undefined" => conn'[k] = Refused(c)
      BY <3>1, <3>3
    <3>. QED
      BY <3>2, <3>3, <3>4, <3>5
  <2>2. CASE HttpStep(k) /\ ~HandleRead(k)
    BY <2>2 DEF HttpStep, Open, Write, OpenReply, ReadFile, Erase, HandleWrite
  <2>3. CASE ReadFails(k)
    BY <2>3 DEF ReadFails
  <2>. QED
    BY <2>1, <2>2, <2>3
<1>3. CASE Construct \/ ConstructFails
  BY <1>3 DEF Construct, ConstructFails
<1>4. CASE Return \/ Accepts \/ Stops \/ Receives \/ ReceivesNothing
           \/ \E s \in Services : Exits(s)
  BY <1>1, <1>4 DEF Return, Accepts, Stops, Receives, ReceivesNothing, Exits, Http, HandleAccept,
                HandleStop, ServiceExits, OtherFails, httpVars
<1>5. CASE Disturbs
  BY <1>1, <1>2, <1>5 DEF Disturbs, Http, AcceptFails
<1>6. ASSUME NEW k \in Connections, Serves(k)
      PROVE  FALSE
  BY <1>1, <1>2, <1>6 DEF Serves, Http
<1>7. ASSUME NEW k \in Connections, Calls(k)
      PROVE  Loses(k)
  BY <1>7, CallsKeepProcess
<1>8. CASE UNCHANGED vars
  BY <1>1, <1>8 DEF vars, httpVars
<1>. QED
  BY <1>3, <1>4, <1>5, <1>6, <1>7, <1>8 DEF Next

(* Once it is constructed the pool loses the process on nothing but a call of  *)
(* the viewport, and there only on a header that holds no number, a client     *)
(* nobody registered, a list of sensors that is none, a client without         *)
(* sensors, a scene that was not asked for, and calibrating: not on a byte of  *)
(* a request, on a file or on how handlers interleave                          *)
(* (RequestHandler.cpp:49-242).                                                *)
THEOREM LossesNamed ==
    Spec => [][core # "constructing" /\ process' # process =>
                   \E k \in Connections : Calls(k) /\ Loses(k)]_vars
<1>1. IInv /\ IInv' /\ [Next]_vars =>
        (core # "constructing" /\ process' # process =>
             \E k \in Connections : Calls(k) /\ Loses(k))
  BY StepsKeepProcess
<1>. QED
  BY <1>1, ServerServesHttp, HttpInvariantHolds, PTL DEF Spec
===============================================================================
