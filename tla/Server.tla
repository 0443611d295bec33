--------------------------------- MODULE Server --------------------------------
(***************************************************************************)
(* The process (MinorityViewport.cpp): Core is constructed, then one thread *)
(* runs the HTTP server and another receives datagrams, and main joins both.*)
(* They meet in the registry of clients and sensors, which requests change  *)
(* and datagrams are looked up in.                                          *)
(***************************************************************************)
EXTENDS HttpServer, UdpServer

CONSTANTS
    ClientIds,      \* ids a registration can draw
    SensorsIn(_)    \* InitialSensorsList: what a list of sensors comes to, which
                    \* is an outcome and the ids it inserts

ASSUME ClientIdsAssumption == ClientIds \subseteq Nat
ASSUME RegistriesAssumption == \A s \in Scenarios : DOMAIN s.registry \subseteq Nat

VARIABLES
    core,      \* how far main is
    registry   \* the sensors of every registered client, by their ids

vars == <<core, registry, httpVars, udpVars>>

Init ==
    \E s \in Scenarios :
        /\ core = "constructing"
        /\ registry = s.registry
        /\ HttpInit(s)
        /\ UdpInit(s)

-----------------------------------------------------------------------------
(* Main *)

Construct ==
    /\ core = "constructing"
    /\ core' = "running"
    /\ UNCHANGED <<registry, httpVars, udpVars>>

\* An exception is caught in the constructor, so main starts both threads with
\* pointers to servers that were never set.
ConstructFails ==
    /\ core = "constructing"
    /\ core' = "running"
    /\ OtherFails("undefined")
    /\ UNCHANGED <<registry, udpVars>>

Alive == core = "running" /\ Running /\ udp # "undefined"

\* The joins: of the HTTP thread first.
Return ==
    /\ Alive
    /\ HttpEnded
    /\ udp = "ended"
    /\ core' = "returned"
    /\ UNCHANGED <<registry, httpVars, udpVars>>

-----------------------------------------------------------------------------
(* What the endpoints do to the registry, and their answers' lengths.         *)

HeaderOf(k, name) == HeaderValue(conn[k].parser.request, name)

\* std::stoi of a header that converts, from its first digit to the last that
\* follows; a negative number is nobody's id.
NumberFrom(value, first) ==
    LET last == CHOOSE j \in first..Len(value) :
                   /\ \A i \in first..j : value[i] \in Digit
                   /\ j = Len(value) \/ value[j + 1] \notin Digit
    IN  IF first > 1 /\ value[first - 1] = "-" THEN -1
        ELSE FoldLeft(LAMBDA n, d : 10 * n + Value(d), 0, SubSeq(value, first, last))
NumberIn(value) == NumberFrom(value, SelectInSeq(value, LAMBDA c : c \in Digit))
ClientId(k) == NumberIn(HeaderOf(k, "CLIENT_ID"))

Registers(k) ==
    \E id \in ClientIds \ DOMAIN registry :
        /\ Compute(k, "ok", 1)
        /\ registry' = [c \in DOMAIN registry \cup {id} |->
                          IF c = id THEN {} ELSE registry[c]]

\* At gives NULL for an id nobody has, and it is used.
Deregisters(k, id) ==
    \/ /\ id \in DOMAIN registry
       /\ Compute(k, "ok", 0)
       /\ registry' = [c \in DOMAIN registry \ {id} |-> registry[c]]
    \/ /\ id \notin DOMAIN registry
       /\ Compute(k, "undefined", 0)
       /\ UNCHANGED registry

RegistersSensors(k, id, list) ==
    \/ /\ id \in DOMAIN registry
       /\ Compute(k, list.outcome, 0)
       /\ registry' = [registry EXCEPT ![id] = @ \cup list.ids]
    \/ /\ id \notin DOMAIN registry
       /\ Compute(k, "undefined", 0)
       /\ UNCHANGED registry

\* Writing a client without sensors is undefined.
ListsClients(k) ==
    /\ Compute(k, IF \E c \in DOMAIN registry : registry[c] = {}
                  THEN "undefined" ELSE "ok", 2)
    /\ UNCHANGED registry

\* The scene asked for may not exist, and nothing is written then.
ShowsScene(k) ==
    /\ \E outcome \in {"ok", "undefined"}, length \in {0, 2} :
          /\ outcome = "undefined" => ~SetsScene(conn[k].parser.request)
          /\ Compute(k, outcome, length)
    /\ UNCHANGED registry

\* Ordering gives its verdict.  Calibrating may also find what it cannot use:
\* module Calibration says when.
GivesVerdict(k) ==
    /\ \E outcome \in {"ok", "throws", "undefined"} :
          /\ outcome # "ok" => RouteOf(k) = "calibrate"
          /\ Compute(k, outcome, 1)
    /\ UNCHANGED registry

\* std::stoi throws.
FailsToConvert(k) == Compute(k, "throws", 0) /\ UNCHANGED registry

Answers(k, route) ==
    IF ~Converts(route, conn[k].parser.request) THEN FailsToConvert(k)
    ELSE \/ route = "register" /\ Registers(k)
         \/ route = "deregister" /\ Deregisters(k, ClientId(k))
         \/ route = "sensors" /\ RegistersSensors(k, ClientId(k),
                                    SensorsIn(HeaderOf(k, "SENSOR_LIST")))
         \/ route = "listing" /\ ListsClients(k)
         \/ route = "data" /\ ShowsScene(k)
         \/ route \in {"order", "calibrate"} /\ GivesVerdict(k)

Calls(k) ==
    /\ Alive
    /\ conn[k].phase = "compute"
    /\ Answers(k, RouteOf(k))
    /\ UNCHANGED <<core, udpVars>>

-----------------------------------------------------------------------------
Http(step) == Alive /\ step /\ UNCHANGED <<core, registry, udpVars>>

Accepts == Http(HandleAccept)
Stops == Http(HandleStop)
Exits(s) == Http(ServiceExits(s))
Serves(k) == Http(HttpStep(k))

\* What clients do to their connections.
Disturbs == Http(AcceptFails \/ \E k \in Connections : ReadFails(k))

Receives ==
    /\ Alive
    /\ Startup \/ Receive(registry)
    /\ UNCHANGED <<core, registry, httpVars>>

\* WSAStartup fails.
ReceivesNothing ==
    /\ Alive
    /\ StartupFails /\ OtherFails(process)
    /\ UNCHANGED <<core, registry>>

Next ==
    \/ Construct \/ ConstructFails \/ Return
    \/ Accepts \/ Stops \/ Disturbs \/ Receives \/ ReceivesNothing
    \/ \E s \in Services : Exits(s)
    \/ \E k \in Connections : Serves(k) \/ Calls(k)

\* Some thread of the pool goes on while any has something to do, and the kernel
\* reports connections, bytes and signals.  As a connection takes finitely many
\* steps, every thread comes to its last.
Fairness == WF_vars(Construct) /\ WF_httpVars(Alive /\ Threads)

Spec == Init /\ [][Next]_vars
FairSpec == Spec /\ Fairness

-----------------------------------------------------------------------------
TypeOK ==
    /\ HttpTypeOK
    /\ core \in {"constructing", "running", "returned"}
    /\ udp \in UdpStates
    /\ DOMAIN registry \subseteq Nat

(* An accepted request is answered however its bytes are cut, unless the      *)
(* client goes, a signal stops the server or the process dies: a read that    *)
(* leaves the parser undecided is followed by another (Connection.cpp:50-63). *)
Dead == ~Running \/ udp = "undefined"
RequestsAnswered ==
    \A k \in Connections :
        (conn[k].phase = "reading" /\ IsRequest(FlattenSeq(conn[k].sent)))
          ~> (\/ conn[k].reply.status # "none" \/ conn[k].phase = "failed"
              \/ stopped # {} \/ Dead)

(* A client that connects is accepted, also after an accept that failed: each *)
(* accept, whatever became of it, starts the next (Server.cpp:55-63).         *)
ClientsAccepted == (waiting # <<>>) ~> (waiting = <<>> \/ stopped # {} \/ Dead)

(* A signal ends the HTTP thread: the service that gets it stops them all,    *)
(* and a handler that runs finishes first (Server.cpp:65-68,                  *)
(* IOServicePool.cpp:37-58).                                                  *)
StopEndsHttp == (core = "running" /\ signals) ~> (HttpEnded \/ Dead)
===============================================================================
