-------------------------------- MODULE UdpServer ------------------------------
(***************************************************************************)
(* The thread that receives the sensors' datagrams (Networks/UdpServer.cpp  *)
(* and BeginUdpListen of MinorityViewport.cpp).                             *)
(***************************************************************************)
EXTENDS Integers, Sequences

CONSTANT Processing(_, _)  \* ProcessSensorData: what a datagram comes to, given the
                           \* registry, which is an outcome and skeletons to store

VARIABLES
    udp,               \* where the thread is
    datagrams, taken,  \* what the socket receives, and how much of it was
    loaded             \* skeletons stored in the sensors' scenes so far

udpVars == <<udp, datagrams, taken, loaded>>

UdpStates == {"starting", "receiving", "ended", "undefined"}

UdpInit(scenario) ==
    /\ udp = "starting"
    /\ datagrams = scenario.datagrams
    /\ taken = 0
    /\ loaded = <<>>

\* WSAStartup; if it fails Run returns.
Starts(to) ==
    /\ udp = "starting"
    /\ udp' = to
    /\ UNCHANGED <<datagrams, taken, loaded>>
Startup == Starts("receiving")
StartupFails == Starts("ended")

\* One turn of the loop.  What the processing throws is caught around the
\* loop, and ends it.
StateAfter(outcome) ==
    CASE outcome = "ok" -> "receiving"
      [] outcome = "throws" -> "ended"
      [] OTHER -> "undefined"

Receive(registry) ==
    /\ udp = "receiving"
    /\ taken < Len(datagrams)
    /\ taken' = taken + 1
    /\ \E processed \in {Processing(registry, datagrams[taken + 1])} :
       /\ loaded' = loaded \o processed.loaded
       /\ udp' = StateAfter(processed.outcome)
    /\ UNCHANGED datagrams
===============================================================================
