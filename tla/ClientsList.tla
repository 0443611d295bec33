------------------------------ MODULE ClientsList ------------------------------
(***************************************************************************)
(* The registry of client machines (Data/ClientsList.cpp): the list of     *)
(* Client objects in order of registration, and the queue of ids given     *)
(* back by removed clients.  The class has no lock.  The two operations    *)
(* that change it are split where another thread can see them half done.   *)
(* This module is the state and the steps; Viewport composes them with the *)
(* requests that take them.                                                *)
(***************************************************************************)
EXTENDS Integers, Sequences, SequencesExt

CONSTANTS Workers,  \* HTTP worker threads
          Ids,      \* client ids (1..1000 in the code)
          Objects,  \* addresses a Client object can have; bounds how many
                    \* clients are registered at once
          None

ASSUME ClientsAssumption ==
    None \notin Ids \cup Objects

VARIABLES
    list,   \* _raw_client_list, a sequence of addresses
    avail,  \* avaliableIDs, a FIFO queue
    alive,  \* the Client objects that are allocated
    idOf,   \* the _id of each of them
    pc,     \* where each worker is in the request it executes
    cid,    \* its local client id: the one assigned, or the one given
    slot    \* its local removedIdx

clientVars == <<list, avail, alive, idOf>>

Clients == Range(list)
Assigned == {idOf[c] : c \in Clients}

ListTypeOK ==
    /\ list \in Seq(Objects)
    /\ avail \in Seq(Ids)
    /\ alive \subseteq Objects
    /\ idOf \in [Objects -> Ids \cup {None}]
    /\ cid \in [Workers -> Ids \cup {None}]
    /\ slot \in [Workers -> Nat]

ListInit ==
    /\ list = <<>>
    /\ avail = <<>>
    /\ alive = {}
    /\ idOf = [c \in Objects |-> None]
    /\ cid = [w \in Workers |-> None]
    /\ slot = [w \in Workers |-> 0]

\* The positions the search of At, ClientIdIsPrevAssigned and RemoveClient
\* visits, up to the first client with that id.
Matches(id) == {i \in DOMAIN list : idOf[list[i]] = id}

Position(id) == CHOOSE i \in Matches(id) : \A j \in Matches(id) : i <= j

At(id) == IF Matches(id) = {} THEN None ELSE list[Position(id)]

\* The search reads the id of every client it passes: of a deleted one too.
SearchMeetsDeleted(id) ==
    \E i \in DOMAIN list :
        /\ list[i] \notin alive
        /\ \A j \in Matches(id) : i <= j

-------------------------------------------------------------------------------
(***************************************************************************)
(* AddClient: an id is generated, then the client is appended.  An id that *)
(* was given back is reused first; otherwise random ids are drawn until    *)
(* one is not assigned, which never ends when all of them are.             *)
(***************************************************************************)
\* Mutant: the front id is handed out and stays in the queue.
GenerateKeepsFront(w) ==
    /\ pc[w] = "generate"
    /\ \/ avail # <<>> /\ cid' = [cid EXCEPT ![w] = Head(avail)]
       \/ avail = <<>> /\ \E id \in Ids \ Assigned : cid' = [cid EXCEPT ![w] = id]
    /\ pc' = [pc EXCEPT ![w] = "append"]
    /\ UNCHANGED <<list, avail, alive, idOf, slot>>

GenerateNextClientId(w) ==
    /\ pc[w] = "generate"
    /\ \/ /\ avail # <<>>
          /\ cid' = [cid EXCEPT ![w] = Head(avail)]
          /\ avail' = Tail(avail)
       \/ /\ avail = <<>>
          /\ \E id \in Ids \ Assigned : cid' = [cid EXCEPT ![w] = id]
          /\ UNCHANGED avail
    /\ pc' = [pc EXCEPT ![w] = "append"]
    /\ UNCHANGED <<list, alive, idOf, slot>>

AppendClient(w, c) ==
    /\ pc[w] = "append"
    /\ c \notin alive
    /\ alive' = alive \cup {c}
    /\ idOf' = [idOf EXCEPT ![c] = cid[w]]
    /\ list' = Append(list, c)
    /\ pc' = [pc EXCEPT ![w] = "idle"]
    /\ cid' = [cid EXCEPT ![w] = None]
    /\ UNCHANGED <<avail, slot>>

(***************************************************************************)
(* RemoveClient: the object is deleted while the list still points to it,  *)
(* then its slot is erased.  If no client has the id, the search runs to   *)
(* the end and the last slot is erased all the same.                       *)
(***************************************************************************)
DeleteClient(w) ==
    /\ pc[w] = "delete"
    /\ IF Matches(cid[w]) = {}
       THEN /\ slot' = [slot EXCEPT ![w] = Len(list)]
            /\ UNCHANGED alive
       ELSE /\ slot' = [slot EXCEPT ![w] = Position(cid[w])]
            /\ alive' = alive \ {At(cid[w])}
    /\ pc' = [pc EXCEPT ![w] = "erase"]
    /\ UNCHANGED <<list, avail, idOf, cid>>

\* Mutant: the index is given back instead of the id.
EraseGivesIndex(w) ==
    /\ pc[w] = "erase"
    /\ slot[w] \in DOMAIN list
    /\ list' = RemoveAt(list, slot[w])
    /\ avail' = Append(avail, slot[w])
    /\ pc' = [pc EXCEPT ![w] = "idle"]
    /\ cid' = [cid EXCEPT ![w] = None]
    /\ slot' = [slot EXCEPT ![w] = 0]
    /\ UNCHANGED <<alive, idOf>>

EraseClient(w) ==
    /\ pc[w] = "erase"
    /\ slot[w] \in DOMAIN list
    /\ list' = RemoveAt(list, slot[w])
    /\ avail' = Append(avail, cid[w])
    /\ pc' = [pc EXCEPT ![w] = "idle"]
    /\ cid' = [cid EXCEPT ![w] = None]
    /\ slot' = [slot EXCEPT ![w] = 0]
    /\ UNCHANGED <<alive, idOf>>

\* While a worker is about to append or to erase, a reader of the list races
\* with it.
Reallocating == \E w \in Workers : pc[w] \in {"append", "erase"}

-------------------------------------------------------------------------------
NoDuplicates(s) == \A i, j \in DOMAIN s : s[i] = s[j] => i = j

\* Datagrams and requests name a client by its id: no two registered clients
\* ever have the same one, and an id waits for reuse at most once and never
\* while a client has it.
IdsUnique ==
    /\ \A i, j \in DOMAIN list : idOf[list[i]] = idOf[list[j]] => i = j
    /\ NoDuplicates(avail)
    /\ Range(avail) \cap Assigned = {}
===============================================================================
