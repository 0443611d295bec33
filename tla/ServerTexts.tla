------------------------------- MODULE ServerTexts ------------------------------
(***************************************************************************)
(* The process with the documents it reads and writes: Processing is        *)
(* ProcessSensorData here and SensorsIn is InitialSensorsList.              *)
(***************************************************************************)
EXTENDS Server, SensorData

(* What is known of sensors reads back from the listing the server writes if   *)
(* their ids are clean: without quotes, and without two backslashes that have *)
(* less than two characters between them.  The skeletons of a scene read back *)
(* from its text, joints and coordinates included, exactly then               *)
(* (Skeleton.cpp:205-276, Client.cpp:27-92, Scene.cpp:194-253).               *)
Clean(id) ==
    \A i \in DOMAIN id :
        id[i] # Quote /\ (id[i] = Backslash =>
                            \A j \in DOMAIN id \cap {i + 1, i + 2} : id[j] # Backslash)
\* The i-th element of a member, and its number of elements.
Nth(json, name, i) == Lookup(Member(json, name), i - 1)
Many(json, name) == Size(Member(json, name))

ListingSays(parsed, clients) ==
    /\ parsed.ok
    /\ Many(parsed.value, "clients") = Len(clients)
    /\ \A i \in DOMAIN clients : \A listed \in {Nth(parsed.value, "clients", i)} :
          /\ Member(listed, "id").value = clients[i].id
          /\ Many(listed, "sensors") = Len(clients[i].sensors)
          /\ \A j \in DOMAIN clients[i].sensors :
                Member(Nth(listed, "sensors", j), "id").value = clients[i].sensors[j].id
ListedSensors(ids) ==
    [j \in DOMAIN ids |-> [id |-> ids[j], calibrated |-> FALSE, ordering |-> 0]]
Listed(id) ==
    [id |-> id, location |-> <<>>, address |-> <<>>,
     sensors |-> ListedSensors(SetToSeq(registry[id]))]
ListingRead(clients) ==
    (\A i \in DOMAIN clients : Listable(clients[i])) =>
        ListingSays(ParseDocument(ListingText(clients)), clients)

SceneSays(parsed) ==
    /\ parsed.ok
    /\ Member(parsed.value, "sensorId").value = loaded[1].sensor
    /\ Many(parsed.value, "skeletons") = Len(loaded)
    /\ \A i \in DOMAIN loaded : \A shown \in {Nth(parsed.value, "skeletons", i)} :
          /\ SkeletonOutcome(shown) = "ok"
          /\ Skeleton(shown, loaded[i].time) = [loaded[i] EXCEPT !.id = 0]
SceneRead ==
    SceneSays(ParseDocument(SceneText(
        [sensor |-> loaded[1].sensor, dimensions |-> <<640, 480, 0>>, ordering |-> 1,
         calibrated |-> TRUE, skeletons |-> loaded])))
ReadsBack ==
    /\ (\A c \in DOMAIN registry : \A id \in registry[c] : Clean(id)) =>
          \A ids \in {SetToSeq(DOMAIN registry)} :
              ListingRead([i \in DOMAIN ids |-> Listed(ids[i])])
    /\ loaded # <<>> =>
          (SceneRead <=> \A i \in DOMAIN loaded : Clean(loaded[i].sensor))
================================================================================
