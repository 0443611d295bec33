------------------------------- MODULE SensorData ------------------------------
(***************************************************************************)
(* What the server makes of the documents it receives and how it writes     *)
(* what it knows: Data/Skeleton.cpp, Joint.cpp, the documents of Client.cpp *)
(* and Scene.cpp, and ProcessSensorData of MinorityViewportAlgo.cpp.        *)
(*                                                                         *)
(* In ids a symbol is one character, in names of members a whole name.      *)
(***************************************************************************)
EXTENDS JsonReader

CONSTANT MaxShort  \* of an unsigned short, 2^16 - 1 in the code

ASSUME MaxShortAssumption == MaxShort \in Nat

-----------------------------------------------------------------------------
(* Reading a skeleton: the constructor of Skeleton                           *)

\* The outcome of steps in a row: that of the first that is not "ok".
FirstFailure(outcomes) ==
    LET failed == {i \in DOMAIN outcomes : outcomes[i] # "ok"} IN
    IF failed = {} THEN "ok" ELSE outcomes[Min(failed)]

Member(json, name) == Get(json, <<name>>, Zero)

\* A loop over list[i] goes wrong on an object with members.
Iterable(list) == Size(list) = 0 \/ Indexable(list)

\* A tracking mode is converted unless it is the 0 of the default.
ModeOutcome(mode) == IF Equal(mode, Zero) THEN "ok" ELSE AsString(mode).outcome

JointOutcome(json) ==
    IF ~Keyed(json) THEN "undefined"
    ELSE FirstFailure(<<ModeOutcome(Member(json, "trackedMode")),
                        AsDouble(Member(json, "X")).outcome,
                        AsDouble(Member(json, "Y")).outcome,
                        AsDouble(Member(json, "Z")).outcome>>)

Coordinates(json, x, y, z) ==
    <<AsDouble(Member(json, x)).value, AsDouble(Member(json, y)).value,
      AsDouble(Member(json, z)).value>>

SkeletonOutcome(json) ==
    LET joints == Member(json, "joints") IN
    IF ~Keyed(json) THEN "undefined"
    ELSE FirstFailure(
           [i \in 1..Size(joints) |->
               IF Iterable(joints) THEN JointOutcome(Lookup(joints, i - 1))
               ELSE "undefined"]
           \o <<ModeOutcome(Member(json, "trackingMode")),
                AsUInt(Member(json, "client_id")).outcome,
                AsDouble(Member(json, "pos_x")).outcome,
                AsDouble(Member(json, "pos_y")).outcome,
                AsDouble(Member(json, "pos_z")).outcome,
                AsUInt(Member(json, "skeleton_id")).outcome,
                AsString(Member(json, "sensor_id")).outcome>>)

\* The skeleton that results if all goes well.
Skeleton(json, time) ==
    LET joints == Member(json, "joints") IN
    [client |-> AsUInt(Member(json, "client_id")).value,
     sensor |-> AsString(Member(json, "sensor_id")).value,
     id     |-> AsUInt(Member(json, "skeleton_id")).value % (MaxShort + 1),
     pos    |-> Coordinates(json, "pos_x", "pos_y", "pos_z"),
     joints |-> [i \in 1..Size(joints) |->
                    Coordinates(Lookup(joints, i - 1), "X", "Y", "Z")],
     time   |-> time,
     shared |-> FALSE]

\* checkFullSetOfJoints
FullSetOfJoints(skeleton) ==
    \A i \in DOMAIN skeleton.joints : \A axis \in 1..3 : skeleton.joints[i][axis] # 0

-----------------------------------------------------------------------------
(* Writing: the ToJSON functions                                             *)

RECURSIVE Digits10(_)
Digits10(n) ==
    IF n < 10 THEN <<DecimalDigits[n + 1]>>
    ELSE Digits10(n \div 10) \o <<DecimalDigits[(n % 10) + 1]>>
IntText(n) == IF n < 0 THEN <<"-">> \o Digits10(-n) ELSE Digits10(n)
RealText(tenths) ==
    LET size == IF tenths < 0 THEN -tenths ELSE tenths IN
    (IF tenths < 0 THEN <<"-">> ELSE <<>>)
    \o Digits10(size \div 10) \o <<".">> \o Digits10(size % 10)

Quoted(text) == <<Quote>> \o text \o <<Quote>>
Field(name, text) == Quoted(<<name>>) \o <<":">> \o text

\* A comma after each but the last.
CommaAfterEach(texts) == FlattenSeq([i \in DOMAIN texts |-> texts[i] \o <<",">>])
Separated(texts) ==
    FlattenSeq([i \in DOMAIN texts |->
                   IF i = Len(texts) THEN texts[i] ELSE texts[i] \o <<",">>])

ObjectText(fields) == <<"{">> \o Separated(fields) \o <<"}">>
ArrayText(elements) == <<"[">> \o Separated(elements) \o <<"]">>

\* Mutant: the search skips one character more.
BehindThree(i) == i + 5

\* Where the search goes on after the backslash at i became two: two characters
\* are passed over.
Behind(i) == i + 4

\* The loop that doubles the backslashes of an id.  A quote stays as it is.
RECURSIVE Doubled(_, _)
Doubled(id, from) ==
    LET found == {i \in DOMAIN id : i >= from /\ id[i] = Backslash}
        i == Min(found)
    IN  IF found = {} THEN id
        ELSE Doubled(SubSeq(id, 1, i - 1) \o <<Backslash, Backslash>>
                        \o SubSeq(id, i + 1, Len(id)), Behind(i))
IdText(id) == Quoted(Doubled(id, 1))

Flag(truth) == Quoted(IF truth THEN <<"true">> ELSE <<"false">>)

JointText(type, joint) ==
    ObjectText(<<Field("type:", IntText(type)), Field("X", RealText(joint[1])),
                 Field("Y", RealText(joint[2])), Field("Z", RealText(joint[3]))>>)

SkeletonText(s) ==
    ObjectText(<<Field("id", IntText(s.id)), Field("client_id", IntText(s.client)),
                 Field("sensor_id", IdText(s.sensor)),
                 Field("time_stamp", IntText(s.time)),
                 Field("shared", Flag(s.shared)),
                 Field("pos_x", RealText(s.pos[1])),
                 Field("pos_y", RealText(s.pos[2])),
                 Field("pos_z", RealText(s.pos[3])),
                 Field("joints",
                       ArrayText([i \in DOMAIN s.joints |->
                                     JointText(i - 1, s.joints[i])]))>>)

\* Scene::ToJSON
SceneText(scene) ==
    ObjectText(<<Field("sensorId", IdText(scene.sensor)),
                 Field("dimensionX", IntText(scene.dimensions[1])),
                 Field("dimensionY", IntText(scene.dimensions[2])),
                 Field("dimensionZ", IntText(scene.dimensions[3])),
                 Field("ordering", IntText(scene.ordering)),
                 Field("calibrated", IntText(IF scene.calibrated THEN 1 ELSE 0)),
                 Field("skeletons",
                       ArrayText([i \in DOMAIN scene.skeletons |->
                                     SkeletonText(scene.skeletons[i])]))>>)

\* Client::ToJSON.  The last element is looked up by stepping back from the end,
\* which is undefined for a client without sensors.
Listable(client) == client.sensors # <<>>
ListedSensor(sensor) ==
    ObjectText(<<Field("id", IdText(sensor.id)),
                 Field("calibrated", Flag(sensor.calibrated)),
                 Field("ordering", Quoted(IntText(sensor.ordering)))>>)
ClientText(client) ==
    ObjectText(<<Field("id", IntText(client.id)),
                 Field("location", Quoted(client.location)),
                 Field("address", Quoted(client.address)),
                 Field("sensors",
                       ArrayText([i \in DOMAIN client.sensors |->
                                     ListedSensor(client.sensors[i])]))>>)

\* GetClientListing
ListingText(clients) ==
    ObjectText(<<Field("clients",
                       ArrayText([i \in DOMAIN clients |-> ClientText(clients[i])]))>>)

-----------------------------------------------------------------------------
(* Documents that arrive                                                     *)

\* InitialSensorsList: what the loop does and the ids it inserts until it goes
\* wrong; of an id named twice the first sensor stays.
SensorId(list, i) ==
    IF Iterable(list) /\ Keyed(Lookup(list, i)) THEN AsString(Member(Lookup(list, i), "id"))
    ELSE [outcome |-> "undefined"]
InsertedIds(ids) ==
    LET failed == {i \in DOMAIN ids : ids[i].outcome # "ok"}
        first == IF failed = {} THEN Len(ids) + 1 ELSE Min(failed)
    IN  [outcome |-> IF first > Len(ids) THEN "ok" ELSE ids[first].outcome,
         ids |-> {ids[i].value : i \in 1..first - 1}]
IdsOf(list) == InsertedIds([i \in 1..Size(list) |-> SensorId(list, i - 1)])
IdsIn(parsed) ==
    IF ~parsed.ok THEN [outcome |-> "ok", ids |-> {}]
    ELSE IF ~Keyed(parsed.value) THEN [outcome |-> "undefined", ids |-> {}]
    ELSE IdsOf(Member(parsed.value, "Sensors"))
InitialSensorsList(doc) == IdsIn(ParseDocument(doc))

\* LoadSkeleton, given the sensors of every registered client.
LoadOutcome(registry, s) ==
    CASE s.client \notin DOMAIN registry -> "ignored"
      [] s.client \in DOMAIN registry /\ registry[s.client] = {} -> "undefined"
      [] s.client \in DOMAIN registry /\ registry[s.client] # {}
            /\ s.sensor \notin registry[s.client] -> "throws"
      [] OTHER -> "ok"

\* One entry of SENSOR_JSON.
LoadEntry(registry, list, i, time) ==
    IF ~Iterable(list) THEN [outcome |-> "undefined"]
    ELSE LET read == SkeletonOutcome(Lookup(list, i))
             skeleton == Skeleton(Lookup(list, i), time)
         IN  IF read # "ok" THEN [outcome |-> read]
             ELSE [outcome |-> LoadOutcome(registry, skeleton), skeleton |-> skeleton]

\* How the loop over the entries ends and the skeletons it loads until then.
Loads(entries) ==
    LET failed == {i \in DOMAIN entries : entries[i].outcome \notin {"ok", "ignored"}}
        first == IF failed = {} THEN Len(entries) + 1 ELSE Min(failed)
        good == SelectSeq(SubSeq(entries, 1, first - 1), LAMBDA e : e.outcome = "ok")
    IN  [outcome |-> IF first > Len(entries) THEN "ok" ELSE entries[first].outcome,
         loaded |-> [n \in DOMAIN good |-> good[n].skeleton]]

LoadAll(registry, list, time) ==
    Loads([i \in 1..Size(list) |-> LoadEntry(registry, list, i - 1, time)])

Nothing(outcome) == [outcome |-> outcome, loaded |-> <<>>]

ProcessRoot(registry, root, time) ==
    IF time.outcome # "ok" THEN Nothing(time.outcome)
    ELSE LoadAll(registry, Lookup(root, <<"SENSOR_JSON">>), Whole(time.value))

ProcessParsed(registry, parsed) ==
    IF ~parsed.ok THEN Nothing("ok")
    ELSE IF ~Keyed(parsed.value) THEN Nothing("undefined")
    ELSE ProcessRoot(registry, parsed.value,
                     AsDouble(Get(parsed.value, <<"TIME_STAMP">>, Make("string", <<"0">>))))

ProcessSensorData(registry, doc) ==
    IF doc = <<>> THEN Nothing("ok") ELSE ProcessParsed(registry, ParseDocument(doc))
===============================================================================
