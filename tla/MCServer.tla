-------------------------------- MODULE MCServer -------------------------------
(***************************************************************************)
(* Scenarios for Server: one request, sent whole or cut, and all texts one  *)
(* edit away from it; several requests at once; datagrams that print        *)
(* measurements, and texts one edit away from one.                          *)
(***************************************************************************)
EXTENDS ServerTexts

MCWords == {"GET", "api", "API", "clients", "sensors", "visualisations", "register",
            "deregister", "listing", "order", "calibrate", "data", "json", "index",
            "html", "CLIENT_ID", "SENSOR_LIST", "SCENE_A_ORDER", "SCENE_B_ORDER",
            "Request-Type", "global", "Sensors", "id"}

Index == <<"/", "index", ".", "html">>
MCDocuments == {Endpoint[e] : e \in DOMAIN Endpoint} \cup {Index}

Crlf == <<"CR", "LF">>
Text1(path, headers) ==
    <<"GET", " ">> \o path \o <<" ", "H", "T", "T", "P", "/", "1", ".", "0">> \o Crlf
    \o FlattenSeq(headers) \o Crlf
Field1(name, value) == <<name, ":", " ">> \o value \o Crlf
Plainly(e) == Text1(Endpoint[e], <<>>)

NoDatagrams == <<>>
One == 1 :> {<<"5">>}  \* a client with one sensor
Scenario(clients, stops, failing, arriving, reg) ==
    [clients |-> clients, stops |-> stops, faults |-> failing,
     datagrams |-> arriving, registry |-> reg]
Clients(clients) == Scenario(clients, FALSE, 0, NoDatagrams, One)

-----------------------------------------------------------------------------
Without(text, i) == SubSeq(text, 1, i - 1) \o SubSeq(text, i + 1, Len(text))
With(text, i, c) == SubSeq(text, 1, i - 1) \o <<c>> \o SubSeq(text, i, Len(text))

Edits(text, symbols) ==
    {Without(text, i) : i \in DOMAIN text}
    \cup {With(text, i, c) : i \in DOMAIN text, c \in symbols}
    \cup {[text EXCEPT ![i] = c] : i \in DOMAIN text, c \in symbols}

\* A folded header, a second one of the same name, and bytes behind the end.
Folded == Text1(<<"/">>, <<Field1("id", <<"1", " ">>), <<"HT", " ", "2">>, Crlf,
                           Field1("id", <<>>)>>) \o <<"GET">>

\* Cut before i and before j.
Cut(text, i, j) ==
    <<SubSeq(text, 1, i - 1), SubSeq(text, i, j - 1), SubSeq(text, j, Len(text))>>

\* Escapes in both cases, next to others and at the end, of two digits, of one,
\* and of none.
Uris == Edits(<<"/", "%", "2", "F">>, {"%", "+", "e'", ".", "f", "x"})
        \cup {<<"/", "%", "2", "f", "%">> \o end : end \in {<<>>, <<"2">>, <<"2", "e">>}}
        \cup {<<"/", "%", "0", "x">>, <<"/", "%", "2", "e", "%", "2", "E">>}

OneClient ==
    {Clients(<<<<text>>>>) : text \in Edits(Folded, {"CR", " ", "HT", ":"})}
    \cup {Clients(<<<<Text1(uri, <<>>)>>>>) : uri \in Uris}
    \cup {Clients(<<Cut(Folded, i, j)>>) :
            i \in 2..Len(Folded) - 3, j \in {Len(Folded) - 2, Len(Folded)}}

\* One request for each way an endpoint can go.
Requests ==
    {Plainly(e) : e \in DOMAIN Endpoint}
    \cup {Text1(Endpoint["deregister"], <<Field1("CLIENT_ID", <<" ", "1">>)>>),
          Text1(Endpoint["deregister"], <<Field1("CLIENT_ID", <<"-", "2">>)>>),
          Text1(Endpoint["data"], <<Field1("Request-Type", <<"global">>)>>),
          Text1(Endpoint["calibrate"], <<Field1("SCENE_A_ORDER", <<"1">>),
                                         Field1("SCENE_B_ORDER", <<"2">>)>>),
          Text1(<<"/">>, <<>>), Text1(<<"/", ".", ".">>, <<>>),
          Text1(<<"/", "data">>, <<>>)}

SensorList(id) ==
    <<"{", Quote, "Sensors", Quote, ":", "[", "{", Quote, "id", Quote, ":", Quote>>
    \o id \o <<Quote, "}", "]", "}">>
Registration(id) ==
    Text1(Endpoint["sensors"], <<Field1("CLIENT_ID", <<"1">>),
                                 Field1("SENSOR_LIST", SensorList(id))>>)

Alias == Text1(<<"/", "API", "/", "clients", "/", "listing", ".", "json">>, <<>>)
GlobalScene == Text1(Endpoint["data"], <<Field1("Request-Type", <<"global">>)>>)

SeveralClients ==
    {Scenario(<<<<r>>>>, TRUE, 1, NoDatagrams, One) : r \in Requests}
    \cup {Scenario(<<<<Plainly("listing")>>, <<r>>>>, FALSE, 0, NoDatagrams, One) :
            r \in {Plainly("listing"), GlobalScene, Alias}}
    \cup {Clients(<<<<GlobalScene>>, <<GlobalScene>>>>),
          Clients(<<<<Plainly("order")>>, <<Plainly("order")>>, <<Alias>>>>),
          Scenario(<<Cut(Plainly("order"), 4, 9), <<Plainly("order")>>>>, FALSE, 1,
                   NoDatagrams, One)}

-----------------------------------------------------------------------------
(* Measurements and the datagrams that say them.                             *)

Field2(name, text) == <<Quote, name, Quote, ":">> \o text
JointDoc(x) == <<"{">> \o Field2("X", RealText(x)) \o <<",">>
               \o Field2("Y", IntText(2)) \o <<"}">>
SkeletonDoc(m) ==
    <<"{">> \o Field2("client_id", IntText(m.client)) \o <<",">>
    \o Field2("sensor_id", Quoted(m.printed)) \o <<",", " ">>
    \o Field2("skeleton_id", IntText(m.id)) \o <<",">>
    \o Field2("pos_x", RealText(m.x)) \o <<",">>
    \o Field2("joints", <<"[">> \o JointDoc(m.x) \o <<",">> \o JointDoc(0) \o <<"]">>)
    \o <<"}">>
Datagram(ms) ==
    <<"{">> \o Field2("TIME_STAMP", IntText(12)) \o <<",">>
    \o Field2("SENSOR_JSON",
              <<"[">> \o Separated([i \in DOMAIN ms |-> SkeletonDoc(ms[i])]) \o <<"]">>)
    \o <<"}">>

\* Ids as the clients print them, with their meaning.
Ids == {[printed |-> <<"5">>, means |-> <<"5">>],
        [printed |-> <<"5", Backslash, Backslash, "7">>,
         means |-> <<"5", Backslash, "7">>],
        [printed |-> <<"5", Backslash, Quote, "7">>, means |-> <<"5", Quote, "7">>],
        [printed |-> <<"5", Backslash, "/">>, means |-> <<"5", "/">>]}

\* Ids with two backslashes that have so much between them: less than two
\* characters, two, and three.
Between(text) ==
    [printed |-> <<Backslash, Backslash>> \o text \o <<Backslash, Backslash, "7">>,
     means |-> <<Backslash>> \o text \o <<Backslash, "7">>]
Pairs == {Between(text) : text \in {<<>>, <<"5">>, <<"5", "6">>, <<"5", "6", "7">>}}

Measured(client, id, number, x) ==
    [client |-> client, printed |-> id.printed, sensor |-> id.means,
     id |-> number, x |-> x]
Five == CHOOSE id \in Ids : id.means = <<"5">>
Measurements ==
    {Measured(1, id, 3, 15) : id \in Ids \cup Pairs}
    \cup {Measured(client, Five, 3, -15) :
            client \in {0, 1, 2, 127, 128, 249, 250, 255, 256, 257, 258, 259}}
    \cup {Measured(1, Five, number, 0) : number \in {15, 16, 17, 127, 128, 255}}

\* Of these clients only these sensors are known.
Known == [c \in {1, 2, 127, 128, 255} |-> {id.means : id \in Ids \cup Pairs}]

Expected(m) ==
    [client |-> m.client, sensor |-> m.sensor, id |-> m.id % (MaxShort + 1),
     pos |-> <<m.x, 0, 0>>, joints |-> <<<<m.x, 20, 0>>, <<0, 20, 0>>>>,
     time |-> 12, shared |-> FALSE]

Several == {<<m>> : m \in Measurements}
           \cup {<<Measured(1, a, 1, 0), Measured(2, b, 2, 10)>> : a, b \in Ids}
Printed == [ms \in Several |-> Datagram(ms)]

Edited == Printed[<<Measured(1, Five, 3, 15)>>]
Receiving(arriving) == Scenario(<<>>, FALSE, 0, arriving, Known)
Datagrams ==
    {Receiving(<<Printed[ms], Edited>>) : ms \in Several}
    \cup {Receiving(<<d>>) : d \in Edits(Edited, {Quote, "{", "]", ",", Backslash})}

\* A sensor is registered while a datagram from it arrives.
Registering ==
    {Scenario(<<<<Registration(id.printed)>>, <<Plainly("listing")>>>>, FALSE, 0,
              <<Printed[<<Measured(1, id, 3, 15)>>]>>, One) : id \in (Ids \cup Pairs) \ {Five}}

MCScenarios == OneClient \cup SeveralClients \cup Datagrams \cup Registering

-----------------------------------------------------------------------------
(* A datagram that prints measurements loads the skeletons they say, each     *)
(* once and in their order, up to the first from a sensor its client has not; *)
(* a number that does not fit names no other client                           *)
(* (MinorityViewportAlgo.cpp:370-399, json_reader.cpp:581-616,                *)
(* Skeleton.cpp:5-65).                                                        *)
Taken == SubSeq(datagrams, 1, taken)
LoadedAsSent ==
    (registry = Known /\ \A i \in DOMAIN Taken : Taken[i] \in Range(Printed)) =>
        LET Said(doc) == CHOOSE ms \in Several : Printed[ms] = doc
            said == FlattenSeq([i \in DOMAIN Taken |-> Said(Taken[i])])
            known == SelectSeq(said, LAMBDA m : m.client \in DOMAIN Known)
            expected == [i \in DOMAIN known |-> Expected(known[i])]
        IN  IsPrefix(loaded, expected) /\ (udp # "ended" => loaded = expected)
===============================================================================
