# Minority Viewport in TLA+

Minority Viewport is a server that merges what several Kinect sensors see.
Client machines register over HTTP, register their sensors, and send the
skeletons the sensors track as UDP datagrams. A browser asks for the order of
the sensors, sends pairs of skeletons to calibrate two sensors against each
other, and fetches the view of one sensor or the merged view of all.

This directory holds TLA+ modules of that server, configurations that check
them with TLC, and proofs checked with TLAPS. Paths below are relative to the
repository (`src/`).

## 1. The system

### Threads

| thread | started at | what it runs |
|---|---|---|
| HTTP workers, five | `MinorityViewport.cpp:42`, `Networks/IOServicePool.cpp:37` | `request_handler::handle_request` of the connections of one `io_service` |
| UDP thread | `MinorityViewport.cpp:99` | `UdpServer::Run`: receive, parse, `LoadSkeleton` |
| refresh thread of each sensor's scene | `Data/Scene.cpp:11` | `Scene::Clear` until the scene is destroyed |
| main | `MinorityViewport.cpp:101` | joins the HTTP server's thread and the UDP thread |

### Components

| component | state | operations | interacts with | must hold |
|---|---|---|---|---|
| `Scene` (`Data/Scene.cpp`) | skeletons by id (at most 3), time of first observation, mutex, refresh thread, order, neighbours, matrices | `Update`, `Remove`, `ManualClear`, `GetSkeletons`, `Clear`, constructor, destructor | called by the UDP thread (`Update`) and workers; its own refresh thread | calls are atomic; capacity; the first observation is recorded before anything is stored and never moves; stale skeletons go; destruction ends |
| `Client`, `Sensor` | sensors by id; the scene of a sensor | `InitialSensorsList`, `ExtractSensor`, destructors | own scenes | a scene lives exactly as long as its client |
| `ClientsList` | list of clients, queue of ids given back; no lock | `AddClient`, `RemoveClient`, `At`, `AtIdx` | workers, UDP thread | ids of registered clients are unique |
| `MinorityViewportAlgo` registry and order | set and order of scenes, `_orderedSceneMutex` | `RegisterClient`, `DeregisterClient`, `RegisterSensors`, `CalibrateSceneOrder`, `LoadSkeleton` | all of the above | the order holds living scenes, sorted by first observation, linked to their neighbours |
| ... calibration and merge | matrices of the scenes, global scene | `CalibrateScenes`, `MergeScenes`, `GetGlobalScene`, `GetLocalSceneBySensorId` | order, neighbours, scene contents | a scene's matrices lead from it to its left neighbour; the merge follows living scenes and known matrices |
| `request_handler` | one response file per endpoint under the document root | `handle_request`, `url_decode` | workers call the algorithm through it | the answer sent is the answer computed, and none is left for the next request |
| `request_parser` | state, the request so far | `consume`, `parse` | called by a connection for what each read yields | what is accepted is a request, however it was cut |
| HTTP server (`server`, `connection`, `io_service_pool`, `reply`) | accepted connections, round robin over the services, the wait for signals | accept, read, write, stop | parser, request handler | every client is accepted and every request answered; a signal stops the pool |
| `UdpServer`, `Core`, `main` | socket, threads | `Run`, `BeginListen`, `BeginUdpListen`, constructor | algorithm | datagrams load what they say; the HTTP thread ends when it is told to |
| `Skeleton`, `Joint` | coordinates, joints, ids, time stamp | construction from JSON, `ToJSON`, matrices | `ProcessSensorData`, `Scene::ToJSON` | what is printed reads back |
| jsoncpp (`Data/JSON`) | values, the reader's position | `Reader::parse`, the operations of `Value` | datagrams, sensor lists, calibration requests | a number or a string is read as it was written, or refused |
| `Timer` | start, paused flag | `GetTicks_ms` | scenes, algorithm | readings do not go back |
| calibration page (`Web/JS/calibration.js`) and its workers (`comm-worker.js`) | scenes and locked skeletons in the local storage, interval, canvases | handlers of clicks, messages, intervals, frames | HTTP endpoints | what is sent can be used; locking ends; canvases follow the scenes |
| viewing and ordering pages | the last scene; nothing | draw; one request | HTTP endpoints | |
| `JobsQueue`, `SkeletonsQueue`, `NTPClient` | | | created and never used, or not created | |
| three.js, jQuery, Bootstrap | | | vendored | |

### What is hard here

* Only the map of a scene and the vector of ordered scenes have locks. The list
  of clients, the sensors of a client, and order, links, stamp and matrices of a
  scene are read and written without one.
* Objects are deleted by one request while others hold pointers to them.
* The order of the scenes is a vector, a number in each scene, and two pointers
  in each scene. Deregistration updates the first only.
* Browser pages name scenes by a number they read earlier.
* An exception in a worker ends the process (boost.asio does not catch it and
  `io_service_pool` does not either); one in the UDP thread ends that thread.
* Answers travel through files: an endpoint writes its answer to a file, opens
  it again to send it, and erases it, on five threads at once.
* Requests arrive in pieces; datagrams are texts of another program.
* On the calibration page answers of workers, clicks, an interval and frames
  meet in shared fields and in a storage that outlives the page.

`PROJECT.json` lists the hazards one by one, at their lines, with the properties
that cover them or the reason why none does yet.

## 2. The modules

    SkeletonMap      the bounded map of a scene, as operators
      SceneMap       abstract: a map on which calls are atomic
      Scene          detailed: one scene, its callers and its refresh thread
        MCScene      for TLC
        SceneProofs  theorems
    ClientsList      the registry of clients
      Viewport       registry, sensors, order and UDP thread
        MCViewport   for TLC
        ViewportProofs  theorems, about ClientsList, too
        Calibration  Viewport with matrices and where the merge fails
          MCCalibration      for TLC
          CalibrationProofs  theorems (with ViewportProofs)
    Merge            the merge of the scenes of a complete order
      MCMerge        for TLC
      MergeProofs    theorems

    RequestParser    the parser, as a function of state and byte
      HttpRequest    reference: what a request is
    RequestHandler   routes, paths, headers, replies
      RequestProofs  theorems about the functions of these two
      HttpServer     connections, pool, files, signals (with the two above)
    UdpServer        the thread that receives datagrams
      Server         HttpServer and UdpServer as one process
        HttpProofs   theorems about both (with RequestProofs)
    JsonValue        jsoncpp's values
      JsonReader     jsoncpp's reader
        SensorData   skeletons, datagrams, listings as texts
          ServerTexts  Server with SensorData
            MCServer   scenarios for TLC

    CommWorker       the workers of a page
      CalibrationPage
        MCPage       for TLC
        PageProofs   theorems

    OperatorLemmas   facts on numbers, sequences and recursive functions
                     that several of the proofs rest on

### Scene

One `Scene` object. `kind` says which constructor built it: a *local* scene has
a refresh thread and belongs to a sensor, the *global* scene has none and holds
the merged view. Each action is one access to shared state. `Update`, for
instance, is `BeginUpdate` (reads the stamp, line 43), `CheckSize` (reads the
size, the second operand of the same `&&`), `Stamp` (44), `LockUpdate` (47),
`Erase` (49), `Insert` with the unlock (51-55): the test and stamp at its head
are outside the lock, so every interleaving of them with other threads is
explored. `Poll`, `Compare`, `LockClear`, `Schedule`, `ClearAll` are one turn of
the loop in `Clear`; `BeginDestruction` and `Join` are the destructor.

* Who calls what follows from the callers in the repository: the UDP thread
  updates local scenes (`Sensor.cpp:20`), workers update and clear the global
  one and remove from local ones (`MergeScenes`), workers copy both (`ToJSON`,
  `MergeScenes`).
* Time is abstract. `lapse` is what `GetTicks_ms() > nextLapse` would yield;
  `Elapse` lets a period pass. The refresh thread starts in the member
  initialisers, before `_refreshRate_ms` is assigned: a period it reads earlier
  is arbitrary (`Schedule`).
* A destructor may overtake callers; a freed scene takes no more steps. Whether
  a call can meet a freed scene is a matter of its owner, see Viewport.

`SceneMap` is what a scene promises: `Put`, `Take`, `Wipe`, `Copy` on a bounded
map, each in one step, `Put` only after `Observe`. The refinement mapping
(`content` in Scene) counts the insertion of an `Update` from its `Erase` on,
since nobody can take the lock between the two.

### ClientsList and Viewport

`ClientsList` is the list of client objects and the queue of ids, with the steps
of `AddClient` and `RemoveClient`. A client is named by its address, and
addresses of deleted objects are used again. A scene is named by client address
and sensor id. Viewport has the requests:

| request | actions | code |
|---|---|---|
| register a client | `BeginRegister`, `Generate`, `AddClient` | `MinorityViewportAlgo.cpp:18-25`, `ClientsList.cpp:19-28`, `49-72` |
| deregister | `BeginDeregister`, `FindClient`, `PurgeScenes`, `Delete`, `Erase` | `:52-87`, `ClientsList.cpp:30-47`, `Client.cpp:10-21` |
| register sensors | `BeginRegisterSensors`, `InitialSensorsList` | `:89-93`, `Client.cpp:94-115` |
| order the scenes | `RefreshScenesSet`, `GiveUpOrder` or `ResetOrdering`, `PushOrdered`, `LinkNeighbours` | `:100-186`, `:536-556` |
| a skeleton arrives | `FindSender`, `ExtractSensor`, `UpdateScene` | `:387-399`, `Client.cpp:117-123`, `Scene.cpp:43-45` |

`ByStamp` lists the pushes of the two nested loops at 141-156: for each stamp in
ascending order (one per scene, so equal stamps come twice), every scene with
that stamp, in the order of addresses, which is arbitrary.

What the erasing loop of a deregistration leaves of a vector (`Erased`), and the
stamps and scenes in their order, are given by `InOrder`: the member of a set
with n - 1 members before it is the n-th. The library's `SelectSeq` and `SortSeq`
say the same to TLC, and nothing to the provers.

*Faults.* A step with undefined behaviour (a null or freed pointer, a data race
on the list or on a map of sensors) sets `fault = "undefined"`; an exception
that leaves a worker sets `"terminated"`. Nothing happens and nothing is claimed
after either: the safety invariants speak of states with `Running`. In
particular `Race` marks as undefined every overlap of a change to the list of
clients with a reader of it. The code has no lock that excludes them, so these
invariants describe runs in which such overlaps do not happen; that they can is
listed as a hazard.

### Calibration

Viewport plus `calibrated` and `transform`. A pair of matrices is abstracted to
*whose* skeletons they were computed from and into which scene's coordinates
they lead; `Garbage` is the empty `Mat` of a new scene. `CalibrateScenes` is
lines 237-368 with the scenes a page names by their numbers: the matrices go to
the scene at the *place* given by the higher number. `MergeFails` is `MergeScenes` as far as it
can fail on order, links and matrices (`ChainBroken`: line 433; `LeftDangles`: 440-450);
when it does not, it changes nothing in this state.

### Merge

`MergeScenes` and the answer `GetGlobalScene` and `ToJSON` make of it. The
module takes an order for granted in which scene *i* is linked to scene *i - 1*
and has matrices that lead there, which is what `WholeOrderMerges` of Calibration
asks for; it uses the operations of a scene as atomic ones, as `ImplementsMap`
allows, through two instances of `SkeletonMap` (local scenes hold persons, the
global one holds what is shown). Each action is one access to a shared scene or
one turn of a loop over a copy:

| action | lines of `MinorityViewportAlgo.cpp` |
|---|---|
| `BeginMerge`: clear the global scene, skip what is not calibrated | 408-419 |
| `CopyCurrent`, with the random id all skeletons of the scene get | 425-426 |
| `CopyLeft` | 440, 450 |
| `ShowAlone`: first scene, or the left scene sees nobody | 440-462 |
| `RemoveLeft`, `ShowShared`: a match | 470-497 |
| `DropUnmatched`: no match | 476-499 |
| `NextPlace`, `Answer` | 417, 558-565 |

A skeleton is the person it shows; `Near` is the comparison at 484, which holds
of two views of one person and of two persons with a coordinate in common
(`Aligned`). A transformation is a word: the product of rotation matrices by
scene, and the translations, each with the product in front of it. `Combined` is
the loop at 428-436, `ToFirst` is what the comments in `Scene.h` make of it.
`since` is a history variable for the properties.

### RequestParser and HttpRequest

`Consume` is `request_parser::consume`, one state machine over bytes. It is
given as a graph: `Edges` says which class of bytes leads from which state to
which (the classes that leave a state are disjoint, as the tests in `consume`
are made one after the other), and `Store` what a step adds to the request. `MayFold` is the guard of
a folded header line. What the parser would do to `headers.back()` without a
header is the verdict `undefined`.

`HttpRequest` is no model of code. It says declaratively what the parser should
accept, by the lines of a whole text and the places in them: a line is a request line
if there are two blanks and a dot in it with tokens, text and digits where they belong
between these marks (`IsRequestLine`), a header if there is such a colon, a
continuation if blanks begin it; an empty line behind good ones ends the request
(`EndsRequest`). `SaidBy` says what method, uri, version and headers such a text
has: the bytes at certain places of it, in their order. `ParsedAsSent` compares the two,
for every connection and what it has read so far.

### RequestHandler and HttpServer

`RequestHandler` holds the pure part of `handle_request`: `UrlDecode`,
`RequestPath`, the endpoint a path names (`Route`), the file it is answered from
(`FileOf`), `HeaderValue`, when `std::stoi` converts, replies and mime types. A
file name is compared without regard to case as on the server's file system
(`FileOf`), so an alias of an endpoint reads and erases its file. A word of a text stands
for a run of letters, while `url_decode` looks at two characters. Hence `Spelled`:
letters up to two places behind a percent sign are symbols of their own (`G` for one
that is neither a digit nor `x`), which any text can be written with, and no escape of a request line stands for a letter, which
would have to become part of a word. Other escapes are decoded as in the code, those
of one digit, with a sign or a prefix included.

`HttpServer` has the steps. A connection belongs to one service of the pool
and each service to one thread, so a handler of a service runs to its end
before the next (`FreeThread`), while handlers of other services interleave
with its accesses to a file:

| action | code |
|---|---|
| `HandleAccept`, `AcceptFails` | `Server.cpp:44-63` |
| `HandleRead`, `ReadFails` | `Connection.cpp:43-70`, then `RequestHandler.cpp:13-51` |
| `Open` (empties the file), `Compute`, `Write` | `RequestHandler.cpp:51-208` |
| `OpenReply`, `ReadFile`, `Erase` | `RequestHandler.cpp:219-243` |
| `HandleWrite` | `Connection.cpp:72-85` |
| `HandleStop`, `ServiceExits` | `Server.cpp:65-68`, `IOServicePool.cpp:37-58` |

A part of an answer is named by the connection that wrote it. `alone` is a
history variable: no other request was handled for the same file meanwhile.

Whatever a call outside of the server does to the process (`OtherFails`: the
constructor of `Core`, the UDP thread) is a step of `HttpNext`. So each step of
`Server` is one of `HttpNext` or leaves the variables of `HttpServer` alone
(`ServerServesHttp`), and what is proved of `HttpServer` holds of the whole process.

### JsonValue, JsonReader, SensorData

Texts are sequences of characters and of words (`Words`), which stand for runs
of letters. `JsonReader` is `Reader::parse` by recursive descent, token by
token, with its leniencies; `DecodeNumber` has the threshold at which a number
becomes a double, for a `MaxInt` of the instance. `JsonValue` has what the
server calls: lookups that yield null, `operator[]` that inserts, conversions
that throw. `SensorData` reads a datagram (`ProcessSensorData`: each skeleton is
constructed, looked up and stored; `throws` and `undefined` end the loop) and a
sensor list, and prints skeletons, scenes and listings.

### UdpServer and Server

`Server` is the process: `Construct`, the two threads, the joins (`Return`), and
between them the registry, which requests change (`Registers`, `Deregisters`,
`RegistersSensors`) and datagrams are looked up in. The registry is abstracted
to ids of clients and sensors; Viewport has its steps. `ConstructFails` is an
exception in `Core`'s constructor, which is caught there: both threads start
with pointers that were never set. As in Viewport nothing is claimed after a
step with undefined behaviour or an exception in a worker.

What a datagram and a list of sensors come to are parameters of the two modules,
the operators `Processing` and `SensorsIn`. In `MCServer.cfg` they are
`ProcessSensorData` and `InitialSensorsList` of `SensorData`, so TLC checks the
process with its data; the theorems are about the process with any.
`ServerTexts` has what is said of the texts themselves.

### CommWorker and CalibrationPage

A browser runs one handler of a page at a time, so an action of `CalibrationPage`
is a whole handler. A worker posts answers (`SceneCallback`) until a stop that
was posted to it closes it; its messages wait in `mail`. A skeleton is its
number of joints; `scenes`, `lockingMode` and `lockedSkeletons` are the local
storage, of which the last survives `Load`.

| action | lines of `calibration.js` |
|---|---|
| `Load` | 22-68; it ends early (`broken`) if the server or its listing is not there |
| `RemoveCommWorker`, `SensorSelectionHandler` | 216-255 |
| `NetworkHandler` | 270-316 |
| `SkeletonRequiredHandler`, `LockBtnHandler` | 257-268, 318-351 |
| `AutomaticSceneLockingHandler` | 353-366, an interval of one millisecond |
| `CalibrateBtnHandler` | 368-408 |
| `ReconstructFn` | 412-445, each frame of a canvas |

`Spliced` is what JavaScript's `splice` leaves, for negative numbers and for a
text such as "2x" that `parseInt` accepts and arithmetic does not (`NaN`).

## 3. What is checked

| run | property | what it says |
|---|---|---|
| `scene` | `Exclusion` | a thread is in a locked region exactly while it holds the mutex |
| | `Bounded` | never more skeletons than the capacity |
| | `ObservedBeforeStored` | whoever finds a skeleton finds the stamp set |
| | `FirstObservationKept` | a local scene's stamp is written once |
| | `ImplementsMap` | Scene implements SceneMap |
| | `JoinReturns` | destruction ends |
| | `CallsReturn` | calls on a living scene end |
| | `StaleCleared` | a sensor's scene is emptied again and again, unless the first period is out of reach (see below) |
| `viewport` | `IdsUnique` | ids of registered clients are distinct, and distinct from those that wait for reuse |
| | `OrderedAlive` | order and set never name a deleted scene |
| | `OrderSorted` | the order is by first observation at all times, half built and after removals |
| | `AdjacentLinked` | consecutive numbers mean mutual neighbours, also after removals |
| | `OrderCovers` | an ordering request that answers true has placed every registered scene, once if no two stamps are equal |
| `viewport_live` | `RequestsEnd` | every request ends |
| `calibration` | `CalibratedHasNumber` | a calibrated scene has a number, also after failed ordering requests |
| | `WholeOrderMerges` | in an order of two or more scenes, complete and calibrated down to the second, the links lead to the first scene and no matrix is missing |
| `merge` | `NothingStale` | nobody is shown whom no sensor has seen since the request began |
| | `ShownOnce` | nobody is shown twice while no datagram arrives and no scene has an old entry of somebody |
| | `SharedSeenTwice` | who is marked as shared was seen by two sensors |
| | `LedToFirst` | what is shown is in the first scene's coordinates |
| | `MergesEnd` | a merge ends however fast the sensors send |
| `server` | `ParsedAsSent` | what was read is accepted exactly if it is a request, with the fields its lines say, however it was cut |
| | `PathAsEncoded` | an encoded uri, in either case of digits, is taken for the path it encodes, one that ends inside an escape is refused |
| | `OwnAnswer` | a request handled alone for its file is answered with all of its own answer and nothing else |
| | `NoLeftovers` | whatever the order of writes and erasures, nothing stays behind the last request for a file |
| | `LoadedAsSent` | a datagram loads the skeletons it says, up to the first from an unknown sensor |
| | `ReadsBack` | listings that are printed read back if the ids are clean, scenes exactly then |
| | `RequestsAnswered`, `ClientsAccepted` | whoever connects is accepted, whoever sends a request is answered |
| | `StopEndsHttp` | a signal ends the HTTP thread |
| `page` | `SentUsable` | as many complete skeletons of one scene as of the other, at most as many as required |
| | `OneTimer` | one interval, exactly while the button is on |
| | `LockingEnds` | locking ends when enough is locked |
| | `CanvasCleared` | the canvas of a scene that is gone is cleared |
| | `PageTypeOK` | also: leftovers of earlier frames never add up to twice the largest scene |
| `stale_order` | `BodyGetsItsTransform` | violated, see below |
| `transform` | `TransformLeadsToPrevious` | violated |
| `dangling_left` | `FirstSceneHasNoLeft` | violated |
| `merge_chain` | `LedToFirst` | violated with three scenes |
| `merge_aligned` | `SharedSeenTwice` | violated by persons in line |

The passing runs also check the type invariants. For each of their properties
the module that models the code holds a `Mutant:` operator, a plausible slip in
that code, and `PROJECT.json` records which property it breaks.

What three of them leave out:

* `StaleCleared` excludes a lapse that is out of reach. The refresh thread starts
  before the constructor stores the rate (`Scene.cpp:11,17`), and a period it computes
  before (81) may be any number: past, ahead, or so far ahead that nothing is cleared
  any more. `Schedule` has all three; no comment or test says what should happen in the last.
* `WholeOrderMerges` excludes an order of one scene. Nothing links it (`LinkNeighbours`
  has no pair), so its left pointer is what it was, and `MergeScenes` follows it
  once the scene is calibrated: that is what `dangling_left` shows.
* `ReadsBack` speaks of ids without quotes and without two backslashes that have less
  than two characters between them. The loop that doubles backslashes skips two
  characters behind each (`Behind`), so a second one among them stays single.

### Disagreements found

* `stale_order`: `MinorityViewportAlgo.cpp:349` says "Assign to the R and T to
  the B scene". TLC orders four scenes of two clients, removes the client that
  owns earlier ones, and calibrates two scenes of the other: the numbers in the
  scenes are no longer their places in the vector, and the matrices of one scene
  are stored in another.
* `transform`: `Scene.h:37` says the matrices lead "to the prev scene". A page
  may calibrate the first against the third scene, and a new order gives a scene
  another left neighbour and the matrices it had.
* `dangling_left`: `MinorityViewportAlgo.cpp:440-441` takes a null left pointer
  for the first scene. Two clients, an order, a calibration, and the client
  of the first scene leaves: the new first scene's left pointer is freed memory.

* `merge_chain`: the matrices lead to the previous scene (`Scene.h:37-38`), so a
  skeleton of the third scene must become `R2*(R3*x + T3) + T2`. The loop yields
  `R3*R2*x + T2 + T3`. For two scenes both are the same, hence `LedToFirst` in
  `merge`.
* `merge_aligned`: line 484 joins three comparisons with `||`. Two persons in line
  are "deemed the same human" (485); the left one is removed and shown nowhere.

Seen while modelling, and not the subject of a run:

* `calibration.js:414` says "Remove all skeletons previously inserted into
  scene". The loop removes children by index from the list it shortens, so every
  second one stays (`Remaining`); the old skeletons halve from frame to frame.
* `calibration.js:385` says "Only send required number of skeletons". With a
  required number such as "2x" locking never completes and all pairs are sent.
* An empty answer for one canvas takes both scenes (310-313), after which the
  calibrate button throws (377) until both are fetched again.
* `ConstructFails`: the constructor of `Core` catches what its servers throw,
  and `main` runs both threads with them.
* A second deregistration, a listing with a client that has no sensors, and a
  data request without a valid `Request-Type` are undefined behaviour.
* The UDP thread never ends unless an exception ends it, so `main` does not
  return on a signal while datagrams are well formed (`Return`).

### Bounds

* `scene`: two ids over capacity one is the smallest scene that has to refuse an
  id; two workers, the UDP thread and the refresh thread give every pair of
  operations two threads can overlap in; two clock readings tell a kept from a
  moved stamp. The liveness properties rule out symmetry, which keeps the
  instance this small; the theorems of `SceneProofs` are for every capacity,
  number of ids, skeletons and workers. The code's capacity is 3.
* `viewport`: three clients with one sensor each and three ticks: the order has a
  first, a middle and a last scene, ties of two and three are possible, ids and
  addresses are reused. `MaxTime` bounds the tick of an observation; a scene
  that would be seen later is simply not seen.
* `Workers = {w1}` in the safety runs: requests are served one at a time while
  the UDP thread interleaves with them. With two workers, two registrations draw
  the same id and an ordering request pushes scenes a deregistration has already
  purged, so none of them holds but the types: the list and the set have no lock.
* `viewport_live` has two workers and requests that overlap in every way, with
  one address for clients and one sensor: a request waits for nothing but its
  own steps, and what matters is what another request does in between.
* `calibration`: `NoTies` leaves equal stamps to `viewport`. The VIEW of
  `MCCalibration` drops whose matrices a scene has, which no guard and neither of
  the invariants reads. `stale_order` restricts the search to states on the way
  to an order of four scenes (`FourOrderedScenes`); a restriction can only hide
  violations, not invent one.
* `merge`: two scenes of two persons under two ids, so that a scene can see both,
  neither, or one of them under an old and a new id; two ids in the global scene,
  which may collide. One worker: two merges at a time clear and fill the same
  scene, and none of `NothingStale`, `SharedSeenTwice` and `ShownOnce` is true of them. No two
  persons are in line; `merge_aligned` is the other case. `merge_chain` needs a
  third scene, one person and one id. Which scenes are calibrated is chosen
  at the start (none, or those up to some place) and stays so during a merge.
* `server`: `MCScenarios` fixes what clients and sensors send; all else (reads,
  failures, threads, outcomes of calls) is open. One client sends a request with
  a folded and an empty header, cut at any place and again near its end, and every
  text one edit away from it; an encoded uri and all edits of it, escapes of two digits
  in either case, of one and of none among them; each way an endpoint can go,
  with a signal and one call that fails (`faults`); up to three clients at once
  for one file and through an alias of its name. Edits of a datagram go through
  every token of the JSON reader. `PoolSize = 3` gives the signals, the acceptor
  and the rest a service each and makes the round robin wrap; the code has five.
  `MaxConnections = 4` is three clients and the connection that waits.
  `MaxInt = 127` and `MaxShort = 15` stand for the 32 and 16 bit ranges: the
  ids in `Measurements` are at, below and above both, and at the threshold of
  `DecodeNumber`. Ids of sensors have an escaped quote, slash or backslash, or two
  backslashes with none, one, two or three characters between them (`Pairs`): two is the
  least at which both are doubled.
* `page`: two sensors, scenes of at most two skeletons, complete or not. A page
  is met with any selection of sensors, and `MaxClicks = 3` more clicks are
  enough to lock, require another number and calibrate, to lock again after a
  stop, or to select another sensor in between. `MaxWorkers = 3`: the two of the selection and one
  more. `MaxMail = 1` answer is under way at a time; with the scenes of the two
  canvases each in one field, answers that overlap differ from answers in
  sequence only in their order, which is free. `MaxPairs = Default = 2` stand
  for 35 (a message that would lock a third pair is not handled). `Foreground`
  has one canvas: the canvases are drawn alike and share nothing but the scenes.
* After a fault all states are alike, and the VIEWs identify them.

### Fairness

Threads the operating system runs keep running: weak fairness on the steps of
the callers, of the refresh thread and of a request in progress (`Continues` in
Viewport and Merge).
Beginning a call, a request or a destruction is never assumed. Acquiring
`_sceneMutex` has strong fairness: the project files build with Visual Studio
2012, whose `std::mutex` is the queueing critical section of the Concurrency
Runtime, so a thread waiting for it is served although the refresh thread takes
it again and again. `Elapse` is weakly fair as time passes. In `viewport_live`
deletion is a step that ends; `JoinReturns` is why that is so.

In `server` the pool as a whole is weakly fair (some thread goes on while any
has something to do): a connection takes finitely many steps, so this is
enough, and it is weaker than fairness of each thread. The kernel reports a
connection, bytes that arrived and a signal. Failures and the UDP thread are not
fair. In `page` the browser fires an interval that is set and draws the next
frame of a canvas that asked for one; clicks, answers and the delivery of messages are not fair.

## 4. What is proved

For every value of the constants, from the assumptions the modules name
(`MapAssumption`, `SceneAssumption`, `ClientsAssumption`, `ViewportAssumption`,
`MergeAssumption`, `PoolAssumption` and its neighbours, `WordsAssumption`,
`SpellingAssumption`, `PageAssumption`: finite sets, values that are not members of them, positive
readings and sizes, the endpoints' files among the documents). Some theorems ask
for more, by name:

* `Serial`: `Spec /\ []Serial => []P` is about the executions in which no two
  requests are in progress at a time, whatever the number of workers; which worker
  takes the next request is open, and datagrams and the UDP thread
  interleave with each step of a request all the same. The code has five workers and
  no lock on the list, the set or the global scene. With two requests at a time TLC
  finds `IdsUnique`, `OrderedAlive`, `OrderSorted`, `AdjacentLinked`,
  `OrderCovers`, `NothingStale`, `SharedSeenTwice` and `ShownOnce` violated, so this
  is where the boundary lies and not a convenience. Of `CalibratedHasNumber` and
  `WholeOrderMerges` it found no violation among some millions of states of two
  clients; their proofs rest on invariants that two overlapping requests break. Type
  correctness, `MovedAlongLinks` and everything about HTTP, the page and single
  scenes is proved without it.
* `Apart`: no two persons are in line, without which `merge_aligned` refutes
  `SharedSeenTwice`.
* `N = 2`, of `ShownOnceHolds` alone: with three scenes `ShownOnce` is false. If a
  sensor in the middle sees nobody, the scenes to its left and right are never
  compared, and the person both see is shown twice. What holds for any number is
  `NeighboursOnce`.

| module | theorem | statement |
|---|---|---|
| `SceneProofs` | `TypeCorrect` | `Spec => []TypeOK` |
| | `MutualExclusion` | `Spec => []Exclusion` |
| | `NothingStoredUnobserved` | `Spec => []ObservedBeforeStored` |
| | `NeverOverCapacity` | `Spec => []Bounded` |
| | `FirstObservationFixed` | `Spec => FirstObservationKept` |
| | `SceneImplementsMap` | `Spec => ImplementsMap` |
| `ViewportProofs` | `ViewportTypeCorrect` | `Spec => []TypeOK` |
| | `IdsUniqueHolds` | `Spec /\ []Serial => []IdsUnique` |
| | `OrderedAliveHolds` | `Spec /\ []Serial => []OrderedAlive` |
| | `OrderSortedHolds` | `Spec /\ []Serial => []OrderSorted` |
| | `AdjacentLinkedHolds` | `Spec /\ []Serial => []AdjacentLinked` |
| | `OrderCoversHolds` | `Spec /\ []Serial => OrderCovers` |
| | `NeverDeletedHolds` | no request uses what another deleted, if `[]Serial` |
| `CalibrationProofs` | `CalibrationTypeCorrect` | `CalibrationSpec => []CalibrationTypeOK` |
| | `CalibratedHasNumberHolds` | `CalibrationSpec /\ []Serial => []CalibratedHasNumber` |
| | `WholeOrderMergesHolds` | `CalibrationSpec /\ []Serial => []WholeOrderMerges` |
| `MergeProofs` | `MergeTypeCorrect` | `Spec => []TypeOK` |
| | `NothingStaleHolds` | `Spec /\ []Serial => []NothingStale` |
| | `SharedSeenTwiceHolds` | `Spec /\ []Serial => []SharedSeenTwice`, `Apart` |
| | `NeighboursOnce` | nobody is shown twice by one scene or by two neighbours, if `[]Serial` and `Apart` |
| | `ShownOnceHolds` | `Spec /\ []Serial => []ShownOnce`, `Apart`, two scenes |
| | `MovedAlongLinksHolds` | `Spec => []MovedAlongLinks`: what is shown is moved by `Combined` of its place, which is `ToFirst` for the first two places and is not for the third |
| `RequestProofs` | `ParseTyped` | whatever is read, the parser is in a state with a defined verdict |
| | `PathAbsolute` | a request is refused or its path is absolute and has no `..` |
| | `ParsesRequests` | the parser accepts exactly the texts that begin with a request's lines, and reads what these say |
| `HttpProofs` | `HttpTypeCorrect` | `HttpSpec => []HttpTypeOK` |
| | `AnswersOwn` | `HttpSpec => []OwnAnswer` |
| | `NothingLeft` | `HttpSpec => []NoLeftovers` |
| | `RequestsParsed` | `HttpSpec => []ParsedAsSent` |
| | `UrisDecoded` | `HttpSpec => []PathAsEncoded` |
| | `RepliesSettled` | no step changes a reply that is being sent or was |
| | `ParsersDefined` | no connection's parser touches a header there is not |
| | `DocumentsKept` | no step changes a document that is no file of JSON |
| | `HandlersApart` | handlers of one service never overlap, and none outlives its thread |
| | `ServerServesHttp` | `Spec => HttpSpec`, of Server |
| | `ServerTypeCorrect` | `Spec => []TypeOK`, of Server |
| | `ServerAnswers` | `ParsedAsSent`, `PathAsEncoded`, `OwnAnswer` and `NoLeftovers` of the process |
| | `ReturnsIdle` | when main returns the UDP thread has ended and no handler runs |
| | `LossesNamed` | once constructed, the pool loses the process only in a call of the viewport, for one of six reasons |
| `PageProofs` | `PageTypeCorrect` | `Spec => []PageTypeOK` |
| | `CalibrationInputUsable` | `Spec => []SentUsable` |
| | `AtMostOneInterval` | `Spec => []OneTimer` |

### One scene

The argument is one inductive invariant, `IInv`. `ObservedBeforeStored` alone is
not inductive: a state in which a thread waits for the lock with the stamp still
unset satisfies it, and the insertion that follows does not. `StampedFirst` adds
what the unlocked test guarantees, that a thread past it has seen or written a
stamp or, through the size it read, a skeleton, and then by
`ObservedBeforeStored` itself a stamp. So the two hold only together.
`FirstObservationKept` needs `OneUpdater`: a local scene is updated by the UDP
thread alone, and between its test and its stamp nobody else stamps. It is not
claimed of the global scene, where two workers may both find it empty and both
stamp. `Bounded` has its own induction over the size of a map
(`WithoutWithinCapacity`, `WithWithinCapacity`). `SceneImplementsMap` shows that
the initial states map to the initial state of SceneMap and each step to one of
its steps or to a stutter (`StepMaps`): an `Erase` to the whole `Put`,
the `Insert` to nothing.

### Registry, order and calibration

`ViewportInv` has three parts, each proved with the ones before it.

* `TypeInv` adds `HoldsId` to the types: an id drawn for a client is one.
* `ListInv`: between the steps of a request, ids drawn or given back are nobody's,
  the pointer it holds is the client `At` would find, and the client whose object
  is deleted but not erased yet is the only one in the list without an object.
  `IdsUnique` says nothing of such moments and is not inductive without them.
* `OrderInv` speaks of the vector and of what is left to push. `AliveInv`: order
  and set hold scenes of allocated clients, and none of a client about to be
  deleted. `SortedInv`: what is to be pushed continues what was. `CoverInv`: the
  two together are the registered scenes. `LinkInv`: during the loops, a number is
  the last place of its scene (with equal stamps a scene has several), and afterwards scenes
  with consecutive numbers are linked to each other. It cannot say that a number is a
  *place*: after a deregistration it is not (`stale_order`). What a
  deregistration keeps is that the order is a thinned form of what it was
  (`Thinned`), and the links between consecutive numbers with it.

That the loops push all stamps in ascending order rests on `ByStampLists`, that
`ByStamp` is a `Stamped` listing of its set, which rests on the lemmas about
`InOrder`: a finite set in a strict linear order has an n-th member
for each n up to its size.

`CalibrationInv` adds `NumberInv` (scenes of an order have numbers, and the lowest
one has no left neighbour) and `CalibratedInv` (so has any calibrated scene, in
the order or not). TLC checks the two properties without equal stamps
(`NoTies`), the proofs hold with them.

### Merge

`TypeInv` says what a request has in hand at each of its steps (`Along`), such as
a copied skeleton under the key it is at. `NothingStale` follows from
`Sourced`: what scenes store, what was copied from them and what was put into the
global scene was seen since the request began. `SharedSeenTwice` adds `Matched`. `Disjoint`,
for `NeighboursOnce`, is what makes a merge from right to left show nobody twice: whom a scene's part has shown
the scene to its left no longer stores, since matches are removed there, so the
next part will not come across him; and all entries of a part have one id, so each
overwrites the one before. `MovedAlongLinks` rests on `MovedByPlace`, which is inductive: what is shown, in
the global scene and in all answers, was moved by the product for its place. What that
product is takes no induction for the first three places: `FoldNone`, `FoldOne` and
`FoldTwo` unfold it, and the third begins with another rotation than what leads to the
first scene (`ThirdAstray`). `LedToFirst` is thus true of two scenes and false of more.

### Requests, connections and files

`Consume` and `UrlDecode` are applied along a text by recursive functions.
tlapm knows nothing of what such a function does until it is shown that one
exists: `Recursion` of OperatorLemmas turns a definition by recursion into the equation it
states, and `Least` gives the induction that the proofs need, as the least place
at which a claim would fail. The library's induction theorems, which take the claim as a
parameter, are not needed then. `ParseTyped` and the theorem on paths are such
inductions, with an invariant of the graph of the parser (`Sound`: an edge into
a state in which `headers.back()` is used comes from one that has a header).

`ParsesRequests` is the longest proof here. The parser has seen the bytes of a part of a
text, and the reference speaks of the lines of all of it, so the proof needs to say what a
state of the parser means for a text that is not finished:

* A line is described by the places of its marks: `FirstLine(t, u, v, d, e)` by
  the two blanks, the dot and the end. `FirstState` says in which state the parser is between which
  of them, `LaterState` the same of a header or a continuation. A mark behind
  what was read is a choice still open; `FirstDetermined` and `FirstRemarked`
  say that nothing depends on it.
* `Knows(p, t)` is the invariant: a parser that wants more has read the first line up to
  some place between its marks, or good lines and a part of the next, or the
  first byte of the end; and its request is what the places read so far say
  (`FirstSaid`, `HeadersSaid`). A parser that is done has read a request, maybe
  with something behind it, and one that refused has read what no request begins with.
* `FeedKnows` is its step. `GoesEdge` and `EdgeGoes` reduce the graph to one
  table of what a byte does in each state, `FirstGoes` and its like compare
  that table to the lines, and the `More` lemmas say how the places of names, values
  and headers change by one byte.
* `Pieces` says that what was sent in pieces, put together, grows by a piece at a time:
  how a text is cut into reads makes no difference. `Parsed` of `HttpProofs`
  says `Knows` of each connection.

`UrisDecoded` goes through a uri from its end. `DecodingSolved` is the
recursion; `DecodesWell` shows of each place that is not a digit of an escape
that what is decoded from there on are the places behind it that are not, in their
order (`Lists`), each with what it says; that is `Encoded`. If a uri ends inside an escape, decoding
fails there, and so does decoding from any place before it (`CutFails`).
That the answer is 400 is an invariant of its own, `PathlessRefused`, and
it needs `NextSettles`: no step takes a reply back.

`IInv` of `HttpProofs` says what the phase of a connection implies of its record
(`Consistent`), that documents other than JSON are what they were (`PlainKept`), and
`OnItsOwn`: a connection that is alone with its file finds there what it put
there, as far as it has got (`Progress`). `OwnAnswer` then is inductive, and
`NoLeftovers` with it: a file that is not empty has a handler that will read or
erase it. The theorems hold for any pool, number of connections, documents and
scenarios, thus also for what TLC tries: failures, signals and aliases of a file.

`Scheduled` is the promise of the pool: one handler per service, none on a
service that has exited. `FreeThread` guards only the steps that begin a handler
or end a thread; that this is enough is `NextSchedules`. The phases of a handler
may thus be read as its program counter.

The process is `Server`. `ServerSteps` maps each of its steps: a call of the viewport
is one of the outcomes `HttpServer` allows it (`CallsCompute`), the failures of the
constructor and of the UDP thread are `OtherFails`, and the rest is a step of the
pool or leaves it alone. So `ServerAnswers` follows without a second induction.
`ReturnsIdle` adds what the joins wait for (`JoinsDone`) to `Scheduled`. `LossesNamed`
goes through every action that writes `process`: parsing never does (the verdict
`undefined` is excluded by `IInv`), and of the calls those remain that `Loses`
lists: a header that holds no number, an id nobody has, a list of sensors that is
no list, a client without sensors in a listing, a scene that was not asked for,
and calibrating, whose own module says when. (What a datagram does to the process is
in `udp`, not in `process`.) The registry in these theorems is
that of a process in which deregistration is one step; Viewport has it in several.

### The page

`Typed` has a mailbox for each worker; `Started` says that who has posted was
started; `PairsLocked` that the storage holds whole skeletons in pairs or nothing,
whatever page put them there, from which `SentUsable` follows; `DrawnBounded` that
the leftovers of frames stay below twice the largest scene, for any size of it.

### Only model-checked, and why

* Liveness (`JoinReturns`, `CallsReturn`, `StaleCleared`, `RequestsEnd`, `MergesEnd`,
  `RequestsAnswered`, `ClientsAccepted`, `StopEndsHttp`, `LockingEnds`,
  `CanvasCleared`): fairness and ENABLED are out of the proof system's reach.
* `LoadedAsSent` and `ReadsBack`: `JsonReader` and `SensorData` are recursive
  operators, which the provers do not take. This is why `Server` has what they
  compute as parameters, of which its theorems assume nothing.
* `LedToFirst` with two scenes, of which `MovedAlongLinks` says more.
* The properties under `Disagreements found` are false.

## 5. Not modelled, and the plan

* The linear algebra of OpenCV, and `Skeleton`'s conversions to and from
  matrices: `Calibration` and `Merge` abstract them.
* jsoncpp's writer, its comments beyond skipping them, `Path`, iterators and
  internal containers: the server calls none of them.
* `Timer::Pause` and `Reset` have no caller. The ticks are a sum of a Windows
  time in a 32 bit `long`; models take readings that do not overflow.
* The viewing page keeps the last scene of one worker and draws it, the ordering
  page makes one synchronous request; what they share with the calibration page
  (worker, frames) is modelled there. Tables, buttons and meshes are presentation.
* `JobsQueue`, `SkeletonsQueue` and `NTPClient` have no live caller.
* three.js, jQuery, Bootstrap, and boost.asio beyond its promise that a handler
  runs on a thread of its service.

What could be proved and is not:

1. `RegisterSensors`, orders and links for scenes no request holds: which of
   `OrderedAlive` and `OrderSorted` survive overlapping requests as long as no
   deregistration is one of them.
2. What the product for a place is beyond the third: that what is shown from place *i* is
   moved by `Combined(i)` is proved for every *i* (`MovedAlongLinks`), that this never leads
   to the first scene from the third place on would need an induction over the fold.
3. That the numbers of scenes change only while an order is computed.
