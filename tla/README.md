# Aircraft fuel monitoring: specification, model checking, proofs

A client on board an aircraft reports fuel readings over TCP to a ground server
and then fetches a large dataset. This directory holds a TLA+ model of both
programs, the TLC configurations that check it, and TLAPS proofs about the
server, the client, the system of both, the log and the packets. Sources are
those under `src/Aircraft-Fuel-Monitoring-System/`.

## 1. The system

| component | state it keeps | operations | talks to |
|---|---|---|---|
| server, main thread (`Server/Server.cpp`, `main_server.cpp`) | `listenSocket_`, Winsock | `initializeWinsock`, `startServer`, `runAcceptLoop`, `cleanup` | network; starts one detached thread per connection |
| server, connection handler (`handleClient` and what it calls) | its socket, its `StateMachine`, the header and payload being read, the reply being sent | `authenticateClient`, the packet loop, `sendLargeDataset`, `checkFuelAlert`, `sendAll`, `recvAll` | its client, the log |
| `Server/StateMachine.h` | `current_` | `transition`, which logs, assigns or throws; `isValid` | the log; an exception ends the process |
| client (`Client/Client.cpp`, `main_client.cpp`) | `clientSocket_`, `reconnectAttempts_`, Winsock, the iteration of `main` | `connectToServer`, `authenticate`, `sendDataPacket`, `requestAndReceiveLargeDataset`, `cleanup` | server, its own log |
| `Shared/DataPacket.h` | header, telemetry, extension data | `setExtensionData`, `serialize`, `deserialize`, copying | |
| `Shared/Logger.h` | one CSV file per process, one mutex | `logEvent`, `logPacket`, `logError`, `logStateTransition` | file system |

`Server/Packet.h` (listed in a project file, included by nothing) and the empty
`main.cpp` of the solution have no behaviour in the programs.

What is hard here:

* **Interleaving and blocking.** Every handler, the accepting thread and every
  client run concurrently; `send` and `recv` block on bounded buffers, move any
  number of bytes, and can fail at each turn of their loops.
* **Framing.** Nothing but `payloadSize` separates packets. A payload left in
  the stream shifts everything behind it.
* **Failure in the middle.** A link may fail, a client may be killed, `accept`
  may fail and end the process with all its handlers. Results of `sendAll`
  and `recvAll` are ignored in three places (`Server.cpp:92`, `128`, `161`).
* **Retry.** A failed send runs through `cleanup`, a new socket, a new login
  and a second sending of the same packet.
* **One log for all threads.** Every row opens, writes and closes the file
  under a mutex; the stream writes out when it likes, at the latest in a
  destructor. The process may end between two writes of one row.
* **Memory and sizes.** `DataPacket` owns a raw pointer and is copied, filled
  and read again; its block and its `payloadSize` are set at different places,
  and sizes change their width (`size_t`, `uint32_t`, `int`) on their way.
* **A throwing state machine.** A wrong transition in one detached thread would
  end the server for all aircraft.

What makes each component correct: the server serves only peers that presented
the token, logs exactly the readings sent and an alert with each low one, sends
replies a client can follow, never throws, and reclaims socket and thread
whatever the peer does. The client reports only where it was accepted, records
what became of each packet, believes only complete datasets, neither leaks nor
shares sockets, and ends. The log keeps rows whole, in the order of each
thread's calls, with its header where the runtime's `tellp` is 0. A packet arrives as it was sent, and its
memory has one owner. Together: both sides agree on the login, the dataset
acknowledges the flight, and a retry logs nothing twice. The hazards behind
these are listed line by line in `PROJECT.json`.

## 2. The modules

Indented modules extend the one above them.

```
Selections   the rows of one kind in a log (used by Client, Server, Logger)

Packets      what travels: cells, packets, deserialize
  Network    connections, as Winsock shows them        (external)
    NetworkProofs    lemmas for both programs: connections, frames and their cells
    Client           the client process
      OpenClient       ... with an arbitrary server    MCOpenClient
      ClientProofs     what holds of the client in any environment
        OpenClientProofs   types, sockets, records, and what it believes
    Server           the server process (with StateMachine)
      OpenServer       ... with arbitrary peers        MCOpenServer (with StateMachineTests)
      ServerProofs     what holds of the server in any environment, and of a
                       connection's frames, log and replies
        OpenServerProofs   types, alerts, access, what it logs and replies
    FuelSystem       Client and Server on one Network; implements Flight
      FuelSystemProofs   both programs together (extends ServerProofs, ClientProofs)

AppendLog    what a log promises
Logger       the log file and its threads; implements AppendLog
  LoggerProofs

DataPacket   the packet objects and their memory
  PacketStream       ... sent and received             MCPacketStream
    PacketProofs
```

**Selections.** Logs and histories are compared by the rows of one kind in them
(`Selected(s, I)`: the elements at the places in `I`, in order). It is the
`SelectSeq` of a log, without recursion, so that theorems can speak of it.

**Packets.** The unit on a connection is a *cell*: a whole `PacketHeader`, the
`TelemetryData` struct, or one other piece of a payload. `payloadSize` counts
cells. A payload still needs several calls of `send` and `recv`; a header read
where other bytes are due reads an arbitrary type and a size from
`GarbageSizes` (`HeadersIn`). `recvLength` is what becomes of a size on its way
into `recvAll`, whose length is an `int`: above `INT_MAX` it is negative, nothing
is read and the call succeeds. Every read of a payload in both programs goes
through it. `DeserializedFuel` keeps what `deserialize` does with a payload
shorter than the struct, or not read: it succeeds and leaves zeros.

**Network.** External: derived from the calls the two programs make. One record
per connection: `link`, the cells under way in both directions (at most
`Capacity` each), and whether each end has called `closesocket`. A send towards
a closed end is accepted and thrown away, or answered by a reset. Closing
with unread data resets. `recv` reports the end of a stream only after what is
under way. Each identifier in `Conns` is used for one connection, as a new
socket is; when all have been used `connect` is simply no longer tried, so
`Conns` bounds the number of connections.

**Server.** `mpc` is the main thread. `thread[c]` is the handler of connection
`c`: a place (`pc`), `sm` for `StateMachine::current_`, `hdr` and `buf` for the
packet being read, `out` for what `sendAll` has left, `authOK`, and the rows it
has logged. One action is one system call or one row of the log, with the local
computation behind it; recvAll and sendAll take one action per turn of their
loops. `Transition` is `StateMachine::transition`: an invalid one is the end of
the process (`mpc = "terminated"`), which TLC and the proofs show unreachable.
`Cleanup` and `Return` are the end of the process after a failed `accept`; the
handlers run on between the two, on sockets that are gone, and stop wherever
they are at the second. `StateMachineTests` evaluates the repository's own tests
of the state machine on `isValid` whenever `MCOpenServer` is checked.

**Client.** `proc[p]` is one client process: the place of `main`, the socket,
`reconnectAttempts_`, the count of `WSAStartup` minus `WSACleanup`, whether
`main` is in the branch of a failed send, and the rest of the locals. The
count matters: `cleanup()` calls `WSACleanup`, and `socket()` then fails unless
the process holds another `WSAStartup`. `OtherWsaRefs` says how many it holds:
0 is `main_client.exe`; with 2 the branch that reconnects and sends again
can be reached at all, as it would be in a program that embeds `Client`.
`CleanupAndReconnect`, `NoSocket`, `Resend` show what each does. An attempt of
`connectToServer` is `ClosePrevious`, if there is a socket, and then one of
`NoSocket`, `ConnectSucceeds`, `ConnectFails`. `sockets` counts what `socket()` has
returned and `closesocket` has not been given, so that a socket left behind by an
attempt that failed is seen although no connection belongs to it.

**OpenServer, OpenClient.** Each program with an environment that may send any
frame of `Frames`, read, close or stop at any time. They reach the branches the
other program of this repository never provokes. Histories (`sent`, `got`,
`replied`) record what was exchanged; no action of the programs reads them.

**FuelSystem, Flight.** `FuelSystem` is both programs on one network; `user`
records which client opened a connection, for the properties only. `Flight` is
what the two promise without connections, logins and threads: readings are
recorded by the aircraft and logged by the ground in the order of the flight,
the ground at most one ahead and possibly long after the aircraft has gone, and
the flight is confirmed only when all of them are logged. The instance `Flights`
maps the client's SEND rows to `recorded`, its handler's RECEIVE rows to
`logged`, the dataset to `confirmed`. The map holds for `OtherWsaRefs = 0`,
where a flight has one connection.

**Logger, AppendLog.** The threads of one process, `mutex`, the file, and of
each thread the call under way: its place, what `tellp` said (`pos`), the
stream's buffer (`out`). A row is two pieces, so that it can be written out in
two writes; `Restart` ends the process with its threads wherever they are and
starts it again on the file it left. `runtime` is what `tellp` says of a file
just opened with `ios::app`, which the C++ standard leaves to the
implementation: the end of the file, or 0 until the first write. `ends` and
`cuts` are histories. The two programs' modules keep the rows of each writer;
that these are in the file whole and in order is what `Logger` adds. `AppendLog`
is the abstract log: a row asked for is appended at one moment, or dropped, or
lost with the process. A row counts as appended when its second piece is in the
file (`CompleteRows`), and a call as being where `PhaseOf` says.

**DataPacket, PacketStream.** `object` holds the packets that exist, `heap` the
blocks `new char[n]` has returned. Each member function is an action: the
constructors, assignment, destructor, `setExtensionData`, `deserialize` (into a
used packet too, from a buffer cut anywhere); `serialize` is an operator.
Memory is counted in cells. `payloadSize` is unsigned with the largest value
`2 * INT_MAX + 1`; `uint32` and `int32` are the conversions the code makes.
`PacketStream` sends packets from one object to another as `sendDataPacket` and
`handleClient` do, with the lengths of `sendAll` and `recvAll` as wide as `int`:
a length that is not positive sends or reads nothing and succeeds. `state`,
`due` and `beyond` are histories.

Operators whose comment begins with *Faulty* are mistakes somebody could make in
the code (a dropped drain, `<=` for `<`, a forgotten `closesocket`, no
`lock_guard`). No specification uses them: each stands for the definition below
it when one wants to see that a property notices the mistake (`mutants` in
`PROJECT.json`).

## 3. The runs

`tlc -config <cfg> <module>`. Deadlock is checked everywhere: a module's
stuttering step is allowed only where nothing is left to do, so a state in which
a thread or process waits for something that cannot come is reported.

| cfg | module | question |
|---|---|---|
| `OpenServerAll` | MCOpenServer | Against a login and any packet behind it, well formed or as no client of the repository sends it (a request with a payload, bare telemetry, payloads too long for `recvAll`), and every fault: do state machine, socket and buffers fit the handler's place, and is no transition refused? |
| `OpenServerSession` | MCOpenServer | In sessions of up to four frames of eight kinds through one-cell buffers, with every fault: does a handler serve only after the token, log only what was sent and all of it, alert where it should, frame its replies, and end with its connection? |
| `OpenClientAll` | MCOpenClient | What does `main_client.exe` record, when does it report, which datasets does it believe, and does it make all its attempts before it gives up, against any three of eight kinds of reply and every fault? |
| `OpenClientReconnect` | MCOpenClient | With reconnects that work: are sockets leaked (by attempts that fail, too) or shared, and does the client end once its server has gone? |
| `FuelSystemReliable` | FuelSystem | Two aircraft, nothing failing: is every flight logged in full, with its alerts, and acknowledged? |
| `FuelSystemOneClient` | FuelSystem | One aircraft and every fault: do both sides agree on the login, does the dataset acknowledge the flight, does the client end, do the programs implement `Flight`? |
| `FuelSystemReconnect` | FuelSystem | With reconnects that work, is a reading logged twice? |
| `LoggerThreads` | Logger | Three threads, a file that may not open, a restart anywhere: are rows whole and in order, does the header stand where the runtime's `tellp` puts it, does every call return, is it an append-only log? |
| `PacketStream` | MCPacketStream | Two packets used in any order and sent with sizes around the limits of `int` and `uint32_t`: one owner per block, no read beyond one, and what arrives is what was sent? |
| `OpenClientRetries`, `FuelSystemFlight`, `LoggerHeader` | | The disagreements of section 5: each finds its property violated. |

Bounds, and why they are enough:

* `Conns`: one handler in `OpenServer*` (handlers share only the process and
  its end, and the log's file), two where reconnecting or two aircraft matter.
* `Capacity` 1 or 2 cells: smaller than every packet, so senders block.
* `MaxFrames` 3 or 4: a login and two or three packets, which already puts an
  unknown packet, a request or a repeated login between two readings. 2 in
  `OpenServerAll`: a payload that is not read is itself taken for headers, any of
  which may follow.
* `DatasetSize` 1 or 2: with the header, more than fits the buffer.
* Fuel levels 0 to 3 and the threshold 2: below it, at it, above it.
* `NumPackets` 1 to 3, `MAX_RECONNECT_ATTEMPTS` 1 or 3 (the code's value in the
  runs that do not need the reconnect itself), `MaxListens` 1 or 2: a server that
  comes up late, stops and comes back.
* `INT_MAX` 3 and payloads of 4 cells where sizes beyond an `int` matter
  (`OpenServerAll`, `OpenClientAll`): one more than fits, with all of
  its cells really on the connection.
* `GarbageSizes` {0, 1}, with 4 in `OpenServerAll` and `OpenClientAll`: misread bytes
  announce no payload, one, or one too long.
* `Faults` ("startup", "accept", "break") and `ClientFaults` ("startup",
  "connect", "crash") name the calls that may fail besides what the state of the
  network makes fail; a link breaks at any moment under "break" and always may
  in `OpenClient`.
* `Logger`: three threads (one writes, one waits, one is elsewhere), two calls
  each, one restart, both runtimes.
* `PacketStream`: two places and two blocks (each operation involves two packets
  at most), interchangeable; `INT_MAX` 3 and hence payload sizes up to 7.
  `Sizes` 0, 1, 2 and 7: nothing, a packet that fits an `int`, one whose payload
  fits and whose length with its header does not, one that wraps `payloadSize` to 0.
  `PeerSizes` 3 and 4: the largest `int` and one more. At most `MaxDue` = 2
  packets are under way. After a size that does not fit nothing more is sent:
  framing is gone by then, and `Delivered` and `InStep` promise nothing.

Assumption to keep in mind: in `OpenServerSession` data requests are bare headers, as the
client sends them. The handler does not read a request's payload; with one,
`AllReceivedLogged` fails (the bytes are taken for the next header).

**Fairness.** Weak fairness of each handler's next step, of the server's main
thread and of each client's next step: these are threads and processes that the
operating system schedules, and their blocking calls return once the condition
they wait for holds. A failed link is visible to both ends. Nothing is assumed
of peers, of the network's faults or of which program comes up first; a step
that merely may happen (a break, a crash, a failing accept) is never forced.
`HandlerEnds` and `EndsWithoutServer` hold with silent peers, because they
speak of connections that have ended; a peer that is connected and silent keeps
its handler, and no document of the repository says otherwise. In `Logger` each
thread's steps inside a call are weakly fair. The mutex is not: that every call
returns all the same is due to `MaxCalls`, since the other threads cannot take
the mutex for ever; for unbounded callers it would be the mutex's promise.

## 4. What is proved

`tlapm <module>` for each of the modules below: for every value of the
constants (connections, frames, capacity, sizes, token, threshold, faults,
clients, threads, packets), from the assumptions named in the modules
(`PacketsAssumption`, `ServerAssumption`, `ClientAssumption` and so on), which
TLC evaluates on each instance. `NobodyAssumption` of `FuelSystem` says that the
mark of an unused connection in the history `user` is not a client.

| module | theorem | says |
|---|---|---|
| OpenServerProofs | `OpenServerInvariant` | `OpenServerInv` is an invariant of `OpenServer` |
| | `ServerTypeCorrect` | `TypeOK` |
| | `ServerNeverThrows` | `NoInvalidTransition`: no handler's transition is refused |
| | `HandlersAlwaysFit` | `HandlersFit` |
| | `AlertsFollowReadings` | `AlertFollowsReading` |
| | `AccessControlled` | `ServedOnlyAfterToken` |
| | `ReadingsLoggedFaithfully` | `ReceivedFaithful`, if `AsClientsSend` |
| | `NothingLeftUnlogged` | `AllReceivedLogged`, if `AsClientsSend` |
| | `RepliesCanBeFollowed` | `RepliesWellFramed`, if `AsClientsSend` |
| OpenClientProofs | `OpenClientInvariant` | `OpenClientInv` is an invariant of `OpenClient` |
| | `ClientTypeCorrect` | `TypeOK` |
| | `SocketsOwned` | `SocketOwned` |
| | `FlightAlwaysRecorded` | `FlightRecorded` |
| | `RetriesBeforeGivingUp` | `GivesUpAfterRetries`, whatever `OtherWsaRefs` |
| | `SendsAfterAcceptance` | `SendsOnlyWhenAccepted`, if `OtherWsaRefs = 0` |
| | `DatasetsAreComplete` | `DatasetComplete`, if `OtherWsaRefs = 0` |
| FuelSystemProofs | `SystemInvariant` | `SystemInv` is an invariant of `FuelSystem` |
| | `SystemTypeCorrect` | `TypeOK` |
| | `ProgramsKeepTheirPromises` | `NoInvalidTransition`, `HandlersFit`, `SocketOwned` |
| | `AuthenticationAgreed` | `AgreedOnAuthentication`, if `OtherWsaRefs = 0` |
| | `RetriesLogOnce` | `LoggedAtMostOnce`, whatever `OtherWsaRefs` |
| | `DatasetAcknowledges` | `DatasetMeansLogged`, if `OtherWsaRefs = 0` |
| | `ImplementsFlight` | every step of `FuelSystem` is a step of `Flight` or none, if `OtherWsaRefs = 0` |
| LoggerProofs | `LoggerTypes`, `RowsAreWhole` | `TypeOK`, `RowsWhole` |
| | `ImplementsAppendLog` | every step of `Logger` is a step of `AppendLog` or none |
| | `RowsInOrder` | `RowsInCallOrder`, by the refinement |
| | `HeaderPlaces` | `HeadersByRuntime`, for both runtimes |
| PacketProofs | `MemoryHasOneOwner`, `ReadersStayInside` | `OwnedOnce`, `ExtensionFits` |
| | `PacketTypesCorrect` | `TypeOK` |
| | `PacketsAreDelivered`, `StreamStaysInStep` | `Delivered`, `InStep` |

Two hypotheses stand in theorems, not in modules. `AsClientsSend` says of
`Frames` what the repository's own client does: a data request is a bare header,
a telemetry packet has a payload, and sizes fit an `int`. `WellFormedFrames` of
`MCOpenServer` satisfies it, `OddFrames` does not. A request with a
payload, or a payload of 2^31 bytes or more, leaves that payload in the stream, where it is
taken for the next headers, and a bare telemetry header is logged as a reading
of 0: the properties are then false of the code. What still holds is what
`OpenServerAll` checks, alerts and access; these theorems have no such hypothesis. `OtherWsaRefs = 0` is
`main_client.exe`. In a program that embeds `Client` and can reconnect, a
refused login is only the end of that iteration (`main_client.cpp:71-72`): the
next packet goes over the connection that refused it, and the three properties about
what follows a login are then false. The theorems on `DatasetMeansLogged` and `Flight`
need it because a flight then has one connection: with several, the dataset
acknowledges what was sent on the last one.

**Server.** `OpenServerInv` joins types, `HandlersFit` and
`NoInvalidTransition`, because none of them is inductive alone. A fuel level is
a number only if the payload it is read from is complete, `Head(out)` is a cell
only if something is left to send, and a transition is valid only because the
machine is in the state that belongs to the place. `HandlersFit` says all of
that, one clause for each need. The proof goes by what actions are made of: one
lemma for each of `Jump`/`LogRow`, `Transition`, `ReadHeader`, `ReadPayload`,
`SendNext` and `closesocket`, one for all steps of the network (`NetworkSteps`:
none takes a socket from a handler), then one step per action.

All of this is in `ServerProofs`, of a server whose environment is any step of
`Network`; `OpenServerProofs` and `FuelSystemProofs` instantiate it.

**Alerts.** `AlertFollowsReading` needs in addition that at the place `"alert"`
the row last logged is the reading still in the buffer (`ReadingLast`). All but
two actions are `Plain`, they append at most a row of another kind; `LogReceive`
and `CheckFuelAlert` open and close the pair.

**Access.** `ServedOnlyAfterToken` speaks of the frames a peer has sent, the
handler decides by the cells it has read. `AccessInv` says that a peer either has
handed over the right token first (`TokenFirst`, which is `PresentedToken`) or is
`Barred`: its handler is at a place of the login or of the refusal, and nothing
but refusals is under way. `FirstFrame` ties the two views together: until the
token has been checked, what the handler has read, what is under way and what
the peer has not yet sent make up the peer's first frame, or the cells already
begin with it. So when the two cells read are a login header that announces one
cell and the token, they are the whole first frame (`TokenOnItsWay`). The step
that depends on it is `AuthTokenBarred`; every other step keeps the cells,
moves one from its peer to the stream or from the stream to the handler, or
resets the connection, after which nothing is read.

**What is logged.** `TrackInv` carries `FirstFrame` on to all frames. A handler
has read some number `k` of its peer's frames; the cells it has of the next one
(`Held`), those under way and those the peer holds back spell the frames behind
the first `k`; and the readings it has logged or is about to log are the
readings of those `k` frames (`Due`), its transfers their requests (`Asked`).
"Spell" is a function `F` with `F[i] = s[i] \o F[i + 1]` (`Unrolls`), carried along
by the invariant, so that no step needs an induction. A step inside a packet
moves a cell from the stream to the handler; the last one of a packet takes `k`
to `k + 1`, and `SelectedAppend` says what becomes of the readings then.
`ReceivedFaithful` is one consequence. For `AllReceivedLogged`: a handler that
listens, with nothing under way and nothing held back, has `k = Len(sent)`.

**Replies.** What the peer has read, what is under way to it and what `sendAll`
has left (`out`) are, cell by cell, the verdict and then datasets (`Framed`), and
their number is the room of as many datasets as transfers have been logged
(`Built`, `Room`). This counts from the log and not from the requests, because
the peer's end may be gone; `TrackInv` gives that there are never more transfers
than requests. `Framed` names the cell at each place by its remainder in a dataset,
which is how the proof avoids an induction over datasets.

**Client.** `SocketOwned` needs that an identifier never used is open at neither
end (`UnusedIsClosed`) and that `main` comes to `connectToServer` without a
socket; types need that `sendAll` is entered with something to send
(`ClientFits`). Each step keeps the client's socket, gets one nobody has, or
gives its own up; the count `sockets` is 1 exactly while `main` runs and has one,
connected or not, which `ClosePrevious` keeps so from attempt to attempt. `FlightRecorded` is an invariant of each place of `main`: which
packets have their row, and how many of those are errors (`Recorded`).
`GivesUpAfterRetries` is about the first call of `connectToServer`, the only one whose failure ends
`main` with exit code 2: Winsock has been started and no `cleanup()` has run,
so `socket()` is not refused, the counter starts from 0, and the log is that many
failed attempts. The later calls, which main ignores the results of, are the subject
of section 5.

**What a client believes.** `FollowInv` is the counterpart of `TrackInv`: what
`main` has of the frame it is reading, what is under way and what the server has
left spell the frames behind those read, none before the login reply and one
after it. From `"packet"` on, the first frame is the whole reply OK (`Given`).
Because `payloadSize` of a frame says how long it is, the loop of `recvAll` ends
at the end of the frame and nowhere else (`FrameTaken`): a dataset cut off by the
end of the connection never reaches `"got_data"`. That is so for the sizes `recvAll`
can read. After a size beyond them the stream is no longer followed (`Heeds`): a login
reply of such a size is not OK, since nothing of it is read; of such a dataset
`DatasetComplete` says nothing, and section 5 what the code does.

**The system.** `SystemInv` is the conjunction of the two programs' invariants. It
is inductive because a step of a client is an operation on its own end of its
own connection, which `ServerProofs` has as a step of its environment, and the other
way round. For the login, `Verdict` says of each connection that its handler has
accepted it, or that no OK is in what the handler has left, under way, or read
by the client; `CheckToken` is the only step from the second to the first.

**No reading twice.** `OpenServer` keeps histories of what a peer has sent and
received; `FuelSystem` has none, so the invariant says that they exist:
`SessionInv` is `RecordsInv /\ \E H : Sessions(H)`, where `H[c]` holds the frames the
user of connection `c` has begun to send there, what it holds back of the last one,
what it has read, and the iterations `from + 1` to `upto` whose readings it has handed
over. `Carried` says that `H[c]` fits the stream and the handler as in `TrackInv`
and the paragraph on replies (`Track` and `Replied`, the same predicates and step
lemmas of `ServerProofs`), and that the readings handed over are a `Window` of the
flight. `InOrderOn` says where each client is in the history of the connection it
uses, and that the windows of its connections follow one another without
overlapping. Each step of the system then has a next history (`Evolves`): the one
before, or that of one connection carried on, told apart by what a step of `main` does
to a packet (`Conveys` and its neighbours in `ClientProofs`). Since a
handler's log is a prefix of the window of its connection, no reading is in two of
them, nor twice in one.

**The dataset acknowledges the flight.** `FlightInv` adds that an aircraft of
`main_client.exe` has one connection (`Single`), from which every iteration left its
SEND row (`Straight`, `AllNoted`), and that no request was handed over before the one
`main` waits on. Whoever has three cells of replies has the verdict and something of a
dataset; so the handler has begun a transfer, hence read a request; it is the last
frame there is; hence the handler has read, and logged, every frame before it
(`ServedAll`).

**Flight.** `ImplementsFlight` follows from `FlightInv` one effect at a time: a handler
logs one reading or none (`OneReadingAtMost`), and the one it logs is the next of the
window (`NextLogged`), which is at most one ahead of the SEND rows; a client notes a
reading, takes the dataset (where `FlightServed` gives the guard of `Confirm`) or
ends; and a new connection has an empty log (`NothingLogged`). `Unseen` is what
`Flight` cannot tell from a stutter.

**Log.** The thread between lock and unlock holds the mutex (`MutexHeld`), so it
is alone; what its buffer holds and how the file ends always make a whole row
together (`BufferFits`, `FileWhole`, `EndsFit`). Under the refinement mapping the
write of a row's second piece is `AppendLog`'s append, an early return its `Drop`, and
`Restart` its `Restart`. `RowsInOrder` is then proved of the abstract log only
(`AppendLogInv`, through the mapping), which has no mutex, buffer or file. `HeadersByRuntime` speaks of
both runtimes. Where `tellp` is the end of the file it is 0 only on an empty one, and
the thread that finds it so holds the mutex until its row is written, so the header is
the first line and the only one (`HeaderInv`). Where `tellp` is 0 every call
writes a header first, which stays the last line of the file until the thread that
holds the mutex has written its row or the process has ended (`RowInv`).

**Memory.** An operation leaves the packet it works on with a block that was
free, with none, or with the one it had, and frees the old one in the first two
cases (`GetsBlock`, `HasNone`, `KeepsBlock`). Each of the three keeps the
invariant if the size then in the packet fits the block, which cutting a size to
the width of `payloadSize` can only help (`SizeFits`).

**Packets.** `StreamInv`: as long as no size was beyond an `int`, the stream is the
packets due, one behind the other. `F[i]` is where the `i`-th of them ends
(`Framed`); `serialize` adds one at the end, the two calls of `recvAll` cut off
exactly one, whose size they read from its header, and `deserialize` undoes
`serialize`. That the size read back is the size written needs that no cell in
memory or in the stream announces more than `payloadSize` holds (`Held`).

**Only model-checked.** Liveness, which is out of the prover's reach: `HandlerEnds`,
`EndsWithoutServer`, `FlightCompletes`, `EveryClientEnds`, `EveryCallReturns`, and
the fairness halves of `IsAppendLog` and `KeepsFlightPromise`. Every invariant a
passing run checks is also a theorem, under the hypotheses named above.

## 5. Where documents and code disagree

* **No retry after a failed send** (`OpenClientRetries`). `main` calls
  `cleanup()`, hence `WSACleanup()`; `socket()` then fails and `connectToServer`
  returns without one attempt, for this and every later packet. `Client.h:17`:
  "REQ-COM-030: retries on failure".
* **Flight complete or not** (`FuelSystemFlight`). `handleClient` always passes
  `flightComplete = true`; a flight cut off before it is over ends in
  DISCONNECTED. `StateMachine.h:36`: "flightComplete required before
  DISCONNECTED".
* **A header before every row** (`LoggerHeader`). `Logger.h:75` takes a `tellp`
  of 0 for an empty file; where the runtime opens a file to append with its
  position at the start, that is so at every call. The log kept in the repository
  shows it: `Server/server_log.csv` has a header line before each of its 57 rows.

Observed, with no run of their own:

* A refused login leaves a CONNECT row without a DISCONNECT row
  (`Server.cpp:72-75`), while `Logger.h:11` and `ServerTests.cpp:310` ask for
  connection events to be logged.
* A telemetry packet whose payload is shorter than the struct is a success of
  `deserialize` (`DataPacket.h:100`) and is logged as fuel 0 with an alert; the
  handler's branch for malformed packets is dead. `ServerTests.cpp:198`: "server
  handles malformed packets gracefully".
* `reconnectAttempts_` is set back by a successful `connect` only (`Client.cpp:30`, `44`):
  after a call that has used up its attempts each later call of `connectToServer` returns
  without one, even if the server is back, though it "retries on failure". In
  `main_client.exe` the refused `socket()` comes first; a program that can
  reconnect would meet it.
* `recvAll` takes `payloadSize` as an `int` (`Client.cpp:87`, `140`; `Server.cpp:102`, `128`, `146`):
  of a payload of 2^31 bytes or more nothing is read and the call succeeds. A dataset of
  that size is reported as received, where `Client.cpp:138` says "Read full payload". The
  repository's server sends a megabyte.
* `ClientTests.cpp:329` tests that a retry after a reconnect is logged;
  `main_client.cpp:72` logs nothing after it has sent the packet again.

## 6. Not modelled

The console display, the pauses of one and two seconds (a step may take any
time), the wording and time stamps of log rows, the rows the server's main
thread logs when startup or accept fails. Memory is assumed to suffice: nothing
in the code catches `bad_alloc`, and `new` in the middle of `operator=` would
leave a packet with a pointer already deleted. Two client processes started in
one directory share `client_log.csv` under different mutexes; whether a write of
one may land inside a row of the other is up to the operating system, and
`Logger` is one process. `size_t` is taken to be wider than `uint32_t`
(x64): where it is not, `sizeof(PacketHeader) + payloadSize` can wrap, which is not modelled.
A `payloadSize` near 2^32 makes both programs ask for as much memory, the server before the
login; that it gets it falls under the assumption on memory. A link that fails silently is
taken to be noticed at both ends, as it is on 127.0.0.1, the address in the code.
`Server/Packet.h` and the stub `main.cpp` are used by
nothing; of the tests, those of the state machine are evaluated, and the others
write a field or a row and read it back.

## 7. What could follow

1. `Session.tla`: what login, reports and dataset promise to one peer, without
   cells or calls, and `OpenServer` shown to implement it, first by TLC and then
   step by step from `OpenServerInv`, `AccessInv` and `TrackInv`.
2. `Flight` for programs that reconnect: a flight over several connections, with
   the logs of its handlers joined in the order of the flight. `SessionInv` already
   gives that they are disjoint and in order.
