# Wi-SUN node monitoring: TLA+ models, checks and proofs

This directory verifies the application at the centre of the repository,
`src/wisun_node_monitoring` (a Wi-SUN node that monitors its connection, can be
queried and configured over CoAP, reports traces and updates its firmware over
multicast UDP), and the crash handler it uses, `src/component/crash_handler`. The
modules are translated from the C sources; comments in the modules name the
functions they stand for and `PROJECT.json` maps every definition to its lines.

## 1. Inventory

The application runs these threads (all CMSIS-RTOS2): `app_task`; the Wi-SUN *event
task*, which runs the callbacks registered for indications of the stack; the CoAP
*resource handler* thread, which runs the `coap_callback_*` functions; the scheduler
worker; the UDP worker; the reporter thread. Sleeptimer callbacks run in interrupt
context. Most shared state is plain globals.

| component (source) | state | operations | interacts with | hard behaviour | what makes it correct |
|---|---|---|---|---|---|
| **Action scheduler** (`app_action_scheduler.c`) | sorted array of pending actions, sleeptimer, event flag | `schedule`, `stop`, `get_remaining`, timer callback, worker | called by CoAP, OTA and parameters to reboot or install later | callers, interrupt and worker interleave; full array; the worker's local copy | no lost wake-up, order kept, nothing early, every due action leaves, periods kept |
| **Multicast OTA** (`app_wisun_multicast_ota.c`) | bitmaps of received chunks, global `chunk_index`, storage slot | `multicast_rx` (chunks and commands), `missed_chunks` query | UDP worker calls it, CoAP thread queries it, scheduler installs | lost / repeated / reordered chunks, failed writes, restart, two threads on one index | chunks at their place, an honest record, the verified image is the one installed |
| **UDP server** (`app_udp_server.c`) | memory pool, message queue, counters | event callback, worker | stack indications; hands payloads to OTA | pool empty, `recvfrom` failing, two threads | no block leaked or shared, order, nothing left behind unexplained |
| **Crash handler** (`sl_wisun_crash_handler.c`) | record in noinit RAM, reset cause | crash hooks, init, read, check | `app_task` at start; parameters count crashes | resets during the start, garbage RAM, pin resets | every crash reported once, no phantom |
| **Application parameters** (`app_parameters.c`) | one NVM object per network and a header; their RAM copies | init, read, save, delete, `set_app_parameter` | CoAP, `app_task`, reboots through the scheduler | resets between two objects, failed writes, new firmware | initialised settings of the right layout, what was saved comes back |
| **Application task, network** (`app.c`) | `network_index`, the join result, the mutex, allocations | `app_task` up to the connection, `app_join_network`, parameter requests | stack, NVM, CoAP | any of thirty calls fails, errors cut to a byte, requests without the mutex, resets | the selected network is the one joined, nothing kept, every network tried |
| **Application task, messages** (`app.c`) | period, next status, `send_asap`, `to_udp`, `json_string`, `udp_msg` | loop, `print_and_send_messages`, connection message, CoAP requests | event task and CoAP threads write the same globals | three threads on one buffer, changes of the period, lost connections, failed sockets | a status per period, at once when asked for, each message sent as built |
| **Application task, join state** (`app.c`) | `join_state`, counters, time stamps | join-state callback, main loop, status, reset of the statistics | stack, CoAP | two threads on the same globals, joins going back and forth | counters and totals agree with what happened |
| **RTT reporter** (`app_reporter.c`) | match strings, destination, timer, flag | start, stop, timer callback, reporter thread | CoAP and Direct Connect start and stop it | restart while filtering, stop racing the timer, failed set-up | sends what was asked, keeps reading, stops |
| **CoAP resources** (`app_coap.c`) | one response buffer | about forty resources | all of the above | runs next to every other thread | replies are of one request |
| **TCP server** (`app_tcp_server.c`) | one buffer, its length and flag, one client socket | accept / receive callback, check | event task (shared with UDP) and `app_task` | a buffer used by two threads, a `recv` that fails or waits, clients that overlap | each text printed whole, a client followed to its end |
| **Direct Connect** (`app_direct_connect.c`) | key, links of the stack | allow, accept a link, its status; commands | starts and stops the reporter | a link lost while CoAP starts the same reporter | no reports to a tool that is gone |
| **Timestamp** (`app_timestamp.c`) | start tick | read, reset before a join | everyone | — | — |
| **NTP client** (`sl_wisun_ntp_timesync.c`) | none | one synchronisation | no application calls it | — | — |
| **Neighbour lists, traces, configuration lists, LFN checks, border-router scripts, `ddp`, CSMP skeleton** | none or input/output | formatting, compile-time checks, command-line tools | — | — | — |

The hazards, each at its line, are in `PROJECT.json`.

## 2. Modules

| module | models | role |
|---|---|---|
| `ActionScheduler` | the scheduler | one action per critical section: a schedule call reads the clock *before* it locks (`ScheduleCall`) and inserts later (`ScheduleInsert`); `TimerExpires` is the interrupt; `WorkerWakes`, `WorkerStarts`, `OneShotReturns`/`PeriodicReturns`, `WorkerRequeues`, `WorkerRests` are the worker |
| `ActionAgenda` | abstract specification | a set of pending actions; an action runs no earlier than due, in order of deadline, or is stopped |
| `ActionSchedulerRefinement` | refinement | instantiates `ActionAgenda` with the array and the worker's copy |
| `ActionSchedulerHistory` | scheduler plus history | remembers stops and lost periods |
| `ActionSchedulerProofs`, `ServersProofs`, `MulticastOtaProofs`, `AppParametersProofs`, `NetworkSelectionProofs`, `JoinStateProofs`, `DirectConnectProofs`, `StatusMessagesProofs` | proofs | see section 5 |
| `MulticastOta` | the receiver, storage slot and query | the globals are variables; `multicast_rx` is cut where another thread can use `chunk_index` |
| `UdpServer` | the event mode of the UDP server | callback steps `Allocate`/`Drop`, `Recvfrom`, `Put`; worker steps `Get`, `Handle`, `Free` |
| `DatagramFifo` | abstract specification | a queue of numbered datagrams: accepted in order, refused only when the socket is full, handled from the front; `UdpServer` maps the worker's datagram, the message queue, the callback's block and the socket to it (`Pending`) |
| `TcpServer` | the event mode of the TCP server | event task: `Accept`, `CallRecv`, `Recv`/`RecvFails`, `StoreLength`, `Take` (the flag and the close); `app_task`: `EndText`, `PrintText`, `Clear`; clients: `Connect`, `Segment`, `Finish` |
| `Servers` | both servers | composes `UdpServer` and an instance of `TcpServer`: one event task delivers to both, and stands still while either is in a callback |
| `CrashHandler` | the crash record | `Crash`, the resets, and the init, read and check of a start |
| `AppParameters` | the NVM objects and the start of the application | composes `CrashHandler` (INSTANCE): the same reset interrupts a save and makes the next start report |
| `JoinState` | `_join_state_custom_callback`, the part of `app_task` and of the status that shares its globals, `app_reset_statistics` | |
| `NetworkSelection` | start, buttons, `app_join_network`, the wait for the connection, the requests that write `network_index` or schedule an installation | every check of the configuration, in order, with the line it returns; `Cleanup` cuts the result to a byte; a save writes the header with the index (`SaveHeader`) and then the networks (`SaveNetworks`), a deletion goes the same way |
| `StatusMessages` | the loop of the connected device and its messages | reading and writing `msg_count`, making the text, copying and sending are steps of their own, as another thread may come between; so are opening the sockets and setting `to_udp` |
| `Reporter` | the reporter and the threads that start and stop it | the steps of a start are apart, as two starts may run into each other |
| `DirectConnect` | the link to a commissioning tool | extends `Reporter`: the event task is the second starter, next to CoAP; `LinkAvailable`, `LinkConnected`, `LinkError`, `LinkDisconnected` are the cases of the callback |
| `MC...` | instances for TLC | |

What is abstracted. Scheduler: callbacks are names; times are ms on a small clock, and the
tick-based timer may be seen to expire up to `TimerSlack` ms early. OTA: a chunk's
data is its file and index; writes succeed, fail half way or are refused; chunks of a
foreign file exist; bitmaps are sets. UDP: datagrams are numbers. Crash handler: the
registers are the type of crash. Parameters: the settings of a network are *default*,
*custom* or *zeroes* of a firmware. Join state: six states are four; an intermediate
state (41, 42, ...) is one value above `Operational`; a delay that wraps as `uint64_t`
is a negative number. Reporter: a line is the set of strings it contains and its length; strings are names, some of
one character, and `"*"`; `lines_to_send` holds what is kept. Network: the settings are their device type, and the codes `sl_wisun_join` returns are assumed to fit in
the byte they are returned in. Messages: a text is its author and its `msg_count`. Names starting as `FullPast`, `InsertFirst`, `PlaceOneFurther` and so on, next to a
definition, are its faulty variants: each property is shown to fail with one.

## 3. Runs

Where a run lists no `TypeOK`, the type invariant of the module is a conjunct of one of its invariants.

Passing runs:

- **scheduler** – two threads, two callbacks, two slots, three queued entries, delays and
  periods 0 or 1. Three entries overfill two slots, so full arrays, stops during a
  callback and lost requeues all happen; the clients and callbacks are
  interchangeable and only invariants and action properties are checked, so symmetry is sound.
- **scheduler_refinement** – one client: `ImplementsAgenda` (the agenda is implemented) and
  `PendingActionsLeave`, a liveness property.
- **ota** – the documented use (no datagram is processed while a query runs): two files of
  two chunks, arrays of three, two disturbances (a failed write, clear, restart, rename). The RX query, which loops on locals, may overlap with chunks.
  `RetransmissionCompletes` is its liveness property.
- **servers** – UDP (`ImplementsFifo`, and what the queue does not show: blocks and drops): three blocks, a socket of three, up to six datagrams, one failing `recvfrom`, so that the pool
  runs out with datagrams left in the socket (the code has four blocks; only *empty*, *full* and *between* matter). TCP:
  two clients, three segments of which any two overfill the buffer of four, one failing `accept` or `recv`. `Loads` bounds
  what arrives *together* (six datagrams; one datagram, a client and two segments; two clients and three segments): each
  server is driven to its own limit, and both at once where one can hold up the other.
- **parameters** – two networks (the first and the last are treated differently by the code), three
  firmwares (another version; another size), two kinds of crash, three resets at any stage of a start
  or a save, one failing write or deletion of an object, one call of `delete_app_parameters`.
- **join_state** – four states, six moves of the stack, two indications in flight, a clock of
  three, one reset of the statistics.
- **reporter** – CoAP with two kinds of request (one string, none) and Direct Connect, which asks for all lines: two
  starts, two links, three lines. The length of a text wraps at four (256 in the code), which the lines reach together, so that
  `filter_log_lines` returns 0 for a text that is there; `line_count`, which wraps in the same way, takes 255 lines and is left to the proof. Two links are enough for the indications of an earlier one to meet the next.
- **network** – three networks of both device types, a keychain with or without a trusted CA, two requests (for an
  index beyond the networks, the defaults, a save or an installation), one reset, which may come within a save or a deletion. Three networks are enough for "the next one" to differ from "the other one".
- **status** – a router or an LFN, periods of 0, 1, 2 and one beyond the range of the field (three bits here, sixteen
  in the code), a lost connection, two requests, six seconds: two or three statuses.

Runs that show the code doing something else than its documents say:

- **scheduler_stop** – `stop` is documented to stop *all* instances of a callback; an executing
  periodic one is requeued. `StopSettles` is what does hold: when nothing of it is
  executing, stop is final.
- **ota_place** – a query of the CoAP thread moves the global `chunk_index` while `multicast_rx` uses
  it: a chunk is written at the place of another.
- **parameters_upgrade** – the header of the new version is saved first, so a reset in between makes
  the next start accept old networks. `SettingsOfThisFirmwareUnlessTorn` is what holds.

Seen while modelling, and not given a run of their own: a periodic action is dropped without notice
when the array fills up during its callback (`PeriodicLostOnlyWhenFull` shows that this is the only way);
`chunk_index` moved by a datagram during the loop of `last_index` makes the query answer "0 missed"
too early; `rebootAndInstall` never calls `setImageToBootload`; an image of one chunk cannot be installed
(`last_index() <= 1`); a deletion and a save that are both interrupted leave a network of zeroes that a
start accepts (hence `InitialisedUnlessDeleted`); after the statistics are reset while connected, the next time without a connection is discarded as if it
were before the first one (`TotalsAddUpUnlessForgotten`); a refused `sl_wisun_join` is returned as its line number, so the two
"invalid PHY" branches that look for `SL_STATUS_FAIL` are never taken; a period of 32768 s or more is negative as an
`int16_t` (`StatusInTime`); a status asked for between the test and the reset of `send_asap` is
lost; `nb_boots` is never incremented; the reporter's timer
asserts when the thread's set-up failed or has not run; a match string of one character never matches, except `"*"`;
`filter_log_lines` returns the length of the text as a `uint8_t`, so that a report of 256 or 512 bytes is dropped without notice
(`SentAsRequested` says that no other one is); whether an installation that clears the parameters goes on after its deletion depends on the last network alone, whatever became of the others;
two datagrams may carry the same `msg_count`, as the text reads it several stack calls after `msg_count++`, and when two
increments run into each other the number even goes back (`WholeAndInOrder`); with a negative period no status is sent until the device has been connected
that many seconds, and one at every pass from then on; `multicast_rx` counts a chunk (line 523) before it compares the index with `MAX_CHUNKS` (536), which the documented sender keeps; a
second start of the reporter keeps the period of the first; two starts that run into each other may together need more
match slots than there are; a request that writes a network parameter without an index takes the value for the index; restoring the
defaults of a selection also resets `network_index` in RAM.

The TCP server: segments that fall together are taken by one `recv`, so that the `recv` of the next indication finds nothing
and waits, and with it the event task and the UDP server (`TcpWaits`; `BufferedIsHandled` fails without that exception); on the
closed socket of a client that has left, `recv` fails instead, which is taken for 65535 bytes: the old text is printed once more.
A second text may come between the terminator, the print and the reset of the flag: it is cut, mixed with the first or not
printed. A second client, or a failing `accept`, replaces the first, whose bytes are then never read and whose socket stays open.
Direct Connect: the loss of a link stops reports a CoAP request asked for; when a CoAP start is under way as the link is
lost, its last step starts the timer again with the tool as destination. The starter and the reporter thread
both use `strtok`, whose hidden state they share unless the C library keeps it per thread; the model takes them as independent. NTP client: each of its early returns leaves its socket open.

## 4. Fairness

- Scheduler: the worker, the timer and a client's call that has begun are weakly fair (the kernel schedules
  them, interrupts happen) and time passes up to its bound. No client has to call anything.
- OTA: the UDP worker and the query are weakly fair; receiving each chunk of the expected file is *strongly*
  fair: the sender repeats missed chunks (`multicast_ota.py` and its documented loop) and the network does not lose
  the same chunk for ever. Failed writes, clears and restarts are bounded, not fair. `RetransmissionCompletes` also
  rests on the bootloader accepting a write over flash that already holds data: after a restart the record is empty, the flash
  is not, and the chunks are written once more where they were.
- Network: `app_task`, which never blocks for good, and the callback are weakly fair; the stack need not join, and
  requests and resets are bounded. `EveryNetworkTried` thus holds for networks that refuse to be joined.
- Status: no fairness; the clock only moves while the loop rests, so the properties are about its passes. The loop of a router rests a
  millisecond and is modelled once a second.
- Servers: the event task, the UDP worker and the check of `app_task` are weakly fair; nothing is assumed about arrivals and
  clients, and a `recv` that finds nothing need not fail, so it may wait for ever. That `app_task` checks again and again holds
  while the device is connected.
- Reporter: the thread's steps and the running timer are weakly fair. That the set-up of the thread succeeds is
  not assumed: the property speaks of the time after it (`group`). Links, requests and the stack are not fair.

## 5. Proofs

All theorems hold for every value of the constants; the bounds on calls, time, arrivals and moves play no
part in the arguments. The assumptions are the named ones of the modules.

**Scheduler** (`ActionSchedulerProofs`, from `SchedulerAssumption`):

- `TypeCorrect`: `Spec => []TypeOK`. The array never exceeds `MaxSlots` (both `ScheduleInsert` and `WorkerRequeues` test
  before inserting), and the worker holds an entry while it runs one.
- `NoLostWakeup`: `Spec => []WakeupPending`. It is inductive relative to `TypeOK`. Every critical section that
  changes the head of the array ends in `Rearm`; `RearmWakes` says what that leaves.
- `QueueSorted`: `Spec => []QueueInOrder`. Not inductive by itself: entries of equal deadline are ordered by their
  stamp, so the strengthening `OrderInv` adds that every stamp in the array is smaller than `issued`.
- `RemainingReportsEarliest`: `Spec => []RemainingIsEarliest`, from the order of the array. It has no run.
- `StartsEarliestFirst`: `Spec => EarliestFirst`, an action property, from the order of the array.
- `StopHolds`: `HSpec => []StopSettles`, and `PeriodicActionsRepeat`: `HSpec => PeriodicLostOnlyWhenFull`. The history only
  watches (`HistoryOnlyWatches`: `HSpec => Spec`), so the invariants above hold with it. `StopSettles` is then inductive:
  a stop removes every entry of its callback (`StopRemoves`), and only the worker's requeueing of an executing one or a
  new request brings one back. Between the worker taking an entry (`StartTakes`) and its start nothing is lost either.

The lemmas about the array operations (`LeastNat`, `InsertPosition`, `InsertType`, `InsertInOrder`, `PackResult`) say what
`queue_insert` and `queue_remove` return. The step lemmas have one case per action.

**Scheduler implements the agenda** (`ActionSchedulerProofs`, also from `NoneAssumption`: the "no entry" of the
worker is not an entry): `AgendaImplemented` states that the initial states are those of the agenda and that
every step is a step of `ActionAgenda` or changes nothing of it. The agenda has a *set* of pending actions, so the proof
needs that the array holds no entry twice and that its length is the size of the set (`EntriesDiffer`, `PendingCount`,
from the order of the array), and what an insertion and a removal do to the set (`InsertSet`, `PackSet`). `MappingInv` adds
to `TypeOK` and `OrderInv` when the worker holds no entry, that only a periodic one is requeued, and that the deadline of a call
that has not inserted yet was computed from a clock it did read. The fairness that `ImplementsAgenda` adds stays with the run.

**UDP server** (`ServersProofs`, from `UdpAssumption`):

- `UdpTypeCorrect`; `DropsLeaveDatagrams`: `Spec => []DropsStayBehind`.
- `NoBlockLeaks`: `Spec => []OneHolder`. A `Put` could find the queue full and lose its block; it cannot, because the
  queued blocks are different ones and those the two threads hold are none of them (`QueueFits`, a pigeonhole argument).
- `UdpIsFifo`: `Spec => ImplementsFifo`, the whole refinement, as neither side assumes fairness. What is pending is the
  datagram of the worker, those of the queued blocks, that of the callback and the socket, one after the other. `FifoStep`:
  an arrival appends to it, if `QueueFits` leaves room; `Recvfrom`, `Put` and `Get` move a datagram from one part to the next,
  which leaves the whole as it is, provided that a block is cleared or filled only while no other holds it (`OthersKept`, from
  `OneHolder`); `Handle` takes the first; a drop or a failing `recvfrom` changes nothing.
- `FirstInFirstHandled`: what was handled, followed by what is pending, is in the order of arrival, each datagram once
  (`FifoKeepsOrder`, an argument about the queue alone).

**Both servers** (`ServersProofs`): `ServersImplementUdp`, `ServersSpec => Spec`: in the composition the UDP server behaves as it does alone, so
`ServersLeakNoBlock`, `ServersAreFifo` and `ServersLeaveDatagrams` follow. Of the TCP server (from `ServersAssumption`: a
segment fits the buffer, -1 is no socket and no length):

- `TextsAreWhole`: `ServersSpec => []TextIsWhole`. `TextInv`: while printing has not overlapped with the last `recv`, its bytes are at the start
  of the buffer and its length is known; `TextIs` says what `printf` makes of that once the terminator is set.
- `ClientIsFollowed`: `ServersSpec => []KeepsUpWithClient`. That *some* indication is to come is not inductive, as one `recv` may take
  several segments or a part of one. `CoverInv` counts: the announced calls of `recv` times the buffer size cover the bytes
  in the socket, and one call more covers the end of the stream (`Covered`). A segment fits the call announced with it; a call
  takes a buffer full or everything.

**Multicast OTA** (`MulticastOtaProofs`, from `OtaAssumption`), for `QuietSpec`, the documented use: `ChunksAtTheirPlace`, `RecordIsHonest`,
`VerifiedImageInstalled` and `ZeroMissedIsTrue`. The inductive `OtaInv` adds to the first two what the local steps know: `ChunkInv` (while a
datagram is processed `chunk_index` is its index, which is what fails in `ota_place`), `QueryInv` (everything recorded below `chunk_index` is known to the query that moves it) and
`SealInv` (while a verified image is to be installed the record covers it, so no chunk of it is written again).

**Parameters and crash handler** (`AppParametersProofs`, from `ParametersAssumption` and `NoneAssumption`): `StartsInitialised`,
`LayoutsNotMixed`, `CrashesCountedOnce`, `SavedComesBack` and `CrashReported`, the last two action properties, for any number of
networks, firmwares and kinds of crash. `ParametersInv` has a part per concern: `CrashInv` and `CountInv` (a crash whose record is still
in RAM is one that no object has counted yet), `PlaceInv` (what each step of a start or a save relies on), `SaveInv` (a save under way
has stored the header and the networks below the loop variable), `TornInv`, `ZeroInv` (the networks that can be read are the first ones, which is
why the status of the last read counts for all), `SavedInv`.

**Network selection** (`NetworkSelectionProofs`, from `NetworkAssumption`): `NothingIsKept`, `ResultIsTrue` and the action property `RequestedIsJoined`, for
any number of networks and trusted CAs. `ChecksNotOk` says that none of the lines a check may return is a multiple of 256. `StartInv`: before
the first join there is no connection, hence no request, and what was promised is in NVM, with all its networks, and then in RAM; `ResultInv`: what `ret`, cut to a
byte, will say agrees with what is being joined.

**Join state** (`JoinStateProofs`, from `JoinAssumption`):

- `JoinStateFollows`: `Spec => []JoinStateSettles`. `FlightInv`: the last indication in flight, or else
  `join_state`, is the state of the stack.
- `CountsAreTrue`: `Spec => []ConnectionsCounted`. `CountInv` splits on whether the connection that is being processed
  has been counted yet (`Pending`), and says in each case how far the counters of the code are behind what happened; the deepest
  state reached since the last connection decides which counter is due.
- `TotalsAreTrue`: `Spec => []TotalsAddUpUnlessForgotten`. `TimeInv`: before the first connection all totals are 0; afterwards the
  totals and the time since it add up to the stamp of the last change.

- `DelaysAreTrue`: `Spec => []DelaysAddUp`. `ChainInv`: between the state processed last, the indications in flight and the
  state of the stack no state is passed over on the way up, so each one is stamped. `DelayInv`: a delay is then the
  difference of two stamps, and that of state 0 is the disconnection. The sum in `DelaysAddUp` is a recursive function; that
  its value is the last stamp minus the first is shown without induction over an operator, by its least counterexample
  (`LeastNat`, from the well-foundedness of the order; `SumOfDifferences`).

**Reporter and Direct Connect** (`DirectConnectProofs`, from `ReporterAssumption` and `DirectConnectAssumption`: "none" is no
line and no wildcard, and the strings of one CoAP request leave a slot free for the one of the link, without which two
starts that run into each other would write past its end):

- `ReportsAreAsRequested`: `Spec => []SentAsRequested`, for the reporter with any starters. `CalmInv`: a start that goes
  on while the traces are read ends the calm; `SettingsInv`: the last request, unless mixed with another, is being set up by its own
  starter, step by step, and by nobody else, and stays once it is; `KeptInv`: the lines filtered so far are those it asked for. What is said of the lines holds of the datagram
  unless the length of the text, cut to a byte, is 0; it is computed line by line, as the code does.
- `LinksUseReporter`: `LinkSpec => Spec`: the event task, driven by the indications of the link, is one of the reporter's
  starters, hence `ReportsAreAsRequestedWithLinks`. That the match strings fit is `SlotsInv`: neither starter has added
  more than its own call or its earlier ones did.
- `StopLeavesFewReports`: `LinkSpec => []FewReportsAfterStop`. `LateInv`: once stopped, each report still to come is in the
  thread or asked for by the flag.
- `LostToolGetsNoReports`: `LinkSpec => []NoReportsToLostTool`. `LinkInv`: a connection indicated and not up any more is followed, in the
  queue of indications, by its loss; one offer at most is open; while the event task starts the reporter the link is up or its
  loss is to be delivered.

**Status messages** (`StatusMessagesProofs`, from `MessagesAssumption` and its `NoneAssumption`), for periods and clocks of any width:

- `MessagesAreWhole`: `Spec => WholeAndInOrder`, an action property. `BufferInv`: a thread that nobody has overlapped with since it
  began is alone (`Alone`), so both buffers hold what it built. `NumberInv`: as long as no increment was lost, no number in a buffer, a
  register or a datagram is above `msg_count`, and the text of a thread that is alone has a number above all those sent.
- `StatusesInTime`: `Spec => []StatusInTime`, and `AskedInTime`: `Spec => []AsapInTime`. `TimeInv` says, for each place of
  the loop, when the next status is due and that the clock goes on only where the loop rests, by no more than its delay;
  `AskedInv` the same for a status asked for at once, whose flag is set until the loop has decided.

Every invariant and every action property of the runs (those of the violation runs apart) is thus stated by a theorem. Only
model-checked: liveness (`PendingActionsLeave`, `RetransmissionCompletes`, `BufferedIsHandled`, `ReceivedIsPrinted`,
`TracesAreRead`, `EveryNetworkTried`) and the fairness that `ImplementsAgenda` adds: they need fairness and ENABLED,
which the provers do not handle.

## 6. Not modelled

The POM-IE settings after an accepted join (`app.c` 957-989): where `SL_RAIL_IEEE802154_SUPPORTS_G_MODE_SWITCH` selects them,
`app_join_network` declares `set_pom_ie` twice (601, 613) and reads an `app_settings_wisun` it does not declare, so that the model is of
the build without them. A `nvm3_initDefault` that fails: the device would run on zeroes, and every later call of NVM fail, until the next
reset. Two first starts of the reporter that both find no thread and create two. A `msg_count` of 2^32.

Formatting of messages and lists, the values of the settings that `app_join_network` hands to the stack, button messages, LEDs, power
management and trace levels: sequential code around calls of the SDK. The polling modes of the UDP and
TCP servers (`app.h` selects the event modes). Behaviour that C leaves undefined (array indices out of range) is kept out by named assumptions
or left out where said, and noted as a hazard. The border-router scripts and provisioning tools are command-line
programs; what the multicast sender may send is part of `MulticastOta`. Reading and writing the fields of the parameters one by one
over CoAP (widths, ranges, text) is left out: `AppParameters` keeps whether settings were changed and of which firmware they
are. The timestamp is a clock read by everybody and is the time variable of the other modules. No application of this repository calls
the NTP client. The command line of Direct Connect sets the key and lists the links; only what moves a link is modelled.

## 7. Plan

1. Done: scheduler with its agenda, OTA, UDP and TCP server and their composition, crash handler, parameters, network
   selection, status messages, join state, reporter, Direct Connect. Proved: the safety of all of them, and that the
   scheduler implements the agenda and the UDP server a queue.
2. Extend: two writers in `AppParameters` (CoAP requests next to `app_task`; only initialisation and
   `app_join_network` take the mutex); the counters of `multicast_rx`.
3. Compose: UDP server, OTA and scheduler as one system, in which a slow installation meets a filling pool; an abstract
   specification of the OTA receiver (a partial map from indices to chunks) refined by `MulticastOta`.
4. Prove: that refinement, and what the composition adds.
