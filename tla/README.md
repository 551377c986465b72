# zenoutils in TLA+

zenoutils is a C++ library of utilities for network programs on Linux: mutexes, queues,
threads, events and timers; sockets of several kinds with a common handler; a logger; data
and configuration; and the configuration of network and wireless interfaces through netlink
and nl80211. Its parts are small, but nearly all of them run a thread of their own, call
back into their users, and are started, stopped and destroyed while they work. The modules in
this directory model that core, TLC checks them on small instances, and TLAPS proves their
safety properties for instances of any size.

Paths below are relative to `src/lib` (`*.cpp`) and `src/inc/zutils` (`*.h`).

## 1. The system

### Components and how they fit together

| Component | State it keeps | Operations | What is hard |
|---|---|---|---|
| `zSem::Mutex` | a `timed_mutex`, the owner's thread id, a count | Lock, TryLock, TimedLock, Unlock | owner and count are plain fields, read without the lock; signal handlers take it |
| `zSem::Semaphore` | an eventfd in semaphore mode | Post, Wait, TryWait, TimedWait, Reset | poll and read are two calls |
| `zQueue::Queue` | `std::queue`, Mutex, it *is* a Semaphore | Push, Front, Pop, Clear | waiting, Front and Pop are three calls |
| `zThread` | the `std::thread`, the semaphores `_exit` and `_reload`, descriptors to poll | Start, Stop, Join, Exit, Poll | requests to exit that come early, late or twice; restarts; signals |
| `zEvent` | per event a list of handlers, per handler lists of events and observers, a Mutex in each | (Un)RegisterEvent, (Un)RegisterObserver, notify | two locks taken in opposite orders; callbacks under both |
| `zSignal` | a table of signals, each an event | Notify, in the context of the signal | takes the event's Mutex inside a signal handler |
| `zTimer`, `zSocket::Handler` | map of event sources, Mutex, Thread | (Un)RegisterTimer, (Un)RegisterSocket, Run | the thread polls a copy of the map |
| `zSocket` sockets | descriptor, address, two Queues, two Threads | Bind, Send, Recv, destruction | order and loss over two threads; errors; destruction while busy |
| `zSocket::Buffer` | memory, `_head`, `_data`, `_tail`, `_end` | Reserve, Put, Pull, Push, Pop, Read, Write | unsigned offsets |
| addresses, frames, factory, taps | values | parse, format, Assemble, Disassemble | inverse walks over fields |
| `zLog` | connectors per level, levels per module, a Queue, a Thread | (Un)RegisterModule, (Un)RegisterConnector, SetMaxLevel, log | starting and stopping the thread under the lock it uses |
| `zInterface`, `zWireless` interfaces | working and staging configuration (modes as text, channels as frequencies), list of commands | setters, getters, Refresh, Commit, Create, Destroy | the kernel's copy may differ; commands fail in part |
| netlink, nl80211 | attributes and messages; a socket with callbacks, `_status` and `_count` per command; event sockets with threads | Exec of each command; Listen, RegisterFrame, Send and the threads of the frame socket | answers that come late, in parts or to somebody else; objects executed again |
| access point, BSS, station | parameters, a beacon and `_running` | Create, Start, Update, Stop, Destroy; AddStation, DelStation | partial failure; a second copy of what the kernel does |
| ieee80211, radiotap, ieee8023 | the fields, members and tag list of a frame; the fields of a header | setters, PutTag, Assemble, Disassemble; `Socket::Send`, `Recv` and the Notification | places computed twice, by struct and by data pointer; objects used again; frames cut short |
| `zData`, `zConfig` | a tree with a lock of its own; working and staging data, `_modified`, a file | Put, Get, Add, Del, operator=; Load, Store, Commit, Restore | order of locks; crash in Store |
| `zMessage`, `zNode` | tables of sockets, acknowledgments, nodes | Connect, Disconnect, Send; Add, Remove, ageing | timeouts that race answers |
| `zCommand`, `zProgram`, `zDisplay` | tables of commands, options, pages | register, parse, rotate | pages rotated by the timer's thread |
| `zSerial`, `zGpio`, `zLed`, `zSwitch` | a device, a Thread or files of the kernel | open, close, send, read | threads as those of sockets |
| `zMath`, `zThermo`, `zException`, `zVersion`, `zUuid` | values | | none |

The uses relation, which is also that of the modules:

    BasicServiceSet --> AccessPointInterface --> zWireless::Interface --> zInterface::Interface
    zInterface, zWireless, access point ---> nl80211 / netlink commands --> netlink::Socket --> kernel
    nl80211::FrameSocket --> FrameEvent (a command and a thread), FrameCommand, Queue (two)
    ieee80211::Socket, ieee8023 --> a socket below (raw, loop, frame) + frames + Buffer
    zConfig::Configuration --> zData::Data (two, each with a Mutex) + Mutex; a file
    sockets -----> Thread (two), Queue (two); are events ---> zSocket::Handler
    zSocket::Handler, zTimer::Handler ---> Thread + zEvent (the sources are events)
    zLog::Manager -----> Thread, Queue, Mutex
    Thread ------------> Semaphore; observes zSignal, which is zEvent in signal context
    Queue -------------> Semaphore + Mutex;   zEvent --> Mutex

Everything is called by the program's own threads; callbacks (`ObserveEvent`,
`Connector::Logger`) run on the thread of the handler or logger, with its locks held.
`configure.ac` leaves zMessage, zGpio, zSerial and zLed out of the default build and has zCommand,
zSwitch, zThermo and zDisplay commented out; some of those no longer compile against zEvent.

### What makes each component right

- Mutex: one holder; its own nested Locks succeed; the last Unlock, and no other, frees it.
- Queue: each item once, in order; never `front()` or `pop()` of an empty queue; none is left behind.
- Thread: the `std::thread` is there exactly while Run is not joined; a request to exit ends the
  run it was made for, whenever it came, and no other.
- zEvent: the two lists agree; a notification calls each registered observer once and none that
  was unregistered.
- handlers: what is registered is polled, what is unregistered may be destroyed, calls return.
- sockets: every Send gets one answer and every datagram is received once, both in order; the
  destructor returns.
- zLog: the thread runs while there is a connector, a connector hears each thread's messages in order
  and none after it was unregistered, calls return although Stop joins with the lock in hand.
- interfaces: what Commit compares with is what the kernel has; commands meet the link in the state
  they need; a Commit that returns true made the radio what was asked, in the client's terms.
- commands: an Exec that returns true was done, in that execution and as the client set it; what is read
  is what the kernel reported; a list has what was there; sockets are closed.
- frame socket: a frame or an answer is at one place on its way, and RegisterFrame returns the answer
  to itself.
- access point: `_running` is what the kernel does; the network is on the channel its beacon announces.
- frames: what is sent whole arrives as it was sent; an object can be sent again and again; what
  Disassemble accepts owes nothing that matters to an earlier frame; setters of one word leave each other's bits.
- configuration: a change is told; what is loaded was the working configuration at some time, as a whole;
  calls return although each takes up to three locks.
- not stated: Buffer's offsets stay inside the buffer; an acknowledgment of `zMessage` reaches the one who waits or
  nobody; a node of `zNode` that was updated is not retired (section 6).

The hazards that a test would hardly reach are listed with their lines in `PROJECT.json`, each with
the properties that would catch it or the reason why none does.

## 2. The modules

| Module | Models | Extends or instantiates |
|---|---|---|
| `RecursiveLock` | what a `zSem::Mutex` promises (abstract) | |
| `Mutex` | `zSem/Mutex.cpp` | implements `RecursiveLock` |
| `Fifo` | what a `zQueue::Queue` promises one consumer (abstract) | |
| `Queue` | `zQueue.h`, `zSem/Semaphore.cpp` | implements `Fifo`; its lock is `RecursiveLock`'s |
| `Thread` | `zThread/Thread.cpp` and the loops run on it | |
| `EventBus` | `zEvent/Event.cpp`, `EventHandler.cpp` | its locks are `RecursiveLock`'s |
| `PollHandler` | `zSocket/SocketHandler.cpp`, `zTimer/TimerHandler.cpp` | INSTANCEs `Thread` and `EventBus` |
| `Log` | `zLog/Manager.cpp`, `Log.cpp` | INSTANCEs `Thread`; its queue is `Fifo`'s |
| `Socket` | `zSocket/Socket.cpp`, `UnixSocket.cpp`, `UdpSocket.cpp`, `RawSocket.cpp`, `LoopSocket.cpp` | the loop of `Thread`'s "poll" shape; its queues are `Fifo`'s |
| `Interface` | the control of `zInterface/Interface.cpp` and `zWireless/Interface.cpp`, the commands' effect | |
| `AccessPoint` | `zWireless/AccessPointInterface.cpp`, `BasicServiceSet.cpp` | extends `Interface` |
| `Attribute` | `netlink/Attribute.cpp`, the attribute classes of `nl80211/*.h` | |
| `Nl80211` | each command of `zWireless/nl80211`: what it asks and which answers end it | extends `Attribute` |
| `RouteLink` | `netlink/RouteLink.cpp` and its commands | extends `Nl80211` |
| `Command` | `netlink/Socket.cpp`, `Message.cpp`, Exec and the callbacks, the kernel's answers | extends `RouteLink` |
| `Tuning` | the values of `zWireless/Interface.cpp` and `Configuration.cpp`: mode, channel, width, centre, power | extends `Nl80211` |
| `Wireless` | a client of commands, or of an interface | extends `Command`, INSTANCEs `Tuning` |
| `FrameSocket` | `nl80211/FrameSocket.cpp`, `FrameEvent.cpp`, `FrameCommand.cpp` | extends `Queue` |
| `Configuration` | `zConfig/Configuration.cpp`, `ConfigConnector.cpp`, `zData/Data.cpp` | |
| `SocketBuffer` | `zSocket/SocketBuffer.cpp`, as the frames use it | |
| `Tags` | the tag classes, GetTag, PutTag, AssembleTags, DisassembleTags | extends `SocketBuffer` |
| `RadioTap` | `ieee80211/RadioTap.cpp`, `RadioTapField.cpp` | extends `SocketBuffer` |
| `Ieee80211` | `ieee80211/Frame.cpp` and the classes of frames | extends `Tags` |
| `Air` | `ieee80211/Socket.cpp`, and what `nl80211/FrameSocket.cpp` puts in front | extends `Ieee80211`, `RadioTap` |
| `Ethernet` | the frames of `zSocket/ieee8023` and their Notification | extends `SocketBuffer` |
| `Accessors` | getters and setters that share a word: frame control, QoS, radiotap fields, tags | |
| `Network` | a program on the air, on a wire, or setting parts of a frame | extends `Air`, INSTANCEs `Ethernet`, `Accessors` |
| `ThreadProofs`, `SocketProofs` | theorems about one module | extend it |
| `QueueProofs` | theorems about `Queue` and `FrameSocket` | extends `FrameSocket` |
| `LockProofs`, `PollInterfaceProofs`, `LogCommandProofs`, `EventFrameProofs` | theorems about `Mutex` and `Configuration`; `Interface`, `AccessPoint` and `PollHandler`; `Log`, `Command` and `Tuning`; `EventBus` and the parts of frames in `Network`, with lemmas about the operators of frames | extend all of them, which share no name; PollInterfaceProofs INSTANCEs `ThreadProofs` |
| `NetworkProofs` | theorems about `Network` | extends `EventFrameProofs` |
| `MC...` | sets of model values for TLC | extend the module they instantiate |

A lock whose implementation is modelled below is one variable that names its holder: `Mutex`
implements `RecursiveLock`, and no method of the classes above locks twice, except through callbacks that
are left out. For the same reason a queue with one consumer is a sequence in `Log` and `Socket`.

Most modules have a paragraph "Faults": definitions that no specification uses and that say what a
slip in the code would do instead of the definition that follows with the same parameters (a dropped
guard, a lost post, the wrong order). With one of them in its place TLC finds the property violated
that it belongs to, so each property is known to tell the code from a broken one.

### How state and actions correspond to the code

**Mutex.** `inner` is `_mutex_lock`, `owner` `_mutex_owner`, `refcnt` `_refcnt`; `pc` says where each
frame of each thread is in Lock, TimedLock or Unlock. Each line of the source that touches a field is
an action, since only the `timed_mutex` is synchronised: LockCheck (line 50), TakeInner (52, and the
tries of 63 and 76), LockOwn (53), LockCount (55), UnlockDec (90) and so on. TryLock and TimedLock
go straight to the `timed_mutex`, also for its owner, and may give up. A read or write of one
word, the owner's id or the count, is taken to be atomic: the
standard makes the unsynchronised comparison of line 50 a data race, but a thread compares with its own
id, which nobody else writes, and an aligned word is not torn on the machines this runs on. A thread has
two frames: "main" and "sig", a signal handler that interrupts it at the points of `AsyncPoints` and uses the
same mutex, as `Signal::Notify` does with its event's.

**Queue.** `items`, `count` and `lock` are the `std::queue`, the eventfd's counter and `_lock`. Push is
two steps (the append and the Post, with the lock in hand); a wait is a poll and a read; Front and
Pop are steps of their own; Clear drains the semaphore token by token and then the items. `front()`
of an empty queue yields `Garbage`.

**Thread.** `exit` and `reload` are the two eventfds, `thread` whether `_thread` is set, `observed`
the registration with the two signals, `ctl` where the controlling thread is in Start, Stop or Join
(registering one signal after the other), `pc` where Run is. `shape` chooses the loop: "check" is
`while (!Exit())`, of the timer, the socket handler and the logger; "poll" is that of the sockets, which
calls Poll and looks at each descriptor. `asked`, `runs` and `disturbed` are history.

**EventBus.** The lists are sequences with the meaning of `std::list`, `unique()` included; `elock` and
`hlock` are the locks of events and handlers; `call` is where each thread is, with the rest of the list it
is going through. Registration changes the handler's list, waits for the event's lock with the handler's in hand,
changes the event's list; notification holds the event's lock throughout and each handler's in
turn. `due` and `got` are history.

**PollHandler.** The two handlers are one module; what differs is in `First`, `AfterUpdate` and `AfterStop`: the
socket handler stops its thread before it changes its map, the timer handler after it. `list` and
`lock` are the map and its lock, `fds` the descriptors that Run collected when it began, `hit` the source
it found for a readable one. A call is the sequence of the actions TakeLock, ChangeEvent and Update (those of EventBus),
Write, StopThread, StartThread (those of Thread), Return.

**Log.** `conn`, `max` and `refcnt` are the maps of the Manager, `msgs` its queue. A message is created if some connector
would hear it (`AtMaxLevel`), pushed later, and judged again when Run takes it. `lctl` is where the caller of
(Un)RegisterConnector is; both start and stop the thread with `_log_lock` in hand, and Run's TimedLock
gives up (`Drop`) exactly when the holder waits for Run itself. One module logs; the level table is per module in
the code, and modules do not interact.

**Socket.** `txq` and `rxq` are the queues, `run`, `exit` and `ready` the two threads with the loop of
Thread, `hand` the notification each has made and not yet queued, `wire` and `err` what the kernel holds for the descriptor.
`kind` chooses what differs: when the address is set, whether there is a receive thread, what send
answers. `given` is history: what Recv returned.

**Interface.** `kernel` is what the kernel has for the link with the interface's name, `working` and `staged`
the two configurations, `cmds` the command list during Commit. One attribute stands for each way in which Commit treats
them: `opmode` (as name and address: only while the link is not up), `mtu` (always), `admin`, and `freq` (as channel values
and power: only while staged up). The name of the link stays: after a Commit that renames, GetIfIndex asks by the old name
(`zInterface/Interface.cpp:638`) and goes on with the staged index, which is not modelled. Position gives the order in which the
commands are queued (lines 400-527 of `zWireless/Interface.cpp`, 465-522 of `zInterface/Interface.cpp`). ExecFail is a
command the kernel refuses, or one it carried out whose answer came too late. Outside is anybody else who changes the link.
`stale` and `sure` are history: why the configuration may differ from the kernel, and whether
there was no such reason when Commit began.

**Air.** A buffer (`SocketBuffer`) is not octets but the fields that can still be read from it whole, each at its place; writing over
part of a field destroys it, so that a reader with another idea of the places reads `Garbled`. `Ieee80211` has for each class of frame its
member tags, what Assemble writes (`...Out`) and what Disassemble reads (`...In`), as tables in the order of the code, and the walks
through the hierarchy of classes: Frame, then ManagementFrame, DataFrame or ControlFrame, then the body. A place is the one the struct
gives the field, which is not always where the data pointer is. PutTags puts the members into the tag list that the object keeps.
`tx` and `rx` are two frame objects, `air` the frame that arrived: the radiotap header of one of `Arrivals`, the frame, the checksum if
the header says so, less the octets lost. Compose is the application's setters, with a value of its own for each composition, AddTag a
tag put without a member, SendTx and Forward are `Socket::Send`, Recv makes the Notification (radiotap, flags, Peek, an object of the class found), TakeFrame reads into the
object `rx` that was perhaps used before. `took` and the field `from` of `air` are history.

**AccessPoint.** It adds to Interface's variables what the two classes have: `running`, `head` (the one of StartAp, SetBeacon and StopAp that
stands before Interface's commands in `_cmds`), `call` (where the caller is, between the calls that Start, Update and Stop make on the interface),
`ssid` (what is staged), `bss` (the service set's parameters and the channel its beacon announces); and `ap`, what the kernel beacons and whether its answer was
heard. A service set keeps its interface to itself; an access point without one is in the hands of a user, who may call what Interface
has as well. Commands may fail, or be done without being answered, at every point, and others may change or remove the link. `calm` is history:
nothing of the kind happened.

**Attribute, Nl80211, RouteLink, Command.** A message, and the members of a command object, are tables from the identifier of an attribute to
its data, length and value; `Value` and `Set` are the templates' Get and Set with their length checks, `Over` puts one table over another. `Nl80211` has one row for each command
class: which attributes it has, what its Exec tests, puts and resets, what valid_cb must and may take, and which callbacks end it. `Command` is
the control that all of them share: Connect, the tests with their early returns, Send, the wait for callbacks with its error, the end. The kernel does what a message says or refuses, when it has it; its
answers wait in `answers` and may be followed by the parts of a list, between which links come and go. An object is
executed up to `MaxExecs` times, and `was` is history: the attributes at the start, what the kernel did, reported and had meanwhile. `lost` counts the sockets
nobody can close.

**Tuning.** `staged` and `working` are the two configurations, as text and frequencies, `radio` the kernel's interface. Ask and SetConfig are the setters with
their conversions (a channel becomes a frequency, a mode a text), Refresh reads each value from the kernel's answer or, where it has none, from the
staged one, and Commit puts the attributes that SetPhyCommand and SetInterfaceCommand would carry to a kernel that takes what nl80211 allows: modes while down,
channels while up, a centre that fits the width. Commit is one step here; `Interface` has its steps and those of others. `Wireless` puts
both into one specification: the variable `side` says whether a behaviour is of commands or of an interface.

**FrameSocket.** Queue's producers are the thread of FrameEvent, the one that sends, and the caller of RegisterFrame; its consumer is whoever takes
Notifications. `inbox` is what the netlink socket has not been read of, `hand` the message a thread has read and not yet pushed, `reg` where RegisterFrame is: it sends,
then reads the socket that FrameEvent's thread reads too, and either of them may get the answer or a frame (`FrameEvent.cpp:203`). A frame
that lacks an attribute is dropped by whoever reads it. `txq` is a sequence, that is, the channel `Fifo` which Queue implements.

**Configuration.** A call is the list `todo` of the steps it has left: locks and unlocks in the order of the code, copies, the comparison and the flag. So
`Assign(this, other)` is "lock other, lock this, copy, unlock both" (`Data.cpp:127`) and GetChild is "lock this, lock child" (262). Commit and Restore copy and compare
unlocked between the two; Load takes the lock of staging and no other and does not set `_modified`; Store takes none. Any thread commits, stores and
loads. `file` says whether the file is whole; OpenFile truncates, WriteFile fills, Crash may come between. Nobody looks at the stream after the write
(`ConfigConnector.cpp:81-84`) and Store returns true (`Configuration.cpp:141-143`): WriteFile may leave a file that cannot be parsed, which is also what becomes of two Stores at once.
A Store that reads while a Commit assigns the working tree gets an arbitrary tree, and the file is `torn`; a file that is written and read while a Load reads it is not
in the model, as it is read and written at one go. A tree is a
sequence of members: paths and JSON are left out, except that a truncated file cannot be parsed. `committed` is history: all that the working tree ever was.

**Ethernet.** The same life as Air's: `tx` and `rx` are two frame objects, of a class that is fixed and with a subtype that Disassemble changes, `wire` the frame
that arrived (octets lost or padded at its end), `note` the Notification made of it. The classes are told apart by the type or length field and by the first octets of the
payload, with the constants of the code.

**Accessors.** A word is the set of its bits that are 1, and an accessor a record of the bits its getter and its setter use, those that the setter clears first, and
the arguments it refuses; the tables follow the classes. `said` is history: what the getters should give.

## 3. The runs

| Run | Instance | States | What it shows |
|---|---|---|---|
| `mutex` | 3 threads, nested twice, signals at all points but two | 41 040 | mutual exclusion, where Lock waits for its own thread, refinement of RecursiveLock (hence one holder, and the last Unlock frees) |
| `framesocket` | 2 frames, 1 send, 2 registrations, the 3 producers and 1 consumer that also clears | 445 596 | tokens and items agree, every frame and answer is at one place, refinement of Fifo, every item is served, RegisterFrame returns its answer |
| `thread` | both loops, signals, functions that end by themselves, 3 runs | 2 426 | requests stand until obeyed, end the run, and do not end another |
| `events` | 2 threads, 1 event, 2 handlers, 2 observers | 40 757 | only registered observers are called, each once |
| `handler` | both handlers, 3 sources of which 2 have room, an observer, 4 starts | 36 586 | what is registered is polled, up to the limit and but for a refusal at it; what is in hand is registered, the map is not raced, calls return |
| `handler_locks` | timer handler, 2 timers | violation | opposite lock orders between UnregisterTimer and the thread |
| `log` | 1 logging thread, 2 connectors, 2 levels, 2 messages, 2 starts | 32 232 | connectors called only while registered, in order; calls return |
| `socket` | unix, raw and loop sockets, 3 sends and datagrams together | 357 367 | every Send answered and every datagram received, once and in order; the destructor returns |
| `accesspoint` | 2 values for each attribute, 2 links, a station; a service set or a user | 2 292 651 | working configuration is the kernel's, commands meet the state they need, a Commit that succeeds took; `_running` is the kernel's, Start announces its own channel |
| `frames` | every class of 802.11 and 802.3 sent and read by its own and by others; all shared words | 45 812 | what arrives whole arrives as sent, sending again changes nothing, what is read is the frame's own, setters keep to their bits |
| `commands` | every command, 2 executions of one object, 2 links; 3 clients of an interface | 206 588 | an Exec that returns true was done, what is read is the kernel's, lists are right, sockets are closed; a Commit tunes as asked |
| `config` | 2 threads, every call, writes that fail, crashes | 326 068 | a change is told, what is loaded was committed, calls return |

**Bounds and why they are enough.** *mutex*: `MaxDepth` 2 is the first nesting at which "the last Unlock"
differs from "an Unlock"; with three threads one can hold, one wait and one look at the owner. *framesocket*: two frames
can overtake each other between the two readers, and with the answer to a send three items make the counter 0, 1 or more while a push is
half done; a second registration finds what the first left in `_status`, `_count` and the socket.
*thread*: `MaxRuns` 3 lets a token survive a run and the run after that; `MaxAsked` 3 is Stop and both signals. *events*: the
orders that matter are between one thread's registration and another's notification of the same event; the second handler and the second
observer are what an early end or a double call would miss. *handler*: with three sources and `MaxFds` 2 the map is empty, partly full and full, and the third source is refused (timer) or
overruns the array (socket); with four starts there are calls after that. *log*: two messages can overtake, two connectors replace each other at a level. *socket*: three pieces of traffic in
any mix of sends and datagrams; `MaxIdle` only cuts the notifications that say nothing. A udp socket is, to these properties,
a raw socket without the pending error, and is left out of the run. *accesspoint*: `MaxLinks` 2 lets the link be removed and another take its name;
two values tell changed from unchanged. *frames*: an object has
been used before with the second composition, so `MaxFrames` is 2 for a class of each kind (management with and without tags to split, control, QoS data)
and 1 for the others; the arrivals are the header of FrameSocket, one with two present words, padding and a checksum, one with a bad checksum,
one of a frame sent by oneself, and two losses, one inside the tags or the payload and one inside the header. For 802.3 the lengths 46, 1499 and
1500 and the protocols 0, IPv4, VLAN and one more are on both sides of each comparison with the type, and the losses end inside and outside payload and
header. Two setters (`MaxSets`) on a word of zeros or of ones show each bit that one takes from another. *commands*: two executions
are the first at which something is left over; the two values are one that makes a width need a second centre and any other; a phy has
a band with a disabled channel and one of 18, more than are read. *Tuning* (in `commands`): a client for 20 and 40 MHz, one for 80 and 160 MHz, one for modes and power,
each with one or two channels and a SetConfig; the radio is down or on a channel without HT; `MaxStaged` 2 is a pair of settings that must go
together. *config*: two threads are the fewest that can hold two locks each; trees of at most `MaxMembers` 1 of one value are empty or not, which
tells any two trees apart that a step may mix up; what Add appends beyond that is cut. All other variables are finite by themselves.

**Deadlock.** TLC checks it in `accesspoint`, `frames`, `commands` and `config`. The other configurations say `CHECK_DEADLOCK
FALSE` because the bounds stop their systems: all items pushed, all runs used, the socket closed. In `mutex` a handler that waits for the thread it interrupted stops that
thread, as WaitsForItselfInHandler says, and at last all of them. In `events`, and with the timer
handler in `handler`, the code itself can stop for good: a registration and a notification take the two locks in
opposite orders. That is what `handler_locks` shows as a violation, and why `SocketCallReturns` is about the socket handler,
which stops its thread first.

**Findings.** The run `handler_locks` shows a disagreement between the code and what its own comment says; the
quotation is in `PROJECT.json`: UnregisterTimer waits for the timer's lock with the handler's event lock in hand, while the handler's thread notifies of that timer
and waits for the handler's lock (`TimerHandler.cpp:84`, `EventHandler.cpp:62`, `Event.cpp:59`).

Three others have no run, but their hypotheses stand in the models:
1. Between lines 52 and 53 of `Mutex.cpp` the mutex is held and has no owner. A signal handler that locks it then
   waits for the thread it interrupted; so does one that comes between lines 92 and 93. That is the case WaitsForItselfInHandler leaves, and the run has signals there.
   Worse, between lines 53 and 55, and between 90 and 92, there is an owner and the count is 0: the handler's Lock counts as a second one, its Unlock as the
   last, and it releases the mutex under its owner. Mutual exclusion fails there: with the point "count" or "clear" in `AsyncPoints` TLC finds MutualExclusion violated.
   Nothing in `Signal.cpp:116-167` keeps a handler from these points; the run and the theorems leave out these two (`TakenPoints`), and for a mutex
   that no handler takes they hold without exception.
2. Stop posts `_exit` also when Run has returned (`Thread.cpp:215`); nobody takes the token,
   and the next run ends at its first check. RunNotCutShort excludes such a run by `disturbed`.
3. The second centre frequency of a SetPhyCommand has the class of the first (`SetPhyCommand.h:75`): it goes in its place, and 80+80 MHz can
   never be set. TrueMeansDone leaves the two out (`UncertainCenters`).

RegisterTimer of one timer more than `NTIMER_MAX` is refused, but the thread is stopped and not started again (`TimerHandler.cpp:52-65`): none of the
registered timers is polled any more, up to the next call. RegisterSocket refuses none, and Run writes the descriptors beyond `NSOCK_MAX` past the end of its array on the stack
(`SocketHandler.cpp:24`, `114-124`). In the model what is polled then is anything (`Snapshots`; a process that dies of it is not modelled). The run `handler` has both
cases: RegisteredIsPolled says that the refusal, at the limit and no earlier, is the only reason for which what is registered is not polled, and it says nothing while there are more sockets than
room (`Overrun`).

More things came up that the properties state around, because no comment or test promises otherwise. Sockets and interfaces: an empty datagram (`UnixSocket.cpp:234`) and a pending error keep the receive thread from reading for good, and PacketReceived
excludes them (`Blocked`); a loop socket reports an error for a packet that it delivered (`LoopSocket.cpp:136`); and a Refresh while the link
is down copies the staged frequency into the working configuration, so that Commit takes it to be set (`zWireless/Interface.cpp:385`): CommitTakes leaves the
frequency out, and TunesAsAsked says that the radio is left as it was there, though Commit returns true.

Frames (each is in the model as it is in the code, and Delivered and TakenIsOwn say which they leave out):
members that a class declares and reads or not, but never sends (VhtCaps; ExtCaps, SuppOpClasses and WmmWme of an association request;
SuppOpClasses and ExtCaps of a reassociation request; WmmWme of a reassociation response); a member that is not valid replaces, on Assemble, a tag of its identifier that the
application had put, and is then not sent; the tests for a missing SSID or missing rates on Assemble never fail, since PutTag accepts a tag that is not valid;
the QoS control of a frame with four addresses is overwritten (`DataFrame.cpp:196`); the payload of a control frame without a source address is read
as that address; a reassociation response has no case in the Notification (`ieee80211/Socket.cpp:128`) and arrives as a plain Frame; an action frame is not
read at all (`Action.cpp:77`) and is accepted whatever it contains.

802.3 (`Telling`): an EtherFrame of 1500 octets, the longest, is taken for an Ether2Frame and refused (`ieee8023/Frame.cpp:139`, `type < 1500`); one whose payload
begins with aa aa is taken for an LLC frame and refused; an Ether2Frame without a protocol arrives as an EtherFrame; Assemble and Disassemble of LlcFrame and
VlanFrame always fail; the padding of a short frame becomes payload, as the length field is ignored; an object that read a frame
of another subtype cannot be assembled until it reads one of its own.

Accessors (`Astray`): RadioTapFieldChannel's setters lose the flags from 0x0100 on; HtCapsTag's HtTransBeamCap and HtAselCap set and get each
other's field (`HtCapsTag.h:145-156`); six flags of ExtCapsTag share three
numbers (the model has the flags at the ends of each octet and these).

Values of a wireless interface: NOHT is kept as "no mode", so that on such a channel a change of the frequency alone finds no width and Commit fails; VHT20 and
VHT40 read back as HT20 and HT40; a staged STA or CenterFrequency1 is never sent; the centre stays staged when the channel changes; MESH becomes the
type UNSPECIFIED, which the kernel refuses; the promiscuous mode is not read back.

Access point: a Stop that failed in part leaves the link down and `_running` true, and every later Stop does nothing while Start refuses
(`AccessPointInterface.cpp:282`); a StartAp whose answer is lost leaves a beacon that Stop does not stop; Update returns true though SetBeacon failed
(`BasicServiceSet.cpp:407`); after SetChannel it announces a channel on which the radio is not; Create after Destroy refuses, as the
staged index remains (`AccessPointInterface.cpp:132`). RunningIsOn and StartsAsAnnounced are stated for what is left.

Configuration: Load does not set `_modified`; Store returns true though the file could not be opened (`Configuration.cpp:141`) or, once truncated, not be written
(`ConfigConnector.cpp:81`); that, and a crash between truncation and writing, loses the configuration (`ConfigConnector.cpp:77`), of which LoadsCommitted only says that nothing is read then rather than a part; `operator==` of two Configurations takes neither's lock.

## 4. Fairness

Liveness is claimed under the fairness that threads give, and never that somebody calls.

- `Queue`, and with it `FrameSocket`: weak fairness for a thread inside Push or Clear; for a consumer, weak fairness of its wait (consumers wait in a loop) and
  strong fairness of Front and Pop, which need a lock that others take again and again: a mutex does not starve one
  waiter for ever.
- `Thread`: weak fairness of Run (the thread is scheduled, its body waits 100 ms at most and its handlers return) and of
  the caller inside Start, Stop or Join. None for Signal or for the calls.
- `PollHandler`: strong fairness of the calls and of the thread, both of which need the locks of the other, and of the end of the
  loop's body by itself, since a source that is always readable does not keep the body from ending: it handles each descriptor once.
- `Log`: weak fairness of the caller inside a call; strong fairness of Run, which competes with loggers for `_log_lock`.
- `Socket`: weak fairness of the owner inside a call and of each of the two threads.

- `Configuration`: strong fairness of each thread's steps within a call, since they need mutexes that others take again and again.

`Mutex`, `EventBus`, `Interface`, `AccessPoint`, `Command`, `Tuning` and `Network` claim safety only. For the mutex a signal may come at every step, so that no
caller gets anywhere in a given time; events, interfaces and frames have no thread of their own; and a command waits
for the kernel without a bound, which nothing obliges to answer.

## 5. What is proved

Each proof follows one argument: `IInv` (`HandlerIInv`, `ApInv`, `NetIInv`, ...) is the conjunction of the type invariant and of named parts that
make it inductive; a lemma per action (or per group of actions that touch the same parts) shows that the
action preserves it, `Invariance` puts them together, and each property follows from `IInv` by itself or, for the properties of steps and
the refinements, from `IInv` and one step.

- **LockProofs**, `Mutex`, for any set of threads and any nesting: `MutexSafety`, `OwnerAgreement`, `NoLostRelease`, `SelfWait` (WaitsForItselfInHandler) and `Refinement`
  (ImplementsRecursiveLock). Hypothesis `AsyncPoints \subseteq TakenPoints`: no signal comes at the two lines
  where the owner is set and the count is 0. It is not justified by the code: at both MutualExclusion is false, as the first finding without a run says. With the handlers that are left, SelfWait says where Lock waits for
  its own thread: in a handler that came while the `timed_mutex` was held without an owner, and nowhere else. The invariant says for each thread
  that it has the `timed_mutex` exactly while one of its frames works on the mutex or it holds something, and is the owner exactly while
  it holds something or is at one of the two lines next to the assignment of the owner: MutualExclusion alone is not inductive, since
  what LockCheck reads must be known to be one's own.
- **LockProofs**, `Configuration`, for any users and trees of any size: `Modification` (ModifiedTells) and `OnlyCommitted` (LoadsCommitted). `InCalls` says
  which calls each user can be in the middle of: with the lock of the Configuration in hand, one that changes staging and then sets the flag, one that copies, compares and then
  settles the flag, or one that only has to leave; without it, one that touches neither tree, a Load or a Store. Only so is it known that what Commit compared is
  still so when it clears the flag. `Known` says that the working tree as it is, and the empty one of a new process, are among what was committed; what Store reads of it in one piece is then so too.
- **QueueProofs**, `Queue`, for any producers, finitely many consumers and any number of items: `Tokens` (TokensMatchItems), `FrontIsSafe` (NoEmptyFront), `Refinement`
  (ImplementsFifo). Hypothesis `OwnClear`: whoever may Clear is the only consumer, as everywhere in the library;
  with another one Clear could take away the item of a token already taken. Refinement needs a single consumer: two could Front the
  same item. The invariant counts tokens, consumers that hold one and the push that is half done against the items.
- **QueueProofs**, `FrameSocket`, for any number of frames, sends and registrations: every step of it is one of Queue's or leaves Queue alone (`FNextIsNext`), hence
  `FTokens` and `FRefinement`; and `NoneIsLost` (Accounted) and `AnsweredByKernel` (AnswerIsKernels), under the same `OwnClear`. The invariant has the place of
  each message, in the netlink socket, in the hand of one of its two readers or in the queue, that no message is at two of them, and that those still in the socket are later
  than all the others; of the packets that were taken to be sent, all are answered but the last, if it is in hand.
- **ThreadProofs**, for both loops, with and without signals, for any number of runs: `Observation`, `NoRequestLost`, `Restartable`. The
  part `Exact` of the invariant says that without signals and self-ended functions the semaphore has a token exactly while Stop waits for it to be taken.
- **PollInterfaceProofs**, `PollHandler`, for any sources, observers, limit and number of restarts: `NotRaced` (MapNotRaced), `MayBeDestroyed` (InHandIsRegistered) and
  `Polled` (RegisteredIsPolled), with the refusal at the limit and the array that is overrun. The steps of its
  thread are Thread's, whose invariant is used as it is proved there, by INSTANCE. What else is needed is when the thread may be there (`CallerInv`), that what it polls is the map unless the
  timer handler has just written it (`PolledInv`), that what it has in hand is in the map (`HandInv`), and that a timer is written
  only where there is room, and refused only where there is none (`LimitInv`).
- **EventFrameProofs**, `EventBus`, for any threads, events, handlers and observers: `CalledIsRegistered` (CallsOnlyRegistered) and `CalledOnce` (EachOnce). The invariant says which locks each call
  holds, that no list has anything twice, that the event's list has no handler without the event but for the pair that a registration has in hand, and that each observer that is due
  is either still to be called and was not, or was called once. A push with `unique()` and the removal from a list are operators on
  sequences without recursion; the lemmas `Pushed` and `Removed` say what they add and take away.
- **SocketProofs**, for all kinds of socket and any traffic: `NoPacketIsLost` (EveryOnce), through signals, errors and destruction. EveryOnce numbers what Recv gave, what waits in the queues, what is in
  hand and what is on the wire without a gap; a thread has to be known to find what its Poll told (`AtWork`).
- **EventFrameProofs**, `Network`, of its `Accessors`, for any number of setters and any arguments: `PartsStay` (PartsKept). Each table of accessors is `Sound`: each keeps its
  bits (`Keeps`), and the others' setters spare them (`Spares`) or set a word that has them as parts. `GetsWhatWasPut` and `GetsWhatWasThere` say for any two accessors what follows from
  that. The invariant `AccessIInv` adds to the property that the octets without which a getter gives unknown are known once its setter was called.
- **NetworkProofs**, `Network`, of frames in the air and on a wire, for any pairs of classes and tags added, any headers, losses and paddings and any number of frames: `WholeArrives`
  (ArrivesAsSent), `SameIsSent` (SentAgain) and `WhatIsReadIsOwn` (ReadIsOwn). The invariant `NetIInv` (`AirIInv`, `WireIInv`) says that what is in the air was assembled from some object that a program can
  have, behind a header that can arrive, and lost at most its end (`OnAir`, `OnWire`); the properties alone are not inductive, since they do not say where a buffer has its fields. An object that a program can have (`IsFrame`) has no
  tag twice, no third address without a second, and no WmmWmeTag that is invalid (`WmmIs`), however often it was composed, sent and read into: a tag that is invalid is not sent, and the reader then has what its new object started with, which
  is invalid too for all members but that one. `Laid` says at which place `Assemble` writes each field of each
  class, `Comes` that a buffer has of them what lies before its end and nothing else, and `Whole` that it lies all before it; on the reader's
  side each `Take` is shown to read what was written at the place it looks at, or to fail. That the places are the same on both sides is what the proof is about, since some go by the struct and some by the data
  pointer. `TapRead` says that a reader of the radiotap header gets all its fields back and ends where the frame begins; of the header `AirAssumption` says that it has fields whose size the code's table knows, each once in a present word, and no present
  word without a field.
  The classes are a finite set given by the code, so that a statement about all of them is a case for each of their tables.
  Lists of fields and tags are put together by functions on indices (`to[i]`); what holds of each prefix is shown by `UpFrom`, which goes from one index to the next by the well-foundedness of the numbers.
- **LogCommandProofs**, `Log`, for any threads that log, connectors and levels: `Served` (ConnectorsServed). Connectors change, and are called, only with the lock in hand (`Locked`), and a message is
  earlier than its logger's later ones wherever it is between the logger and the connector (`InOrder`).
- **LogCommandProofs**, `Command`, for any links, values and number of executions: `SocketsCounted` (SocketsAccounted), `TrueIsDone` (TrueMeansDone), `Seen` (ListIsSeen) and `ReadAsTold` (ReadIsKernels); `WirelessCommands` says
  that the specification which the run checks implies that of Command. The invariant follows an execution from phase to phase: a new socket has no answers (`SentAfresh`), so that whatever is
  answered is either an error or an answer to a message that was done (`DoneOrRefused`); at most one message ends it (`CountsOne`); and a link that was there all along and has an index below the one at
  which the kernel goes on is listed already or is in a part that waits (`ListedSoFar`). What a message carries of the client's attributes is a lemma on each command (`SentAsSet`).
  For ReadAsTold, `ReadIInv` adds that an answer not read yet is as wide as its classes take it to be, and what ended the command is read as reported; `ListedIs` and `BandIsRead` say what is
  read of an array, of which `PhyAssumption` says that its members are numbered from 0, and that rates are multiples of 500 kbit/s.
- **LogCommandProofs**, `Tuning`: `Tunes` (TunesAsAsked). `TuneIInv` says that a channel asked for is staged as its frequency, and that, as long as nobody else changed the radio, the
  working configuration is what the radio shows, but for defaults and for what could only be read from the staged one. So what is staged is either different, then sent and made (`MadeIs`, `SentIs`), or on
  the radio already (`CommitShows`), and what no
  difference asks for stays as it was (`CommitLeaves`); `WidthBack`, `ModeBack` and `ChannelBack` say what the conversions of modes and channels lose on their way to the kernel and back.
- **PollInterfaceProofs**, `Interface`, for any values and any number of links: `Compared` (WorkingIsKernel), `Ordered` (InTheirState), `Taken` (CommitTakes). The part `ExecInv` relates,
  in the middle of a Commit, the commands still to come with what the kernel already has.
- **PollInterfaceProofs**, `AccessPoint`: `ApCompared` and `ApTaken`, the same of its own specification, and `Believed` (RunningIsOn) and `Announced` (StartsAsAnnounced). `OnInv` says that what beacons is up, that its
  answer was not lost on an object that does not run, and that a Stop that may yet succeed has stopped it; `CalmInv` and `StartInv` follow an undisturbed service set through Create, Start, Update and Stop: what it was given is
  what is staged, then in the command, and the kernel has no other frequency.

The assumptions are those named in the modules (`MutexAssumption`, `ConfigurationAssumption`, `QueueAssumption`, `ThreadAssumption`, `InterfaceAssumption`, `ApAssumption`, `AirAssumption`, `WireAssumption`, ...); TLC evaluates
them for the constants of the runs. Every safety invariant and action property that a passing run checks is proved. LockProofs' OwnerAgreement and NoLostRelease, QueueProofs' FrontIsSafe,
ThreadProofs' Observation are proved and not repeated in a run.

Only model-checked is all liveness (EveryItemServed, RequestEndsRun, SocketCallReturns, SendAnswered, PacketReceived, DestroyReturns, CallsReturn): fairness and ENABLED are beyond the prover.

## 6. What is not modelled, and the plan

Left out of the modules above: several controllers of one Thread, and a thread that stops itself; an event
destroyed while registered, which the code calls a bug of its caller (`Event.cpp:40`); callbacks that change the list they are called from; socket
options and a failing Bind; the addresses of an interface (setIfType, setIpAddress and setNetmask are empty and return true) and the physical device; the capabilities that
are copied into a beacon; operator+=, XML and the paths of `zData`. Logging, formatting and wording are left out everywhere.

Not modelled, and what would come next:

1. `Buffer`: the eight operations on four offsets modulo 2^w against a reference definition. Pop and Push test an unsigned difference for `>= 0`
   (`SocketBuffer.cpp:261`), which always holds, so the property is about callers, which `SocketBuffer` models as fields.
2. `RouteLinkEvent` and the other nl80211 events: a thread that reads and prints.
3. `zMessage` and `zNode`: acknowledgments with timeouts, ageing of nodes. They are written against an older zEvent and do not compile
   with this one, so that there is no program whose behaviour a model could follow.
4. Timers' periods: GetTicks reads no octets and always answers 0 (`Timer.cpp:152`); the handler reads the descriptor itself.
5. `zDisplay`, `zProgram`, `zCommand`, `zSerial`, `zLed`, `zSwitch` and `zGpio`: outside the default build or sequential, each a table or an instance
   of the threads that `Thread`, `Socket` and `PollHandler` model.

zMath, zThermo, zException, zVersion and zUuid are values and formatting without state that several calls must keep right.

## 7. Running

    tlasany Mutex.tla                       # parse
    tlc -workers 2 -config MCMutex.cfg MCMutex.tla
    tlapm LockProofs.tla

`PROJECT.json` lists the runs with their configurations, the fault that each property of a run finds, the source
lines of every definition, the hazards and the theorems. The longest runs are `accesspoint`, `framesocket`
and `socket` (about two minutes each), `commands` and `config` (a minute and a half each), `frames` (a minute).
