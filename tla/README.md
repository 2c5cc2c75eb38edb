# treeipc in TLA+

treeipc mirrors a tree of nodes and properties between processes. A process
attaches nodes to its tree; the peer sees proxies of them, can list, fetch and
read them, and attach nodes of its own below them. This directory holds TLA+
models of its layers, the TLC configurations that check them on small
instances, and proofs (TLAPS) that seven of these models are safe for every
size of the instance.

## 1. The system

### Layers, state and operations

| part | source | state | operations |
|---|---|---|---|
| socket transport | `socket_client`, `connector`, `acceptor` | `is_connected`, the socket, a reconnect timer | write, data ready, error, connect, reconnect |
| package codec | `package_codec` in `package_stream` | `buffer`, `pack_size`, `write_lock` | write (size, then body), reassembly of what arrives |
| dispatcher | `request_reply_dispatcher` in `package_stream` | `msgid`, `msgid_released`, `sender_response_received`, `sender_condvars`, `in`, `request_msgids` | `send` (blocks), `write`, `reply`, dispatch of incoming packages |
| package contents | `package.cpp`, `package` in `package_stream_base.h`, `property_serializer.h` | none | append, read, copy, serialize, deserialize |
| worker queue | `locking_queue`, `node_sync` constructor, destructor, `package_processing_routine` | the queue, the run flag | push, pop, stop |
| node synchronisation | `node_sync`, `client_nonroot`, `server`, `client_node` | `tracked` (nid to node), `tracked_mutex`, `current_nid`, the tree | `fetch_node`, `ls`, `update_prop`, `attach`, `child_added`, the `cmd_*` handlers, `generate_nid` |
| property synchronisation | `property_fake`, `property_value_fake`, part of `node_sync` | `update_in_process`, deserialization flag, subscriptions | get, set, subscribe, updated |
| roles | `client`, `client_nonroot`, `server`, `conn_server` | roots, one server object per accepted socket | accept, stream opened and closed |
| observable | `observable.h`, `reliable_bytestream_base.h` | listener and observable pointers, two mutexes | set and remove listener, notify |
| Qt variants | `qt/` | as the socket transport | as the socket transport |

### Interaction

Each end of a connection runs application threads, one worker thread per
`node_sync`, and one thread that reads the socket (the io thread). The io
thread feeds the codec, the codec the dispatcher. The dispatcher copies a reply
to `in` and wakes the sender; it hands everything else to `node_sync`, which
answers `CMD_GENERATE_NID` on the spot and queues the rest for the worker. The
worker runs the handlers; application threads call `send` and `write` through
the proxies, and so do handlers.

### What is hard

* Blocking calls in both directions while `tracked_mutex` is held.
* One package `in` shared by all senders of an end.
* Ids that are reused, also over connections: the client's dispatcher survives
  a reconnect, the server builds a new one per connection.
* The loss of a connection at any point of a call or of a package.
* The nid counter, incremented by the io thread without a lock.
* Look-up and insertion in separate critical sections.
* A worker stopped by an unsynchronised flag.
* A copy of a property written by three parties, told apart by one flag.
* The cleanup after a loss, on the thread everybody else may be waiting for,
  and work of the old connection that goes on over the new one.
* Two mutexes, one in each of two objects that point at each other, and
  destructors that run while the io thread notifies.

`PROJECT.json` lists these, and the smaller ones, under `hazards`, each at its
line and with the properties aimed at it.

### What makes each part correct

* codec: packages come out whole, in order, and none is kept back;
* dispatcher: an id has one owner and none leaks; no wakeup is lost; a call is
  neither lost nor duplicated; it returns, with its own response;
* contents: what is read is what was appended;
* queue: in order, never asleep over work, always joined;
* node synchronisation: a nid means one node at both ends, for good; an
  announced child arrives; the tree shows the tracked proxy; calls end;
* property synchronisation: when everything is quiet the copy and what
  listeners were told are the property's value; a read is fresh; no echo;
* transport and reconnection: the client knows that it is connected, its nids
  belong to the connection it has, and it does come back;
* observable: the two pointers agree, nothing destroyed is used, registration
  ends.

## 2. The modules

| module | models | main abstractions |
|---|---|---|
| `RequestReply` | the dispatchers of both ends over successive connections | a package is the call it belongs to; frames travel whole and in order; a connection is up or down |
| `CallService` | what a dispatcher promises its callers | a call is idle, waiting or served |
| `MCRequestReply` | instances | |
| `RequestReplyProofs` | theorems about `RequestReply`: ids and wakeups | |
| `CallProofs` | theorems about `RequestReply`: what becomes of a call; the refinement | |
| `PackageCodec` | both sides of one direction of a connection | a byte is the package and place it was written for; a header that is not one reads as any size |
| `MCPackageCodec` | instances | |
| `PackageCodecProofs` | theorems about `PackageCodec` | |
| `PackageQueue` | the worker's queue, its loop, its end | a package is its number |
| `PackageQueueProofs` | theorems about `PackageQueue` | |
| `PackageData` | fields of the commands, copies, serializers | an integer of any width is one cell |
| `NodeSync` | `node_sync` at both ends of one connection | a node is a model value, its real object number 0, proxies numbered from 1; the dispatcher as `RequestReply` leaves it |
| `MCNodeSync` | instances | |
| `NodeSyncProofs` | theorems about `NodeSync` | |
| `PropertySync` | one property, its proxy, and everything that reads and writes them | a value is the number of the change it comes from |
| `PropertySyncProofs` | theorems about `PropertySync` | |
| `Reconnect` | the client's end over successive connections: `connector`, `socket_client`, `client_nonroot`, `cleanup_children` | a node is its kind and the connection its nid was given on; the server replies, adds children, sets values |
| `ReconnectProofs` | theorems about `Reconnect` | |
| `Observable` | `one_to_one_observable`, `acceptor`, `object_status` | a notification is one step in, one step out |
| `ObservableProofs` | theorems about `Observable` | |

`RequestReply` and `PackageCodec` each model their layer in full. The modules
above them (`NodeSync`, `PropertySync`, `Reconnect`) compose the parts of
`node_sync` with a dispatcher as `RequestReply` shows it to behave: packages
in order, replies past the queue, `send` blocking. The same handler may appear
in two of them with different detail: `update_prop` is an exchange of packages
under a lock in `NodeSync`, and a sequence of writes to the copy in
`PropertySync`.

Variables and actions carry the names of the members and functions they stand
for; `PROJECT.json` maps every definition to its lines. A definition marked
*Mutant* is a plausible error in the operation below it (`mutants` in
`PROJECT.json` says which property it breaks); no specification uses it.

**RequestReply.** Dispatcher 0 is the client's, dispatcher *k* the one the
server builds for connection *k*. All state is guarded by `senders_mutex` or
`request_msgids_mutex`, so each critical section is a step; the wait in `send`
is the only place where one is left half way. `SendOk`, `WaitAgain`,
`SendReturns` and `SpuriousWakeup` are `send`; `ReceiveReply`,
`ReceiveRequest` and `ReceiveNote` are `process_notification`; `ReplyOk` and
`ReplyFails` are `reply`. A write on a connection that has broken unnoticed
either vanishes or fails. The listener above replies in any order. Short writes
belong to `PackageCodec`.

`ImplementsCalls` is the specification of `CallService` under the refinement
mapping `StageOf`: a thread between the two halves of `send` is *waiting* until
the peer's listener has replied to its call, then *served*; the ids, the flags,
the condition variables, `in` and the wires are hidden. The abstract
specification includes that calls end. The mapping is only claimed for a
connection that holds; `calls_closed` shows why.

**PackageCodec.** `WriteHeader`, `WriteBody` and `WriteReturns` are `write`
under `write_lock`; the loop of `process_notification` is `DecodeHeader`,
`DecodeBody`, `DecodeReturns`. `Closed` and `Opened` lose and make a
connection, at any point of both. `torn`, `begun` and `headed` are history
variables.

**PackageQueue.** The run flag is a plain `bool`; a read that nothing orders
after the destructor's write gives either value.

**PackageData.** A package grows by a header each time it is copied: once as
the argument of `send`, twice as a reply, never through `write`. Each command's
fields are built and read as in the handlers.

**NodeSync.** A step runs from one blocking point to the next. Each thread has
a program counter; `get_nid` is shared by its callers and continues at
`then`. `current_nid++` is a load and a store because the io thread does it
without a lock. `Programs` is a set of records: the shape of the tree, the
end each node is created at, and what each application may do. A behaviour
picks one of them at the start, so that one run covers several uses. Assumed of the tree (external, a submodule without sources):
attaching under a name that exists changes nothing; attaching calls
`child_added` of the listeners of the parent; `add_listener` reports nothing
about children attached before. All nodes are properties of known types.
`update_prop` returns early when `update_in_process` is set; that case is in
`PropertySync`. Two branches
(an unknown nid in `update_prop` and in `cmd_attach`) are kept although they
cannot be taken while the connection holds.

**PropertySync.** `real` is the property at its owner, `cache` the copy in
`property_value_fake`. `SetValue` and `RequestSet` are `set_value` of the
proxy; `UpdateProp` to `GetReturns` are `get_value`; `FindProp` to `ApplyEnds`
are `process_prop_value`; `UpdatedSerialize` and `UpdatedWrite` are `updated`,
two steps because no lock covers both. The owner's packages all pass its
queue, so its wire and queue are one sequence; at the proxy replies overtake
the queue. `past`, `stale`, `told` and `races` are history variables. Assumed of
the properties (external): a change is `set_value` followed by
`notify_change`, which calls every listener in the thread of the change.
The values are of the plain types, whose `deserialize` calls `set_value`.

**Reconnect.** `io` is the one thread on which asio runs all handlers,
`pending` what has been handed to it. `socket_client::write` is three steps:
look at `is_connected`, write, clear `is_connected` after an error. `After`
chains what a thread does next, the way `child_added` and `cmd_child_added`
call `get_nid` and `write`. Every connection meets a `server` that counts from
1 again. `late` and `carried` are history variables. The nodes the application
attached itself are taken out of the tree as well by `cleanup_children`
(`node_sync.cpp:835-840`), and not announced again afterwards; the model
erases their entries and keeps no tree.

**Observable.** `main` registers and destroys, `io` notifies; the destructors
of a listener and of the acceptor are split where they take a mutex. Moving a
listener to another observable locks three objects in turn.

## 3. The runs

| run | configuration | shows |
|---|---|---|
| `calls_safety` | 2 client threads, 1 server thread, 2 calls each, 2 connections, any loss | ids, wakeups, calls; own response for a lone sender |
| `calls_end` | the same threads, 1 connection that holds, 1 package without reply | the dispatchers implement `CallService`, its liveness included |
| `calls_closed` | 1 thread at each end, 1 connection that may break | **violation**: the `send` in progress never returns |
| `nodes` | 4 nodes, created by one end or in turns, listed, fetched and read by the other | nids agree and are kept, own replies, tree and map agree, children arrive, calls end |
| `nids_race` | both ends create | **violation**: one nid for two nodes |
| `calls_crossed` | both ends read each other | **violation**: deadlock over `tracked_mutex` |
| `codec_torn` | 3 packages of 1 to 3 bytes, 2-byte header, pieces up to 4 bytes, short writes, 2 connections | order, nothing kept, delivery; only torn packages do harm |
| `queue_stop` | 4 packages and the destructor | order, no lost wakeup, join ends |
| `data_arrives` | all strings up to 3 over {NUL, 1, 2}, lists of up to 3 names | round trips |
| `values` | 2 changes by the owner, 3 operations through the proxy, in 3 programs | copy and listeners agree with the property at rest, reads are fresh and end, no echo |
| `connection_lost` | 2 connections, 2 nids each, 2 operations, with and without `do_reconnect` | `is_connected` and nids are right again, the client comes back |
| `lifetime` | 2 observables and the acceptor, 2 listeners, 6 operations | pointers agree, nothing destroyed is used, registration ends |

### Why the bounds are enough

* Two threads on one dispatcher with two calls each reuse an id, share `in`,
  and fail in every order; `reply_flag` is 4, so that a leak of four ids would
  reach the reply bit. Two connections are the fewest with something stale.
* A parent that is announced, a child that was attached before the peer
  subscribed (and so is tracked by the worker, on a fetch) and another one
  tracked by the application at the same time are three nodes; the fourth is
  the other end's.
* Pieces of up to four bytes end inside headers and bodies and hold the end of
  one package with the start of the next.
* Four packages let the destructor act before, while and after the worker
  sleeps, with work left in the queue.
* Five values of a property allow an update, a set and a get to be under way
  together with another change behind them. Each of the three races that
  `AgreeWhenQuiet` excuses happens within these bounds, and each excuse is
  needed: without any one of them the property is violated.
* The second connection is the first on which something of another one can be
  wrong. One of the two operations is under way when the connection is lost,
  the other begins afterwards. `late`, `carried` and both cases of `Stuck` are
  reached, and each is needed.
* Two observables and two listeners let one listener replace another, move, be
  registered twice at the same place and be destroyed in each of these
  situations.

Deadlock checking is off: every instance stops when its bounded calls are used
up.

### Fairness

The io thread reads while there is data, the worker and every awake thread
run, the listener replies to what it was handed, the client keeps connecting
(`socket_client::data_ready` always asks for it). Nobody is obliged to start a
call, to lose a connection or to wake up without cause. Weak fairness
suffices for `tracked_mutex`: operations are finitely many, so a lock that is
free again and again is finally free. Two steps have strong fairness:
`ConnectSucceeds` in `Reconnect`, where the environment refuses attempts but
not forever, and the thread that registers in `Observable`, which takes
mutexes the io thread takes again and again.

### The violations

Each contradicts what an interface comment says (see `findings`):

1. `calls_closed`: nothing wakes a sender when the connection is lost
   (`package_stream.cpp:231`). In `node_sync` such a thread may hold
   `tracked_mutex`, which `cleanup_children` needs on the io thread.
2. `nids_race`: `current_nid++` without a lock (`node_sync.cpp:727`). Taking
   `tracked_mutex` there is not the remedy: the mutant `LoadForPeerLocked`
   does, and breaks `CallsEnd`. The counter needs a lock of its own or
   to be atomic.
3. `calls_crossed`: `fetch_node` and `update_prop` wait with `tracked_mutex`
   held (`node_sync.cpp:48`, `:204`).

### Properties under conditions

Some properties hold only under conditions they state. Each condition names
a window in the code, and the property fails in the same run without it.

* `OwnResponse`: a second sender on the same dispatcher shares `in`; a request
  of a lost connection is replied to on the next one.
* `InOrder` of `PackageCodec`: a short write; a connection that changes inside
  a package.
* `TreeShowsTracked`: a `fetch_node` between the two critical sections of
  `cmd_child_added` (`node_sync.cpp:785` and `:794`) leaves one proxy in the
  tree and another tracked.
* `WokenByOwnReply` holds because senders are serialised by `tracked_mutex`.
  `ls` is the one sender without it (`node_sync.cpp:172`): a client that lists
  while its own worker needs a nid may take the wrong reply. The programs of
  `nodes` do not combine the two.
* `AgreeWhenQuiet`: a `set_value` while the worker deserializes an update of
  the same property is taken for part of it and not sent
  (`property_value_fake.h:47`); an update that arrives while the reply of a get
  is deserialized is dropped (`node_sync.cpp:360`); two threads of the owner
  write two updates in the other order than they serialized them
  (`node_sync.cpp:712`).
* `KnowsItIsUp`: the error of a write on the old socket is recorded after
  `set_socket` has installed the new one (`socket_client.cpp:37`).
* `NidsAreCurrent`, and the null entries in `TypeOK` of `Reconnect`: packages
  of the lost connection that are still queued, or a handler or an
  announcement that was under way, act on the new connection
  (`node_sync.cpp:132`).
* `Reconnects`: the io thread needs `tracked_mutex` while the thread that has
  it waits for a reply only the io thread can read, after a loss
  (`node_sync.cpp:816`) or before the first receive on a new socket
  (`socket_client.cpp:85`); a null entry stops the cleanup; without
  `do_reconnect` one failed attempt ends the client (`socket_client.h:44`).
* `WholeWhenNotified`: a listener is unregistered by the destructor of its
  base, so one that is destroyed while registered may be notified when only
  that base is left (`observable.h:20`). The demo program destroys its
  `conn_server` before the acceptor it listens to.

`PackageData` also makes two limits visible: an empty string cannot be set
(`request_prop_set_value` sends nothing, `IsSent`), and a `QString` is cut at
its first NUL.

## 4. The proofs

Every theorem holds for all values of the constants that the module's `ASSUME`
admits; TLC evaluates the same assumptions on the runs. Each proof module
states inductive invariants (`IInv`, `CallInv`, `CInv`, `NInv`, `SInv`) as
conjunctions of named parts, proves that `Init` establishes them and, in one
lemma per action, that every step keeps them (`Invariance`), and draws the
properties from them. The parts are needed because none of the properties is
inductive alone; TLC has checked them on the instances of section 3.

**`RequestReplyProofs`**, for any finite set of threads, any number of
connections, calls and notifications and any `reply_flag` above the number of
threads (`ConstantsAssumption`):

* `TypeCorrect`: `Spec => []TypeOK`; in particular `msgid` never passes
  `reply_flag`, so no request is taken for a reply;
* `IdsHaveOneOwner`: `Spec => []IdHasOneOwner`;
* `IdsAreConserved`: `Spec => []IdsConserved`;
* `WakeupsAreNotLost`: `Spec => []NoLostWakeup`.

That a new id is below `reply_flag` (`TypeOK`) follows from
counting: by `IdsConserved` the ids up to `msgid - 1` are the stack and the ids
in use, and when the stack is empty they are at most as many as the other
threads (`FreshIdBound`). That the id taken from the stack is nobody's
(`IdHasOneOwner`) needs the stack to have no duplicates (`IdsConserved`), which
`SendReturns` preserves because the id it releases is not on the stack
(`IdHasOneOwner`). `NoLostWakeup` needs `IdHasOneOwner`: the sleeper that
`notify_one` wakes is the only one under the id.

**`CallProofs`** goes on from there:

* `CallsAreSomewhereOnce`: `Spec => []CallIsSomewhereOnce`;
* `ReturnsAnswered`: `Spec => AnsweredBeforeReturn`, an action property;
* `ResponsesAreOwn`: `Spec => []OwnResponse`;
* `CallsAreImplemented`: with `MaxConn <= 1`, `Spec => Service!Safety`, the
  safety half of the refinement of `CallService`.

`CallInv` says of the first connection that every frame and every request
belongs to a thread that waits for it (`FramesBelong`, `RequestsBelong`), that
no call is in two places (`NotTwice`) and none nowhere (`Somewhere`), and that
a flag is set only by the reply to the thread's present call (`Answers`,
`Responses`). The crux is an id that is used again: nothing of the call before
is left anywhere when `send` returns, because by `FramesBelong` it would belong
to a thread that waits, and by `IdHasOneOwner` the id has only one. The refinement is
proved action by action: `SendOk` is `Call`, `SendFails` is `Fail`, `ReplyOk`
is `Serve`, `SendReturns` is `Return`, everything else stutters. `MaxConn <= 1`
is needed: on a second connection a call of the first one waits for good.

**`PackageCodecProofs`**, for any packages and writers, any size of the header,
of the packages and of the pieces, and any number of connections:
`TypeCorrect`, `HandedInOrder` (`InOrder`) and `NothingIsKept` (`NothingKept`).
The invariant is about `Stream`, the bytes in the buffer and on their way
together, which a piece that arrives does not change. While nothing is torn it
is in step: behind every byte come the rest of its package and then the first
byte of a package begun later (`Flows`), it begins at a header or, when a size
is known, at that package's body (`Front`), and it ends with a package or with
the header of the one being written (`Back`). So the bytes the decoder takes
are a header, or a body, of one package, and that package was begun after all
that were handed on (`Handed`). `Writes` says that no package is begun twice,
without which "in order" would not exclude "twice"; `Gapless` counts the
packages on a first connection. The theorem on types holds of torn streams too.

**`PackageQueueProofs`**, for any number of packages: `TypeCorrect`,
`ProcessedInOrder` (`InOrder`) and `NothingBegunAfterStop` (`StopsAtOnce`).
Beside `InOrder` itself the invariant has `OneStop`, that the destructor's null
package is in the queue at most once and only after the push.

**`ObservableProofs`**, for any sets of observables and listeners and any
number of operations: `TypeCorrect`, `PointersAlwaysAgree` (`PointersAgree`),
`UsedExists` (`NothingUsedIsGone`), `NotifiedWhole` (`WholeWhenNotified`). The
invariant ties each place in the code to the mutexes its thread has there
(`Owners`, `Places`), the acceptor's status to what has been destroyed
(`Status`), says that pointers agree but for the pair that `main` is changing
(`Links`), that nobody points at what is gone (`NoDangling`), and what the io
thread has hold of while it notifies (`Running`).

**`ReconnectProofs`**, for any number of connections, nids and operations:
`TypeCorrect`, `KnowsWhenUp` (`KnowsItIsUp`) and `TracksCurrentNids`
(`NidsAreCurrent`). `TypeOK` includes that an idle io thread has exactly one
operation with asio and that null entries only come from carried work. The
argument for the nids: `generate_nid` and `fetch_node` keep `tracked_mutex`
from the request to the entry (`Work`), so neither the cleanup nor
`stream_opened` comes in between, and the nid that is entered was given on this
connection or is the 0 of a failed call (`Locks`, `Replies`). Such a 0 is
entered before `stream_opened` puts the root back, or while `is_connected` is
false (`RootTracked`, `Socket`). What the worker enters came on this connection
unless it was in the queue when the cleanup began (`Current`), and a value only
comes for a node the client has announced (`Announced`).

**`PropertySyncProofs`**, for any number of changes and operations and any
set of programs: `TypeCorrect`, `ProxiesAgree` (`AgreeWhenQuiet`) and
`GetsAreFresh` (`GetIsFresh`). `AgreeWhenQuiet` speaks of the end of all
deliveries; the invariant follows the value through them. While no race has
happened, the newest update that is serialized, on the wire, in the queue or
with the worker carries the property's value (`Updates`); a reply, which
passes the queue, carries it too or is followed by an update (`Answers`); and
once neither is under way the copy has it (`Shown`). For `GetIsFresh` values
must be told apart (`Distinct`), without subscription there are no updates
(`Unsubscribed`), and while the property still has a stale value a request to
set is ahead of any get (`SetAhead`), so that the reply is not stale
(`NotStale`). `Places`, `Mutexes`, `Contents`, `Unsent` and `OneReply` say
which thread can be where, with which mutex and which packages.

**`NodeSyncProofs`**, for any nodes, any set of programs and any number of
operations: `TypeCorrect` and `WokenByOwn`, which is `WokenByOwnReply` under
`LsIsAlone`: the client does not list if the server fetches. The condition is
needed: for a program with both TLC finds a thread in `ls` woken with the
worker's reply. The invariant says where each thread can be and with which
package (`Threads`, `Packages`), who has `tracked_mutex` there (`Locks`), and
that a request, or the reply to it, is in one place while its thread waits and
nowhere afterwards (`Calls`). So when a reply comes, its thread waits and was
not woken before; a second thread of the same end that waits would have to have
the lock too (`OneWaits`), unless one of the two is in `ls`; the other is then
the worker, asking for the nid of a node the peer fetches. The lemmas
`QuietStep`, `NoteStep` and `RequestStep` do for all actions what depends only
on what is sent.

The nids (`NidsAreUnique`, `NidsStay`) are proved from `OneAtATime`: the thread
that reads the server's socket and a thread that has the server's
`tracked_mutex` are not both between the load and the store of `current_nid`.
`nids_race` shows that `NidsAgree` fails otherwise; the theorems show that
nothing else breaks it, for any applications with `LsIsAlone`. `OneCreatorAgrees`
has no such condition: if only one application creates nodes (`OneCreates`),
`OneAtATime` follows (`OneDrawer`), because a nid is drawn for a node of the end
that draws it. `NidsAgree` alone is not inductive; `NInv` adds

* `Trees`: an end has its own nodes themselves and the peer's as proxies, and a
  proxy only of what the peer has;
* `Nids`: an entry of `tracked` is the root's, or one of a node of this end, or
  that of a proxy for a node the peer *owns* under the same nid (`Owns`); what
  an end owns is never replaced;
* `Flow`: what the packages promise while they travel. An announced nid is owned
  by the sender, a nid given to the client is below the counter and unused until
  the client tracks it, and a fetched node is the one asked for;
* `ThreadNids`: the same for what a thread holds in the middle of `get_nid`,
  `fetch_node`, `child_added` and the handlers.

`ProxyTracked` and `OwnTracked` are the two ways into the map; the lemmas about
single actions end in one of them or leave the map alone (`Steady`).

`TreeShows` and `OneCreatorShows` add `SInv`, for applications that do not fetch.
`TreeShowsTracked` could fail if a second proxy were tracked under the nid of one
that is in the tree, as `cmd_attach` and the last critical section of
`cmd_child_added` do not look. That does not happen because the news of a node is
in one place, once (`Once`): with the thread that announces it, on the wire, in
the queue or at the worker, and until the worker is done the tree has no proxy
of that node. `Shown` extends the property to a worker between two critical
sections: the nid it found untracked is still untracked, and the proxy it made is
still the one tracked. An application that fetches breaks exactly this. TLC has
checked `NInv` and `SInv` in the states `OneAtATime` leaves of seven programs,
those in which both ends create among them.

Left to TLC:

* everything with fairness, which is out of the prover's reach: the liveness
  half of `ImplementsCalls`, and `CallsEnd`, `ChildrenArrive`, `Delivered`,
  `JoinEnds`, `PackagesAreServed`, `ComesToRest`, `GetEnds`, `Reconnects`,
  `MainEnds`;
* `PackageData` (`FieldsArrive`, `ValuesArrive`), which is recursive over
  strings and lists and would need induction over data.

## 5. What is not modelled

* The Qt variants (`qt/`): they derive from a class `package_stream` that no
  longer exists and cannot be built with the present sources.
* The tree and the properties: their sources are a submodule that is not in the
  repository. The models state what they assume of them.
* `client::get_root`, which fetches the root instead of being given one; the
  factories of `client_node_generator` (all types are known ones);
  `push_front` of the queue, which nothing calls.
* What `conn_server` does at its end: `clients.clear()` destroys socket clients
  whose receive is pending (`socket_client.cpp:70`).
* Sockets with bounded buffers, and what a sender blocked in one holds up
  (`package_stream.cpp:206`).
* Chains of connections, where a property of one is the proxy of another
  (`property_serializer.h:350`).
* Memory: leaked notification packages, server objects that are never removed,
  and pointers to proxies that are used after an unlock while
  `cleanup_children` deletes them (`node_sync.cpp:359`).
* The server's end after a disconnect: `stream_closed` runs the same
  `cleanup_children` there, so the server's own tracked nodes leave its tree
  although other clients may be connected.

## 6. Plan

1. The server's end after a disconnect, and bounded sockets.
2. What remains of `TreeShowsTracked` for applications that fetch.
