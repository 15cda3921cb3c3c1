# OpenMfx Remote Proxy: TLA+ models and proofs

OpenMfxRemoteProxy loads an OpenMfx plug-in bundle in a separate process. The
OFX host application loads the *proxy plug-in*, which launches the *remote
host*, a process that loads the real bundle, and forwards every OFX action to
it over ZeroMQ sockets, as messages that a vendored flatbuffers library encodes.
This directory specifies that system in TLA+, checks the specifications with TLC
on small instances and proves the central safety properties with TLAPS for all
instances.

Paths below are relative to `src/OpenMfxRemoteProxy` unless they say otherwise;
`flatbuffers/` is `src/include/flatbuffers/`.

## Inventory

| component | state it keeps | operations | talks to |
|---|---|---|---|
| Exported functions, `MfxProxyPlugin` (`plugin/remote_proxy_plugin.cpp`, `plugin/MfxProxyPlugin.cpp`) | `g_MfxProxyPlugin`, `gOfxPlugins`, `m_effects` | `OfxSetBundleDirectory`, `OfxSetHost`, `OfxGetNumberOfPlugins`, `OfxGetPlugin`, `OfxPluginMainEntry` | called by the OFX host; starts the broker thread and the remote process; calls the effects |
| `MfxProxyPluginBroker` (`plugin/MfxProxyPluginBroker.cpp`, `common/MfxProxyBroker.cpp`) | three sockets, its thread, `m_plugin_definition` with mutex and condition variable, `m_rng` | `setup_sockets`, `start_thread`, `broker_thread_main`, `get_plugin_definition`, `generate_message_thread_id` | inproc PUB/SUB with the effects, TCP PAIR with the remote host |
| `MfxProxyEffect` (`plugin/MfxProxyEffect.cpp`) | `m_effect_id`, `m_effect_lock`, its PUB and SUB socket; an `InstanceData` for each instance | `MainEntry`, `Load`, `Unload`, `Describe`, `CreateInstance`, `DestroyInstance`, `Cook`, `IsIdentity` | called by any thread of the OFX host; messages to the broker; replays definitions to the OFX host's suites |
| `MfxProxyHost`, `MfxProxyHostBroker` (`host/`) | the loaded library, sockets, its thread | `set_plugin`, `run_main_loop`, `broker_thread_main` | PAIR; announces the plug-ins; *drops* every action message (a TODO) |
| `MfxProxyMessage` and the schemas (`common/`) | one message | `make_message`, `message_as`, accessors | 4 bytes of effect id, the subscription prefix, before a flatbuffers envelope |
| flatbuffers: `vector_downward`, `FlatBufferBuilder`, tables, vectors, `Verifier` (`flatbuffers/`) | memory with data and a scratch pad; fields of the table under way, vtables, shared strings | create, start, add, end, finish, clear, reset; get, look up, verify | used by every sender and receiver of messages |
| Ownership of buffers: moves and swaps of builders, `DetachedBuffer`, allocators, `MessageBuilder` (`flatbuffers/flatbuffer_builder.h`, `detached_buffer.h`, `grpc.h`) | the block, its allocator and who owns that; slices with counted references | construct, write, clear, reset, swap, move, release; release, serialize and deserialize a gRPC message | `make_message` uses builders as variables; the gRPC part has no caller in this program |
| FlexBuffers (`flatbuffers/flexbuffers.h`) | bytes, a stack of values, pools of keys and strings | add, start and end vectors and maps, finish, clear; read, mutate, verify | nothing in this program |
| Python mockup (`src/python_mockup`) | a prototype of both sides, in two programs, with an answering remote instance | describe only | the same topology |
| `test/dummy_host.cpp` | | a sequential client | the exported functions, through the SDK |

What is hard in it:

* *Concurrency.* Any thread of the OFX host may call any effect. Each effect has
  a lock; the broker thread, its sockets and the PAIR link are shared by all.
* *Matching requests and replies.* Nothing compares `message_id` (always 0) or
  `message_thread_id`. That a call gets its own reply rests on the lock, the
  subscription prefix and the order of messages alone.
* *Lost messages.* A PUB socket discards what has no subscriber yet; `Load`
  sleeps 100 ms and hopes. A reply to a closed socket is discarded too.
* *Failure.* `recv` may throw after the request went out; the remote process may
  die; nobody notices; `receive_message` and the broker's send to PAIR wait
  without a timeout. The OFX host may refuse any suite call of Describe.
* *Starting.* The bundle definition is handed from the broker thread to the
  calling thread through a condition variable without a predicate, with a
  timeout that may race the answer, and a failed call leaves sockets, a thread
  and perhaps a process behind that the next call finds.
* *Order of calls.* The exported functions can be called before there is
  anything behind them, and the OFX host keeps function pointers that index
  arrays a failed or later start may not have filled.
* *Memory.* A message is built from the end, in memory that moves while it
  grows; every reference depends on sizes and paddings that come after it;
  vtables and shared strings are found again by looking into what was built, and
  some of it is taken back.

What must be true, component by component:

* effects: one action of an effect at a time; a call takes no reply but its own
  and reports success only for an action the remote plug-in performed; if a call
  cannot return, it is in `receive_message` or behind such a call;
* broker: no message of a subscribed effect is lost, duplicated or delivered to
  another effect; a stuck effect does not stop the others;
* start: effects, their structs and their ids correspond to what the remote host
  announced, or there are none; later calls change nothing; no call waits for
  ever; a prompt remote host makes the call succeed; what an OFX host has been
  told of stays usable;
* remote host: announces each effect once, answers each request once;
* Describe: what is replayed is what was described, or Describe reports failure;
* messages: what the receiver reads is what the sender put in, at every point of
  the building, and nothing of the process's memory goes with it; what the
  builder builds the verifiers accept; what is sorted can be searched; a change
  in place changes one value; every block of memory and every allocator has one
  owner, and a released buffer keeps its content;
* mockup: as the effects and the start.

`PROJECT.json` lists the hazards line by line, with the properties that watch
them.

## Modules

| module | what it is |
|---|---|
| `RemoteActions` | abstract specification: what a caller of `MainEntry` may rely on |
| `EffectMessaging` | effects, plug-in broker, PAIR link and remote side carrying actions and replies; implements `RemoteActions` |
| `PluginStartup` | the start of the plug-in as a sequence of calls, with the broker thread and the remote process |
| `HostSession` | extends `PluginStartup`: the start composed with everything else the OFX host calls, and its instances |
| `DescribeReplay` | the replay of a description to the suites of the OFX host |
| `PythonMockup` | the two programs of the mockup; implements `RemoteActions` |
| `TwoStacks` | abstract specification: two stacks of bytes |
| `VectorDownward`, `DownwardStacks` | `vector_downward`'s operations, and their use in any order; implements `TwoStacks` |
| `BufferOwnership` | whose memory it is when builders are moved, swapped and released from |
| `FlatBufferReader`, `FlatBufferVerifier` | reading a flatbuffer in place; `Verifier` and the generated `Verify` |
| `FlatBufferBuilder`, `FlatBufferVectors` | `FlatBufferBuilder`; the vectors and readers this program does not use |
| `MessageBuilding` | extends the builder and the verifier: objects of the schemas, and messages, from `CreateString` to `message_as` |
| `VectorBuilding` | extends `MessageBuilding`: the other vectors, and the ways to finish a buffer |
| `FlexReader`, `FlexVerifier`, `FlexBuffers` | FlexBuffers: readers; verifier; the builder, its caller and changes in place |
| `MC...` | the instances that TLC checks |
| `EffectMessagingProofs`, `HostSessionProofs`, `DescribeReplayProofs`, `PythonMockupProofs`, `VectorDownwardProofs`, `BuilderMemoryProofs`, `MessageBuildingProofs`, `MessageReadingProofs` | proofs |

Operators introduced with "Wrong variant" are never used by a specification.
Each is a plausible mistake in the operator after it; substituting it makes TLC
report the property it is paired with in `PROJECT.json`.

### EffectMessaging

The model begins where `OfxSetHost` has returned `kOfxStatOK`. A thread goes
through `MainEntry` in steps that end where another thread can get in between:
`Acquire` (the `lock_guard`), `Connect` (Load's new sockets), `SendMessage`,
`ReceiveMessage` (with all the action does afterwards), `Release`. `SendFails`
is `zmq::error_t` from a socket that is not open and `ReceiveFails` the same
from `recv`; both are what the `catch` in `MainEntry` makes of them. A reply of
another type makes `message_as` throw `std::runtime_error`, which nobody
catches: outcome `"Exception"`.

`wire` holds the messages on every hop: a pipe for each PUB socket ever opened
(`Up`), the message the broker thread holds between `recv` and the blocking send
to PAIR (`Held`), both directions of PAIR, what the remote side is working on
(`Peer`), and the effects' SUB sockets (`Down`). `joined[e]` says in which
directions the subscription has arrived; publishing without it discards the
message. The subscriptions advance only while the broker thread is not blocked,
because ZeroMQ processes them inside calls on the socket.

The remote side answers each `ActionXStart` with one `ActionXEnd`, effects
working independently, as the schema describes and the mockup's instances do.
The remote host of this repository does not do that yet (see "Disagreements").

Abstractions: the fields of a message that nothing reads are left out; a serial
number of each call, which the code does not have, identifies messages in
properties only (the actions compare effect and action type, as the code does);
the replay in Describe and the four actions that exchange no message are
reduced to their status, and have modules of their own; high-water marks of the
queues (1000 messages, against one per effect) and failures to create a socket
are left out.

### PluginStartup and HostSession

One thread calls `OfxSetBundleDirectory` (with a bundle that may have any of
seven faults, or none) or the exported `OfxSetHost`, any number of times up to
`MaxCalls`. The steps follow the code: sockets, thread, files, launch, wait,
definition of the effects one by one. `SetupSockets` fails when the first inproc
address is taken, which it is after any earlier attempt, and may fail at the TCP
address. `LaunchRemote` may throw `boost::process::process_error` past
everything. The broker thread receives and stores the definition in two steps,
since only the second one takes the mutex; `BeginWait` is the point where
`wait_for` has released it. A notification finds the thread `"waiting"` or is
lost. `EndWait` covers notification, timeout and spurious wakeup alike, because
the code then reads the pointer in every case. `DefineEffect` keeps the
comparison `i > MFX_PROXY_MAX_NUMBER_OF_PLUGINS` of the source, records a write
beyond the array in `overrun`, and lets the vector move its elements at any
`emplace_back`. With `AssertsOn` a failed start ends the process, as
`assert(status == kOfxStatOK)` does in a debug build.

`HostSession` runs the start together with an OFX host that, between its calls,
asks for the number of plug-ins, takes structs (by any number, too small and too
large ones included), calls the two entry points in them and creates, uses and
destroys instances. `fault` is the first null pointer, failed assert or index
out of range it meets; nothing happens after it. `careful` remembers whether the
host has so far gone by what `OfxGetNumberOfPlugins` told it: the properties are
about such a host, the actions about any. Every use of an instance, by a careful
host too, ends in `"null InstanceData"`, since `CreateInstance` stores none.

Left out: `m_ofx_host`, which nothing reads; plug-in versions; what happens to a
process after it has written outside an array.

### DescribeReplay

The loops of `Describe` over parameters and inputs, their properties and the
values of these: one action for each suite call and for each turn of a loop. The
message is any of `Replies`; what the schema makes optional may be absent, and
reading it is a null pointer: the parameters and inputs, an item, its name, its
properties, their names and their values; the OFX host may
refuse any call. The handle that a refused `paramDefine` leaves uninitialised is
a wild one or any handle given out before. Names of properties are symbols;
`NameFor` yields the name of the property it looked for, as the code does, and
not its value. `pc = "undefined"` is a null pointer, a wild handle or a failed
assert.

### PythonMockup

The two programs `main.py` and `proxy_plugin.py` (with `proxy_host.py`), which
share their classes. In the second one the main thread and the broker thread
meet at a condition variable whose lock the broker thread holds while it polls;
the remote host may announce itself in time, late, or end before, and with the
Python of `python` its announcement may be unreadable, which ends the broker
thread. `main.py` needs 3.11 for its `StrEnum`, and reads what it writes. In it
workers of a pool share one instance, and its mutex is held from send to
recv. The threads that only pass messages on in order are part of the queues
they read from.

### VectorDownward and the flatbuffers modules

`VectorDownward` has one operator from records to records for each operation of
the class, with memory as a function from indices to bytes or `Undefined`, what
no one has written to. `DownwardStacks` applies them in any order. `TwoStacks`
is all that a `FlatBufferBuilder` wants of it.

`FlatBufferBuilder` is a record with `vector_downward` in it and again an
operator for each operation, byte by byte: alignment, padding, the fields of a
table waiting on the scratch pad, vtables with the list of the older ones at the
other end of it, the pool of shared strings as offsets that are compared in the
buffer. `ok` becomes `FALSE` where an assert fails. `FlatBufferReader` and
`FlatBufferVerifier` translate the accessors and the verifier over a sequence of
bytes; a schema is a function from table types to sequences of fields, which
stands for the generated code.

`MessageBuilding` is the caller: it builds strings, vectors and tables of the
schemas, in any order and with references to anything there is already, begins
again with `Clear` or `Reset` at any point, makes an envelope, finishes it and
copies it into a message as `make_message` does. `objects` keeps what was built,
to compare with what is read. `VectorBuilding` adds vectors of strings (which
wait on the scratch pad), of structs (copied, written in place, sorted), of
bools, of tables sorted by key, nested buffers, and the three ways of finishing.

### BufferOwnership

The same builders seen from outside: several of them, made, moved, swapped, used
again and destroyed in any order, and what is released from them. A block of
memory is a sequence of objects written from its start, with the allocator it
came from. A `FlatBufferBuilder` has the default allocator or a custom one of its
own, which goes with the buffer in `Release` and stays in `ReleaseRaw`. A
`MessageBuilder` is its own allocator (`SliceAllocator`), so that `swap_allocator`
has to swap back what swapping the builders swapped, while the slices do change
places; its move assignment goes through a temporary. `Settle` frees a slice that
nothing refers to any more, as grpc's reference counts do. `ok` becomes `FALSE`
where an assert of a `SliceAllocator` fails, or memory is deallocated by another
allocator or in another size than it was allocated.

### FlexReader, FlexVerifier, FlexBuffers

The whole of `flexbuffers.h` except formatting. `FlexBuffers` is a builder and
its caller: the builder's variables are those of the class; the caller uses what
a *menu* offers it, one menu for each concern (widths, offsets, maps, shared
texts, typed arrays). A byte of a number has `ByteValues` values instead of 256,
so that buffers of some tens of bytes need offsets of two bytes: the point at
which widths and places depend on each other. Two things are not read back as
they were put in, and `AsRead` says which: `IndirectDouble` of a number that a
float holds stores the low half of the double (`flexbuffers.h:1021, 1412`), and
the strings of a typed vector of strings are read as keys, up to their first null. `Visits` and `Revisits` say by how much what the
verifier has seen uses up its limits, for the property that it accepts what is
finished.

## Runs

| run | question | answer |
|---|---|---|
| `messaging_nominal` | no errors: order, matching, loss, return, refinement | holds |
| `messaging_faults` | the remote process may die, `recv` may throw and leave stale replies, slow joiners: duplication, and where a call can stay | holds |
| `messaging_in_flight` | "only one action in flight" (`MfxProxyEffect.h`) when `recv` throws | violated |
| `session` | three calls, every fault, late answers, spurious wakeups, any use in between: safety of the start and of careful hosts, return | holds |
| `startup_overflow` | one plug-in more than the array holds | violated |
| `describe` | any description, complete or not, and any refusal of the OFX host | holds |
| `describe_names` | are parameters and inputs defined under their names? | violated |
| `mockup_programs` | both programs: matching, refinement, return, fate of the remote host | holds |
| `builder_memory` | memory used in any order: refinement of two stacks; builders moved, swapped and released from in any order: ownership | holds |
| `builder_objects` | objects in any order, growing memory: reading back, sharing, searching, finishing | holds |
| `builder_messages` | whole messages, with `Clear` and `Reset` anywhere: asserts, reception, verification | holds |
| `flex` | what is put in, changed and shared is read, found and verified | holds |

Bounds, and why they are enough:

* `messaging_*`: two host threads, so that a lock can be contended; two effects,
  so that routing matters and one effect can be stuck while the other works. In
  `messaging_nominal` and `messaging_in_flight` three calls, which is what
  Load–Describe–Unload of one effect, or a Load of each and one more call that
  meets what they left behind, takes. In `messaging_faults` two calls of any
  effect and thread: a call that fails and one that meets its stale reply, or a
  call that is stuck and one that is not. `SleepSuffices` is `FALSE` there.
  Serials, links and queue lengths follow from `MaxCalls`.
* `session`: an array of two (`MFX_PROXY_MAX_NUMBER_OF_PLUGINS` is 4) and bundles
  of none, one and two plug-ins, so that the loop runs empty, the vector moves an
  element and the array is full; three calls allow a failure, a success and a
  retry after either in every order the code has; one instance handle, which is
  used again after `DestroyInstance`; all faults, and a build without asserts, in
  which the process goes on after a failure. Bundles fit: beyond that the C++
  behaviour is undefined, which is what `startup_overflow` shows being reached
  with a bundle of three.
* `describe`: lists of up to two parameters of three kinds and one input, in
  `CompleteReplies` two of each; properties with no, one and two values, of a type
  that is skipped and with names in every place. Two items are what a stale
  handle needs.
* `mockup_programs`: two workers and four calls: one of the main thread, and three
  of the pool, so that a worker comes back while the other waits; Python 3.10 and
  3.11, between which the enumerators changed. The remote host is assumed to run
  with the same version.
* `builder_memory`: for the content, an initial size of 3 aligned to 2, and up to
  four bytes in either stack: memory grows several times, in steps that the rounding
  changes and that are larger than the half of the old size. For the ownership, two
  builders of each kind, of which two at a time exist, one custom allocator, two
  blocks, two holders and up to two objects in a buffer: a swap, a move and a
  release take two of each, and a second object makes memory grow. A behaviour is
  about one or the other. Builders, blocks, holders and objects are symmetric.
* `builder_objects`: an initial size of 8, so that memory grows within every
  object; up to 5 objects of the properties' tables with every field present,
  absent or default and in any order, which is a name, a vector of doubles, a
  value and two properties that share a vtable; with `VectorBuilding` up to 4 objects, at
  most two of which are not tables, which allows a sorted vector of two tables
  and a vector next to another. A behaviour is about one or the other.
* `builder_messages`: two buffers of 2 and 5 objects: the first is given up at any
  point, the second is large enough for the announcement of two plug-ins in an
  envelope. Ids of 70000 and 300 need more than two bytes and one.
* `flex`: four values put in, two buffers, one change, and blobs and texts that
  bring offsets to the next width with `ByteValues = 8`; numbers that a float holds
  and that it does not. `max_depth` is 3, so that nesting passes it, and so do
  references to what the tracker has seen. The other limit, on visits without a
  tracker, is the size of the buffer: only vectors that refer to each other over
  several levels reach it, which four values do not make.

`CHECK_DEADLOCK FALSE` is set where a run ends by design: the remote process
dies, requests are lost, the programs of the mockup end, or a builder has reached
its bound. Elsewhere deadlock is checked, and the explicit stuttering steps
`AllReturned`, `Finished` and `Faulted` mark the places where the OFX host is
allowed to be done.

### Disagreements that runs show

1. `plugin/MfxProxyEffect.cpp:192`: after `recv` throws, the failed action is
   still under way when the next one of the effect is sent, against
   `plugin/MfxProxyEffect.h:33-34`. The trace ends with both requests on their way.
2. `plugin/MfxProxyPlugin.cpp:114`: off by one, `>` where `>=` is meant; a bundle
   of five plug-ins writes beyond `gOfxPlugins`.
3. `plugin/MfxProxyEffect.cpp:92`, `:94` and `:118`: a parameter or input is
   defined under the name of the property `kOfxPropName`, and not under its
   value, which is then skipped as "already set by paramDefine".

### Observed in the source, without a run

* `host/MfxProxyHostBroker.cpp:73` ("TODO handle the message"): the remote host
  drops every action; the first Load, which `test/dummy_host.cpp:25` causes, never
  returns.
* `plugin/MfxProxyPluginBroker.cpp:111`: `wait_for` without a predicate takes a
  spurious wakeup for an answer, and `assert(status == kOfxStatOK)`
  (`plugin/remote_proxy_plugin.cpp:68`) fails for a healthy remote host.
  `LaunchSucceeds` is stated for starts without such a wakeup.
* `plugin/MfxProxyEffect.cpp:164`: `InstanceData` is never stored, and read.
* `common/MfxProxyMessage.h:59`: the buffer is embedded at offset 4, whatever
  `GetBufferMinAlignment` (`flatbuffers/flatbuffer_builder.h:214-216`) asks for.
* `src/python_mockup/proxy_lib.py:70`, `main.py:262`: `proxy_plugin.py` may publish
  its request before the broker's subscription has arrived.
* `proxy_lib.py:49, 230`: from Python 3.11 on an enumerator of `(str, Enum)` formats
  itself as `MessageType.RemoteHostStarted`, which `from_bytes` refuses: the broker
  thread ends by the exception and the main thread waits for ever. Both versions are
  in `mockup_programs`, and `StartReturns` names the exception. `main.py` uses
  `StrEnum` (`main.py:4, 161`), which formats itself as its value.
* `flatbuffers/flatbuffer_builder.h:136`: `Swap` exchanges the string pools, whose
  `StringOffsetCompare` (`:1169`, `:1176`) keeps the address of the `buf_` of the
  builder that made it: after a move or a swap shared strings are looked for in the
  memory of another builder, or of a temporary that is gone.
* `flatbuffers/flatbuffer_builder.h:790, 1187`: `StartVector` is told the size of
  structs in units of their alignment, and pads the length field wrongly for
  structs of alignment 1 whose size is no multiple of 4. `:1026`: the pointer of
  `CreateUninitializedVector` dangles once memory grows.
* `flatbuffers/flexbuffers.h`: `IndirectDouble` of a value that a float holds writes
  the first four bytes of the double, which are read as a float (`:1021`, `:1412`): 1.0
  comes back as 0, which `ReadBack` states as an exception. `EndVector` accepts typed
  vectors of strings, which are read back as keys (`:635-652`), the other one. `MutateBool` copies as many bytes as the
  bool has in the buffer from a variable of one byte (`:696`, `:755`), so that
  `MutationLocal` excepts wide bools. The verifier with a `reuse_tracker` does not
  count its depth down on a revisit (`:1737-1750`): with the default `max_depth` of
  64 it refuses a valid buffer with more than 64 references to one shared string, and
  `FinishedVerifies` says of which buffers acceptance is promised. `Clear` keeps
  `has_duplicate_keys_` (`:948`); `VerifyKey` accepts at the first byte that is
  not 0 (`:1789`).

### Fairness

* Messaging (`FairSpec`): every host thread inside `MainEntry`, the broker thread
  and the remote side keep taking steps they can take (weak fairness of each): the
  operating system schedules them. The broker's steps are one fair action, since
  `MaxCalls` bounds the messages it can be busy with.
* Start (`FairSessionSpec`): the calling thread, the remote process and the
  broker thread, each of which is scheduled. `wait_for` ends in the end: its
  timeout is part of the calling thread's fair step.
* Mockup (`FairSpec`): its threads; a worker's steps are one fair action for all,
  since `Lock` promises nothing to any one of them.
* The OFX host is never obliged to call, the remote process never to crash,
  `recv` never to fail, and no wakeup ever to be spurious: these actions have no
  fairness.
* `messaging_nominal` assumes that the remote plug-in performs each action in
  finite time (`PeerStep`) and that the sleep of 100 ms in Load suffices;
  `messaging_faults` drops the second assumption. `mockup_programs` assumes that
  the sleep of a second in `main.py` does. A launched process without a fault
  answers within the 5000 ms: that is what the fault `"slow"` is the lack of.

## Proofs

Assumptions on constants are named where the constants are declared, and TLC
evaluates them in every run.

`EffectMessagingProofs` (any threads, effects, number of calls):

* `TypeCorrect`, for every combination of failures;
* `OneActionInFlightHolds` and `RepliesMatchHolds`, assuming that `recv` does not
  throw (`RecvMayFail = FALSE`); the remote process may still die, and the sleep
  may be too short. The run `messaging_in_flight` shows that the assumption is
  needed;
* `NothingDuplicatedHolds`, for every combination of failures;
* `NoMessageLostHolds`, with a remote process that lives and a broker that starts
  within the sleep (the run that checks the property has the same constants);
* `ActsAsRemoteHolds`, the refinement of `RemoteActions`, assuming that `recv` does
  not throw.

`OneActionInFlight` and `RepliesMatch` are not inductive. `RepliesMatch` says what a thread has received,
and to keep it one has to know that the only message that can be in a SUB socket
is the answer to the call whose thread waits there. The inductive invariant
`MessagingInv` therefore adds: the lock of an effect is held by exactly the
thread inside the guarded block (`LockInv`); every message anywhere is awaited
by a thread in `receive_message` with its effect, action and serial
(`AwaitedInv`); a SUB socket holds its own effect's messages only (`RoutedInv`);
and no two messages are of the same effect (`OnePerEffect`). From the last three
and the lock follows that a reply can only be the waiting thread's own. The proof
first shows what each step does to the links (append, drop, move), from which
every message after a step that sends no request was already on its way before
(`Carries`), and then treats the send as the one step that adds a message:
nobody else awaits one of that effect, because the sender holds the lock.

When `recv` may throw, that invariant fails, and `NothingDuplicated` rests on the
serials instead (`SerialInv`): no serial is at two places, none on the way has been
taken, and those to come have not been used. `NoMessageLost` needs to know that
the reply has somewhere to go: the sockets of an effect are joined while one of its
threads waits (`JoinInv`, `RecvJoined`), and the request a thread waits for is
its own (`OwnInv`), or its reply is on the way (`DeliveryInv`). For the
refinement, `StageInv` relates where a message is to whether its action has been
performed, and `OutcomeInv` what a thread is about to return to it; the step of the
remote side is `Perform`, the end of `MainEntry` is `Return`, and every other step
a stutter.

`PythonMockupProofs` (any workers and calls, both programs): `AnswersMatchHolds` and
`ActsAsRemoteHolds`. `MockupInv` says that of the one call inside the mutex at
most one request or answer is anywhere, that answers bear the serial of that call,
and that the host has performed what it answers.

`HostSessionProofs`, of `PluginStartup` (any `MaxPlugins`, any bundles, any number of calls):

* `TypeCorrect` and `NoTerminateHolds` without further assumptions: a retry never
  reaches `std::thread` assignment, because the address bound first stays bound;
* `AllOrNothingHolds`, `PluginsFixedHolds`, `PluginsFitHolds` and
  `LaunchSucceedsHolds`, assuming `BundlesFit`, that no bundle is larger than the
  array; the last one whether or not other launches are slow or meet a spurious
  wakeup.

`StartupInv` adds to the properties that only one call ever gets past
`setup_sockets` and that what later stages set is untouched before them
(`OnceInv`), that what is stored was announced by the process that was launched
(`StoredInv`), and that the loop has defined the effects `0 .. i - 1`
(`EffectsInv`). `WaitInv` says that the call that launched the process is still
waiting for it, or everything is there.

Of `HostSession` (any instances too), assuming `BundlesFit`: `SessionTypeCorrect`, `OfferedFilledHolds`, `CarefulHostSafeHolds`. A step of the
session is a step of the start or leaves the start alone, so `StartupInv` is an
invariant of it; `GivenInv` adds that what has been handed out was there then,
and since effects are never taken away (`PluginsFixed`'s argument) still is.

`DescribeReplayProofs` (any messages with distinct names in a property set):

* `TypeCorrect`, `FailureKeptHolds` and `NothingInventedHolds` for any OFX host;
* `FaithfulReplayHolds` and `NoUndefinedHolds`, whose statements are about hosts
  that accept the definitions. `DescribeInv` says that as long as nothing has been
  refused, the lists before the cursor are replayed in full (`ListInv`), and of the
  current item exactly the values before the cursor are set, on the handle of that
  item (`ItemInv`).

`BuilderMemoryProofs`, of `DownwardStacks` (any initial size, alignment and contents):
`IsTwoStacksHolds`, the refinement of `TwoStacks`, in which the stacks never meet.
`Good` is the inductive invariant of a `vector_downward`; for each operation a lemma says
that it keeps `Good` and what it does to both stacks, growing included.

`VectorDownwardProofs` has the lemmas, which `MessageBuildingProofs` uses too.

`BuilderMemoryProofs`, of `BufferOwnership` (any builders, allocators, blocks, objects and sizes):
`TypeCorrect`, `OwnedOnceHolds` and `ReleasedKeptHolds`. Neither property is inductive:
`OwnedOnce` counts owners and says nothing of what the owner believes about its block.
`OwnershipInv` adds that a builder's vector, or a released buffer, knows the
allocator and the size its block came with (`OwnsIts`); that a custom allocator is owned
by what uses it (`Plain`), and a `MessageBuilder` uses the allocator beside it, whose
slice is the vector's block (`Message`); that what has been released is written to by
no builder (`Kept`); and that a builder that does not exist has nothing, which is what
the temporary of a move assignment starts from. `Owned` is the part that a step may
reach half way, with slices that nothing refers to any more. Its lemmas are
about the small steps that the code composes its operations of (a vector drops,
allocates or hands over its block, two builders change places, a slice is taken or
lost), for any state; a move assignment is an exchange and a destruction.

`MessageBuildingProofs` (any schemas, contents, sizes, alignments, growth of the
memory and number of buffers): `BuildInvHolds`, `NoAssertFailsHolds` and
`NothingUninitialisedHolds`, under `MessageAssumption` and `TablesAssumption`:
what is built is bytes, the scalars of tables are bytes or ints, other scalars have a
width that C has, scalars are aligned to their width and structs are made of bytes or
ints, each field's place in a vtable is a `voffset_t`, a union's type is a byte, and the
envelope has the fields of `MessageEnvelope`.

That no unwritten byte is sent is not inductive: data is copied out of the scratch
pad (into vtables), pieces are taken back, and both stacks share the memory, in
which a `FieldLoc` leaves two bytes that nobody writes. `BuildInv` adds what is in
the scratch pad (`Tracked`: the kept offsets of vtables, then a `FieldLoc` per field,
written but for its padding), that the pool and everything built name places in the
data (so that every reference passes `PushElement`'s assert), and that while a
table is open the `FieldLoc`s are those of the fields added to it, each once (so that
`EndTable`'s assert holds). `Sound` is the part about the builder alone. For each
operation of the builder a lemma says that it keeps `Sound` and only puts bytes in
front of the data (`Grown`, `Extends`, `Adds`, `Ends`, `Finishes`): what was there
stays where an offset from the end finds it. The proofs follow the operations:
alignment, scalars, strings, vectors, tables with the vtable that stays or is taken
back, the envelope, `Finish`, `Clear` and `Reset`.

The builder's loops are recursive functions, and two lemmas stand in for
induction. `SetInduction` says that a set with 0 and the successors of its members
has every number, from the library's `WFMin`, which takes sets and no operator.
`Recursion` says that a recursive definition has a solution if what it asks is of
lower rank, by the same induction on the ranks for which one exists. With them
`FlattenSeq`, `PushOffsets` and the maxima and minima that `CHOOSE` picks are what
they should be for every input.

`MessageReadingProofs` (the same, and any order of calls): `ReadBackHolds`,
`SharedOnceHolds`, `MessageIntactHolds` and `SentVerifiesHolds`, each under `[]LimitsKept`. `LimitsKept`
is what the builder asserts of its size (below 2 GiB, `ensure_space`) and of a table
(below 64 KiB, `EndTable`): beyond it offsets do not fit the fields that hold them,
and the properties are false. The buffers of the runs have a few hundred bytes.

`ReadBack` is not inductive: it says what a reader finds by following offsets and not
which bytes that rests on, so nothing says that a later write leaves those bytes
alone. `ReadInv` describes each object by *blocks*, bytes at an offset from the end
of the data (`TextIn`, `ScalarsIn`, `TablesIn`, `TableIn`). One lemma, `BlockStays`, says that a
block survives whatever is pushed in front of it, and from there on each operation
is shown only to add its blocks; another half of the module shows that a reader of
these blocks finds the value (`ObjectIsRead`). `ReadInv` further says that the vtables
whose offsets are in the scratch pad are in the data and, when the builder shares
them, pairwise different (`KeptIn`), that each table points to one of them (`PointsInto`), that the strings of
the pool are there and different (`PoolIn`), and that an open table's fields are in
place or left out because they are the default (`Filled`). That `EndTable` may take back the
vtable it has just written is safe because nothing points to it yet and the one it
points to instead is equal. `SentInv` says what of this the copy of a message keeps
(`Shows`): the root leads to the envelope, whose fields are those given.

That the `Verifier` accepts a message (`SentVerifies`) needs more than that it can be
read. The blocks of `ReadInv` also say where they may be: distances, lengths and
fields at offsets that are multiples of what the `Verifier` asks for (`at % f.align = 0`,
`off % 4 = 0`, `vt % 2 = 0`), a zero after each string, the end of each vector within the
data, and a vtable shorter than the buffer. `RefInv` says that what an object refers
to was built before it and is of the type that the schema, or the union's type field,
tells. The `Verifier` recurses over tables with its `max_depth`: `VerifyTablesUnfolds`
shows with `Recursion`, ranked by the depth left, that the recursion is defined, and
`AllVerify` goes by induction on how many tables are in each other. The theorem holds
for every schema of which that number, `depth[T]` for each type of table, is at most
64 (`Nests(depth)`): `DepthsAssumption` has TLC check that the schemas of the runs have
such a `depth`. In `MfxFlatbuffersMessages.fbs` it is 6: envelope, `ActionDescribeEnd`,
`OfxMesh`, `OfxAttribute`, `OfxProperty` and its value. A buffer of a schema without one
can be refused. Vectors of strings, of which `OfxPropertyStringNValue` has one, are not
among the fields here; `VectorBuilding` builds them and reads them back.

Sorted vectors are the same for every input: `StableSortSorts` says that the ranks of
the elements are a permutation of them (an injection of a finite set into itself is onto),
that it puts the keys in order and that equal ones stay as they were;
`LookupFinds` that halving a vector in order of its keys loses no element (`Recursion`,
ranked by the distance of the ends, and induction on it); `SortedStructsFound` puts
the two together for structs whose keys are read from their bytes. That what is then
written and read from the buffer is this vector is `KeyedFound`, on a small instance.

Only model-checked: liveness (`CallsReturn`, `OnlyRepliesBlock`,
`AnswerableCallsReturn`, `SetHostReturns`, `PoolReturns`, `StartReturns`,
`AnnouncedIsReady`), which the prover's tools do not cover; the
vectors of `VectorBuilding` as they are in the buffer (`KeyedFound`, of which only sort
and search are proved, and `FinishedFound`; `NothingUninitialised`,
`ReadBack` and `SharedOnce` are proved of `MessageBuilding`'s `Spec` and checked of
`VectorSpec`, which has more operations); and FlexBuffers, whose
modules have `RECURSIVE` operators, for which the prover has no SMT backend.

## Not modelled

* The vendored headers that no translation unit of this program uses: reflection
  and its generated code, the interface of the schema compiler, registries,
  hashes, file utilities, `stl_emulation.h` and the string conversions of
  `util.h`; and the build files.
* Of flatbuffers in use: changes in place of tables; the limits of 64 KiB on a
  table and 2 GiB on a buffer; the limit of `Verifier` on the number of tables. Of FlexBuffers:
  `ToString`, reading strings as numbers, moving a builder.
* Of ownership: the string pool, which `Swap` exchanges (see above); allocators that no builder owns; the `Release` that a
  `MessageBuilder` inherits, whose `DetachedBuffer` would point to the allocator in the
  builder; small slices, which grpc keeps inside the slice; `vector_downward`'s
  own move (`flatbuffers/vector_downward.h:48-68`), which leaves `size_` behind and
  which nothing uses.
* `generate_message_thread_id`: two threads race on one `mt19937`, but nothing
  compares what it yields.
* The answering of actions by the remote host, which is not written yet; an
  `ActionXEnd` without a status.
* The OpenMfx SDK, ZeroMQ and Boost, beyond what the code uses of them; logging;
  `simple.py`; `test/dummy_host.cpp`, whose calls are among those the models make.

## Plan

Done: `RemoteActions`, `EffectMessaging`, `PluginStartup`, `HostSession`,
`DescribeReplay`, `PythonMockup`, the builder, reader, verifier and FlexBuffers
modules, and the proof modules. Left, in order of importance:

1. Proofs: the operations of `VectorBuilding`.
2. `ProxySystem`: start and messaging composed, so that actions meet a start
   that failed or is still running.
3. The limit of `Verifier` on the number of tables, and messages that were not built by a builder.
4. The remote host's answers, once it has them.
