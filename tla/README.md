# Ruminate in TLA+

Ruminate lets a C program look at its own types and its own stack. The program
links a library (`src/*.cpp`); the library spawns a controller
(`python/ruminate-dbgsvr.in`), which attaches lldb to the very program that
spawned it and answers questions over Ice. `util/ruminate-jansson` uses the
library to turn any value into JSON and back.

The central difficulty is that the program is debugged by a process it waits
for. A question about the caller's stack needs the program *stopped*, so the
program sends the question without waiting, runs into a breakpoint, and waits
for the answer once it is continued; in the controller one thread answers
requests and another receives what happens to the program, and both continue
it. Around this sit a start and an end in which either side may die, a set of
reference-counted objects with caches filled from the answers, and a codec that
follows types which may fail to be had.

File paths are relative to the repository; `ruminate.cpp:250` is
`src/ruminate.cpp`, line 250.

## 1. Inventory

| component | state | operations | talks to |
|---|---|---|---|
| Client life cycle (`src/ruminate.cpp`) | the global `ruminate` (communicator, factory, debugger, `arp`, child pid), atexit registrations | `ruminate_init`, `ruminate_destroy`, the exit handler and destructor | spawns the controller, reads its port, `create` and `shutdown` of the factory |
| Calls (`src/ruminate.cpp`, `src/array_type.cpp`) | the pending `AsyncResult`s | `ruminate_get_type`, `ruminate_backtrace`, array members, `ruminate_get_function_name`, `ruminate_get_types_by_name`, every getter | requests to the debugger; the breakpoint function |
| Server and factory (`ruminate-dbgsvr.in`, `debugger_factory_impl.py`) | the communicator, `debuggers`, the object adapter | `Server.run`, `create`, `shutdown` | debugger, event machine |
| Debugger (`debugger_impl.py`) | target, process, breakpoint | attach handshake, `getTypeByVariableName`, `getBacktrace`, `getTypesByName`, `getFunctionName` | event machine, `StoppedThread` |
| Event machine (`lldb_em.py`) | `callbacks` by state, `shutdownRequested`, `begun` | `begin`, `run`, `onEvent`, `addCallback`, `removeCallback`, `shutdown` | receives lldb's events, calls whatever is registered, continues unexpected stops |
| Stopped threads (`stopped_thread.py`) | the `Event` of one stop | `__enter__`, `__exit__` | registers with the event machine, continues the process |
| Object model (`src/type.cpp`, `type_member.cpp`, `aggregate_member.cpp`, `frame.cpp`, `string.cpp`) | reference counts, owned objects, lazily fetched name and type, cached values | `_new`, `_ref`, `_unref`, getters | the controller, on first use |
| Typed memory (`src/memory.cpp`) | count, size and type in front of each block | the `r_mem_*` functions and macros | types |
| Classification (`*_type.cpp`, `type_impl.py`) | the ids of a type at each level | `r_type_new` and the alloc, init, destroy and free of each kind | `Type.getId` |
| Type servants (`type_impl*.py`, `type_member_impl.py`) | one servant per answered type | the interface `Type` | lldb |
| JSON codec (`util/ruminate-jansson`) | flags and hooks of a `JsonState` | `json_serialize`, `json_deserialize`, add and remove hook | all of the above |
| Error reporting (`include/ruminate/errors.h`, `src/common.cpp`) | - | `gxx_call` turns exceptions into `GError`s | every caller |

**What is hard.** Four threads meet in one call: the calling thread, the others
of the program, the dispatch thread and the event thread. Nothing orders the
arrival of the request before the arrival of the stop it announces. A stop is
not labelled: each callback asks the debugger again whose it is. The process
is continued from three places, always as a whole. `shutdown` may come from the
dispatch thread (asked by the program) and from the event thread (the program
died) for the same debugger, and one of them must not wait for itself. Failing
calls of `ruminate_init` leave the library half built. Several threads fill the
same cache without a lock. In the codec, "no JSON", "an error" and "a null
pointer" are three things one pointer has to tell.

**What makes each component correct.**

* Calls: a stack is read only while its thread stands at the breakpoint and
  nobody continues the program under the reader; a stop has one thread that
  will continue it; each request has one answer, which arrives after the
  breakpoint; calls return.
* Event machine: callbacks neither outlive their call nor answer a stop that
  is not theirs; unexpected stops are continued; `shutdown` ends the loop.
* Life cycle: after a successful init the program is as calls assume it;
  destroy returns and lets the program go; the controller does not outlive
  either of them.
* Object model and memory: counts cover references; owned objects are alive;
  nothing is used after it was freed or lost.
* Codec: a value survives a round trip; what cannot be represented is left out
  and nothing else is; errors are reported at every depth.

The hazards, each at its line and with the properties that face it, are in
`PROJECT.json`.

## 2. Modules

```
 StopTheWorld   <--implements--   Rendezvous
                                      ^  what a program may do after init:
                                      |  its Init is what ReadyForCalls says
                                  Lifecycle
 Oracle  <--implements--  Caches  <--extends--  Memory

 References      Types            Json            Cleanup

 proofs (TLAPS):
 Rendezvous  <--  Rendezvous_proofs  (its invariants, its requests, StopTheWorld)
 Lifecycle   <--  Lifecycle_proofs
 References  <--  References_proofs
 Caches      <--  Caches_proofs  <--  Memory_proofs  -->  Memory
 Cleanup     <--  Cleanup_proofs
 Types       <--  Types_proofs
 Json        <--  Json_proofs
```

`MCRendezvous`, `MCReferences` and `MCJson` only add symmetry sets and concrete
inputs for TLC. Four modules look at the same objects, each from one side:
References counts who points to whom, Caches has the values kept in them, Types
what struct they are, Memory the blocks that carry them. Json and Cleanup share
the functions of the codec: Json computes what they return, Cleanup follows what
they hold on to on every way out.

### StopTheWorld (abstract)

What the controller promises: a thread asks a query or for something of its own
stack; the controller inspects at most one stack at a time; no thread of the
program moves meanwhile; what is answered to a stack request was read for that
request, or is a refusal; an answer is taken once at most. No sockets, events or
breakpoints, and no word of which thread takes the answer.

### Rendezvous

| state | code |
|---|---|
| `process` | the state lldb has of the program; "aborted" after a failed assertion or `std::terminate` |
| `pc[t]`, `calls[t]` | where thread `t` is between `begin_` (`ruminate.cpp:253,261`), the breakpoint function (line 38) and `end_` (255, 267) |
| `op[r]`, `sent[t]` | what request `r` asks; a request is the first, second, ... of a thread |
| `arp`, `ending[t]` | `ruminate->arp`, one for all threads, and the request that thread `t` was given from it by `end_` |
| `requests`, `reply` | the Ice connection, which delivers in order and loses nothing, on one machine |
| `dispatch`, `serving`, `result`, `signalled` | the one thread of the server thread pool (default size 1) within a servant's method, `stoppedAtBreakpoint` |
| `events`, `callbacks`, `em`, `emIndex` | the listener's queue, `callbacks[eStateStopped]`, the event thread and its position in the loop of `onEvent` |

Client actions are the calls. `ruminate_get_type_by_variable_name` keeps its request
in `ruminate->arp` and so comes apart at every use of it: the assertion (`AssertHolds`,
`AssertFails`), the request (`BeginGetType`) and its store (`StoreArp`), `end_`, which reads
it anew (`EndGetType`) and waits for whatever request it finds (`TakeType`), the reset
(`ClearArp`) and the question for the type's id (`QueryTypeId`). A request that was ended before, or
none, is refused by Ice (`Ended`). `RaceOnArp` is what unsynchronised reference counts may end
in. `BeginStop` is `ruminate_backtrace` and the first use of an array's members, `BeginQuery` every
synchronous request, `BeginFails` a request that cannot be made, `EndBacktrace` and `EndOther`
take answers.
`HitBreakpoint(S)` stops the program with all of the threads `S` that reached
the breakpoint. `EnterStop` ... `ExitStop` are `StoppedThread`; `ReceiveStop` ...
`EndLoop` are one round of `LLDBEventMachine.run`, with the loop over a list that
its callbacks shorten modelled by position, as Python iterates. A method of the
servant that raises is `EnterFails` (before a callback is registered) or the
"error" of `InspectStack` (the `with` statement still runs `__exit__`).

`Continue` and the delivery of stops are lldb's, `Send`, `Dispatch` and `SendReply`
are Ice's; they are marked external.

### Lifecycle

One program, one controller at a time. `cpc` walks through the steps of
`ruminate_init` (each may fail), `ruminate_destroy` and exit; `lib` says how far
the global object is built; `srv` is the controller's main thread and
communicator; `disp` the dispatch thread in `create` and `shutdown`; `em` the
event thread from the attach handshake to `doShutdown`. `registered` and
`inAdapter` are the two places a debugger is entered in and removed from, by
whichever of the two threads is first. `Killed` ends the program at any moment,
`Interrupt` is SIGINT at the controller, and `CallBlocks` is the outcome of
module Rendezvous that matters here: a call that occupies the dispatch thread
for ever (run `lost_wakeup`).

A new controller is only started once the previous one is gone; that is a bound
of the model, named at `InitNew`.

### References

A heap of `Cells`, each a type, member, string, frame list, frame or memory with
its count and its pointers; `held[t][c]` are the references the program has.
Constructors, `Ref`, the macros (`NewSized`), `Release` and the lazy getters,
whose check (`Get`), request (`Fetch`), store (`Store`) and reference
(`RefStored`) are steps of their own because no lock joins them. The type of a frame's
function is not referenced but returned as it is, and it is the one stored by then
(`Reread`), which with two first callers may be the same for both: `lent` are the types that
were given away with one reference for two. A type that could not be made is stored as
null. The program may use such a type once it is gone (`UseGone`), and a freed cell that
somebody still points at is not allocated again (`Vacant`), so that a pointer to it is still
known to be stale. A decrement and
the destruction it leads to are one step, references owned by what is destroyed
are dropped in steps after it (`todo`). `crash` records a use of freed memory or of
a null pointer.

### Caches and Oracle

The answers kept as values, each with a flag and no lock: `r_type_size`,
`r_string_quark`, `init_members` of aggregates and of arrays and
`ensure_value_init` of enumerators. `Fill(f)` lists what a getter does when the
flag is not set - requests, the store of each part, the clearing of a vector
that is assigned over, the store of the flag - and `Get`, `Ask`, `Store`, `Mark`,
`Read` are those steps, by several threads at any time. `kept[f]` is what the
object holds now, so a reader may find a part of it. Stores are seen in program
order; the code has no barrier, and on a machine that reorders stores the flag
could be seen first.

`Oracle` is what the caller sees: a call returns the answer or fails, and once
an answer is known no later call fails. `KeepsAnswers` is the refinement, with
`marked` as the known facts and `Progress(t)`, read off what a getter has still
to do, as the state of each call.

The lists of members are vectors, and assigning one is not atomic. With
`VectorsShared = FALSE` the model assumes that a list is first used by one
thread alone; see the facts below for what happens otherwise.

### Memory

`CallFunction` and `CallMacro` are the `r_mem_malloc`, `calloc` and `_sized`
functions and macros of `memory.h`. A function asks for the size of its type by
the getter of Caches, `r_mem_malloc_fn` and `r_mem_calloc_fn` twice, while other
threads ask for it too; a macro makes a type for a pointer, takes its pointee
and drops one or both (`types`); what it keeps beside the block is `lost` when the
block is dropped (`Unref`, `memory.cpp:74`). `RealSize` and `NewBlock` are computed modulo
`Modulus`, as `size_t` is. `block[t]` has the bytes there are, the size the header
claims and the bytes zeroed.

### Cleanup

The functions that take several references one after the other, each written
down as a list of steps: 18 of the codec, and `r_type_member_type`,
`ensure_value_init`, `r_aggregate_type_member_by_name`,
`ruminate_get_types_by_name` and `_r_mem_malloc_sized`, on which it rests. A step
is a request that may fail, with the ladder of labels (`goto error_...`) that is
left by then; a call; a look at the error or at the result; a drop; a branch on
the value, which may go either way; an assertion the value decides, as those on
void, unions, functions and typedefs. `frames` is the C stack: each frame knows how
many references of each kind it has to drop or return. `DoAsk`, `DoRun`,
`DoCheck`, ... execute the steps, so that a request may fail under a pointer in
an array in a struct and every function above it takes its own way out. `err` is
the function's error and `old` the one its caller had already.
`KnownFaults` and `KnownLeaks` name the places where the code does use what it
has not got, asserts what need not be so or leaves something behind; both are tight,
leaving out any entry is a violation. What is left behind by a call that succeeds, by
one that fails, and by one that fails because of a hook are lists of their own; the
JSON of the elements of an array (`serialize.c:258`) is counted, one for each
element (`Appended`), so that the array itself is never among what it leaves.

### Types

The tables by which a type becomes an object, each translated from its own
switch: lldb's classes and basic types to `TypeId` (`BasicId`, `ClassId`, in
Python), `TypeId` to the struct (`TypeAlloc`, `AggregateAlloc`) and to the ids
(`TypeLevel`, `AggregateId`, `BuiltinId`), and back from ids to the struct that is
freed (`TypeFree`, `AggregateFree`); the same for members. A key without a case is
"unlisted": a `KeyError` in the controller, so that there is no servant, and a
failed assertion in the library. The type of an enumerator is whatever lldb has for it
(`EnumeratorTypes`); `ValueType` has the assertion that it is a builtin, and `crash`
says which assertion failed. `ty` and `tm` are one type and one member, each
of which may outlive the other; `MemberNewFails` is the one constructor that fails
half way. `freed` remembers how the last object was allocated and freed.

### Json

A value is a tree along its type: bits, the values of members or elements, a
pointer with what it points to, or none. `Inputs` are values with all that is in them and
the questions about types that the controller does not answer, in each direction: the name,
the parts (members, elements, pointee, canonical type) or the size. Hooks go by type, and make
a value's JSON themselves, ask for the default, or decline. The name is asked of every type
but an unknown one, before the hook that it leads to, and used unseen (`HookOf`); the sizes
are asked for what is read, before its parts (`Ready`) and once more for a member that is
copied (`Accepted`).

Neither a function nor an operator descends the tree: the stack does. A call is
`SerializeTo(t, v)` or `DeserializeTo(t, j)`, `active` are the calls under way and
`returned` is the table of what the others have returned. `Parts(c)` are the calls that `c`
makes in its turn, in order. `CallPart` makes the next of them; `ReturnBroken` is a loop over
members or elements that is left because of a part it does not accept; `Return` is the end
of the function, and what it returns (`Result`) is computed from what the parts have
returned, with one operator per function of `serialize.c` and `deserialize.c`.
`json_serialize` and `json_deserialize` make the first call of each direction. A call made
a second time for the same type and value is looked up and not made again, which is the same, as
the functions keep nothing between calls.

Results tell value, nothing, error, assertion and undefined behaviour apart. Integers
have a width, and are written to JSON as signed and read back modulo 2^width.

## 3. What is checked

### Runs that pass

| run | bounds | shows |
|---|---|---|
| `concurrent` | 2 threads, 2 calls each but 3 in all (`MaxInAll`), both at once; 217,000 states | `InspectsHaltedThread`, `CallbacksMatchWaiters`, `OneResumer`, `OneAnswerPerRequest`, `AnswerAfterBreakpoint`, refinement `StopsTheWorld` |
| `serial` | 2 threads, 2 calls each, one in the library at a time; 191,000 states | `NoOrphanStop`, `StopResumed`, `InTimeCallReturns` |
| `teardown` | 3 calls of init; 5,100 states | `ReadyForCalls`, `NotHeldWithoutLibrary`, `NoOrphanController`, `StopEnds`, `InitReturns`, `ControllerFollows`, `DestroyReturns` |
| `owning` | 1 thread, 4 objects, 2 references each; 30,000 states | `CountsExact` |
| `sharing` | 2 threads, 3 objects, 1 reference of each thread; 465,000 states | `CountsCover`, `OnlyFrameTypesDangle` |
| `memory` | 2 threads, 4 kept values, 1 block; 660,000 states | `BlockHoldsPromise`, `AssertsOnlyOnMisuse`, `MacroLeavesNothing`, refinement `KeepsAnswers` |
| `cleanup` | 6 frames, 2 turns of each loop; 2.2 million states | `DropsOnlyOwn`, `LeavesNothing`, `ErrorOrResult`, `ErrorMeansError` |
| `types` | every type and member there is; 7,300 states, complete | `CastsSafe`, `FreedAsAllocated`, `MembersAnswer`, `NoAssertion` |
| `json` | all types up to depth 3, all their values, 9 sets of hooks, a question about a type of the value (name, parts, size) that the controller does not answer; 642,000 states | `SkipsOnlyUnrepresentable`, `RoundTrip` |

Each run that needs one also checks its module's `TypeOK`, which in Rendezvous
says more than types: at most one stop is waiting to be received, and the loop
over the shrinking list of callbacks never passes its first element; in Lifecycle,
that an answer never waits for a program that does not wait for it.

*Why the bounds are enough.* The interesting interleavings of a rendezvous are
between one request, one stop and one other thread: the second thread disturbs
the first one's stop, and the second call of a thread meets what the first left
behind (`arp`, a late stop, a callback). The dispatch thread serves one request
at a time, so a third thread would only wait longer in the queue. Three inits
allow a failed one, one that succeeds after a destroy, and one that finds the
library there. In run `concurrent` two threads make three calls, so that a get_type may
meet two others of which one is the other thread's: all of lines 260 to 273 of two
get_types interleave. Four cells hold the longest chain of ownership (a frame list, a
frame and its name) and one object beside it; three with two threads let both
fetch the same name and a third object own or drop it. In Memory two threads
race for one cache of each kind - the list of an aggregate takes the steps of
that of an array with a request less, and is left out - and one of them
allocates: with size_t counting to 16, a header of 4 and a type of 3 bytes, the
sizes 2, 4 and 13 are too small, enough, and enough to wrap with the header,
and 0, 2 and 6 elements none, some, and enough to wrap in the product, to less
and to more than the type. In Cleanup a stack of six frames has a pointer or a
struct within a struct with its members' functions between, each with every
failure; two turns of a loop let the second fail after the first has left
something. Types has no bound but
that of one type and one member at a time, which share nothing with others. In
Json, integers of 1, 2
and 3 bits differ in width from each other, which is what signedness and
truncation depend on, and arrays have two elements, structs up to two members. A
failing type is put at every place of a value: alone, behind a pointer or a typedef, in
an array, and before and after another member.

`CHECK_DEADLOCK FALSE` everywhere: a program may make no more calls and exit, a
call may be lost (that is a finding, below), an assertion may fail, and the codec
returns.

### Fairness

Rendezvous: weak fairness of each thread of the program once it is in the
library, of its getting to the breakpoint, of the dispatch thread and of the
event thread. These are threads an operating system schedules; no thread is
obliged to make a call, and a thread only moves while the program runs.
Caches, Memory, References and Cleanup state none: a getter ends after a fixed
number of its own steps. Lifecycle: the same for the steps of init and destroy, the controller's main
thread, its dispatch thread and its event thread, whose wait times out every
second (`lldb_em.py:56`). Being killed or interrupted and the blocking call have
no fairness. Safety is checked without any.

### Runs that find a disagreement

| run | the code | says otherwise |
|---|---|---|
| `lost_wakeup` | the stop may be received, and continued, before `__enter__` has registered its callback; the call never returns | `ruminate.h:89` |
| `arp_assert` | a failed `ruminate_get_type` leaves `arp` set and the next one aborts | the assertion `ruminate.cpp:260` |
| `init_twice` | after a failed `ruminate_init` the next one returns true | `ruminate.h:26` |

### Further facts the models show, without a run of their own

* `end_getBacktrace` is outside `gxx_call` in a function declared not to throw
  (`ruminate.cpp:255`): an error of the controller ends the program
  (`EndBacktrace`), although errors.h promises a `GError`.
* Two threads inside `ruminate_get_type_by_variable_name` may both pass its assertion
  and overwrite each other's `ruminate->arp` (`ruminate.cpp:260-271`; `StoreArp`, `EndGetType`).
  Then a call returns the type of the other thread's variable, or NULL because its request
  was ended already, or the next call aborts at the assertion. `OneAnswerPerRequest` and
  `StopsTheWorld` say what remains true: no request has two answers, no
  answer is taken twice, and every other call gets its own.
* With two threads in the library at once a stop may be left with nobody to
  continue it: `NoOrphanStop` and `StopResumed` fail for `MaxInFlight = 2`. A
  second thread's stop finds the first one's callback, which ignores it.
* `ruminate_destroy`, and with it exit, never returns when a lost call holds the
  dispatch thread (`CallBlocks`); `DestroyReturns` names this exception.
* An enumerator whose type is no builtin (that of `enum E : uint8_t` is a typedef, if lldb
  tells it) aborts at the first question for its value (`enum_member.cpp:43`); nothing
  before it looks at the type of an enumerator. `NoAssertion` says that this is the one
  assertion about types and members that can fail.
* An init that fails between the fork and the factory leaves a controller that
  nobody will tell to end (`ruminate.cpp:231`); `NoOrphanController` says that no
  later step does. A controller is also left by a program killed
  before `create` has entered its debugger in the factory; `ControllerFollows`
  starts from a registered debugger. A controller that was interrupted keeps
  its event thread, and so the attachment, until the program dies.
* `ruminate_destroy` returns true whatever happens.
* The first `r_frame_function_type` returns the reference the frame keeps, every
  other one a new one (`frame.cpp:121`; `Store`): once the program has given the
  first back the frame points to a type that is gone, which `type.h:66` promises
  to free with its last reference.
* What that first call returns is read back from the frame (`frame.cpp:120-121`; `Store`,
  `Reread`). So two first callers may both leave with the type that was stored last, with one
  reference between them, and the other type is leaked: whoever drops it second drops what is gone.
  `CountsCover` and `OnlyFrameTypesDangle` say that nothing else is freed early and no
  other pointer is stale: only the frame's own, and those to a type in `lent`.
* The sized macros leak the pointee type (`memory.cpp:74`; `NewSized`); concurrent
  getters leak what they overwrite (`Store`). This is why `CountsExact` is checked for one thread without macros
  and frame types, and `CountsCover`, which admits leaks but no early free, for
  everything.
* Names and offsets of a function's arguments cannot be had: the servant has no
  `getName` and `getOffsetInBytes` (`type_member_impl.py:3`; `Answers`), and the
  getters return an error. `aggregate_member.h:46` says the name is `""`.
* `isSigned` and `isUnsigned` are both false for int, short and long
  (`type_impl.py:196,236`), where `builtin_type.h:50` names only `char`; so the
  enumerators of an enum of int are kept and read as unsigned (`ValueType`), and
  an enum of bool cannot be read at all.
* That a field whose `isBitfield` fails is freed as what it is depends on
  `R_AGGREGATE_MEMBER_BITFIELD` being 0 (`ZeroMemberId`): with the enum id first
  it would be freed as an `REnumMember`.
* `r_aggregate_type_member_by_name` for an unknown name returns NULL and
  propagates a null error (`aggregate_type.cpp:170`).
* With `VectorsShared = TRUE`, that is when two threads make the first use of one
  array or aggregate, `KeepsAnswers` fails: the second assigns over the vector
  the first has marked and is reading (`array_type.cpp:64`,
  `aggregate_type.cpp:111`). For sizes, quarks and enumerator values the same
  race is harmless.
* Sizes wrap (`memory.cpp:132`, and the header in `r_memory_new`): the block then
  has less room than its header says. That the size covers the type holds all
  the same, because it is asserted after the product and before the header is
  added. `calloc` of no elements fails that assertion.
* Used without a look whether it was had (`KnownFaults`): the type a member's
  type could not be made of (`type_member.cpp:139`), the name of a type
  (`serialize.c:296`, `deserialize.c:234`), a pointee or canonical type
  (`serialize.c:325`, `deserialize.c:261`), the types of a name and the first of
  them (`deserialize.c:290`), memory for a pointer (`deserialize.c:264`), and a
  member or an element that a hook, or an unknown type, made nothing of
  (`deserialize.c:79,87,202`). Asserted though the value may be otherwise: that it is
  no void, union, function or typedef (`serialize.c:34,164,223`,
  `deserialize.c:59,159,272`), that an enum has the value of an enumerator
  (`serialize.c:203`), that the type of one is a builtin (`enum_member.cpp:43`), and that
  the name of a member is UTF-8 (`serialize.c:59`), and that the sizes of an array and of
  its elements were had (`deserialize.c:178,181,191`). The cleanup of an array that is half read drops the
  borrowed element, and the block as JSON (`deserialize.c:210,222`).
* Left behind (`KnownLeaks`): the type of an enumerator whose value was asked for
  (`enum_member.cpp:60`), the enumerator that matched and its type
  (`serialize.c:185`), the pointee of a macro (`memory.cpp:74`), and the JSON of
  every member, element and, when invertible, the whole value
  (`serialize.c:58,258,367`), because jansson takes references of its own. An enum
  whose enumerators are of type void leaves the first one and its type when it is
  skipped (`serialize.c:163`), and with a failed hook the JSON of the member or
  element is left besides.
* A pointer whose pointee fails comes back together with an error
  (`deserialize.c:262`), and so does a value whose hook failed, which is taken
  for one that declined (`serialize.c:309`). Everywhere else an error comes with
  no result, and at every depth an error means that something has failed.
* `json_deserialize` aborts on a typedef, which `json_serialize` can write: the
  assertion it fails is marked "TODO: Remove this" (`deserialize.c:271`).
* An enum is written as a `uintmax_t` into a block of the enum's size
  (`deserialize.c:147`).

## 4. What is proved

### The rendezvous

`Rendezvous_proofs` holds for every finite set of threads and every value of
`MaxCalls`, `MaxInAll` and `MaxInFlight`; the only assumption is `RendezvousAssumption`,
which says that `NoRequest` is no request and there are finitely many threads. A budget
(`Budget`) bounds the requests a thread has sent by its calls, so that there is always a
name for the next one.

* `TypeCorrect`: `Spec => []TypeOK`
* `InspectionSafe`: `Spec => []InspectsHaltedThread`
* `CallbacksBalanced`: `Spec => []CallbacksMatchWaiters`
* `SingleResumer`: `Spec => []OneResumer`

All follow from the inductive invariant

    IInv == TypeOK /\ Budget /\ CallbacksMatchWaiters /\ OneResumer /\ StopInv

(theorem `Invariant`). `OneResumer` alone is not inductive. `StopInv` adds what
links the two threads of the controller:

* the dispatch thread serves nobody exactly when it is idle - so the callback
  it registers is a thread's;
* outside the loop the position is 0, and in the loop at position 0 the one
  callback there is belongs to a dispatch thread that waits, and no further
  stop is pending - so the loop signals the waiter at most once, and the list
  it shortens is empty afterwards;
* while a woken handler owns the stop, its thread stands at the breakpoint.

The argument: a stop begins unseen, with the program stopped, so no other stop
can begin before somebody continues the program. The event thread, seeing it,
either becomes its owner (no callback) or hands it to the callback's waiter if
the waiter's thread is at the breakpoint; that thread cannot leave it before
`Continue`, and only the owner continues. So the reader of the stack is the
owner, which is `InspectsHaltedThread`. The module proves this with one step per
action; four lemmas about sequences say what `RemoveCallback` and `EnterStop` do
to a list of at most two callbacks, and the actions of the program, of the
dispatch thread and of the event thread are lemmas or steps of their own.

Its second part is about the requests, with the same generality:

* `RequestInvariant`: `Spec => [](IInv /\ RequestInv)`
* `AnswersMatchRequests`: `Spec => []OneAnswerPerRequest`
* `AnswersFollowBreakpoint`: `Spec => []AnswerAfterBreakpoint`
* `StopsOwned`: if `MaxInFlight <= 1`, `Spec => []NoOrphanStop`

`RequestInv` adds to the two properties where a request can be (`RequestPlaces`):
whose thread is on its way to the breakpoint, or whose stack the dispatch thread
is busy with, has asked for its stack; what is about to be sent is an answer; what
`ruminate->arp` holds is a request for a type that was sent; and a thread has been given a
request by `end_` exactly while it waits there. Nothing is said of whose request that is.
`OneAnswerPerRequest` is proved in the words of the queue (`OneEach`) and of those who
wait (`Waiting`): no request is in the queue twice, which two lemmas say of `Append` and
`Tail`, and a request that one thread waits for is refused to the next (`Ended`).

`NoOrphanStop` needs its assumption: with two calls under way it is false, which is
what run `lost_wakeup` is about. Its invariant is

    OwnerInv == OneWhoCalls /\ StoppedBySomebody /\ NoOrphanStop /\ OwnRequest

in which `OneWhoCalls` (one thread at most is in the library) makes the callback
that waits and the stop that is received belong to the same thread, so that the
event thread finds the waiter it looks for, `StoppedBySomebody` says that a
stopped program has a thread at the breakpoint, and `OwnRequest` that who is alone in
the library finds its own request in `ruminate->arp`, so that it does not
leave before its request is served.

Its third part shows the refinement: `RendezvousStopsTheWorld` is
`Spec => StopsTheWorld`, by which `Rendezvous` implements `StopTheWorld` under the
mapping the module defines. The abstract state is a function of the concrete
one (`Phase` of each request, for which one a stack is read, whether the program lives), and

| steps of Rendezvous | steps of StopTheWorld |
|---|---|
| `BeginQuery`, `BeginStop`, `BeginGetType`, `QueryTypeId` | `Ask` |
| `Wake`, by which the dispatch thread begins to read the stack | `Inspect` |
| `ExitStop`, with an answer or without | `Release` |
| `Dispatch` of a query, `EnterFails` | `AnswerUninspected` |
| `TakeType`, `EndBacktrace` and `EndOther`, which take an answer | `Take` |
| `AssertFails`, `RaceOnArp`, `EndBacktrace` of an error that nobody catches | `Abort` |
| everything else | a stutter |

The hard steps are `Ask`, `Take` and `Abort`: they need that the program does not run
while a stack is read, which is `InspectsHaltedThread` and `StopInv`; and an answer
needs `OneAnswerPerRequest`, so that a request has one answer and not two, and
so that whoever waits in `end_`, be it for another's request, takes an answer that
nobody has taken.

### The life cycle

`Lifecycle_proofs` holds for any number of initialisations (`MaxInits`).

* `TypeCorrect`, `ReadyWhenBuilt`, `LetGoWithoutLibrary`: `Spec => []P` for `TypeOK`,
  `ReadyForCalls` and `NotHeldWithoutLibrary`
* `NoControllerLeft`: `Spec => NoOrphanController`, an action property

The inductive invariant (theorem `Invariant`) is

    IInv == TypeInv /\ Living

`Living` speaks of a program that is alive only: a dead one leaves everything as it
is, whatever it was in the middle of, and nothing is promised of it. It says what
each position of `ruminate_init` has built (`ClientInv`), what a request on its way,
the handler that works on it and its answer say of each other and of the server
(`RequestInv`), when the debugger is attached, entered in the factory and listening
(`DebuggerInv`), and which of five phases of its history with the program the event
thread is in (`Phases`: not started, stopped by the attach, resumed, following, or
leaving), with all that each phase implies of the flags the other threads read. None of the
properties is inductive: that the program runs when `ruminate_init` returns is seen
only when one follows the attach handshake through the two threads of the
controller. `IInv` was first checked by TLC on the states of run `teardown`.

### References

`References_proofs` holds for any number of threads and of cells and any bound
`MaxHeld`.

* `Covering`: `Spec => []CountsCover`
* `Dangling`: `Spec => []OnlyFrameTypesDangle`
* `Exact`: `Alone` implies `Spec => []CountsExact`, where `Alone` says that there is one
  thread, which calls neither the macros of `memory.h` nor asks for the types of frames
* `TypeCorrect`: `Spec => []TypeOK`

That nothing is freed too early is an argument about a sum. The references to an
object are tokens in four sets: those threads hold (`HeldBy`), those of objects that
own it (`OwnedBy`), those to an object a getter has just made (`FetchedBy`), and those
an unref has still to drop (`DroppedBy`, by their place from the end of the list, so
that taking its head off leaves the others where they are). A step changes each set by
one token at most, and the count by the sum (`Within`, `Recount`). A set of tokens and
no recursive sum, so that all it takes is what the library proves of cardinalities;
`Owners` in the model is written in these terms.

    IInv == /\ TypeOK /\ Counted /\ FreeIffUncounted /\ LentTypes /\ LinksRight
            /\ InCalls /\ CrashedByDangling

`Counted` is `CountsCover` with the sets finite, and an equality if `Alone`. It is not
inductive: a getter that uses an object must have it (`InCalls`), what an owner points
at must be alive and of its kind (`LinksRight`) for the destruction to drop the right
things, and a cell that is free must have no tokens left (`FreeIffUncounted`). The
one step that frees is `Unref` at a count of one: as the token it drops is there, all
the other sets are empty (`LastReference`), so nothing owned points at the cell; only
the pointer of a frame to its function's type, which owns nothing, may still be.

The types in `lent` have fewer references than tokens and are the exception throughout.
That the exception does not spread is the other half of the proof: a lent cell is a type or
free (`LentTypes`) and not allocated again, nor is one that is pointed at (`Vacant`); so a
field that points at what it should not is a type's, and what it points at is a gone type
of a frame, or a lent one (`LinksRight`). A step spares what is in use (`Spares`): it
frees at most one cell, of which nobody has a token or which is lent. `RereadStep` is
about the one step that adds to `lent`.

That exactness needs `Alone` has three reasons in the code: two threads that fetch the same
name leave one of the strings behind, the macros keep the pointee, and a frame does
not own the type it points at.
TLC has checked `IInv` on the states of runs `sharing` and `owning`.

### Kept values and typed memory

`Caches_proofs` and `Memory_proofs` hold for any number of threads, any set of
kept values with the size among them, any width of `size_t` and any sizes and numbers of elements a program
passes. `CachesAssumption` and `MemoryAssumption` say that a header has a size and
that a header and one object of the type fit into `size_t`; nothing is assumed of
the sizes a program passes but that they are `size_t`. Theorems that name
`~VectorsShared` need the rule that one thread makes the first use of a list of
members; without it they are false, as the facts above tell.

* `CacheInvariant`: `Spec => []CInv`
* `AnswersAreRight`: `~VectorsShared` implies `Spec => []AnswersRight`, no getter
  returns part of an answer or an old one
* `CachesImplementOracle`: `~VectorsShared` implies `Spec => KeepsAnswers`
* `MemoryInvariant`: `Spec => [](CInv /\ MInv)`
* `MemoryTypes`, `BlocksHoldPromises`, `AssertsOnMisuseOnly`, `MacrosLeaveNothing`:
  `Spec => []P` for `TypeOK`, `BlockHoldsPromise`, `AssertsOnlyOnMisuse` and
  `MacroLeavesNothing`

`CInv` is `AnswersRight` strengthened until it is inductive: every getter is at one
of its own steps (`InCode`), so that a store is followed by the mark and the mark
by the read; a value is whole once it is marked and also when a thread is about
to mark it (`Stored`), which is what makes a second thread that fills the same
cache harmless, as it stores the same parts again; who is about to read has it
marked (`ReadsMarked`); and who fills a list is alone with it and finds it unmarked
(`FillsAlone`), since clearing it would break the first. The refinement maps a
call of a getter to `Begin` of Oracle, a failing request to `Fail`, the mark to
`Learn`, the read to `Answer`, and stores and successful requests to stutters.

`MInv` says of each thread where it is in an allocation (`Waits`: who needs the
size is waiting for the getter of the size, whose answer is right or a failure, by
`CInv`), that a block is the one of its request and covers the type
(`BlockOfRequest`), which types a macro holds at each step (`TypesOfMacro`), and
that an assertion has failed for a request that is at fault (`AbortMisused`). The
arithmetic is in lemmas of its own: the product modulo `Modulus` is the product unless it
wraps, and a product of nonzero factors that does not wrap is no smaller than
either, so too small a block was asked for.

### Calls and their ways out

`Cleanup_proofs` holds for any depth of the stack (`MaxDepth`) and any number of turns
of a loop (`MaxTurns`): however a value nests, and wherever in it a request fails.

* `DropsOwn`, `LeavesNone`, `ErrorOrResultHolds`, `ErrorMeansErrorHolds`, `TypeCorrect`:
  `Spec => []P` for `DropsOnlyOwn`, `LeavesNothing`, `ErrorOrResult`, `ErrorMeansError`
  and `TypeOK`

All follow from one invariant (theorem `Invariant`),

    IInv == /\ TypeOK /\ Stack /\ Known
            /\ DropsOnlyOwn /\ LeavesNothing /\ ErrorOrResult /\ ErrorMeansError

whose core is a table. For each step of each of the 23 functions it says how many
references of each kind a frame has there, whether it may have an error, and whether
it is inside its loop (`MemberTypeAt` ... `DeserializeArrayAt`). `Stack` says that the
frame on top is at an entry of the table and that each frame below has, one step back,
what the table says of the call it waits for, and that what runs above it is what it
called or something that took its place (`Alike`). `Known` says that an error anywhere
below is in some frame's hands - which is what makes `ErrorMeansError` inductive - and that
an error comes together with a value only after a hook.

The proof has two halves. The first looks at one frame. `Flows` of a frame at a step says
that whatever the step makes of it is in the table again (`Moves`), that every ladder
by which it may be left there drops what there is and no more, or is known not to, and
that a return leaves only what is known and an error only as it should (`Outs`). There
is a lemma `...Flows` for each function, with the cases of its steps, and `AllFlows` puts
them together. That arrays and objects may have any number of elements is in the
bounds of the table, which count turns, and `Kept` of them may be left. The second half is the machine, the same for all
functions: one lemma per action, `FinishKeeps` for the return, in which the
caller takes the result or the error as one of the four ways `RunMoves` allows.
The invariant was first checked by TLC, with five frames (263,000 states).

### The codec

`Json_proofs` holds for all sets of types and values, whatever their depth, all sets of
hooks and all widths. `JsonAssumption` says that a modulus is even and positive (a power of two
is), that a type's parts are types of the program, that a struct has members, as C demands, and that a value has the
shape of its type and its parts are listed with it.

* `TypeCorrect`, `Skips`, `RoundTrips`: `Spec => []P` for `TypeOK`,
  `SkipsOnlyUnrepresentable` and `RoundTrip`

Such statements call for an induction over values, which this prover cannot do. The model
does without, as the steps of the program are that induction: a call returns after its
parts have. So a fact about a value becomes a fact about each entry of the table
`returned`, and a new entry has it because the entries of its parts have. The
inductive invariant (theorem `Invariant`) is

    JsonInv == CInv /\ Results /\ Jsons /\ Readings

`CInv` is about the calls: each is for a part of the value and a type of the program
(`Calls`), none is both under way and returned (`Apart`), nothing is written any more
once anything is read (`Phases`), and each entry of the table is what its parts make of it, a
broken loop or a complete one (`Ends`). `Results`, `Jsons` and `Readings` say of the entries that
they are results, that what is written is JSON whose integers are integers, and that what is read
has the shape of its type, with parts that were made for theirs.

On this rest two more invariants. `Skipping` says that a result tells something of the value:
an error that the controller fails in some part, JSON that some part has any. That is one
direction of `SkipsOnlyUnrepresentable`. The other goes down the value instead of up: if
the whole has no error, no part of it may have failed. The property speaks of values none of
whose parts stops the program (`Stops`): a name that is not had crashes before
anything else is asked about the part, with a hook or without (`HookAgain`, `ResultUnnamed`). `Within` is the least set that has
the value and is closed under what is seen in its elements, so it is
enough that the parts for which the table has a result without an error are such
a set (`ForSeen`, `ForAll`). `Solids` and `Trips` are the round trip: what is written of
an invertible value is never nothing, and null only for a null pointer; and a call that reads
what another has written returns that one's value, if all that is asked to read the
parts of the value is answered (`AllAnswered`). The arithmetic is `SignedBits`: reading bits as signed
and cutting them to the width again gives the bits.

### The classification

`Types_proofs` has no parameters to be general about; it shows by cases what the run
shows by enumeration, and says why.

* `TypeCorrect`, `CastsAreSafe`, `FreesMatch`, `ServantsAnswer`, `AssertsLittle`:
  `Spec => []P` for `TypeOK`, `CastsSafe`, `FreedAsAllocated`, `MembersAnswer` and
  `NoAssertion`

The invariant `TypesInv` says that the ids of a type are what the tables make of its TypeId,
and those of a member what they make of its container, which is forgotten or gone by
the time the ids are used; that an enumerator's value is kept with the
signedness of its type; and that no assertion failed but that of `enum_member.cpp:43`, for an
enumerator whose type is no builtin. The lemmas `IdsKnown`, `Aggregates`, `Builtins` and `Rest` compare the
tables: that of the controller has no TypeId that the library's switches do not know, and
freeing goes back the way allocation came. `FailedMember` is the one that hangs on the order of
an enum.

### A note on the prover

A function of functions that is updated in two places of its inner function by one
`EXCEPT` (`[f EXCEPT ![t][p] = @ - 1, ![t][m] = @ + 1]`), or by two in a row, is encoded
wrongly for SMT by this version of the prover: `FALSE` follows. No module that is
proved about has such an update; `NewSized` updates the inner function as a whole. A string that is compared with the empty one is beyond its SMT
encoding, so that Cleanup has `"none"` for no reference.

### Only model-checked

* Liveness, that is every property with `~>` in Rendezvous and Lifecycle, and
  `ENABLED`, outside the prover's reach.
* That calls of the codec return, which is that values are finite.
* The three disagreements of the violation runs, which are counterexamples.

## 5. What is not modelled

* **Type servants** only accumulate, one per answered type and member, whatever
  the order of events.
* **Stores out of order**: the flags of cached values are seen after the values.
* **lldb, Ice, glib, jansson**: external, as the code uses them. Signals of the
  program are passed through by lldb and do not stop it once the attach
  handshake has set them up; crashes are deaths (`Killed`).
* **Two threads inside `ruminate_init`** ("TODO Thread safety"): every caller in
  the repository initialises from its main thread.
* **Cyclic values** and types that share a name in the codec; a `JsonState` that
  several callers change at once; the bytes an enum is written over; memory
  exhausted inside jansson.
* Error codes and texts; the CMake build, the tests, the documentation set-up.

## 6. State of the project

Written in this order: Rendezvous with StopTheWorld, its proofs, Lifecycle,
References, Json, Types, Caches with Oracle, Memory, Cleanup, the proofs of
Caches and Memory; then those of the requests, of the refinement of
StopTheWorld, of Lifecycle, of References and of Cleanup; and Json anew, without
recursion, with the proofs of Json and Types.

Every invariant the passing runs check is proved, and so are the two refinements and
`NoOrphanController`; the other temporal properties are liveness. What is left is in
section 5.
