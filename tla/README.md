# Order processing server: specifications, model checking and proofs

This directory holds TLA+ specifications of the two programs of the repository, the TLC
configurations that check them on small instances, and TLAPS proofs of their most important
properties for instances of every size. File names like `courier_manager.c:163` are relative to
`src/order_process_server/` (`courier_generator.c` to `src/courier_generator/`).

Contents: [the system](#1-the-system) · [what is hard in it](#2-what-is-hard-in-it) ·
[the modules](#3-the-modules) · [the runs](#4-the-runs) · [fairness](#5-fairness) ·
[the proofs](#6-the-proofs) · [what the code does not do](#7-disagreements-between-the-code-and-its-documentation) ·
[assumptions](#8-assumptions-of-the-models) · [not modelled, and the plan](#9-not-modelled-and-the-plan) ·
[how to run](#10-how-to-run)

## 1. The system

`order_process_server` reads a file of orders, cooks each of them in a thread of its own, listens
for couriers on a TCP port and brings orders and couriers together. `courier_generator` is the
client: a terminal from which a user dispatches couriers. A courier takes any order (`none#10`)
or names the one it wants (`Banana#10`).

| Component | Code | State it keeps | Operations | Correct when |
|---|---|---|---|---|
| list of prepared orders | `order_manager.c:19-30, 88-123` | `g_ready_orders[1000]`, `g_ready_order_count`, `g_order_mutex` | `add_order`, `pop_random_order_or_null`, `remove_order` | no order is in it twice or popped twice; the array is never overrun; every path unlocks |
| queue of couriers for any order | `courier_manager.c:19-26, 43-56, 88-115` | `s_random_courier_queue` (`front`, `back`, `value_count`, `values[1000]`), `g_random_courier_mutex` | `enqueue_random_courier`, `dequeue_random_courier`, destruction of the mutex | first in, first out; no courier handed out twice |
| array of couriers with a target | `courier_manager.c:27-28, 58-85` | `s_target_couriers[1000]`, `s_target_courier_count`, `g_target_courier_mutex` | `add_target_courier`, `remove_target_courier` | no courier in it twice; only the removed one leaves |
| cook threads | `order_manager.c:32-56` | a local `order` | `prepare` | the order goes to exactly one courier or into the list |
| courier threads | `courier_manager.c:117-176` | `pa_request`, locals | `process_courier_thread` | nobody hangs; an order and a courier are served at most once and not lost |
| the listener | `courier_manager.c:195-222` | two indices, locals | `listen_target_delivery_event_thread` | a courier gets the order it names; matches are noticed |
| `deliver_order` | `courier_manager.c:178-193` | the heap | records times, frees order and courier | nothing is freed twice or used after it was freed |
| waiting times | `time_manager.c` | two arrays of times, two counters, **no mutex** | `add_time_records`, `print_time_records` | every counted slot gets written; no overrun; no average of nothing |
| the server's connections | `server.c:97-174`, `courier_manager.c:120-137` | `request` (a local of the loop), one buffer per connection | `accept`, first `read`, `get_service_type`, creation of courier threads; their further `read`s | each request is handled once and in order; a thread owns its buffer; the server stays up |
| table of sockets, SIGINT | `server.c:60-78, 141, 150`, `courier_manager.c:131` | `g_sock_clients[8]`, `g_sock_client_count`, **no mutex** | registration, deregistration, `SIGINT_handler` | the counter is the number of open connections; nothing is written behind the table; the handler closes the open sockets and no others |
| fields of a request | `courier_manager.c:31-41, 124-142` | `pa_request->message`, the static variable inside `strtok` | `validate_request`, three calls of `strtok` | a courier gets the name and the time of its own request; a request makes one courier |
| order intake | `order_manager.c:59-86` | `order` (a local), the parsed file | `process_orders` | every cook cooks its own order; every order gets a cook |
| `courier_generator` | `courier_generator.c` | one socket | `create_client`, `build_message`, `receive_message` | one request per accepted line |
| parson | `parson.c`, `parson.h` (vendored) | values on the heap, arrays, objects with a hash table | parsing, serializing, changing, copying, comparing, validating | every value has one owner and nothing leaks, whatever allocation fails; a member is found; what is written is read again as the same value |

How they interact:

```
 main ──creates──> process_orders ──creates, &order──> cook threads ──┬──> list of orders <──────┐
   │                                                       │          └── add_order              │
   │                                                       └─ dequeue ──> queue of couriers      │ pop / remove
   └─ server_on ──creates──> listener ── reads both arrays without a mutex ───────────────────┐  │
         │  accept, first read                                                                │  │
         └──creates, &request──> courier threads ─┬─ enqueue / dequeue ──> queue of couriers  │  │
                                     ▲            ├─ add ──────────> array of targeted <──────┘  │
 courier_generator ── 4000 bytes ────┘            └─ pop ──────────────────────────────────────> ┘
                     per request            all that deliver ──> deliver_order ──> waiting times
```

A courier thread handles one request like this: it waits until the buffer begins with
`COURIER#`, sleeps for the time the courier travels, puts the courier into the queue or the
array, pops an order **and** dequeues a courier whatever kind of courier arrived, and delivers if
it got both. A cook, when its order is done, dequeues a courier and delivers, or puts the order
into the list. The listener compares all pairs of targeted couriers and listed orders, once a
second.

## 2. What is hard in it

Everything that matters here is concurrent, and there are no tests in the repository. The full
list, each item at its line and with the properties that watch over it, is `hazards` in
`PROJECT.json`. In short:

* The three containers have mutexes, but the listener reads two of them without, keeps indices
  across calls of other threads, and removes by index what may have moved.
* `counter++` on the left of a store: the build (clang, -O0) stores the counter first, so an
  unsynchronised reader sees a counted slot that is not yet written.
* An order and a courier are taken from two containers in two critical sections.
* `deliver_order` frees what is still in an array.
* The end of any connection destroys the mutex of the queue for everybody.
* `time_manager.c` has no mutex at all and is called by every thread that delivers.
* The accept loop and the intake hand the address of a local variable to a new thread.
* `g_sock_client_count` and the static variable of `strtok` are shared by all courier threads
  without any mutex.
* TCP cuts the stream of 4000-byte requests as it likes; the server reads at most 1000 bytes at a
  time, looks for `COURIER#` at the start of what it got, and takes a text that is cut for whole.
* parson is sequential. What is hard there are long sequences of calls (collisions, removals and
  growth of a hash table), allocations that fail in the middle of a call, and two functions that walk
  the same text and have to agree where it ends.
* `goto` out of critical sections: the history of the project (`src/README.md:75-83`) has a
  server that hung because one path did not unlock.

## 3. The modules

| Module | Models | State ↔ code |
|---|---|---|
| `Actors` | names shared by the next modules | `Orders` (an `order_t`, and the cook of it), `Couriers` (a `courier_t`), `Clients` (a connection, and its courier thread), `NULL` |
| `ReadyOrders` | the list of orders | variables have the code's names; `overrun`: a store behind the array has happened; `listed`, `popped`: history |
| `RandomCourierQueue` | the circular queue, one action per statement | the fields of the struct; `g_random_courier_mutex` is a holder, `NULL` or `DESTROYED`; `at[t]`: the statement thread t executes next inside the two functions; `ret[t]`: what `dequeue` returned; `offered`, `handed`: history |
| `TargetCouriers` | the array of couriers with a target | the code's names; `registered`: history |
| `OrderProcessing` | cooks, courier threads, listener, `deliver_order`, **composed** with the three containers (EXTENDS all of them and calls their operators) | `pc[t]`: the call a thread makes next; `courier`, `order`: locals of a courier thread; `scan`: the listener's indices and locals; `freed`, `dispatched`, `deliveries`: history; `failed`: the process died of NULL or a double free |
| `TimeRecords` | `time_manager.c`, one action per access of a counter or slot | `counts`, `stored` (which slots have been written), `doing`, `index` |
| `Connections` | accept loop, hand-over, streams, reads, the generator's side | `sent`, `consumed`: the stream; `main`, `request`; `strangers`: who asks for something else; `message[b]`: which request buffer b begins with; `timed[b]`: whether its three fields are there; `thread`, `pa_request`; `freed`; `handled`, `skipped`, `torn`, `short`, `clobbered`: history |
| `OrderIntake` | `process_orders` and the start of each cook | `loop`, `next` (its `i`), `order`: the variable whose address the cooks get; `heap`: how much of each `order_t` is filled in; `asleep`, `waited`, `lateness`: seconds; `taken[c]`: what cook c has read; `unmade`: `pthread_create` has failed |
| `ClientTable` | the table of sockets: accept loop, courier threads, handler of SIGINT, one action per load or store of the counter | the code's names; `server`, `worker[s]`, `closer`: where each thread is; `loaded[t]`: the counter as thread t has read it; `entered`, `lost`, `moved`, `full`: history |
| `RequestFields` | `validate_request`, the three calls of `strtok`, the end of a connection | `last`: the static variable; `pointer[t]`, `rest[t]`: locals of `strtok`; `cut[b]`: where buffer b has zeros; `got[t]`: what the calls returned; `overlapped`, `broken`: history |
| `JsonObject` | the hash table of a parson object, loops of growth and removal one iteration per action | the struct's names; `at`, `arg`, `i`, `j`, `x`, `k`: where a call is, and its locals; `undefined`: a freed name was read; `cleared`: `json_object_clear` was called, nothing is promised any more |
| `JsonTree` | trees of values on the heap; each function an operator from a heap to the set of its outcomes, one per allocation that can fail | `heap`: kind, parent and items of every address; `roots`: what the caller has to free; `left`: what it passed to a `json_object_dotset_value` that failed after it had stored it |
| `JsonCompare` | `json_value_equals`, `json_validate`, on the trees of `JsonTree` | those of `JsonTree` |
| `JsonText` | parser and serializer, on tokens | `text`, `result` (value and cursor) |
| `JsonStrings` | `skip_quotes`, `process_string`, `parse_utf16`, `json_serialize_string` | `text`, `closing`, `string` |
| `JsonUtf8` | `is_valid_utf8`, and the bytes `parse_utf16` writes | `buffer`, `NULL` where it is refused |
| `JsonNull` | the constant `NULL` of the models of parson | |
| `JsonComments` | `remove_comments` and its two passes | `text` |
| `NameValuePairs` | abstract: a map of names to values | refined by `JsonObject`, until `json_object_clear` |
| `OnceOnlyPool` | abstract: a pool every item enters and leaves at most once | refined by the list and by the array |
| `CourierFifo` | abstract: a bounded FIFO that refuses when full | refined by the queue, while its mutex exists |
| `Dispatch` | abstract: prepared orders are handed to couriers that have arrived, each once | refined by `OrderProcessing`, while the mutex exists |
| `*Proofs` | the theorems about the module they are named after (`ServerPartsProofs`: about `TimeRecords`, `OrderIntake`, `ClientTable`, `RequestFields` and `MCServerParts`) | |
| `MC*` | values of the constants for TLC | |

Definitions that begin with "Faulty variant" are plausible mistakes in the code (a forgotten
unlock, a missing else, `<=` for `<`). They are no part of any specification; each replaces the
real definition after it to see that the property about it fails.

Granularity. `enqueue`/`dequeue_random_courier` take a step per statement, because their mutex
can be gone. `add_order` and `add_target_courier` take two, counter and slot, because the
listener can look in between. `pop_random_order_or_null`, `remove_order` and
`remove_target_courier` are one step: the mutex excludes every writer, and the only
unsynchronised reader of `pop`, the listener, can learn nothing between the move and the decrement that it
could not learn just before or after (the moved order is in both slots). The listener takes a
step per read. `sleep` lies between two steps and is not an action.

`ClientTable` takes a step per access of the counter, in the order of the binary that is in the
repository: the counter is loaded, stored incremented, and then the slot is stored. `MAX_CLIENT` and the
modulus of `size_t` are constants. In that binary `g_sock_clients` is the last variable of its segment, so that
the ninth store ends the process; the bytes before the array are padding. `RequestFields` splits
a call of `strtok` into load, scan and store of its static variable, as the C libraries have it.

`OrderIntake` counts seconds: `sleep(1)` is over after one `Second`, and a new thread is kept from its
first statement for at most `lateness` of them, a number every behaviour chooses. What the code hopes for is `lateness = 0`.

The models of parson after `JsonTree` have no concurrency: a step adds a token to a text and
reads it from the beginning, so that the reachable states are all texts up to the bound (those the parser
has given up are not continued).

In `Connections` a stream is counted in units: bytes, or runs of bytes that a read does not end in.
A request has `WRITE_SIZE` of them and a read gets any number up to `MESSAGE_SIZE`. Only the position matters: the
text `COURIER#name#time` is the first `TEXT` units of a request, and where a read begins and ends
decides what its buffer holds. A read that begins with a text and ends in it leaves, in this order: less than `SERVICE`
units, and no service is found; less than `FIELDS`, and `strtok` returns NULL for the name or the time; less than
`TEXT`, and the time may be cut. The buffer of the first read is not cleared, so that anything may follow such a text there
(`FirstPiece`). A text is handled when the thread finds it, and `strtok` cuts it, so that the
thread does not find it again; the rest of `process_courier_thread` is `OrderProcessing`'s. The two
modules meet in its action `Receive`: `Handle` of one is `Receive` of the other.

## 4. The runs

Passing runs (TLC explores the whole state space of each):

| Run | Instance | Shows | States |
|---|---|---|---|
| `server_parts` | the parts of the server that stand alone, one in each behaviour: | `PartsTypeOK` of all parts | 750 thousand |
| – list of orders | 4 orders, 3 slots, 1 courier thread, any index for `remove_order` | `ReadyDistinct`, `OrderMutexReleased` (under fairness), refinement of `OnceOnlyPool` | |
| – queue of couriers | 4 couriers, 2 cells, 2 threads | `QueueConsistent`, refinement of `CourierFifo` | |
| – waiting times | 3 deliveries by 2 threads, 1 interrupt | `CountedRecorded`, `CountersInRange` | |
| – order intake | no file, three orders, three entries one of which is no order; cooks up to 2 seconds late | `OrderOfItsOwn`, `OrdersCooked` (under fairness) | |
| – table of sockets | 3 connections, `MAX_CLIENT` 2, a counter modulo 6 | `CountTrue`, `CrashesOverfull`, `TableOfOpenSockets` | |
| – fields of requests | 2 courier threads, 2 requests each | `FieldsOwn`, `OneCourierPerRequest` | |
| `order_processing` | 2 orders, 3 couriers (1 with a target), 2 connections, 1 may close, lists of 2/1/1 | `OrderServedOnce`, `CourierServedOnce`, `WaitingBounded`, `NoOverrun`, refinement of `Dispatch` | 1.2 million |
| `matches` | 2 orders, 2 couriers with different targets, 2 connections, 1 may close | `MatchNoticed` (under fairness), refinement of `OnceOnlyPool` by the array | 147 thousand |
| `threads_go_on` | 1 order, 3 couriers, all containers of size 1 | `ThreadsGoOn` (under fairness): nobody hangs, on any path | 63 thousand |
| `connections` | 2 clients, each asking for couriers or not, one with 2 requests; 10 units per request, 5 of them its text, reads of 1 to 5 | `BuffersOwned`, `HandledInOrder`, `FullReadsKeepRequests`, `RequestsHandled` (under fairness) | 409 thousand |
| `json` | the models of parson, one in each behaviour: | `JsonTypeOK` of all parts | 751 thousand |
| – an object | 4 names that collide in tables of 2, 4 and 8 cells, 2 values | `HashTableSound`, refinement of `NameValuePairs` | |
| – trees | 4 values, 2 names, paths of one and two names, 3 texts to parse; any allocation may fail | `TreesSound`, `NothingLeaks`, `ComparisonsAgree` | |
| – texts | 6 tokens (`,` and `:` not counted), `MAX_NESTING` 1 | `TextsKeepMeaning` | |
| – strings | 7 tokens, 3 of them neither `\\` nor `u` | `StringsInBounds`, `EscapesReversible` | |
| – UTF-8 | 4 bytes, of the first and last of each class of the Unicode table | `Utf8WellFormed` | |
| – comments | 6 characters | `CommentsIgnored` | |

The two merged runs (`MCServerParts`, `MCJson`) have a variable `part` that the initial state chooses and no
step changes: a behaviour moves the variables of one part and leaves those of the others where they began, so
that the state space is the sum of the parts' and the properties are those of each part.

Each module's type invariant is checked along; in the merged runs one invariant is the conjunction of all of
them, and some others are conjunctions too (named first below, with their parts). What the properties say:

* `ReadyDistinct`: no order is in the list twice or after it was popped, for any stale index.
  That `pop_random_order_or_null` never returns the same order twice (`PopsOnce`, proved) is part of the refinement.
* `QueueConsistent`: at every unlock `back` is `value_count` cells behind `front`, and only the
  holder is inside. `QueueDistinct` (proved): no courier is in the queue twice or after it was handed out.
* `OrderServedOnce`, `CourierServedOnce`: the cooks and the courier threads do not deliver an
  order, or a courier, twice. The first one holds even when the mutex of the queue is gone. The
  listener is left out of both, for a reason (section 7).
* `WaitingBounded`: a queued courier is always matched by a courier thread that has yet to
  dequeue. The queue of 1000 can therefore never hold more couriers than there are connections. It is the
  other side of `NothingDropped` below: couriers do not wait, they are forgotten.
* `NoOverrun`: `add_order` does not check the size; a list as long as the order file is enough.
* `ThreadsGoOn`: every cook ends and every courier thread comes back to its next read. This is
  the property the server of `src/README.md:75-83` did not have.
* `MatchNoticed`: a targeted courier and its order do not wait side by side for ever, although
  the listener skips an element after every removal and the arrays move under it.
* `CountedRecorded`, `CountersInRange` (`RecordsInArray`, `AveragesDefined`): the unsynchronised counters lose
  updates, and even fall back to older values, but no counted slot stays unwritten once the
  deliveries are over, 1000 deliveries fit into 1000 slots, and the counters, read again after
  their comparison with 0, are not 0 when divided by.
* `OrderOfItsOwn`, `OrdersCooked`: if every new thread gets to its first statement within the second that
  `process_orders` sleeps, each cook reads the order it was created for, complete, and each order of the file
  gets cooked. A later thread may read the next order (which then has two cooks, and is freed twice),
  but never an earlier one. Nothing waits for the thread: the second is all there is.
* `CountTrue`: while no two updates of the counter overlap, it is the number of connections that were counted in
  and not out; it cannot wrap below 0 then either, although the comparison and the decrement are two accesses.
  `CrashesOverfull`: nothing is written or read behind the table unless an update was lost or
  more than `MAX_CLIENT` connections were counted. `TableOfOpenSockets` (`TableHoldsThem`, `HandlerClosesThem`): until a
  connection ends, the table is the set of open sockets and the handler closes these. The
  end of a connection drops the last socket of the table, not its own, and all bets are off.
* `FieldsOwn`: a courier gets its own name and time unless another thread was inside its calls of
  `strtok` *since the request was read*. It is not enough that nobody is inside during one's own calls: TLC found the
  thread that had loaded a place in a buffer, slept through its owner's delivery and next read, and cut the new text before its owner looked at it.
  `OneCourierPerRequest` holds however the calls interleave, because the first call cuts its own buffer.
* `BuffersOwned`, `HandledInOrder`: unless the loop has overwritten the variable it handed over,
  no two courier threads work on one buffer, none on a freed one, and the requests of a connection are handled in
  order, each once, wherever reads end. `FullReadsKeepRequests`: a request is skipped, or its text torn, only
  after a read of its connection has returned less than the 1000 bytes of the buffer; and the process dies in `strtok`'s results only of a torn
  text, or after the loop has overwritten its variable. `RequestsHandled`: in the end every request is handled, or no read began with its
  `COURIER#` (where the code does not look), unless the server ended its first read there and never reads that
  client again, the accept loop waits for another client's first request, or the server has ended.

* `HashTableSound` (`CellsMatchItems`, `MembersFound`, `StoresInArrays`): cells and items refer to each other, and a member is reachable from its
  home cell, after any removal, around the end of the table too, and any growth, and the cell probed before a growth is not used after it.
* `TreesSound` (`OneOwner`, `ParentsTrue`, `NamesOnce`) and `NothingLeaks`: every value has one owner, at any time and after any failure; all that is not freed can
  be reached by the caller; parents are true. (`json_object_dotset_value`, when it fails late, gives
  the value back with its parent still set: `left`.)
* `ComparisonsAgree` (`CopiesEqual`, `EqualsSymmetric`, `ValidatedHasNames`): a copy equals its original and shares nothing; equality is symmetric
  although only one side's members are walked; what `json_validate` accepts has the schema's names two levels deep, and so has its copy.
* `TextsKeepMeaning` (`SaysItsText`, `RoundTrip`, `SpacesIgnored`, `NestingBounded`): an accepted value says what the text says, all of it and in its order, no deeper than allowed;
  what is written is read again as the same value; white space changes nothing.
* `StringsInBounds` (`EndsAtQuote`, `OutputFits`): the function that looks for the closing quote and the one that reads the
  characters agree, and no escape needs more room than it takes. `Utf8WellFormed` (`StrictUtf8`, `EncodingsValid`) compares with the table of well-formed
  sequences of the Unicode standard; `CommentsIgnored` compares the two passes with one pass for both kinds.

Why these bounds suffice to make the interesting things happen: a container with fewer places
than there are items is full, wraps and refuses; two courier threads, two cooks and the listener give every pair of
actors that share a container; the second order is needed for the move of the last order into a
freed slot, and the second order or courier for an index that goes stale; one client that leaves destroys the
mutex while the other goes on. Requests are bounded by `Couriers` (one each) and by
`MAX_REQUESTS`; `CountFloor` bounds how far below 0 the unprotected counter of the queue is followed
(in `server_parts` only). No symmetry is used: the runs check refinements and liveness. `CHECK_DEADLOCK FALSE` appears
where the system may stop, because all orders are done, all clients gone or the process has
died; or where every text has its length.

Three connections for a table of two places overrun it, and let two of them end at once while the third one is entered;
a counter modulo 6 wraps below 0 to values that lie behind the table, as 2^64 - 1 does. Two seconds of lateness
let a cook miss two turns of the loop, three orders have one before, and one behind it. Two requests per thread give
`strtok` a buffer that has changed, one that is blank and one that has been freed. A surrogate pair is five tokens,
with a sixth before it or behind it and the quote; four bytes are the longest UTF-8 sequence and the shortest string with two of two;
six characters hold a comment in a comment or in a string. Five units of text, two of them
in front of the `#` of `COURIER#`, give a read every kind of end (and a piece that begins inside `COURIER`); two full reads per request have one without text.

Runs that find a violation check one claim of `src/README.md` or `parson.h` each; see section 7.

## 5. Fairness

`FairSpec` of `OrderProcessing` has weak fairness of the steps of each cook, of each courier
thread between the arrival of a request and its next read, and of the listener: each is a thread of
its own, which the scheduler runs when it can go on. A thread that waits for a mutex
needs no more than that in these models, because each critical section is entered by boundedly many others meanwhile. `Receive`
and `Disconnect` have no fairness: requests and disconnections are the clients' choice.
`Connections` has weak fairness of the accept loop and of each courier thread, and none of
`Connect`, `Send` and `Close`. `FairReadySpec` makes a thread inside `add_order` go on.
`FairIntakeSpec` has weak fairness of `process_orders`, of the start of a cook and of time: threads that can run do run, and `sleep`
returns. `PartsSpec` is the conjunction of what `FairReadySpec` and `FairIntakeSpec` assume.

## 6. The proofs

All theorems are checked by TLAPS for every value of the constants: any number of orders, couriers,
connections and requests, any size of the containers, any target of a courier. Assumptions are the
named `ASSUME`s of the modules: sizes are positive, `NULL` is no order and no courier, orders and clients are
different things, a text is not longer than a read and a request is a whole number of reads (4000 and 1000 bytes), the deliveries are finitely many; the counter of connections
can count all sockets there are (a process has far fewer than 2^64 descriptors); a JSON object starts with two cells at
least (16 in the code), hashes are natural numbers and `OBJECT_INVALID_IX` is no index; addresses of JSON values are finitely many numbers, `NULL` is none of them,
and paths have at least one name. Three
theorems assume more: `Utf8StaysWellFormed` that `Bytes` are bytes and that the `CodePoints` are those of Unicode but the surrogates
(`parse_utf16` can make no others: it takes four hexadecimal digits, or a pair of surrogates), `ListNeverOverruns`/`CooksNeverOverrun` that the order file is finite and not longer than
the list, `WaitingStaysBounded` that the connections are finitely many.

| Module | Theorems | Inductive invariant |
|---|---|---|
| `ContainersProofs` | `ReadyTypeCorrect`, `ReadyStaysDistinct`, `EveryPopIsNew`, `ListNeverOverruns`, `ListImplementsPool` | `ReadyInv`: types, `ReadyDistinct`, and `AddingInv` (the order counted but not yet stored is new to the list) |
| | `QueueTypeCorrect`, `QueueStaysConsistent`, `QueueStaysDistinct`, `QueueImplementsFifo` | `QueueInv`: the indices and the counter agree *at each statement*, up to the part of the update still to come |
| `OrderProcessingProofs` | `TargetsStayDistinct`, `TargetArrayImplementsPool` | `TargetArrayInv`: types, `TargetsDistinct`, and `RegisteredInv` |
| | `ProcTypeCorrect`, `OrdersServedOnce`, `CouriersServedOnce`, `WaitingStaysBounded`, `CooksNeverOverrun`, and the containers' promises again for the real threads: `ThreadsKeepListAPool`, `ThreadsKeepQueueAFifo`, `ThreadsKeepTargetsAPool`, `ThreadsKeepTargetsDistinct`; and the dispatcher, `ThreadsImplementDispatch` | `ProcInv`, below; for the dispatcher also that popped orders were listed |
| `ConnectionsProofs` | `ConnTypeCorrect`, `BuffersStayOwned`, `FullReadsKeep`, `RequestsHandledInOrder` | `ConnInv`: types, `StreamInv` (what a buffer begins with is larger than all that were handled, lies before the next read, and has its time unless it was torn), `PieceInv` (full reads begin at multiples of their size), `LoopInv`, `OwnerInv`, `TornInv` |
| `ServerPartsProofs` | `TimeTypeCorrect`, `CountedIsRecorded`, `CountersStayInRange` (`TimeRecords`) | `TimeInv`: a counter is never larger than the number of deliveries that have counted, and stays positive |
| | `CooksCookTheirOwn` (`OrderIntake`) | `IntakeInv`: types, `LoopOrder` (which order the variable of the loop holds, and how complete), `CreatedCooks`, `OrderOfItsOwn` |
| | `CountStaysTrue`, `OnlyOverfullCrashes`, `TableListsOpenSockets` (`ClientTable`) | `TableInv`, below |
| | `FieldsStayOwn`, `OneCourierEach` (`RequestFields`) | `FieldsInv`, below |
| | `PartsTypeCorrect`, and `IntakeInvariant`, `TableInvariant`, `FieldsInvariant` | their conjunction with the types of `ReadyOrders`, `RandomCourierQueue` and `TimeRecords` |
| `JsonObjectProofs` | `ObjectTypeCorrect`, `HashTableStaysSound`, `ObjectImplementsPairs`, and `ObjectInvariant` | `ObjectInv`, below |
| `JsonUtf8Proofs` | `Utf8StaysWellFormed` | the buffer is a sequence of bytes; the rest is about operators, below |
| `JsonTreeProofs` | `TreeSpecSound`, `TreeSpecLeakFree`, `TreeSpecTypeOK`, and `TreeSpecInv` | `TreeInv`: the heap is `Sound`, below |
| `JsonStringsProofs` | `StringSpecInBounds`, `StringSpecReversible` | `StringRead`: `closing` and `string` are what the operators say of the text; the rest is about operators, below |

The containers are proved about first, under *every* schedule of their callers (`ReadyNext`,
`QueueOps`, `TargetNext`), with the weakest promise of each caller: a cook lists its order once,
`remove_order` gets any slot at all. Then `StepIsReadyStep`, `StepIsQueueStep` and `StepIsTargetStep` show
that every step of the threads is one of these, so that the invariants of the containers and their
refinements hold in the composition without being proved again.

None of the properties is inductive. For `OrderServedOnce` one has to know where an order is:
`OrderInv` says that it is with its cook, in the list, in the hands of one courier thread or
delivered by one thread, and in only one of these places. This rests on `ReadyInv` (the list
hands out what is in it, once) and on nothing the listener does: `remove_order` only takes orders
away. `CourierInv` says the same of couriers, for as long as `QueueInv` can be used, that is,
until the mutex is destroyed. `ListenInv` keeps the listener's index inside the array: only the listener
lowers that counter. `TravelInv` makes the couriers that are put into the queue and the array new ones.

`TableInv` counts. A thread between the load and the store of the counter has something in hand: `InHand`
says what it has loaded and `CountTrue` that the counter is the number of sockets in `entered`, as long as no other thread
has stored in between. The cardinality of `entered` is what keeps the counter from wrapping: a thread that decrements has its own socket
in the set, so it is not empty, whatever the comparison with 0 read before. `InArray` and `CrashesOverfull` bound the slots; `Written`
says that a slot below the counter holds the socket that was counted in for it, until the first connection ends.

`FieldsInv` follows one zero after the other. `Stages` gives the local variables of `strtok` a meaning
at each of its steps; `FirstFields` and `FirstCut` say that the first field of a buffer is cut by the
thread the buffer belongs to and nobody else, which is why no text makes two couriers (`CouriersMade`, `OneAfterTheOther`); `FieldsOwn` is about
the second and third call, where the position comes from the static variable, and needs that nobody was inside since the read.

`ObjectInv` is about a ring of cells. `Placed` says that every item has one cell, that no cell refers to anything
else, and that no cell on the way from the home of an item to its cell is empty (`WayOccupied`): then a
probe for its name cannot end before it. `Linked` is the way back, from items to cells, which removal relies on to find the cell of the
item it moves. `json_object_remove_internal` breaks both: while its loop runs, they hold for a table in which one cell is
a gap that counts as occupied (`GapAt`), and of the cells the loop has come past none holds an item whose way leads across the gap
(`ScannedTo`). `MayMoveMeaning` shows that the comparisons in the code, which tell apart whether
the end of the table lies between, mean just that; `ItemMovesIntoGap` and `ItemStays` are the two cases of an iteration,
and `GapClosed` the end: the loop stops at an empty cell, so that no way can lead across the gap from behind it, and there is one,
because the items are fewer than the cells. (The bound of the loop, `cell_capacity - 1` turns, is therefore never what ends it.)
`json_object_grow_and_rehash` builds a second table that is `Placed` for the items added so far (`RehashSound`); `ArgIsNew`
keeps the name that is about to be added new during the growth. With `MembersDistinct` an object
stands for one map only (`OneMap`), and each call that stores, replaces or removes changes it as `NameValuePairs` does.
All of it is promised until `json_object_clear`; the types, and that no array is overrun, also afterwards. The arithmetic
does not need that the capacities are powers of two.

`Utf8StaysWellFormed` is about operators rather than steps. `VerifyIsStandard` shows that the arithmetic of `verify_utf8_sequence`, which
shifts bits together and then compares the code point with bounds, accepts the byte ranges of the standard's table, with their
lengths; the argument is one case per class of first bytes (`LeadByte`). It also shows that a character that is accepted lies within the buffer, since a byte 0 is no
continuation. The loop of `is_valid_utf8` is a recursive function, so that it has to be shown first that
there is such a function (`LoopEnds`: the least position from which on there is one is 1); then the loop accepts if, and only if, it
stands behind a row of characters that reaches the length (`AcceptedSplits`, `SplitsAccepted`: the last position of the row that the loop
reaches, or from which it fails). Both arguments take a greatest element instead of an induction. `SplitsKept` says that what is appended
changes no character before it, and `EncodedCharacter` that the bytes `parse_utf16` writes are one
character, which is read back as the code point (`EncodedInTwo`, `EncodedInThree`, `EncodedInFour`: the groups of six bits).

`StringSpecInBounds` and `StringSpecReversible` are about operators too, for strings of any length. The loops are recursive functions, and
`LeastCursor` and `Backward` (the greatest element again) show that each of them exists (`MovesForward`) and does what one turn says
(`ClosingUnfolds`, `ReadUnfolds`, `WrittenUnfolds`). `skip_quotes` moves by one character or by two, `process_string` by up to twelve: what both have in common is that the
places the second stops at are among those of the first (`SameQuote`), because what an escape takes behind its letter are digits, or
digits and a second escape; so the one that looks for the quote comes to it exactly where the other one ends (`ReadToQuote`). `NoMoreBytes`
compares what an escape takes with what it stands for, and is summed up along the text (`OutputBehind`). The way back has
one case per character (`EscapedIsRead`): what is written for it is read as this character, with no quote in between; `WrittenIsRead`
joins them.

`TreeInv` is `Sound(heap, roots, left)`: no value is in two slots, what is in a slot is a live value whose parent is the container and
which is not the caller's, freed values have no members, names in an object are distinct, the caller's values that have a parent
are those in `left`, and every set that contains the roots and is closed under "member of" contains all live values. The last part
says that nothing leaks *and* that there is no cycle (`NoCycle`: without the values of a cycle the set would still be closed).
`Below` is a recursive function on sets; that there is such a function, and that its value is the least closed set
(`BelowUnfolds`, `BelowLeast`), is shown once, by counting the addresses outside.
`Sound` has the roots as a parameter, so that it can be said in the middle of a call, when
what was made so far is a root of the call. Four changes of the heap keep it, each with its roots: making a value (`MadeSound`), freeing
roots with all below them (`FreedSound`), taking values out of their slots, which makes them roots (`DetachSound`), and storing a root in a
container that is not below it (`StoreSound`). Every call is a row of these: `RemoveAtIxSound`,
`ClearItemsSound`, `AppendPasses`, `ReplacePasses`, `SetPasses`, and so on; `PassedSound` says what a call that was given a value
owes its caller, and `WithNewSound` what follows for the twenty calls that make that value themselves.
Parsing, copying and `json_object_dotset_value` are loops of any length. `Looped` shows that the function of their steps exists, `Forward`
that what each step keeps holds at the end; what is kept is `Filling` (the containers being filled are roots, all different), `Copying` (and
the originals of them are live), and `DotInv`. That one has two halves. On the way in (`Inward`) the
objects that were made are empty roots and the value, if it is one, has the object the path has come to not below it. On the way out (`Outward`) the
value has been stored and is no root any more; `Leads` says that the rest of the path leads from the innermost object to it. So when an
object cannot be added, the path is what `json_object_dotremove_internal` needs to find the value and take it out again
(`LeadsRemoves`, `OneWalk`) before all that was made is freed. The value is the caller's again then, but keeps its parent: it is in `left`.

TLC checked each of these invariants on the instances of the runs before it was proved. `ObjectInv` corrected the model: it could not be
proved as long as a growth made an object sound again after `json_object_clear`, and growth does not (section 7). `LeadByte` corrected it too: the
first bytes 192, 193 and 245 to 247 fitted two arms of a `CASE`, for which TLA+ promises neither; the code tests them first.
`JsonTree` was changed so that it could be proved about: what the recursive functions of parson do to a heap is written as the steps of
the calls that are under way (`ParseMark`, `CopyStep`, `DotStep`), one after the other, instead of by recursive operators; the
comparisons, which still recur along two trees, are in `JsonCompare`.

Only model-checked: liveness (`OrderMutexReleased`, `ThreadsGoOn`, `MatchNoticed`,
`RequestsHandled`, `OrdersCooked`), which is out of the prover's reach; `JsonCompare`, `JsonText` and `JsonComments` (`ComparisonsAgree`, `TextsKeepMeaning`,
`CommentsIgnored`), whose operators recur along trees or texts, as the functions do, and with them `JsonTypeOK`, of which the parts about
an object and about trees are theorems (`ObjectTypeCorrect`, `TreeSpecTypeOK`); and of course the violations.

## 7. Disagreements between the code and its documentation

Each has a run of its own, in which TLC finds the shortest way there.

| Run | `src/README.md` says | The code |
|---|---|---|
| `dropped` | :45, when a courier is registered and an order is ready, one courier leaves the queue to process it | pops and dequeues without looking whether the other is there (`courier_manager.c:162-164`): a courier that arrives before any order is ready is dequeued by its own thread and forgotten, never to deliver; in the same way an order popped for nobody is lost |
| `wrong_order` | :43, :26, a courier with a target picks up that order only | compares `g_ready_orders[j]` and reads it again (`courier_manager.c:203, 205`): a pop in between moves another order there |
| `freed_order` | :78, the order is taken from the list and processed | frees the order first and removes it later (`courier_manager.c:208, 211`): in between a courier thread can pop the freed order |
| `picked_twice` | :45, one courier is taken out of the queue | the end of any connection destroys the mutex of the queue (`courier_manager.c:174`): from then on two threads can dequeue the same courier |
| `cleared_object` | `parson.h:187`, json_object_clear removes all name-value pairs | frees the names but leaves the cells that refer to them (`parson.c:2277`): the next lookup of one of them compares with freed memory |
| `server_ends` | :59-66, a client that closes its connection no longer ends the server | `break` after a first read of 0 or -1 leaves the accept loop, and main returns (`server.c:154`) |

The listener is left out of `OrderServedOnce`, `CourierServedOnce` and `ImplementsDispatch`
because of the second and third rows: what it delivers may have been delivered before.

Seen while modelling, without a claim of the documentation to check them against:

* `remove_order(j)` with a stale `j` removes an order that was never delivered
  (`courier_manager.c:211`); the one that was delivered stays in the list.
* A client whose first request is not for couriers is told `INVALID SERVICE` and never read from
  again (`server.c:162`); its next, valid request is ignored.
* A client accepted before the last courier thread has read `*p` makes two threads share one
  request (`server.c:159`); this is `clobbered`, the condition of the properties of `Connections`.
* A read that ends inside the text of a request (TCP may end one anywhere) makes the server skip the request, never read the client
  again (first read, `server.c:167`), end the process (`strncpy` or `atoi` of NULL, `courier_manager.c:141-142`) or take the first digits of
  the time for the time. The buffer of the first read is not cleared (`server.c:144-146`).
* A cook that starts after the loop's next turn cooks the next order, and nobody cooks its own
  (`order_manager.c:80-82`); one that starts after `process_orders` has ended reads a stack that is gone.
* The end of a connection takes the last socket out of the table instead of its own
  (`courier_manager.c:132`), so that `SIGINT_handler` closes sockets that have ended and misses open ones. Two ends at once can
  take the unsigned counter from 1 to its largest value.
* Two requests taken apart at the same time give a courier the name or the time of another one, or end the
  process (`courier_manager.c:140-142`).
* What `json_object_clear` leaves in the cells does more than bring freed names back: a member that is stored behind such a cell can be
  cut off from its home when the cell is reused or emptied, is not found any more, and can then be set a second time. It is then
  a member twice, also after the table has grown and all its cells are new (`parson.c:2262-2280`, `520-551`).
* A `//` comment with a quote, a backslash or `/*` in it disturbs the pass for `/*` comments, which comes
  first (`parson.c:1377`; `parson.h:86, 93` have no such exception). `Disturbs` in `JsonComments` is the condition.
* A lone `-` is parsed as 0 and not passed over (`parson.c:1077-1084`), so that `[-]` is refused and `-` is not.
* `json_value_init_string_with_len` accepts a length that cuts a UTF-8 character in two
  (`parson.c:366-376`): the rest of the character is read behind the length.
* A comma in front of a closing mark is accepted, in objects and in arrays (`parson.c:983, 1031`).
* A container passed to one below itself makes a cycle that no check sees (`parson.c:1998`).
* `fgets` is not checked (`courier_generator.c:152`): at the end of its input the generator sends
  its last line for ever.

## 8. Assumptions of the models

* The heap does not hand out an address again, so that an object stands for its address. A comparison
  that reads a freed object can go either way; freeing one again, or using NULL, ends the process.
* The heap block of the queue is fresh memory, which reads as zero: a cell that was never written is NULL.
* Locking a destroyed mutex fails at once and the code goes on without it; destroying a held mutex fails
  (EBUSY). This is what the C libraries the program is built with do.
* `--value_count`, `++value_count` and the lines of `deliver_order` that free are one step each. (What
  `deliver_order` does to the waiting times, where the counters race, is `TimeRecords`.)
* In `OrderProcessing` every cook has its own order from the start and every request reaches its
  courier thread whole; `Connections` and `RequestFields` show under which conditions requests do, `OrderIntake` when a cook has its own order.
* A `courier_t` is allocated for one request. Names of orders are distinct, so that a target is an
  order. (With equal names a target fits several orders; the listener's steps are the same.)
* A connection in the backlog may be accepted in any order. `accept` and `pthread_create` do not fail.
  A client that closes lets the server read what was written before (no reset that discards data), and a
  write of 4000 bytes is not interrupted by the end of its client.
* In `Connections` all texts are equally long and fit into the buffer with their zero, `COURIER#` is nowhere in a
  request but at its start (no name ends with `COURIER`), and a text that was skipped for its incomplete `COURIER#` is no request
  even if another thread, whose buffer it overwrote, takes it apart.
* In `ClientTable` a socket is the name of one connection: the server closes none before the handler runs, and what is accepted after
  that only counts as `moved`. `pthread_kill` makes other threads run the handler too; they all do the
  same, and the model has the one that comes to `exit` first. For a thread that was never created it fails (ESRCH), as it
  does where the program is built.
* In `RequestFields` texts are those of `courier_generator`: three fields, none empty (its `validate_input` refuses others),
  shorter than the buffer, and read whole; what reads that end in a text do is `Connections`.
* In `JsonTree` the caller frees only what it was given and not passed on, and makes no cycles.
* `add_time_records` and `print_time_records` are called with the times left out; only which slots
  are written, read and counted is modelled.

## 9. Not modelled, and the plan

Not modelled, because it is I/O without state of its own: log lines and their wording, the arithmetic of the
averages, the set-up of the listening socket (`server.c:102-126`; when it fails the process ends), the terminal of the generator
and what it prints (`courier_generator.c:48-77, 150-157`). Its check of a line (`98-125`) is an assumption of
`RequestFields`: two fields and a number, which the server then finds again. Of parson: reading and
writing files (`199-230, 1338-1358`), the pass of the serializer that only counts bytes and the buffers around it
(`1776-1894`), the conversion of numbers, and getters that only check a kind and cast. Names and texts are atoms: strings
without a terminator (`strncpy` of 100 or more characters, `courier_manager.c:141`, `order_manager.c:76-77`) are listed among the
hazards and not modelled. `printf` in the handler of SIGINT and the log lines that print a freed order
(`order_manager.c:48`, `courier_manager.c:167`) have no effect on the state that is modelled.

The plan:

1. **Two passes over comments are one** (`CommentsIgnored`): `remove_comments` is a loop over one cursor, as `skip_quotes` is, and could be reasoned about
   in the same way.
2. **Composition** of `Connections` with `RequestFields` and `OrderProcessing`, through `Handle`, `Begin` and `Receive`, if the state space allows.

## 10. How to run

```
tlc -workers 2 -config MCOrderProcessing.cfg MCOrderProcessing     # one run; the cfg names the properties
tlapm OrderProcessingProofs.tla                                     # the proofs of one module
```

`PROJECT.json` lists the runs with their modules and configurations, the line of code each
definition models, the variants that make each property fail, and the theorems.
