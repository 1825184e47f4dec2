# commonpp in TLA+

A TLA+ development of [commonpp](../src): the thread pool on top of
`boost::asio`, its timers, the binding of threads to cores, the logging
interface, the HTTP request builder and response parser, the encoders and the
small classes of `core`. Each module is translated from the code it names; TLC
checks it on small instances. TLAPS proves the safety properties for every number
of threads, services, callables, pools, timers, channels, sinks and objects, and
those of the codecs, the JSON escaper, the response parser, `Options` and
`RandomValuePicker` for texts, widths and collections of any size.

    tlc  -workers 2 -config Pool.cfg ThreadPool.tla             # one run
    tlapm ThreadPoolProofs.tla                                  # one proof

`PROJECT.json` lists the components, the runs, a faulty variant of the code for
every property, the source lines of every definition, the findings, the hazards
and the theorems.

## 1. Inventory

| Component | State | Operations | Talks to | Hard behaviour |
|---|---|---|---|---|
| `thread::ThreadPool` (`ThreadPool.{hpp,cpp}`) | `running_`, `threads_`, `services_`, `works_`, `current_service_`, `running_threads_`, `on_exit_thread_fn` | `start`, `stop`, destructor, `post`, `dispatch`, `postAll`, `dispatchAll`, `getService`, `getCurrentIOService`, `runningInPool`, move constructor, `set_cleanup_fn` | io_contexts (its own, or one of the program shared with other pools), its threads (they hold `this`), callables (call back into the pool) | threads run before their handle is stored; `stop()` from a callable; restart; moves of a running pool; a failing `std::thread` constructor; two pools on one context; a counter that wraps |
| timers (`schedule`, `schedule_timer`) | one `steady_timer` shared by the pending handler and the holder of the `TimerPtr` | `schedule`, the handler of the wait, `cancel()` of the holder | io_context, clock, callable | expiry racing a cancel; re-arming; stop/start in the middle |
| cores (`detail/Core*.cpp`, the dispatchers of `ThreadPool.cpp`) | hwloc topology, list of cores, `current_core` | constructors, assignments, `bind`, `set_affinity` | pool (`AffinityPolicy`), hwloc | ownership of the topology; a division by the number of cores |
| `ThreadTimer` | a clock id, two start times | `start`, `elapsed` | clocks of the platform | two clocks read one after the other; a thread that is gone |
| thread names (`Thread.cpp`) | per thread name | get, set | OS, logging | length limit |
| hex, base64 and URL codecs (`string_encode.cpp`, `URL.cpp`) | none | encode, decode | used by the request builder | characters that mean something in the encoded text; texts cut in an escape; padding |
| `escape_json_string` (`json_escape.cpp`) | a buffer and a position | count, fill | - | two loops that must agree; the end of the buffer |
| `Options` | a bit mask | set operations, queries | - | values of several bits or of none |
| `RandomValuePicker` | pointer to a collection, its size at construction | pick, copy | - | the collection changes |
| `http::Request` | method, version, path, query, headers, body | setters, `headers() +=`, `query() +=`, `buildRequest` | URL codec, header validator | one line shared by data and separators; two lengths |
| `http::Response` | buffer, code, message, headers (pointers into the buffer) | `isCompleteHeader`, both `from`, copy, move | whoever receives the bytes | partial data; look-ahead; copies |
| `http::Connection` | socket | accessors | asio | - |
| logging (`LoggingInterface.*`) | filter by level and channel, the sinks of the Boost.Log core, pointers to the console and syslog sinks | `init_logging`, `set_logging_level*`, `enable_*`, `add_file_sink*` | Boost.Log core, every thread that logs, `atexit` | sinks in use before they are set up; records opened before and pushed after a change; the exit |
| `ExecuteOnScopeExit`, `join`, `stringify`, dates, traits, float comparison | small or none | - | - | - |

What makes each correct:

* *pool*: `start()` and `stop()` return; between them every thread serves and
  every callable handed over is run; a callable runs at most once, on one
  thread, never after `stop()` returned; after `stop()` nothing of the run is
  left; the context of a thread is found from inside a callable; threads have
  one owner at any time; contexts take turns; pools on one context disturb each
  other by `stop()` only.
* *timers*: one wait, handler or call per live timer; none after the end; none
  too early; always another one.
* *cores*: each topology has one owner; threads are spread evenly over cores
  that exist. *ThreadTimer*: the time is that of its thread.
* *codecs, JSON*: decoding inverts encoding; encoded text is free of
  separators; the buffer is exactly as long as what is written.
* *Options*: an object is a set of flags. *Picker*: what it gives is in the
  collection.
* *logging*: a record is written where the calls made so far say, once,
  formatted, and nowhere else, whatever is configured while it is on its way.
* *request, response*: what was put in is what the other side reads;
  a partial response is not taken for a whole one; the views of a response stay
  inside the text it owns.

## 2. Modules

| Module | Models | EXTENDS / INSTANCE |
|---|---|---|
| `TaskPool` | abstract: what a user of the pool relies on | |
| `ThreadPool` | `start`, `run`, `stop`, destructor, `post`, `dispatch`, lookup | `INSTANCE TaskPool` |
| `ThreadPoolProofs` | inductive invariant, type, counters, serving, lookup, freshness; placement of callables, refinement of `TaskPool`; serving on a shared context | `ThreadPool`, `SharedPools` |
| `PoolOwnership` | move, failing start, cleanup function, destruction of several pool objects | |
| `PoolOwnershipProofs` | inductive invariant and five theorems | `PoolOwnership` |
| `SharedContext` | several pools on an `io_context&` of the program | |
| `SharedPools` | that module with names `ThreadPool` leaves free | `INSTANCE SharedContext` |
| `ServiceSelection` | round robin, `postAll`, `dispatchAll`, lookup after starts that failed | |
| `Cores` | `Cores`, the dispatchers that bind threads | |
| `ThreadTimer` | `ThreadTimer` | |
| `ScheduledTimer` | `schedule`, `schedule_timer` | |
| `ScheduledTimerProofs` | inductive invariant and four theorems | `ScheduledTimer` |
| `Logging` | levels, sinks and exit on the main thread, against threads that log | |
| `LoggingProofs` | inductive invariant and six theorems | `Logging` |
| `Codec`, `CodecCalls` | hex, base64 and URL codecs; a program that uses them | |
| `JsonEscape` | `extra_space`, `escape_json_string` | |
| `OptionSet` | abstract: sets of flags | |
| `Options` | `Options<Enum, ...>` on the bits of a number | `INSTANCE OptionSet` |
| `RandomValuePicker` | `RandomValuePicker`, `createPicker` | |
| `Decimals` | numbers as text: `stringify`, `strtol` | |
| `HttpRequest` | `Request`, its validator and serializer, `buildRequest` | `Codec`, `Decimals` |
| `HttpResponse` | `isCompleteHeader`, both `Response::from` | `Decimals` |
| `ResponseCopies` | copy, move and destruction of `Response` | |
| `CoreParts`, `ThreadParts`, `HttpMessages` | the parts of `core`, `thread` and `net::http` that share no state with another | `INSTANCE` of those parts |
| `TextProofs` | lemmas: induction, laid-out texts, round trips of the codecs and of decimals | `Codec`, `Decimals` |
| `CorePartsProofs` | digits and bits, four invariants; a theorem of each property | `CoreParts`, `TextProofs` |
| `ThreadPartsProofs` | five inductive invariants, a theorem of each property | `ThreadParts` |
| `HttpMessagesProofs` | the layout of a header, how a request is taken apart, the invariants of requests, of the parser and of copies; a theorem of each property | `HttpMessages`, `TextProofs` |
| `MCCoreParts`, `MCJsonEscape`, `MCThreadParts`, `MCHttpMessages` | values for TLC; the other runs need model values only | the module each is named after |

`CoreParts`, `ThreadParts` and `HttpMessages` put independent parts side by
side: `part` says which of them the program of a behaviour uses, and the others
stay in their initial state. Interleaving parts that share nothing would only
multiply the states. Their assumptions say what the constructors accept.

An operator whose comment begins with *Faulty* is a plausible mistake in the
definition below it. Nothing uses it; putting it in the place of that
definition makes the property it is meant for fail.

### ThreadPool

`step`, `caller`, `idx` are the program counter of the one call of `start()`,
`stop()` or `~ThreadPool()` in progress; `pc[t]` is that of pool thread `t`.
A call is split where another thread can see the difference:

| Code | Actions |
|---|---|
| `start()` 138-214 | `Start` (guards, latch), per thread `Spawn` (the thread exists and runs) and `Publish` (its handle is an element of `threads_`), `StartReturn` (`latch.wait()`, `running_ = true`) |
| lambda of `start()` 187-206, `run()` 216-236 | `ThreadInit` (counts the latch down), `EnterRun`, `TakeTask`, `FinishTask`, `LeaveRun` |
| `stop()` 238-267 | `Stop` / `StopBegin` (`running_ = false`, `works_.clear()`), `StopService` per service, `Join` per thread or `JoinSelf`, `StopReturn` (clear, restart) |
| destructor | `Destroy` (as `stop()` when running), `DestroyMembers` |
| `post`, `dispatch`, `getService` | `Post`, `Dispatch`, by any caller of `Callers` |

The io_context is external code: a queue, a stopped flag, and the rule that
the end of the last work (guard, queued handler, handler in progress) stops it.
That rule is why work guards exist, so it is modelled (`NoWork`).
`stack[t]` is the stack of callables thread `t` is inside: `dispatch()` to the
thread's own context runs the new callable on top of the calling one.

### PoolOwnership

Pools are moved: `threads_`, `services_`, `works_`, `running_` change hands,
`on_exit_thread_fn` does not, and each thread keeps `this`. A start that
succeeds is one step here, as its interior is `ThreadPool`'s subject;
`StartFails` is a `std::thread` constructor that throws, after which the
threads created so far count down a latch whose lifetime is over. An access to
an object that is gone is undefined behaviour and is a choice: any value, or
the end of the process (`ended`). A pool owns one set of contexts, named after
the pool constructed with them. `running_threads_` is left out: nothing reads
it. A pool moved from is not started again (its `services_` is empty and
`start()` would index it).

### SharedContext

The constructor that takes an `io_context&` lets several pools run one context,
next to work of the program itself (`host`). Here each pool has a caller of its
own, so a `start()` of one falls between any two steps of the `stop()` of
another. `Guarded` is the work guard `start()` takes, `StopContext` the
`service->stop()` that ends the threads of *all* pools, `StopReturn` the joins and
the `restart()`, which the others see too. `disturbed` and `overtaken` are history:
whether another pool has stopped the context since the `start()` of a pool, and
whether another pool's `restart()` came while a pool was joining.

### ServiceSelection, Cores, ThreadTimer

`ServiceSelection` is the arithmetic of contexts: `current_service_` as an
unsigned counter that wraps around at `UIntMod`, the loops of `postAll()` and
`dispatchAll()` (which posts as well) one turn at a time between the calls of
other threads, and `getCurrentIOService()` by the position of a handle, for pools
of several shapes. `StartFails` leaves handles behind, so the next `start()`
appends to them; `leftover` is how many.

`Cores` has every constructor and assignment as written: a move takes the
topology and counts its cores again, a copy makes a topology of its own, an
assignment drops the old topology without destroying it and keeps (or appends to)
`cores_`. `assigned` marks the objects an assignment has touched; the library
itself assigns nowhere. `SetAffinity` is one thread bound by a dispatcher, whose
counter moves with it.

`ThreadTimer` reads the clock of a thread and the wall clock in two steps each,
with time passing in between, over a `timespec` whose seconds carry. On the clock of
a thread that has ended the constructor, `start()` and `elapsed()` throw.

### ScheduledTimer

Of the pool, only what `TaskPool` promises is used: handlers run while it is
active. A timer has `waits` pending, `left` ticks to its expiry, and its
handlers in `queue` with their error code. `ScheduleTimer` is
`schedule_timer()`: the expiry, then one wait. `duration_cast` to milliseconds
is `(Delay \div TicksPerMs) * TicksPerMs`. `Return(w, result)` is a callable
that returns; `TRUE` also stands for one that returns no value
(`make_bool_functor`). `outcome` and `since` are history.

### Logging

The main thread makes the calls of `LoggingInterface.hpp`; `main` says which it
is inside of. `enable_console_logging()` and `add_file_sink()` are two steps
each (`EnableConsoleLogging`, `FilterConsole`; `AddFileSink`, `FormatFile`)
because the sink is in use before its filter, or its formatter, is set; the
other calls configure a sink first and are one step. A thread that logs opens a
record (`Open`: the filter of the core, then those of the sinks), pushes it
(`Push`: the weak pointers to the sinks are locked) and each sink writes it
(`Consume`), so a change of the main thread, or the exit (`FlushLogs`), may fall
between any two of these. `Foreign` is a record of the rest of the program,
`AddHostSink` a sink of its own. `wanted`, `ready` and `setup` in a record are
history: what was asked for when it was opened.

Where `severity_by_channel` is changed without a lock, the model follows the
comment of the header: channel levels are set before anything is logged.

### Codec, JsonEscape, Options, RandomValuePicker

These are sequential: their difficulty is data, so texts are sequences of
bytes and the conversions do what the code does. `Codec` keeps `strtol`'s rules
(blanks, a sign, the first non-digit ends it), `strchr` finding the terminator,
and the characters `url_decode` reads behind the end; its base64 has the padding
the code adds and takes off, the iterators of Boost.Serialization being external.
`JsonEscape` runs the two loops character by character on a buffer that has its
terminator. `Options` computes on a number of `Width` bits with `&`, `|` and `~`,
which are external: a bit is what halving leaves, a number is put together of its
bits. Its abstract specification, `OptionSet`, works on sets. `RandomValuePicker` keeps the upper
bound its distribution was made with while the program changes the collection;
which number the generator draws is a choice.

### HttpRequest, HttpResponse, ResponseCopies

`HttpRequest` has an action per setter; the second half of the module is a
reader written from RFC 7230, the reference for its properties and no part of
the model: it cuts the header off at the first blank line, and cuts lines, words,
pairs and names at what separates them (`Split`, `Before`, `After`). `buildRequest()`
looks for these separators in the query only; `WellFormed` is what it leaves to its
caller, and an assumption of the properties, not of the model. `HttpResponse` has a
server (the reference), a cut at any place, and the parser with its loop over the
fields as one action per turn. The text is a `std::string`, at whose end stands a Nul,
or a `std::vector<char>`, behind whose last character there is nothing: reading there
ends in `pc = "outside"`. So does reading behind a literal: the loop of `expect()`
(`Response.cpp:71`) stops at the first difference and at the end of the text, not at the
end of the literal, whose terminator is no different from a Nul that follows in the
text. `RunsOn` is that case, and `Expects` is `expect()` returning without it.
`Decimals` writes the length and the versions, and reads the status code.
`ResponseCopies` is where the text of each object is (a block that can change
hands, or the object itself for a short string), where its views point, and what
the generated copy and move do to both.

## 3. Runs

All pass except `pool_lookup`, `ownership_cleanup`, `logging_default` and
`json_terminator`; each of those four checks one statement of a comment, a
message or the Readme, and is a finding.

| Run | Instance | What it shows |
|---|---|---|
| `pool` | 4 threads, 2 services, 2 callables that may call `stop()` | two services make lookup and round robin matter, two threads share each; one callable runs on top of, behind or next to the other |
| `pool_lookup` | 2 threads, 2 services | violation, see findings |
| `ownership` | 3 pool objects, 3 threads, 2 per start | a chain of two moves; a start that fails after one thread, and the one tried after it |
| `ownership_cleanup` | 2 pool objects, 1 thread | violation, see findings |
| `shared_context` | 2 pools of 2 threads, 2 queued handlers | one thread of a pool leaves while the other is in a handler, and a restart falls in between |
| `timers` | 2 timers, 2 workers, delay of 2.5 ms | the delay is not whole, so truncation shows |
| `thread_parts` | shapes 1x1, 4x2, 3x3, a counter of 4 values; 2 `Cores` objects, 3 topologies, 4 threads; 2 threads and a clock of 2 ns to the second | 3 contexts do not divide the counter, 2 do; an assignment leaks and a third topology follows; a dispatcher goes round its cores twice; seconds carry twice |
| `logging` | 1 thread that logs, 3 sinks of any kind, 2 levels, 1 channel | two consoles would fit; a record has a level above, at and below what is asked; threads that log meet only where one keeps a sink of another alive at the exit |
| `logging_default` | 1 sink | violation, see findings |
| `core_parts` | texts of up to 3 of the characters the codecs, and those `escape_json_string`, name; 2 `Options` of 3 bits with values of no, one and two bits; 2 pickers, 3 elements | every pair and triple of neighbours, every length modulo 3 for base64; every operation between two objects; a collection that shrinks below what a picker remembers |
| `json_terminator` | texts of up to 2 | violation, see findings |
| `http` | request: 2 paths, 2 query pairs, 2 fields, a body of up to 10 bytes; response: 2 fields, cut at every place, string and vector; 3 objects, 3 blocks | keys, values and bodies made of separators; a length of two digits; a path that is not well-formed; same and different names, blanks, empty values, a value with `:`; an empty reason phrase; a body that begins with a Nul; a copy of a copy while its source is moved |

The bounds are enough where they are because the code treats threads, timers,
characters, fields and bits one at a time: what goes wrong does so between two
neighbours. The theorems remove the bounds, except for liveness.

*Deadlock* is not checked in any run: a pool that nobody uses, a function that
has returned and a pool that is destroyed are proper ends of each model. That
calls end is stated as liveness (`CallsReturn`, `JoinsReturn`, `StopsReturn`).

*Fairness* (`FairSpec`): weak fairness of each pool thread and of the call in
progress, since the OS schedules every runnable thread; of `Tick` and `Expire`,
since the clock advances and the reactor reports expired timers. Nothing makes
anybody call `start()`, `stop()`, `post()` or `cancel()`, and a callable ends
(`FinishTask` is part of the fairness of its thread): one that never returns
blocks its thread, and `stop()`, by design. In `PoolOwnership` a thread need
only leave a context that is stopped: one that is merely out of guards may have
work for ever. In `SharedContext` the same holds for each thread and for each
caller inside `start()` or `stop()`.

Under this fairness: `CallsReturn` (start and stop return; a `stop()` from the
pool's own callable ends the process, in every schedule), `QueuedTasksRun` (what
is queued on a pool that stays running is run), `KeepsTicking` (a live timer on an
active pool is called again and again), `JoinsReturn` (the joins of a pool that
was moved end), `StopsReturn` (so does `stop()` on a shared context). The last
has one exception, and TLC finds the schedule without it: a thread in a handler
does not see that the context was stopped if another pool's `restart()` comes
before the handler ends, and the `stop()` that waits for it waits on.

## 4. What is proved

From the assumptions on the constants only (`PoolAssumption` is what the
constructor accepts; `CoreAssumption`, the bytes a codec and the `char` an escaper
sees; `OptionsAssumption`, values that fit the underlying type, which `Enum` has by
`static_assert` unsigned; `TimerAssumption`; `LoggingAssumption`;
`OwnershipAssumption`; none for `SharedContext`; `ThreadAssumption`, whose shapes
are those the constructor of a pool accepts and whose machine has a core of each
kind asked for; `HttpAssumption`, blocks and objects are different things, and a version is an
integer; `RequestAssumption`, what a program may give to a request: any bytes;
`ResponseAssumption`, what a server may send: a code of three digits, a reason phrase,
empty or not, without a CR and with no blank in front, names without the characters
that end a name, values without a CR and with no blank in front, and any bytes behind
the header), with
`tlapm`:

**ThreadPoolProofs.** The invariants are not inductive as they stand: that no
context is stopped while the pool runs depends on the guards being held, which
depends on where `start()` is, and so on. `IInv` ties everything to the position
of the call in progress: `ShapeIdle` (either everything serves or nothing is
left), `ShapeStarting` (threads below `idx` exist, the rest do not, all guards
are held), `ShapeStopping` (services below `idx` are stopped, threads below
`idx` are joined), `ShapeStacks` (only a thread in `run` executes), and the two
counters as cardinalities. Then `TypeCorrect`, `CountersCorrect`,
`ServingCorrect`, `LookupCorrect` and `FreshCorrect` follow from `IInv`. The
lemma behind `LookupCorrect` is that the position of a handle and the index
`start()` used agree because `size = idx` throughout `start()`.
All of this is for pools whose callables may call `stop()` as well
(`TasksMayStop`).

**ThreadPoolProofs, callables.** `Placed` says each callable is where its status says,
once; each action that moves one has a lemma on positions of sequences. With
`IInv` it gives `PlacementCorrect` and `Refinement`: every step of the pool is a
step of `TaskPool` or a stutter, under `phase <- Phase`. `JoiningTakesNothing`
is the action property.

**PoolOwnershipProofs.** `IInv` holds three parts as long as the process lives:
`Owned` (contexts and handles have one owner, and the handles in a pool are of
threads that serve its contexts), `Kept` (a pool that is not being joined and has
handles holds the guard that keeps their threads in service) and `Unmoved` (a
context that never changed owner is looked after by the pool it was constructed
with, which is `this` of its threads). `Owned` alone carries
`ThreadsHaveOneOwner`; `Kept` needs it, because a move could otherwise give a guard
to one pool and the threads to another, and carries `RunningPoolsServe`; `Unmoved`
carries `UnmovedPoolsCleanUp`. `LeftByFailure` (handles left in a pool that does not
run are those of a start that failed) is kept next to it: it is why a destructor
that finds handles means misuse (`MisuseOnly`).

**ThreadPoolProofs, shared contexts.** `ServesUnlessStopped` speaks of running pools, but what
survives the steps of the others is the guard, held from the beginning of
`start()` on (`GuardsHeld`); `GuardsServe` is the property for those who hold one.

**ScheduledTimerProofs.** `Links` is `OneLinkPerTimer` without counting: two
handlers, two calls, a handler and a call, or a wait and either are never of one
timer, and a live timer has one of them. `Outcomes` says which outcome each
kind of link implies; without it a handler could be queued for a cancelled
timer and `EndedIsFinal` would not be inductive. `Apart` says that the time gone
since the last arming, plus what is left, is the expiry.

**LoggingProofs.** What becomes of a record is decided when it is opened, so
`IInv` relates the record to the configuration it met. `Pointers` ties the static
pointers to the list (no second sink of kind console or syslog); `Filtered` says
a sink without a filter is the program's own, or the console the main thread is
adding right now; `Bound` keeps for every sink a record is bound for or was
written to what `Accepting` knew of it. `DroppedCorrect` rests on
`FilterIsSound`, `ForeignCorrect` on `Filtered`, `OnceCorrect` on `Pointers`.
`ArrivalCorrect` needs a second invariant, `Arriving`: each sink that was ready
for the record is one it is still bound for or has been written to, unless
nobody holds that sink. `FilterIsComplete` starts it, `NoRevival` (a sink nobody
holds does not come back) keeps it. `FormatCorrect` needs a third, `Formatted`: the
one sink without a formatter is the file being added.

**ThreadPartsProofs.** Both round robins deal something out in turns, and `Evenly` is
what they share: of `n` receivers, those before the next turn have had one more
than the others. `TurnsInv` keeps it for `posted` while `InStep` holds (the counter
has not wrapped, or wraps at a multiple of the number of contexts), and lets a
`postAll()` in the middle of its loop be `Balanced` against what it still has to
post; `Division` and the lemmas on remainders behind it carry the step of the
counter. `SpreadInv` keeps it for the threads of each core through the copies and
moves of a dispatcher, and needs `CoresInv`: the cores an object hands out are those
of its topology, and no topology has two owners. In `LookupInv` the handles behind
`leftover` name the contexts in turn, counted from there; the property follows when
`leftover` is a multiple of the number of contexts. `TimerInv` says of the step in
between two reads of a clock how far the wall clock may have gone on.

**HttpMessagesProofs, the parser.** What a header looks like and where the parser
stands in it are one argument for any number of fields of any length. `FlattenSeq`
is recursive, so `FlattenLaysOut` (in `TextProofs`) takes the least number of parts for
which it would fail: `Least` (every nonempty set of numbers has a least element, from
the library's theorem about well-founded relations) is the induction used everywhere.
`HeaderLaidOut` gives the place `LinesAt(r)[k]` of each line; `Shown` says what a
cut at any place leaves of it, and `StatusAt` and `FieldAt` spell that out character
by character. `FirstIn` is what a search of the parser finds, and unique; so
`StatusPlaces` and `FieldPlaces` follow, and from them that a line is accepted when it
was received whole (`WholeStatusIsValid`, `WholeFieldIsValid`) and only then
(`ValidStatusIsWhole`, `ValidFieldIsWhole`), an empty reason phrase excepted. Behind the
end of a line that is not the last stands no Nul (`NoNulBehindLine`), so `expect()` can
run on only at the end of the header. The code is digits that read back as its number
(`StatusRead`, from `DigitsRead`). `ParserInv` is then: the parser is
behind `k` lines, `parsedHeaders` is of every name among the first `k` fields the
last value (`FieldsOf`), and a response is refused, or read behind its end, only
while a part of its header is missing or in those two cases (`WholeIsRead`). `CompleteIff` says the same
of `isCompleteHeader()`, by a different way: a CR ends a line or begins the blank
one (`BreakEndsLine`), and the character behind the end of a line is not a CR unless
the line was the last. The two together are `AcceptsCorrect`; `AllFields` turns
`FieldsOf` into the last value of each name (`ReadsCorrect`).

**HttpMessagesProofs, copies.** `ViewsStayValid` leaves copies aside, but a copy could
take the memory of another object. `Apart` is about all objects: no two texts in
one place, a short text inside its own object. `PutInv` is the one lemma for
every operation that puts a text somewhere new; `MoveKeeps` treats the block that
changes hands.

**HttpMessagesProofs, requests.** That a request reads back is a matter of which
characters its pieces lack. `RequestInv` holds of any bytes: there is none of the
reserved characters in an encoded key or value (`UrlWithout`, from `UrlIsSafe`), and the
numbers are decimals (`DecimalWithout`). `WellFormedReadable` adds what `WellFormed`
asks for: no blank or CR in a method, no `?` in a path, no colon or CR in a name.
`FindIs` says where a search for a separator stops, `SplitIs` and `BeforeAfter` that
pieces without the separator are what a text put together of them is cut into. From
these come `PairReads` and `QueryReads`, `HeaderReads` for a field, `WordsRead` for the
start line; `UrlRoundTrip` turns the encoded query back into the pairs that were given.
The header needs more, because its end is where the *first* blank line is and a body
may hold any number of them: `NoBreakInLines` shows there is none before, wherever two
lines meet, and `HeadReads` cuts there. `MadeOf` relates the text as the code appends it
to the lines a reader wants; `WireReads` puts both together. `OneLength` is counted over
`headers`, of which `HeaderValidator` let none through that spells `Content-Length`, and
the one field `buildRequest()` adds. That its decimals are the number of bytes in the
body, however many, is `DigitsRead` (in `TextProofs`).

**TextProofs, induction.** What a text or a number is made of is defined by recursion
over the text or its bits, and the library's induction theorems take an operator as a
parameter. `Upwards` and `Downwards` are induction over a *set* of numbers instead,
from `Least`; `ClimbExists` and `DescentExists` build the function that satisfies a
recursive definition, one value from the next. A lemma about a recursive operator
(`Decodes`, `Joins`; `Halves` and `Sums` in `CorePartsProofs`, `Cuts` in
`HttpMessagesProofs`) then says that what it returns is a link of such a chain, and
never looks at the definition again.

**CorePartsProofs, codecs.** `CodecInv` says where the text on the wire comes from;
the work is in the round trips, in `TextProofs`. For hex and URL, `LaidOut` is where each piece of the
encoded text stands (`PartAt`), `UrlAt` which piece a character is of, so that
`UrlIsSafe` and, down from the last piece, `UrlRoundTrip` follow; `StrToByteIs` is
`strtoul` on two digits. For base64 neither side is looked at byte by byte:
`SameBitStream` says both groupings have the same bits (`BitOf`), `BitsOfNumber8` and
`BitsOfNumber6` that a number is its bits, and `RegroupBack` puts the two together;
`UnpaddedIs` takes off as many `=` as `Counts` put on. `ForeignHex`, `ForeignUrl` and
`ForeignBase64` bound what becomes of a text from elsewhere.

**CorePartsProofs, JSON.** `JsonInv` carries the two loops: `space` is what the
escapes of the characters counted so far are longer than those (`JsonAt`), and the
buffer holds the escapes up to `pos`, with only the backslashes of the allocation behind
them (`Filled`). Without the latter the invariant is not inductive: the code
relies on them and never writes the first character of an escape.

**CorePartsProofs, Options and pickers.** `BitsOfNumber` says a number put
together of digits has them; so `AndIs`, `OrIs`, `JoinedIs` and `WithoutIs` make sets of
their bits intersections, unions and differences; `OptionsRefine`
is then one step per operation. `PickersAttached` ties what a picker remembers to a
collection that has lost nothing since (`PickerCorrect`).

Only model-checked: liveness, since fairness is out of the prover's reach
(`CallsReturn`, `QueuedTasksRun`, `KeepsTicking`, `JoinsReturn`, `StopsReturn`). Every
invariant a passing run checks, both refinements and the other action properties are
theorems.

## 5. Findings

* `pool_lookup`: a callable posted before `start()` may run on a thread whose
  handle is not in `threads_` yet; `getCurrentIOService()` then throws although
  the thread serves a context (`ThreadPool.cpp:185`, message at `:308`). Once
  `start()` has returned this cannot happen (`LookupCorrect`).
* `ownership_cleanup`: the move constructor does not move `on_exit_thread_fn`. A
  function given to a pool before it is moved stays with the old object; the
  threads that the new object's `start()` creates exit without calling it
  (`ThreadPool.cpp:124-136`, comment at `ThreadPool.hpp:110`).
* `logging_default`: the Readme says `init_logging` should not be called in a
  program that uses Boost.Log already, but only `init_logging` makes
  `severity_by_channel` let through channels without a level of their own; after
  `set_logging_level(trace)` alone every record of the library is dropped
  (`LoggingInterface.cpp:108`, comment at `:114`).
* `json_terminator`: a string that ends in a control character without a short
  escape makes `result[pos] = '\\'` write at `result[result.size()]`
  (`json_escape.cpp:177`). The escapes themselves are right (`EscapesInOrder`).

Some properties hold only with a condition that names what the code does not
prevent; no document promises otherwise, so these are not findings. A `start()`
that failed may leave a number of handles that is no multiple of the number of
contexts, and the lookup is then wrong (`LookupSurvivesFailedStart`). A counter of
2^32 values repeats a context when it wraps unless the number of contexts divides
it (`ContextsTakeTurns`). An assignment of `Cores` leaks a topology
(`CoresAreOwned`). A picker older than a removal may pick outside (`PicksInside`).
A copy of a `Response`, or one made by moving a short string, shows the text of its
source (`ViewsStayValid`). A vector that holds a part of a header is read behind
its end, which `isCompleteHeader()` rules out. It does not rule out two other cases
(`AcceptsWhenComplete`): a complete header with an empty reason phrase is refused, and
when the body begins with a Nul the last `expect("\r\n")` reads behind its literal, with
no telling whether it returns. A request with a blank in its path, or a colon in the
name of a field, reads as another one (`RequestReadsBack`, `OneLength`).

## 6. What is not modelled, and the abstractions

* Callables have no content: they may post, dispatch, call `stop()` and end.
  Each is handed over at most once (a bound; a second copy is another callable).
  A callable that throws ends the process in the code; it is left out.
* One thread at a time calls `start()`, `stop()` and the destructor of one pool:
  `running_` is a plain `bool` and the class has no lock around them. A `stop()`
  during the `start()` of the same pool (`ThreadPool.cpp:240`) is listed as a hazard
  without a property, and so are two operations of one asio timer at a time
  (`ThreadPool.hpp:137`), which asio does not define.
* The interior of asio, of the waitable timer, of `std::latch` and of hwloc is
  external and modelled from its documented behaviour as the code uses it.
* Locale: `isalnum` and `isspace` are those of the C locale.
* Logging: the text of a line, the syslog severities, `auto_flush_console` (when
  a line gets to the terminal) and the name of the thread in a line.
* Thread names and the affinity functions of `Thread.cpp`: calls of the platform
  without state of their own; the `Cores` object the latter make, use and destroy
  is modelled. (`Thread.hpp:24` says of the number of cores "returns -1 if we
  can't calculate it"; a build without hwloc returns what
  `std::thread::hardware_concurrency()` does.)
* `Connection` is a socket behind accessors, `ExecuteOnScopeExit` one flag; string
  conversions, dates, traits, float comparison and `Utils` are compile-time
  selection, formatting and floating point, and hold no state a finite model would
  tell anything about.

## 7. What could follow

1. A composition of the timers with the pool they run in, and the timer's
   abstract specification (a periodic call) with a refinement proof.
2. The position invariant of `JsonEscape` (no write behind the terminator) as a
   theorem.
3. `SharedContext` with the interior of `start()` of `ThreadPool`.
