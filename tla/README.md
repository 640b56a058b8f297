# goADSTc3: models and proofs

goADSTc3 is a Go client for Beckhoff's ADS protocol.  It connects to a TwinCAT
runtime over TCP, uploads the PLC's symbol table, and lets the goroutines of a
program read, write and subscribe to symbols by name.  The repository has no
tests and one sentence of documentation, so the code is the only reference: all
line numbers below are lines of it.

## 1. Inventory

| Component | Source | State | Operations | Hard behaviour |
|---|---|---|---|---|
| Requests and responses | `comm.go` | `activeRequests` (invoke id to channel), `activeRequestLock`, `currentRequest`, `sendChannel` | `sendRequest`, `transmitWorker`, `listen`, `handleReceive` | callers, one writer, one reader, a goroutine per frame; unbuffered channels; a 4 s timeout racing late answers; an unlocked map read |
| Closing | `connection.go`, `commandDeleteDeviceNotification.go` | `ctx`, `waitGroup` | `Close`, `DeleteDeviceNotification` | requests made while closing; what is in the wait group and what is not; a close that needs a lock only it can free |
| Symbols | `ads.go` | `symbols`, `symbolLock`, `Symbol.Handle` | `GetSymbol`, `ReadFromSymbol`, `WriteToSymbol`, `AddSymbolNotification` | a mutex held across a request |
| Notifications | `commandDeviceNotification.go`, `commandAddDeviceNotification.go` | `activeNotifications`, `Symbol.Notification` | `DeviceNotification`, `handleNotification`, `AddDeviceNotification` | a mutex held across a send to the user; notifications before the handle is recorded |
| Value conversion | `readWriter.go` | `Symbol.Value`, `LastUpdateTime` | `parse`, `writeToNode` | widths, signs and bounds of thirteen types; strings; a throttle |
| Symbol table | `symbols.go` | `symbols`, `datatypes` | `ParseUploadSymbolInfo*`, `addOffset`, `makeArrayChilds`, `GetJSON` | recursive layouts, unsigned bounds |
| Commands | `command*.go` | none | `Read`, `Write`, `WriteRead`, `ReadState`, `ReadDeviceInfo` | what the absence of a response means |
| Connecting | `connection.go`, `comm.go` (`send`) | `source`, `systemResponse` | `NewConnection`, `Connect` | a second channel served by the same listener; frames cut off by the end of the stream; uploads that fail |
| Framing | `ams.go` | none | `encode` | byte layout |
| Definitions | `defs.go` | none | constants and types | none |
| Example | `examples/simple/main.go` | none | a client | cancels the context before it closes |

The components meet in five places.  Every command ends in `sendRequest`, which
hands a packet to `transmitWorker` and waits for the `handleReceive` goroutine
that `listen` starts for the answer.  Every use of a symbol holds `symbolLock`
across such a command.  Every notification is delivered by a `handleReceive`
goroutine that holds the same `symbolLock` across a send on the user's channel.
`Connect` uses the listener for its handshake and commands for its uploads, and
leaves behind the tables that everything else looks symbols up in.  `Close` reads
and changes the map of subscriptions next to users and handlers.

What makes each correct:

* requests: an answer reaches the call it answers, a call returns, and the way it
  returns tells the truth about the device;
* closing: every handle gets released or its release fails, `Close` returns, and
  nothing is sent afterwards;
* symbols and notifications: one handle per symbol, no subscription of the device
  that nobody knows of, no call that waits for ever;
* values: what is written is what is read, and what does not fit is refused; a value
  that is served without asking the device is not too old;
* the table: a name stands for the bytes and the type it has in the device;
* connecting: `Connect` returns, a success is a success of the device, and what was
  cut off does no harm.

The hazards of the code, each at its line, are listed in `PROJECT.json`.

## 2. Modules

| Module | Models | Composes |
|---|---|---|
| `RequestService` | what a caller is promised about one request | |
| `Requests` | `comm.go` for AMS frames | `RequestService` (refinement) |
| `Lifecycle` | `Close` next to calls | extends `Requests` |
| `Symbols` | `ads.go`, notifications | stands on `RequestService` |
| `Teardown` | `Close` next to subscriptions and notifications | extends `Commands` |
| `Connecting` | `Connect`, `send`, torn frames, then commands | extends `Commands` |
| `Commands` | what each command makes of a response | |
| `SymbolCache` | a symbol's value over time | |
| `SymbolTable` | symbols and their children from an upload | |
| `ValueCodec` | `writeToNode`, `parse` | |
| `RequestsProofs`, `LifecycleProofs`, `SymbolsProofs`, `TeardownProofs`, `ConnectingProofs`, `SymbolCacheProofs`, `SymbolTableProofs`, `ValueCodecProofs` | theorems of the module they are named after | that module |
| `MC*` | instances for TLC | |

Definitions named after a source construct keep its name
(`activeRequests`, `symbolLock`, `parse`).  A definition whose comment starts with
"Faulty" is not part of a specification: it is a plausible mistake in the
definition that follows it, kept to show that a property notices it.

### Requests

One program counter per calling goroutine follows `sendRequest`:

| `pc[c]` | lines | the goroutine |
|---|---|---|
| `lock` | 57 | waits for `activeRequestLock` |
| `register` | 59-61 | holds it, is inserting into the map |
| `enqueue` | 69-88 | is in the first select |
| `select` | 90-100 | is about to read `activeRequests[id]`, without the lock |
| `await` | 90-102 | is in the second select |
| `deaf` | 100 | is in the second select with a nil channel |

`register` and `select` are states of their own because the map read at line 100
can overlap the insertion at line 61.  That is a data race; `RacySelect` lets it
find nothing or stop the process (`running = FALSE`), besides reading correctly.

A send on an unbuffered channel and its receive are one step: `Enqueue` moves
caller and `transmitWorker`, `Deliver` moves handler and caller.
`handler[i] = "deliver"` is a handler that has found a channel for id `i` and
holds the lock; it is let go by `Deliver` or, on shutdown only, `HandlerQuit`.

`activeRequests` is a set of ids: the channel under an id is made for that id and
never replaced.  The device answers requests in any order and at any time; the
link may break, losing any part of what is in flight; a frame may carry an
`InvokeID` that was never used.  TCP neither duplicates nor invents bytes, so an
answer comes once.  That two answers swap places is in the model: answers
in flight are a set.  A router on the way may answer instead of the device
(`RouterRefuses`): its error code is in the AMS header, which `handleReceive` reads
and does not look at (line 185), so that the caller receives no data (`Received`).

`outcome[i]` records how request `i` returned, as the caller sees it:
`answer`, `error` (line 99) or `empty` (no data and no error: line 87, or a router's
refusal).  An `answer` is the device's, which includes its own error codes; what a
command makes of those is in `Commands`.

`WaitPanics` stops the process when a call begins after the `Wait` of `Close` was let
go and before it has returned (`connection.go:163`).

### RequestService

A request is executed at most once.  If its call returned an answer, it had been
executed; if it returned `empty`, it was not and never will be, since it was never
sent or a router kept it; if it returned an error, nothing is known.  `Requests` implements it with the identity mapping on
`outcome` and `executed`.

### Lifecycle

`Close` as one more caller: for each handle, in any order, a request
(`DeleteDeviceNotification` at line 145, `Write` at line 157), then
`conn.shutdown()` (160), then the wait group (163), then the socket (166).  The
other callers call all the while, and again after `Close` has returned.  The wait
group counts `transmitWorker` and the calls.  `Wait` is two steps: it is let go when
the counter is zero (`WaitReleased`), and returns unless a call has raised the
counter again, in which case it panics (`WaitReturns`).  Handlers of notifications are in it
too but are in `Teardown`; `listen` and handlers of answers are not in it.  A release
counts as done (`Released`) when the device has dealt with the request, even if it
refused: `Close` looks at no result.

### Symbols

A user is in at most one call: `GetSymbol` (`get`, `ask`), then the read or write
by handle (`use`, `transfer`), or `AddDeviceNotification` and the recording of its
handle (`add`, `record`).  A request is `sent`, perhaps `executed`, and returns as
`RequestService` allows.  `symbolLock` is held in `ask` and `transfer`, and by the
handler of a notification between `Offer` and the receive.  A frame is the
sequence of samples not yet handled; each sample is a locked section of its own.
`Dedicated` says whether a user has a goroutine that only receives (the program
`examples/simple/main.go` has one for a single update).

`GetHandleByName` decodes its response without looking at its length; when there
is none the process panics (`NoResponse`) and `running` becomes FALSE.

### Teardown

The other half of `Close`: its loop over `activeNotifications`
(`connection.go:144-147`), in which `DeleteDeviceNotification` deletes
(`commandDeleteDeviceNotification.go:46`), while users insert (`ads.go:183-184`) and
handlers look up (`commandDeviceNotification.go:70`).  `symbolLock` orders the last
two only.  Insertion (`pc[u] = "insert"`), lookup (`handler[h] = "lookup"`), deletion
(`phase = "erase"`) and the loop itself take time; when two of them overlap and one
writes, `RuntimeStops` may end the process.  A Go range over a map produces every key
that stays in it, and perhaps those that are added: `Range` and `RangeEnds` say so.

`AddDeviceNotification` fails when its answer is late or torn (`NotAdded`), and the
device may have subscribed all the same, or do so later (`AddedLate`): such a
subscription is `lost`, live and on nobody's record.  A torn answer may also pass for
success, its zeros for the error code and any number for the handle (`Garbled`);
it is the last one, since the stream ends there (`link`).

`DeviceNotification` adds itself to the wait group when its goroutine runs
(`Counted`), not when it is started (`Notify`).  `Wait` is therefore two steps,
`WaitReleased` and `WaitReturns`, and panics when the counter was raised in between.

### Commands, Connecting

`Commands` is a table: of five kinds of response, which ones make a command fail.
`Connecting` walks through `Connect` by `place`: `new` (dial), `send` and `handshake`
(the two selects of `send`), `info`, `types`, `symbols` (the uploads), `open`; or
`failed` when it could not dial, in which case the connection can still be called.
Requests are made as in `Requests`, one at a time, with the number of the request as
its id; `Deliver`, `Orphan`, `GiveUp` and `GiveUpUnsent` are the ways they end.
`Return` holds all that happens when one does: the result of the command, the size
of the uploads, the tables, the next place, and the panic at `symbols.go:143`.

`listen` hands a system frame on by a send it cannot be called away from
(`listener = "offer"`).  When the link breaks (`LinkDown`) any part of the stream
from its end may be lost, and the last frame that arrives may be torn.  A torn
system frame is handed on like any other; a torn AMS frame is dropped or handed on
with zeros at its end, as far as it came.

### SymbolCache

`Value` and `LastUpdateTime` of a structure and of its parts.  `Parse` does what
`parse` does to a symbol and to its children, each with its own throttle
(`TooSoon`, `readWriter.go:150-161`), and `GetJSON`, which makes the value of a
structure of what its parts have.  `ReadCached` and `ReadStart` / `DeviceReads` /
`ReadDone` are `ReadFromSymbol` (`ads.go:92-117`) with and without a request;
`HandleNotification` takes one frame of those that wait, in any order.  Time is
discrete, and a request takes up to `Timeout`.

Variables marked as history are for the properties only: when a variable last held
a value (`lastHad`), and whether what was parsed for a symbol came in order and not
too fast (`calm`).

### SymbolTable

`ParseSymbol` is one round of the loop of `ParseUploadSymbolInfoSymbols`, with
`addSymbol` and `addOffset`; `AddChild` is one round of `addChilds`, whose order is
that of a Go map.  `pending` is its call stack.  `addOffset` of the code makes the whole
tree below a symbol at once; that of the module makes one level of it, and `AddChild`
the next when it files a child, since what is below a child depends only on the
child.  `makeArrayChilds` computes with unsigned bounds (`% Word`).

The uploads are given as types and symbols, not as bytes.  A name is a sequence of
segments, `<<"x">>` for a field and `<<"", 3>>` for an index.  `WellFormed` says what the
module assumes of the device, which is not part of this repository: fields lie
inside their structure, the elements of an array fill it, a name is given once,
everything that is of a type has its size, and only a bound below zero exceeds half
a word.

### ValueCodec

A variable of a declared type, its bytes, and the last value a caller was told was
written.  `Write` is `WriteToSymbol` with a value that `writeToNode` accepts.
`writeToNode` finds its branch by the name of the type alone, and each branch gives
`strconv` a `bitSize` of its own (`Taken`) and writes a Go type of its own width
(`Sent`); `parse` insists on a length branch by branch (`Needed`) and reads signed types
in three of them (`ReadSigned`).  The tables of the PLC's types (`Width`, `RangeOf`) are
separate from these.  A truth value is written as any text `ParseBool` takes and
is read as "True" or "False".  Bytes have `Base` values; types keep their widths in bytes, so every bound and
every sign is met with small numbers.  Characters are a blank, a NUL and a letter.

## 3. Runs

| Run | Distinct states | Shows |
|---|---|---|
| `requests` | 1.73 million | mutual exclusion, distinct ids, which calls late answers belong to, the inductive invariant, the refinement of `RequestService`, what an orphaned handler blocks |
| `active_requests` | | counterexample: a call that has returned leaves its key in `activeRequests` |
| `lifecycle` | 2.04 million | every handle gets its release request; nothing is sent after `Close` |
| `lifecycle_live` | 37 754 | every call returns unless an orphan holds the lock; a shutdown frees everything; `Close` returns unless orphan or peer holds it up; `listen` ends after it |
| `close_returns` | | counterexample: `Close` waits for a lock that only its own `conn.shutdown` would free |
| `symbols` | 214 266 | `symbolLock`, one handle per symbol, subscriptions accounted for, offers to a channel that is set |
| `symbols_live` | 16 032 | only an update on offer to a user without a goroutine of its own holds up calls and frames, and a shutdown frees them |
| `symbol_cache` | 2.5 million | how old the value may be that `ReadFromSymbol` returns; which updates the throttle may drop |
| `symbol_table` | 371 | names stand for the device's bytes, children share them out, only a name that is taken keeps a symbol out |
| `connecting` | 541 790 | when `Connect` returns, when `listen` ends, what the success of a command means, that types cut off meet no symbol |
| `teardown` | 509 344 | what client and device may disagree on, timeouts and torn answers included; what `Close` leaves behind; that it returns |
| `codec` | 1 238 | what is written is read back; no branch takes a number its type does not have |

Many properties name exceptions ("unless an orphan holds the lock", "or the
deletion was answered without bytes").  Each exception is a behaviour of the code
that the model contains, and the property says that there are no others.

What the newer runs say of the code:

* **`SuccessIsReal`** lists when a command reports success although the device did
  not carry it out.  A frame whose end is missing is filled with zeros, and zero is
  the code of success (`comm.go:142`).  A router that refuses a request says so in
  the AMS header, which is not looked at (`comm.go:185`), and sends no data: success
  for `Write`, `WriteRead`, `DeleteDeviceNotification` and `ReadState`.  `ReadState` and
  `ReadDeviceInfo` do not look at the device's own code.
* **`ListenerEndsUnlessDeaf`**: a system frame that comes when nobody waits for one
  keeps `listen` from everything else, a shutdown included (`comm.go:145`).
* **`RecordsAgree`** and **`NothingForgotten`** except the subscriptions of calls that
  timed out: the device has them, nobody has their handles, and `Close` cannot
  delete them (`comm.go:99`, `ads.go:174-176`).
* **`CloseEnds`** allows the process to stop: by a data race on the map, or in `Wait`.
* **`UpdatesArrive`** holds only of subscribers whose updates are more than
  `MinUpdateInterval` apart and were handled in order.  The last of two quick changes
  is dropped and not made up for.
* **`OneHandlePerSymbol`** says nothing more once a request for a handle was given up
  on: the device may give out a second one.
* **`NamesResolve`** leaves out what the table does not follow: elements of arrays of
  several dimensions, of negative bounds, inside structures, and of a variable that
  has the name of some field (elements are named after the last segment only, so an
  array inside a structure may have taken the name).  It speaks of one step, from a
  symbol to its field or a variable to its element; a longer path is made of such
  steps.  `ChildrenShareOut` has no such exception, but an array that got no elements
  has nothing to share out.  `MissingOnlyIfTaken` accepts that of two symbols with one
  name either is left out.

The two counterexamples:

* **`activeRequests` only grows.**  `connection.go:33` calls it the "List of active
  requests that waits a response"; line 61 of `comm.go` inserts and nothing
  deletes.  One call is enough.
* **`Close` may hang.**  A call times out; its answer arrives; `handleReceive` finds
  the channel that is still in the map, and blocks on it with `activeRequestLock`
  (lines 197-208) until the context is cancelled.  `Close` then calls
  `DeleteDeviceNotification` or `Write`, which waits for the lock at line 57, and
  never reaches `conn.shutdown()`.  `connection.go:138` says "Close closes
  connection and waits for completion".

Deadlock is not checked where a model may stop: all the bounded requests are made,
or the process has panicked.

### Bounds

* Two callers: the properties relate two actors (two lock holders, a reader and a
  writer of the map, an abandoned call and the next one).  The proofs cover any
  number.
* `MaxCalls` 3: an abandoned request, one that its handler blocks, and one already
  past the lock.  2 for liveness, without symmetry.
* `Refusable`, the requests a router may answer: all of them for the safety runs, the
  first for `lifecycle_live`, none where the counterexample does not need it.
* One stray id: it is never in the map, so several behave alike.
* Two handles to release: one may be released while another fails.
* `lifecycle_live` has one handle to release and two calls.
* Two users, one symbol and one unknown name: the lock is one for all symbols, so
  a second symbol adds no new conflict.  Two handles and two
  subscriptions for it, so that a late execution or a second subscription happens.
  One frame of up to two samples at a time: a second handler competes for the lock
  like a caller.  `symbols_live` has one handle and one subscription, one user
  with a goroutine to receive and one without.
* `teardown`: one user and two handles: a subscription can be recorded while another
  is deleted, and a notification handled for either.  The proofs cover any number.
* `connecting`: `MaxCalls` 4, the three uploads and one command; one system frame the
  router sends on its own.  The command asked is `Delete`, which has each
  way to fail but for an answer without bytes; the proofs cover every command.
* `symbol_cache`: a structure with one part is enough for two throttles that
  disagree; two values; an interval of two ticks and a request of one, so that an
  age can be below, at and above each; six ticks are two intervals, a request and
  one to spare; two notifications can overtake one another.
* `symbol_table`: three uploads of two to five variables, over eight types that
  are described: two structures with an array field of the same name, arrays of
  structures, of arrays, of two dimensions, of no elements and with a bound below zero.
  One variable has the name of a field.  A word has 16 values, so that a bound below
  zero wraps.
* `Base` 4: each integer has an even number of values and several bytes where the
  code has several.  `MaxLength` 3, with texts up to one more.

### Fairness

Goroutines that can run do run (weak fairness per action).  `sync.Mutex` hands
itself to a waiter that has waited for a millisecond, hence strong fairness on
taking a lock.  The 4 s timer fires, hence weak fairness on `GiveUpEnqueue` and
`GiveUpAwait`.  `CallFairness` and `BackgroundFairness` of `Requests` are used as they are in
`Lifecycle`.  Nothing is assumed of the device, the link, a shutdown, the users'
calls, or a write to a peer that does not read.  In `Symbols` every request
returns; that is `CallsReturnUnlessOrphaned` of `Requests`, whose exception thus is an
exception of `Symbols` too.  A dedicated receiver (`Dedicated`) receives; other users
are not assumed to come back for their updates.  `Teardown` assumes the same of
requests and locks, and that a shutdown cancels an offer, never that somebody takes
it; so it does of the requests of `Close`, which may wait for an orphan's lock
(`close_returns`); it assumes of users that they stop subscribing, in the property, since a wait
group that is added to for ever need not reach zero.  `Connecting` has the timer
and the goroutines, and a read that ends when the link is down; nothing of router,
device, link or user.

## 4. Proofs

All of it for any finite set of callers, users, symbols and handles, and any number of
requests, stray ids and frames; any interval and timeout; every upload of a
well-formed device; bytes of any even number of values.

`RequestsProofs` proves `Spec => []Inv`.  `LockExclusive`, `DistinctIds` and
`OrphansAreAbandoned` are conjuncts of `Inv` and not inductive by themselves:

* `DistinctIds` needs to know that every call under way has an id that has been
  handed out (`CallsAreOpen`) and that the next one is beyond those (`IdsInOrder`);
* `OrphansAreAbandoned` needs that an answer stems from a request that was executed
  or refused by a router (`Answered`), that such a request had been sent
  (`ExecutedWasSent`), and that
  what is still with its caller has not been sent (`UnsentWithCaller`, `OnTheWay`,
  `WorkerHolds`): so that a call whose first select gave up has no answer;
* `LockExclusive` is inductive with the types.

The same facts give the refinement `Spec => KeepsPromises`: the initial states map
to initial states, and `StepRefines` maps `Register` to `Begin`, the returns to `Return`,
the device and the loss of the link to `Execute`, and every other action to a
stutter.  `OrphansBlock` is an action property: with the lock held by an orphan,
no step but a shutdown's frees it.

`LifecycleProofs` first proves `CloseSpec => Spec`, so that all of the above holds of
a connection being closed.  `CloseInv` adds that a release still open is the call
the closer is in (`ReleasesAreTheClosers`), that nothing is left to release when `Close`
waits (`CloserInClose`), that an answered call was executed, and that a closed
connection has nobody who could send.  It gives `HandlesAreReleased` and
`NothingIsSentAfterClose`.

`SymbolsProofs` proves `Spec => []Inv` for `Symbols`.  `SymbolLockExclusive` follows from
`LockHeld`, the same without its condition that the process runs.  `OneHandlePerSymbol`
needs to know where a handle is between the device and `Symbol.Handle`: in the hands
of the one call in `ask`, or lost to a call that gave up (`HandlesOnTheWay`); and that a
call only asks when there is no handle yet (`CallsInOrder`).  `SubscriptionsAccountedFor`
needs the same of subscriptions (`SubsOnTheWay`): a call between `add` and `record` has
one of its own, that nobody has recorded.

`TeardownProofs` proves `Spec => []Inv` for `Teardown`.  `RecordsAgree` and
`NothingForgotten` rest on two facts: a handle on its way into the map is new to map
and loop and nobody else's, or was read from a torn answer, after which no answer
comes (`NewHandlesAreNew`); and the loop comes to a handle once, and has it in the map
until it has its response, while a subscription that nobody knows of is never deleted
by an answer (`DeletedOnce`).  The invariant itself is kept by one lemma for the users,
one for the late executions, one for the handlers and one for `Close`.

`ConnectingProofs` proves `Spec => []Inv` for `Connecting`.  `SuccessIsReal` and
`CutTypesMeetNoSymbol` rest on `InOrder`: a torn frame is on its way only when the link
is down; a frame that answers the call under way left the device after the call had
begun; the tables are filled in the order of `Connect`.  With the link down no upload
can be whole after one was cut: there may be a frame left, but it answers an earlier
request.  The lemmas `OnAppend`, `OnTail` and `OnCut` say which frames a stream has
after it grew, was read from or was cut.

`SymbolCacheProofs` proves `Spec => []Inv` for `SymbolCache`.  `ReadsAreFresh` looks at the
last answer only; that it holds of the next one needs the age of what is stored:

* `LeavesBacked`: the device held the value of a leaf at `LastUpdateTime - Timeout` or
  later, or a notification stored it;
* `StructBacked`: the same of the parts of a structure, `Interval` earlier, since
  `GetJSON` takes from a part that was throttled the value that it has.  A part that
  had none shows as 0, and was parsed after the structure's `LastUpdateTime`;
* `ReadInTime`: `ReadFromSymbol` only makes a request when the value it has is at least
  `Interval` old.  As a request takes time, `parse` cannot throttle what it brings
  (`<1>8` of `InvReadDone`): the `LastUpdateTime` that `ReadFromSymbol` sets itself
  (`ads.go:116`) never belongs to an older value;
* `OnTime`: `LastUpdateTime` is never later than the last time the symbol was parsed.  Hence
  what comes `Interval` after that is not throttled, which is also what
  `UpdatesArrive` needs.

`UpdatesArrive` looks at the notifications sent; `NewestArrived` says the same of those
handled, and is inductive with the others.  `LeafStays`, `StructStays` and
`AnswerStays` say that all this survives the passing of time.

`SymbolTableProofs` proves `Spec => []Inv` for `SymbolTable`: every symbol of the table stands
under its own name and is a variable or a child of something in the table
(`Filed`), a variable is not replaced (`VariablesFiled`), a child is filed, still to be
filed, or its name is taken (`NoneForgotten`).  `MissingOnlyIfTaken` follows at once.
`ChildrenShareOut` needs that a symbol has the room of its type (`FiledFits`), and
arithmetic for the elements (`ElementsApart`), which holds for bounds that wrap, too.
`NamesResolve` is about names that are taken: what stands under the name of a field or
of an element can only be that field or element, whichever parent filed it
(`Parent`, `FieldOrElement`, `NamedAsVariable`).  `Inv` of this module is not a property of
a run; the three properties that follow from it are.

`ValueCodecProofs` proves that the bytes are those `writeToNode` made of the last value it took
(`BytesOfTold`), that each branch fits the type it is for (`TheBranches`, from
`WidthOf` and `TakenOf`, which go through the types one by one), and that `parse` inverts
`writeToNode`: `NumberOfBytes` for the bytes of a number of
each width, from three lemmas about quotients; `SignedOfRemainder` for negative numbers, where
`Base` has to be even; `PaddedReadsBack` for strings.

Assumptions: `Callers` and `Handles` are finite, the bounds are natural numbers, stray
ids are not ids of the connection, the closer is a caller, `None` and `NoHandle` are
neither a symbol nor a handle, commands asked are commands; a structure is not one
of its parts, `""` and 0 are not values of variables, and `""` is not the JSON of a
structure; uploads are well-formed; `Base` is even.  TLC evaluates them in the runs.

Model-checked only: all liveness properties (they rest on fairness and on `ENABLED`,
which the prover does not handle).  What `SymbolTable` says of a tree is said one level at
a time: that every path resolves follows from it by induction over the path, which
is out of the prover's reach.

## 5. Not modelled

* Logging, formatting and the byte layout of packets; the decoding of upload
  entries, except for what a missing end does to it; short data in a response that
  was not torn.
* The wrap of the invoke id after 2^32 requests.
* The address that the handshake stores in `conn.source`.
* `REAL` and `LREAL`, whose conversions are the standard library's; the text of times.
* `GetJSON(true)`, which nothing in the library calls, and the flags `Changed` it
  reads; structures in structures in `SymbolCache` (one level shows two throttles).
* `Close` after a `Connect` that could not dial: it stops the process at the nil
  connection on every schedule.
* `Close` reads the handles of symbols without `symbolLock`: a handle that is got
  while it ranges over the symbols may be passed over.
* The contexts that the deferred `cancel` of `listen` keeps: memory only.
* What the second subscription of a symbol does to the first subscriber is in
  `Symbols` (`Record` replaces the receiver), but no document promises anything of it,
  so that no property speaks of it.

## 6. Plan

The plan (values over time, the layout of arrays, the handshake, the commands, `Close`
together with subscriptions, proofs about symbols, cache, table and codec) is carried
out.  Left:

1. The release of symbols' handles (`connection.go:148-158`) next to calls that get
   handles, as an extension of `Symbols`.
2. `Close` as a whole refined to one abstract promise: what `Lifecycle` and `Teardown`
   each say of their half, stated once.
