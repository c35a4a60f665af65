# Verification of cartesi/rollups-ts

TLA+ models of the stateful parts of this repository, TLC configurations that
check them on small instances, and TLAPS proofs of the main results for every
value of the constants.

rollups-ts is the TypeScript side of Cartesi Rollups: it runs Cartesi Machines
(locally, in a server process, or in a browser), drives the rollups protocol on
them, is the library applications inside the machine are written with, and
talks to nodes. Most of it translates data; the parts with state, and with
something to get wrong over time, are modelled here.

## Inventory

| Component | State | Operations | Hard behaviour | Correct if |
|---|---|---|---|---|
| rollups machine (`machine/src/rollups.ts`) | a machine, an open transaction per request | advance, inspect, shutdown, store | lazy generators interleaved at every event, calls that throw in mid-transaction, abandoned generators | an accepted input is applied once and for good, any other request leaves no trace, a caller hears of its own request |
| local transactions (same file) | one snapshot field, directories on disk | store, load, destroy, remove | a step of several fails; a stale snapshot | a rollback never undoes an accepted input; directories do not pile up |
| remote transactions (same file, `remote-impl.ts`) | the current server, forks | fork, shutdown | overlapping forks, lost answers | the server forked from holds accepted inputs only; servers are accounted for |
| machine wrapper (`machine-impl.ts`, `native/addon.cc`, `wasm/addon.ts`) | a native handle: empty or holding a machine | sixty pass-through methods | three conversions of every value, 64-bit integers in JSON, defaults in three places | a call means the same over each binding |
| JSON-RPC client (`jsonrpc/client.ts`) | none, a server address | the machine methods over fetch | methods of two round trips, lost answers | both halves see one state, no output is lost unnoticed |
| browser facade (`browser/client.ts`, `server.ts`, `protocol.ts`) | pending promises; handles, held objects, the module | call, release, terminate | pipelined calls, an await before the first call, releases that overtake | order, one answer per call, no unreachable object |
| snapshot archive (`wasm/snapshot.ts`) | none | pack, unpack a tar | truncation, long names | unpack of pack is the identity; a flaw does not spread |
| guest loop (`rollup/src/rollup.ts`) | accept, the open device | run, finish, emit, close | errors in handlers and in reporting them, close while a handler is awaited | each request gets the verdict its handlers earned |
| handler composition (`rollup/src/handlers.ts`) | none | chain, broadcast | handlers that answer nothing, throw | who is asked, and what the answer is |
| guest addon (`rollup/native/addon.cc`) | open flag, outputs tree | finish, emit, merkle, close | device errors | no call on a closed device |
| node client (`client/src`), `react`, `rpc` | none | requests, `waitForInput` | polling with retries and a deadline | ends with the status it waited for |
| codec (`codec/src`) | none | encode and decode inputs, outputs, deposits | lengths and offsets | decode of encode is the identity; malformed data is refused |
| wagmi plugin | none | download and merge releases | build time only | |
| playground (`apps/cm-playground/src/machine`) | a worker with a machine, its loop, waiting keys; the page's phase | boot, input, resize, stop | a worker of many awaits, a page that hears of it late | one loop drives one machine; keys and output are of the right run |
| playground library (`images/store.ts`, `ImageLibrary.tsx`, `page.tsx`) | images in a database, a list of them, two picks | add, remove, pick, boot | jobs that overlap and fail half-way | a stale list is announced, a boot names images that exist |
| playground form (`machine/config.ts`, `ConfigForm.tsx`, `page.tsx`) | the form, one saved in the browser | edit, restore, save, generate | ranges found by labels and places that the form's edits move; two effects of one render | init acts on the ranges it was meant for, a form without problems boots, a saved form gives way to a newer one of the user's only |
| brand, vocs-theme, docs | none | | | |

How they interact. An application (guest loop, handlers) runs inside a machine
and yields to its host at each `finish` and `emit`. On the host a rollups
machine sends requests to the machine, runs it from yield to yield, and keeps or
undoes what happened. A machine is an object of the wrapper, over an addon in
the same process, over a server process reached by JSON-RPC, or over a
WebAssembly module; in a browser that module lives in a worker, and the page
holds proxies for the objects in it.

`PROJECT.json` lists every component with what is modelled of it, and the
hazards at their lines. Most hazards are about state that outlives a step of
asynchronous code: a snapshot, a verdict, a fork, a handle, a list, a loop.

## Modules

`RollupsLedger` is the promise of a rollups machine and knows of no machine: a
sequence of accepted inputs, and an answer for each request. `Accept` appends
the input in the step in which its caller learns of it; `Refuse` (rejected,
fatal, error, or an inspect answered) changes nothing else.

`EmulatorMachine` is the external component: a Cartesi Machine as a value, its
state abstracted to the requests whose effects it holds and to where it stands.
What a send does (and when it silently does nothing) is taken from the comment
and code of `sendCmioResponse`, what `run` may return from the enumerations of
break and yield reasons. The guest program is arbitrary: once it got a request
it may yield whatever it likes, any number of times, halt, or stop for another
reason.

`RollupsRequest` is the body of the generators of advance and inspect. `pc` says
where each one is:

| pc | code |
|---|---|
| new | the generator exists, `next()` was not called: the body is lazy |
| send, run, commit, rollback | the body executes, about to make that call; run-to-completion excludes every other call |
| suspended | at a `yield`, an event was handed to the caller |
| abandoned | the caller left its loop |
| settled | returned or thrown; `result` says how |

The steps that are the same for both classes (what an automatic yield, a manual
yield or another break leads to) are operators here, and the classes complete
them. `heard` records, for each request, whose processing its caller was told
of, and `ledger` the inputs reported accepted; both are history.

`LocalRollups` adds `machine`, the `snapshot` field, the directories on `disk`
and what the caller stored. `Begin`, `Commit`, `Rollback` are whole
startTransaction, commitTransaction and rollbackTransaction with the
discardSnapshot in them; each has a `...Throws` action with the state the code
leaves behind when the machine call in it throws, in the order of its
assignments.

`RemoteRollups` adds the `servers`, the `machine` field and the server each
request works on. A call may throw without having had its effect, or after it,
when only the answer is lost.

Both are shown to implement `RollupsLedger`, the state of the ledger being what
a rollback would restore (local) or what the current server holds (remote).

`WorkerFacade` is connectWorker and serve, joined by two ordered queues. A
request is its id; the page may issue any number of them through proxies without
waiting. The worker handles a message in one turn, except that a call that finds
no module waits for one of its own (`ReceiveEarlyCall`, `Instantiated`), as
`cartesi ??= await init(options)` does.

`GuestLoop` is run with its handlers. `Finish` is the call that tells the
machine the verdict and returns the next request, `HandlerSettles` one handler's
promise with what chain, broadcast or run make of it, `Report` the catch.

The machine objects are compared over their three bindings. `BindingValues` has
the values that cross them, with the limits of integers that matter (int32,
uint64, the largest integer a double holds, the least one `encoding.ts` quotes).
`NapiBinding` and `WasmBinding` say of each method which function of the C API
it calls, how each argument is converted or refused, and what becomes of the
answer; `MachineWrapper` adds what `CartesiMachineImpl` does before and after,
and the calls that make up `sendCmioResponse` and `logSendCmioResponse`.
`RpcClient` is `jsonrpc/client.ts`, with the server's side of the protocol
external. A method is a row of a table, as it is a line or two of the code.
`MachineSession` has the methods that take two calls of the emulator, with other
callers in between. `MCBindings` compares one call first and then runs a session.

`SnapshotArchive` packs what was found in a directory into an archive and unpacks
it, after it may have lost its end or had a byte changed. A byte of a header is
known by its header and its place, which is what the checksum is there to tell.
`SnapshotTree` says which directories there are and in which order `pack` finds
what is in them; it is apart, for it is recursive over a tree. The two share
their run with the codec.

`Playground` is the page and the worker, joined by two ordered channels. A task
is an activation of `boot`: `staging` is between the awaits of `stage`, `created`
is the moment in which the loop starts in the same turn (no message can come in
between), `drive` is the sleep after each slice. Messages are handled between
turns. The module has one action per branch of the loop: a slice that goes on,
one that reads keys, one that ends the run, a stop, a throw. Of the library it
has only the database, which may change at any time.

`ImageLibrary` is the library itself: jobs of the page (add, remove, refresh)
that overlap, each a sequence of database transactions with a failure possible
at each, and one `busy` and one `problem` flag that they share.

`ConfigForm` is the form of the playground: how drives, NVRAMs and variables are
added, set and removed, when the page saves and restores it, what it generates
(the machine's ranges, the images to stage, the kernel command line, the script
for init), and what `generate` reports as a problem. The script is the sequence
of its commands, a label or a path a short sequence; white space that is trimmed
and quoting are left out. It touches the library at one place, the list of
images, which changes at any time. `MCPage` gives both an instance, varying one
of them at a time.

`WaitForInput` is the polling of `client/src/actions/waitForInput.ts` inside
pRetry, and the query around it in `react/src`. `Arrives` separates what the node
said from what it has said since.

`Codec` is the codec package as operators: writers, readers, and the encoder and
decoder of each format in its two implementations. The ABI encoder of the ox
library, which the hex implementation leaves the layout to, is external and
defined from the types of the fields, so that it is a reference for the sizes
and offsets that the byte array implementation works out by hand. A hex string
and the bytes it spells are one value; checksummed spelling is left out.
`CodecData` encodes fields, cuts the data short or extends it, and states what
must be decoded; `MCCodec` has the values of its constants.

The modules named `..._proofs` hold the theorems. Operators commented "Seeded
fault" are variants of the operator below them with a plausible bug; nothing
uses them but the test that each property notices one.

## Runs

| Run | Question | Result |
|---|---|---|
| local_sequential | does one careful caller get all or nothing, its own verdict, a stored image to resume from; is the ledger implemented? | yes |
| local_hostile | overlapping, abandoning callers and any call throwing: are accepted inputs durable, do copies pile up? | durable; one copy per failed request at most |
| local_oversized | is an accepted input always one the guest saw? | no: one longer than the rx buffer is not |
| remote_sequential | is the ledger implemented with requests abandoned or failing, not overlapping? | yes |
| remote_overlapping | are overlapping requests isolated, answered for themselves, and servers accounted for? | yes |
| facade | order, release, reachability, an answer to each call | yes |
| guest | verdicts, who is asked, reports, progress | yes |
| bindings | does each method make the same calls and return the same answers over each binding; do methods of two calls lose or mix anything? | they agree, but for the divergences listed below; no output is lost unless an answer is, and what is received is of one request |
| playground | one loop and one machine, keys and output of the right run in order, a console of the right size, boots and stops that end | yes, but for a resize that arrives while images are staged |
| library | is a stale list announced, does a boot name images that exist; does the script of a form act on the ranges it was meant for, can its machine boot, is a saved form replaced by anything but what the user made last? | yes, and no; a form made as the page is left may be lost |
| wait | does polling end, by what the node said, and not early? | yes |
| codec | is decode the inverse of encode, do both implementations agree, is data of the wrong length noticed; does a snapshot survive its archive? | yes; a cut archive is unpacked without an error, but is wrong in its last file only |

The negative result is a finding in `PROJECT.json`, with the sentence of the
documentation it contradicts.

Bounds. Rollups machines: two or three inputs and one inspect. The hazards are
about a request and the one before it (a snapshot left by an earlier request, a
verdict of an earlier request, a fork of an older base), and two requests that
overlap with a third show every pair of them; three inputs let a request follow
one that followed a failure. Events per request are unbounded: the state does
not count them. The same properties are proved for any number of requests.
Facade: four requests of a page, enough to create an object, make a second from
it, release one and call the other, with everything pipelined; five exceed the
useful size.
Guest: two requests and compositions of up to two handlers, over all 64 pairs of
configurations; a verdict left over needs two requests, first and last handler
differ with two.
Bindings: every method, with each argument missing, inside and at the limits of
its type, and answers on both sides of each limit (int32 is scaled to 8, the
quoted integers start at 20, doubles are exact up to 32, a word is below 64; the
order of the limits is that of the code). Sessions have two callers, two bytes
of output and two requests of three lengths: a caller between the two calls of
another, with less, as much and more than was asked for. The session's
properties are proved without these bounds.
Playground: two boots (a second one is what could disturb a first), two keys (an
order), one output per machine, two sizes, one image that comes and goes, and
two messages under way to the worker: a stop and a boot, a key and a resize in
either order. Library: three images and two jobs, so that one job can fail
while the other is between its transaction and its refresh; proved for any
number. Form: every two changes away from the defaults, an unreadable entry, and
two forms that were saved before (one with two drives and an NVRAM, images
behind both, and one of an older page that lacks fields), under every set of
listed images; up to three entries in a list. A drive that is removed while
another is added, a label that is cleared or taken from another, a root
filesystem that goes, and an image that goes are one change each; two of them
are enough for the places of the ranges to differ from those in the form with
labels in conflict. Polling: up to three attempts and two runs of the query, so that the
last attempt, the deadline and a rerun meet; the safety properties are proved
for any number.
Codec: a byte has three bits, a word two bytes and an address one, so that
padding, alignment within a word and the range of a word all occur in fields of
zero to three bytes; data is cut at every length. The external encoder is
assumed to read strictly within the data. Snapshots have blocks of two bytes,
two names on two levels, and contents of none, one, and one and a half blocks;
one name on two levels is too long for a header.

Symmetry is not used, since several runs check temporal properties. Inputs and
queries are model values of the configurations.

Constants that say who calls: `Overlap` (calls while a request is open),
`Abandon` (a caller leaves its loop), `Faults` (machine calls that throw),
`Oversized` (requests longer than the rx buffer), `NoRollbackChoices`. A
"careful" use of a local machine has no Overlap, no Abandon, faults at most
before the input is delivered, and nothing oversized.

Deadlock is not checked where the system may stop: the servers of a remote
machine may have been shut down, the facade rests when the page has its answers,
the guest loop ends when finish fails, a page may be left alone, a poll has its
answer, data is damaged once. Where it is checked, a caller that has ended may
always ask again.

Fairness. The rollups machines are sequential code driven by their callers and
claim no liveness: a guest may run for ever, a caller need not ask for the next
event. `WorkerFacade` assumes that event loops take their messages and that a
module is built or fails to be (promises settle); what the page asks, and
whether it stops the worker, is free. `GuestLoop` assumes that the loop runs on
and that each handler's promise settles; closing the device is free.
`Playground` assumes that the worker's script loads or fails to, that messages
are taken on both sides, and that each await ends, the sleeps of the loop
included once it was told to stop; a guest that was not may run for ever, and
nothing is assumed of the user or the library. `WaitForInput` assumes that each
request ends and that what is due is run; that the input is ever processed or
the time ever over is not assumed, and the polling ends all the same, by its
count of retries.

## Proofs

All for every value of the constants, checked by TLAPS with the invariants first
checked by TLC.

Local rollups machine, for any sets of inputs and queries:

- `TypeCorrect`: types, and that outcomes are "accepted" for inputs only. Every
  use.
- `Durability`: `AcceptedIsDurable`. Every use: overlapping, abandoned, failing.
  The invariant (`DurableInv`) says that an accepted input in the machine is also
  in any copy a rollback could load: every copy that matters was taken after
  that input was delivered, because a commit discards the copy, and the next one
  is taken of a machine that already holds it. The property itself is not
  inductive, since it says nothing of copies.
- `LeftoversHold`: `LeftoversAreFailures`. Every use. `LeftoverInv` counts: a
  directory becomes a leftover only in a step in which a request ends with an
  error (the load or the removal threw, after the field was cleared or kept), so
  the cardinalities grow together; `DecidedInv` says that a request that closes
  its transaction has not failed before, so that none is counted twice.
- `AllOrNothingHolds` and `LedgerImplemented`: assuming a careful use
  (`CarefulUse`: no overlap, no abandoned loop, faults at most before the input
  is delivered, no input that exceeds the rx buffer) and rollback.
  `TransactionInv` says that at most one request is open, that while it is, the
  copy is exactly the fresh machine advanced by the ledger, and that otherwise
  the machine is. The refinement maps `Commit` to Accept and every other end to
  Refuse; all other steps stutter.
- `StoredImageHolds`: `StoredImageIsResumable`, for a careful use, by
  `TransactionInv` and the fact that a prefix of the ledger stays one.
- `OwnVerdictHolds`: `OwnVerdict`, for a careful use with nothing oversized,
  queries included: `OwnInv` says that the guest serves the request whose body
  runs.

Remote rollups machine:

- `TypeCorrect`, `Isolation` (`BaseIsCommitted`) and `Accountability`
  (`LeftoversAreAbandoned`): every use. `IsolationInv` adds what a fork is: a
  server named after its request, with effects of accepted inputs and of that
  request only; the commit that makes it the base makes the request one of the
  accepted.
- `OwnVerdicts`: assuming that every request fits the rx buffer.
- `LedgerImplemented`: assuming `OneAtATime` (no overlap, no oversized input)
  and rollback, with requests abandoned and calls throwing. `SequentialInv` says
  that the current server holds the ledger exactly.

Guest loop, for any number of requests and handlers: `TypeCorrect`,
`VerdictsAreEarned`, `AskingIsComplete` and `ReportsPrecedeVerdicts`. `LoopInv`
relates where the loop is to what its handlers have said so far: while the n-th
handler is awaited, those before it have been asked, in order, and none of them
claimed (chain) or failed; a verdict is only told after that was resolved. The
properties speak of the requests that were decided, and need it of the one that
is not.

Machine sessions, for any callers, output and requests: `TypeCorrect`,
`OneRequestAnswers` and `OutputDelivered`. `OutputInv` says that the buffer is
exactly the last bytes that were printed, in order, so that what a call takes
follows everything that was taken before; the bytes that left it are those lost
or given to some caller, each once.

Image library, for any number of jobs and images: `TypeCorrect`,
`StaleListsAreAnnounced` and `BootsFindTheirImages`. The invariant
(`StaleIsPending`) says that whenever nothing is under way, a list that differs
from the database comes with an error. It is inductive as it stands: the only
ways to come to rest are a refresh, after which list and database agree, and an
error, which is shown; and a job that clears the error of another has its own
end still to come.

Playground form, for any images, changes of the form and forms saved before
(`Page_proofs`, with the library): `FormIsKept` (`FormSurvives`),
`BootsAreComplete` (`BootIsComplete`) and `InitIsExact`
(`InitKeepsToItsRanges`). `FormInv` says that the form is
whole, that is, has every field of the defaults, with lists of whole entries;
that storage holds what the first visit found or a whole form; that the form
shown, once storage was looked at, is what was found there or what the user made
last; and that storage has it when no effect is due. So the one step that writes
to storage writes what was made last, or what was there already; that a form was
made and lost in between changes nothing of it. A whole form is what `restoreConfig`
gives back unchanged, which is why a saved form is found as it was. It is also
what makes `generate` defined: with the images that are gone taken out of the
form, the images behind the ranges are those of the places `staged` looks at.
What init does follows from how the script is put together (`IsMade`): it holds a
block for each drive and NVRAM, each block begins with its lookup and has no
other, and nothing outside a block does anything to a range; so the lookup a
command is about is that of its block. That `FlattenSeq` puts the blocks one
behind the other, however many, is proved by induction on their number. And the
label of a block leads to one range because no problem shown means that no label
is reserved and none is given twice (`LabelsLead`).
`FormAssumption` says what is assumed of changes and of what an earlier visit
left: a change sets no list as a whole, a saved list is a list (no page saved
anything else; what cannot be mapped makes `restoreConfig` throw, and the page
starts from the defaults, as with `Unreadable`), and a console is one of the two
of `ConsoleKind`.

waitForInput (`Verdict_proofs`, with the guest loop: one gives the verdict, the
other waits for it), for any retry count and statuses: `PollingTypeCorrect`,
`AnswersDecide` and `NoEarlyGivingUp`. The invariant says what each phase knows: an answer is
about a status the input still has or has gone on from, and an attempt that
failed has been counted.

Codec, for bytes, words and addresses of any size, any selectors, and any fields:
`RoundTrips` (`RoundTrip`), `PathsAlwaysAgree` (`PathsAgree`) and `LengthsMatter`
(`LengthMistakes`). The invariant (`Arrives`) only says that the data is what was
sent, cut short or continued; all else is about values, in five parts. Numbers:
by induction over the bytes of a word, a number below `Power[Word]` is read back
from it (`NumberOfUint256`). Joining: by induction over the parts, each stands in
what they are joined to where the lengths of those before it say (`At`), however
many parts there are. Decoders: on any data at all, the readers with offsets done
by hand read what the library reads (`DecodersAgree`); that is where a size above
`MaxSafeInteger`, which only one of them refuses, must lie behind the end.
Encoders: what is written by hand with sizes known up front is what the library
writes, for each format (`AllAreWritten`), and the library's offsets lead to its
tails. Length: the part of the data up to its padding (`IsEssence`) decodes to
the value whatever follows it, and anything shorter is refused; which is not so
for the two formats in `Reaching`.
`DataAssumption` says what is assumed of the values: numbers are natural (the
encoder throws on a negative one before it writes anything), addresses have
their size, and what is encoded is not longer than a JavaScript number can say,
which an array cannot be.

Browser facade, for any number of requests: `TypeCorrect`, `CallsStayInOrder`,
`ReleasesStayInOrder` and `ObjectsStayReachable`. The invariant
(`FacadeInv`) ties the three places an id can be in: requests under way to the
worker are the last ones issued, in order; calls that wait for a module are on
no handle, since nothing is held before there is a module; a request has at most
one answer under way and its promise is pending until then. A handle is out of
use exactly if a release of it was received, and what was answered agrees with
the releases issued before the request. The last part is what the property
needs, and it is not inductive without the order of the ids.

Playground runner, for any number of boots, keys, outputs and messages under
way, any images and any sizes: `TypeCorrect`, `OneLoop` (`OneLoopDrives`),
`OwnOutcome`, `OwnConsole`, `KeysInOrder` and `ConsoleHasSize` (`ConsoleFits`).
None of the properties is inductive, as each speaks of one end of a channel.
`LoopInv` says why the page's phase, late as it is, keeps a second loop out:
while the page is busy everything on its way to it is of the last boot, the
last word of a boot is the last message, and once it is said no task is active;
so a page that is not busy has an empty channel and a worker at rest.
`ConsoleInv` counts what was printed as shown or under way. `KeysInv` splits the
keys on their way at the message of a boot under way: those behind it are
exactly those typed since; with none under way, the keys that have arrived and
those on their way are, in this order, those typed since. `SizeInv` says that
the last resize under way has the terminal's size, that a boot behind all of
them has it too, and when none is under way the staged request or the machine.

Snapshot archive, for any list of directories and files, blocks of two bytes or
more, and names of any length: `SnapshotsArrive`. The invariant `Travelled`
says what an archive may have become; the rest is about data. Packing puts each
header where the lengths before it say (`PackedIsArchive`), a block that arrives
is the header that was written or its checksum does not fit (`HeaderArrives`,
`ZerosArrive`), so unpacking finds the next header where it was put, even if a
byte of the data before it is another one (`DataArrives`). What is unpacked is
known from the last entry to the first (`UnpackedAll`); that two entries cannot
both be wrong follows from the places, which do not overlap (`EntriesApart`).
What is assumed of a directory is the form of its entries
(`ListingsAssumption`), which the run evaluates for those of `SnapshotTree`.

The assumptions on constants (inputs are not queries, names are not requests,
bounds are natural numbers, the limits of integers are in their order) are
stated in the modules and evaluated by every run. The type invariants are
proved, and not repeated as properties of the runs.

The library's induction theorems take an operator as a parameter, which the
provers cannot instantiate. Where an induction is needed it goes through sets
(`Least` and `Induction` in `Page_proofs` and `Codec_proofs`): that `<` is well founded on the
natural numbers gives every set of them a least element, and so a set with 0 and
the successors of its elements has all of them. A recursive function is then
known by its recursion once a function that satisfies it is shown to exist
(`PowerExists`, `NumberExists`, `UnpackExists`).

Only model-checked: the agreement of the bindings (a table of methods, compared
case by case), and what `pack` finds in a tree. Liveness
(`EveryCallSettles`, `EveryRequestIsDecided`, `BootsEnd`, `PollingEnds`) is
beyond the prover as well and stays with TLC.

## Divergences

What the models show of the code and a caller might not expect. The first has a
run of its own; the others are in the models as the code has them, and the
properties are stated around them.

- An input longer than the rx buffer is reported accepted though the guest never
  saw it (`local_oversized`).
- After an abandoned advance of a local machine the next one continues it, and a
  rejection restores the machine in the middle of it (`rollups.ts:490`;
  `rollups-machines.mdx:33` promises the state before the input).
  `AllOrNothing` therefore assumes a caller that does not abandon.
- A machine call that throws leaves the transaction open, and the machine is not
  rolled back (`rollups.ts:235`; the comment at 466-468 says "or a failure").
  `AllOrNothing` admits faults before the input is delivered only.
- Calls that arrive at the browser's worker before its module is ready
  instantiate one each (`server.ts:68`; `worker.mdx:24` says once, on the first
  call). `InstantiationFails` and `Instantiated` are per call.
- `run` of the guest rejects also if the report of a handler's error throws
  (`rollup.ts:200`; the comment at 171-172 names `finish` only).
  `EveryRequestIsDecided` counts it among the ends of the loop.
- A store without a sharing mode shares everything over the addon
  (`addon.cc:385`) and nothing over the WebAssembly module and JSON-RPC
  (`wasm/addon.ts:252`, `client.ts:355`); the default revert hash of
  `logSendCmioResponse` is the client's or the server's (`SharedDefaults`,
  `LeftToServer` in `MCBindings`).
- A negative or too large integer for a 64-bit argument is refused by the addon
  and wraps in the WebAssembly module; the comparison has such arguments for
  32 bits only.
- Integers of sixteen digits and more in configurations and proofs are rounded
  by the in-process bindings (JSON.parse) and strings over JSON-RPC; those in
  collected hashes are exact everywhere.
- A hash of the wrong length is refused by the addon (`get_hash`,
  `addon.cc:149-157`) and passed on as it is by the WebAssembly module
  (`wasm/addon.ts:72-79`), which copies it to the heap whatever its length.
- `advance` and `inspect` of a rollups machine in the browser's worker return a
  handle of a generator if they are called without `collect`: `server.ts` passes
  on the arguments it is sent, and a generator is not a plain object. The page's
  types allow the option to be left out (`client.ts:57`), and `worker.mdx:63`
  says that the result is always collected. In the facade's model such a
  call is one that makes an object, which the worker holds until it is released.
- `cloneEmpty` of a remote machine returns the machine itself
  (`remote-impl.ts`).
- A resize of the terminal that reaches the playground's worker while images are
  staged is lost (`dropped`): the message of the boot has the older size.
- A form changed just before the playground's page is left, before the effect of
  that render has saved it (`page.tsx:81-85`), is lost; the later visit finds the
  form before it. `FormSurvives` says what may replace a saved form, and that the
  form shown is saved once its effect has run, not that none is ever lost.
- A playground form with drives but no root filesystem image boots from its
  first drive (`root=/dev/pmem0`, `config.ts:255-265`, `586-590`), which init
  also formats if it came with nothing; and init leaves a drive labelled "root"
  alone wherever it stands (`config.ts:319`), formatted or not.
  `InitKeepsToItsRanges` speaks of a root filesystem that was chosen as one.
- Polling ends at once when an attempt fails with a `TypeError` that is not the
  network's, as of an answer without an input (`waitForInput.ts:36`): the package
  that retries does not retry those. `GivesUpWhenDue` speaks of other errors.
- An archive cut in the data of its last file is unpacked without an error.
- Of two overlapping advances of a remote machine that are both accepted, the
  first to commit is lost (`rollups.ts:442`); overlapping advances are not
  documented to be supported.

## Not modelled

- Payload bytes in the models of machines: a request is a name (the formats are
  in `Codec`, on their own; there hex and bytes are one thing, which hides that
  a selector in upper-case hex is not found, `input.ts:47-48`). The content of events: an event is known by the
  request it stems from.
- The emission of outputs and the outputs tree of the guest addon: calls of
  libcmt, which is not in the repository, without state on this side.
- Conversions of single values (addresses, integers, the fields of node
  answers), error classes, type declarations: one expression each.
- The node client's other actions and the other hooks: one request and its
  answer.
- spawn and connect of remote machines, the choice of an addon to load, setters
  of timeouts and of cleanup calls.
- The playground's layout and statistics, and a browser whose storage refuses
  to save the form; the wagmi plugin, static assets, documentation.
- A second tab with the same image library, and a transaction of it that fails
  when it commits, after its request has succeeded (`store.ts` does not wait for
  that). What a resize carries besides the terminal's size.
- Two processes on one server, except for the calls of `MachineSession`. That
  `store` of a rollups machine fails (it changes nothing then). A consumer that
  throws into a generator. Arguments of the facade that cannot be cloned.
- The composition of `GuestLoop` with a host machine: the two sides share only
  the yields of the emulator, which is external to both, and each is modelled
  against an arbitrary other side.
