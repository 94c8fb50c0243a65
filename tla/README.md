# Padlock Cloud in TLA+

This directory specifies and verifies Padlock Cloud: the server that keeps the
encrypted data of the Padlock app and synchronises it between devices, and the
client of its dashboard. The server is the Go package `src/padlockcloud`; the client
is the bundle `src/assets/static/elements/cloud-dashboard/cloud-dashboard.js`, which
holds the dashboard's own elements together with the libraries they are built with
(the runtime of web components, Polymer; the dates and durations of moment). The
modules are translated from these sources, and every definition that models code is
tied to its lines in `PROJECT.json` ("map").

- [1. The system](#1-the-system)
- [2. The modules of the server](#2-the-modules-of-the-server)
- [3. The modules of the client](#3-the-modules-of-the-client)
- [4. What the runs check](#4-what-the-runs-check)
- [5. What is promised and the code does not keep](#5-what-is-promised-and-the-code-does-not-keep)
- [6. What is proved](#6-what-is-proved)
- [7. What is not modelled](#7-what-is-not-modelled)
- [8. What could follow](#8-what-could-follow)
- [9. How to run it](#9-how-to-run-it)

## 1. The system

The server knows its users by email. A client (the app, or a browser on the
dashboard) asks for an auth token for an email; the server stores an
*authentication request* and mails an activation link (or a code); following
the link activates the token, which makes the account if there was none. From
then on the client presents email and token with every request, to read, write
or delete one opaque data store, to log out, to revoke other tokens or to
delete the account.

### Components

| Component | Source | State it keeps | Operations | Correct when |
|---|---|---|---|---|
| Auth tokens and accounts | `auth.go` | the list of tokens of an account: type, device, last use, expiry | find, add, update, remove, filter by idle time and by expiry; make and name an authentication request | one token per type and device; a token once; filters take exactly what is old |
| Request handlers | `handler.go` | the three storages; in a goroutine: copies of an account and of a request | RequestAuthToken, ActivateAuthToken, ReadStore, WriteStore, DeleteStore, DeleteAccount, Logout, Revoke, AccountInfo, pages | nothing one request did is undone by another; no data without its account |
| Authentication | `server.go` (`Authenticate`), `middleware.go` | the account it read, filters and writes back | Authenticate, with token or skeleton key | good tokens survive, ended ones are refused |
| Account lock | `server.go` (`GetAccountMutex`, ...), `middleware.go` | a map from emails to mutexes | LockAccount, UnlockAccount | mutual exclusion; nobody waits in vain |
| Cleaning job | `server.go` (`cleanAuthRequests`), `job.go` | a ticker, an iterator over the requests | the sweep, Start, Stop | deletes only what is old; stops |
| Middleware pipeline | `middleware.go`, `server.go` (`WrapEndpoint`) | the request body, response | version, CSRF and method checks, error and panic handling | the order of the checks; every error releases the lock |
| Storage | `storage.go` | LevelDB or in-memory maps | Open, Close, Get, Put, Delete, List, Iterator | is a map; iterators see every entry |
| Rate limiter | `ratelimit.go` | a store of counters | RateLimit by ip and by email | limits each |
| Server start and stop | `server.go`, `main.go` | listener, job, storage | Init, Start, Stop, CleanUp | nothing uses a closed storage |
| Command line | `cli.go` | the storages, while no server has them open | account list, create, display, delete | leaves the storages as the server wants them |
| Devices, whitelist, errors, senders, templates, logging, utilities | the rest | configuration and text | formatting, mail, randomness | - |
| Dialogs | bundle, 19129-19968 | one element per kind of dialog, the end of the chain of calls | alert, prompt, generate, choose, clear | shown in turn; an answer reaches who asked |
| Account page | bundle, 20077-20692 | the account shown, the payment dialog, buttons, the notification | pay, subscribe, reactivate, delete, refresh | one submission at a time; shows what the user was told |
| Tracking | bundle, 364-449 | the chain of events, the tracking ID | track, trackEmail | each event is sent or given up |
| Promotion | bundle, 20241-20279 | the promotion shown, an interval | set up, count down | the countdown runs once and ends |
| Element runtime | bundle, 7659-18208 | queues, data of elements, instances of templates | set, flush, render, splice, select, bind, parse, finalize | pages show the data; nothing that was asked for is forgotten |
| Dates and durations | bundle, 1545-7150 | - | weeks, months, periods, parsing, durations, countdown formats | computing forth and back agree |

### How they interact

Every HTTP request runs in a goroutine of its own. `WrapEndpoint` wraps a
handler in, from the outside: error handler, panic handler, method check,
`LockAccount` (if the request carries credentials), `Authenticate` (on endpoints that
want it), version check, CSRF check, handler. The goroutines share the storages (each `Get`, `Put` and `Delete` is
atomic by itself), the map of account mutexes and the rate limiter's store. A
job started by the server walks over the authentication requests once a day and
deletes the old ones with no lock at all. The mail is the other way out: a link
handed out can be followed any number of times, by anyone, at any later time.
A signal ends all this: running requests have ten seconds, then the job is
stopped and the storages are closed.

The client is one thread of JavaScript. Its parts interact by calls, promises, timers
and events: a page asks a dialog and goes on when its promise is resolved; a request
is answered some time later, or never; the elements below are bound to each other, so
that one assignment calls through the elements of a page and may come back; rendering is
put off to microtasks and animation frames, by which time the data may be different.

### What is hard

- *Atomicity.* Every authenticated request reads the whole account,
  filters and updates the list of tokens in memory and writes it back, and most
  handlers write it once more. What makes that safe is the account lock. But
  an activation carries no credentials of its account, takes no lock, and
  rewrites the account as well.
- *Interleaving on the lock itself.* The map of mutexes is filled on demand
  with no synchronisation.
- *Failure between two steps.* Activation writes the account and then deletes
  the request; deleting an account deletes the data and then the account. A
  storage error or the end of the process may come between.
- *Ages.* An hour, 24 hours, 7 and 30 days, compared strictly, decide what is
  deleted for good.
- *Finding a token.* The list is searched by whichever of token, device and type
  is not blank, the first match counts, and removal moves the last element into
  the hole.
- *Snapshots.* The cleaning job deletes by key what it saw earlier.
- *Liveness.* Requests queue for one mutex; whatever happens to a handler, it
  must be released. The stop of the server waits for a job that may be sweeping.
- *Late answers.* A user shows and dismisses dialogs, changes the account and asks for it
  anew while requests are under way; answers come in any order.
- *Reentrance.* Observers set what they observe; attributes are written and heard of in
  the same breath; callbacks add and cancel callbacks of the queue that runs them.
- *Indices.* Arrays change under lists, selections, and records of what changed,
  all of which remember places in them.
- *Edges of the calendar.* Weeks of another year, months of unequal length, parts of a duration
  with different signs.

`PROJECT.json` lists these under "hazards" with their lines and the properties
that cover them. The dashboard only calls part of what the bundled libraries can do; they are
modelled as far as their state is more than a text.

## 2. The modules of the server

```
TokenList  <---EXTENDS---  AccountService  <---  MCAccountService   (TLC)
    ^                        |        ^
    |                   implements    |
    |                        v        |
    +------EXTENDS------  Accounts   AccountServiceProofs  <--  AccountTokenProofs

AccountLock  <---  MCAccountLock (TLC),  ServerProofs
    |
    +--- implements --->  AccountMutex  <--- used by --- AccountService

ServerStop (TLC)  <---  ServerProofs
```

### TokenList - `auth.go`

The `AuthTokens` slice and its methods as operators on sequences of records.
`Token` and `Id` of a token are drawn together from the random generator and are
both unique, so one model value `id` is both. A device is its UUID, `NoUUID` (a
device without one) or `NoDevice` (nil); names and versions of clients are
display data. `Query` is the part of a token that `findAuthToken` compares;
`Keep` is what the `s = append(s, t)` loops build. `Never` is the zero `Expires`.

### AccountService - `handler.go`, `server.go`, `middleware.go`

The three storages, and any number of requests that work on them.

| Variable | In the code |
|---|---|
| `clock` | `time.Now()` |
| `accounts`, `stores`, `authRequests` | the storages of `Account`, `DataStore`, `AuthRequest` |
| `holder` | who holds the mutex of an email |
| `pc` | the place of the goroutine: between which two storage calls |
| `req` | what was asked: operation, credentials, device, and the email a token is asked for |
| `auth` | the `*AuthToken` the handler is given |
| `acc` | the local `account`, from the `Get` to the `Put` |
| `ar` | the local `authRequest` |
| `sweep` | what the cleaning job's iterator has still to show |
| `owner`, `links`, `exposed`, `gone` | history: to whom a token was issued, links handed out, accounts on which an activation went past the lock or was cut off, tokens ended |

One action is one storage call with all that the code does up to the next one:

| Action | Code |
|---|---|
| `Arrive` | a client sends a request: with credentials it was issued, with the skeleton key, or none |
| `LockAccount`, `UnlockAccount` | the `LockAccount` middleware and its deferred unlock |
| `AuthRefused`, `AuthSkeleton`, `AuthAccepted` | `Server.Authenticate` up to its `Get` and filters; refused, by skeleton key, by a token of the list |
| `AuthPut` | its `Put`, and the check of the token's type |
| `Reject` | version, CSRF or parameters are wrong, or the handler's first storage call fails |
| `RequestAuthToken`, `ReqStore`, `ReqPut`, `ReqMail`, `ReqDenied` | the POST and PUT handlers: look for the account, then the data store; store the request; answer a preauthenticated client, mail the link, or be refused by the rate limiter (or the mail is lost) |
| `ActivateAuthToken`, `ActGet`, `ActRemove`, `ActPut`, `ActDelete`, `ActLogin` | activation: find the request, get the account (or a new one), remove tokens of the same type and device one by one, add the token and save, delete the request; a link for an api token then activates a web token as well |
| `Read`, `WriteStore`, `DeleteStore`, `DeleteAccount`, `DelAccount`, `Logout`, `Revoke` | the other handlers |
| `AuthFail`, `Fail` | a storage call returns an error |
| `Crash` | the process ends at any point and is started again; the storages stay |
| `CleanStart`, `CleanNext` | the cleaning job takes its snapshot, and looks at one request after the other in any order |
| `Tick` | time passes, whatever anyone is doing |

`exposed[e]` deserves a word. `ActGet` sets it when an activation reads the account
`e` without holding its lock, and `Fail` and `Crash` set it when an activation has
been saved but its request has not been deleted. Properties which hold only while
neither has happened have `~exposed[e]` as a condition, and the runs of section 5
show that they need it. It does not make them void: an activation made with
credentials of its own account (`/activate/` from a logged in client) holds the
lock and exposes nothing, and the mutants of these properties are violated on
such behaviours.

`AccountService` takes the account lock as a real mutex. That this is right, and
when it is not, is the subject of the next two modules.

### Accounts - what the service promises

The same service as its clients think of it: an account is the set of its tokens, and a request that
changes one changes it at once, as it is at that moment.

| Action | What a request does to an account |
|---|---|
| `Authenticate` | drops what is idle or expired for too long, and sets the last use of the token it accepts (the time may be that of the request's arrival) |
| `Activate` | a new token takes the place of those of its type and device, and the account is made if need be |
| `Logout`, `Revoke` | one token is ended: taken out, or left expired |
| `Write`, `Delete` | the data is written or deleted; an account goes after its data |
| `Share`, `Race` | the promise ends for an account, and what is left of it then: it is not lost, and has one token of a type for a device |
| `Pass` | time passes |

There is no copy, no lock, no program counter and no crash in it. `AccountService` implements it
(`KeepsPromise == Promise!AccountsSpec`): `listed` are its lists as sets, `ended` the tokens in `gone`,
`shared` is `exposed`. The step that changes an account is the storage call that writes it, so what is
to be shown is that the copy a handler writes by then is still right. `AccountSafe` is what a client may
conclude from the promise alone.

### AccountLock - `server.go:139-153`

`GetAccountMutex`, `LockAccount` and `UnlockAccount` with every access to the map
of mutexes a step of its own, as the code has nothing that would order them.
`Create`/`Store` split the assignment so that the map can be found in use while it
is written, which the Go runtime may notice and stop the process (`MapInUse`), or
may not: then both threads go on. `raced` remembers accounts whose mutex was
replaced by a second one.

### AccountMutex - what the lock promises

The abstract lock: who is inside which account, one at a time unless the account's mutex was
broken; a restart ends everything. `AccountLock` implements it (`ImplementsMutex`: `inside` are the
threads that hold the lock, `broken` the accounts that were raced for), and `AccountService` uses
it (`UsesMutex`: its `holder` enters and leaves as the mutex allows, and never breaks it). So what is
shown of the service holds with the code's lock as long as no account is broken.

### ServerStop - `server.go:585-593`, `job.go`, `storage.go:110-126`, `main.go`

| Variable | In the code |
|---|---|
| `phase` | where the process is: running, draining (the graceful server waits), stopping (`Job.Stop`), closing (`Storage.Close`), exit |
| `timedOut` | the graceful server gave up waiting after its ten seconds |
| `handler`, `answer` | a request, the writes its handler has still to do, and how it ended |
| `stored` | which of the three databases has an entry of its account |
| `job`, `tick`, `left` | the job's goroutine, the channel of its ticker, the rest of its iterator |
| `open`, `stores` | the open databases; whether the map of them still is there |

`Accept`, `Step`, `Answer` are requests; `Signal`, `Drained`, `TimeOut`, `CannotListen` the graceful
server (a library, modelled from its use); `Ticks` ... `EndSweep` the job; `StopJob` the
hand-over on the unbuffered channel, which both sides wait for; `CloseOne`, `CloseFails`, `Closed`
`LevelDBStorage.Close`, which closes the databases in the order of a map and returns at the first
error. A request that outlived the timeout runs on while the databases are closed under it, and
ends at the first write that fails, or with the process.

## 3. The modules of the client

```
LoadingButton --+
Dialogs --------+--> Dashboard --+
Tracking ------------------------+--> MCClient (TLC)
Promo ---------------------------+

MicroTasks --EXTENDS--> MCLibrary (TLC) <--INSTANCE-- RenderStatus, PropertyFlow, Paths,
    Attributes, DomIf, DomRepeat, FlattenedNodes, ArraySelector, Templates,
    BoundTemplates, Registration, Gestures, Calendar, Durations, DurationFormat
FlattenedNodes, ArraySelector --EXTENDS--> ArraySplice

MCClient <---EXTENDS--- ClientProofs
RenderStatus, DomIf, DomRepeat, Gestures, Attributes <---EXTENDS--- ElementProofs
PropertyFlow, Templates, BoundTemplates, Paths <---EXTENDS--- BindingProofs
FlattenedNodes, ArraySelector <---EXTENDS--- SpliceProofs
MCLibrary <---EXTENDS--- LibraryProofs ---INSTANCE---> ElementProofs, BindingProofs, SpliceProofs
```

All lines are of `cloud-dashboard.js`. JavaScript runs to the end of what it does before it takes the
next event, and reactions to promises come before events; an action is such a run, or a part of one
where other elements are called and may call back (`PropertyFlow`, `Attributes`, `Paths`: these
keep a stack of calls, and the environment acts when it is empty).

### The dashboard's own elements

| Module | Lines | State and actions |
|---|---|---|
| `Dialogs` | 19129-19968 | `call`: a call of `alert`, `prompt`, `generate` (and those that use them), its kind and its place in the chain `lastDialogPromise`; `dialog`: the one element of each kind, with `open`, `showing`, the timer that opens an alert, and `resolve`, whom it will answer. `LineUpDialog`, `Start` (the reaction), `OpenAlert` (10 ms), `Dismiss`, `Press`, `Hide` (the animation is over), `ClearDialogs` |
| `LoadingButton` | 19686-19729 | what a button shows and the timers by which it goes back to its label |
| `Dashboard` | 20077-20692 | `pay`: the payment dialog; `net`: requests under way (a card, reactivation, deletion), which the server does or not and then are answered or not; `view`: the account shown and the requests for it; `page`: buttons, the notification and what the calls of dialogs are for; `server`. One action per handler and per way a request ends |
| `Tracking` | 364-449 | `started`: the promises of the start; `event`: calls of `track`, each waiting for the one before; `ready`: the end of the chain; `tracking`: the ID |
| `Promo` | 20241-20279, 20528-20531 | the account's promotion, the one shown, its interval |

### The runtime of elements

| Module | Lines | What it models |
|---|---|---|
| `MicroTasks` | 7658-7864, 14060-14356 | the array of microtasks with its handles, debouncers, `debouncerQueue` and `Polymer.flush`, one callback at a time, each of which may add and cancel |
| `RenderStatus` | 13636-13736 | callbacks before and after the next render: a frame, a timeout, `flush` |
| `PropertyFlow` | 8341-9303, 10006-10542, 12132-12200 | an element and the elements of its template: `_flushProperties` with compute, clients, observe and notify as nested calls, elements that are not ready yet or upgraded late |
| `Paths` | 7433-7496, 9328-9352, 10232-10860 | linked paths, what is told of a path, the methods that change an array and the splices they tell |
| `Attributes` | 7958-8120, 9269-9275, 12271-12293 | a property and its attribute, read and reflected into each other |
| `DomIf`, `DomRepeat` | 17687-17889, 17219-17582 | conditional and repeated parts of a template; debounced renders, chunks, filter, sort, limit |
| `ArraySplice` | 13773-14020 | the splices between two arrays, by edit distances |
| `FlattenedNodes` | 14111-14304 | the observer of the nodes an element is seen to have |
| `ArraySelector` | 17997-18213 | the items selected while the array changes |
| `Templates`, `BoundTemplates` | 8448-8730, 9356-9390, 11128-11361 | parsing a template and finding its nodes in copies; the list of copies bound to an element |
| `Registration` | 8216-8267, 8928-9000, 11960-12045, 15680-15946 | classes from infos and behaviors, their finalization, effects and accessors |
| `Gestures` | 12607-13471 | down, up, track and tap from mouse and touch events |

### Dates and durations

`Calendar` (2920-5920, moment), `Durations` (4942-6502) and `DurationFormat` (1545-2104) are algorithms:
their operators are the library's functions, their invariants compare each with another way to
compute the same thing, and their actions let time go on, a duration grow, the countdown run. The
browser's `Date` is a count of days (external); an hour is the smallest part.

### MC modules

`MCAccountService` and `MCAccountLock` add the sets of operations of the runs and
the symmetries. Requests, tokens, threads and emails are interchangeable: nothing in
the modules orders them, and the initial states are closed under permutation.
The one CHOOSE, in `findAuthToken` and `Keep`, is over positions. The runs of liveness properties
use no symmetry.

`MCClient` and `MCLibrary` explore parts that share nothing. `part` names the part a behaviour is
about; the others stand still, so that the states of the parts are added and not
multiplied. In `MCLibrary` the parts also share a pool of variables, which each instance names in its own
way; only the microtasks, about which all of it is proved, have theirs. A property of a run is then a
conjunction, one conjunct per part, each of which is defined in the part's module; each of these was
tried against a mutant of its own part, the one `PROJECT.json` lists being one of them.

### Bounds

| Bound | Where | Why it is enough |
|---|---|---|
| `Ids` (1 or 2) | tokens that can ever be generated | two tokens give every pair: duplicate, same device, one revoking the other. With `Ids` used up, `ReqPut` and `ActLogin` are disabled; the error exit `Fail` remains, so nothing is stuck |
| `MaxTokens` | `ActPut` | the list grows beyond the number of tokens only by activating a link again; one duplicate shows all that this does. The error exit remains here as well |
| `MaxClock` (2 to 5) | `Tick` | `acc_device` and `acc_nodevice` ask about interleavings and keep the clock at its start, 2. `acc_time` lets it pass every age: `WebAge = 1`, `KeepAge = 2`, `MaxIdle = 3` keep the order of an hour, 7 days and 30 days, and each is crossed |
| `StartTime = 2` | `Init` | a minute ago is not the zero time |
| requests (1 or 2) | cfg | what a second request does between two steps of the first is what the properties are about; runs on ages need only one, since time passes between its steps |
| emails (1) | cfg | handlers of one email touch no other, except an activation by a client of another account, which for the account activated is one without the lock, as from a client without credentials. The theorems are for any number |
| threads (3), emails (2) | `lock.cfg` | three threads give a holder, a waiter and a late comer; the map is shared between accounts, so there are two |
| requests (2), `MaxSweep = 1` | `server_stop.cfg` | one request that ends in time and one that does not; a sweep with something left |
| `Calls` (2 or 3), `MaxClears = 1` | `client*.cfg` | three calls: one shown, one waiting, and one chained after, or of the next chain after a clear |
| `MaxShows`, `MaxPosts`, `MaxRefreshes` (1 or 2) | `client*.cfg` | two answers under way can overtake each other; a dialog shown again while the first submission runs |
| `Events` (2 or 3), `MaxNow = 2` | `client*.cfg` | the event of the start and two others; before, at and after the end of the promotion |
| `MaxHandles = 5`, `MaxQueue = 3` | `library.cfg` | three debouncers, each scheduled again, inside and outside a flush |
| `MaxFrames = 2`, `MaxNotifying = 2` | `DomRepeat` | two frames asked for at once; a render within what the listeners of another do |
| `MaxStrays = 1` | `Paths` | one splice that starts outside of the array already parts the array from who follows it |
| the other parts | `MCLibrary` | two or three values, nodes, children or items; arrays of at most 3 or 4; the days around turns of years with 52 and 53 weeks and ends of february; durations around every threshold |

`CleanStart` may run at any time once a day has passed since the first start. After a
restart the ticker really begins anew, so the model's job runs more often than the
code's.

## 4. What the runs check

| Run | States | Properties | What it shows |
|---|---|---|---|
| `lock` | 112 000 | `MutualExclusionUnlessRaced`, `UnlocksWhatItLocked`, `WaitsForAHolder`, `ImplementsMutex` | Unless two first requests of an account have both stored a mutex, the lock excludes, is unlocked only while locked, and who waits for it waits for a request inside; with all its steps it is an `AccountMutex` |
| `acc_device` | 1 530 000 | `TypeOK`, `OneTokenPerDevice`, `NoOrphanStore`, `KeepsPromise`, `OnlyActivationCreates` | Two requests of clients with a device, with data and deletion, failures and crashes in between: whatever races, one token per type and device and no data without its account; each request changes the account as if it ran alone, though every one rewrites the whole of it from a copy (the service implements `Accounts`); a deleted account is not written back by a request under way |
| `acc_nodevice` | 2 580 000 | `TokensDistinct`, `GoneIsRefused`, `CopyIsCurrent` | Clients without a device, whose tokens pile up: none twice, an ended one stays refused, handlers work on the account as stored - unless an activation went past the lock or was cut off |
| `acc_time` | 3 510 000 | `GoodTokensStay`, `CleanedAreOld` | The ages, and the job, at any time a request may take its steps: no token still good is filtered out, and of the authentication requests that a link names only old ones are deleted while a client asks for and follows links |
| `acc_live` | 37 000 | `EveryRequestEnds` | Every request ends, though two queue for one account and storage calls fail |
| `server_stop` | 31 000 | `NoIteratorOnClosed`, `OnlyLateOnesFail`, `CutOffLeavesUsable`, `StopsInTheEnd` | Two requests, the job and a signal at any time: no storage is closed under a sweep, only requests that outlive the timeout fail, what is cut off leaves data with its account and a link or its token, and the process ends |
| `client` | 1 677 000 | `InTurn`, `AnswerReachesCaller`, `OneAtOnce`, `ToldIsShown`, `AnsweredIsClosed` | Dialogs one after another, each answer to who asked; one submission, one event, one countdown at a time; whichever answer came last, the page shows all that the user had been told of when it was asked for; an answered dialog closes |
| `client_live` | 119 000 | `CallsAnswered`, `SubmissionEnds`, `EveryEventEnds`, `ExpiredGoes` | The same, with fairness: everything that was begun ends |
| `library` | 868 000 | `LibraryTypeOK`, `QueueAgrees`, `SplicesAreExact`, `FlowSettles`, `RenderedIsCurrent`, `ObserversAgree`, `GesturesEnd`, `TemplatesAreBound`, `ClassesAreMade`, `DatesAreRight`, `DurationsAreRight`, `StepsInOrder` | The libraries, each part by itself |

Each property of these runs has a mutant in `PROJECT.json`: the definition is
replaced by one with a plausible mistake (`..._NoWait`, `..._Forgotten`, ..., defined
beside the original), and TLC finds the property violated.

The properties of the client say what holds, and leave out what does not: `OneAtOnce` and
`SubmissionEnds` except a submission before `stripe.js` is loaded (20151: `_submittingCard` stays
set), `CallsAnswered` calls that `clearDialogs` left without an answer (19933), `AnsweredIsClosed` an
alert that was answered in the 10 ms before it opens (19513), `OneAtATime` events after one with an
email, which starts a new chain (416). None of these is promised anywhere in the sources.

`ToldIsShown` says of each answer what it must bring, and of the newest request's that it brings all. It cannot say
that the page never goes back: whatever arrives last is shown (20528-20531), so an older answer that
arrives after the newer takes away what that one had shown, and a change the user was told of since its own
request is missing until the account is asked for again. The first conjunct (`toldThen`) speaks in that state: what the older
answer shows still has all that the user had been told of when it was asked for.

Of the library, three parts hold with a condition that they need (section 5 says what the code does without it):

- `RenderedIsCurrent`, of repeated parts: a render a listener of `dom-change` asks for is lost if the render that told it has
  a chunk to ask for (17452-17457, 17416). From then on instances and items may disagree (`replaced`), until the frame of the
  chunk renders; `ReplacedComes` says that the frame, or the asking for it, is there, so `AllShown` needs no exception.
- `ObserversAgree`, of paths: as long as no splice started outside of its array (`strays`). `splice` hands on the start it
  was given, `Array.splice` clamps it (10768-10778).
- `GesturesEnd`: a pointer that tracked does not tap, unless another button went down meanwhile (`disturbed`), which resets
  the recognizers (12874-12881). That nothing is followed after this, and nobody taps or goes up twice, needs no
  exception.

**Fairness.**

- `FairSpec` of `AccountService` assumes, for each request: its next step is taken (WF), for a
  goroutine that can run is run, whether its storage call succeeds or fails; and
  `LockAccount` is taken if it is possible again and again (SF), for Go's `sync.Mutex`
  hands itself to a waiter once it has waited for a millisecond, so a stream of later
  requests cannot keep it out for ever. No fairness is assumed of clients, of time, of the
  job or of crashes. The bounds only make `Fail` the exit of a request that needs a
  token that is not there; the property says that a request ends, not that it succeeds.
- `StopSpec`: a sweep goes on and ends, the graceful server's time runs out, the closing goes on (WF);
  `StopJob` is strongly fair, since `select` in `job.go` chooses at random between a tick and the
  message, and so takes the message in the end however many ticks wait. Nothing is assumed of requests.
- `MCClient`: reactions are run and timers run out, a request ends with success or not (a browser's
  requests do), and, for the dialogs only, the user answers a dialog that is open.

**Deadlock** is checked in the runs of the account service and the lock: `Crash` and `Restart`
aside, there always is a request to make. It is not checked where the system does stop: a server that has
exited, a client with nothing under way and its bounds used up, a countdown at its end.

## 5. What is promised and the code does not keep

| Run | Property | What happens |
|---|---|---|
| `lock_comment` | `MutualExclusion` | `GetAccountMutex` (`server.go:140`) looks into the map and stores into it with no lock: two first requests of an account find nothing, store a mutex each, and are both inside "locking state for a given account" (`middleware.go:70`) |
| `revoked` | `RevokedIsRefused` | Revoke expires the first of two entries of a token that is listed twice (a link followed twice at the same time, or again after the deletion of its request failed: the "set of api keys" of `auth.go:173` is no set); or an activation without the lock (`handler.go:218`) writes back the account from before the Revoke. What `server_test.go:727-730` expects does not hold then |
| `last_used` | `LastUsedSaved` | A token issued to a client that sent no device, used by one that sends a UUID: `Authenticate` (`server.go:214-224`) puts the device into the query before it searches the list, finds nothing, saves nothing (`server.go:226` "to persist last used data"). The token is dropped as idle after 30 days of daily use. For the same reason `RemoveAuthToken` in `Logout` (`handler.go:460`) removes nothing, and its result is not looked at |

More came up while modelling and has no run of its own:

- The key of an authentication request with a code is email and code. If the code comes up again for the
  email after the job looked, the job deletes the new request by the key of the old (`server.go:556`),
  and counts it as "older than 24 hrs" (`server.go:564`). `CleanedAreOld` therefore is about requests
  without a code; without that condition `acc_time` with `Codes = {k1}` violates it this way.
- `_createPropertyAccessor` (8241) makes an accessor only once, so a property declared before keeps its
  setter when a class below declares it `readOnly`, though lines 15884-15885 say that it has none. No
  element of the client does so.
- `splice` (10768-10778) adds the length to a negative start and rounds, but clamps nothing. A start beyond the end is
  told of at the place it was asked for, not where `Array.splice` made the change; one before the beginning is told of
  as a place below zero, or is one from the end again. The code says "Normalize fancy native splice handling of crazy start values" (10767). Who
  follows the splices has another array then: `Mirrored` without its condition `strays = 0` is violated by the run `library`
  in its first step.
- The right button goes down while the left one drags: every recognizer is reset before one asks which button it is
  (12874-12881), the track is never told to end, nor the pointer to be up, and the click after it taps, though "if and only if
  tracking, always prevent tap" (13291). `OneTap` without its condition `~fired.disturbed` is violated this way.
- The asking for a frame is debounced, the frame is not (17361-17366): a render that has asked for one, and another before
  it comes, leave two, though "multiple calls through `_render` between animation frames only queue one new rAF"
  (17357-17358). Each raises the limit, so more is rendered at once than was meant to be; what is shown in the end is right
  (`AllShown`). `chunks <= 1` is not an invariant of `DomRepeat`.

## 6. What is proved

What is proved of the server, the dialogs, the page, the tracking and the microtasks holds for any sets of
requests, emails, tokens, devices, contents, calls, events and debouncers, for any ages and bounds, under
the assumptions on constants of the modules (`ServiceAssumption`, `AgesAssumption`, `NamesAssumption`,
`LockAssumption`, `ServerStopAssumption`, `DialogsAssumption`, `TrackingAssumption`,
`MicroTasksAssumption`): ages are positive, what stands for "none" is not a value, and the three
databases are there. The theorems of `ElementProofs` are about a part of the runtime with any values:
their hypotheses say that the "none" of a part is no instance (`NoInst \notin AnyInstance`) and that
lengths and the bound of nested flushes are numbers, items are ordered (`RepeatConstants`), and no text stands for an attribute that is not there
(`AttributesConstants`), durations have whole parts and what is added is above zero; `BindingProofs` is about templates of any size (`TemplatesConstants`: the places of
nodes are `1 .. m` and `1 .. n`), any copies of which `None` is none, and any elements with any
values (`FlowConstants`: the host is none of its children, and those bound both ways or loaded late are
among them), and about paths whose linked ends are finitely many, none below another, with room for as many calls
as there are ends, and one (`PathsConstants`); in `SpliceProofs` the arrays are sequences of anything, the bound of
lists of nodes leaves room for a slot (`NodesConstants`), and that of the selector's array is a number
(`SelectorConstants`); `LibraryProofs` brings them
to the parts as they are run (with `NoneIsNoInstance`, which TLC evaluates there).

| Theorem | Module | States |
|---|---|---|
| `ServiceTypeOK` | `AccountServiceProofs` | `Spec => []TypeOK` |
| `ServiceNoOrphanStore` | `AccountServiceProofs` | `Spec => []NoOrphanStore` |
| `ServiceCopyIsCurrent` | `AccountServiceProofs` | `Spec => []CopyIsCurrent` |
| `ServiceOnlyActivationCreates` | `AccountServiceProofs` | `Spec => OnlyActivationCreates` |
| `ServiceUsesMutex` | `AccountServiceProofs` | `Spec => UsesMutex`: the service takes and leaves its lock as an `AccountMutex` |
| `ServiceOneTokenPerDevice` | `AccountTokenProofs` | `Spec => []OneTokenPerDevice` |
| `ServiceTokensDistinct` | `AccountTokenProofs` | `Spec => []TokensDistinct` |
| `ServiceGoneIsRefused` | `AccountTokenProofs` | `Spec => []GoneIsRefused` |
| `ServiceGoodTokensStay` | `AccountTokenProofs` | `Spec => GoodTokensStay` |
| `ServiceCleanedAreOld` | `AccountTokenProofs` | `Spec => CleanedAreOld` |
| `ServiceKeepsPromise` | `AccountTokenProofs` | `Spec => KeepsPromise`: the service refines `Accounts` |
| `PromiseSafe` | `AccountTokenProofs` | `KeepsPromise => []Promise!AccountsSafe`: what follows from the abstract accounts alone |
| `LockTypeOK`, `LockExcludes`, `LockUnlocks`, `LockWaits` | `ServerProofs` | the type and the three invariants of the run `lock` |
| `LockImplementsMutex` | `ServerProofs` | `Spec => ImplementsMutex`: the map of mutexes refines `AccountMutex` |
| `JobIsNotCutOff`, `InTimeIsServed`, `CutOffIsUsable` | `ServerProofs` | the three invariants of the run `server_stop` |
| `DialogsInTurn`, `AnswersReachCallers`, `AnsweredAreClosed` | `ClientProofs` | `DialogSpec => []InTurn`, `[]AnswerReachesCaller`, `AnsweredIsClosed` |
| `ClientUsesDialogs` | `ClientProofs` | `SafeSpec => DialogSpec`: the page, with all the parts, moves the dialogs as `Dialogs` says |
| `ClientOneAtOnce` | `ClientProofs` | `SafeSpec => []OneAtOnce` |
| `ClientToldIsShown` | `ClientProofs` | `SafeSpec => []ToldIsShown` |
| `RenderLeavesNone` | `ElementProofs` | `RenderSpec => [](RenderTypeOK /\ NoneIsLeft)` |
| `GesturesEndOnce`, `GestureTracksInOrder` | `ElementProofs` | `GestureSpec => [](OneTap /\ OneUp /\ NothingFollowed)`, `[][TrackInOrder]_gestureVars` |
| `DomIfShowsHost` | `ElementProofs` | `DomIfSpec => [](DomIfTypeOK /\ ShowsHost /\ RestampRemoves)` |
| `AttributesAgree` | `ElementProofs` | `AttributesSpec => []AttributeReads /\ [][ReflectionIsSilent]_attributeVars` |
| `DurationsAreProper`, `LongerIsMoreAlways` | `ElementProofs` | `DurationsSpec => [](IsDuration(dur) /\ PartsAreProper)`, `[][LongerIsMore]_durVars` |
| `SelectedInOrder` | `ElementProofs` | what `Selected` is: every item the filter passes, once, in order |
| `RepeatShowsAll` | `ElementProofs` | `RepeatSpec => [](RepeatTypeOK /\ InstancesAgree /\ ReplacedComes /\ AllShown)` |
| `MicroQueueAgrees` | `LibraryProofs` | `MicroSpec => [](MicroTypeOK /\ QueueAgrees)` |
| `LibraryAttributesAgree`, `LibraryDurationsAreProper` | `LibraryProofs` | the same of `Spec`, while `part = "attributes"`, while `part = "durations"` |
| `NotedAreFound` | `BindingProofs` | `ParseSpec => [](NotedIsFound /\ EffectsHitTheirNode)` |
| `CopiesAreReached` | `BindingProofs` | `BoundSpec => []AllReached` |
| `FlowIsSettled` | `BindingProofs` | `FlowSpec => [](FlowTypeOK /\ Agreement /\ ToldLast /\ ComputedFirst)` |
| `CalculatedAreExact` | `SpliceProofs` | of any two arrays: what `CalculateSplices` finds leads from the old one to the current one, removes what it says, and is as little as possible |
| `NodesAreReported` | `SpliceProofs` | `FlatSpec => [](FlatTypeOK /\ ToldAddsUp /\ ChangesReported)` |
| `SelectedAreFound` | `SpliceProofs` | `SelectorSpec => [](SelectedAgrees /\ IndicesAgree)` |
| `PathsAreFollowed` | `BindingProofs` | `PathSpec => [](TellingEnds /\ Mirrored) /\ [][LinkedTold]_pathVars` |
| `LibraryQueueAgrees`, `LibraryRenderedIsCurrent`, `LibraryGesturesEnd`, `LibraryFlowSettles`, `LibraryTemplatesAreBound`, `LibrarySplicesAreExact`, `LibraryObserversAgree`, `LibraryKeepsTypes` | `LibraryProofs` | `Spec => []QueueAgrees`, `[]RenderedIsCurrent`, `[]GesturesEnd`, `[]FlowSettles`, `[]TemplatesAreBound`, `[]SplicesAreExact`, `[]ObserversAgree`, `[]LibraryTypeOK`, for the specification of the run `library` |

### The server

**Types** (`AccountServiceProofs`). `TypeOK` is not inductive: `AuthPut` writes
`acc[r]` to the account `req[r].email`, and `ActPut` takes `ar[r].email`, which must be
there. `Reach` adds what a request has established when it gets to a place: it has
credentials wherever it holds the lock, a token where the endpoint wants one, an
authentication request while it activates. Lemmas type what the handlers build
(`LiveTyped`, `RemoveTyped`, `UsedTyped`, `RevokeTyped`, ...), and `MoveTyped` says once
what a step that changes the locals of one request owes.

**Safety of accounts and data** (`AccountServiceProofs`). `SafeInv` is

- `Held`: a request inside `LockAccount` .. `UnlockAccount` is the holder of its email;
- `Present`: behind authentication, the account is there;
- `Emptied`: between the two deletions of `DeleteAccount` there is no data;
- `OffLock`: an activation without the account's lock has marked it `exposed`;
- `Copied`: behind authentication and with no such mark, the copy is the account;
- `NoOrphanStore`.

Each is needed for another: no orphan because a writer's account is present; present
because only the holder of its lock deletes it; and the holder is one. The proof splits in
two, as in an argument about locks on paper: every step of `r` inside the lock stays
within `Frame(r)` (it changes nothing local to the others, and of the accounts only its own,
or one it activates into, `Writes`) and keeps what it owns (lemma `Acts`, one
step per action); and whoever keeps within such a frame disturbs no other request
(`OthersKept`, `FrameKept`).

**One token per device** (`AccountTokenProofs`, on lemmas of `AccountServiceProofs`). An account is
always written from some request's copy, so the invariant is `OneTokenPerDevice` together
with the same of every copy (`CopiesUnique`). The lemmas about lists say
which operations on lists preserve `UniqueDevices`: filtering (the list built by `Keep`
has the elements at the kept positions, each once: `RankInjective`, `RankOnto`,
`KeepElements`), removal that moves the last element, updating an element found by its
own device, and appending a token once nothing matches it. No lock is needed: that is why
this one property survives the activations that go past it.

**Whose a token is** (`AccountTokenProofs`). `OwnInv` adds to `SafeInv`, with the ghost `owner`:

- `OneRequest`: the authentication requests that anybody knows (stored, seen by the job, held by a
  handler: `Known`) have different tokens;
- `RequestsOwned`, `ListsOwned`, `GoneOwned`, `CopyOwned`: what is in a request, in the list of an account,
  ended, or in a copy was generated for that account.

A step either generates no token or generates one that is fresh (`Generated`), and each action only moves
tokens between places that have the same owner. `ServiceCleanedAreOld` is a consequence: a link names one
request, so what the job deletes under the name of an old request is that request.

**No token twice, none back, none lost** (`AccountTokenProofs`). `KeptInv` says of every account that is not
`exposed` (no activation of it went past the lock or was cut off) where each of its activations is. A token
is spent once it is listed or was ended; then

- `Undone`: a stored request has a spent token only while its activation is about to delete it;
- `Sound`: the list has no duplicates, and what was ended and is still listed is expired;
- `InAuth`: the copy that `Authenticate` is about to save is a part of the list, with all that are good;
- `InAct`: the copy an activation is about to save is a part of the list, with all but the token of the same
  device, and the new token is not spent;
- `Aside`: an activation by a client of another account exposes the account.

`Spent` is why `GoneIsRefused` is not inductive: a token that was revoked comes back if its link is
followed again, unless the link's request is gone. `ServiceGoodTokensStay` is a
step's property of the same invariant: each writer of a list writes one that has the good tokens of the old one,
but for the one that the property allows it to drop.

**What is promised** (`AccountTokenProofs`). `ServiceKeepsPromise` maps each step to a step of `Accounts` or a
stutter: the writes are `Authenticate`, `Activate`, `Logout`, `Revoke`, `Write` and `Delete` (one lemma each, `StepAuthenticates`, ...),
what exposes an account is `Share`, a write to an exposed one `Race`, and everything else changes nothing an account
shows. For this `KeptInv` says more than the invariants of the runs need: `InAuth` that the copy about to be saved is the stored
list with what lasted and one token used, of some time since the copy was read (`GoodLasts`, `UpdatedAuthenticated`);
`InAct` that it is the list without what the new token replaces. `PromiseSafe` then looks at the steps of `Accounts` only: a list without
two tokens of a name or device keeps to that when it is filtered, used, added to or expired
(`UsedSafe`, `ChangedSafe`), and what was ended stays expired as time passes (`EndedStays`).

**The lock** (`ServerProofs`). `LockInv` says that, while an account's mutex has
not been raced for, everyone past `GetAccountMutex` has found the one mutex in the
map (`Found`), that it is locked if someone is inside (`Inside`), and only then
(`Locked`). A thread inside the lock, who looks the mutex up again to unlock it, finds an
entry and does not make one (`Place`). The refinement has one step per
action: entering is `Lock`, leaving `Unlock`, a race `Store`, a restart `Restart`, and everything else
stutters; that `Lock` finds nobody inside follows from `Found` and `Inside`.

**The stop** (`ServerProofs`). The invariant is `StopInv`. `Left(h)` says, for each request, which writes its handler has still
to do together with what is stored by then, so that stopping between any two of them is one of
its cases; `Stopping` orders the phases: all databases are open until the job has stopped, and a clean-up
that began without a timeout found nothing working. `InTimeIsServed` needs the second, `JobIsNotCutOff` the
first, `CutOffIsUsable` only `Left`.

### The client

**The dialogs** (`ClientProofs`). Calls of a chain have places: each call's is within the chain
(`Placed`), no two have one (`Unique`), and none is empty (`Linked`). A call starts when the one before it is
answered; by these three no other of its chain is shown then, though chains begin anew while
a call of the old one is shown. `Owned` says that a dialog answers a call of its kind, and `Reaches` that,
as long as nothing was cleared, a call that is shown is the one its dialog will answer. `AnsweredIsClosed` is
a property of steps; besides the invariant it needs that an open dialog is displayed (`Displayed`).

**The page** (`ClientProofs`). A step of the client is a step of each of its parts or leaves it
alone (the refinement `SafeSpec => DialogSpec`, and the same of the page, of the tracking and of the
promotion), so each part has its own invariant:

- `CardInv`: the flag `_submittingCard` is set while a card is under way, one card at most is, the button
  shows that and has no timer that could end it, and no timer is ever left without a handle;
- `ToldInv`: the page tells of no change the server did not make; each answer to a
  request for the account has what the user had been told of when it was asked for, the newest one's, under way or
  shown, all there is;
- `OneChain`: as long as no event brought an email, the calls of `track` have positions `pos`; each is linked to
  the one before, `ready` is the last, and those before one that was sent are done. The positions are
  under a quantifier, since the code keeps only the links;
- the countdown: an interval runs only while its promotion is shown, and there is one.

**The microtasks** (`LibraryProofs`). The place of a handle is its distance to the handle of the first
place, which moves when a flush ends. The invariant says that places of active debouncers hold their
callbacks and the callbacks in the queue are those of active debouncers, and that a flush has
not gone past the end of what it found; one lemma for each of: cancelling, adding, running a callback,
ending a flush.

**Parts of the runtime** (`ElementProofs`).

- *Callbacks after a render.* As long as `scheduled` is set a frame is asked for (`FrameIsAsked`); the rest is
  about the stack of loops, each of which still has to run what was in its queue. That a callback is in one place
  only is part of the types: a loop takes what it runs out of all the places (`AskedOnce`), and asking for what
  waits already changes nothing.
- *Conditional parts.* `InstanceKeeps`: an instance that is hidden shows nothing and keeps its value, another
  shows it, and that value is the host's unless the instance is `invalid`; `IsRendered`: when no render waits,
  it is there and hidden as the condition says. The host may change at any time in between.
- *Repeated parts.* `Selected` gives every item its rank among those the filter passes; the ranks are
  an order without gaps (`PlaceIsOrdered` and the lemmas about it), so all are selected once (`SelectedInOrder`).
  `IndicesLink`: instances and the indices they were rendered with lead to each other, whatever was changed
  since; `ItemsAgree`: unless a full render waits, or was replaced by a chunk, each has the item of its index; `LimitedAreShown`:
  the instances are those within the limit, and if it may cut something off another chunk is to come, as soon as the
  listeners were told; `ReplacedComes`: a render that was replaced leaves the chunk, or its frame, behind. For
  `AllShown` nothing is left to come, so nothing was replaced.
- *Gestures.* `TapComesLast`, `TrackIsTold` and `DownAndUp` order what one pointer causes: what was told of a
  track agrees with the recognizer's state and prevents the tap, unless another button reset it, after which nothing of
  the pointer is followed; a tap is told after the pointer is gone, and mouse events that a touch emulates find the mouse
  ignored.
- *Attributes.* `Reading` says what a text is read as, without the identity of a parsed object, and
  `WrittenAsRead` that what is written of a value of the property's type (`OfType`) reads as that value. The
  invariant `Reflects`: the attribute reads as the property or a flush, at any depth, is still to reflect it, and it
  writes what the property is by then. `SerializesInTurn`: the element is told of its own writing while
  `serializing` is set, and nobody finds the flag set who sets the attribute himself; for that, `Interrupted`
  says at which places of a flush others can begin within it.
- *Durations.* What a duration shows is `Parted`: whole years and months, the days that the months leave, the hours; one
  whose parts have two signs is first told in hours (`BubbleOfMixed`). `MonthsOfDays` bounds what is left of the days in
  any number of months, so parts that are shown are shown again (`PartsStay`) and a duration below zero mirrors one
  above (`PartedAre`). Longer lengths: the months of more days are no fewer (`WholeGrows`), and what is told is the
  first unit not too small (`Told`), because fewer than 26 days, rounded as the code rounds them, are never 2 months.

**Templates** (`BindingProofs`). `InTemplate` says where the parser is: the counted places are those of the cursor,
in the template and in the element it is in, because what is removed, joined and wrapped is at the cursor or
beyond it (`KeepsBehind`, which each action is shown to satisfy). `Leads(dom, cursor, path, id)` - the path ends at
the node `id`, and that node is behind the cursor - is therefore kept by whatever the parser does next, and
`NotesLead` says it of every noted place. The parser never goes back; a node is noted only when it is passed, the
element after its nodes, and that is what makes the places those of the template as it is in the end.

**Copies of templates** (`BindingProofs`). `LinksAgree`: `next` and `previous` lead along the sequence of copies in
the document, of both neighbours, and lead nowhere from copies that are not there; so unlinking one joins its
neighbours. `OwnIsFirst`: the element's own copy is in the first place and stays there, and no copy is there
twice; it is what makes the list begin where `first` says. `LastIsLast`: `last` is the end of it, unless nothing was ever
stamped but the own copy.

**The flow of values** (`BindingProofs`). A step is told by the frame at the top of the stack: what it goes on as, and
the call that is made (`Turn`; the lemma `Steps` brings each action into this form). The invariant
has four parts, each resting on those before it:

- `StackInv`: calls are made to enabled elements only (`Callable`), only the host goes through a list of clients
  (`Defined`), an element is readied before anything else is called on it (`ReadyFirst`), and a child's flush has
  no call above it until its observer was called (`OwnTurn`);
- `LifeInv`: who is not ready is on the way (`Lives`): it is in the host's list or in a frame's, or a frame
  readies it;
- `PendInv`: whoever is pending is about to be flushed: by the call at the top, by the frame that
  readies it, or by the host whose list it is in (`Pends`); a child has nothing pending when its observer is
  called (`Taken`);
- `ValueInv`: a value that differs from the host's, from what was told or from what was computed is pending, to be
  notified, or in a frame that will tell it (`Differ`, `WillBeTold`, `WillCompute`).

When the stack is empty nobody is on the way, so nothing is pending and nothing differs. `Differ` is the reason that
`Agreement` holds only of elements bound both ways: of another, nothing brings its own value back.

**Splices** (`SpliceProofs`). What the code calculates in loops is a recursive function here: the distances, the
ways back through them, the scan of the operations, and the arrays while splices are made one after another. The library's
induction theorems take an operator as a parameter, which the provers cannot instantiate; but the well-foundedness of
the numbers (`NatLessThanWellFounded`) is a statement about sets, from which `SetInduction` and its
kinds up to a bound and over the cells of a table follow. With them, each recursion is shown to define a function that does
what it says in every step (`DistanceSteps`, `ScanAppend`, `ArraysAppend`, ...), and then:

- `DistanceIsShortest`: a cell is the number of elements that a longest common part leaves of both prefixes.
  A common part is two increasing lists of places (`CommonTo`); the step shows how one of longer prefixes gives
  one of shorter prefixes (`LessIsCommon`) and the other way round (`MoreIsCommon`).
- `WaysAreScanned`: `Scanning` says of the scan of a way up to a cell that its splices, the open one included,
  lead from the old array to `Mixed`: what is current up to the cell, and old after it. `Leads` says so of
  a list of splices with as many edits as the cell's distance; it is kept by an element left (`LeadsMove`) and by the splice
  between two places (`LeadsOn`).
- `EndsAreShared`, `CommonMiddle`, `CommonWhole`: what is shared at the start and at the end does not overlap, and
  leaving it out changes neither what leads where nor how much the arrays have in common.

**Nodes** (`SpliceProofs`). `Told`, a part of `Leads`: what splices add and what they leave of an array without duplicates
are together the elements that are current (`CalculatedTell`). The nodes that are there have no duplicates, whatever
a slot is assigned (`FlattenedOnce`), so each report adds up. For `ChangesReported` the invariant says that a slot is listened to
as soon as the records of the children are processed (`SlotIsListened`), that what is scheduled comes or something was missed
(`ScheduledIsDone`), and that a difference without a record or a flush to come has a slotchange to come
(`DifferenceIsTold`).

**The array selector** (`SpliceProofs`). `SelectorInv`: the map has no item twice; if several may be
selected, none is gone (`AllThere`) and each points at its item in the array (`Points`); what the page is given and the links are
functions of the map. While splices are applied, an entry that is not gone points into the array as it is after the splices
so far (`SplicedPoints`), and after all of them that is the array there is (`CalculatedAreExact`). Links are made before
those that are gone are taken out; they count only the others, so they lead to the places there are then (`Remaining`).

**Paths** (`BindingProofs`). Because no end of a link lies below another, a path goes on from one end only and in one way
(`OneWayOn`), and what follows along the links goes on alike. `Telling` says of a call that is under way: all paths, told
or waiting, go on alike and have the value; no more calls wait than there are links to paths that are
told, and the first (`Reached`), since each path is told once and then calls along its links; and what is linked with a
path that is told is told or waits. When nothing waits, the ends that are told are closed under the links,
so they are all that name the same data (`Same`). Of arrays, `ArrayInv`: as long as no splice started outside,
the record of each change is a splice within the array (`SpliceIsFollowed`).

**The library as it is run** (`LibraryProofs`). `part` does not change, and while it names a part every step is
one of the part or leaves its variables alone (`PartStays`, `PartMoves`); so each invariant `I` above is lifted to
`part = ... => I`, and their conjunction is the run's property. Dates, durations and countdown texts have types of their own
(`DatesTyped`): what is split off a time is a number of one of the units (`SplitIsNumbers`).

### Only model-checked

- Liveness: `EveryRequestEnds`, `StopsInTheEnd` and the four properties of `client_live`. Liveness under fairness
  and ENABLED are out of the reach of the prover.
- `DatesAreRight`, which is about functions of numbers with divisions by many constants; of `DurationsAreRight` the
  countdown's part (`PartsAreProper` is proved), and `ClassesAreMade` (but for its conjunct `AttributeReads`, which is
  proved).
- `StepsInOrder` is a conjunction over all the parts. Of its conjuncts `TrackInOrder`, `LinkedTold`,
  `ReflectionIsSilent` and `LongerIsMore` are proved.

## 7. What is not modelled

Of the server:

- Pages, redirects, cookies, JSON and the texts of errors: layout. The handlers
  that only show a page are `Reject` (nothing changes after `Authenticate` has) or `Read`.
- `meta` data of clients, names and versions of devices, the mails about deprecated
  versions: displayed, never compared.
- That an activation code or a token can be guessed. A client follows a link or enters a code
  it was handed (`links`), possibly another client's; tokens are used by whom they were issued
  for. Which of several links a client uses, and how often, is free.
- `Config.Test`, which hands out the activation link in the response.
- Wrong skeleton keys and addresses: refused, as without an account. A right one is
  `AuthSkeleton`.
- Data that does not deserialise: a storage error. A storage call is an atomic step that may fail with
  no effect; the in-memory storage and its `SliceIterator`, which begins with the second element
  (`storage.go:223`), are only used by the tests.
- The rate limiter: a library; its answer is a free choice, and it is asked after the request was
  stored (`handler.go:150`). That emails are counted by the limiter of the ips
  (`ratelimit.go:69`) shows in numbers only.
- The body of a request: that `versionFromRequest` uses up a form body before `WriteStore`
  reads it (`server.go:31`).
- The command line: it runs alone, on the storages of a stopped server. Deleting an account with it
  leaves the data (`cli.go:178`), so that `NoOrphanStore` is about the server's own deletions.
- Templates, logging, senders, configuration, the whitelist: text, output and constants.

Of the client:

- The billing and invoice dialogs, pages without state, formatting and texts. That `_showInvoices`
  leaves its button loading when its request fails (20608) is one missing branch.
- Payment (`stripe.js`), subscriptions and the tracking service: not in the repository. They do what they
  are asked or not, and answer or not.
- Of the runtime: styling and shady DOM, `dom-bind`, `dom-module`, listeners declared on elements, the
  legacy API. A flush that finds its observer of nodes disconnected leaves `_scheduled` set (14246), and
  `ChangesReported` leaves out what was missed that way; nothing in the client disconnects one.
- Of repeated parts: what an instance writes back under the index it was rendered with (17302) is an `ItemChanges`;
  only writes under an index beyond the end of an array that shrank meanwhile are left out (no template of the client binds
  an item both ways). A filter, an order or the stamping of an instance that asks for another render while the first is
  at it is taken as if a listener of `dom-change` had: it is one step up to the telling, and all
  that debounces comes before the asking for a chunk.
- Of gestures: a mouse and a finger at once. Of arrays: a start that is no whole number is rounded by the code, and so is one
  of those there are.
- `clearDialogs` (19933) is in `Dialogs`, but nothing in the client calls it.
- Of the dates: the texts of locales, `defineLocale`, time zones.
- The polyfills of `webcomponents-lite.js`, minified, which browsers with web components do not run.

## 8. What could follow

1. Two emails: a run with a client of one account that activates a link of another. (The theorems are
   about any number.)
2. The middleware with the request's body as state.

## 9. How to run it

```
tlc -workers 4 -config acc_device.cfg MCAccountService.tla
tlc -workers 4 -config lock.cfg MCAccountLock.tla
tlc -workers 4 -config server_stop.cfg ServerStop.tla
tlc -workers 4 -config client.cfg MCClient.tla
tlc -workers 4 -config library.cfg MCLibrary.tla
tlapm AccountTokenProofs.tla
```

The runs of section 5 end with a violated property, the others without error, in a few minutes
at most. The specifications use the standard modules and, for the client, the community modules
`SequencesExt`, `FiniteSetsExt`, `Functions` and `Relation`; the proofs also `TLAPS` and the theorems on
finite sets, sequences and well-founded relations. `LibraryProofs` takes a few minutes, for the context it works in is large.
