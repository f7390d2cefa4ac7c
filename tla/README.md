# midipascher.fr, verified

TLA+ models of midipascher.fr (`src/midipascher-webapp`): of the server, and of
the script library that the repository keeps and serves for its pages. With them
the TLC runs that check them on small instances, and theorems that the TLA+ proof
system checks for every value of the constants. Every definition is translated
from the source; `PROJECT.json` gives the lines of each.

There are two halves. The **server** is the application's own code and the heart
of the project: modules of rows, transactions, listeners and the search index,
with proofs. The **page runtime** is `assets/js/jquery-1.7.js`, third-party code
that the repository carries whole, in unminified source, and that
`front-end.xml:24` serves (the one page that has scripts, `favorite_searches.html`,
loads the same version from a public address). It is nearly all of the JavaScript
here, it is asynchronous throughout, and it calls functions of a page in the
middle of its own; the modules say what such functions can do to it.

Java paths below are relative to `src/midipascher-webapp/src/main/java/fr/midipascher`,
line numbers without a file are those of `jquery-1.7.js`.

## 1. The system

midipascher.fr is a Spring web application: restaurant managers register
restaurants, administrators manage reference data, visitors search. JAX-RS
resources call one transactional facade; Hibernate stores entities in a
relational database (H2 for development and acceptance tests, MySQL in
production); Hibernate event listeners copy each restaurant to an Elasticsearch
index; searches read that index only. Addresses are located by Google's
geocoding service.

    resources (JAX-RS) --> FacadeImpl (@Transactional) --> BaseDaoImpl --> Hibernate --> database
         ^                      |                                              |
         |                      |                              pre-listeners: validate, geocode
    ExceptionMapper             |                              post-listeners: index, remove document
         ^                      v                                              v
         +---------- SearchEngineImpl (queries, sorts, pages) --------> search index
                                                                               ^
    ElasticSearchClientFactoryBean (start: drop, create and map) --------------+

One servlet thread serves one request; threads share the database, the index and
nothing else. There is no queue, scheduler or background job.

In a page one thread runs everything, one function at a time:

    browser: parser, events, timeouts, answers of requests
        v
    jQuery: ready | event.dispatch | fx.tick | ajax done      (each runs to its end)
        v                                  ^
    Callbacks.fire --> functions of the page, which call jQuery again, or throw
        ^
    Deferred (done, fail, progress), used by ready, queues and requests
    private data of elements: events, queues, marks, what hide and toggle keep

What can go wrong in it is not two threads but two calls of which one runs inside
the other, and what a timeout finds that was set for another state.

### Components

| component | state | operations | calls |
|---|---|---|---|
| restaurant catalogue: `FacadeImpl`, `Account`, `Restaurant`, post-listeners, `SearchEngineImpl.index/removeFromIndex` | rows of `restaurant`, `accounts_restaurants`, `restaurant_food_specialty`; documents of the index | create, update and delete a restaurant; delete an account; delete a food specialty | database, index (inside the transaction) |
| account directory: `FacadeImpl`, `UserDetailsServiceImpl` | rows of `account`; the principal of a thread | create, update, lock, delete; load for authentication | database |
| food specialties: `FacadeImpl` | rows of `food_specialty` | create, update, inactivate, delete | database |
| authorities: `FacadeImpl` | rows of `authority` | create, inactivate; find RMGR | database |
| geocoding: `Geocoder`, pre-listeners, sort converter | the address object of a request | latLong with retries | geocoding service |
| start of the server: `ElasticSearchClientFactoryBean`, `DropCreateIndicesCommand` | progress of `execute`; indices and mappings of the cluster | drop, create, put mapping | cluster |
| search requests: `SearchRestaurantsResource`, `SearchEngineImpl`, converters | one request | build the query, sort, search, answer | index, geocoding |
| exception mapping: `ExceptionConverter`, `GenericExceptionMapper` | none | status and message of an exception | message bundles |
| validation: `ValidatorImpl`, `PreModifyValidator` | none | refuse a payload or an entity | |
| resources, controllers, views, security and build configuration | none | pass on | facade |
| callback lists and deferreds (967-1411) | list, stack, memory, indices of a fire; state of a deferred | add, remove, fire, disable, lock, empty; then, pipe, when | functions of the page |
| document ready (418-519, 878-940) | isReady, readyWait, timers, listeners of the browser | ready, holdReady, bindReady | callback lists |
| events (2890-3830) | handlers by element and type, delegateCount, listeners of the browser | on, off, one, trigger, dispatch | functions of the page |
| queues and effects (2016-2190, 8285-8945) | queues, running items, timers, marks, hooks; olddisplay, fxshow, toggle | animate, delay, stop, queue, promise, show, hide, toggle, tick | deferreds, functions of the page |
| requests and data types (6889-8240) | active, state and transport of each request, names in `window`, lists of prefilters and transports | ajax, abort, done, jsonp, the conversion chain | deferreds, events |
| data of elements (1679-2014, 6068-6152) | `jQuery.cache`, expandos, attributes | data, removeData, clone, cleanData | |
| insertion of nodes (5713-6500) | the document, `jQuery.fragments` | append and the others, html, replaceWith, remove, domManip, clean, evalScript | scripts of the page |
| selectors, attributes, styles, support | none | answer questions about the document | |

### What is hard here

- **Two stores, one transaction.** A listener writes the index while the
  transaction that wrote the row is open. The row can be rolled back, the
  document cannot. What keeps the two together is only that a row stays locked
  from its statement to the end of its transaction.
- **Read early, write late.** A method body reads committed rows; Hibernate sends
  the statements at the flush. No entity has a `@Version`, an UPDATE writes every
  column and join rows are written as differences to what was loaded. What was
  committed between the read and the write can be overwritten, contradicted, or
  refused by a constraint.
- **Two lock orders.** At a flush Hibernate updates rows, then join rows, then
  deletes rows. An update and a deletion of one restaurant lock the two in
  opposite orders.
- **Checks that look at something else.** Whether an email or a code is free is
  asked with `findByExample`: LIKE `%x%`, without case, and only of rows that are
  unlocked or active. It finds too much and too little; the unique constraint is
  the real guard.
- **A retry loop inside a transaction**, around a service that may answer
  nothing, too much, or throw.
- **A start that is several requests to a cluster which survives it.** Each may
  be refused, be carried out after the server gave up, or be lost.
- **Calls inside calls.** A callback adds and removes callbacks of the list that is
  calling it, or settles the deferred; a handler unbinds, triggers and stops; a
  complete function stops animations while a tick goes through the timers; a
  script inserts the next script; a handler of ajaxSend aborts its request.
- **What is kept beside what it counts or describes.** delegateCount beside the
  handlers, marks and hooks beside timers, `active` beside the requests, the
  display and size kept by an animation that is stopped and picked up again, one
  cache entry for public and private data.
- **Timeouts that come late**: of a request that has its answer, of a promise whose
  element is busy again, of ready asking for a body, of a delay that was stopped.

### What makes each part correct

| component | properties |
|---|---|
| catalogue | the index has the committed rows wherever nobody writes and nothing failed; a deleted restaurant is never found again; a transaction owns the document of a row it wrote; every commit publishes what it stored; an owner is lost only with the account or the restaurant; every request ends |
| accounts, specialties, authorities | one row per email and code although the check can be overtaken; a hidden row becomes visible again only by an update that had begun before |
| geocoding | bounded calls, no early end, the stored coordinates are those of the stored address or those that came with it |
| start | a serving server's indices have exactly their mappings and only its own documents, whatever earlier starts left behind |
| search | every hit satisfies the criteria; a missing one has a full page before it |
| callback lists and deferreds | each callback of a fire once, in order, none after disable; a deferred settles once and all its callbacks get that value; when waits for all |
| document ready | not before the document and its body, not while it is held, and in the end |
| events | the browser calls jQuery exactly where there are handlers; delegates before direct handlers; one runs once; stopping stops what is above |
| queues and effects | one at a time, complete once, queues drain, promises resolve, at rest means nothing runs; display and size come back; what was asked last is what one sees |
| requests and data types | the outcome, its events and the count agree; no timeout outlives its request; every jsonp request gets its own answer; each converter gets its type |
| data and nodes | one entry for each element and one element for each entry; data is kept as long as its node and no longer; cached fragments stay as they were; scripts run once per insertion |

## 2. The modules

| module | what it models |
|---|---|
| `RestaurantCatalog` | the catalogue, statement by statement, with locks, rollbacks and restarts |
| `ListingLifecycle` | abstract: the life of a restaurant as stored and as listed; `RestaurantCatalog` implements it |
| `UniqueTable` | a table with an identity and a unique column under read-then-write sessions |
| `AccountDirectory`, `FoodSpecialties`, `Authorities` | the requests of each table, on `UniqueTable` |
| `Tables` | composes the last three: a behaviour is one of one table |
| `Geocoding` | `latLong` and its three callers |
| `IndexBootstrap` | the start of the server and the cluster |
| `SearchQuery` | pure: from criteria to the clauses of a query and what they match |
| `ExceptionMapping` | pure: from an exception to a status |
| `SearchRequests` | composes `IndexBootstrap`, `SearchQuery` and the outcomes of `Geocoding`: one search on an index that starts prepare and listeners write |
| `CallbackLists` | `jQuery.Callbacks`: any number of lists with any flags, on the stack of the page's calls |
| `PublicCallbacks` | a page that uses one list directly |
| `DeferredObjects` | deferreds, pipe and when, over the lists of `CallbackLists` |
| `DocumentReady` | ready, holds and the browser's phases, in three kinds of browser |
| `EventDispatch` | bind, unbind, trigger and dispatch with delegation, namespaces, mapped types |
| `Effects` | queues, timers, delays, marks, stop, promises |
| `ElementDisplay` | show, hide and toggle, at once and animated |
| `AjaxRequest` | requests, from ajax to done, with both transports and jsonp |
| `DataTypes` | prefilters, transports and the chain of data types of one request |
| `DataStore` | the data of elements and their clones |
| `Manipulation` | insertion and removal of nodes, with scripts that do the same |
| `MC*` | instances for TLC; `MCRuntime` and `MCPage` join modules that share only the thread |
| `*Proofs` | invariants, lemmas and theorems |

### Correspondence with the code

**RestaurantCatalog.** One element of `Tx` is a thread with its transaction.
`CreateRestaurant`, `UpdateRestaurant`, `DeleteRestaurant`, `DeleteAccount` and
`DeleteFoodSpecialty` are the method bodies of `FacadeImpl`: they read the
committed state, check, and leave a `job`, which is what the Hibernate session
holds: the rows it works on, the columns, and the specialties it was loaded with
and ends with. `PersistInsert`, `FlushUpdate`, `FlushCollections`, `FlushDelete`
and `FlushDeleteRoot` are the statements in the order of Hibernate's action
queue; the entity statements run their listener in the same step, because the
listener runs on the thread that holds the row's lock and nobody can see the row
in between, and `Index`/`RemoveFromIndex` wait for the index to answer. Fetching a
body's rows is one step: all that a body reads of the catalogue comes from at most
one account's collection. What the reads of one body could see of two commits is
left out. `Commit` publishes the transaction's rows; `Rollback` drops them and leaves
the index as it is. A transaction ends by `Commit`, by a row that is gone
(`StaleRow`), by a foreign or primary key (`ConstraintViolation`), by a lock wait
that the database ends (`LockWaitEnds`), by anything else (`Fail`), or with the
process (`Restart`, which also recreates the index). The lock operators
(`RowBusy`, `JoinsBusy`, `SpecialtyBusy`, ...) are row locks as both databases
keep them; they are external. `unsynced` is a history variable: the rows whose
document the end of a failed transaction, or a restart, may have left behind.

**UniqueTable.** `Stage` is the read of a method body together with the write it
leaves in the session; `Insert` and `Modify` are the statement, which waits for
the row and for entries of the unique index that open transactions hold;
`Refused` is the constraint or the missing row. `FindByExample` is
`BaseDaoImpl.findByExample`; the constant `Contains` says which text contains
which, the only thing about texts that the code tells apart. The flag `open` is
"not locked" or "active". In `AccountDirectory`, `user` is the thread's principal
as `loadUserByUsername` converted it, with the email it had then; `Owns` is
`readAccount` with `checkOwnership`.

**Geocoding.** One request at a time, because nothing is shared. `FirstCall`
is the call before the loop, whose answer the code drops; `Trial` is one turn of
the loop; `PreInsertDone`, `PreUpdateDone` and `SortDone` are the three callers
once `latLong` returns or throws. `createRestaurant` passes through both
listeners: the coordinates that the first sets come after the inserted columns
were copied, and make the entity dirty for the second.

**IndexBootstrap.** `Start` is `createInstance` and the choice of the strategy,
`CheckIndex`, `DropIndex`, `CreateIndex` and `PutMapping` the requests of
`DropCreateIndicesCommand`, `MasterRuns` the cluster carrying out its oldest
request and, if the server still waits for it, the server going on.
`TimedOut`, `MasterLost` and `Stop` are the ways to fail. `IndexDocument` and
`RemoveDocument` are the listeners of a serving server.

**SearchRequests.** `Search` builds the query (`SearchQuery`), `SortByDates`,
`SortByDistance` and `GeocodeFails` are what the sort converter does with
`Geocoding`'s outcomes, `FindRestaurants` and `SearchFails` the search itself.
`Matches` is what the engine makes of the clauses; a term on a field without its
mapping finds only values that analysis leaves as they are. `Satisfies` is
written from the meaning of the criteria, not from the query.

**CallbackLists and DeferredObjects.** `cb` has, for each list, what the closure of
`jQuery.Callbacks` holds (1026-1039): `list`, `stack`, `memory`, `firing` and the
three indices. `fires` is the call stack: a fire that calls a callback waits
below the frame of that callback, and page code runs on top. `Add`, `Removed`,
`Disabled`, `Locked`, `FireWith` are the methods, `Call`, `Stepped`, `EndFire` the
loop, one call at a time. A deferred is its three lists; what jQuery itself puts
into them (`SetState`, `Disable`, `Lock`, and what pipe and when add) are callbacks
that are called like the page's.

**DocumentReady.** `browser` is w3c, ie or ie in a frame. The document goes from
loading to interactive to complete, its body appears somewhere, and the browser
queues the events that the code listens to; `Ready` is `jQuery.ready`, called by
them, by `doScrollCheck`, by its own timeout, and by the page's `holdReady`.

**EventDispatch.** An event is a frame of `stack` with the elements that are still on
its `path`. `Handle` builds the queue of handlers of the next element (`HandlerQueue`,
as `dispatch` does), and each handler is a step in which page code may bind, unbind,
trigger, stop, or throw (`RunHandler`, `Return`, `HandlerThrows`); `QueueLeft` is what is
left of the queue then. focus and blur do not bubble: jQuery delegates them as focusin and
focusout, for each of which the document captures the browser's event while somebody
wants it (`attaches`, `Capture`). `Staying` is the loop of `remove` over one list. `Sends` says
which events the browser sends of itself when a method of an element is called: of
these, `triggered` holds back the handlers of the type that jQuery is acting on.

**Effects and ElementDisplay.** `Effects` has every way in which items of a queue
follow each other: `next`, timers of `fx.tick`, timeouts of delays, hooks, marks,
and the deferral of promises. It leaves out what an animation looks like, which is
`ElementDisplay`: the inline display, `olddisplay`, and the `fxshow` and `toggle`
data, with a queue in which nothing but animations waits.

**AjaxRequest and DataTypes.** Each step of `ajax` and of `done` that may call page
code is an action, in the order of the source; an answer, a timeout and an abort
from any of them can come first. `window`, `previous` and `container` are the
names that jsonp requests put into `window`. `DataTypes` is one request's search
for prefilters and a transport and the conversion of its answer.

**DataStore and Manipulation.** `cache` and `expando` are as in the code, entries
with public and private part; names are members of a set on which `Camel`,
`Dashed` and `Base` are given. `Camel` need not come to rest: "a--b" becomes "a-B", which
becomes "aB" (624-626). `Stored` is what `jQuery.data` finds by a name, with its own branch for
"events" (1780-1782); `asIs` marks an element of which a call stored or removed keys that are
not the camelCase of the call's names, or that camelCase would change again. Nodes are numbers with a sequence of children;
`Goto` drops nodes that nothing leads to any more, as the browser does, so that data
of such nodes shows. `frames` has the insertions whose scripts still run.

## 3. The runs

| run | instance | distinct states | shows |
|---|---|---|---|
| `catalog` | 3 threads, 2 accounts, 2 restaurants, 1 specialty, 2 contents | 1,398,895 | index and rows agree; deleted stays deleted; documents have one writer; owners are kept; the catalogue implements `ListingLifecycle` |
| `catalog_liveness` | 2 threads, 1 account, 1 restaurant, 2 specialties, 2 contents | 365,592 | every request ends; every commit publishes |
| `tables` | each of the three tables: 2 threads, 3 ids, 2 keys, one inside the other | 561,607 | one row per key; locks and inactivations are lost only to overlapping updates, those of authorities never |
| `geocoding` | 2 addresses, 10 trials as in the code | 6,547 | calls, retries and stored coordinates |
| `search` | 2 index folders with 3 mapping files, 3 restaurants, 6 criteria, page of 2, backlog of 2 | 6,969 | a serving index is mapped and fresh; answers are sound and pages full |
| `runtime` | nine parts of the page runtime, one at a time, see below | 824,690 | what functions of a page can do to jQuery from inside its functions |
| `page` | 2 ready functions, 2 holds; 2 elements; 2 requests | 132,746 | what a page waits for comes, under fairness; ready is neither early nor held |
| `catalog_orphan`, `accounts_lock`, `accounts_login`, `authorities_rmgr`, `ajax_active` | the smallest instance with the disagreement | | see section 6 |

**Bounds.** Every conflict in the catalogue is between two transactions on one
restaurant or one join row; the third thread lets a conflict be followed or
overtaken by another request. Two restaurants let a deletion of an account be
half done; two contents tell an old document from a new one; two specialties (with
`catalog_liveness`) let join rows be added, removed and kept at once, and make
lock cycles between an update and a deletion, or a specialty's deletion, possible.
Identity columns are bounded: a request for which no id is left is not made
(`IdsLeft`). Ids are never handed out twice and accounts and specialties of the
catalogue are not created again, so an instance can use up everything and stop:
the runs of the tables and of the catalogue say `CHECK_DEADLOCK FALSE`. `geocoding`
and `search` never stop, and deadlock is checked there. In
`IndexBootstrap` a server starts only while the master holds at most `MaxBacklog`
requests: two leave a drop and a creation of an earlier start to be carried out
in the middle of the next one. The page of two stands for Elasticsearch's ten.
Symmetry is used only in runs without liveness, over values that no definition
tells apart.

*Page runtime.* `runtime` composes nine modules that share nothing but the thread;
`scene` picks the one a behaviour is of, so the states add up and do not multiply.
Pages are small scripts: a script makes at most the given number of calls, each
from wherever page code runs, and between them are all the kinds of call. Two
deferreds and one that joins them, three calls, are the least with which a callback
of one settles or extends another; five calls on a list with two callbacks make it
fire, change and fire again inside a fire. Three calls on the data of an element and its clone, with six
names (a dash and its camelCase, one that `camelCase` changes twice, events, and one with a
namespace) and up to three of them in one removal, store, shadow and miss each other. `CamelBehind`
is `Camel` there, as no name begins with -ms-. Two elements and the document, three
calls, five types, of which focus and blur are bound directly and delegated, give a handler on the way of an event bound, unbound and triggered by
another. Two requests are enough to cross, three to five calls on effects to stop
what was queued behind something that runs, four to show, hide and restyle an
element. Two, three or four insertions make the fragment of a string first
unknown, then seen, then kept, then used. The runs say `CHECK_DEADLOCK FALSE`
because a page that has made all its calls stops.

**Fairness.** `FairSpec` adds weak fairness of each thread's statements: a
servlet thread that can send its next statement sends it, the call to the index
inside it returns (`actionGet` has no timeout in this code, so a cluster that
never answers is outside this assumption), and a database ends a lock wait, by its deadlock detection
or its lock timeout. It does not assume that requests come, that anything
succeeds, or that a failure happens. `LockWaitEnds` is enabled whenever a
statement waits, so a wait that has no end of its own ends by it; that is what
both databases do, and the model shows that nothing else can hold a request. So
`RequestsEnd` says nothing of the orders in which requests take locks: a cycle between
an update and a deletion costs one of them a rollback, and no property forbids it.

`PageFairness` of `MCPage` is weak fairness of what the browser does by itself and
of nothing that a page does: it goes on parsing and fires its events, runs due
timeouts and the interval of the effects, and reports an end of every request of
an XMLHttpRequest; and a function that has been called returns (`EffectsRun`, `Runs`, `Calls`). It is
not assumed that a script answers: `AllComplete` says nothing of a script request
without a timeout. `AllRun` excludes a page that never releases what it holds.
`QueuesDrain` and `PromisesResolve` exclude the cases listed in section 6, which
the history variables `loose`, `robbed` and `spoiled` mark where they begin.

**Mutants.** For every property of every passing run one definition is replaced
by a plausible mistake (a listener on the wrong event, a document indexed only
once, no orphan removal, a whole payload copied in an update, one trial too many,
an acknowledgement that is not looked at, `should` for `must`; an index not moved
when a callback is removed, a timer not cleared, an expando copied with a clone, a
cached fragment used in place), and the run then
finds the property violated. The mutated forms are the operators marked "Mutant"
next to the originals; the specifications do not use them.

## 4. The proofs

All theorems are `Spec => ...` for arbitrary constants under the assumptions
`NoValuesAssumption`, `TableAssumption`, `DirectoryAssumption`,
`PlacesAssumption`, `BootstrapAssumption`,
`SearchAssumption`, `AjaxAssumption`, `TypesAssumption`, `DataAssumption`,
`DisplayAssumption`, `EventsAssumption`, `EffectsAssumption`, `PublicAssumption` and `DeferredAssumption` (the flags with which `jQuery.Deferred` creates its lists): that "no value" is not a value, that a text contains itself, that the server's own index is among the folders
and its mapping among the files, that ids are finitely many and ordered, that
constants have their types. TLC evaluates them in every run.

**RestaurantCatalogProofs**: `TypeCorrect`, `IndexMirrors`, `DeletedUnlisted`,
`WriterOwns`, `CommitsPublish`, `OwnersKept`, `Refinement`. None of the
properties is inductive: that a document equals its row after a commit depends on
what the listener wrote when the statement was sent, and on nobody having
written it since. `IInv` is `TypeOK`, the three properties of the index, and two
parts that make them inductive. `SessionShape` says what a session holds before each
statement: an insert or update works on one row, a creation has written exactly
the rows of its job, a deletion that reaches its last statements has written all
of them. `RowShape` says that a row somebody has written is spent (by a creation) or
live (otherwise), and that only live rows have an owner. `Refinement` proves that
initial states map to initial states of `ListingLifecycle` and each step to a
step or a stutter; the commit of a deletion is the `Withdraw` of all its
restaurants at once.

**TablesProofs** proves once, for every request that stages a write in a
`UniqueTable`, that `TableInv` is kept: `TableTypeOK`; `KeysUnique`; `JobShape` (what
is staged at each `pc`); `StoredUsed` (a stored row's id was handed out);
`SentExclusive` (two transactions that both sent their statement have different rows
and different new keys, and the key is free of committed rows). The last is why the
constraint suffices although the check is overtaken. The three tables are instances:
the steps of `AccountDirectory`, `FoodSpecialties` and `Authorities` are reduced each
to a `Stage` or to a step of the table, and give `UniqueEmails`, `UnlocksOverlap`,
`UniqueFoodSpecialtyCodes`, `UniqueAuthorityCodes`, `ActivationsOverlap`, `StaysInactive`.
For the authorities it adds that no staged update opens a row, which holds because they
are never updated otherwise. Of `Tables`, the specification of the run, it proves
`TablesUnique` and `AuthorityStaysInactiveHolds`, which states the run's
`AuthorityStaysInactive`, from the invariants of the three.

**GeocodingProofs**: `BoundedCalls`, `LateGiveUp`, `CoordinatesStored`, with
`CallInv` (calls made, from the stage and the trials), `TrialInv` (an empty answer
leaves the loop only at the tenth trial) and `CoordsInv` (the address object has
its own place or what came with the payload).

**SearchRequestsProofs**: `TypeCorrect`, `AlwaysMapped`, `AlwaysFresh`, `Sound`,
`Complete`.
`BInv` says what a waiting server knows: the request it waits for is the last one
the master holds (`WaitInv`, `QueueInv`), so by the time it is acknowledged every
request of an earlier start has been carried out or lost; each index that
`execute` has finished is there with exactly its mappings (`LoopInv`); and the
index of the restaurants is empty from its creation until the server serves
(`DocsInv`). This rests on the master carrying out requests in order,
which is what Elasticsearch's master does with its cluster state updates.
`Complete` (that a match which is missing has a full page of others before it) needs
the least of the matches that the page left out: it exists because ids are natural
numbers (`Least`, from the library's theorem that `<` on them is well founded), every
match before it is on the page, and the page has fewer than its size only if nothing is
left out (`PageIsFull`, with the cardinality of finite sets, which is why the
assumption says that the ids are finitely many).

**PageProofs**, of document ready: `TypeCorrect`, `FiredWhenReady`, `HoldsRespected`, for any
number of holds and handlers in each kind of browser. `ReadySafe` alone is not
inductive: that `ready` runs with a body is checked by its own guard, but that the
document has been parsed follows from which events the browser can have queued.
`ReadyInv` adds to `TypeOK` what a queued event, a running timer and a fired list
say about the phase of the document; the
action property `FiresReleased` follows from it and from the count of holds.

**RequestProofs**, of the requests: `AjaxTypeCorrect`, `ActiveCountsAlways`, `OutcomesAgreeAlways`, for
any number of requests and any nesting of their functions. That `jQuery.active` is the
number of counted requests that have not ended is not inductive. The invariant says
which requests a frame can still count or count off (`BegunOnce`, `DoneOnce`), that
`active` is exactly the number of those that are counted and have still to pass the
counter (`CounterExact`; at least that number once a function threw), and that what
has been counted off has run its complete functions or will (`CountedOnes`). The outcomes
rest on a timeout belonging to a request that is sent and not done (`TimersSent`) and, for
jsonp, on whose function each name in `window` is (`OwnNames`). What is sent again after
its end (`reopened`, see `ajax_active`) and names that requests share (`shared`) are left
out by the properties themselves. `AjaxAssumption` says that the jsonp requests are
those to another domain, which have the transport for scripts; one to the page's own
domain, over an XMLHttpRequest, is outside of the model.

**RequestProofs**, of the data types: `TypesServedHolds` and `TypesTypeCorrect`, for any types, options,
registrations and redirections. That every prefilter meant for a request has run exactly
once is only said of the end of the first inspection; before it, inspections are nested as
deep as prefilters redirect. `Inspections` says that each type has at most one inspection on the
stack and that the places run so far are those below it, or all of the type's list when it
is gone (`Run`). `Search` says that the candidates which were tried do not serve, and
how the place in the list counts them over both lists (`Tried`). That the result is of the
type asked for needs `Conversion` (the value is of the type that the chain has come to,
which each way of one or two converters keeps: `RouteFacts`, `PastConverter`), `EndOfChain`
(prefilters and answers leave the last type, unless it is jsonp asked for alone, which
`Alone` keeps in its place until its own prefilter makes it json) and `ScriptFirst` (the
transport for scripts, which has no response to tell the type from, is found for no other
type). `TypesAssumption` says what a page can register and ask for; functions of the page
are told apart from jQuery's own.

**PageProofs**, of the data of elements: `DataTypeCorrect` and `DataStaysApart`, which states the property of the
run, two invariants about entries and readings and the action property that a call for
the page's data leaves jQuery's own alone and the reverse. The invariant: an expando that
an element has was handed out, leads to an entry and is nobody else's (`Keys`); what an
entry may hold (`Entries`); what is known of an element is what its entry tells
(`KnownOnes`). `Kept` is the action property for one step. `DataAssumption` says of names only
that `Camel`, `Dashed` and `Base` lead to names and that events has no dash. It does not say
that `camelCase` of its own result is that result, which is not so: what is known is
found as long as an element holds keys that `camelCase` leaves alone (`Stable`), and the
property speaks of elements of which no call stored or removed others (`asIs`). By the name
events jQuery's own events are found where the page has nothing true there. Names without a character, names
with a space in them and those that every object inherits, as toString, are outside
of the theorem and of the model.

**PageProofs**, of show and hide: `DisplayTyped` and `DisplayComesBack`, which states
`DisplayRestored`, for any elements and displays, any number of values on the way of an
animation and of calls. None of its three parts is inductive. That a shown element looks as
before needs that what was kept is a look of the element and that an element of which
nothing is kept has no inline display but none (`LooksKept`); that the property gets its
value back, that the run, a stopped one's `fxshow` or the property itself has it (`SizeIn`).
That all ends as asked has to be said while animations wait: one runs on what is shown, and
it leads to what was asked with all those behind it (`LeadsTo`, `AskedLast`). As a dequeue
begins one waiting animation after the other until one takes time, `BeganFacts` follows it
by induction along the queue (`Climb`, from the library's theorem that `<` on the natural
numbers is well founded), for both what it makes of the element and what was asked;
`AskedByIs` and `BeganIs` show that these recursive functions are defined. `BegunFacts` is one
of its steps, with each of the cases of `doAnimation`. What the properties leave out
(`touched`, `lost`, `crossed`, see 6) the invariant leaves out, no more. `DisplayAssumption`
says that displays other than none show something and that the animated property has a
value above zero; the displays of a page have inline-block when they have inline.

**PageProofs**, of one list of `jQuery.Callbacks`: `CalledWhileListedHolds`, which states
`CalledWhileListed`, two action properties, for any flags and callbacks and any number of
calls of the page. While a fire runs, calls add to the list, remove from it before and
behind the place of the fire, fire it again, lock and disable it. The invariant `PublicInv`
(`Steady`, `OneFire`) says what the loop relies on (`GoesOn`): its bound is the length of the
list; all that it has called and nobody removed is in the list; all before its place
was called, if it began with the whole list and was not halted; nothing after its place was
called, if the list has no duplicates. As for locks: the value of the fire is the memorized
one, and a locked list has only the value it was locked with. That `remove`, which may
splice several places and moves the loop's index and bound each time, keeps the place of
the fire among the callbacks that stay is `RemovedLeaves`, by induction along its loop
(`RemovedIs`, `PastLeaves`, `PastKeepsPlace`). All this is said of a list that was not
`disturbed` (see 6). `PublicAssumption` says that "no callback", "no value" and the mark of a
halted fire are told apart from callbacks and values.

**RequestProofs**, of the events: `EventsTypeCorrect`, `HandlersAgreeAlways` and `EventsReachOnceAlways`,
for any elements, types and functions and any number of calls, from inside handlers as
deep as they nest. The invariant `EventsInv` has three parts. `Agrees`: the delegates are
the first `delegateCount` of each list, the browser's listeners are those of the lists
that are not empty, and `attaches` counts those of focusin, and of focusout, that are not. It is
kept by binding (`InsertAt` behind the last delegate) and by the loop of `remove`, whose
count goes down with each delegate that goes: `Remains` says for every prefix of a list
what the loop has kept of it. `Ids`: the handlers of a list come from calls that were made, so one that
is bound now is not one that is `spent`; without it a new binding could be said to
have run. `Stacked` is about the events on the stack: what a frame has to go through is
on the way of its target, and once it is stopped nothing of it lies above the place
(`FrameOK`, `Stops`); the browser sends of itself only from inside a default action (`SentFrames`);
`triggered` is the type of the last one that acts, unless a nested one has reset it
(`LastActs`); hence no handler of the same element and type is queued inside it
(`Again`). `RunHandler` keeps `OneIsSpent` because what it removes, the
criteria `SpentBy`, includes the binding that runs (as `SpentAsDie`, the mutant, does not). The lemmas about
sequences defined by recursion (`FlattenSeq` for the queue, the loop of `remove`) are
proved by the least counterexample (`Least`, `Climb`). `EventsAssumption` says that a
path starts with its own element, that the types focus and blur map to are types, that none
is one which jQuery binds in a way of its own (`Special`: ready, beforeunload, mouseenter and
mouseleave), and what calls may name; TLC evaluates it on the instance (`EventsHold`).

`TriggersOnce`, the last part of `EventsReachOnce`, makes two exceptions, and both are
behaviours of the code. jQuery remembers one type: when a default action ends inside one
that goes on, the type is forgotten (`reset`), and while another type's default action goes
on inside it, the type is another one.

**EffectProofs**: `EffectsTypeCorrect` and `EffectsInTurnHolds`, which states the property
of the run, for any elements, durations, numbers of properties and scripts of any length,
from inside callbacks as deep as they nest. None of its three parts is inductive. The
invariant `EffectsInv` has one part that holds whatever the page does and one of the
elements whose queue it took in order. `Sound`: an animation of which complete was called
has nothing left to call (`ItemsOK`), an array in use belongs to one element (`QueuesOK`),
and the stack is what jQuery's own calls can lay on each other (`Above`: on a dequeue lies
what it began, on a stop what the end of an animation calls). `Orderly`: one item at most has
begun, which for an animation means that it has a timer, has properties still to start, or
is in its complete function (`Moving`, `OneBegun`); what goes on when the queue is gone is what a
stop on the stack is about to end (`Unqueued`); a stop looks at timers from the last one on, so
all timers of what it must end lie at or before its place (`StopOK`, `ToCome`), which a
function of the page could spoil only by stopping the same element inside it, which `loose`
records; an array that a dequeue finds empty belongs to an element with nothing begun (`EmptyOnes`);
the hook is that of the delay that runs (`DelayRuns`); and the mark counts what runs beside
the queue, at least until a stop that drops it has passed (`Marked`). `loose` and `spoiled`
only grow, so each step is shown for elements that are still in order after it.

As the functions of jQuery are operators on a state `m` that call each other (`Queued`,
`Dequeue`, `EmptiedQueue`, `Finished`, `Unmarked`), the lemmas are about such a state: what each
returns keeps both parts (`Keeps`), on a stack that keeps its order. Deferrals and promises are
not needed: that an element looks at rest is about its queue and its marks. `EffectsAssumption`
says that scripts name elements and that an animation has at least one property.

**DeferredProofs**: `Inductive`, `SettlesOnceHolds`, `OrderKeptHolds`,
`DeferredsSettleHolds`, for any number of deferreds and of calls of the page, from inside callbacks as deep as they nest. That a
deferred settles once is not inductive, as it settles in three steps: the first callback
of the list that fires sets the state, the second disables the other list, the third
locks the progress list, and until then resolve and reject are both still open. `IInv`
says of a list what one fire needs of it (`CellOK`, `FrameOK`: a list that fires is in one
frame, with its bounds and its value; an outcome that has not fired has its own callbacks
in front); that a fired outcome has disabled the other or is just doing so, on top of the
stack, where no page code can come between (`SettlesOrHas`); and that the callbacks that
were called are the first that were added while exactly the others are due (`Matches`, with
`Due` from the index and the length of the fire, `Live` for lists that an exception left as
firing). For progress lists, what waits in the stack is later than what is notified, in its
order (`Waiting`), and who is due has not had it yet (`Notified`). The lemmas say first what
each call makes of a list and the stack (`Adds`, `FiresOn`, `Steps`, `Calls`, `Restarts`,
`Pops`), so that an action of several calls is followed through the states between them.

`DeferredsSettleHolds` adds what when promises (`JoinsAll`), with a second invariant, `JI`,
that is inductive beside `IInv`. While when has still adds to make, while its arguments
settle in any order and while they are called from each other's callbacks, its count is the
number of arguments whose callback is still to come (`Counts`): it is among the adds
(`script`), or ahead of the index of its list, or its list has been disabled. That it is in
only one of these places is `Once`, without which an argument could count twice; arguments
that have counted are resolved and are not called again (`Passed`). One that fails leaves
the callback that rejects to come until the joined deferred has settled (`Fails`). Most
lemmas say what a call keeps of the callbacks of when in lists it changes (`Keeps`).

Only model-checked: liveness (`RequestsEnd`, `AllRun`, `QueuesDrain`,
`PromisesResolve`, `AllComplete`), which is out of the prover's reach;
`DataFollowsNodes` and `FragmentsServe`, whose module recurs over trees; and the five
runs that find a violation. `RuntimeTypeOK` joins the type invariants of the parts of
the page: those of events, effects, requests, data types, data and display are
theorems each.

## 5. Not modelled

- Bean validation, the values of timestamps, texts of JSON, XML and messages: the
  properties do not depend on them. Where validation can end an open transaction
  it is one of the failures.
- Reads that change nothing (`listFoodSpecialties`, `readRestaurant`, ...), the
  resources that pass a call on, pages, controllers, build.
- Role checks beyond ownership of an account; password encoding.
- The strategy `merge`, which throws in the code.
- Two servers on one cluster: nothing in the repository deploys that.
- Of jQuery: mouseenter and mouseleave, which are bound as mouseover and mouseout; selectors, traversal, attributes, classes, values, styles, offsets,
  serialization and the tests of support, which answer questions in one call and
  keep nothing; easing; the submit and change events of Internet Explorer; rows
  of tables and what old browsers make of HTML; wrap, text, fadeTo.
- `main.js`: no page loads it, and it lacks its last closing parenthesis.
- That parts of the runtime share one thread's stack across modules (an animation's
  complete function that begins a request, say) is left out: each part allows any
  call that concerns it wherever page code runs, which is what the others could do.

## 6. Where code and expectations differ

Each of these is a run that finds the violation.

- `catalog_orphan`: deleting an account while one of its restaurants is being
  created leaves the restaurant without an owner and still found by searches.
  `FacadeImplTestIT.java:328` (ignored) expects that nothing stays.
- `accounts_lock`: an update that read the account before it was locked unlocks
  it (`lock_account.story:12-15`).
- `accounts_login`: an account cannot log in once another email contains its own
  (`authorization.story:27`).
- `authorities_rmgr`: inactivating RMGR, or creating a code that contains RMGR,
  makes the state check of `createAccount` fail for good (`FacadeImpl.java:214-217`).
- `ajax_active`: a request that is aborted by a handler of ajaxSend, or of ajaxStart, is
  set back to "sending" (7635) and counted off again, so that `jQuery.active` is not
  "the number of active queries" (7722) any more, and ajaxStart or ajaxStop are
  missed from then on.

Noted while modelling, without a run of their own:

- `updateFoodSpecialty` can undo a concurrent inactivation, as `updateAccount`
  can undo a lock; and it refuses an active specialty its own unchanged code as
  already used.
- An administrator's update of another account that keeps the account's email is
  refused for the same reason.
- The email of a locked account, or the creator's own, passes
  `checkUniqueAccountUID` and is refused only by the constraint, with another
  message than `create_account.story:29` gives.
- `geocode.story:10` says an address is geocoded or the request fails; a request
  whose geocoding fails stores the restaurant without coordinates.
- The javadoc of `ElasticSearchClientFactoryBean.java:109` lists `merge`, whose
  command is not set and not supported.
- The message code `valid.account.required` (`FacadeImpl.java:577`) is in neither
  bundle, so the exception mapper throws in turn.
- A restart empties the index; no row is indexed again until it is next written. No
  property says that it should be.
- An update that changes only the specialties of a restaurant may leave the document with the
  old ones; `IndexMirrorsRows` compares columns, `CommitPublishes` what was written.
- A search returns the first ten hits and says nothing of the others.

Noted in the page runtime; properties leave these out by a history variable, so
that they hold wherever none of it has happened:

- A queued function that calls `next` and then animates has two animations at once;
  `stop(false, true)` with a delay in progress and an animation without queue kills the
  delay and dequeues nothing, so the queue stays (the comment at 8573-8575 expects
  otherwise); `stop(true)` in a delay leaves its timeout; `clearQueue` under a running
  animation drops its sentinel (`loose`). A timeout of an earlier promise takes the
  deferral of a later one, which is then never resolved (`robbed`). A complete function
  that throws leaves its queue as it is (`spoiled`).
- A complete function that `tick` calls and that stops an element whose timer lies in
  front of its own moves its own: `tick` does not find it in its place any more
  (8845-8848), leaves it and calls it once more, which ends nothing a second time. So an
  element that looks at rest may have a timer, but none with something to do
  (`RestIsQuiet`).
- jQuery remembers one type only while default actions nest: when one ends inside another
  (`reset`), or is of another type, the event that the browser sends runs the handlers of
  the outer trigger again.
- A callback that throws leaves its list firing; `empty` inside a fire makes the fire
  call undefined; a list is `disturbed` then. jsonp requests that share a name take each other's answer
  and may put an old function back into `window` (`shared`), and no property speaks of them.
- `data(object)` stores dashed names as they are, and a later `data("a-b", v)` is
  shadowed by them; `removeData` of an array of dashed names removes nothing; what is set
  by "a--b" is stored by "a-B", and `data("a-B", v)` by "aB", so that `data("a-B")` finds what it
  is not (`asIs`). `data("events")` gives the page jQuery's own events. `cleanData` passes
  over Flash objects, whose entries stay in `jQuery.cache`.
- Prefilters for json do not run for a jsonp request, whose prefilter overwrites
  whatever type is first.
- The condition for keeping fragments (6180) keeps exactly the strings of which its
  comment (6176) says that they must not be kept: those with elements that the
  browser does not know. In other browsers nothing is kept. Its expression (5723)
  replaces only the first space of the names, so it finds only `<abbr`.
- A display that the page sets after jQuery has kept one is overruled by it
  (`touched`). A show that began at nothing and is stopped loses the size (`lost`). The
  direction that a stopped toggle leaves is taken by the next animation, and a show
  without duration comes after what was queued behind it (`crossed`).

## 7. Plan

Done: the core (`RestaurantCatalog` with its abstract specification), then the
tables, geocoding, the start and the searches, each with its proofs; then the page
runtime, from the callback lists up to the nodes, with the proof of document ready.

Next, in this order:

1. `ExceptionMapping` for every request: which statuses each operation of the
   facade can be answered with, and that each message code it throws exists.
2. `EntityTimestamps`: the values of created and updated in entity, row and
   document, which the listeners set after columns were copied, and with them
   the order of a search.
3. `SearchRequests` with `Geocoding` in the place of its abstract outcomes, and
   with `RestaurantCatalog`'s documents, so that a search is related to the rows;
   an abstract search that both implement.
4. `UniqueTable` as an implementation of an abstract table with atomic requests,
   for the parts that are atomic.
5. Proofs: `Manipulation`, with its recursion over trees as functions; the refinements
   of the new modules.
6. Of the page runtime: an abstract deferred (pending, then one outcome, then one
   call of each callback) that `DeferredObjects` implements; the special events of Internet Explorer.
