# A formal model of Amy

Amy is a header-only C++ client library for MySQL on top of Asio. This directory
holds TLA+ modules that model its control flow, TLC configurations that check
them on small instances, and TLAPS proofs of the components' main properties for
all instances. Every definition was translated from the headers in `src/include/amy`;
`PROJECT.json` maps each one to its lines.

## 1. The system

| component | state | operations | hard because |
|---|---|---|---|
| `mysql_ops` | the `MYSQL` handle and its `mysql_errno()` | wrappers that clear `ec`, call the C library and turn the result into an error code | `mysql_errno()` outlives the call; NULL does not always mean failure |
| `mysql_service` (asynchronous) | per connection: `mysql`, `flags`, `initialized`, `first_result_stored`, `last_result`, `cancelation_token`; per io_service: a private io_service and one thread | `open`, `cancel`, `close`, destructor, `async_connect`, `async_query`, `async_store_result`, `shutdown_service` | the work thread and the user share the implementation without a lock; two queues; a thread that is started lazily and joined |
| `mysql_service` (blocking), `basic_connector` | the same | `open`, `close`, `connect`, `query`, `query_result`, `store_result`, `set_option`, `autocommit`, `commit`, `rollback`, `affected_rows`, each with and without `error_code&` | state left behind by one call and read by another, the user's `error_code` included |
| `basic_results_iterator` | at a result, or at the end | construct, increment | must agree with the state of the protocol |
| `execute`, `async_execute` | none | run a statement, report the affected rows | the rows are asked for when the handler runs, on a connector that may be closed by then |
| `basic_scoped_transaction` | `committed_` | constructor, `commit`, `rollback`, destructor | a failed step of several; turning autocommit on commits |
| `mariadb_ops` | the call suspended in the library | `mysql_start`, `mysql_continue` | a mask of events, an error code that is set and replaced by one that may be of an earlier call |
| `mariadb_service` (asynchronous) | as above, and a descriptor and a timer | as above and `async_query_result`; composed operations without a thread | close, reopen or destruction between two steps of an operation; waits that have to be woken |
| `result_set`, rows, fields | rows that point into the `MYSQL_RES`, a weak reference to it | `assign`, copies, access | filled by the work thread while the user closes; dies with the next query |
| `value_cast` | none | text of the server to integers, dates, text | widths and signs |
| error tables, options, flags, endpoints, `mysql_lib_init`, Asio glue | constants, values | | |

Interaction: the user's threads call a connector, which forwards to the service of
its io_service. `mysql_service` posts handler objects to its own io_service, whose
thread blocks in the C library and posts completions back. `mariadb_service` runs a
composed operation step by step in the user's io_service, between waits on the
socket. Handlers receive a `result_set` that refers weakly to the implementation's
`last_result`.

What makes each of them correct: one thread in the library at a time; operations
answered once, in order, and never forgotten; a cancel that hits exactly the
operations it should; no use of a closed or freed connection; result state that
agrees with the protocol and dies with the connection; transactions that are
durable exactly when a commit said so. `PROJECT.json` lists the hazards line by
line with the properties aimed at them.

## 2. Modules

| module | models |
|---|---|
| `MySQLOps` | the wrappers of `mysql_ops.hpp`, the outcomes of the C library behind them, `has_more_results()` |
| `MySQLService` | the asynchronous part of `mysql_service` |
| `AsyncOps` | abstract: what an asynchronous service promises about order and delivery |
| `MySQLServiceRefinement` | the mapping from `MySQLService` to `AsyncOps` |
| `MCMySQLService` | symmetry and a constraint for TLC |
| `MySQLOpsProofs`, `BlockingCallsProofs`, `MySQLServiceProofs`, `MariaDBServiceProofs`, `MariaDBServiceRefinementProofs`, `ConnectorProofs`, `ScopedTransactionProofs`, `ResultSetProofs` | theorems and lemmas about the modules they are named after, in `ResultSetProofs` about `ValueCast` too, and in `MySQLServiceProofs` about the refinement |
| `MariaDBOps`, `MariaDBService`, `MCMariaDBService` | `mariadb_ops.hpp`, the composed operations of `mariadb_service`, TLC values |
| `CancellableOps` | abstract: what a service promises that runs composed operations without a thread: whose a connection is, what a cancel hits, which handlers run |
| `MariaDBServiceRefinement` | the mapping from `MariaDBService` to `CancellableOps` |
| `BlockingCalls` | what the blocking calls, which the two services have in common, do to an implementation and its handle |
| `Connector` | a user of the blocking calls of `mysql_service`, the results iterator, `execute()` and `async_execute()` |
| `ScopedTransaction` | `basic_scoped_transaction` with the transaction of the server |
| `ValueCast` | the conversions of `value_cast.hpp` to integral types |
| `ResultSet`, `MCResultSet` | `result_set`, `row`, `field` and the owners of a `MYSQL_RES`; TLC values |

`MySQLOps` is extended by the services, the connector and the scoped transaction, so the
library behaves the same everywhere; `ResultSet` alone, which is about the rows of a result,
has a coarser handle of its own. Names that start with `Lib` are the external C library. A definition
whose name has a suffix after the name of another (`FreshToken_kept`) is a mutant:
it stands for a plausible bug and shows that a property notices it.

**The handle.** A `MYSQL` is abstracted to: not initialised, initialised or
connected; whether `mysql_errno()` is set; whether a result waits to be stored;
whether it has columns; how many results are to come; whether the connection was
made with the multi-result flags. Each call of the library is the set of outcomes
the code has to cope with, among them an error from the server and a lost
connection. A call on a handle that is not initialised may do anything.

**`MySQLService`.** `impl` and `mysql` are the implementation record. `op` is the
handler object of each operation; its `cancelation_token` is the weak copy, and it
is expired when it differs from the connection's. `workq` and `mainq` are the two
io_services, `guards` the `io_service::work` inside the handler objects. The thread
runs `Take` (dequeue, look at the token), `Enter` (what `operator()` does before the
library), `NextResult` and `LibReturn` (the library returns), `Reset` (`last_result` takes
what `mysql_store_result()` returned, `impl/mysql_service.ipp:498`), `Post` and `Finish`.
`close()` and the destructor take one step per group of assignments, because the
work thread may run between them: `close`, `CloseState`, `CloseCancel`, `Free`.
The constant `Sequential` says whether the user leaves a connector alone (`cancel()`
apart) while one of its operations is in flight. A started operation whose
implementation record is gone is modelled by the record's last value with
`alive = "no"`, and `HandleUsable` says that it is not touched.

**`MariaDBService`.** `running` is the operation whose `operator()` is executing;
`step` is its state, `lib` the call suspended in the library of each connection. A
call takes `StartCall` or `Cont`, whose outcome `Returned` either invokes the handler,
goes on to the store, or registers a wait with `async_wait_mysql`. The user makes calls
only between steps. He starts an operation, or makes a blocking call, on a connection
only when the operations in flight there were cancelled or closed (`MayUse`), and a
blocking call only when no call is suspended (`MayBlock`): one on top of a suspended call
is misuse of the library that the code cannot notice. `mysql_start()` and
`mysql_continue()` judge a call that is only suspended by `mysql_errno()` too
(`mariadb_ops.hpp:93-96`, `105-109`). `ErrnoOf` says what that is: sending a command clears it,
`mysql_store_result()` does not, `mysql_real_connect()` may or may not. The case of a mask with nothing that is waited for (the operation
is destroyed, state `lost`) is in the model; the masks of the runs do not contain it.

`desc` follows the numbers of descriptors. The library opens a socket with any number
that no other socket has, and while it connects may give up one socket for another. `ev`
is the number `ev_` holds and `known` says that the reactor watches the connection's
*present* socket. `ev_->release()` makes the reactor forget the number, whoever's socket
has it by then. Two history variables mark what the properties have to except:
`reused`, a socket got a number that some `ev_` still held, and `usage`: a call was
suspended while `mysql_errno()` held the error of an earlier one, so that its operation ended
and left it there (`stale`), the user cancelled an operation whose call was suspended
(`abandoned`), or the library was called while it was busy or not initialised (`undefined`).

**`Connector`.** One user, one call after another. `ec` is the user's `error_code`
object. `careless` records what a careful user avoids: passing a stale error to
`store_result(ec)`, or connecting a connected connector. The properties say which
of these is needed to break them. `async_execute()` takes its three steps: it posts a refusal
or queues a `query_handler`, the work thread runs that, and `execute_handler` runs on the
user's thread and asks for the rows then. In between the user may `cancel()` or `close()`.
`entered` says that a call took a handle that is not initialised to the library.

**`ScopedTransaction`.** Statements are pending until committed or undone; turning
autocommit on commits; a lost connection undoes, unless the command had already
arrived. `autocommit()`, `commit()` and `rollback()` are the `LibCommand` of `MySQLOps`: each
of them can be done, lose the connection, or be refused, by the library because results are
still to be read, or by the server. What a refused command leaves pending stays so or has
been rolled back. Statements may follow a commit in the same scope; `late` remembers them.
`asked` are the statements that some commit, answered or not, was to cover, and `discarded`
says that the destructor's rollback was refused on a live connection.

**`ResultSet`.** A `MYSQL_RES` is live while `last_result` or the running `assign()`
owns it. `assign()` takes a step per row, because `close()` may come between two of
them, and fetches lengths into the one array that the `MYSQL_RES` has. A field is the
address of a text and a length. `at()` and `fields_info()` say what an access does:
the value, an exception, the assertion, or a null pointer that is followed. Numbers are
their own text; `ValueCast` converts them with the widths as parameters.

## 3. Runs

Pass (each within seconds on a desktop machine, under 300 thousand states):

| run | shows | instance |
|---|---|---|
| `mysql_pipelined` | `SerialWorker`, `AbortIffCancelled`, `RunOutlastsOperations`, `ImplementsAsyncOps`, types | 2 connectors, 2 operations, 2 threads that could be spawned, any use; the destructor is what cancels |
| `mysql_sequential` | `HandleUsable`, `DeliveredResultAlive`, `CloseRevokesResult`, `NextResultInSync` | 5 operations (connect, query, three stores, or a close and reconnect between them), up to 3 results |
| `mysql_live` | `AbortIffCancelled`, `EveryOperationSettles`, `ShutdownTerminates` | 1 connector, 2 operations, one cancel or close, fair |
| `mariadb_cancel` | `AbortIffCancelled`, `ContinuesOwnCall`, `CancelledIsInert`, `CloseRevokesResult`, `NextResultInSync`, `LibraryIdleOnStart`, `WaitIsRegistered`, `ImplementsCancellableOps`, types | 2 operations among any number of blocking calls, calls that wait twice, one cancel or close, 2 descriptor numbers, up to 2 results |
| `mariadb_close` | `EveryOperationSettles`, `ClosedSettles` | 2 operations, calls that wait once for the socket or the timer, one cancel or close, fair; the server may stay silent |
| `connector` | `IterationComplete`, `FirstResultStored`, `NoMoreResults`, `LibraryNeedsHandle`, types | up to 3 results, no bound on the calls, one `async_execute()` at a time |
| `transaction` | `DurableWithoutEc`, `TerminationIsSafe`, `OnlyAskedIsDurable`, types | 2 statements, both overloads of `commit` |
| `result_set` | `FetchUnderOwner`, `NonemptyIsReadable`, `CheckedAccess`, `AllOrNothing`, `ConversionExact`, types | 3 results, 2 result sets, up to 2 rows of 2 columns, NULLs and the ends of every width |

Violation (each a disagreement of the code with its own docs or examples, quoted in
`PROJECT.json` under `findings`):

| run | counterexample |
|---|---|
| `mysql_close` | `close()` after `mysql_store_result()` returned and before `last_result` is reset: the closed connection has the result set |
| `mariadb_timeout` | a mask of read and timeout: no timer is armed |
| `connector_execute` | `async_execute()` reports 0 rows on success |
| `transaction_ec` | a failed `commit(ec)` makes the destructor commit |

Other disagreements that the models show, in the conditions of properties that pass:

- `mysql_service::cancel()` (`mysql_service.hpp:165`, "Cancels unfinished asynchronous
  operations.") aborts what is queued, not what is being executed: `AbortIffCancelled`.
- `mariadb_service::cancel()` wakes no wait, so on a silent server the cancelled
  operation never ends: `ClosedSettles` holds for `close()` only. And it leaves the
  suspended call in the library, where the next operation starts another one on top of
  it: `LibraryIdleOnStart` excepts it.
- `async_wait_mysql()` takes a socket for known when its number is the one `ev_` holds
  (`impl/mariadb_service.ipp:326`). If the library gave up a socket and opened another with
  the same number, which is what an operating system does first, the reactor was told
  of neither and the operation waits forever: the condition `~reused` of
  `WaitIsRegistered` and `EveryOperationSettles`.
- A call that is suspended is judged by `mysql_errno()` (`mariadb_ops.hpp:93-96`), which may
  still hold the error of an earlier call: with a result unread, a second query is refused and
  sets it, and `async_store_result()`, whose call does not clear it, ends with that error as
  soon as it has to wait. Its call stays suspended, and the next operation starts another one
  on top of it: the exception `stale` of `LibraryIdleOnStart` and `NextResultInSync`.
- The destructor of a scoped transaction discards the error of its rollback
  (`basic_scoped_transaction.hpp:43-46`). If the rollback is refused on a live connection,
  `autocommit(true)` commits what was to be rolled back: the exception `discarded` of
  `DurableIffCommitted` and `OnlyAskedIsDurable`.
- The destructor of a scoped transaction commits the statements executed after the last
  `commit()` (`basic_scoped_transaction.hpp:25`): the exception of `Exact`.
- A result set without rows has no fields either (`result_set.hpp:95-99`).
- `store_result(ec)` with an earlier error in `ec` marks the first result as stored and
  does not store it (`impl/mysql_service.ipp:225-231`): `FirstResultStored`.
- A refused `connect()` on a connected connector replaces the flags
  (`impl/mysql_service.ipp:126`), and results are reported as absent: `NoMoreResults`.
- `set_option()` lacks a return (`impl/mysql_service.ipp:338`), `store_result()`,
  `autocommit()` and `affected_rows()` a test: `LibraryNeedsHandle`. The last is called by
  `execute_handler` when it is given an error (`detail/execute_handler.hpp:26`), so
  `async_execute()` on a connector that was never opened gives a raw handle to
  `mysql_affected_rows()`.
- A MariaDB operation that does not have to wait invokes the handler inside the
  initiating function, against `test/mariadb_async_connect_test.cpp:30`.

**Bounds.** `MaxToken` (cancels and closes per connection; the destructor comes on top),
`MaxMore` (results after the first), `MaxWaits` (waits of one call), and the numbers of
operations, of descriptor numbers, of results and of result sets, each operation and result
used once. Two operations suffice to order, overtake or be cancelled between; five let a
connection be made, used, lost and made again. The two threads of `mysql_pipelined` are one
more than the code spawns. One cancel or close of a connection with two operations leaves
one that is cancelled beside one that is not; what follows a second one is up to the
proofs. Two descriptor numbers let a socket be replaced by one with the same or with
another number; in `mariadb_close` there is one, and that a socket which replaces another is
watched, so that the wait for it can end, is left to `WaitIsRegistered`. The widths of
`ResultSet` are a few bits, which keeps their order and every boundary. Larger instances were checked
once with all the properties of `mariadb_cancel`: two cancels or closes and calls that wait
once (662 thousand states), and two connectors that share the descriptor numbers, where the
destructor is what cancels (1.6 million).
`mysql_close` has the constraint that the work thread does not call the library with a handle
that is not initialised, of which any result could come: its counterexample is one of the
code's own steps.
Permutations of operations, connectors, threads and descriptor numbers are symmetric; no
fairness property is checked under symmetry. Deadlock is not checked where the
user runs out of operations or leaves the scope; in `Connector`, where nothing is bounded, it is.

**Fairness.** The work thread runs when it can and the blocking calls return, a
`close()` that was entered completes, the user keeps running the io_service, and
`join()` returns when the thread has exited; nothing obliges the user to call. For
`mariadb_service` the steps and the timers are fair; that the server answers is not
part of the specification but a premise of `EveryOperationSettles`. The premises about
`reused` and `usage` restrict it to behaviours in which no call is started on a busy library
or with a handle that is not initialised, and no number comes back too early.

## 4. Proofs

The theorems hold for every value of the constants that meets the named assumptions of
the modules: bounds are naturals, `None` is not a member of the other sets, flags are
Booleans, masks are non-empty sets of events, widths are positive, a result has columns.
TLC evaluates the assumptions in every run.

**`MySQLServiceProofs`**, for any numbers of connectors, operations, threads, results and
cancels:

- `TypeCorrect`, `WorkIsSerial`, `AbortIsExact`, `RunIsKept`, for any use;
- `HandleIsUsable`, `ResultIsAlive`, `ResultIsRevoked`, for sequential use.

The first four follow from the inductive invariant `IInv`. `SerialWorker` is not
inductive: one needs that there is at most one thread and that only a thread of
the service executes (`WorkerInv`). `AbortIffCancelled` speaks of posted operations;
what is kept step by step is that a *queued* operation's token is the connection's
exactly when it was not cancelled since, and that an operation's token never
exceeds the connection's (`TokenInv`). `RunOutlastsOperations` needs that each
queued or running operation has its guard and that each posted one is in `mainq`
(`GuardInv`). All of them need that an operation's stage says where it is, once:
`QueueInv`.

The last three follow from `SeqInv`: at most one operation of a connector is in
flight, its connector is alive and no `close()` is under way, it is open while it
is queued or running, an open connection has an initialised handle, a closed one
no result state, and between `Reset` and the post `last_result` belongs to the
operation. So the thread owns the record while it uses it.

`NextIsInSync`, also for sequential use, needs `SyncInv` on top of `IInv` and `SeqInv`. The
property itself speaks of the moment before `mysql_next_result()`; what is kept is that
whenever `first_result_stored` is set no result waits in the library, or the thread is
inside the `mysql_store_result()` that takes it (`StoredIsRead`). The exception is
necessary: the code sets `first_result_stored` before it calls the library, and
`mysql_next_result()` itself makes a result wait. And a thread inside `mysql_real_query()`,
which makes one wait too, has cleared the flag (`QueryForgets`).

`PromiseIsKept`, for any use and any numbers of connectors, operations and threads, says that `MySQLService` implements `AsyncOps`. The
initial states map to initial states, and each action maps to one action of `AsyncOps` or
leaves its variables alone (most do: `Take`, `Enter`, the library calls, `close()` in all its
parts). An operation is pending from its queueing until the thread posts its completion, so
`pending` is the running operation followed by `workq`: it takes `WorkerInv` to know that
there is one running operation at most, and `QueueInv` to know that a new one is in neither
queue. Beyond `IInv` the proof needs `RefInv`: once the service is down there is no thread,
and a queued operation is in `workq`, so the shutdown drops exactly what is pending or ready.

**`MySQLOpsProofs`** and **`BlockingCallsProofs`** hold what the other proofs need to know of
the calls: the types of what they return (`CallType`), and what each leaves of the results
that wait in the handle. A handle is `Sound` if a result that waits has columns, further
results occur only on a connection made for them, and nothing waits in a handle that is not
initialised. Every call keeps that, keeps the connection's flags, and connects nothing
(`KeepsConnection`), `connect()` apart.

**`ConnectorProofs`**, for statements with any number of results and any sequence of calls:
`ConnectorTypes`, `IterationIsComplete`, `FirstResultIsStored`, `NoMoreMeansNone`,
`LibraryGetsHandle`. The inductive invariant `CInv` relates `impl` to the handle: an open
connector has an initialised handle and a closed one no connection (`OpenIsInit`), the handle
is `Sound`, and `flags` are those the connection was made with unless the user connected a
connected connector (`FlagsAgree`); beside it `ExecInv` says that a `query_handler` that is
still queued finds the connector open, as `close()` would have expired it. From it follows `MoreIsExact`: when
`has_more_results()` says no, every result was taken. That is what the end of an iteration and
`no_more_results` come down to. `FirstResultStored` is inductive with the rest of `CInv`, and
holds even after calls that the library refused.

**`MariaDBServiceProofs`**, for any numbers of connectors, operations, descriptor
numbers, results, waits and cancels: `TypeCorrect`, `AbortIsExact`, `CallIsOwn`,
`CancelledTouchesNothing`, `ResultIsRevoked`, `WaitIsKept`, `LibraryIsIdle` and
`NextIsInSync`. The first six follow from the inductive invariant `MInv`. Of each
operation it says where it belongs (`StageInv`), that its token expires exactly when it is
cancelled (`TokenInv`), that an operation which is not cancelled finds its connection open
and its own call suspended, with `mysql_errno()` clear (`CallInv`), that one which waits has something to wait for
(`WaitInv`) and that the reactor watches it (`KnownInv`).
None of these is kept without the others and without `UniqueInv`: of the operations of a
connection at most one is not cancelled, and at most one has to do with the call in the
library. `WaitIsRegistered` needs an account of all descriptors at once (`DescInv`): two
connections never have one number, no other `ev_` holds the number of a socket unless it is
`reused`, and a socket whose number its own `ev_` holds is watched. Otherwise the
`release()` of one connection could make the reactor forget the socket of another.
`ResultInv` is the invariant behind `ResultIsRevoked`. `CancelledTouchesNothing` is an action
property: by `TokenInv` a cancelled operation finds its token expired in its next step.

`LibraryIsIdle` needs one thing more, `OwnerInv`: on a connection that is used soundly a
suspended call has an operation that will continue it. A call that is suspended with the
error of an earlier one ends its operation, and has none: that can only happen when the call
is started (`StaleStart`), because by `CallInv` no error is left when it is continued. It assumes that every mask has an event that `async_wait_mysql()` waits for.
With any other mask the operation is destroyed while its call stays in the library.

`NextIsInSync` makes the same assumption: with such a mask the operation that is to store the
result would be gone, and the result would wait although it counts as stored. It follows from
`MInv` and `TakenInv`. On a connection that is used soundly, a result that counts as stored
does not wait in the library, or an operation that is not cancelled is about to store it or
has the call suspended (`Taken`); a query whose call is suspended has cleared
`first_result_stored` (`Forgot`); and every handle is `Sound`. Here two arguments meet: the
blocking calls are made when no operation is left that could store (`MayUse`), and `cancel()`
can take away an operation that stores only while its call is suspended, which is no longer
sound use.

**`MariaDBServiceRefinementProofs`**: `PromiseIsKept`, for any connectors, operations,
descriptors, results, waits and cancels, says that `MariaDBService` implements
`CancellableOps`. A connection serves the operation in flight on it that was not cancelled,
and the promise is about ownership: implementation, handle and suspended call change only in
a step of the operation that is served, or by a call of the user when there is none; a cancel
moves exactly that operation to the doomed ones, whose only visible step is to report
`operation_aborted`; each operation is answered at most once, and none vanishes. The mapping
*chooses* the operation served, so the proof first shows that there is nothing to choose
(`ServedInv`, from `UniqueInv` and `TokenInv`). Then every action is one of `CancellableOps`:
`cancel()`, `close()` and the destructor are `Cancel`, the first part of an asynchronous call
`Serve` or `Refuse`, a step of `operator()` `Work`, `Answer` or `Abort` according to the token
it finds. An `open()` or a blocking call finds no operation that is not cancelled, by
`CallInv` and `MayUse`. The masks have to be awaited, as for `LibraryIsIdle`: otherwise an
operation is lost, which `CancellableOps` does not allow.

**`ScopedTransactionProofs`**, for any number of statements: `TypeCorrect`, `ScopeIsExact`,
`TerminationSafe`, `NothingUnasked`. The invariant `TInv` adds to the properties that within
the scope autocommit is off and that, if `commit(ec)` was not used, only statements are
durable that a commit was asked to cover, and exactly those that a commit reported as done
while the connection is up (`ScopeInv`). It cannot say more: once the connection is lost, a
commit may have arrived whose answer did not. A command is done, lost or refused, and
`CommandFacts` says what each of the three does to the pending statements. When the
destructor's rollback is refused, they may still be pending when `autocommit(true)` follows:
if that is done they are durable (`discarded`), if it is refused they are not, and if the
connection is lost `TerminationIsSafe` claims nothing.

**`ResultSetProofs`**, for any results, rows, columns and result sets: `TypeCorrect`,
`FetchIsSafe`, `RowsAreReadable`, `AccessIsChecked`, `ResultIsWhole`, `ConversionIsExact`.
`RInv` says who owns a `MYSQL_RES` (`OwnerInv`), what the running `assign()` has copied so
far (`CallInv`) and what each finished result set holds (`HeldInv`). The second is what the
properties lack: they speak of complete result sets, and `close()` comes in between.
`ConversionIsExact` rests on `CastIsExact`, about `ValueCast`: for integers of any widths the
conversion yields a value of the type asked for, and the number itself if the type has it.

Every invariant, action property and refinement that a passing run checks is a theorem. The
inductive invariants were first checked with TLC on the instances of the runs. Only model-checked are
the four liveness properties (`EveryOperationSettles` of both services, `ShutdownTerminates`,
`ClosedSettles`), which rest on fairness and are out of the prover's reach, and the four
properties that the code violates. `WaitsAreAwaited` is a hypothesis of three theorems and not
an assumption of the module, because the code does not establish it: a mask with nothing but
an exceptional condition is possible as far as `mariadb_ops.hpp` goes.

## 5. Not modelled

- Operations pipelined on one MariaDB connection, blocking calls on top of a suspended
  call, and calls from inside a handler that `mariadb_service` invokes inline: the
  library leaves them undefined or the code says nothing of them.
- The wrappers of `mariadb_ops.hpp` that no code calls.
- The shutdown of an io_service with MariaDB operations in flight: the service has no
  thread and an empty `shutdown_service()`; Asio destroys the handlers.
- Conversions to text, floating point and dates (standard library and Boost), the flags
  of `field_info`, options, client flags, `auth_info`, endpoints, the tables of client and
  server errors: values and constants, no control.
- `mysql_lib_init` (a static `shared_ptr` around two calls), moves and copies of
  handlers, exceptions from allocation.

## 6. Plan

Done: `MySQLOps`, `MySQLService`, `MariaDBService` with its descriptors and blocking calls,
the promises `AsyncOps` and `CancellableOps` and their refinements, `Connector`,
`ScopedTransaction`, `ResultSet` and `ValueCast`; the proofs of every invariant of these, of
the action property and of both refinements.

Left: calls made from inside a handler, which `mariadb_service` may invoke inline; the rest
of `value_cast.hpp`; `mysql_lib_init`.
