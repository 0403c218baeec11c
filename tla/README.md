# Verification of the Python iRODS Client

TLA+ models of `python-irodsclient`, the TLC runs that check them and the
theorems about them that TLAPS proves. Paths such as `pool.py` are under
`irods/` of the repository.

## 1. The system

A program holds an `iRODSSession`. Every request to the server goes over a
`Connection` that the session's `Pool` lends out; a `Connection` is a socket on
which requests and replies alternate, one stream each way, with no request
numbers: what makes a reply belong to a request is only that every earlier reply
has been read.

| Component | State | Operations | Hard behaviours | Modelled in |
| --- | --- | --- | --- | --- |
| connection pool (`pool.py`) | the sets `active` and `idle`, an RLock, the default timeout | `get_connection`, `release_connection` | network operations under the lock; double release; connections that must never be reused | `ConnectionPool` |
| connection (`connection.py`) | socket, login state | `_connect`, `send`, `recv`, `release`, `disconnect`, `__exit__`, `__del__`, the logins | timeouts and late replies; errors that release the connection and errors that do not; a second socket for a PAM token | `ConnectionPool`, `Login`, `ErrorCodes` |
| session (`session.py`) | pool, account, ticket, which connections have it, the shared configuration of clones | `configure`, `cleanup`, `clone`, `connection_timeout` | `cleanup` beside running clients; clones that share a dictionary | partly: `ConnectionPool`, `ObjectIO`, `Login`, `Catalog` |
| tickets (`ticket.py`) | ticket string | `issue`, `supply`, `modify`, `delete` | the request that is sent inside `get_connection` | partly: `ConnectionPool` |
| data object handles (`data_object.py`) | a connection and a descriptor | `read`, `write`, `seek`, `close` | a handle keeps its connection over many requests; `close` that fails; files left open at exit | partly: `ConnectionPool`, `ObjectIO` |
| data object manager (`manager/data_object_manager.py`) | the server's version | `open`, `put`, `get`, `unlink`, `move`, `copy`, `touch`, `register` | redirection to another session's pool; failures between the connection and the file; overwriting | partly: `ObjectIO`, `Catalog` |
| parallel transfer (`parallel.py`) | ranges, futures, the close manager with its barrier, `AsyncNotify` | `io_main`, `abort_parallel_transfers`, callbacks | the order of closes; abort at any point; threads that wait for each other | `ParallelTransfer` |
| exit handling (`at_client_exit.py`) | lists of functions by stage, open handles, sessions | register, run at exit | order; one function failing | `ObjectIO` |
| message framing (`message/`) | a frame header with four lengths, a parser per thread | `recv`, `recv_into`, `pack`, `ET` | short reads, end of file, lengths in bytes | partly: `Wire`, `Settings` |
| queries (`query.py`, `results.py`) | a server-side cursor | `execute`, `get_batches`, `all`, `one`, `first` | iterators abandoned half-way, a cursor that lives on one connection, errors between batches | partly: `QueryCursor` |
| authentication (`auth/`, `password_obfuscation.py`, `client_init.py`) | login state, stored passwords | `authenticate_client` and its plugins, writers of `.irodsA` | a loop driven by the server's answers; another process rewriting the file | `Login`, `Obfuscation` |
| negotiation (`client_server_negotiation.py`) | policies | `perform_negotiation` | what the connection does with its result | `Login` |
| metadata (`meta.py`, `manager/metadata_manager.py`) | a cached list, keywords of a class | get, add, remove, replace, atomic operations | several requests that should be one; keywords that all views share | `Metadata` |
| catalog managers (`manager/`) | none of their own | calls of one to three requests | the cleanup after a change of resources; permissions put together from three queries | partly: `Catalog` |
| configuration and accounts (`client_configuration/`, `account.py`, `helpers/`) | settings, per-thread parser | `autoload`, `loadlines`, `xml_mode` | blocks that fail half-way or overlap in threads | partly: `Settings`, `Login` |
| tables (`exception.py`, `keywords.py`, `models.py`, ...) | constants | the search for a class by its code | rounding of negative codes | partly: `ErrorCodes` |

How they interact: managers, queries, metadata and tickets call
`pool.get_connection()` and use the connection in a `with` block. `open()` keeps
the connection in the raw file object until `close()`. A parallel transfer opens
one handle, so one connection, per thread. `cleanup()` and the exit handlers take
connections away from all of them.

What makes each correct:

* pool, connection, session: a connection has one user; a connection that may owe
  a reply is not lent; one that is given up does not come back; the ticket and the
  timeout of the session are in force on what is lent; whoever asks gets a
  connection or an exception; what `cleanup()` is done with is gone.
* transfer: the finalizing close is last and is not made for a partial copy;
  success means that all bytes were copied; the call returns, threads end, and
  waiters are let go, whenever and however often it is aborted.
* login: the socket is what both policies ask for, the server has accepted whoever
  is logged in, PAM passwords stay inside TLS, a token kept in memory is the one
  that is used, and once there is a token no password is asked for again.
* wire: frame boundaries survive every cut of the stream; a receive ends.
* error codes: the class found is the one of the code and carries its errno.
* queries: each row once, and no cursor left behind.
* metadata: assigning to a key leaves the one value and touches no other; options
  belong to the view they were given to.
* catalog managers: after a change of resources no request runs on an older agent;
  permissions of one user do not vanish with another.
* data objects, exit: connections in use are accounted for, a redirect moves the host of
  no other session, nothing that a call could see is overwritten without force, files are
  flushed before their sessions go.
* settings: what a block changed is restored; a parser is the thread's own.

## 2. Modules

| Module | What it is |
| --- | --- |
| `ConnectionPool` | `pool.py`, the pool's side of `connection.py`, `data_object.py`, `ticket.py`, and `iRODSSession.cleanup()`; properties |
| `ConnectionLease` | abstract: what the pool promises |
| `ConnectionPoolLease` | the refinement mapping from `ConnectionPool` to `ConnectionLease` |
| `MCConnectionPool` | view and symmetry for TLC |
| `ConnectionPoolProofs` | theorems: types, exclusive use, the reply streams; ticket, timeout, cleanup, leaks, idle connections; the pool implements the lease |
| `ParallelTransfer`, `ParallelTransferProofs` | one transfer of `parallel.py`, with aborts; theorems about it |
| `Login`, `LoginProofs` | one connection from its account to the end of authentication; theorems about it |
| `Settings`, `SettingsProofs` | autoload, `loadlines`, `xml_mode`; theorems about them |
| `Obfuscation` | the encodings of passwords in files and requests; their theorem is in `LoginProofs` |
| `MCLogin` | `Login`, `Settings` and `Obfuscation` on a small instance |
| `Wire` | frames sent and received over a stream |
| `ErrorCodes` | classes of errors by code |
| `QueryCursor` | GenQuery batches and their cursors |
| `Metadata` | views of the AVUs of one object |
| `Catalog`, `CatalogProofs` | the managers as sequences of requests over the pools of a session; theorems |
| `ObjectIO`, `ObjectIOProofs` | open, put and get with redirection, clones, cleanup, the exit; theorems |
| `RequestProofs` | theorems of `Wire`, `ErrorCodes`, `QueryCursor` and `Metadata` |
| `DataLemmas` | lemmas about numbers, finite sets, sequences, folds and sums that the proofs share |
| `MCRequests` | `Wire` to `ObjectIO` on a small instance |

An operator named `X_Y` next to `X` is `X` with a plausible bug (`ReleasedIdle`,
`ReleasedIdle_AnyConn`). No specification uses these; `PROJECT.json` pairs each
property with one that breaks it.

`MCLogin` and `MCRequests` put components next to each other that share no variable:
each takes the layer below it as a request that is answered, refused or lost, or takes
the other's result as given. Their interleavings are therefore independent, and a
behaviour follows one component, its `focus`, while the others rest in one of their
initial states. What is gained is one instance for each phase of a session (before and
after the login) and not a product of state spaces that says nothing more. Interactions
that do share state are inside one module: the pool with handles, tickets and cleanup in
`ConnectionPool`; login, negotiation, password file and legacy code in `Login`; sessions,
clones, redirected opens and the exit in `ObjectIO`; calls and pool replacement in `Catalog`.

### ConnectionPool

A *client* is one activity: a `with get_connection() as conn` block, or (members of
`Handles`) an open data object, whose raw file keeps its connection until `close()`, or
(members of `Lookups`) `Manager.server_version`, which takes a connection to read the
version off it and never releases it (`KeepVersion`).

| Model | Code |
| --- | --- |
| `active`, `idle`, `lock` | `Pool.active`, `Pool.idle`, `Pool._lock` (only `get_connection` keeps it over several steps) |
| `held[cl]`, `pc[cl]` | the local `conn` of the client and where it is |
| `newConn` | `new_conn` of `get_connection` |
| `open` | connections whose `socket` is not `None` |
| `pend`, `inbox` | requests not answered, replies not read, per connection |
| `applied`, `ticket` | `session.ticket_applied`, `session.ticket__` |
| `poolTimeout`, `sockTimeout` | `pool.connection_timeout`, `socket.gettimeout()` |
| `snap`, `todo`, `cur`, `cpc` | the loop of `cleanup()`, which runs on a snapshot taken without the lock |
| `retired` | `session.pool` has been replaced |
| `refused`, `looked`, `asked`, `changed` | history, read by properties only |

`get_connection` is `TakeLock` (`PopIdle` or `PopNothing`) and then `GetStep`s until it
returns (`Adjust`) or raises (`GetRaises`). `Request`, `Recv` and their failing forms
are `send` and `recv`; `Drop` is the `release(True)` they make before raising
`NetworkException`; `Leave` is `__exit__`, or the end of a successful
`iRODSDataObjectFileRaw.close()`. A connection nothing refers to is disconnected by
its finalizer and its identity is free for a new object (`Unreferenced`).

Failures are enabled by `Faults`: `net` (a send or receive fails or times out: the
reply may still come), `server` (an answer with an error code), `oserror`
(`disconnect()` fails with something else), `interrupt` (an exception thrown into a
thread that waits in `recv()`).

`ConnectionLease` has one variable per connection, `spare`, `gone` or its user, and the
number of replies owed: a lease begins on a connection that owes nothing, and a spare one
does not start to owe. `LeaseOf` maps the two sets, the control points and the streams to it.

### ParallelTransfer

A chunk of `COPY_BUF_SIZE` bytes is one unit. Main opens a handle per range and
submits it (`Submit`), then collects the futures in order (`Collect`, `Report`) or
returns an `AsyncNotify` (`Submitted`). Thread `i` goes through `Start`, `CopyChunk` ...,
`CloseAux`, `Arrive`, `Wake`, `Finish`, which are the lines of `_io_part`, `_copy_part` and
`remove_io`; `broke` is the local `broken`. `quit()` is four steps, because the
threads see each of them: set `_quit`, break the barrier, shut the executor down,
join it. `Record` is the done-callback of a future.

The executor and the barrier are external and modelled from their documentation: a
barrier opens when all parties have come, a thread that waits looks at its state only
when it wakes (so `abort()` may still reach it after the barrier opened), and
`shutdown(cancel_futures=True)` cancels what no thread has taken and then joins.

### Login

| Model | Code |
| --- | --- |
| `acct` | the account, the options of the scheme, and whether the program connects or writes an `.irodsA` file |
| `srvPolicy`, `valid` | external: the server's policy, the passwords it accepts |
| `sock`, `accepted` | `Connection.socket` (plain or TLS); the server's view of the login |
| `password` | `iRODSAccount.password` after `configure` |
| `depot`, `inFile` | `AuthStorage.pw`, `AuthStorage.auth_file` |
| `result` | the list under `CLIENT_GET_REQUEST_RESULT`, or `account.store_pw` |
| `file`, `writer` | `.irodsA`; another process between truncating and writing it |
| `wire` | history: what password travelled over what socket |

`Configure` is `_configure_account`, `Connect` and `SslStartup` are `_connect` with
`perform_negotiation` (`Negotiated` is its table), `StartLogin` chooses plugin or legacy
login. The operations of the plugins are the actions `Native...`, `PamPassword...`,
`Interactive...`; after `InteractiveRequest` the server names the next operation and the
loop of `authenticate_client` calls it (`Answer`, `Authenticated`, `NativeAuth`,
`FlowStopped`). `LegacyPam` to `LegacyStore` are `_login_pam`: `LegacyRequest` gets the token,
`Connect` opens the second connection, and `AfterConnect` is where its caller goes on, at
`LegacyToken` (the token for `store_pw`) and `LegacyNative`. `Gsi...` is the token exchange, with
as many rounds as the context asks for, `WriteCheck` to `WriteText` the functions of `client_init.py`.
Passwords are five model values, so that properties can tell whose password is used.

### Settings and Obfuscation

`Settings` has three settings for the three kinds there are (a slot, a property with a
checking setter, the default parser). A thread enters `loadlines` by reading old values
(`ReadOld`), assigning new ones (`Assign`), and leaves by restoring (`RestoreOne`), each
entry one step, with exceptions half-way. `local` is `_thrlocal.xml_type`. `EnterXml`,
`ExitXml` and `XmlRefused` are `xml_mode`; the last is its call with an argument that names no
parser: no block begins, but the `finally` clause resets the parser of the block around it
(`Marked`).
`Obfuscation` has the arithmetic as functions of character codes: `Encode` and `Decode` of
the `.irodsA` file with the wheel, the added sequence and the stamp; `Scramble` and
`Unscramble` with a ring of bytes in place of the digest of the key (`Ring`, external);
`ObfuscateNew` of a changed password.

### Wire and ErrorCodes

A text has characters of one byte and of two (`narrow`, `wide`); a frame has three
optional parts. `Stream` is what `pack` sends; the peer delivers any prefix (`Arrive`) and
may close; the client reads any number of the bytes that are there (`ReadSome`), into
parts of the lengths it read in the header. `ErrorCodes` has the families of classes by
thousands, `Rounded` and `Nominal` as the code computes them, and three actions: `recv`
accepts or raises, and an exception is copied through its `repr`.

### QueryCursor

`Fetch` and the cursor table are external: an agent keeps, per connection, an index for
each open query. The client side is `Lend`, `FirstBatch`, `NextBatch`, `CloseCursor`,
`Resume`, `Abandon`: each request asks the pool for any idle connection, or a new one.
Every connection has an agent of its own at the server; `made` keeps one that was made from
being made again, because a new connection is a new agent with no cursors. `Agents` bounds the
connections a session makes.
`astray` records that a request went to another connection than the query began on.

### Metadata and Catalog

In `Metadata` an operation is a sequence of steps, computed from the view's list when it
begins (`SetItem`, `DelItem`, `RemoveAll`): requests that the server carries out, refuses or
that are lost, and `_reset_metadata`. `Call` makes a view with options from another one.
In `Catalog` the methods of the managers are the sequences of their requests (`AclGet`,
`ResourceModify`, ...); `ReadPool`, `TakeIdle`, `MakeConnection` and `HandBack` are the lending of
connections, `Disconnect` and `NewPool` the `cleanup()` of `ResourceManager`. A connection
is its pool and the version of the resources its agent has seen.

### ObjectIO

Each caller makes one call: `OpenStarts`, `LookUp` (the version, with a connection that is
never given back), `GetConnection`, `AskWhere`, `OpenObject`; then a file of the program
(`WriteFile`, `Close`) or the rest of `put` and `get` (`Check`, `Download`, `Transfer`,
`FinalLookup`). A redirect is three steps, because clones share a dictionary without a lock:
`StoreHost` puts the host into it (`override`), `MakeAccount` reads it there or fails, and `Hop`
gives the first connection back and takes one of the clone. `Check` looks for an object or a
file unless a `put` was given a collection (`into`); `OtherCreates` and `LocalAppears` make one at any
moment, and `late` records who had looked by then.

`Cleanup` cleans and reconfigures a session; `CleanedPartly` is one that an `OSError` of a
`disconnect()` ended, with any of the connections before it gone. `ExitBegins`, `RunHook`,
`CloseAtExit`, `CleanupAtExit`, `StageEnds` and `CleanedUp` are the stages at exit, and `skipped`
says what a close or a cleanup that failed left out. A large file's transfer is one step here:
`ParallelTransfer` is its detail.

## 3. Runs

| Run | Instance | Shows |
| --- | --- | --- |
| `pool` | a block, a handle and a version look-up, 2 connections, 2 timeouts, net and server faults, 2 unread replies | `Exclusive`, `IdleUsable`, `OwnReply`, `TimeoutCurrent`, `LeaksKnown`, and that the pool implements `ConnectionLease` |
| `pool_lend` | a block and a handle, 2 connections, refresh, ticket, net and server faults, fair | `TicketBeforeUse`, `LeaksKnown`, `GetEnds` |
| `pool_cleanup` | a block, a handle, 3 connections, `cleanup()`, net and OS faults | `IdleClean`, `CleanedOut` |
| `transfer` | 2 threads, 3 chunks, one aborting thread, short read, failing final close, interrupt, fair | `MainReturns`, `ThreadsEnd`, `NotifyCompletes` |
| `transfer_faults` | 3 threads, 4 chunks, one aborting thread, every fault | `FinalLast`, `AbortedNotFinalized`, `SuccessComplete`, `FinalizedUnlessQuit` |
| `login` | every account that makes sense for every scheme, a foreign writer of `.irodsA`; 2 threads with settings; 91 passwords, 4 salts | `PolicyRespected`, `LoggedInAccepted`, `SecretInTls`, `TokenOnce`, `DepotIsolated`, `OverridesRestored`, `ParserKept`, `ReadBack` |
| `requests` | 2 frames; codes of every family; 2 queries of 5 rows; 2 views of 3 AVUs; 2 threads with catalog calls; 2 callers and 2 hosts; fair | `FramesMatch`, `RecvEnds`, `CodeRoundTrip`, `RowsOnce`, `CursorsClosed`, `ItemAssigned`, `AgentsFresh`, `AclTold`, `AccountedFor`, `HostKept`, `OverwriteForced`, `FlushedAtExit` |

Five runs show that the code does not do what a text of the repository says; each is
a finding in `PROJECT.json` with the quotation:

* `transfer_error`: an exception of a read or write in one thread leaves the others at
  the barrier (`parallel.py:538-541` quits the manager only for `SystemExit`,
  `KeyboardInterrupt` and `RuntimeError`).
* `transfer_small`: with fewer bytes than threads the empty ranges never come to the
  barrier (`parallel.py:419-420`) and the call does not return.
* `transfer_reported`: an abort after the last byte and before the finalizing close is
  reported as a success, by the return value or to the callback.
* `redirect`: two redirects at the same time share one place for the host
  (`session.py:208-209`, `account.py:25-27`), so that a clone can get the host of the other and
  connect there, although `open()` promises the server that hosts the replica.
* `metadata_admin`: the keyword that makes a request an administrator's belongs to the
  class (`manager/metadata_manager.py:64-66`), so a view made with `admin=True` changes the
  requests of all others.

Because of the first two findings, `transfer` leaves the faults `io`, `close` and `open` out of the
liveness run and has at least as many chunks as threads. The safety run has every fault.
`CHECK_DEADLOCK FALSE` is set for the transfer, the login and the requests: a transfer that
is over, a login that has ended, and calls that have all returned stop.

Read from the code, without a run of its own: `abort_parallel_transfers()` joins the transfer
threads (`parallel.py:351` shuts the executor down with the default `wait=True`, the model's
`QuitJoin`), although the README says that it returns without waiting for them.

Some properties name what the code leaves open, where no text says otherwise:
`LeaksKnown` and `AccountedFor` the connections that refused or failing calls and version look-ups
leave in `active`; `HostKept` a clone whose stored host another redirect overwrote before the
account was made;
`RecvEnds` the binary part of `recv_into` after the peer has closed, whose loop makes no
progress; `RowsOnce` and `CursorsClosed` a query whose connection was taken by another asker
between two batches; `CursorsClosed` a `SpecificQuery` dropped half-way; `ItemAssigned` a list
that was old when the operation began; `OverwriteForced` an object or file that appeared between
the look and the open, and a `put` to a collection, which does not look; `ParserKept` the outer
`xml_mode` block after an inner one ended or refused its argument; `FlushedAtExit` what comes after
a close or a cleanup that failed. That a login ends is not stated: the loop goes on as long as the
server asks for another operation, a GSI context for another token, or nobody answers a prompt.

### Bounds

* Two clients that use connections are enough for every race in the pool: its properties speak of
  one connection and at most two of its users. Of the two, one is a block and one a handle
  because they fail differently; `pool` adds the look-up, which leaves its connection in `active`.
  Two connections let two clients want the same one while the other is new or given up;
  `pool_cleanup` has three, so that `cleanup()` can be done with one, at another, and have one
  before it. `MaxUnread` bounds the requests a handle sends on a connection
  whose reply was lost; 2 is the least at which a stale reply can be read in the place of
  the right one.
* Two timeouts are the least that can differ. `pool_lend` and `pool_cleanup` have one.
* `VIEW LiveView` forgets the attributes of connections nothing refers to: no action reads
  them before `FreshConnection` sets them again, and no property of these runs does.
  Connections are interchangeable (`SYMMETRY`) in the runs with safety properties and the
  step-wise refinement; `pool_lend`, which has liveness, uses neither.
* Two threads with parts of 1 and 2 chunks give a remainder, a party that waits and one
  that opens the barrier; three threads add a bystander. A second quitter is main itself
  (`interrupt`).
* `LoginAccounts` has every combination of scheme, password source, policy and option that
  some code reads: an option that a scheme does not look at has one value.
* Settings: two threads, blocks nested two deep, three in all: enough for an overlap that is
  not nested and for a block inside it. The configuration files and entry lists each have
  good, refused and unknown names, and one list names a setting twice.
* Passwords: all of length up to 3 over four characters (two of the wheel, NUL, a space), and
  six longer ones whose lengths lie on both sides of the 50-character limit and past the period
  of the added sequence (10); the longest, of 70, passes the period of the ring (61). The salts
  have different remainders modulo the wheel.
* Two frames: one byte too many or too few in the first is seen in the second. The error
  and the binary part are absent in one and present in the other, and the messages have characters
  of two bytes.
* Codes of some classes of every family, each with errno 0, 1, 13 and 999: both sides of every
  boundary of a thousand.
* Five rows in batches of two: a full batch, a middle one and a short last one; two askers and
  two connections are the least with which a connection can be taken by the other.
* Metadata: two views, three AVUs of which two share a key, two operations: one begun while the
  other is half-way. Catalog: two threads, each with any of the methods; two users. Objects:
  seven pairs of calls chosen so that redirects (alone and two at a time, to two hosts), managed and
  unmanaged files, forced and unforced writes to the same object, a put to a collection, and large
  files with replication each meet another call.

### Fairness

* `ConnectionPool!FairSpec`: a step inside `get_connection` is taken if it stays enabled
  (weak), because a socket operation ends, if only with the timeout; a thread that waits
  for the lock gets it if the lock is free again and again (strong), which is what the
  interpreter's locks provide in practice. Nothing is assumed of what a client does with a
  connection, of the server, or of `cleanup()`; the ticket exchange cannot wait for ever
  because the `net` fault, which includes the timeout, is one of its steps: `GetEnds` is for
  sessions with a timeout (the default; `connection_timeout = None` takes it away).
* `ParallelTransfer!FairSpec`: main, each transfer thread, each done-callback and each
  thread inside `quit()` go on if they can. Nobody has to abort and no fault has to occur.
* `Login` has none: nothing is claimed of the end of a login.
* `Wire!WireFairness`: the client reads what is there, and notices that the peer has closed or
  that its timeout has passed (weak, each). Nothing is assumed of the peer.

`MCRequests` states the fairness of `Wire` for the steps of that component when it is in focus.

## 4. Theorems

All are proved for every value of the constants under the assumptions stated in the
modules (names are distinct, sets of faults arbitrary) and in the theorems.

`ConnectionPoolProofs`

* `TypeCorrect`, `OneUser` (`Exclusive`). The invariant is `TypeOK /\ HeldInv /\ Exclusive`.
  Exclusive use alone is not inductive: `HeldInv` adds which control points have a
  connection, that only the owner of the lock is inside `get_connection`, and that what
  such a client has is in neither set until `Add`.
* `CleanWhenIdle` (`IdleClean`) and `RepliesMatch` (`OwnReply`), assuming that no exception
  is thrown into `recv()`. The strengthening `StreamInv` counts the replies owed at each
  control point: none on a connection a client holds without waiting, exactly one when
  it waits, with an exception for handles that go on after a `NetworkException`, whose
  connection is out of the pool for good. The assumption is necessary: with `interrupt` in
  `Faults` TLC finds both violated (`connection.py:197` gives the connection back to idle
  with its reply unread).
* `TimeoutHolds` (`TimeoutCurrent`): `TimeInv` says at which points of `get_connection` the
  timeout is already right, from the start for a new connection, after `Adjust` for an idle
  one. `TicketHolds` (`TicketBeforeUse`): a ticket is not taken back, and what passes the test
  of `get_connection` has it. `CleanedOutHolds` (`CleanedOut`): a connection `cleanup()` is done
  with is held, if at all, by a client that is past `get_connection`; `LockInv` and `SetsInv`
  keep clients from adding it again.
* `LeakHolds` (`LeaksKnown`), assuming no exception thrown into `recv()`: a data object whose close raised
  can be let go at any moment, so its connection is already out of `active`, or refused; only a
  look-up leaves one that is not (`looked`).
* `IdleUsableHolds` (`IdleUsable`), assuming also that `cleanup()` is not called: only
  `disconnect()` under the lock then closes a socket (`OpenInv`). With `cleanup()` the property
  is false, and `IdleClean` is what remains.
* `Refinement` (`ImplementsLease`), under the same two assumptions. A client moves the
  lease of the connection it has, and no other (`OneClient`, `OneConnection`); `GetMove` and `UseMove`
  say for each of its steps which move that is, and all other steps stutter or let the server
  answer. It rests on
  `Exclusive` (the `CHOOSE` of the mapping has one candidate), on `RepliesMatch` and
  `CleanWhenIdle` (a lease begins and ends with nothing owed) and on `SetsInv`.

`ParallelTransferProofs`

* `TypeCorrect`, with the lemma that `bytes_range_for_thread` yields no negative range.
* `InitialClosesLast` (`FinalLast`), `NeverFinalizedShort` (`AbortedNotFinalized`). The
  invariant adds that a thread past its copy has closed its handle (`ArrivedClosed`), that
  an open barrier has every thread past its copy (`OpenedAll`), and that a broken barrier,
  a part cut short and a thread past a barrier that has not opened all come after `_quit`
  was set (`QuitFirst`): the close is made only if `_quit` is still clear.
* `ReportedFinal` (`FinalizedUnlessQuit`), assuming that there are at least as many chunks as
  threads, without which it does not hold: the thread of an empty range ends without closing.
  `ReportInv` follows the future of the initial thread to the return value and the callback.
* `SuccessIsComplete` (`SuccessComplete`), under the same assumption. The ranges are in `Nat` and add
  up to the size, and no count exceeds its range; so the sum of the counts, which is all `io_main`
  looks at, is the size only if every count is the length of its range (`SameSums`). `CompleteInv`
  adds that a thread which delivered a count has closed its handle, and that main has collected
  the futures before the one it is at.

`LoginProofs`

* `TypeCorrect`, `PolicyHolds` (`PolicyRespected`), `AcceptedHolds` (`LoggedInAccepted`),
  `SecretHolds` (`SecretInTls`), `TokenHolds` (`TokenOnce`) and `IsolationHolds` (`DepotIsolated`, an
  action property), for every set of accounts. The invariant `IInv` adds to these that a socket is there past the
  connect (`SocketThere`), that TLS is started only if the policy allows it (`TlsWanted`), that
  plugin and legacy steps do not mix (`KindOfLogin`), that a password request comes after the
  check of TLS (`TlsChecked`), that the first try of a legacy PAM login presupposes renewal
  (`Renewable`), that a file is written with a token in hand (`TokenThere`), when the depot
  and the file of `AuthStorage` are in use (`DepotOrFile`), and, once a token is issued, where it is
  kept (`TokenKept`) and that what answers the challenge is this token (`TokenAnswers`).

* `PasswordsReadBack` (`ReadBack`), for every text of characters, every stamp and user, and every ring
  of at least 61 bytes. A turn of the wheel is undone by the opposite one and makes no NUL of another
  character (`TurnsBack`), so `Decode` finds the end of the text and, five places into the added
  sequence, the turns that `Encode` made (`EncodedDecodes`). `Scramble` turns by what it has written and
  `Unscramble` by what it reads, in opposite directions: the lemmas make a function of each chain and
  show by induction on the places that the two are the same (`ScrambledReads`).

`SettingsProofs`

* `SettingsRestored` (`OverridesRestored`), for every configuration file, environment, list of
  entries, and number of threads and blocks. `RestoreInv` says what the stack of one thread knows of
  a setting (`Knows`): if its blocks saved it, the lowest of them saved what `autoload` gave, and if
  none did, the setting still has it. This is kept by each kind of step (`PushKnows` to
  `EndXmlKnows`), and the stacks of the other threads do not mind as long as two threads never
  have the setting saved at once (`GuardedAfter`), which is what `crossed` excludes. That
  `autoload` leaves in a setting what the last entry that sets it gives (`FoldLoads`, `LastSets`) is an
  induction on the file.
* `ParsersKept` (`ParserKept`): `XmlInv` adds that the parser of a thread is that of its innermost
  `xml_mode` block, until one nested in it has ended or refused its argument (`Frames`). `Threads # {}` is assumed; a program has a thread.

`CatalogProofs`

* `AgentsFreshHolds` (`AgentsFresh`), for any number of threads and any calls. The property speaks
  of one connection and one call; the invariant numbers the pools: a connection of the current pool
  has seen every settled change, one of an older pool serves only threads that read
  `session.pool` before (`AllServe`), and what a thread is lent is of the pool it read (`OwnPool`).
* `AclToldHolds` (`AclTold`), for any number of threads, users and calls. `AclInv` says, for each
  of the three queries of `get`, which users its answer may name (`GetAnswers`): those whose
  permission lasted since the call began are in each answer, those who were gone before are in none.
  A job that grants a permission names a user (`CatalogAssumption`): the model keeps names of
  users and of other things apart.

`ObjectIOProofs`, for every finite set of threads, any calls, hosts, and lists of functions
registered for the exit.

* `ConnectionsAccountedFor` (`AccountedFor`): the counts of the pools are those of the threads that hold or
  lost a connection of theirs (`Counted`), which are finite sets that change by one element, or lose
  the part a failed cleanup has taken out (`PartlyCounted`); a thread is lent connections of its own
  clone only after the redirect (`OwnSessions`).
* `HostsKept` (`HostKept`): a clone has no host until its account is made, what was stored for it is
  read back unless another redirect stored its own in between, and then it keeps that host
  (`Redirects`). `OverwritesForced` (`OverwriteForced`): `Unforced` carries what the check saw up to the
  open, unless it appeared later, `Opened` and `Written` that what an open or finished put wrote is there,
  `Clashes` who may have overwritten.
* `FlushedAtExitHolds` (`FlushedAtExit`): `AtExit` says what is closed and clean at each stage and what a failure left out, and
  `HooksInOrder` that the functions run so far are the beginning of the list of all of them, last
  registered first.

`RequestProofs`

* `CodesRoundTrip` (`CodeRoundTrip`): the floor division of a negative code is reduced to thousands of a
  natural number (`RoundedIsThousands`, `SameNominal`); families do not overlap (`FamilyNo`).
* `RowsOnceHolds` (`RowsOnce`) and `CursorsClosedHolds` (`CursorsClosed`), for any number of askers,
  connections, rows and rows to a batch. `QueryInv` says that a connection has one user
  (`Connections`), that a query with a connection is at a request (`Stays`), that a cursor belongs
  to one query and stands behind the rows that query got (`CursorsOwned`), and that the cursor of a
  query that goes on is there unless its connection died (`CursorsLive`).
* `FramesMatched` (`FramesMatch`), for every list of frames, any cuts of the stream and any end of it.
  The bytes of a frame stand in the stream at an offset that is a sum of lengths (`PackLayout`, `StreamLayout`); `InPart` says
  that the client has read up to where the part it is in begins and what it got of it, `HeaderKnown`
  that its lengths are those of the frame it is in. Lengths that counted characters would fail at
  the first of two bytes, at `HeaderSays`.
* `ItemAssignedHolds` (`ItemAssigned`), for any finite set of AVUs and any number of views: what is left
  to be sent is a suffix of the requests that remove the old values one by one and add the new one
  (`Suffix`), and the catalog is the old one without those removed (`ToRemove`).

`DataLemmas`

* The induction theorems of the library take an operator, which no prover here instantiates.
  `NatClosed` and `SubsetsClosed` state induction for sets instead, and are cited as facts about a
  set defined in the proof. From them: `FlattenSeq` as a chain of prefixes, `FoldLeft` and the other
  folds as chains of steps, recursive functions on the places of a sequence, and sums over finite
  sets, in which any element may be taken out first (`SumTakes`).

Only model-checked: the liveness properties `GetEnds`, `MainReturns`, `ThreadsEnd`, `NotifyCompletes`
and `RecvEnds`, which rest on fairness and are out of the prover's reach. All invariants and
step-wise properties of the passing runs are theorems.

## 5. Plan

Done: the pool, its service and its refinement proved; the transfer with its ranges; login with
negotiation, stored passwords and the encodings; settings; framing; codes; queries; metadata; catalog
calls; open, redirect, clones and the exit: every safety property of a passing run is a theorem.

Left, in this order; each module is written to be proved about (recursive functions or folds,
never recursive operators).

1. A common abstract server of cursors, refined by `QueryCursor` when no request goes astray.
2. Replicas of a data object and the choice of one by `open()`; seeking in a buffered file.

## 6. Not modelled

* XML and JSON packing, paths, times, the columns and conditions of queries (formatting of data);
  GenQuery2, quotas, passwords, rules and the other methods that are one request each, which are
  `Request` and `Recv` of `ConnectionPool`; the writing of a configuration file; the progress bar.
* A second ticket supplied to one session: `ticket_applied` is a flag per connection, so a connection on
  which a ticket was applied is lent without the later one (`pool.py:116`); the model has one ticket.
* Futures that hold an exception or were cancelled never count in `AsyncNotify`: `NotifyCompletes`
  leaves them out. The locks inside the executor, the dictionary of transfer managers while it is
  iterated by `abort_parallel_transfers()`, and the set of handles closed at exit from the first line
  of `quit()` are left out of `ParallelTransfer`.
* Functions registered for the exit while the exit runs, which nothing in `irods/` does; checksums, `replicate`, `trim` and the
  resolution of resource hierarchies, one request each; replicas, `seek` and buffering of a file.
* The prompts and the JSON patches of `pam_interactive`; certificates and ciphers of TLS; the digest
  that scrambles a password, of which only the ring of bytes it yields matters.
* Keywords, columns, API numbers and constants: data without behaviour.
