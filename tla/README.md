# A TLA+ verification of rust-opengauss

The repository is a family of Rust crates that talk to openGauss/GaussDB over
the PostgreSQL wire protocol, and a tool, `gaussdb-mcp`, built on them. This
directory holds TLA+ modules that model the parts of it that carry state over
time, the TLC configurations that check them on small instances, and TLAPS
proofs of what matters most for every instance. `PROJECT.json` maps each
definition to the source lines it models and lists components, runs, mutants,
findings, hazards and theorems.

`T` below stands for `crates/tokio-opengauss/src`, `G` for
`crates/opengauss/src`, `P` for `crates/opengauss-protocol/src`, `TY` for
`crates/opengauss-types/src`, `GA` for `crates/gaussdb/src` and `M` for
`tools/gaussdb-mcp/src`.

## 1. Inventory

| Component | State it keeps | Operations | What is hard | What makes it correct |
|---|---|---|---|---|
| `Connection`, `InnerClient`, `Responses` (`T/connection.rs`, `T/client.rs`, `T/codec.rs`) | request queue, queue of open responses, one held chunk, one half-written COPY, `State`, one bounded channel per request, registered wakers | `send`, `poll_next`, drop of a `Responses` or `Client`, the phases of `Connection::poll` | many tasks, one stream, answers matched by position only; back pressure; early returns; server loss | every answer reaches its own request, complete and in order; the future never sleeps with work to do; it ends only at its end |
| COPY FROM STDIN (`T/copy_in.rs`) | `SinkState`, item buffer, bounded channel | `poll_ready`, `start_send`, `poll_flush`, `poll_finish`, drop | occupies the write side; two `Sync`s; drop at any time | a copy is carried out only if finished, with all its data |
| Transactions (`T/transaction.rs`, `T/transaction_builder.rs`) | nesting depth, savepoint name, `done` flag of each handle | `start`, `savepoint`, `commit`, `rollback`, drop of a handle or of any future | cancellation between sending a query and its answer; made-up savepoint names; aborted transactions; lost connection | nothing rolled back is committed, a commit is whole, no transaction is left open |
| Prepared statements and type cache (`T/prepare.rs`, `T/statement.rs`, `T/client.rs`) | `cached_typeinfo`, `NEXT_ID`, reference counts | `prepare`, `get_type` and the lookups it nests, `execute`, `clear_type_cache`, drop of a statement | recursion with a `Responses` half read, two tasks filling the cache, cancelled prepares | no use after `Close`, no leak, no deadlock through the own pipeline, no stale type |
| Connecting (`T/connect.rs`, `T/connect_socket.rs`, `T/connect_tls.rs`, `T/connect_raw.rs`, `T/cancel_query*.rs`) | hosts and addresses to try, locals of an attempt, the last error | `connect`, `connect_host`, `connect_once`, `connect_tls`, `connect_raw`, `cancel_query` | fallback over hosts and addresses, servers that answer anything in any order, data of a failed attempt | `require` means require; SCRAM verifies the server; a session gets its own data; no host is skipped |
| MCP server connections and tools (`M/server.rs`, `M/connection.rs`, `M/queries.rs`) | one `ConnectionState` per name behind a mutex, `statement_timeout` of each session | tool calls, `get_client_for`, `connect_with_url`, `try_connect`, `downgrade_on_error`, `query_with_optional_timeout` | the mutex is released before connects and queries; sessions die or grow old; timeouts | a call gets a session of its database, a session given up never comes back, a `timeout_ms` is left behind only where its reset failed, every call returns |
| Configuration and credentials (`GA/config.rs`, `M/config.rs`, `M/main.rs`, `M/cli.rs`, `M/interactive.rs`) | the configuration file, the OS keychain, what each process has read | read and resolve, migrate, `store-password`, `check-connection` | several processes, no lock, exits at any step, each step can fail | a password is stored before the file gives it up; nobody uses another's; the file is kept |
| Simple queries, portals, typed queries, COPY TO (`T/query.rs`, `simple_query.rs`, `bind.rs`, `portal.rs`, `copy_out.rs`) | one `Responses` each and what has been read of it | request, stream of rows | typed queries look types up before they have read their rows; streams dropped half read | a call returns what the server made of its own request |
| Binary COPY, rows (`T/binary_copy.rs`, `T/row.rs`) | the buffer of a writer, a column's ranges | write a row, finish, read rows, get a column | the flush limit, names that differ in case, cut-off rows | what is copied reads back; a column is found by its own name |
| Configuration strings (`T/config.rs`), errors (`T/error/`) | none | key=value and URL parsing | quoting, percent signs, lists of hosts and ports | what is written is what is read |
| Synchronous client (`G/`) | a runtime, the connection, a notification queue, a half-read iterator | blocking calls, iterators over notifications, COPY writer and reader, transactions that roll back when dropped | the connection runs only inside a call; an answer and the connection's end in one poll; timeouts of iterators; leftovers of earlier answers | each call returns, with its own answer; no notification is lost; no transaction outlives its handle |
| Wire protocol (`P/message`, `P/types`, `P/escape`, `T/codec.rs`) | the read buffer, the shared encode buffer | frame, parse, encode, escape | pieces of any size, asynchronous messages in between, encoders that fail half way | messages arrive as sent, requests go out whole |
| Types and derive macros (`TY/`, `opengauss-derive`) | none | `accepts`, `to_sql`, `from_sql` | nested lengths, null flags, the limits of each library | a value reads back as it was; a damaged one is never taken for another |
| TLS connectors | none | wrap a library | none of their own | channel binding data |
| Process and command line (`M/main.rs`, `M/cli.rs`, `M/interactive.rs`, `M/output.rs`) | the loop's buffer | argument parsing, statement splitting, display of values, shutdown | `process::exit` from two tasks; quotes and comments open at the end of a line | a statement is cut only at its end; NULL is not confused with a value |
| Code generator, tests | none | build time | | |

How they interact: an application task calls a `Client`; the `Client` puts
requests into the `Connection`'s unbounded queue and reads a bounded channel per
request; the `Connection`, a future of its own, owns the stream. `Transaction`,
prepared statements and COPY are clients of that pipeline and rely on its
order. `connect` produces a `Client` and a `Connection`; a `CancelToken` repeats
part of its way. The synchronous crate drives both on one thread. The MCP server
keeps `Client`s in a map shared by concurrent tool calls, and calls back into
the credentials code at the first successful connect; other processes of the
same tool share the configuration file and the keychain with it.

## 2. Modules

| Module | Models | Lines |
|---|---|---|
| `Pipeline` | the abstract promise: requests are answered one after the other, in order | |
| `Connection` | the pipelining core with COPY | `T/connection.rs`, `client.rs`, `codec.rs`, `copy_in.rs` |
| `ConnectionInv` | the inductive invariants behind the properties of `Connection` | |
| `Transaction` | transactions and savepoints over an in-order queue | `T/transaction.rs`, `transaction_builder.rs` |
| `Statements` | prepare, type lookup, statement life time | `T/prepare.rs`, `statement.rs`, `client.rs` |
| `Startup` | connect and cancel | `T/connect*.rs`, `cancel_query*.rs` |
| `McpPool` | connections and tool calls of the MCP server | `M/server.rs`, `connection.rs` |
| `Credentials` | file, keychain and processes | `GA/config.rs`, `M/config.rs`, `M/main.rs` |
| `Bytes` | octets, integers and fields of the wire format | `P/lib.rs`, `P/message` |
| `Backend`, `Frontend` | parsing the server's messages, writing the client's | `P/message/backend.rs`, `frontend.rs` |
| `Wire` | the codec on a stream of octets and the shared encode buffer | `T/codec.rs`, `client.rs` |
| `Values`, `Types` | binary values; Rust types against Postgres types | `P/types/mod.rs`; `TY/`, `opengauss-derive` |
| `Rows` | columns by name and position, binary COPY | `T/row.rs`, `binary_copy.rs` |
| `ConnString`, `ConfigFile` | connection strings; the configuration file, durations, timeouts | `T/config.rs`; `GA/config.rs`, `duration_parse.rs`, `M/config.rs` |
| `SqlText`, `Output` | escaping, statement splitting; display of values | `P/escape`, `M/interactive.rs`, `cli.rs`; `M/output.rs` |
| `Formats` | composes the last nine and states what each conversion is for | |
| `Query` | how each kind of call reads its own answer | `T/query.rs`, `simple_query.rs`, `bind.rs`, `copy_out.rs` |
| `SyncClient` | the blocking client on `Query`'s readers | `G/client.rs`, `connection.rs`, `notifications.rs`, `transaction.rs`, `row_iter.rs`, `copy_out_reader.rs` |
| `MC*` | instances for TLC | |
| `ConnectionProofs`, `DeliveryProofs` | theorems about `Connection`: types, wakers and what is routed where; what is delivered, COPY, the refinement of `Pipeline` | |
| `TransactionProofs`, `StatementsProofs`, `StartupProofs`, `McpPoolProofs`, `CredentialsProofs`, `SyncClientProofs` | theorems about the component each is named after | |

**Connection.** A request is its submission number; every backend message
carries, as history, the request that caused it and its place in the answer, so
that misrouting can be seen. One poll of the `Connection` is the phases read,
write, flush, end (`pc`), each a set of actions for the branches of `poll_read`,
`poll_write`, `poll_flush`, and then it parks with the wakers it has registered;
tasks and the server run between any two steps. `chan` is the bounded channel
(capacity plus one per sender), `pendingResponses` the chunk that found its
channel full, `pendingRequest` the COPY being written. Chunks are what the codec
makes of the messages in the read buffer: several up to and including
`ReadyForQuery`, asynchronous messages alone. The server is external: it executes
in order, may insert asynchronous messages, may fail a request, may refuse a
COPY before copy mode (`EarlyCopyError`) and may go away (`ServerMayClose`).

**Transaction.** Handles borrow their parents, so only the innermost can be
used. Each operation sends a simple query and awaits it; `Cancel` drops the
future in between. The guard `RollbackIfNotDone`, drop, and the made-up names
`sp_1, sp_2, ...` are the code's; the session (`tx`, `stack`, `pending`) is the
external server. `Lose` breaks the connection at any point. The queue in order is
what `Connection` implements.

**Statements.** A task is a stack of frames, one per async fn of `prepare.rs`;
each may own a `Responses` not read to the end while deeper frames make requests.
The three cached statements and the type map are shared. The `Connection`
delivers in order and stops at a full channel, so that a deadlock of the driver
with itself would show; what is left of an answer whose `Responses` was dropped
is for nobody and paged into nothing. `TypedRows` is the number of row batches a `query_typed`
answer has: its lookups run before any of them is read.

**Startup.** One action per await point of `connect`, `connect_host`,
`connect_once`, `connect_tls`, `connect_raw` and `cancel_query`. The other end is
the environment: every message the codec can parse, in any order, or a hang-up.
`Configs` is the set of configurations; TLC takes every combination of options
of `MCStartup`.

**McpPool.** A section under the mutex is one step; nothing else is atomic. A
session is one database connection, known by its order of opening; calls hold it
through an `Arc` whatever becomes of the map's entry. The startup probe is a call
of its own. Sessions end and age at any time. The `SET` that puts `timeout_ms` in
force and the one that resets it may each fail in a live session, the reset also
under the timeout it is to undo; the code ignores that failure, and `unreset`, a
history variable, names the sessions it happened in.

**Credentials.** The password that connection *c*'s database accepts is *c*. The
file maps each connection to a plaintext password, the sentinel `keyring` or
nothing; `<<>>` is a file no connection can be read from. A process is a server,
a session (one cli call or interactive session), a `check-connection` or a
`store-password`. `store_keyring_password` is two steps (set, read back),
`rewrite_password_to_sentinel` three (read, truncate, write); each may fail and
the process may exit before any of them. Two threads of one server that migrate
two connections at once are covered by two processes. `intended` and
`harm` are history: the file as it is meant to be, and three
things the code does not guard against (see the properties).

**Formats** and the modules under it. The conversions are operators from input
to output, named as in the code; a reader returns the value with the rest of its
buffer, an error, or `Panic` where a slice beyond the buffer does not return. `Wire` has actions: the server's octets arrive in pieces of
any size, `decode` cuts batches off, requests are encoded into the one shared
buffer and split off. Each other conversion is one step that takes one of the
inputs `MCFormats` lists and keeps what the code makes of it. Widths are
constants (`MaxU16`, `MaxI32`, `MaxMillis`, ...): small in the instance, so that
too many values, too long a message and a product that overflows all happen.
Text is a sequence of the characters the code looks for and of words it does not
look into. A text of JSON is `null` or an object of keys and numbers. What is
typed at the prompt stays in one buffer: Enter adds a newline as long as
`validate` finds it incomplete, and then the whole buffer is split once
(`Handover`, `EnterBehind`).

**Query** and **SyncClient.** `Query` has one operator per reading loop: the
state of a call's future and the next message give the next state. `SyncClient`
runs these futures as `poll_block_on` does: `PollRead` takes messages until the
connection has nothing more, queueing notifications, and only then does
`PollFuture` write requests and poll the call. One thread and Rust's borrows
leave at most one `Responses` alive; every other answer is paged into nothing.
The server answers with the rows, the error or the suspension that `plan`
records, may add asynchronous messages and may go away. The application holds a
transaction, a portal, an iterator or a `TimeoutIter` and may drop any of them
between calls. The instance starts with one notification queued, inside or
outside a transaction.

## 3. Runs

The longest run (`sync`) takes about three minutes with two workers, `statements`
and `mcp_pool` two to three, `conn_pipeline` and `conn_live` about one and a half
each, the others under one. Unless
noted, deadlock is checked; it is switched off where every call may have been
made or every input converted (`tx`, `statements`, `startup`, `credentials`,
`formats`, `sync`).

| Run | Bounds | Shows | Distinct states |
|---|---|---|---|
| `conn_pipeline` | 2 requests of which one may be a COPY of one item, 1 row, 1 asynchronous and 1 delayed message, channel capacity 1, write boundary 1, server may close | `RoutedToOwner`, `NothingLost`, `ResolvesOnlyAtEnd`, `NoLostWakeup`, `CopyOnlyIfFinished`, `FinishMeansCommitted`, refinement `ImplementsPipeline` | 3.1 M |
| `conn_live` | 2 requests, COPY refused early, server may close | `EveryRequestResolves`, `ClientDropEndsConnection` | 327 k |
| `conn_copy_refused` | as above without loss | finding 1 | violation |
| `tx` | 3 handles, 2 writes, queue of 2, loss of the connection, distinct names | `NoOrphanTransaction`, `RolledBackNeverCommitted`, `CommitsAsAWhole` | 1.5 M |
| `mcp_pool` | 2 lazy connections, 2 calls with `timeout_ms`, 2 sessions, lifetime, action `disconnect` | `RightDatabase`, `FailedNotPooled`, `TimeoutNotLeaked` | 5.9 M |
| `mcp_timeout` | 1 call | finding 2 | violation |
| `statements` | 2 tasks, 2 calls, a composite and an enum type, 1 fault | `StatementExists`, `NoStatementLeak`, `NeverBlockedByCaller`, `FreshAfterClear` | 6.9 M |
| `typed_lookup` | as `statements` with `TypedRows = 1`: the row of a `query_typed`, its `CommandComplete` and `ReadyForQuery` arrive in a batch each, one more than a channel holds | finding 3 | violation |
| `startup` | every combination of options, 2 hosts, 2 addresses | `RequireMeansTls`, `BindingRequired`, `ServerVerified`, `HandsOverItsOwn`, `FailsOnlyAfterAll`, `TargetSessionMet`, `CancelsItsOwnSession` | 586 k |
| `credentials` | 2 connections of one user and host, 2 processes at a time, 4 starts | `SentinelMeansStored`, `OwnPassword`, `ConfigKept` | 803 k |
| `formats` | streams of up to three frames cut anywhere, up to 2 requests of several messages, the listed values, ranges, rows, strings, files and scripts, Enter behind every character | `MessagesAsSent`, `RequestsAreWholeFrames`, `TypesRoundTrip`, `RowsReadBack`, `ConfigReadBack`, `SqlTextKept`, `ShownAsIs` | 58 k |
| `sync` | 2 requests of any kind, up to 2 rows, 1 asynchronous message, the server may go away | `OwnAnswer`, `NotificationsInOrder`, `TxEndsWithHandle`, liveness `EveryBlockOnReturns` | 1.8 M |

`NothingLost` has three parts: chunks are paged in order (`PagedInOrder`), none
is dropped on the way, and a `Responses` sees the end only behind a complete
answer or with the connection gone. `CommitsAsAWhole` contains that an `Ok` from
a commit of a transaction without an error means committed, `NoOrphanTransaction`
that no write runs outside of the transaction it was made in.

Why the bounds are enough. Two requests are the fewest that can be confused, two
rows the fewest that can be reordered, and with capacity 1 the second chunk of an
answer already takes the detour through `pending_responses`; a longer queue
repeats the same transitions, as the code looks only at its ends. Three handles
make two savepoint levels under a transaction, which name shadowing needs. Two
callers and two names are what an overwritten entry needs, and two sessions per
name a session given up and its replacement. A composite type with an enum reaches each of the three nested
lookups. Two hosts with two addresses reach every fallback. In `sync` the second request
is the one that meets what the first has left behind, and two rows are more than
one is read of. In `formats` the inputs reach every arm of every conversion, and
every piece boundary of a stream is taken. Four starts are what
a lost update followed by a check by a third process takes; with three a
violation of an earlier form of `OwnPassword` went unseen, and the proofs of
section 5 now hold for any number. Symmetry is used over callers, tasks and
processes, never in a run with a liveness property.

Every property of a passing run has a mutant, a plausible slip in one mapped
definition, that TLC finds with the run's own configuration.

Fairness. `conn_live`: weak fairness of `Poll` (the executor polls a woken
future and drops a resolved one), of the server's reading and answering, and, for
each request, of the task that awaits its `Responses` or finishes its sink
(`NextMessage`, `SeeClosed`, `CopyStart`, `BeginFinish`, a flush while finishing,
`FinishDone`). `BeginFinish` presumes an application that finishes or drops a
sink it has opened: without that, an idle COPY blocks the pipeline by design.
Nothing forces the `Client` or a `Responses` to be dropped, and a full channel of
a task that is polled is emptied. `sync`: weak fairness of
polling (`PollRead \/ PollFuture`: `block_on` polls a woken future), of the
server's `Execute` and `Deliver`, of `Elapse` (time passes) and of `Hangup` (a
server that has closed is seen to have closed). Nothing forces the application
to go on, and `BlockingIter` is exempt: it may wait for ever by its documentation.

## 4. Findings and observations

With a run:

1. `conn_copy_refused` — `connection.rs:46-47` says the `Connection` resolves
   only at a fatal error or when its `Client` is dropped. A COPY refused before
   copy mode is answered with two `ReadyForQuery` (`copy_in.rs:197` and 48-61
   send two `Sync`s), and the second ends the connection with
   `unexpected_message`, or completes the next request.
2. `mcp_timeout` — `server.rs:392-393` says `timeout_ms` is for this query only.
   `SET statement_timeout=DEFAULT` (`server.rs:825`) restores the server's value
   and not the configured one; that it may also restore nothing is noted below.
3. `typed_lookup` — `client.rs:433` says `query_typed` is like `query`, which
   returns the rows. It looks up unknown column types (`query.rs:102`) before it
   has read a row: when the rows do not fit into its channel, the lookup's answer
   is behind them, and call and connection wait for each other.

Seen while modelling, without a run of their own:

Asynchronous client and tools:

- `transaction.rs:64` says `rollback` discards all changes made within the
  transaction. A made-up savepoint name `sp_2` (`transaction.rs:333`) can equal
  one the application gave an outer savepoint; rolling the outer one back then
  returns to the inner and part of its changes is committed. `MCTransaction` with
  `NamesReused = TRUE` shows it as a violation of `RolledBackNeverCommitted`.
- `downgrade_on_error` (`server.rs:730`) looks at the entry, not at the session
  that failed: a late error of an old session costs a fresh one a reconnect. The
  callers keep theirs, so nothing is lost.
- The reset of `timeout_ms` runs under `timeout_ms` itself and its error is
  dropped ("Best-effort", `server.rs:823-825`): cancelled, it leaves the value in
  force for whoever uses the session next, against `server.rs:392-393`.
  `TimeoutNotLeaked` names these sessions (`unreset`) and shows that none but
  they keep a `timeout_ms`: not those whose query failed or timed out, nor those
  whose first `SET` did.
- The fallback of `typeinfo_statement` (`prepare.rs:203`), for servers without
  `pg_range`, is prepared after an error; inside an explicit transaction it fails
  too.

- `server.rs:627-628` says a dead entry becomes `Connecting` so that concurrent
  callers do not race to reconnect; a call that finds `Connecting`
  (`server.rs:666-671`) connects as well, and the later insert replaces the
  earlier. Both sessions work, which is what `RightDatabase` shows.
- `COMMIT` of an aborted transaction returns `Ok`; `CommitsAsAWhole` speaks of
  transactions without an error there.
- A type lookup in progress during `clear_type_cache` re-inserts what it read
  before; `FreshAfterClear` exempts exactly these types.
- `target_session_attrs` refuses one text, `on` or `off`; NULL or any other
  answer is accepted (`connect.rs:190-207`). `TargetSessionMet` asks for no more.
  The documentation names a parameter `transaction_read_write` that is to be `on`
  (`config.rs:163-164`); the code asks for `transaction_read_only`.
- With `target_session_attrs` the startup notices are logged and not handed
  over; `connect_timeout` covers the socket only; `sslmode=prefer` without a
  host name fails where the connector needs one instead of going on without TLS.
- `keyring_username` (`GA/config.rs:256`) leaves out the port and the name: two
  connections that differ only in these share a keychain entry. The proofs
  assume `DistinctUsers` and the run uses distinct databases.
- `check_keyring_available` (`M/main.rs:166`) writes its test value into the
  user's own entry and leaves it there. `SentinelMeansStored` and `OwnPassword`
  exempt exactly the case that somebody relies on that entry (`harm` has
  `check`).
- Two overlapping rewrites can bring a plaintext password back, although
  `UserGuide.md:585` says that files never contain passwords after migration,
  and a process that ends inside `fs::write` loses the file; `ConfigKept` exempts
  these two (`overlap`, `crash`) and shows that nothing else loses anything.
- A server treats a missing password as "no password", the other commands need a
  keychain entry then.

Synchronous client:

- `poll_block_on` returns the connection's error before it polls the call: an
  answer that arrived together with the end is lost to its caller
  (`G/connection.rs:77`). A fatal error behind a notice is delivered as the
  answer of the request in front of it.
- After its delay has run out, `TimeoutIter` returns `None` at once for ever
  unless a notification is queued; its documentation says it blocks up to the
  timeout. `Iter` and `BlockingIter` return an error on a disconnect where the
  documentation says `None`.
- `RowIter` and `CopyOutReader` asked again after their end return an error;
  `close` runs its body a second time in `Drop`.

Formats:

- `sslmode` values `verify-ca` and `verify-full` are documented
  (`docs/UserGuide.md:598-601`, `README.md:573`) and accepted in the file, but
  `to_connection_url` (`GA/config.rs:265-295`) passes them to `Config::param`
  (`T/config.rs:600-607`), which refuses them. `ConfigReadBack` has no demand
  about the two, neither that they work nor that they are refused.
- `to_connection_url` does not quote. `ConfigReadBack` says for which values that
  is harmless, and exactly for these (`NeedsNoQuotes`): with a blank, a backslash
  or a quote in front the string is refused or names another user, password or
  database than the file. An unquoted empty value takes the next pair as its
  value, and an empty keyword ends the parsing without an error.
- A connection given as a `url` in the file always gets TLS mode `Disable`, and
  `resolve` asks the keychain for a password of it. `needs_tls`
  (`M/connection.rs:3-10`) looks for `sslmode=` between blanks, so that
  `?sslmode=require` in a URL gets no TLS connector and cannot connect.
- The comment at the protocol version says 196675; the constant is
  0x00030033 = 196659.
- An HSTORE cut off inside a key or a value panics: `HstoreEntries::next` uses
  `split_at` (`P/types/mod.rs:276`, 284), where the other readers use
  `split_at_checked` (644, 773). `TypesRoundTrip` states it: a cut elsewhere, and
  of any other type, is an error.
- TIMESTAMPTZ, TIMETZ, CIDR and wide NUMERIC columns are shown as unsupported by
  their octets, which loses nothing. `ShownAsIs` has four exceptions, each
  written out in it:
  - JSON output has `null` for NaN, for infinities and for a JSON `null`, as for
    NULL; the comment at `output.rs:340-345` says that a value is never lost so.
  - The time of a negative interval is shown without its sign, and a fraction of
    a second is added to the seconds it should be taken from: -0.5 s is shown as
    `00:00:01.5` (`output.rs:449`); the comment at 416-417 says it mirrors psql.
  - An `inet` is shown without its netmask.
  - JSON goes through `serde_json::Value` (`output.rs:113-119`): of a key that
    occurs twice the last value is shown, and an integer beyond `u64` as a double.
- `chrono` and `time` read 24:00:00 as 00:00:00, `jiff` refuses it; a record's
  reader ignores octets behind it; the `u128` sum of a NUMERIC
  (`rust_decimal_1.rs:52`) is unchecked; a binary COPY writer keeps the part of a
  row in front of a value that failed to convert; the derived `FromSql` of a
  transparent type or domain asks `ToSql::accepts`.
- The statement splitter does not know `E'\''` strings. A `--` comment or the mark
  of a dollar quote is ended by Enter (a newline, `interactive.rs:211-213`), which
  changes what is executed; `SqlTextKept` speaks of Enter anywhere else.

## 5. Theorems

All are proved for every value of the constants that satisfies the module's
named assumption (types of the constants; distinct tags), with hierarchical
proofs, one step per action.

- `Connection`. `ConnectionProofs!TypeCorrect` is `TypeOK` of the whole
  pipelining core and `WakeupKept` is `NoLostWakeup`, both without assumptions
  on the server. Its other theorems and those of `DeliveryProofs` assume
  `~EarlyCopyError`: with a COPY refused before copy mode they are false, which
  is finding 1. Their invariants are in `ConnectionInv`, each relating two parts
  of the state that no property relates:
  - `IInv`: what is queued, held, open and on the way pairs up, position by
    position, with the requests not answered to the end. `RoutedToOwner`
    (`AnswersReachTheirRequest`) looks only at what has arrived; that the next
    chunk will go to its owner takes the whole line. How many answers precede a
    place in it is a prefix sum (`Sums`), a function and no recursive operator.
    `ResolvesOnlyAtEnd` (`EndsOnlyWhenDone`) follows from it.
  - `WakeInv`: for each thing a parked `Connection` may wait for, the waker that
    is registered.
  - `PageInv` and `DeliveryInv`: what a channel, the held chunk and the stream
    still have of an answer is the rest of it, in order; so `NothingLost`
    (`AnswersAreWhole`).
  - `ItemsInv` and `CommitInv`: what the server has of a COPY is a prefix of what
    was put, a `CopyDone` has been written only after all of it and by `finish`;
    so `CopyOnlyIfFinished` (`CopyNeedsFinish`) and `FinishMeansCommitted`
    (`FinishIsCommit`).
  - `Refinement`: `Connection` implements `Pipeline` under the mapping of
    `ImplementsPipeline`: every action is one of its steps or a stutter.
- `TransactionProofs`. `NoneLeftOpen` is `NoOrphanTransaction`, also with
  `NamesReused`. `TxInv` says where the server will stand once it has executed
  the queue: what is queued in front of a write does not end the transaction,
  and after a dropped handle or future it does. The property speaks only of an
  empty queue and of no write, and is not inductive for both reasons.
  `RolledBackStaysOut` is `RolledBackNeverCommitted` and assumes `~NamesReused`:
  with a reused name it is false (section 4, `transaction.rs:333`). It rests on
  `SpInv`: the savepoints of the open handles, and of those whose `RELEASE` or
  `ROLLBACK TO` is still queued, are on the server's stack in the order of the
  handles (`ChainInv`), and no `SAVEPOINT` still queued will hide one
  (`HideInv`), also not one whose future was dropped; what was written under an
  open handle lies behind its savepoint's mark, and for everything written under
  one that was rolled back a query is queued that discards it, before any
  `COMMIT` (`DoomInv`).
  `CommittedAsAWhole` is `CommitsAsAWhole`, under the same assumption: with a
  reused name a `ROLLBACK TO` discards what was written under another handle.
  `WholeInv` is the other direction of `SpInv`, that nothing else is discarded:
  - `UntouchedInv`: going back to the savepoint of a handle takes only what was
    written under it, and a queued `ROLLBACK TO` only what is rolled back.
  - `RootInv`: what the server has not disposed of was written under the latest
    outermost handle, whose `COMMIT` therefore never takes another's writes;
    `CommitInv`: a queued `COMMIT` finds a transaction.
  - `KeptInv`: a write answered `Ok` and not discarded is in the transaction as
    long as that lives; `AbortInv`: if the server has aborted it, one of its
    statements was answered with an error. So a `COMMIT` that commits nothing
    is excluded by the property's hypothesis and by nothing less.
  - `TogetherInv` and `AckInv`: what `COMMIT` has then done, in all of `committed`
    and for the handle whose `commit` has returned. `CallInv` and `WholeType` tie
    the awaited call to the last query of the queue.
- `StatementsProofs`: `StatementsType`, `StatementsExist` (`StatementExists`),
  `StatementsDontLeak` (`NoStatementLeak`), `StatementsFresh`
  (`FreshAfterClear`), and `StatementsNeverBlocked` (`NeverBlockedByCaller`) for
  `TypedRows = 0`; with rows it is false, which is finding 3. The inductive
  invariant is `IInv`, in five parts.
  - `TypeOK`, and `StackInv`: the stacks are those that the functions of
    `prepare.rs` build by calling each other, and where each call stands it has
    or has not its `Statement`.
  - `TalkInv`: each request on its way is for the call that waits for it and has
    nothing of its answer yet, each message on the wire for a call that may
    still be told it, in the order of its answer. So a call that is told
    something knows how far the server is.
  - `StmtInv`: a name is made up once (`MadeInv`); while its prepare is under way
    what that has been told says whether the server has the statement
    (`MakingInv`); what is held exists and no `Close` of it is queued
    (`HeldInv`); a queued `Bind` has no `Close` of its statement in front
    (`QueueInv`); and the server has nothing but what is held, being made, given
    up or about to be closed (`ServerInv`). `StatementExists` looks only at the
    first request of the queue and `NoStatementLeak` only at an idle client, so
    neither is inductive.
  - `FreshInv`: what a lookup has read, or is about to be told, since the last
    `clear_type_cache` is of the present version.
  `ChanInv`, for the last theorem, says how full the channel of a call that does
  not read may be when each message of its answer is still to come. Most of the
  proof is one lemma, `MovesKeep`: whatever a task does is the same step (some
  calls go on, return or are made, their `Responses` dropped, at most one request
  sent, a `Close` for each `Statement` nobody names any more), and each action
  is shown to be one.
- `McpPoolProofs`: `PoolTypeCorrect`, and from one inductive invariant
  (`PoolInv`: with the two properties, that only opened sessions are held, and
  that a session whose connect is not yet installed is in nobody else's hands
  and has not been given up: without the last, an install could bring a failed
  session back) `PoolRightDatabase` and `PoolKeepsFailedOut`;
  `PoolLeaksOnlyUnreset` (`TimeoutNotLeaked`) from a second one (`LeakInv`: a
  timeout in force belongs to a live session, and to a call that was made with
  one unless the reset failed in that session; a call that is to set one was made
  with one).
- `StartupProofs`: `StartupTypeCorrect` and, from
  `StartupInv = TypeOK /\ PlaceInv /\ AuthInv /\ InfoInv /\ SentSafe`,
  `StartupRequiresTls`, `StartupRequiresBinding`, `StartupVerifiesServer`,
  `StartupHandsOver`, `StartupMeetsTarget`. The invariant relates the program
  counter to the locals of the attempt (what has been negotiated, verified and
  received), which the properties of a finished connect cannot do by themselves.
  `StartupTriesAll` (`FailsOnlyAfterAll`) and `StartupCancelsItsOwn`
  (`CancelsItsOwnSession`) rest on `WalkInv`: the hosts and addresses tried are
  those in front of the cursor of the current order, and the order, shuffled or
  not, is a permutation; that as many distinct places as there are hosts leave
  none out is a counting argument over finite sets. A `CancelToken` has the host
  and address of the session whose key it has.
- `CredentialsProofs`: `CredentialsTypeCorrect`; under `DistinctUsers`,
  `SentinelIsStored` and `PasswordsNotMixed` from `CredInv`: as long as no test
  value has been left in a used entry, every text of the file, read or to be
  written, and every configuration read says `keyring` only where the keychain
  has the password, a process past its read-back has its own password stored,
  and what it has in hand is its own. `SentinelMeansStored` alone is not
  inductive: the texts held by rewriting processes are the file of later.
  `FileKept`, without that assumption, from `KeptInv`: as long as no rewrites
  overlap and none is cut short, one process at a time is between its read of the
  file and its write, and its text is what the file is meant to be.

- `SyncClientProofs`: `NotificationsKept` is `NotificationsInOrder`, from `TypeOK`
  and `NoteInv`, which adds that an answer holds no notification: what the server
  is still to deliver never stands between two of them.
  `AnswersOwnRequest` is `OwnAnswer` and `NoTxWithoutHandle` is
  `TxEndsWithHandle`, both from `SyncInv`; neither is inductive, since a call that
  has not returned promises nothing, and what it will return is spread over the
  future, the channel of its `Responses`, the socket and the server. `SyncInv` says
  where it is:
  - `LineInv`: requests are numbered, and those queued, written, being answered
    and answered are consecutive ranges of these numbers, the messages that arrive
    being in the order of their requests and each answer closed by its
    `ReadyForQuery`. So the `Responses` at the front of the queue owns the message
    that arrives, whether or not anyone still waits for it.
  - `CallInv`, `HandleInv`, `LastInv`, `AskedInv`, `ChanInv`: the blocked call, the
    iterator the application holds and the one live `Responses` are each other's;
    a live request is the last one asked; only it can be a `begin`; nothing is in
    the channel of a request nobody waits for.
  - `LiveInv`: with a plan made of the live request, the future is the one that has
    read the first k messages of the answer, the channel and then the socket hold
    messages k + 1 to q in order, the server the rest; without a plan the future
    is at its start and no message of its request is anywhere.
  - `TxInv`: a session in a transaction has a `Transaction` in the application, or
    a `begin` answered and not taken yet, or an end of it not executed yet.

  Its core is `ReadStep`, about `poll` of `Query`: each reading loop of the client
  makes of the next message of an answer either the future that has read one
  more or the outcome that was promised, for every kind of call and every plan.

The `TypeOK` theorems need no run: each is part of the inductive invariant of
the theorems after it.

Each inductive invariant was itself checked with TLC, as an invariant, before it
was proved: those of `Connection` on two requests (3.1 M states) and on one with
up to three COPY items (1.1 M), `WalkInv` on the `startup` run's instance,
`TxInv` on that of `tx` and on one with reused names and a queue of three
(4.7 M), `SpInv` on that of `tx` and on one with a queue of four that loses no
connection (10.2 M), `WholeInv` on that of `tx` (1.5 M), `IInv` of `Statements` and `ChanInv` on that of
`statements` (6.9 M), `SyncInv` on two requests (1.8 M). Proving them corrected one property: an earlier `NoLostWakeup` had a
parked `Connection` never able to start a write. With a write boundary of two or
more it may be: once the buffer has reached the boundary, `Framed::poll_ready`
waits for a full flush, and after part of it was taken the buffer is below the
boundary again while the socket has the waker. The run has a boundary of one
and could not see it.

Only model-checked: the liveness properties (fairness and `ENABLED` are outside
this prover); and `Formats`, whose conversions are recursive definitions: what
these compute for every input is out of the prover's reach. Every other invariant
of the passing runs is a theorem.

## 6. Not modelled

- TLS libraries and the connectors around them: `Startup` has what `connect_tls`
  does with their outcome.
- Hashes and signatures (SCRAM, MD5, SHA256, SM3): a proof is right or wrong, never
  computed.
- The generated tables (`type_gen.rs`, `sqlstate.rs`), the code generator, the
  syntax trees of the derive macros and the second version of each external
  library's conversions: tables, build time, or the same code again.
- `CopyInWriter`, savepoints and `prepare` of the blocking client: the operations
  of `Connection`, `Transaction` and `Statements` inside one `block_on`.
- Wording of errors and of the diagnosis `check-connection` prints, argument
  parsing, line editing, logging, table layout, TOML.
- Timeouts as clocks: a timeout may fire at any time it is armed.

## 7. Plan

Built, in this order: `Pipeline` and `Connection` (everything else rests on
them), `Transaction`, `McpPool`, `Statements`, `Startup`, `Credentials` and their
proofs; then the format modules with `Formats`, `query_typed` in `Statements`,
`Query` and `SyncClient`.

Next:

1. `CopyInWriter` and savepoints in `SyncClient`.
2. A run for the shared keychain user and one for the returning password, in
   place of merged ones.
