# Verification of saprfclib

TLA+ models of `saprfclib`, a pure-Python implementation of SAP's RFC protocol
(client and server), with TLC configurations that check them on small instances
and TLAPS proofs for every size. Paths below are relative to the package,
`src/src/saprfclib/` in this tree, unless they start with `docs/`.

* `PROJECT.json` lists components, runs, mutants, hazards, theorems and, for each
  TLA+ definition, the source lines it stands for.
* Check a model: `tlc -workers 4 -config Pool.cfg MCConnectionPool`.
* Check the proofs: `tlapm ConnectionPoolProofs.tla`, and the other `...Proofs`.

## 1. Inventory

| component (file) | state it keeps | operations | how it meets the others |
|---|---|---|---|
| Thread-safe pool (`pool.py`, `ConnectionPool`) | `_idle`, `_in_use`, `_created`, `_closed`, one `Condition` | constructor warm-up, `acquire`/`_checkout`, `release`, `close` | calls `connect`, `ping`, `close` of connections with its lock released |
| asyncio pool (`pool.py`, `AsyncConnectionPool`) | the same, with an `asyncio.Condition` | `start`, `acquire`/`_checkout`, `release`, `close` | the same; `wait_for` cancels the checkout when the acquire timeout elapses |
| Conversation (`connection.py`, `session.py`, `invoke.py`) | connection lock, `SessionState`, metadata and layout caches, the byte stream | `call` with its metadata bootstrap, `ping`, `call_transactional`, `confirm_tid`, ... | one socket shared by every task that uses the connection |
| `connect()` (`connection.py`) | sockets, `Session` state, credentials | message server lookup, SOCKS5, tunnel, TLS, upgrade, SAProuter, NI, gateway, GSS, logon | drives `router.py`, `socks5.py`, `ws.py`, `snc.py` and `session.py` over one socket |
| wRFC connection (`connection.py`, `ws.py`) | lock, transport, pending logon, session state | lazy logon, `call`, `ping`, `get_connection_attributes`, fallback to a classic connection | a connection that `connect()` returns before its logon; a fallback runs `connect()` again |
| tRFC client (`connection.py`, `stores.py`) | TID, attempts, parked bytes in the store | `call_transactional`, `_submit_with_retry`, `retry_parked`, `confirm_tid` | sends over the conversation; shares a durable store between processes |
| tRFC server (`server.py`, `stores.py`) | TID state: received, executed, rolled back | `_dispatch_transactional`, `ARFC_DEST_CONFIRM` | called by the serve loop, one frame at a time; runs the application's handler |
| bgRFC units (`connection.py`, `server.py`, `stores.py`) | buffered calls, unit state by unit ID and type, parked units | commit (ship), re-drive, state query, confirm; playback of the unit's calls | as tRFC, several calls per unit |
| Serve loop (`server.py`) | `_stopped`, thread, transport, registration, conversation ID | `serve_forever`, the serve thread, `stop`, `close` | gateway connection; dispatches to handlers |
| Loop thread of the classic facade (`connection.py`) | event loop in a thread, queued coroutines | `run`, `close` | other threads' calls wait on futures |
| TLV stream (`invoke.py`, `codec.py`, `server.py`) | none | request and reply records, tables, walk of a stream, join of frames | what a conversation carries |
| Metadata cache (`metadata.py`) | descriptors by system ID | get, put, clear | shared by all connections to a system |
| Compression (`compress.py`) | none | LZC, LZH, LZ4 | pure functions of table contents |
| Framing (`transport.py`) | socket, read timeout | send, recv | a stream of NI frames |
| Exceptions, trace, language, JSON helpers | none | | |

### What is hard here

* The pools give their lock up around each ping, open and close: everything may
  happen in between, including `close()`.
* asyncio tasks can be cancelled at each await. The pool's own acquire timeout
  is such a cancellation.
* RFC replies carry no request number and no length. A reply that was not read
  to its end is the next request's answer; the library must retire the
  connection instead. Nor need a reply say that it is one: only an exception or
  a return code but 0 is a failure, so a reply with neither is a success.
* tRFC and bgRFC retry, park and re-drive what they do not know the outcome of.
  Requests of a connection that was given up may still arrive, and the server
  may crash between any two steps of its exactly-once gate.
* The server's attributes `_stopped`, thread and transport are shared without
  a lock by the serve thread and those that start, stop and close it.
* `connect()` strings together legs from six modules, each of which sends one
  request and reads one reply over the same socket; any may fail, or hang.

### What makes each component correct

* Pools: the slot count is exact and under the ceiling; one owner per
  connection; no open socket is forgotten; no waiter sleeps beside a free unit;
  a closed pool lends nothing and drains; a checkout ends.
* Conversation and wRFC: no operation takes another's reply for its own; a
  connection that is out of step is never READY; BROKEN is final; every
  operation ends; a session whose logon failed gets no invoke.
* `connect()`: each leg reads its own reply; credentials go out last and under
  the protection asked for; a failed leg closes its socket; it ends.
* tRFC: the handler runs at most once per TID; success means executed, unless
  the reply said nothing; a call given up for want of an answer is parked or was
  executed; an executed call is not reported refused.
* bgRFC: the same per unit, its calls in order.
* Serve loop: a reply carries its call's conversation ID, is followed at once by
  the 06d1 that makes the gateway deliver again, and `stop` ends the thread.
* TLV stream: what is read is what was written, wherever the gateway cuts it;
  the reader gives up on no reply but one of more frames than its cap.
* Loop thread: a queued call is run or failed, never forgotten.
* Metadata cache: a descriptor found is one that was complete when put.

## 2. The models

| module | models | how state and actions correspond |
|---|---|---|
| `PoolContract` | what both pools promise | abstract: callers ask, reserve, are lent, give back; no pings, waiters or close lists |
| `ConnectionPool` | `ConnectionPool` | `idle`, `inUse`, `created`, `closed` are the four fields; `waiters` is the Condition; `pc`, `conn`, `victims` are each thread's place and local variables. An action is one critical section, or one call made with the lock released. `live` and `broken` say what became of the sockets |
| `AsyncConnectionPool` | `AsyncConnectionPool` | the same names; an action is the code from one await to the next, and `Cancel...` is a `CancelledError` raised at an await |
| `Conversation` | `AsyncConnection` on a classic transport | `holder` is the connection's lock, `session` the `SessionState`, `phase` the request whose reply is read; `owed`, `part` and `wire` are the server's side and the stream. `Enter` takes the lock, checks the state and sends; each `...Answered` is the code after that read up to the next send or the end; timeouts and cancellations are actions of their own for each kind of `except` around a read |
| `ConnectPath` | every path of `connect()` and `connect_async()` | `path` is the caller's parameters, `at` the read or step the code is at, `session` the `SessionState`, `ms` and `sock` the two sockets, `sent` what went out and under which protection. An action is the code from one reply to the next request. Far ends are external: they answer, refuse, hang up or say nothing |
| `WsSession` | the `Connection` a wRFC `connect()` returns | extends `ConnectPath`. `step[t]` is the reply a thread waits for, `mine[t]` the request it belongs to, `holder` the lock (which `get_connection_attributes` does not take). Each action is the code from one reply to the next; a fallback runs `ConnectPath`'s steps again |
| `DeliveryContract` | what both kinds of transactional delivery promise | abstract: the call is executed once, parties are told success, failure or that it was given up, the store keeps it; no connections, retries, server states or queries |
| `TransactionalDelivery` | both ends of one TID | client: `Submit`, `TakeReply`, `AttemptFails` (a `CommunicationError`: sent again or parked), `ReplyBreaksOff` (a join's `ValueError`: neither), `Resend`, `Fetch`/`Redrive`/`Unpark` (`retry_parked`), `Confirm`; network: `Disconnect`, and what puts stray replies on the connection: `GatewayAborts` (a frame header without a body, "empty") and `OtherLapses` (another operation left the connection READY, its reply, "other", to come); server: `Accept` (`is_executed`, then `mark_received`), `HandlerRuns`, `HandlerRefuses`, `Undecodable`, `Commit` (`mark_executed` and reply), `AnswerDuplicate`, `AnswerOther`, `Crash` |
| `UnitDelivery` | both ends of one bgRFC unit | sender: `Submit`, `ShipUnanswered`, `ShipBreaksOff`, `Resend`, `Fetch`/`Redrive`/`Unpark`; `Query` and `Confirm` are calls, which may have to ask for the module's description first (`TakeDescription`): a failure of that request leaves the connection in use (`DescriptionUnanswered`), one of the query or confirm itself retires it (`AskUnanswered`). `link` is the connection: up, dead without the session knowing, or retired. Network: `Disconnect`, `GatewayAborts`, and requests in `late`, which the server may get at any later time; server: `ShipKnown`, `Persist`, `PlayCall`, `CallFails`, `Commit`, `AnswerQuery`, `AnswerConfirm`, `AnswerDescribe`, `AnswerUnnamed`, `Crash`. `store` is keyed by type as the code's is |
| `ServeLoop` | `RfcServer`'s registration | a run of the serve thread is a number, with its own connection; `stopped`, `thread`, `transport` are the shared attributes. Callers: `ServeForever`, `Stop`, `AfterStop`, `ShutReads`, `CloseReturns`; the thread: one action per send, read or attribute it touches; the gateway is external |
| `CallWire` | one call's bytes | records of a request and of a reply as the code builds them, tables in each form it reads, the cut into frames, `tlv_stream_status` and the loop around it, which gives up at `MaxFrames` frames, and the parse; a cell is a 2-byte word |
| `MC...` | | the small instances TLC checks |
| `...Proofs` | | theorems about the module of that name |

Some simplifications the reader should know:

* The idle list is a set: which idle connection is lent next does not matter to
  any property (the code pops the last).
* `acquire()` without a timeout is the behaviour in which `DeadlinePasses` never
  happens; safety covers it, `CheckoutEnds` is about checkouts with a timeout.
* The async Condition's lock is never held across an await that suspends, so
  taking it is not a step.
* In `Conversation` a request's content is its kind and number; whether a reply
  is taken for an answer depends only on frames, as in `tlv_stream_status`. A
  frame that starts in the middle of a reply does not parse.
* Stores are keyed by TID or unit, so `TransactionalDelivery` follows one TID
  and `UnitDelivery` one unit. Clients are connections, of one process or
  several, over a shared durable store. Other operations on the same connections
  appear in `TransactionalDelivery` by the replies they leave behind.
* Whether a client was given a `tid_store` to park calls in is the constant
  `Stored`; without one, giving up keeps nothing.
* A frame that ends a join with a `ValueError` is taken off the wire with what
  was joined before; frames the server would still have sent for that reply are
  not modelled. In `Conversation` too a join that raises leaves no frames of
  its reply behind.
* In `UnitDelivery` the state of the metadata cache is left open: each query and
  confirm may or may not have to ask for a description. `RfcServer` answers that
  with a description or a failure, as somebody registered the module or not. An
  empty description is one
  without parameters, so the request names no unit ("unnamed"); that is
  `strict_params=False`, the default; with strict parameters the call raises.
* In `ServeLoop`, what `recv` raises on a malformed frame or an NI error
  (`transport.py:242`, `249`) ends the run as the end of the stream does, and
  the unlocked check-then-set of `_thread` when serving starts
  (`server.py:1698`) is one step: two threads that start it at once are not
  modelled.
* In `ConnectPath` a request is its name and the protection it goes out under.
  The route request goes over the socket the code opens to the target host
  (section 4).
* In `CallWire` a scalar is the cells its type's `encode()` makes of it, and a
  frame's size is a few cells rather than the gateway's 28,000 bytes. The cap on
  frames, `_MAX_RESPONSE_FRAMES` = 256 in the code, is the constant `MaxFrames`.

Properties that hold only as long as some event the code does not handle has not
happened are stated with a history variable (`lapsed`, `misled`, `astray`, `failed`),
set by exactly those events. The unconditional forms are the subject of the runs
that expect a violation, or are refuted by the changes of constants listed in
section 4, so the condition hides nothing.

## 3. Runs that pass

| run | instance | properties | what it shows |
|---|---|---|---|
| `Pool` | 3 threads, 3 connections, `max_size` 2, warm-up 1, one failure | `Ownership`, `SlotsAccounted`, `NoOrphan`, `NoLostWakeup`, `ClosedIsFinal`, `ImplementsContract`, `CheckoutEnds`, `CloseDrains` | threads contend, fail and close in every order |
| `AsyncPool` | 3 tasks, 4 connections, `max_size` 2, one `start`, one failure, cancellation at every await | `Ownership`, `NeverUndercounts`, `SlotsAccounted`, `NoOrphan`, `NoLostWakeup`, `ImplementsContract`, `CloseDrains` | exclusivity and wakeups survive every cancellation; the accounts all but those of a ping, an open, a `close()` |
| `Conversation` | 2 callers, 3 operations, 2 faults, replies of up to 2 frames, one retry | `OwnReplyUnlessLapsed`, `ReadyMeansInStep`, `BrokenIsFinal`, `StaysOutOfStep`, `OperationEnds` | what `_fail_closed` and the frame join guarantee, and that being out of step is never repaired by itself |
| `Client` | ten kinds of `connect()` (direct, logon group, SAProuter, SOCKS5, SNC, wRFC with and without tunnel, credentials and timeouts), 2 faults, 2 GSS rounds; then 3 operations of 2 threads over wRFC | `CredentialsLast`, `FailureCloses`, `InStep`, `OwnReply`, `DoomedFrameSkippedUntold`, `ConnectEnds` | the legs of all the modules fit together on every path, under refusal, hang-up and silence; the lazy logon, the server's close and the classic fallback keep replies with their requests |
| `Delivery` | 2 clients, 4 operations, 4 faults, one retry, durable store, stray replies of both kinds, crashes before the handler | `AtMostOnce`, `NothingLost`, `ImplementsContract`, `OperationEnds` | exactly-once and no loss under timeouts, disconnects, refusals, duplicates, replies that do not join and those crashes; what is told and kept, until a stray reply is taken for a success |
| `Units` | a unit of 2 calls with queues, 4 operations, 3 faults, one retry, durable store, crashes while idle and in the playback | `PlayedOnce`, `DoneMeansRanUnlessInDoubt`, `InOrder`, `ImplementsContract` | one LUW and once, although failed playbacks start again from the first call and late ships come whenever they like; what its sender is told, over connections that also carry queries, confirms and the requests for their descriptions |
| `Serve` | 2 callers, 2 runs of the serve thread, 2 stops, 2 calls, one idle frame, one fault; a call may last longer than `close()` waits | `OwnConversation`, `LeavesBetweenCalls`, `Serviceable`, `StopEndsServing` | every interleaving of stop, close and restart with the thread's sends and reads |
| `Wire` | 2 interfaces of five and four fields, tables in each form, frames of 3, 4, 5, 7, 11 and 64 cells, a cap of 12 frames | `RoundTrip`, `ReadsToTerminator` | values that look like tags and terminators, extended lengths, rows the server padded, frames that end anywhere; a reader that gives up on exactly the replies that lack more than their closing tag at the cap |

`TypeOK` of each module is part of `Ownership` or of the invariants proved in
section 5. `SessionTracksLock` and `OkMeansExecutedUnlessMisled` are proved there
and are in no run: the first is what the invariants of `Conversation` rest on, the
second is the guard of a success in `DeliveryContract`. Without its exception it
is refuted (section 4).

### Why these bounds are enough

* Pools: three threads are the least in which one holds, one waits and a third
  closes, releases or fails; with two slots a lost notify and a wrongly counted
  slot show, and `max_size` can be overrun. `Conns` are identities, one per
  successful open; an `OpenOk` reuses the identity of a closed connection, so a
  set of `max_size` + 1 (plus what `start` opens) never blocks an open. The one
  failure is any of: a dead ping, an open that raises, a session that breaks.
* Conversation: an out-of-step stream needs one operation to leave a reply
  behind and another to read it; a third operation shows what is left after
  that, and two callers that the lock is handed on between them. Two frames are
  the least a multi-frame reply has.
* Client: the paths combine each kind of transport with what it may be combined
  with; options that do not touch each other's steps are not multiplied. The
  second fault hits while the first is handled. Two GSS tokens beyond the first
  repeat the round once. Three operations: one does the logon, one finds what it
  left, one comes after that; two threads, one of which may ignore the lock.
* Delivery: first submit, re-drive by another client, resubmission and confirm
  are four operations; four faults exhaust one submission (two attempts) and
  leave two for a crash, a stray reply, a refusal or a second exhaustion.
* Units: submit, re-drive, query, confirm; two calls are the least with an order
  and a half-way point, three faults exhaust a submission and leave a crash or a
  failed handler. Queries and confirms name a type of their own, so the unit is
  of the type that is not their default.
* Serve: a start and a restart, a stop of each, one call before and one after
  any of them, and an idle frame between the conversation ID and its call.
* Wire: the smallest frame holds the empty record a reply begins with, the
  largest a whole reply, the ones between put a cut at every cell of some reply.
  At 12 frames some replies cut small exceed the cap, and some end right at it.

Deadlock is checked for the pools. It is off for the others, which stop when
their bound on operations is used up, or when the one call is over.

### Fairness, and why the code justifies it

* `ConnectionPool`: threads are scheduled; `ping`, `open_connection` and `close`
  return (they have timeouts or fail); `with pool.acquire()` blocks end; clocks
  advance. Nobody has to call `acquire()` or `close()`, and no peer has to fail.
* `AsyncConnectionPool`: the loop runs ready tasks; awaits of I/O complete;
  `async with` blocks end. Cancellation is never required, so nothing is assumed
  about an acquire timeout.
* `Conversation`: the server ends its replies, readers run, and the lock is
  handed on (`asyncio.Lock` is FIFO). No timeout is assumed.
* `TransactionalDelivery`: the server process serves, client tasks run, and a
  client's read ends with the reply, an error or the `read_timeout` it was
  connected with (the default is none). No fault is required.
* `ServeLoop`: threads are scheduled, handlers return, and the gateway answers
  the first frame of a connection. It need never deliver a call, an idle frame
  or anything else, so what ends a blocked read is `stop()` alone.
* `WsSession`: `connect()` runs. Whether it ends is asked of paths with a
  `timeout` and a `read_timeout` only; without them silence blocks it for ever.

## 4. Disagreements found while modelling

Each run below has one property, quoted from a doc or comment, that TLC refutes.

| run | property | what happens |
|---|---|---|
| `AsyncPool_ping_cancelled` | `SizeIsExact` | a cancellation during the health check (the acquire timeout does this) leaves the candidate in `_in_use` and its slot taken |
| `Conversation_gfi_timeout` | `OwnReplyOnly` | a metadata lookup that times out leaves the session READY with its reply to come; the next request reads it |
| `Delivery_executed_is_error` | `ExecutedIsNotRefused` | a known TID is answered with return code 16, which the client raises as `AbapSystemFailure`: an executed call is reported as failed, and its parked entry stays |
| `Wire_closing_tag` | `ReadsItsReply` | a last frame that holds nothing but the terminator's closing tag is left on the socket: the stream counts as complete two bytes earlier |

Other configurations of the same modules, a change of constants or of the
property away from the passing runs, are refuted as well:

* `Pool` with `CloseWaitsForBorrowers`: `docs/cookbook/connection-pool.md:57`
  says `close()` waits for borrowed connections; it closes the idle ones and
  returns. The borrowed ones are closed on release (`CloseDrains`).
* `AsyncPool` with `CeilingKept`: `start()` opens and counts `min_size`
  connections without looking at `_created` (`pool.py:507`), past the ceiling of
  `pool.py:704`.
* `AsyncPool`, `Renotify = FALSE`: `NoLostWakeup`. A notified waiter that is
  cancelled takes the notification with it on Python 3.12, which
  `pyproject.toml` supports.
* `AsyncPool`, `CancelPoints = {"opening"}`: `SizeIsExact`. The slot of a
  cancelled open stays taken. (A cancelled `close()` leaves the rest of its list
  neither idle nor closed; it sets `lapsed`, which `NoOrphan` and `CloseDrains`
  except.)
* `Conversation`, with `TimeoutAt` one of `{"ddif"}`, `{"rsd"}`, `{"ship"}`,
  `{"confirm"}`, with `CancelAt` any request, or with `"gfi"` in `LongReplies`:
  `OwnReplyOnly`.
* `Delivery`, `CrashAt = {"ran"}`: `AtMostOnce`, against
  `docs/protocol/trfc.md:287`. A crash after the handler's effect and before
  `mark_executed`: the re-sent call runs again. `Units`, `CrashAt = {"played"}`:
  the same of `PlayedOnce`.
* `Delivery` with `OkMeansExecuted`, against `connection.py:3313` ("exactly-once
  delivery is signaled by absence of exception"): `raise_for_rfc_error` raises for
  an exception or a return code but 0 (`invoke.py:1111`), so a reply with neither,
  like the frame header a gateway sends when it aborts the conversation, passes
  for a success of a submission, of a re-drive, which deletes its parked entry
  (`connection.py:5523`), and of a unit's ship. `parse_invoke_response` does raise
  there: "Every genuine invoke response carries the return code"
  (`invoke.py:1162`).
* `Delivery`, `ConfirmForgets = TRUE`: `AtMostOnce`. A call parked by one
  submission and completed by the next stays parked; a re-drive after the
  confirm, at a backend that forgets confirmed TIDs, executes it again.
  (`RfcServer` itself only acknowledges `ARFC_DEST_CONFIRM`; it never calls
  `on_confirm` or drops the TID.)
* `Delivery`, `Durable = FALSE` with crashes: `AtMostOnce`, as the documentation
  of `InMemoryTidStore` says.
* `Units`, `Coroutines = TRUE`: `DoneMeansRanUnlessInDoubt`. The unit playback
  calls `async def` handlers without awaiting them (`server.py:1819`), though
  `AsyncRfcServer` says it awaits them (`server.py:1756`).
* `Units`, `EarlyConfirm = TRUE`: `DoneMeansRanUnlessInDoubt`. A confirm of a unit
  the store does not know makes it CONFIRMED, and a later ship is answered
  EXECUTED without running.
* `Units` with `DoneMeansRan`: a ship that timed out is sent again on the same
  connection, and the answers slip by one.
* `Serve` with `StopsAtLast`: after a `close()` whose join of 5 s lapsed and a
  restart, the old thread's `finally` clears the new thread's transport
  (`server.py:1653`), and the next `stop()` wakes nobody, against
  `server.py:1720`.
* `Client` with `DoomedFrameSkipped`: `connection.py:2583` says an invoke into a
  session whose logon failed dumps the work process; the operation after the one
  that reported the failure sends one.

Met by reading the code beside its models, without a property of their own:

* `saprouter`: the socket is opened to `ashost`, never to the router
  (`connection.py:4415`, `4337`), and the route request is sent over it, against
  `docs/getting-started/connection-options.md:24`. With SNC it is sent after the
  NI exchange and the GSS handshake (`connection.py:4462`), though the comment
  there says "before the handshake".
* A classic or SNC handshake that raises leaves its TCP socket open
  (`connection.py:4452`); the proxy, tunnel, TLS and upgrade legs close theirs.
  wRFC without credentials raises with its WebSocket open (`connection.py:1961`).
* `docs/cookbook/websocket-rfc.md:65` says that with `wshost` the `mshost` and
  `saprouter` parameters are ignored; the group is resolved and the route is
  asked for all the same (`connection.py:4265`, `4457`). `connect_ws` has no
  timeout before the upgrade unless `timeout` is given, and the SOCKS5 factory
  ignores `timeout`.
* `get_connection_attributes()` logs on without the lock (`connection.py:2465`);
  a LOGON whose reply lapsed is sent a second time.
* An ABAP error in the classic fallback kills the wRFC connection
  (`connection.py:3053`), which its docstring denies.
* A structure lookup that times out is logged and swallowed
  (`connection.py:4880`); the drained close drops frames that are not its close.
* The docstring of `tlv_stream_status` calls streams `not_tlv` that the code now
  calls `truncated`; a decimal floating point number with a non-canonical
  declet raises `KeyError` (`codec.py:218`).
* The client confirms and queries units through the parameters `UNIT_ID` and
  `UNIT_KIND`, `RfcServer` reads `BGRFC_UNIT_ID` (`server.py:1100`, `1121`), as
  `invoke.py:849` says itself. `UnitDelivery` is about a sender and a receiver
  that agree on the names.
* `RfcServer` constructs a `ServerSession` that it never drives.

## 5. Proofs

Eight modules prove properties of `Spec` for every value of the constants. What
the theorems assume is what the modules assume of their constants, unless a
theorem says more.

### `ConnectionPoolProofs`

For every finite set of threads, every set of connections, every
`min_size <= max_size` and any number of failures:

| theorem | property |
|---|---|
| `OwnershipInvariant` | `[]Ownership` (which contains `TypeOK` and `SingleOwner`) |
| `SlotsInvariant` | `[]SlotsAccounted` |
| `NoOrphanInvariant` | `[]NoOrphan` |
| `WakeupInvariant` | `[]NoLostWakeup` |
| `ClosedStaysFinal` | `ClosedIsFinal` |
| `PoolMeetsContract` | `ImplementsContract` |

The argument, in the order of the module:

1. `Ownership` is inductive by itself. `SingleOwner` is not: that a released
   connection may go back to the idle set without being another thread's needs
   that `_in_use` is exactly what borrowing threads have, and that a closing
   thread's list is disjoint from other lists needs that a closed pool has an
   empty idle set and that an open pool has no list. Each action has a lemma.
2. `SlotsAccounted` follows inductively with `Ownership`: each action moves at
   most one connection between `idle` and `_in_use`, or one thread in or out of
   `opening`, and changes `created` by the difference. The lemmas on
   cardinalities before it state what one thread's move does to a set of threads.
3. `NoOrphan` uses `Ownership` only.
4. `NoLostWakeup` compares two cardinalities: free units (idle connections and
   untaken slots) and threads that are awake and will look before they sleep.
   An action that frees a unit either notifies a waiter, which then is awake, or
   leaves a thread in `discarding`, which will be at the top of the loop; an
   action that takes a thread out of the awake set takes a unit with it, or
   finds none free.
5. `ClosedIsFinal` is a step property under `Ownership`.
6. Each step is a step of `PoolContract` for one thread, or leaves every
   thread's stage and loan as they are (`ContractStep`). That there is room for
   a reservation is where the counting comes in: claims inject into `_in_use`
   and `opening` (`ClaimsCounted`), whose sum `SlotsAccounted` bounds.

### `AsyncConnectionPoolProofs`

For any set of tasks, whatever awaits may be cancelled, any number of starts:

| theorem | property | needs |
|---|---|---|
| `OneOwnerPerConnection` | `[]Ownership` | |
| `CounterNeverBelow` | `[]NeverUndercounts` | |
| `NoneLeftOpen` | `[]NoOrphan` | |
| `ExactUnlessCut` | `[]SlotsAccounted` | |
| `NoneSleepsThrough` | `[]NoLostWakeup` | finitely many tasks; notifications of cancelled waiters are handed on, or no wait is cancelled |
| `AsyncPoolMeetsContract` | `ImplementsContract` | |

Cancellations break the equality that carries the proofs above, so the argument
differs. `OwnInv` says who has what without counting: a pinged or held
connection is in `_in_use`, and lists of connections to close are disjoint.
`CountInv`, the inequality, is inductive with it, because a cancellation only
ever leaves a slot taken. The ceiling of `TypeOK` needs `CeilingInv`: what
`start()` still has to open, as a set of turns (`ToOpen`), is part of what each
start may add. `LentInv` ties `_in_use` to tasks until a cancellation lapses the
accounts, and gives `NoOrphan` and, with `ExactInv`, `SlotsAccounted`. For
wakeups, `Balance` states once how free units and awake tasks may change
together, and each action is an instance of it. The refinement is as above, with
the inequality in place of the equality.

### `ConversationProofs`

For every set of callers, any number of operations, faults and retries, replies
of any number of frames, and any choice of where timeouts and cancellations land:

| theorem | property |
|---|---|
| `TypeInvariant` | `[]TypeOK` |
| `SessionInvariant` | `[]SessionTracksLock` |
| `OwnReplyInvariant` | `[]OwnReplyUnlessLapsed` |
| `ReadyInvariant` | `[]ReadyMeansInStep` |
| `BrokenStays` | `BrokenIsFinal` |
| `OutOfStepForGood` | `StaysOutOfStep` |

`OwnReplyUnlessLapsed` says nothing of the stream, so it is not inductive.
`StreamInStep` strengthens it: while a request is waited on, `InReply` holds, that
is, what is owed and on the wire is the one reply to that request, its first
frame marked first unless it has been read and its last frame last; otherwise the
line is `Quiet`, unless the connection was retired. Every step of the holder is
one of three moves (send, leave, give up an attempt: `HolderMoves`), and a move
made after the last frame was read starts from a quiet line (`LastFrame`,
`MoveFromQuiet`).

`StaysOutOfStep` says that whenever a READY connection is out of step, it is so
each time it is READY later. The proof counts ends of replies still to be read,
those on the wire and those the server owes, without counting: `OneEnd` names
one, `TwoEnds` two. On a connection out of step one end is left over, and a
request waited on makes it two (`LeftOver`). A reader takes one end at most, so
when it leaves or sends again one is still there; a timeout or a cancellation
takes none. That an unread frame implies an end to come is `WireEnds`: a line
with nothing owed on it ends with the end of a reply.

### `TransactionalDeliveryProofs`

For any set of clients and any number of operations, retries and faults:

| theorem | property | needs |
|---|---|---|
| `TypeInvariant` | `[]TypeOK` | |
| `OkIsExecuted` | `[]OkMeansExecutedUnlessMisled` | |
| `NothingIsLost` | `[]NothingLost` (given a store, until misled) | |
| `ExactlyOnce` | `[]AtMostOnce` | `Careful`: durable store, confirm keeps the TID, no crash between the handler and `mark_executed` |
| `DeliveryMeetsContract` | `ImplementsContract` | `Careful`, and a `tid_store` (`Stored`) |

`misled` is set when a submission or re-drive takes a stray reply for its
success, and by nothing else; the theorems hold for every number of stray replies
that are read as something else, a confirm's answer for one. `Earned` is the
invariant behind the second and third: until a client is misled, and while the
handler has not run to its end, no "ok" is on a wire, no confirm is sent or
running, no entry is being deleted and no submission has succeeded. `ExactlyOnce`
rests on `ExecutedOnce`: once the handler has run, the TID is executed or the
server is about to record it. The hypotheses of `Careful` are each needed
(section 4).

The refinement maps what the clients were told, the store of parked calls and
the count of effects to `DeliveryContract`. All but four actions leave these as
they are (`UnseenOr`); of the four, `HandlerRuns` is the contract's `Execute`,
which `ExecutedOnce` after the step shows to be the first; a success, by a reply
or by the deletion of a parked entry, is earned (`Earned`); and a confirm that
is answered was begun after a success that nothing has changed since
(`ConfirmsOk`, inductive with `TypeOK`). The contract's `doubt` is `misled`: from
then on it allows a success that is not earned and an entry that is dropped for
it, but still no second execution.

### `UnitDeliveryProofs`

For units of any number of calls, either type, any operations and faults:

| theorem | property | needs |
|---|---|---|
| `UnitTypeCorrect` | `[]TypeOK` | |
| `UnitInOrder` | `[]InOrder` | |
| `UnitPlayedOnce` | `[]PlayedOnce` | durable store, no crash between the last call and `mark_executed` |
| `UnitDoneMeansRan` | `[]DoneMeansRanUnlessInDoubt` | handlers are not coroutines; senders confirm only what they were told is done |
| `UnitMeetsContract` | `ImplementsContract` | what the two above need, and a store to park in |

`OrderInv` adds that the call about to be played has run less often than the one
before it, which a playback that starts over could break. `OnceInv` adds that a
unit that ran is CONFIRMED or about to be recorded as such, and that one whose
playback is under way has not run. `DoneInv` says, until the sender is in
doubt, that at most one answer is due on a connection, the description's included
(`OneAnswer`), which is what a lapsed read takes away, and that nobody claims a
unit done before it ran: no answer, no confirm under way, no store entry
(`NobodyClaims`).

A unit implements `DeliveryContract` with one party, executed when its last call
was played, and with `InDoubt` as the contract's `doubt`. That is `lapsed`: the
read of a ship or of a description was given up and left the connection in use,
so the answer to one request may be taken for that of another (section 4); or
`misled`: an empty reply passed for a ship's success. From then on the contract
allows a success that is not earned. Until then `SuccessEarned` gives from
`DoneInv` that a ship or re-drive is answered with a success only after the
unit ran.

### `ServeLoopProofs`

For any callers, runs, calls, stops, idle frames and faults:

| theorem | property |
|---|---|
| `ServeTypeCorrect` | `[]TypeOK` |
| `RepliesOwnConversation` | `[]OwnConversation` |
| `LeavesOnlyBetweenCalls` | `[]LeavesBetweenCalls` |
| `WaitsWhereCallsCome` | `[]Serviceable` |

The invariant `ServeInv` says of each run how its place in the loop, what the
gateway takes the registration for and the frames between them belong together:
the conversation ID the thread has, or has still to read, is the one of the call
that is queued or dispatched. The shared attributes play no part in it, which is
why races on them hurt stopping and not serving.

### `WsSessionProofs`

For all paths at once, any faults, GSS rounds, threads and operations:

| theorem | property |
|---|---|
| `PasswordsLast` | `[]CredentialsLast` |
| `FailuresClose` | `[]FailureCloses` |
| `RepliesInStep` | `[]InStep` |
| `OwnReplies` | `[]OwnReply` |
| `DoomedFramesUntold` | `[]DoomedFrameSkippedUntold` |

`PathInv` is the invariant of `connect()`: what is unread fits the step
(`UnreadFits`), the step fits the kind of path (`KindFits`), and the legs that
must come before a step have been asked (`AskedBefore`). `LockInv` is what the
wRFC connection adds: a step of a locked operation is the holder's, and only a
built-in call falls back. It is needed because a fallback runs `connect()`'s
steps again on the same variables.

`OwnReply` looks at the head of what was sent back only. `ReplyInv` says what
there can be at all while no reply has gone astray: one operation at most waits
(`OneWaits`), and between it and the server there is one thing, its request, or
the reply to it, or the server's close, or the reply with the close behind
(`Owes`). While nobody waits there is nothing or a close, unless the session
broke on a read that was given up: then a reply may be left, on a connection that
takes no further operation (`Broken`). A fallback starts from an empty line
because the server is gone. For the second theorem `FailureAhead` is added: while
a failed logon has not been reported, no request is under way and the failure is
what whoever waits reads next.

### `CallWireProofs`

For interfaces of any number of parameters, values and rows of any length that
may look like tags, terminators or length words, any form of tables, and frames
of any size from three cells up (the empty record a reply begins with), and a
reader with any cap on their number:

| theorem | property |
|---|---|
| `RecordsReadBack` | records written without a terminator among them are walked as they were written, and the stream counts as complete |
| `SpecReadInv` | `[]ReadInv` |
| `SpecReadsToTerminator` | `[]ReadsToTerminator` |
| `SpecRoundTrip` | `[]RoundTrip` |

`ReadsToTerminator` says what is left on the wire in the end: nothing or the
terminator's closing tag when the reply was joined, and more than that when the
reader gave up, which it does at the cap and nowhere else. It says nothing of how
much has been read before, so it is not inductive. `ReadInv` is: what was
read and what is on its way make up the reply, and while the reader goes on, or
when it gives up, it lacks more than the terminator's closing tag; it goes on
below the cap only. What a frame does to the status is
the content of `ReplyRead`: cut anywhere before that tag the reply is truncated
(`WalkedCut`: the walk meets the record that is cut off, `RecordCutOff`, and falls
off there), and from there on it is complete (`WalkedToEnd`).

`RoundTrip` rests on `CallInv`, which adds to `ReadInv` that the request on the
wire is the caller's. The rest is about the operators, in four layers:

1. The records written are the records read (`RecordsReadBack`); a value cannot
   be taken for framing, since a record's length says where it ends.
2. The scan is in one of two states between parameters: no table is open, or one
   with a name is, which the next name, table or end turns into a pair
   (`Between`, `Flushed`). From such a state the records of a parameter lead to
   such a state with one pair more (`Adds`), for scalars and for each form of a
   table.
3. A sequence of blocks, a parameter each, leaves one pair per parameter, and a
   count for those that were declared with one (`BlocksRead`). Names are distinct,
   so the last pair of a name is the only one.
4. Rows written one after the other come back at the stride of the declared
   count, be they padded or not, or at `RowSize` on the handler's side, which
   does not look at counts (`RowsDecoded`).

What a recursive definition computes is shown without the library's induction
theorems, which take an operator as a parameter: the set of positions at which
the claim holds contains the first and, with each, the next (`UpTo`, `DownFrom`),
because every set of numbers has a least element (`LeastElement`). The
assumptions are those of `CallWire`: names of an interface are distinct, a value
is of its parameter's type, a frame holds at least three cells.

### Only model-checked

* Liveness: `CheckoutEnds`, `CloseDrains` (both pools), `OperationEnds` (of
  `Conversation` and of `TransactionalDelivery`), `StopEndsServing`,
  `ConnectEnds`. Fairness and ENABLED are beyond TLAPS.

Every invariant that a passing run checks is proved, and every property that
needs no fairness. The four disagreements of section 4 are traces TLC finds.

## 6. Not modelled, and why

* Metrics and logging of the pools, formatting of errors: no state that matters.
* A constructor whose warm-up fails half way (the pool does not exist then).
* The classic `close()`, bgRFC's rollback, a frame cut short by the transport.
* The optional transaction and unit callbacks, the order of qRFC queues at the
  receiver (the library keeps none), `list_parked`.
* `AsyncRfcServer`'s loop: `ServeLoop` is the threaded server. Its playback of
  units is in `UnitDelivery` (`Coroutines`).
* The loop thread of the classic facade: what runs on it is `Conversation`; its
  `close()` against queued coroutines is asyncio's behaviour.
* Sharing of the metadata cache between connections, and its eviction.
* The message server's HTTP interface; wRFC's keep-alive thread, fragments and
  control frames (wsproto's); SNC wrapping after the logon (the GSS library's).
* LZC, LZH and LZ4, number and character codecs: pure functions of byte strings,
  too wide for exhaustive inputs. BASXML and compressed tables in `CallWire`.
* Stray replies that fail (another operation's exception, say) in
  `TransactionalDelivery`: they end a submission as the server's own refusal does.
* Exceptions, trace, language and JSON helpers: no state of their own.

## 7. What could come next

* `AsyncRfcServer` as a second loop beside `ServeLoop`: its tasks answer on one
  conversation in the order they finish, a hazard no property covers.
* The loop thread as a module of its own, over an external model of
  `run_coroutine_threadsafe`, and the shared metadata cache between two
  instances of `Conversation`: two more hazards without a property.
* An abstract specification of a connection as a lock with one request and one
  answer at a time, for `Conversation` and `WsSession` to refine.
* Compressed tables and BASXML in `CallWire`: two more forms for `TableReply` and
  a reader each, for which the layers of its proof are ready.
