# A verification of telegram_rb

telegram_rb is a Ruby gem around a C client of the Telegram network. The C code
(`src/ext/telegram_rb`) is a single-threaded program that speaks MTProto over
TCP: it keeps queries alive across lost connections, records every change of
its data in a log, and calls back into Ruby when a message comes.

This directory holds TLA+ models of that C code, configurations that check them
with TLC, and proofs that TLAPS checks. Paths below are relative to
`src/ext/telegram_rb`.

## 1. The system

### Components

| component | state it keeps | operations | models |
|---|---|---|---|
| query layer and event timers (`queries.c`) | the tree of pending queries, their flags, the tree of timers, `queries_num` | `send_query`, `alarm_query`, `query_restart`, `query_ack`, `query_error`, `query_result`, `work_timers` | `QueryLayer`, `Rpc` |
| sessions, acknowledgements and salts (`mtproto-client.c`, `net.c`) | session id, sequence number, last message id, `ack_tree`, the salt of the DC | `encrypt_send_message`, `process_rpc_message`, `work_msgs_ack`, `work_bad_server_salt`, `work_new_session_created`, `work_container`, `send_all_acks` | `QueryLayer` (in part) |
| connections and the poll loop (`net.c`, `loop.c`) | `struct connection`, `Connections[]`, one event timer per connection | `create_connection`, `fail_connection`, `restart_connection`, `fail_alarm`, `ping_alarm`, `try_read`, `try_write`, `connections_poll_result` and its two halves, `net_loop`, `net_connection` | `Connection` |
| connection buffers and framing (`net.c`, `mtproto-client.c`) | chains of blocks, `in_bytes`, `out_bytes` | `write_out`, `try_write`, `read_in`, `read_in_lookup`, `try_rpc_read`, `rpc_send_message`, `rpc_execute` | `Blocks`, `OutBuffer`, `InBuffer` |
| key exchange (`mtproto-client.c`) | `c_state`, nonces, the key being made | `send_req_pq_packet`, `process_respq_answer`, `process_dh_answer`, `process_auth_complete` | `KeyExchange` |
| login and data centres (`loop.c`, `queries.c`) | `DC_list`, `auth_state`, flags that `net_loop` waits for | `do_auth_check_phone`, `do_get_nearest_dc`, `do_send_code`, `do_send_code_result`, `do_export_auth`, `do_import_auth`, `do_help_get_config` | `Startup` |
| binlog (`binlog.c`) | the log file, `binlog_pos`, the buffer it is replayed from | `add_log_event`, `replay_log_event`, `replay_log`, the `bl_do_*` | its records where they matter: `Startup`, `Updates`, `Messages`, `Peers` (also torn records), `SecretChat` |
| updates (`mtproto-client.c`, `queries.c`) | `pts`, `qts`, `seq`, `last_date` | `work_updates`, `work_update`, `fetch_pts`, `do_get_difference` | `Updates` (in part) |
| messages (`structures.c`, `queries.c`, `binlog.c`) | the tree of messages, the tree of unsent ones, the list of those in use, the list of each peer | `do_send_message`, `msg_send_on_answer`, `msg_send_on_error`, `send_all_unsent`, `fetch_alloc_message`, `update_message_i_d` | `Messages` |
| chats and participants (`binlog.c`, `structures.c`) | list of users and its version | `bl_do_chat_add_user`, `bl_do_chat_del_user`, `bl_do_set_chat_participants`, `fetch_chat` | `Peers` |
| users and peers (`structures.c`) | trees by id and by name | `fetch_user`, `insert_user`, `user_chat_get`, `create_print_name` | `Peers` |
| secret chats (`queries.c`, `structures.c`) | the state and the key of each | `do_create_encr_chat_request`, `do_accept_encr_chat_request`, `write_secret_chat_file` | `SecretChat` |
| file upload and download (`queries.c`) | offset and part number of a file | `send_part`, `load_next_part` | `Upload`, `Download` |
| treap (`tree.h`) | a binary tree with random priorities | insert, delete, look up, split, merge | no |
| auth, state and secret chat files (`loop.c`) | three files rewritten in place | `write_auth_file`, `write_state_file` and their readers | `Startup`, `Updates`, `SecretChat` |
| Ruby binding (`telegram_ext.c`) | the loops that Ruby runs | `poll_messages`, `send_message`, `contact_list` | loops in `Connection` |
| Ruby serialization (`lib/`) | none | pure conversions | no |
| terminal interface, cryptography, allocation, build files | | I/O, arithmetic on big numbers, generated code | no |

### How they interact

`net_loop` asks `connections_make_poll_array` for the sockets, waits in `poll`,
runs the timers that are due (`work_timers`), and hands the results of `poll` to
`connections_poll_result`. From there everything is a call: data go through
`try_read`, `try_rpc_read`, `rpc_execute`, `process_rpc_message` to
`rpc_execute_answer`, which acknowledges, answers or restarts queries; the
answer of a query runs its `on_answer`, which changes peers, chats and messages
by `bl_do_*` records; each record is applied by `replay_log_event` and then
written. `send_query` and the acknowledgements go out through
`encrypt_send_message`, `rpc_send_message` and `write_out`, which only buffer.
Nothing runs in parallel, but almost everything can run between a cause and its
effect: timers between `poll` and the use of its results, a failed connection
between a message written and a message sent, a crash between two records.

### What is hard here

- **Queries**: a timer is removed by an acknowledgement, by the answer, or by
  neither, and put back by `alarm_query` or by a changed salt. Acks and answers
  arrive in either order, twice, or after a reconnection. Every timer operation
  asserts that it finds what it expects.
- **Connections**: one timer object serves two purposes; `fail_connection` may
  run several times in one round of the loop; poll results go stale.
- **Buffers**: packets and blocks end at different places.
- **Messages**: a message lives under a random id until the server's id is
  known, and learns it from an answer, from an update or not at all because of
  a crash; then it is sent again.
- **Updates**: pushes overtake each other, the counters are stored by four
  handlers in four orders, and must not run ahead of what has been taken in.
- **Log and files**: what has been applied and not written; what is written in
  place.
- **Key exchange and login**: packets that are never sent twice; loops that wait
  for a flag only one callback sets; keys and authorizations that are in memory,
  at the server and on disk at different moments.
- **Files of users**: a file that changes while it is sent, a download that goes
  on from what an earlier or a concurrent one has left, counters that a refused
  part leaves behind.
- **Secret chats**: a chat found again by a pointer kept since the request, and
  keys that are made once, twice or not at all when updates come twice or early.
- **Peers**: names that collide with each other and with the suffixes that keep
  them apart, structs that are allocated without a record, lists of members that
  are changed by increments.

What makes each component correct is stated by the properties of section 4.
`PROJECT.json` lists every hazard at its line.

## 2. The modules

`Rpc` is the abstract specification: what a caller of `send_query` may rely on.
`QueryLayer` implements it. `Connection`, `OutBuffer` and `InBuffer` are the
parts of `net.c` below it; the two buffers are chains of blocks, whose operators
are in `Blocks`. `KeyExchange` is the part of `Startup` that makes the
keys. `Startup`, `Messages`, `Updates`, `Download`, `Upload`, `SecretChat` and
`Peers` are clients of the query layer and take its promise for granted: a query
is carried out and answered at most once. `MCDownload` and `MCPeers` give values
to constants, and `MCBuffers` puts the two buffers into one run. The proofs about a module `M` are in `MProofs`, which extends it:
`QueryLayerProofs`, `StartupProofs` (with `KeyExchange`), `UpdatesProofs`,
`MessagesProofs`, `PeersProofs` and `SecretChatProofs`. `NetProofs` extends
`Connection`, `OutBuffer` and `InBuffer`, and `FileProofs` both `Download` and
`Upload`; what they would name alike carries a prefix or a suffix (`OutInit`,
`InInit`, `fail_connection_out`, `try_read_in`, `UpNext`, `up_crash`).

### QueryLayer

One authorized session: the query layer, the session's acknowledgements and
salt, the outgoing buffer, and (external) the TCP stream and the server. A
handler is one action, since the client runs each to its end out of the loop.

| model | code |
|---|---|
| `queries_tree`, `ack_received`, `timer_tree` | `queries_tree`, the flag `QUERY_ACK_RECEIVED`, `timer_tree` |
| `server_salt`, `ack_tree` | `DC->server_salt`, `ack_tree` and `session->ev` |
| `conn`, `out` | `c->state` as far as it matters here, the chain at `c->out_head` |
| `send_query`, `alarm_query`, `send_all_acks` | the functions of that name |
| `process_rpc_message` | it, and `rpc_execute_answer` for `msgs_ack`, `rpc_result`, `bad_server_salt` |
| `fail_connection`, `fail_alarm`, `try_write` | `net.c` |
| `aborted` | an assertion of `tree_insert` or `tree_delete` |
| `calls` | how often `on_answer` or `on_error` ran for a query |

Abstracted: time (a registered timer may fire at any moment); message ids
(queries are numbered in the order of their ids, which never repeat, and every
other message of the client has an id that no query has); contents of queries
and answers; gzip and the text of errors. `query_error` and `query_result` do
the same to this state. The `out` of a failed connection keeps what is written
to it, as in the code.

A server accepts a query once by its message id, carries it out once, may
acknowledge it, and sends the answer until it is acknowledged. It answers a
message with an old salt by `bad_server_salt` in an envelope with the old or the
new salt. It closes a stream that does not begin with the byte 0xef.

### Connection

One connection as a record; each function of `net.c` maps a connection to the
set of connections it may leave, depending on what the system calls return. The
phases of the loop (`make_poll_array`, `poll`, `work_timers`, then the read half
and the other half of `connections_poll_result`) are steps, so that timers and
failures fall between the result of `poll` and its use. A connect may fail at once
(`MaxRefused`), which leaves no connection where the caller expects one. `program` says which
loops a program uses and `mode` which of them is running: `net_loop`, or one of
the two halves of `net_connection`, each of which looks at half of the events.
`poll` may fail (`poll_fails`): `net_loop` then runs the timers and goes round,
while `net_connection` handles whatever stands in `revents`. Each failure asks
`time(0)` anew, so the second may change at any step (`SecondPasses`); `ticked`
remembers that it did between the two halves of a round. An assertion or a null
pointer becomes `fault`, after which nothing runs.

### Blocks, OutBuffer, InBuffer

The chains of blocks, byte by byte: the bytes of the stream are numbered, so a
byte lost, doubled or moved shows. `Blocks` has what the two directions share: a
block is filled at the end of the chain (`Fill`) and used from its head; the
front of the chain ends at a place (`IsPlace`, `Upto`), and the rest remains
(`From`), without the blocks that are used up. In `OutBuffer` a packet is its header (`0x7f`
words or more take four bytes instead of one) and its data, written by two calls of
`write_out` each of which may span blocks, and `try_write` sends as much as the
kernel takes. In `InBuffer` `read` returns any number of bytes, which go into the
blocks one by one (`Put`), and `try_rpc_read` goes round its loop (`try_one`)
until there is no whole packet left. The sizes of the code
(a block of 2^20 bytes, `0x7f`, words of 4, 2^24 for a packet) are constants,
small in the runs with the same order among them; a packet that is sent is never
longer than a block, as the largest the client sends is a file part of 512 KB.

### Messages

The memory is a record of the trees and lists as sets of message structs, and
the log a sequence of records. `replay_log_event` is a function from memory and
record to memory, used by `add_log_events` for each change and by `Restart` on
the whole log, as in the code. A run of the client begins with the difference
(`phase = "start"`), goes on with `send_all_unsent` (`"resend"`), and then lets
the user send. A crash may fall between any two actions, and a record is written
whole or not at all. Requests of a former run may still reach the server later.
Message structs that were freed are remembered in `freed`; where the code reads
a freed struct, the model chooses the value.

Abstracted: contents, peers (one), the order of the list of a peer, read marks,
media. The difference brings whatever memory lacks, as if the counters in the
log never passed a message that is not in it; how far that is so is the subject
of `Updates`. The random ids of 64 bits never collide. `binlog_enabled` is
taken to be on (without it nothing survives a crash and the module says nothing).
The Ruby callback of `tel_new_msg` is left out.

### Updates

The nth update of an account is a message with the counters n. The server pushes
it as `updateShortMessage` or in `updates`; pushes overtake each other and may be
lost. `mem` is what the process knows, `disk` what its next start will find. A
handler is a sequence of steps (`todo`), one per record that it writes, since a
crash may fall between two records; the handlers of the code are operators that
return these sequences: `work_updates`, `work_update_short_message`,
`get_state_on_answer`, `get_difference_on_answer`. With a log (`binlog_enabled`),
each record is on disk at once, and the state file is not used; without, only the
counters are kept, by `write_state_file`, which `net_loop` calls in each round,
the binding's `net_connection` never, and the answers of `getState` and
`getDifference` in the middle of their work. `sync_from_start` is the option of
the terminal client that asks for all the past at the first start.

Abstracted: the contents of updates, users and chats; a batch has one update; qts
and the date. A date that has risen makes `write_state_file` write when pts and
seq have not changed, so the model lets it write or not in that case. The state
file is written whole. A message is taken in when it is in the log or, without
one, when it has been printed.

### KeyExchange and Startup

`Startup` is `loop()`, from the log or the auth file to the difference. `pc` is
where it stands: one of its own places, or the name of the query that it waits
for in `net_loop`; `asked` says whether that query is on its way, carried out or
refused. `KeyExchange` is what `dc_authorize` runs: `c_state`, the packet on its
way (`net`), the connection (`wire`), and the key that `process_dh_answer` has
computed and `process_auth_complete` has yet to keep (`power`). `mem` is what the
process knows (`DC_list`, `auth_key`, `has_auth`, `dc_working_num`, `auth_state`,
`our_id`), `disk` what its next start will find: with a log, each record as it is
written; without, what `write_auth_file` has left. The data centres that are not
built in come with the configuration. The process may end anywhere, also
between two records of one answer; the server carries out what it can decrypt
and may refuse anything; the user may mistype the code.

`write_auth_file` overwrites the file field by field and does not truncate it,
and may stop after any field (`WriteStops`). When the file had the same data
centres, what is left is new up to there and old behind it (`Mixed`), with one
key perhaps `"torn"`: its id is there and its bytes are not. When it had fewer,
what follows is moved, and `read_auth_file` asserts (`Unreadable`, `StartFails`)
unless the write stopped before the first new one or after the last (`Torn`). The
file is also saved by every answer that brings a new salt (`process_rpc_message`).
The second query of `do_auth_check_phone` is sent from `packet_buffer`, where
`alarm_query` or `send_all_acks` may have put something else since the first
(`asked = "garbled"`).

Abstracted: a key is the number of the start it was made in and whether it fills
its 256 bytes (`power.kind`): `BN_bn2bin` writes a shorter number to the front,
where the server has zeros. Bytes of a key are written or not, all together: a
key of which some are there is as little use as a torn one.

### Download, Upload

Both count bytes in small units. `Download`: each call of `do_load_*` is a struct
`D`, with its offset and its open file; the files of the downloads directory
outlive the process (`disk`), and each unit of a file is the position of the
file it was read from, so a unit in a wrong place shows. The server returns the
part asked for, less at the end of the file, nothing behind it, or an error; the
message may claim a size that the server's file does not have. `Upload`: each
call of `do_send_photo` is a struct `f`, with the part it has reached; the file
may have changed after `fstat`, `read` may fail on a directory; a part is
carried out and then answered, and the process may end in between. `stored`,
`thumbs` and `messages` are what the server has. The counters of the prompt are
modelled in both.

### SecretChat

The states of a chat made here (`Made`) or asked for by others (`Asked`), from
`messages.getDhConfig` to `sc_ok`. `mem` is memory, `log` what a replay gives,
`file` the secret chat file, which is rewritten in place when the log is off; a
process that ends while writing it leaves the first pieces new and the rest old
(`crash_in_write`). Updates come in the server's order, but before or after the
answer to the query that caused them, and may come twice. A null pointer or an
assertion ends the process and is noted in `aborts`; what the handler had logged
before it stays in the log, and an update whose handling it ended comes again
with the next difference.

### Peers

`fetch_user`, `fetch_chat`, the updates and answers that carry them, and the
`bl_do_*` calls they make. The functions of the code are operators on what the
handling of a packet works on, memory and disk together; an assertion ends the
handling with a `cause`, and a crash may cut it at any record; a crash is free,
but one that also tears a record, or that falls into a packet that was overtaken,
counts as a fault for each. `mem.index` is the
tree of names; a name is a sequence, so that a real name may end as a suffix
does. `members` is the server's list of the members of a chat, one for each
version, which a list in memory is compared with.

## 3. The runs

| run | question | instance | states |
|---|---|---|---|
| `query` | Do timers, queries and acknowledgements agree, and is every query answered and every answer acknowledged in the end? Does `QueryLayer` implement all of `Rpc`? | 1 query, 2 losses, 1 change of salt, 1 message of buffer room each way | 35 thousand |
| `conn` | Does the one timer serve both purposes? Does a broken connection get noticed, come back, and send what is written? | programs that run `net_loop`, and programs that run the two halves of `net_connection`; 3 breaks or interrupted polls, 1 connect that fails at once | 69 thousand |
| `conn_polls` | Does a program that only polls get its messages after a failure? **Violated.** | a program that runs only `net_connection (0)`; 1 break | |
| `buffers` | Out: is nothing lost while packets fit, and what holds when they span blocks? In: is each packet handed on whole, once, at once? | blocks of 7; out, packets of 2, 3 and 6 bytes, 1 loss; in, 3 packets of 3, 6 and 8 bytes | 10 thousand |
| `msg_refused` | Across crashes: is a text sent once, is every unsent message asked about, is nothing missed, do memory and server agree in the end? | 2 texts, 2 crashes, a server that refuses a random id it knows | 45 thousand |
| `msg_freed` | Does every list hold live messages when the server answers a repeated random id with the message it has? **Violated.** | 2 texts, 1 crash | |
| `updates_kept` | Does pts, in the log or in the state file, ever pass an update that was not taken in? Does the difference bring the rest in the end? | 3 updates, the first before the first start; 2 restarts, 1 lost push or request for a difference; differences of one update | 237 thousand |
| `startup` | Wherever a start ends: is what is on disk what the server has, is nothing forgotten, does every start come to its end? | 3 data centres, 3 starts, 2 faults, with and without a log, keys of both shapes | 138 thousand |
| `download` | Which files are whole, what do the counters add up to, does every load end? | 3 media in parts of two units, 3 loads, 2 faults | 22 thousand |
| `upload` | Has the server the whole file when the message is sent, does the client know the message, does every upload end? | 2 uploads of 5 sizes, 2 faults | 202 thousand |
| `secret` | Do both sides have the same key, is what is on disk what memory has, do both sides come to the same state? | a chat made here and one asked for, 4 attempts at a key, the first and the last with a short number, 2 faults, with and without a log | 83 thousand |
| `peers` | Do names find their peers, does a restart read back what was known, is a list of members the server's? | 2 users and a chat of 2 names, 2 changes, 3 packets, 1 fault, 2 starts | 944 thousand |

Deadlock is not checked where the bounds or a modelled assertion stop the system:
`QueryLayer` when all losses and queries are spent, `Connection` after a fault
(an assertion or a null pointer ends the program), and the others when their
work is done and every crash and every fault is spent (in `OutBuffer`, when
`MaxBytes` are written and sent).

**Why the bounds suffice.** Queries interact only through the session's salt,
its acknowledgements and the buffer; the safety properties of `QueryLayer` are
proved for every number of queries, so the run has one, for which the liveness
properties are the hard part. Its two losses give a second failure during the
recovery from the first, so that data stand before the 0xef byte. `OutLimit = 1`
makes the buffer full, which stops retransmission, after one message. `OutCap`
keeps the server from delivering an answer again while the client has more than
one message to send, `NetCap` is how much the kernel holds, and `NumFloor` stops
a counter that may run down for ever. In `Connection` three breaks cover a
failure during the recovery from a failure, with an interrupted poll between them. In the buffers each packet length has
its header form at the limit, one below and one above, and blocks are shorter
than two packets of most lengths, so that each possible cut occurs. The two directions share no state,
so the run uses a connection one way at a time. In `Messages` two texts let
one be pending while the other is settled, and two crashes let a request of the
first run reach the server in the third. In `Updates` the two later updates can
overtake each other, one can be the hole before the other, and a difference of
both needs two slices, between which a push, a restart or another request may
fall. In `Startup` the first data centre is built in and the others come with the
configuration, so that the authorization is transferred twice and a write of the
auth file can stop between the two that it adds; with three
starts and two faults an end of the process can follow a loss within one
exchange, or a second end the recovery from the first; the proofs hold for every
number. In `Download` a medium is a part and a half long, its padded form two
parts, and its claimed size may be a part longer than the file; three loads give
one after a crash beside one that goes on. In `Upload` the sizes are none, one
below and above the size of a small part and of a big file, whole blocks and not,
and one that needs the larger parts. In `SecretChat` the chat made here and the
one asked for share only `encr_prime`, so one of each shows what they do to each
other; two faults are an end of the process and what follows on it. Either chat
may be the first, and a chat may be tried again, so each may have a short number
while the other has a full one, and a full one after a short one. In `Peers`
two users whose names may be equal, or equal but for a suffix, and a chat that
may take either name, show each collision; two packets on their way can overtake
each other. Users other than oneself are interchangeable, which is the symmetry
of that run; it has no temporal property.

**Fairness.** The loop polls for ever: so timers that are due fire, buffers
move, and messages that have arrived are worked on (weak fairness). A query's
timer fires every six seconds whatever the buffer holds, and the buffer drains
again and again, so a retransmission that is possible again and again happens
(strong fairness on `alarm_query` with room in the buffer). A server does not
close every broken stream within the very second the stream was opened in
(strong fairness on `ServerCloses(TRUE)`): this is an assumption, not a fact of
the code. Without it there is a real endless loop: what is written while the
connection is failed goes out before the byte 0xef, the server closes at once,
the client waits ten seconds because it has tried in this second already, and in
those ten seconds `alarm_query` writes again. In `Connection` each loop the
program uses is called again and again, time passes while the loop waits, and a
connect completes. In `Messages` one step of the client or of the server's
answering happens as long as one is possible; that a query of the present run
gets its answer is what `Rpc` promises. In `Updates` and `SecretChat` likewise;
restarts, losses, refusals, and the saving of the state file need not happen. In
`Startup` `loop()` goes on, someone starts the program again, and the ping timer
runs. In `Download` and `Upload` every query is answered, which is again what
`Rpc` promises.

## 4. The properties

Where several invariants speak of the same matter, the run checks their
conjunction, named for what they say together; each conjunct has its comment in
the module. Each module's type invariant is a conjunct of one of them.

- `QueryLayer`: `TimersAndCounts` (`NoAbort`, `TimersMatch`,
  `QueriesNumNotAbove`), `ServerAgrees` (`AckedAreReceived`, `ForgottenAreUsed`),
  `EventuallyQuiet`, and the refinements `RpcSafety` and `ImplementsRpc`.
- `Connection`: `OneTimer` (`InsertedOnce`, `TimerFound`, `NullAfterRefusal`,
  `TimerServesState`), `FailedComesBack`, `BrokenIsNoticed`, `WrittenGoesOut`;
  `PollGetsMessages` is violated, in a run of its own.
- `OutBuffer`: `FittingIsKept`, `InOrderAndCounted`.
- `InBuffer`: `ExecutedAsArrived`, `ReaderInStep`.
- `Messages`: `TreesSound`, `NoneAstray`, `SentOnce`, `Settles`; `ListsAlive` is
  violated, in a run of its own.
- `Updates`: `StartMissesOnlyHoles`, `Settles`.
- `Startup`: `AgreesWithServer` (`QueriesHaveKeys`, `SignedByServer`,
  `LoginDecision`), `WrongKeysExplained`, `ReadyIsKept` (`ReadyIsComplete`,
  `HomeKept`), `NothingForgotten`, `Arrives`.
- `Download`: `DownloadsCounted`, `FilesRight`, `WholeStays`, `DownloadsEnd`.
- `Upload`: `UploadsCounted`, `SentIsWhole`, `SentIsKnown`, `UploadsEnd`.
- `SecretChat`: `OkKeysAgree`, `ChatsKept`, `OkStays`, `Followed`.
- `Peers`: `NamesFindPeers`, `RestartKeeps`, `AbortsExplained`, `ListIsServers`.

Each property of a passing run has a seeded fault: an operator of the module,
marked as such, that stands for a plausible mistake in the code and that the run
detects. `PROJECT.json` pairs them.

A property that holds only with exceptions names them, so that the run shows the
list of exceptions to be complete:

- `OneTimer`: the timer is inserted while it is registered only when `try_read`
  fails the connection and the second changes before the hang-up of the same round
  fails it again; a null pointer is met only after a connect that failed at once.
- `StartMissesOnlyHoles`: `fetch_pts` jumps over a hole; `fetch_message_short`
  writes the record of pts before that of the message; and, without a log, a
  difference saves pts before `print_message`. Everything else keeps the order,
  and so neither a stale answer that moves pts back nor a repeated difference can
  lose anything.
- `FilesRight` and `WholeStays`: only a download that took its offset from a file
  that was there leaves a wrong file.
- `UploadsCounted`: the assertions of `send_part` fail only for a directory and
  for a file that has changed since `fstat`.
- `SentIsKnown`: only the message of a file sent to a secret chat is forgotten.
- `WrongKeysExplained`: every key on disk was made in an exchange that the server
  has finished too; it is of no use only when it has a leading zero byte, which
  happens with a log, or when a write of the auth file stopped in it, without one.
- `NothingForgotten`: only the process that stops while it writes the first auth
  file with the data centres of the configuration takes keys and authorizations
  from the disk; it leaves a file that no start can read.
- `HomeKept`: only the nearest data centre, chosen to register, is in memory alone.
- `Arrives`: a start waits for ever only for a query that has no `on_error` and
  was refused, with a short or torn key, or for the answer to a second
  `auth.checkPhone` that was something else by the time it was sent.
- `OkKeysAgree`: the two keys of an ok chat were made in one attempt, and differ
  only when the number was short.
- `ChatsKept`: a pointer is null only when a chat is discarded while
  `messages.getDhConfig` is under way; `encr_prime` is missing only after a torn
  file.
- `Followed`: a chat is left behind only by an end of the process or a refusal
  while it is being made, by an update that came before the answer it needs, or
  by a torn file.
- `AbortsExplained`: with every packet in order and whole, only the record that
  `bl_do_chat_del_user` writes ends the process.
- `ListIsServers`: a list of members is wrong only after a version was passed over.

`NoAbort` deserves a word. `query_restart` inserts a timer without looking at
`QUERY_ACK_RECEIVED` and without the timer being removed first: whether it
asserts depends only on what the server sends. It does not assert, because a
query is restarted only for its first sending (later ones travel in containers
with ids of their own), and a server that says `bad_server_salt` has not
accepted, hence not acknowledged, that query before. The insertion then meets
the timer it wants to insert, which the code allows for by removing it first.

## 5. What is proved

### QueryLayerProofs

`QueryLayerProofs` proves, for every number of queries, losses, salts and buffer
sizes, from the assumptions that `QueryLayer` names about its constants:

| theorem | statement |
|---|---|
| `TypeCorrect` | `SafetySpec => []TypeOK` |
| `NeverAborts` | `SafetySpec => []NoAbort` |
| `TimersAlwaysMatch` | `SafetySpec => []TimersMatch` |
| `AckedAlwaysReceived` | `SafetySpec => []AckedAreReceived` |
| `ForgottenAlwaysUsed` | `SafetySpec => []ForgottenAreUsed` |
| `QueriesNumAlwaysNotAbove` | `SafetySpec => []QueriesNumNotAbove` |
| `TimersAndCountsHold` | `SafetySpec => []TimersAndCounts`: the first three and `QueriesNumNotAbove` together |
| `ServerAlwaysAgrees` | `SafetySpec => []ServerAgrees` |
| `ImplementsRpcSafety` | `SafetySpec => RpcSafety` |

The argument is one inductive invariant, `Inv`. None of the properties is
inductive alone: that a timer operation finds what it expects depends on which
messages are still on their way. `Inv` joins to the properties

- `CallsMatch`: a query has run its callback once when it is no longer pending
  and never before, which rests on `query_result` forgetting the query first;
- `ServerKnows`: an answer or acknowledgement in the stream is for a query that
  was sent, received and, for an answer, carried out;
- `AcksAreUsed`: whatever is in `ack_tree`, or on its way to the server as an
  acknowledgement, is an answer that the client has used;
- `Buffers`: the messages on their way are for queries that were sent;
- `FirstSendings`: in the pipe from the client to the server (`Pipe`, the network
  after the buffer) a query occurs under its own id at most once, and not when it
  has been received;
- `RestartsFirst`: in the stream to the client a `bad_server_salt` for a query
  comes before every acknowledgement of it, and none is there once the query
  has been acknowledged.

The last two carry `NoAbort`. Each action has a lemma (`InvSendQuery`,
`InvAlarmQuery`, `InvServerReceive`, ...) that it keeps `Inv`; three lemmas do
the three kinds of server messages; lemmas on the pipe say what appending,
writing and reading do to the two ordering conjuncts. `InvStep` collects them.
The refinement follows by mapping each step to `Send`, `CarryOut`, `Answer` or a
stutter, with `CallsMatch` and `ServerKnows`.

### StartupProofs

`StartupProofs` proves, for every number of data centres, starts and faults, and
both shapes of keys, with and without a log, from `KeyExchangeAssumption` and
`StartupAssumption`:

| theorem | statement |
|---|---|
| `AgreesAlways` | `Spec => []AgreesWithServer` |
| `WrongKeysAlwaysExplained` | `Spec => []WrongKeysExplained` |
| `ReadyAlwaysKept` | `Spec => []ReadyIsKept` |
| `NothingIsForgotten` | `Spec => NothingForgotten` |

Again one inductive invariant, `IInv`, carries all four. A process ends anywhere,
and what it leaves is what the next start relies on; so the invariant must say at
every step what memory and disk have in common. It joins to the properties

- `Phases`: a process that has ended waits for nothing, and what is asked is
  asked of the DC to work with, or of the one the authorization is for;
- `Exchanges`: an exchange is for a DC that has no key, at one of two places of
  `loop()`, and the server has the key when its last answer is on the way;
- `Good`, of memory and of the disk: every key was made with the server, and is
  short or torn only as `WrongKeysExplained` says; every data centre that has
  signed is one that the server has authorized, and its key is whole;
- `Synced`: memory and disk have the same keys, the disk no signature that memory
  lacks, and a log the same data centres and, unless the client moved to
  register, the same DC to work with;
- `Reached`: what has been earned where `loop()` stands: keys for all before the
  login, a signature at the DC to work with before the export, all of it on disk
  before the difference is asked for.

`DiesKeeps` is the lemma on the end of a process, for any state of the disk that
the invariant allows. That a write which stops leaves such a state is
`TornGood`, from `MixedGood` on the fields written so far, and
`InterruptedKeeps` says it of each handler that saves. `GoesOnKeeps` the one on steps that only ask or go on;
`WorksWith` and `SignsKeeps` do the moves to another DC and the signatures. Each
other action has its lemma, and `StepInv` collects them. `NothingIsForgotten` adds
`StepKeeps`, which looks at each record that is written and at each write that
stops.

### NetProofs: the connection

From `Connection`'s assumptions about its constants, for every set of programs
and any number of refused connects and of breaks:

| theorem | statement |
|---|---|
| `OneTimerAlways` | `SafetySpec => []OneTimer` |

The type invariant, and that only a refused connect leaves a null pointer, do not
say why a timer that is inserted is not registered: `fail_connection` may run
on a connection that has failed already, on results that are older than the
failure. `ConnInv` adds what each phase of the loop knows of the earlier ones: a
timer is due only until `work_timers`, ten seconds after the last connect
(`DueInTimers`); of a connection that had failed, nothing is polled
(`NotPolled`); one that failed in `work_timers` with results waiting was refused
(`RefusedInTimers`); and one that failed before its hang-up is handled has tried
to connect in this very second, so that `restart_connection` waits, or else the
second has changed since (`TriedInRead`), which is the exception of the property.

### NetProofs: the outgoing buffer

From `BlockSizeAssumption` and `SizesAssumption`, for blocks and packets of any size, any number of bytes
and of losses:

| theorem | statement |
|---|---|
| `FittingAlwaysKept` | `OutSpec => []FittingIsKept` |
| `AlwaysInOrder` | `OutSpec => []InOrderAndCounted` |

The stream is what was sent and what the blocks hold. `OutInv` says that its bytes
rise (`Rising`), and that `out_bytes` is the number of those not sent. A write
appends to the stream the bytes written or, when they span blocks, the last of
them (`Taken`), which is why order and count survive what number 3 of section 6
loses; a send leaves the stream as it is, however many blocks it empties
(`FrontAndRest`). What the blocks hold together is a `FlattenSeq`, and the lemmas on
it go by induction on the number of blocks.

### NetProofs: the incoming buffer

From `BlockSizeAssumption` and `PacketsAssumption`, for blocks, words and packets
of any size, any number of packets and of losses:

| theorem | statement |
|---|---|
| `AlwaysExecutedAsArrived` | `(\A len \in Packets : len < TooLong) => (InSpec => []ExecutedAsArrived)` |
| `ReaderAlwaysInStep` | `(\A len \in Packets : len < TooLong) => (InSpec => []ReaderInStep)` |

The hypothesis says that the server sends no packet of `MAX_RESPONSE_SIZE` bytes
or more; with one the property fails, which is number 5 of section 6. `InInv`
says that there is a number of packets, all of them whole, that were executed
with their own bytes (`At`), while the blocks hold the rest of the stream up to
what was read (`Holds`), and that this rest is no whole packet (`NoMore`). What is
received is appended to what the blocks hold, wherever a block ends. Each byte of
a chain has a place (`PlaceExists`), so what is read is the front of the blocks,
and the rest remains (`FrontAndRest`, as for a send). One round of the loop takes
one packet off and goes from `At` to the next `At`, or finds `NoMore`; that the
bytes of the buffer are rounds enough (`AllExecuted`) is by induction on the
rounds, each of which takes a byte at least.

### UpdatesProofs

From `UpdatesAssumption`, for any number of updates, crashes and losses, slices
of any length, with and without a log:

| theorem | statement |
|---|---|
| `StartMisses` | `Spec => []StartMissesOnlyHoles` |

A handler writes its records one by one, and pts may be written before the
message that it covers. So `IInv` speaks of every pts there is: the one in memory
and the one on disk (`MemoryCovered`, `DiskCovered`), the ones the steps still to
be done will set (`StepsCovered`) and the ones a difference was asked from
(`QueriesCovered`). Each covers only updates that are `Firm` (taken in, jumped
over or cut off) or that the handler that runs has yet to take in (`Coming`).
`InOrder` says where in a handler's steps the messages and the next request stand.
What a handler's steps are is a `FlattenSeq`, about which the lemmas go by
induction.

### MessagesProofs

From `MessagesAssumption`, for any number of texts and of crashes:

| theorem | statement |
|---|---|
| `EachSentOnce` | `Spec => []SentOnce` |
| `TreesAlwaysSound` | `RefusesAgain => (Spec => []TreesSound)` |
| `NoneGoAstray` | `RefusesAgain => (Spec => []NoneAstray)` |

The first holds whatever the server does with a random id that it has seen. Its
invariant `Sends` says that a message waits under its own random id only, in
memory, in every memory that a replay of the log gives, and in every request.
The other two need a server that refuses: with one that answers with the message
it has, the run `msg_freed` violates `ListsAlive`, number 1 of section 6. `IInv`
adds `Sound` (the trees and lists of a memory agree, and nothing in them was
freed), `LogIsMemory` (a replay of the log gives the memory there is, by
induction on `Replayed`), `QueriesPending` (a query is about a message that
waits, and has one request or one answer on its way) and `NewAnswers` (what an
answer names is not in memory and comes in no other way).

### PeersProofs

From `PeersAssumption`, for any users, chats and names, any number of packets,
faults and starts:

| theorem | statement |
|---|---|
| `NamesFound` | `Spec => []NamesFindPeers` |
| `RestartsKeep` | `Spec => []RestartKeeps` |
| `AbortsAllExplained` | `Spec => []AbortsExplained` |
| `ListsAreServers` | `Spec => []ListIsServers` |

`Good` says of a memory that its index holds the created peers, each under its
name or that with a suffix, and no two under the same. `create_print_name` finds
a suffix that is free, since there are fewer names in the index than suffixes to
try: an argument on cardinalities. `Kept` is what a restart keeps of a memory; a
record is applied to the memory and to what the log gives alike (`Logged`), so
each `bl_do_*` keeps `RunOK`, the handling of a part does, and that of a packet
does by induction on `HandledBy`. `ListsRight` ties the lists of members to the
server's. For `AbortsExplained` the packets on their way count: `InOrder` and
`ListsCome` say that, unless one was lost or overtaken, every change of a list
after the version that the client knows is on its way, in its order. The code
tries 9999 suffixes at most (`assert (cc <= 9999)`, structures.c:175), which the
model leaves out: what is proved is for fewer peers of one name than that.

### SecretChatProofs

From `SecretChatAssumption`, for any chats made here and asked for, any number of
attempts at a key, any of which may be short, of crashes and of other faults, with and without
a log:

| theorem | statement |
|---|---|
| `OkKeysAlwaysAgree` | `Spec => []OkKeysAgree` |
| `ChatsAlwaysKept` | `Spec => []ChatsKept` |
| `OkAlwaysStays` | `Spec => OkStays` |

`IInv` says of the two keys that they are equal but for their shape, which is
what a short number changes. It has two halves. What a query or an update relies on (`QueriesRight`,
`UpdatesRight`: the state its chat is in, the key in memory, what the server has
agreed to) does not depend on the file, and holds after a torn write too, since a
start forgets every query. What a chat that waits or is ok owes to its key
(`Settled`) has to survive a start, and rests on `KeptOnDisk`, which in turn rests
on the file: `ReadBack` says that `read_secret_chat_file` finds the chats that
`write_secret_chat_file` wrote, whatever stood in the file before and still
stands behind (`OverlayIs`), by induction on the chats written; `ReadAny` says
that from any file, torn ones too, it makes a memory in which chats are in the
states that they may be in, or nothing. `StoredKeeps` and `StartKeeps` carry
this through a record and through a start, `FetchIs` says what
`fetch_encrypted_chat` makes of a chat, and each action has a lemma that it keeps
`IInv` and takes no chat from `sc_ok` (`Keeps`).

### FileProofs

The downloads, for any finite set of media of any sizes, and any number of loads
and of faults:

| theorem | statement |
|---|---|
| `FilesAlwaysRight` | `Spec => []FilesRight` |
| `DownloadsAlwaysCounted` | `Spec => []DownloadsCounted` |
| `WholeAlwaysStays` | `Spec => WholeStays` |

What is on disk outlives the struct that wrote it, and several structs may write
one file at the same time. A struct that took no offset from a file is in step
with its file, its offset and its iv (`Clean`); it writes each unit where it
belongs, so two of them that write one file write the same, and what one has
written the other leaves (`FilesSound`). `GoesOn` says that a load under way is not
at the end and has written no more than it counts, and `Begun` that every load is
so and within its file. The files that were written to by a struct that did take
an offset (`resumed`) are the exceptions the properties name.

The uploads, for files of any finite set of sizes, part sizes of whole blocks,
any limits, any number of sends and of faults:

| theorem | statement |
|---|---|
| `SentAlwaysWhole` | `UpSpec => []SentIsWhole` |
| `SentAlwaysKnown` | `UpSpec => []SentIsKnown` |
| `UploadsAlwaysCounted` | `UpSpec => []UploadsCounted` |

The message names what was stored under an id, part by part; that this is the
file follows from what the struct knows at each part. While it is open, the
offset is that of `part_num` whole parts, and the server has those before it or
is asked to keep them (`OpenAt`); when it is closed, the last part is the rest of
the file (`ClosedAt`), so that the parts one after another are the file
(`AllParts`, by induction on their number), padded for a secret chat to whole
blocks of the cipher (`PadIs`, `PadFits`). `GoingOn` says which of the two holds
for the query that is under way; `EndedGood` is the lemma on an end of the process.

The counters of both modules are sums over the structs; a step changes one of
them (`SumChanged`, an induction on finite sets).

### What the proofs rest on

The assumptions about constants say that bounds are natural numbers and that
sets of texts, users, chats and media are finite; that a name is a sequence, so
that it can be given a suffix; that no chat is both made here and asked for; that
the parts of a file are whole blocks of its cipher; and that no packet that is
sent is longer than a block. Of the data they say no more; the theorems on the
incoming buffer, and two on messages, have one hypothesis more, named there. Where
induction is needed (on the steps of a handler, the records of a log, the parts
of a packet or of a file, the blocks of a buffer, the chats of a file) it is by
the least number for which a statement fails, from the library's theorem that `<`
is well founded on `Nat`; recursion is written as recursive functions for this
purpose.

### Only model-checked

Every invariant and every action property of the passing runs is a theorem. What
is left to TLC: liveness and the full refinement of `Rpc` (fairness and ENABLED
are out of the prover's reach), and with them `Followed` of `SecretChat`,
`Settles` of `Messages` and of `Updates`, and the other properties of section 4
that say what happens in the end.

## 6. What was found

With a run of its own:

1. `set_msg_id` frees a message that stays in the list of messages in use, and
   `msg_send_on_answer` goes on to read it (`msg_freed`).
2. A program that only polls never comes back from a lost connection:
   `connections_recv_data` does not handle `POLLOUT` (`conn_polls`).

With another property or other constants in the run's configuration:

3. `write_out` drops the first part of what does not fit into the last block
   (`NothingLost` as an invariant of `buffers`).
4. `fetch_pts` jumps over a hole without fetching the difference, and what was
   missed lies below pts from then on (`HolesAreFilled` as an invariant of
   `updates_kept`).
5. A packet that is too long is reported as skipped, but its contents are read as
   packets (`ReaderInStep` in `buffers` with `TooLong = 3`).
6. A download that goes on from a file that is there opens it for writing at the
   beginning, so the file ends up wrong, and is reported with "Done"
   (`DoneIsDone` as an invariant of `download`; queries.c:1778, 1805).

As an exception that a property names; without the exception the run fails:

7. When the second changes between two failures of a round, the same timer is
   inserted while it is registered (`OneTimer`); `tree_insert` asserts this only
   if its search meets the element, so in the other cases the tree just holds it
   twice.
8. `ping_alarm` may leave no connection where the loop expects one, when the
   connect that follows fails at once (`OneTimer`). `net_connection` may then also
   act on events that `poll`, when it failed, has not written (loop.c:117).
9. A key with a leading zero byte, one of 256, is not the server's: the assertion
   that finds it out comes after the key was stored, so every later start waits
   for ever (`WrongKeysExplained`, `Arrives`). In a secret chat the fingerprints
   differ and the chat is `sc_ok` all the same (`OkKeysAgree`).
10. Answers and updates of a chat find it by a pointer; when it was discarded in
    the meantime, its `g_key` is null (`ChatsKept`).
11. `bl_do_chat_del_user` writes the record of an addition, without two of its
    fields: `add_log_event` asserts, before the record is in the log, and the
    update comes again at the next start (`AbortsExplained`).
12. A process that ends in `write_auth_file` leaves a file that is partly new: a
   key id without its key, or, when data centres were added, a file that every
   later start asserts on (`WrongKeysExplained`, `NothingForgotten`, `Arrives`).
13. The second query of `do_auth_check_phone` is what `packet_buffer` happens to
   hold by then; a container or an acknowledgement gets no answer, and the login
   waits for ever (`Arrives`).

Seen while modelling: `update_message_i_d` stores the random id of 64 bits in an
`int` and so never finds the message; the model of `Messages` has this as it is
(`InInt`), and `Settles` shows that sending again and being refused makes up for
it. Reading all 64 bits would lead into number 1. `fetch_chat` swaps the number of
members and the version in its call of `bl_do_set_chat_version` (structures.c:519
and binlog.h:130); the list of members has a version of its own, so
`ListIsServers` holds. "Too big file" names the size of 1000
parts, while the part size is chosen for 3000 (queries.c:1508, 1516). `contact_list` lists chats too, and raises for a peer that was only
allocated and has no name. The lock on the log is taken after the replay.

## 7. Plan, and what is not modelled

Done: the modules of section 2. What is left, in this order:

1. Session details left out of `QueryLayer`: containers from the server, new
   sessions, sequence numbers, message ids and the clock. In `Updates`: qts, the
   date, and the updates that are not messages.
2. The callback into Ruby that runs inside `replay_log_event` and may call the
   client again.

Not modelled:

- the treap (`tree.h`): the models use it as the set it represents, with its
  assertions; its priorities are random and its operations recursive;
- the conversions of `lib/` and of `telegram_ext.c`, which keep no state;
- the terminal interface (`interface.c`, `main.c`), which the extension never
  starts;
- cryptography, big numbers, gzip and allocation: functions that do what they
  say, but for the length of a number (`KeyExchange`, `SecretChat`);
- records of read marks, photos and the kinds of messages other than text, which
  are applied as the modelled ones are and on which nothing here depends;
- the lock on the log, and build files.
