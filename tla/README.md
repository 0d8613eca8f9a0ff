# Verification of mesh-vnode

mesh-vnode holds a Meshtastic node's single TCP connection, stores what it
hears in SQLite and presents itself to any number of Meshtastic apps as a node:
an app that connects gets the node's config and then the messages it missed.
This directory holds TLA+ models of the program in `src/mesh_vnode/`, the TLC
configurations that check them on small instances, and TLAPS proofs for all
values of the constants. `PROJECT.json` lists the runs, the faults each property
was tried against, the source lines every definition stands for, and the hazards
the properties are for.

Paths below are relative to `src/mesh_vnode/`.

## 1. The system

### Threads and what they share

| Who | Runs | Touches |
| --- | --- | --- |
| event loop | session handlers, fan-out, web routes that are `async` | `VNodeServer.clients`, the sessions |
| reader thread (of the meshtastic library) | `_on_raw_frame`: store, then raw sinks | database, `_early_status`, `config_frames` |
| supervisor thread | `_supervise`: dial, watch, close | `iface`, `connected`, `host`, `port`, `_kick`, `_stop` |
| worker threads (`asyncio.to_thread`, sync web routes) | database calls, sends, `put_prefs` | database, `Upstream` fields |
| timer thread | `_refresh_now` | `connected`, `_kick` |

The database object has one lock. `batch()` holds it over several statements
(the reader does this for one packet, `_store_packet`); everything else locks
one statement at a time. Threads reach the loop only by `call_soon_threadsafe`,
which is first in, first out.

### Components

| Component | State | Operations | What makes it correct |
| --- | --- | --- | --- |
| message store, `db.py` | `packets` with AUTOINCREMENT `seq`, unique per (from, id); `clients.last_seq` | `store_packet`, `packets_after`, `count_after`, `set_client_cursor`, `prune`, `clear_data` | numbers are never reused below a cursor; a saved cursor never goes back |
| virtual node server, `vnode_server.py` | sessions: `live`, `pending`, `cursor`; posted callbacks | connect, handshake, replay, flush, fan-out, mirror, drop | nothing stored is passed over, nothing appears inside the handshake, order of first sight, nobody sees an echo |
| maintenance, `web/system.py` | - | `clear`, `reset_client` | cursors move back only there; deleted rows are not revived |
| upstream link, `upstream.py` 142-344 | interface, flags, target, timer | supervise, `retarget`, `recapture`, `refresh_config_soon`, `stop` | ends on the last address with the present config, never on itself, and stops |
| delivery status, `upstream.py` 193-232, 650-671 | `status`, `delivery_log`, `_early_status` | `_set_status`, `_apply_early_status`, `_on_routing` | a status never goes back, is backed by the log, and no report is lost or counted twice |
| exchanges, `upstream.py` 439-492, 713-772 | `exchanges` rows | log, resolve, expire | an answer settles its request, once |
| app byte stream, `framing.py` | decoder buffer | `feed` | handles the frames sent, in order, with bounded memory |
| node table and favourites, `db.py` 591-766, `upstream.py` 495-568, 780-828 | `nodes` rows, `config_frames`, `_favorites` | `replace_config_frames`, `upsert_node`, `set_node_flags`, `refresh_node_frame`, `note_node_flags` | node, table, handshake and cache agree on a star; the handshake stays one the firmware could have sent, with every node in it |
| codec, series, web reads, settings, UI | none, or rows already read | pure functions | - |

### How they interact

A frame from the node is handled by the reader thread: a message is inserted and
gets a number; `_upstream_sink` posts the frame with that number to the loop;
`_fanout` gives it to each session, which writes it (live) or queues it (in its
handshake). An app's packet is stored by a worker, mirrored to the other sessions
on the loop and transmitted by a worker; a text from the web UI is transmitted
first and then stored and mirrored. What the node or the mesh reports on a text
comes back on the reader thread and looks for the text's row.

### What is hard here

- Two threads number messages and post them to the loop independently, so
  numbers and arrival order may differ.
- A session takes a picture of the store (the replay) while messages keep
  arriving; a message may be in the picture, in the queue and on its way at once.
- One app (one key) may have several sessions; each has a cursor in memory and
  all save to one row.
- The process may die between giving a message to an app and saving its cursor,
  with some apps of a fan-out served and others not.
- An app may stop reading: `drain()` then never returns to its handler.
- Writes to a closed asyncio transport are dropped silently.
- `Upstream`'s fields are shared by five kinds of threads without a lock; two
  Events carry "look again".
- A report on a text can be faster than the insert of the text, and a queue status
  is put aside for it in three statements that take no lock.
- A star is kept in four places and changed in each at another moment, while the
  handshake that carries it is captured anew.

Every such place is a hazard in `PROJECT.json`, with its line and the properties
that would notice it going wrong, or the reason why no property covers it.

## 2. The modules

| Module | Models | Extends |
| --- | --- | --- |
| `MessageStore` | the store's tables and queries, as operators and one-table actions | - |
| `VNodeServer` | all threads around the sessions; one action per statement group between two points where another thread or callback may run | `MessageStore` |
| `Mailbox` | what the service promises: numbered messages, cursors, nothing passed over; the abstract specification `VNodeServer` implements | - |
| `VNodeMaintenance` | Clear data and Reset cursor, composed with the whole server | `VNodeServer` |
| `UpstreamLink` | the supervisor and everything that interrupts it; one action per load or store of a shared field | - |
| `DeliveryStatus` | the status ladder, the log, `_early_status` | - |
| `Exchanges` | outgoing requests | - |
| `NodeReports` | senders and reader thread around both | `DeliveryStatus`, `Exchanges` |
| `NodeTable` | a star's way through node, table, captured handshake and cache, next to the capture and live packets; one action per database call | - |
| `AppStream` | `FrameDecoder` under a TCP that cuts anywhere | - |
| `StoreProofs`, `VNodeServerProofs` | proofs about the store's operators and the server | `MessageStore`, `VNodeServer` |
| `MailboxProofs` | that the server is a mailbox, and writes in order | `VNodeServerProofs` |
| `MaintenanceProofs` | proofs about the cursors under maintenance | `VNodeMaintenance`, `VNodeServerProofs` |
| `UpstreamLinkProofs`, `NodeReportsProofs`, `NodeTableProofs`, `AppStreamProofs` | the proofs about each | the module they are named for |
| `MC...` | small instances for TLC | |

Operators marked "fault" are deliberate slips. No action uses them; they are what
each property was tried against.

### Correspondence, and what is simplified

`MessageStore` / `VNodeServer`. `rows`, `lastSeq` and `lastSeen` are the packets
table, its AUTOINCREMENT counter and `clients.last_seq`. `pc[c]` is the await point
at which connection `c`'s handler coroutine stands; `reader` and `web` hold the
number a thread has stored and not yet posted; `ready` is the loop's callback queue.
History variables (`wrote`, `handed`, `reached`, `skipped`) record what was written,
to whom, over an open transport or not, and what the replay left out.

- Reading `config_frames` and resuming the handler are one step (`ServeConfig`);
  the upsert and the SELECT of `get_or_create_client` are one step (a cursor saved
  between them is read, as if it had been saved before; a clear between them would
  end that connection's handler with an error and is not modelled).
- `_deliver` writes, moves the session's cursor and saves it in three statements
  (`vnode_server.py:178-181`; the flush and `_forward_packet` likewise, 527-537 and
  337-339). They are one step (`Deliver`, `GoLive`), because they run on the loop without an
  await, and the other threads neither read nor write a cursor a registered session
  saves. Only the death of the process tells where the loop was, so only `Restart` cuts
  a step short: `DiesDelivering` leaves any of the sessions written to, and the save
  that follows the last write done or not, `DiesGoingLive` any part of the flush.
- A handler that awaits `drain()` (`Draining`) may go on or stand there for ever; see
  Fairness.
- Heartbeats, admin requests and the repeat of a want_config within the cooldown
  change none of the state and are left out.
- One web request is in flight at a time in `VNodeServer`; two are in `UpstreamLink`.
- Time passes only outside the window between the two queries of a replay, since
  one `min_rx_time` is computed for both.
- The forward policy is not applied: it never drops a numbered message.
- A restart is a process that dies; an orderly stop does no more to the store.

`Mailbox`, through `VNodeServer!Box`. `top` is `lastSeq`; `held` the numbers in
`rows`; `read[k]` the saved cursor, 0 for an app without a row; `given[k]` is
`handed[k]` and `skipped[k]`, what was written to the app or left out for it by
the replay's limit or age window. An insert is `Arrive`, a prune is `Throw`, all
else is `Serve` or a stutter, so a cursor may move over a message only in a step
after which the app has it or it was left out.

`NodeTable`. Of a node's columns only `is_favorite` is kept; `is_ignored` takes the
same way. `frames` is `config_frames` in its order, a frame being a key and, for a
node, its star. The other sections of the handshake (config, channels, metadata)
change nothing here; `my_info` stands for what precedes the node list and `file` for
what follows it. The rest of the model is the physical node as the code uses it:
it lists its nodes one frame at a time, itself first, holds packets back
meanwhile, evicts nodes, and takes or loses the message that sets a star.

- One packet is one step on the database (`batch`), and so is each statement of a
  setter; reading the favourites and
  assigning the cache are two (`upstream.py:525`, `798`).
- `replace_config_frames` fails with an IntegrityError when the captured handshake
  has one key twice, which happens when the node evicts a node and hears it again
  while it lists (`FailComplete`). There is no rollback, and the reader's own
  exception handler keeps the thread alive.
- The history variables `settled`, `fresh`, `doubtful` and `torn` say of which nodes
  and when the four places can be expected to agree; the comments at the properties
  list what makes them give up a node until the next handshake.

`UpstreamLink`. `settings` counts changes of the node's config; `snap` is the
version a handshake carries (taken at its earliest moment, which is the worst
case), `stored` the one in `config_frames`. The return of the constructor and
`connected.set()` are one step: the timer's eight seconds are taken to be longer
than these few statements. `--node` is not given on the command line. Only admin
messages that change settings are sent. The five seconds `stop` waits for the
thread are not modelled; `StopEnds` is about the thread itself.

`NodeReports`. What `_store_packet` does with a routing packet or an answer is one
step because it holds the database lock throughout; a queue status is handled
outside it, and each thing it does to shared state is a step: the query for the row
(`FindOwn`), then the two writes, or `setdefault`, `append` and the loop that makes
room (`KeepQueued`, `AppendQueued`, and the loop's condition and its pop, `CountEarly`
and `TrimQueued`). A sender that pops the list in
between shares it with the reader, whose `append` lands in the list being walked
(`queueReport.at = "shared"`) or in one nobody looks at any more (`"astray"`, counted
in `strayed`). A list that `recapture` throws away in that time is counted as `lost`.
A sender that
takes an id between the loop's condition and its pop has made the room already, and the
loop gives up one id more than it had to. When it takes the very id the loop looks at,
the loop ends with a KeyError or RuntimeError and gives up none: what is left is the same
as if the sender had come before the condition. On the routing path the same statements
are one step under the lock (`KeepEarly`). The sender's pop comes after its batch and does
not take that lock, so there too it can fall between the condition and the pop; the
module has that interleaving on the queue-status path only.
Our node number is known and rows are not pruned.

`AppStream`. `MaxPayload` is 3 instead of 512. Each turn of the loop in `feed`
is an action. Noise is what cannot declare a length the decoder would accept;
anything else would by design swallow the bytes it declares.

## 3. The runs

| Run | Instance | Shows |
| --- | --- | --- |
| `mesh` | 2 connections of one app, 3 connects, 2 messages, a drop, a restart | `NothingPassedOver` (a cursor never moves over a message nobody wrote to that app), `FirstSeenInOrder`, `AtMostOneSecondCopy`, `QuietHandshake`, `LiveHasNoBacklog`, `FlushSkipsOnlyCovered`, `CursorOnlyForward`, and `IsMailbox`: every step is a step of `Mailbox` |
| `writers` | 2 apps, 3 connects, a send by an app and one by the web UI (perhaps a packet that is stored already), a prune, a restart at any statement | `CursorWithinStore`, `CrashRepeatsOne` (a crash shows one message a second time at most, to one app), `NewRowsPastCursors`, `NoEcho` |
| `live` | 2 apps, of which either may stop reading, 2 messages, a replay limit of 1, fairness | `GetsThrough` and `HandshakeEnds` (for the app that reads) and `LimitKeepsNewest` |
| `maintenance` | 1 app, 2 connects, mesh, web UI, aging, a restart, a clear, a reset | `ClearedRowsStayGone`, `OnlyMaintenanceRewinds`, `ResetHoldsWhileAway` |
| `reports` | a text of the web UI, one of an app, a request of either, in three choices of what is sent together, 3 reports, a restart | `TypeOK`, `StatusBacked`, `EvidenceReflected`, `NoStepBack`, `EveryReportOnce`, `AppsNeverEarly`, `AcksNotStranded`, `AnswerSettles` |
| `link` | 2x2 addresses, 2 web requests, 1 app, three mixes of events, fairness | `NeverDialsItself`, `ConnectedHasInterface`, `RefreshDue`, `LinkFollowsPrefs`, `TargetReached`, `ConfigCatchesUp`, `StopEnds` |
| `nodes` | 2 nodes besides our own, 2 setters, six mixes of stars, packets, evictions, lost links, stars set elsewhere and a clear | `StarsAgree`, `CacheFollows`, `HandshakeWhole`, `ListComplete` |
| `stream` | 4 items, payloads that look like headers, half headers between them | `OnlyWhatWasSent`, `EveryFrameFound`, `BufferBounded` |
| `lost_link` | 1 connection, 1 message, 1 drop | violated `NothingMissed`: a replay into a closed transport moves the cursor |
| `out_of_order` | 1 connection, 1 message, 1 web send | violated `FlushSkipsOnlyCovered`: number 2 flushed before 1 hides 1 |
| `cleared_dropped` | 2 connections of one app, Clear data | violated `DroppedMoveNoCursor`: a dropped handshake still saves a cursor |
| `stranded` | 1 web text, 1 report | violated `NothingStranded`: a queue status put aside after the text looked for it |

The last four are disagreements between the code and what its comments or
documents say; `PROJECT.json` quotes both sides. Some things that hold only
within limits, or that the comments say otherwise, are worth knowing too:

- A crash does replay what an app was given live, if it comes between the write and the
  save of the cursor (`vnode_server.py:178-181`). `CrashRepeatsOne` bounds it: one
  message, to one app. In a replay and the flush that ends it the cursor is saved after the last
  write only, so there a crash repeats all that was written; an app in its replay is
  left out of the property.
- The race of a queue status with the insert of its text costs the text at most one
  report, stranded or strayed (`EveryReportOnce`); that it is applied after all is what
  run `stranded` refutes.
- `EvidenceReflected` says nothing of a process that died between the two writes of a
  report: the log then has a line the status never shows.
- A retry of a packet the store has is neither stored nor mirrored again by the unique
  index and the None it leads to (`StoreOwn`); `NoEcho` is about the echo and does not
  restate that.
- `NothingPassedOver` needs a pending queue that does not overflow. With
  `MaxPending` below the messages that arrive during one handshake, a message is
  dropped after the replay rows were read, and the next delivery moves the cursor
  past it. The comment at `vnode_server.py:172-174` counts on the replay to bring it.
- `NothingPassedOver` is checked without senders: in `out_of_order`'s setting, with
  two threads that number messages, it fails in the same way.
- `NothingPassedOver` is checked without a prune during a handshake. One between
  `count_after` and `packets_after` makes the offset too large: with a limit of 1 and
  two rows of which one is pruned in between, the replay is empty and the cursor is
  then moved past the row that is left.
- `FlushSkipsOnlyCovered` is checked without any prune. A message that waits in a
  session's queue while its own row is pruned is skipped by the flush as soon as the
  replay reads a later row (`NothingPassedOver` speaks of rows in store only and is
  not affected).
- An answer that comes after its request was written off is dropped: `open_exchange`
  (`db.py:957`) looks at sent and failed rows only, while the docstring at
  `db.py:980-982` says a late answer is still accepted.
- `CacheFollows` excludes two threads that both hold a set they have read. The older
  one may be assigned last, and the cache then differs from the table until the next
  change, although the comment at `upstream.py:153` says it follows every change.
- `StarsAgree` is about nodes that were in a captured handshake. A star set on a node
  without a frame is in the table and not in the handshake; when the node is then
  heard, `refresh_node_frame` adds its frame without the star, and apps see it
  unstarred until the next capture.
- `replace_config_frames` is called atomic at `db.py:592` and is not when a key comes
  twice: the old frames are gone and the new ones stop at the repeated key
  (`FailComplete`, `torn`). Two config variants the code does not know share the key
  `config:None` and would do the same.
- Packets read between `_startConfig` and the end of the capture are dropped before
  they are stored (`upstream.py:551-568`). The node list recovers (`ListComplete`); a
  text among them would not. The firmware holds packets back during the handshake, so
  this concerns what it sent just before it saw the request.
- `ResetHoldsWhileAway` is about an app that is away. While one of its sessions is
  live, the session's next delivery saves its own cursor over the reset, although
  the docstring at `web/system.py:119` says "so the next connect replays everything".
- `LinkFollowsPrefs` is about requests that do not overlap; two at once may leave
  the link on another address than the stored one until the next restart.

### Why the bounds are enough

Budgets bound how often the environment does something; threads and handlers are
never bounded. Two messages are needed for any disorder, two connections with one
key for any race between cursors, three connects for a drop and a return beside a
session that stays, and one restart at any of the states so reached. A prune in
`writers` deletes any set of rows (ages and numbers need not agree), all of them
included, which is what number reuse needs. In `reports` three reports on three packets give every pair of
reports on one text plus one that pushes another id out of `_early_status`
(`MaxEarly` is 1); which packets are sent together is one of three choices. In `link` two addresses that differ in both fields give the
mixed addresses a torn read can see, one of which is the service's own listener.
In `writers` two apps are the fewest a crash can find one served and one not; the web
UI's message goes to both, the app's to the other one, and the crash can come in either,
with the other message posted, queued or already pruned. A packet the store has
is refused there when the app sends what the web UI has stored.
In `nodes` two nodes besides our own are what an order of frames and a repeated key need, two
setters every race for the cache, and two items on the wire (`MaxWire`) a packet next
to a frame; the six mixes pair the rare events, whose sum would be too much at once.
In `stream` four items hold a frame, noise on either side and a frame after it,
cut at every byte.

### Fairness

`VNodeServer!FairSpec`: every handler coroutine that can run does, the loop runs
its callbacks, the reader and web threads go on after their database call. The mesh
and the web UI owe nothing, and neither do the apps: three of a handler's awaits are
`drain()` (`vnode_server.py:512`, `523` or `592`, `538`), which returns only when the app at the other
end reads or goes away, so a handler in `Draining` has no fairness. The rest is what asyncio and the
operating system guarantee. `AppReads(c)` says that the app of connection `c` keeps
reading. It is a premise inside `GetsThrough` and `HandshakeEnds`, for the one
connection each is about: the handshake ends and the messages come for an app that
reads, whatever the other apps do. For one that does not, the code promises nothing, and
neither does the model.
`UpstreamLink!FairSpec`: every thread that can run does, a wait with a timeout ends
(`_kick.wait(timeout)` in the supervisor), and a dial ends one way or the other
because the constructor has a timeout. Refusals and losses are bounded by the
budget, so the liveness properties say what happens once the network behaves.

`CHECK_DEADLOCK FALSE` is set everywhere: with a spent budget and every session
idle or gone the system stands still, as it does in reality.

## 4. The proofs

Eight modules of proofs; `PROJECT.json` lists their results under "theorems". Every
invariant the runs check is stated by a theorem, and so is every action property and
the refinement of `Mailbox`. What is not is the liveness, and the four statements that
do not hold. Where the table names no premise, the theorem holds of the specification
as it is, from the assumptions on the constants in the module that declares them
(`StoreAssumption`, `ServerAssumption`, `MaintenanceAssumption`, `LinkAssumption`,
`NodeAssumption`, ...), which TLC evaluates in every run.

| Module | Property | Theorem | Premise |
| --- | --- | --- | --- |
| `VNodeServerProofs` | the invariant `NumbersKnown`; `TypeOK` | `NumbersAlwaysKnown`, `TypeCorrect` | |
| | `CursorWithinStore`, `CursorOnlyForward`, `CrashRepeatsOne` | `CursorsWithinStore`, `CursorsOnlyForward`, `CrashesRepeatOne` | |
| | `NewRowsPastCursors` | `NewRowsPastAllCursors` | |
| | `LiveHasNoBacklog`, `QuietHandshake` | `LiveSessionsFlushed`, `HandshakeStaysQuiet` | |
| | `NoEcho` | `NeverAnEcho` | |
| | `LimitKeepsNewest` | `LimitAlwaysKeepsNewest` | `[]RoomLeft`, `PrunesApart` |
| `MailboxProofs` | the invariant `MailInv` | `MailAlwaysInOrder` | `MeshTraffic`, `[]RoomLeft`, `PrunesApart` |
| | `NothingPassedOver`, `IsMailbox` | `NothingEverPassedOver`, `ServerIsMailbox` | `MeshTraffic`, `[]RoomLeft`, `PrunesApart` |
| | `FlushSkipsOnlyCovered` | `FlushKeepsAll` | `MeshTraffic`, `[]RoomLeft`, `NothingPruned` |
| | the invariant `OrderInv` | `WrittenAlwaysInOrder` | `OnlyMesh` |
| | `FirstSeenInOrder`, `AtMostOneSecondCopy` | `FirstAlwaysInOrder`, `NeverTwoSecondCopies` | `OnlyMesh` |
| `MaintenanceProofs` | `OnlyMaintenanceRewinds`, `ClearedRowsStayGone`, `ResetHoldsWhileAway` | `NothingElseRewinds`, `ClearedRowsRemainGone`, `ResetsHoldWhileAway` | |
| `NodeTableProofs` | `CacheFollows` | `CacheAlwaysFollows` | |
| | types; `HandshakeWhole`, `ListComplete`, `StarsAgree` | `TypesAlwaysHold`, `HandshakeAlwaysWhole`, `ListAlwaysComplete`, `StarsAlwaysAgree` | |
| `UpstreamLinkProofs` | types; `NeverDialsItself`, `ConnectedHasInterface` | `LinkTypeAlways`, `LinkNeverDialsItself`, `ConnectedAlwaysHasInterface`, `EndedIsClosed` | |
| | `RefreshDue`, `LinkFollowsPrefs` | `RefreshAlwaysDue`, `LinkAlwaysFollowsPrefs` | |
| `NodeReportsProofs` | `TypeOK`, `EveryReportOnce`, `AppsNeverEarly` | `ReportsTypeAlways`, `EveryReportAlwaysOnce`, `AppsAreNeverEarly` | |
| | `StatusBacked`, `EvidenceReflected`, `NoStepBack` | `StatusAlwaysBacked`, `EvidenceAlwaysReflected`, `StatusNeverStepsBack` | |
| | `AcksNotStranded`, `AnswerSettles` | `AcksNeverStranded`, `AnswerAlwaysSettles` | |
| `AppStreamProofs` | `BufferBounded` | `DecoderAlwaysBounded` | |
| | the invariant `StreamInv`; `OnlyWhatWasSent`, `EveryFrameFound` | `FramesAlwaysStand`, `OnlySentIsHandled`, `EveryFrameIsFound` | `HarmlessNoise` |

`StoreProofs` has the facts about the store's operators that need an argument: a
nonempty set of numbers has a least element and a bounded one a greatest
(`MinOfNaturals`, `MaxOfBounded`), and the ranks used to slice a backlog are all
taken (`EveryRankTaken`).

The premises:

- `MeshTraffic` (a constant formula: replay is on with a limit above 0, nobody but the
  mesh sends) and its part `OnlyMesh` (nobody but the mesh sends); `RoomLeft` (no
  pending queue is full); `PrunesApart` (no row is pruned while some session is between
  its count and its select) and, for the flush alone, `NothingPruned`. They are the
  limits listed under section 3, each with a run or a trace that shows why it is
  needed. Run `mesh` is an instance of all of them and run `live` of those of
  `LimitKeepsNewest`; with a prune outside of the two queries TLC agrees that
  `NothingPassedOver` and `IsMailbox` hold.
- `HarmlessNoise` (in `AppStream`): what looks like a header between the frames
  declares more than a frame can hold, and either no noise ends in the first bytes of
  a header or no noise begins so that it completes them. Text and the START2 bytes that wake a radio are harmless.
  `MCAppStream` assumes it of the noise it uses, so TLC evaluates it. Without it the
  decoder waits, as designed, for the bytes a false header declares, and swallows a
  real frame among them; the buffer's bound does not need it.

### The server

The type invariant is not inductive alone. `GoLive` sets the cursor to the greatest
number of a set (`Covered`), and the greatest element exists only if that set has a
bound; so the invariant that carries everything is `NumbersKnown`: every number
anywhere - in a thread's hands, posted, pending, in a cursor, in the rows of a
replay, written - is one the store has handed out, `0 .. lastSeq`. It gives
`TypeOK` and `CursorWithinStore` at once, and with it `NewRowsPastCursors` is a
matter of `NextSeq`. `CursorOnlyForward` follows step by step because every save
goes through `Moved`, which takes the greater number, and `Restart` keeps the table.
`CrashRepeatsOne` needs `SavedInv`, which also covers sessions that stand between
the lookup of their cursor and their registration: the cursor a session has in memory is
never ahead of the saved one, and of a step cut short by a crash all but the cursor of its
last write is saved. `LiveHasNoBacklog` and
`QuietHandshake` need `QueueInv`: only registered sessions are live, a live one is
not inside its handshake, and its queue is empty. Each step lemma
(`ThreadStepKnown`, `WorldStepKnown`, ...) has one step per action and, below it, one
per conjunct the action disturbs.

`NoEcho` needs `EchoInv`, which says where a session's own message can still come
from: it is no other session's, is in none of the queues and hands that lead to the
session, and from its mirroring on it is behind the session's cursor, where no
replay returns it. It needs no premise: whatever order numbers are posted in, a
mirrored message is posted to nobody, it is given to the others at once.

`LimitKeepsNewest` needs `LimitInv`, about the time between the two queries. The
offset leaves out no more than the rows beyond the limit, and what is stored after the
count is still coming to the session - held by a thread, posted, queued - until it has
its rows (`QueueTagged` says which callbacks carry a number). That the
slice has exactly `ReplayLimit` rows above every row it leaves out is `SliceFull`, an
argument about ranks (`RanksAscend`, `RanksBelow`, `EveryRankTaken`). Between the two
queries the rows must only grow, which is where `PrunesApart` enters.

### The mailbox, and the order of what is written

`NothingPassedOver` is far from inductive: a cursor jumps at `GoLive` over numbers that
reached the app in four different ways. The argument follows the numbers.

- `FeedInv`: every row is from the mesh, and the numbers in flight (held by
  the reader thread or posted and not fanned out) are the greatest ones, posted in
  order. This is where the loop's FIFO and the single reader thread enter
  (`HeadTaken`, `ReaderPosted`).
- `PendInv`: what a session has queued is ascending, right below what is in flight,
  and has no gap.
- `SelectInv`: between the count and the select, every waiting row beyond the offset
  and the limit comes by queue or fan-out, and the row at the offset is there. Ranks
  of rows are compared with `RanksAscend` and `EveryRankTaken`; the proof that the
  count establishes it is where a limit of 0 would break.
- `ReplayInv`: what the app has, what the replay still holds and what comes by itself
  are all that is in store (`Held`), and nothing in store at or below a replayed row
  is only queued. A prune makes `Held` smaller, so it disturbs nothing here.
- A live session has been given everything that is not in flight, so a fan-out, which
  takes the least of that, moves its cursor over nothing else; and `FlushMail`
  (with `FlushedAll`: the flush writes each frame it does not skip) brings a session
  from `ReplayInv` to that state.
- `SeenInv` says the same of the saved cursor, and gives the properties.

`ArrivalMail`, `FanoutMail`, `OwnStepMail`, `OtherStepMail` and `SeenStep` are the
step lemmas; `MeshSteps` sorts the actions into these cases. In the refinement an
arrival is `Arrive`, a prune `Throw` and every other step a `Serve` or a stutter.
`FlushKeepsAll` needs, besides, that every number is in store (`AllHeld`).

`FirstSeenInOrder` and `AtMostOneSecondCopy` come from `OrderInv`, which stands on
`FeedInv` alone and so holds for full queues, any limit, any prune and without a replay. What was
written to a session is in order and up to the replay's last row or the cursor
(`WrittenUpTo`), what it has queued is older than what is in flight (`QueuedBelow`),
and what the replay read ahead of its fan-out is the next number to be fanned out
(`ReadAhead`). The last is the heart of it: the rows may be ahead of every callback at
the select, but the session's wake-up is posted after them and the loop is FIFO, so
when the replay starts only the one number the reader thread held then can be left
(`AfterWake`).

### Maintenance

Clear data starts the numbering over while queues, sessions and threads still hold old
numbers, so `NumbersKnown` does not hold of `MSpec`. `CountsInv` keeps what is left of
it: every number is a natural one and every pending queue has some bound of its own,
which is what `Covered` needs. With it `CursorMoves` says which steps save a cursor
and for whom. `ResetHoldsWhileAway` needs `AwayInv`: a key is rewound only while its
saved cursor is 0 or gone, no session of it is registered and none has read its
cursor; `AwayUnmoved` shows that no delivery, flush or send is then on its behalf.

### The node table

`CacheInv` follows the set of favourites through the threads that hold it: unless
`doubtful`, at most one thread holds a set it has read (`OneHolder`), and once every
thread that changed a star has read it back, the holder's set, or the cache when
nobody holds one, is the table's (`HolderCurrent`).

The rest is about a handshake on its way: the node sends frame by frame, the reader
captures frame by frame, and packets, evictions and stars come in between. `WireInv`
ties them together with one existential (`Flow`): there is a sequence `T` of frames,
all the node has sent of its handshake on this connection, and a distance `d`, so that
what was captured are the first `d` of `T` and what is on the wire is the rest of `T`
among packets (`Stream`). `T` has the order of the firmware's listing (`Shape`), names
every node of the list or the node's user is in a packet behind it (`Listed`), and its
last word on a node in `fresh` is what the node says (`Fresh`; `StillSaid` for the
settled ones). A capture that ends turns this into `Whole`, `AllListed` and `Settled`,
which the other steps keep. There is one lemma for each kind of step and each of these
parts. While `torn` (a replacement failed half-way) nothing is claimed of
`config_frames`, not even their order. `NodeAssumption` says that the kinds of frames
are no node numbers, which is so by their types.

### The link

`SessionInv` says where the supervisor may be with an interface, with a live one and
with the flag up, `EndInv` and `HandshakeInv` what else its position tells; they
give `ConnectedHasInterface`. `NeverDialsItself` holds because the address checked is
the one dialled with (`aim`), although host and port are read one after the other.
`RefreshInv` distinguishes a handshake that is coming in from one that is stored, and
says of each that a change it misses leaves the timer, its firing or the kick behind.
`MovingInv` states how far the single request that moves the link has brought it:
what it compared is still so, and the field it has stored is the one it wants.

### The reports

`TextInv` and `RequestInv` relate where a sender's thread is to the row it has
written, `QueueInv` what the reader does with a queue status; `EarlyOK` is what makes
the list of early reports a dict (`Dict`), so that putting aside and taking out count
right. Between `setdefault` and the last step of the loop one entry too many may wait
(`Surplus`, in `TypeOK`). With `AppsWaitNever` and the sum itself (`OnceInv`) they form
`ReportsInv`, which is inductive. The second half of `EveryReportOnce` needs `ShortInv`
besides: what the race has cost a text, what waits for one that has looked already, and
a report the reader still holds because it missed the text are at most one together, and
nothing is astray before the text has looked. `BackedInv` adds that what a thread has in hand between the two writes
was logged, and gives `StatusBacked`; `ShownInv` that each logged report shows in the
status, is overruled in it, or is in such a hand (`Unapplied`), and gives
`EvidenceReflected`.

### The byte stream

The frames still to be found are laid over the stream still to be decoded, buffer and
wire together (`Layout`): each stands whole at its place, or would had the connection
not been cut, and no start of a frame outside of them declares a length a frame can
have. Everything `feed` throws away then lies before the first of the places, and the
first start with a possible length is the first of them, even when a payload looks
like a header itself. `AllStand` says that such a layout exists and that what was
found and what is laid out are what was sent; `BufferInv` is what `feed` leaves behind.

### Only model-checked

- Liveness under fairness (`GetsThrough`, `HandshakeEnds`, `TargetReached`,
  `ConfigCatchesUp`, `StopEnds`): out of the prover's reach, as is ENABLED.
- The four violations of section 3 (`NothingMissed`, `FlushSkipsOnlyCovered` with a web
  send, `DroppedMoveNoCursor`, `NothingStranded`): TLC shows the trace.
- What holds only under a premise, outside of it: `NothingPassedOver`,
  `FlushSkipsOnlyCovered` and `IsMailbox` with senders fail (run `out_of_order`), and
  nothing is claimed of the order of what is written when several threads number.

## 5. Not modelled

The other columns of the node table (names, positions, battery, last heard: each
upsert overwrites what it brings and no property relates them), the requests other
nodes make of ours, the cooldown of the exchange route (read on the loop, logged by a
worker: several clicks in flight all pass it, as the code allows), the telemetry series (pure; by
reading, `series.bucket` can return one bucket more than `points` when the span is
not a multiple of the width, and more with several kinds), positions and traffic
counters (plain inserts), the codec (pure), the web UI's read routes and its event
socket (no promise of order or delivery), settings and command line, the fake node,
logging, the browser front end, packaging.

## 6. Plan

Done: the store, the server and their proofs first, because every promise of the
README of the program is about them; then maintenance, reports, the link, the stream.

Then the node table (`NodeTable`) with the proof about its cache, and `Mailbox` as
what the server implements, with the proof that it does.

Then the proofs of all safety properties the runs check.

Next, in this order:

1. `NothingPassedOver` with senders as long as numbers are posted in order, so that
   its premise names exactly what run `out_of_order` breaks.
2. A clear's numbering epoch in `VNodeMaintenance`, so that `NothingPassedOver` can be
   stated across a clear.
3. `series.bucket` and `add_rates` as operators against a reference definition.
4. The cooldown of the exchange route, with its clock.
